SPECIFICATION PartsSpec
CONSTANTS
  Calls = {c1, c2}
  Heads <- MHeads
  Environments <- MEnvironments
  maxConcurrentRequests = 1
  maxBodyBytes = 1
  Deployments <- MDeployments
  Queries <- MQueries
  Ttl = 2
  ProbeTime = 1
  LastTime = 6
  Hashes = {"h1", "h2"}
  NoHash = "none"
  Bundled = {"known", "away"}
  Home <- MHome
  OtherNames = {"foo"}
  NoName = "nothing"
  Manifest <- MManifest
  Invocations = {i1, i2}
  negativeCacheMaxEntries = 1
  Jobs = {j1}
  Requests <- MRequests
  Lifespan = 2
  MaxFee = 30
  MinClaim = 1
  VmMax = 999
  GasDecimals = 1
  TokenDecimals = 2
  Fees = {0, 10, 25}
  Wallets <- MWallets
  Top = 3
  Trees <- MTrees
  MaxParameterDepth = 2
  MaxParameterNodes = 5
  ToolCalls <- MToolCalls
  ReadAsks <- MReadAsks
  MaxLag = 1
  Week = 2
  ProposalAsks <- MProposalAsks
  NoDecimals = 99
  DecimalsOn <- MDecimalsOn
  MaxTokenDecimals = 2
  Base = 4
  WordBytes = 3
  AddressBytes = 2
  UrlLists <- MUrlLists
  Blank = "blank"
  Unusable = {"ftp"}
  Unlisted = {"eth_mining"}
INVARIANTS
  PartsTypeOK
  SlotsAreExact
  OnlyTheEntitled
  ToldIsTrue
  NamesAreSound
  SignedIsSound
  AskedAsOffered
PROPERTIES
  ReadingAndStoppingEnd
CHECK_DEADLOCK FALSE
