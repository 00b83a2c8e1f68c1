SPECIFICATION FairSpec
CONSTANTS
  Urls = {u1, u2, u3}
  Blank = blank
  UrlLists <- AllLists
  Timeouts = {1, 4, 5}
  Ceiling = 2
  Early = 1
  Late = 1
INVARIANTS
  TypeOK
  WithinBudget
  SubmittedToOne
  AskedOnce
  RejectedWasNotTaken
  StallCostsOneCeiling
PROPERTIES
  CallEnds
CHECK_DEADLOCK FALSE
