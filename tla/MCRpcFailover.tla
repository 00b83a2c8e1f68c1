---------------------------- MODULE MCRpcFailover ----------------------------
EXTENDS RpcFailover, TLC, SequencesExt

\* Every list of at most three entries.
AllLists == BoundedSeq(Urls \cup {Blank}, 3)
=============================================================================
