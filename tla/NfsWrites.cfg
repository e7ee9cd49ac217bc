SPECIFICATION FairSpec
CONSTANTS
  Block = {b1}
  Thread = {t1, t2}
  Committer = committer
  Main = main
  Nobody = nobody
  Hows = {"unstable", "fileSync"}
  MaxWrites = 2
  MaxFaults = 1
  MaxOverlaps = 0
INVARIANTS DiscardedDurable CleanExitCovers
PROPERTIES WritesSettle
