SPECIFICATION Spec
CONSTANTS
  Block = {b1}
  Thread = {t1, t2}
  Committer = committer
  Main = main
  Nobody = nobody
  Hows = {"unstable", "fileSync"}
  MaxWrites = 2
  MaxFaults = 0
  MaxOverlaps = 1
INVARIANTS ReplaysHarmless
