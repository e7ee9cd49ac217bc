CONSTANTS
  Proc = {p1, p2, p3}
  Nobody = Nobody
  ChunkSize = 3
  MaxSize = 5
  InitSizes = {5}
  Loads <- MCLoads
  MaxFaults = 1
SPECIFICATION Spec
SYMMETRY ThreadSymmetry
INVARIANTS TypeOK ReadsHeld TrimsSound SealSettled CommitCovers RefsStored ChargeExact
PROPERTIES NoCutByteSealed
