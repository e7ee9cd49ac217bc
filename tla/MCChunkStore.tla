----------------------------- MODULE MCChunkStore -----------------------------
(***************************************************************************)
(* Instances of ChunkStore: two chunks and caches that hold one of them    *)
(* only, either one, or both.                                              *)
(***************************************************************************)
EXTENDS ChunkStore

CONSTANTS small, large

MCSize == (small :> 1) @@ (large :> 2)

Symmetry == Permutations(Proc) \cup Permutations(File)
=============================================================================
