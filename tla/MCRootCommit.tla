----------------------------- MODULE MCRootCommit -----------------------------
(* Instances of RootCommit for TLC. *)
EXTENDS RootCommitInv, TLC

Alike == [kind \in Faults |-> 1]

\* With MaxFaults = 5: an unsupported swap and a failed read or Delete, which
\* its reclaim may meet; two failed reads or Deletes; or one of the others.
Graded ==
  [kind \in Faults |-> CASE kind = "unsupported" -> 3
                         [] kind \in {"read", "delete"} -> 2
                         [] OTHER -> 5]

\* Changes are interchangeable, and so are the mounts when all of them write.
Interchangeable == Permutations(Change) \cup Permutations(Mount)
=============================================================================
