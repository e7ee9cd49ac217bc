------------------------------ MODULE MCFileData ------------------------------
(* Instances of FileData for TLC. *)
EXTENDS FileData, TLC

\* Two threads write over a whole chunk, and across two chunks to past the
\* size limit, truncate inside either chunk and commit.
Commits ==
  [kinds |-> {"write", "truncate", "commit"}, ranges |-> {<<2, 4>>, <<0, 3>>},
   sizes |-> {1, 2, 4}, threads |-> 2, calls |-> 4]

\* Two threads, whose writes may be stable and one of which may unlink the file.
Stable ==
  [kinds |-> {"write", "stableWrite", "truncate", "sync", "unlink"}, ranges |-> {<<2, 2>>},
   sizes |-> {1}, threads |-> 2, calls |-> 3]

\* Three threads, one of which unlinks the file.
Unlink ==
  [kinds |-> {"write", "truncate", "sync", "unlink"}, ranges |-> {<<2, 2>>},
   sizes |-> {1}, threads |-> 3, calls |-> 3]

MCLoads == {Commits, Stable, Unlink}

ThreadSymmetry == Permutations(Proc)
=============================================================================
