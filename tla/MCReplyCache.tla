----------------------------- MODULE MCReplyCache -----------------------------
(* Instances of ReplyCache for TLC. *)
EXTENDS ReplyCache, TLC

Interchangeable == Permutations(Thread) \cup Permutations(Xid)
=============================================================================
