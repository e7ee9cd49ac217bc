----------------------------- MODULE MCAttributes -----------------------------
(* Instances of Attributes for TLC. *)
EXTENDS Attributes, TLC

\* Root, and two users who share a group.
MCCallers ==
  {[uid |-> 0, gid |-> 0, gids |-> {}], [uid |-> 1, gid |-> 1, gids |-> {2}],
   [uid |-> 2, gid |-> 2, gids |-> {}]}

\* 0640, 0062 (the owner has less than the others), 0755.
MCModes ==
  {{<<"owner", "read">>, <<"owner", "write">>, <<"group", "read">>},
   {<<"group", "read">>, <<"group", "write">>, <<"other", "write">>},
   ({"owner"} \X Perm) \cup ({"group", "other"} \X {"read", "exec"})}

ThreadSymmetry == Permutations(Proc)
=============================================================================
