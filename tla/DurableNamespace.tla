--------------------------- MODULE DurableNamespace ---------------------------
(***************************************************************************)
(* What a bucket promises the mounts that share it, with no root pointer,  *)
(* snapshot, ETag or prune pass: one durable namespace that only grows,    *)
(* that a mount opens whole, and that contains every change acknowledged.  *)
(* Module RootCommit implements it.                                        *)
(***************************************************************************)
CONSTANTS Mount, Change

VARIABLES
  durable,   \* the changes in the namespace a new mount would open
  acked,     \* the changes a commit has been acknowledged for
  requested, \* the changes clients have asked for
  view       \* the namespace each mount serves, {} when it has none

vars == <<durable, acked, requested, view>>

Init ==
  /\ durable = {}
  /\ acked = {}
  /\ requested = {}
  /\ view = [m \in Mount |-> {}]

\* A mount opens the durable namespace as it stands, whole.
Open(m) ==
  /\ view' = [view EXCEPT ![m] = durable]
  /\ UNCHANGED <<durable, acked, requested>>

Close(m) ==
  /\ view' = [view EXCEPT ![m] = {}]
  /\ UNCHANGED <<durable, acked, requested>>

Request(c) ==
  /\ requested' = requested \cup {c}
  /\ UNCHANGED <<durable, acked, view>>

\* A requested change shows in one mount's namespace.
Perform(m, c) ==
  /\ c \in requested
  /\ view' = [view EXCEPT ![m] = @ \cup {c}]
  /\ UNCHANGED <<durable, acked, requested>>

\* A commit keeps what is durable and adds nothing no one asked for.
Commit ==
  /\ \E s \in SUBSET requested : durable \subseteq s /\ durable' = s
  /\ UNCHANGED <<acked, requested, view>>

\* Only what is durable is acknowledged.
Acknowledge ==
  /\ \E s \in SUBSET durable : acked' = acked \cup s
  /\ UNCHANGED <<durable, requested, view>>

Next ==
  \/ \E m \in Mount : Open(m) \/ Close(m)
  \/ \E c \in Change : Request(c) \/ \E m \in Mount : Perform(m, c)
  \/ Commit
  \/ Acknowledge

Spec == Init /\ [][Next]_vars
=============================================================================
