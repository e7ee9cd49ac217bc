---------------------------- MODULE RootCommitInv ----------------------------
(***************************************************************************)
(* The inductive invariant of RootCommit for mounts whose every write of   *)
(* the root pointer is conditional (~AllowUnconditionalRoot).  None of the *)
(* safety properties of RootCommit is inductive: each rests on what a      *)
(* mount's memory, a write still on its way and a running prune pass know  *)
(* of the root pointer, which may have moved on since.                     *)
(***************************************************************************)
EXTENDS RootCommit

\* TypeOK is not inductive alone: a commit in flight has a key.
SealedTyped ==
  \A m \in Mount :
    pc[m] \in {"putSnapshot", "swap", "reclaim", "reclaimDelete", "fallback",
               "head", "probe", "apply"} => sealedKey[m] \in Key

IsSealed(k) == k = None \/ \E m \in Mount : k \in attempts[m]

\* The root pointer names k now, or named it at an earlier epoch, and has
\* kept all that k holds.
Past(k) ==
  /\ IsSealed(k)
  /\ k = root \/ k.epoch < root.epoch
  /\ Content(k) \subseteq Durable

\* k is a commit on top of e.
Descends(k, e) ==
  /\ k.epoch = e.epoch + 1
  /\ Content(e) \subseteq Content(k)

StoreInv ==
  /\ IsSealed(root)
  /\ root # None => root \in stored
  /\ acked \subseteq Durable

AttemptsInv ==
  /\ \A m, o \in Mount : m # o => attempts[m] \cap attempts[o] = {}
  /\ \A k \in stored : IsSealed(k)

\* A write given up on can still apply only on the root it was made against,
\* and then its snapshot is still there.
LateInv ==
  \A w \in late :
    /\ ~w.unconditional
    /\ IsSealed(w.key)
    /\ Past(w.ifMatch)
    /\ Descends(w.key, w.ifMatch)
    /\ root = w.ifMatch => w.key \in stored

\* What a mount knows of the root pointer was true of it once.
KnowInv(m) ==
  /\ rootETag[m] = rootSnapshot[m]
  /\ Past(rootSnapshot[m])
  /\ pc[m] \notin {"getSnapshot", "exiting"}
       => epoch[m] = rootSnapshot[m].epoch /\ Content(rootSnapshot[m]) \subseteq inodes[m]
  /\ ~dirty[m] => inodes[m] \subseteq Durable

DoubtInv(m) ==
  /\ pc[m] \notin {"ready", "settle", "probe", "exiting"} => knowledge[m] = "known"
  /\ pc[m] \in {"settle", "probe"} => knowledge[m] = "inDoubt"
  /\ knowledge[m] = "inDoubt" =>
       /\ doubtKey[m] \in attempts[m]
       /\ Descends(doubtKey[m], rootSnapshot[m])
       /\ pc[m] # "exiting" => body[doubtKey[m]] \subseteq inodes[m]

\* The attempt in flight, and what is left of it to happen.
FlightInv(m) ==
  /\ pc[m] \notin {"fallback", "head"}
  /\ pc[m] \in {"putSnapshot", "swap", "reclaim", "reclaimDelete", "probe", "apply"} =>
       /\ sealedKey[m] \in attempts[m]
       /\ body[sealedKey[m]] \subseteq inodes[m]
       /\ sealedChanges[m] <= changes[m]
       /\ sealedChanges[m] = changes[m] => inodes[m] = body[sealedKey[m]]
  /\ pc[m] \in {"putSnapshot", "swap", "reclaim", "reclaimDelete", "probe"} =>
       /\ sealedETag[m] = rootSnapshot[m]
       /\ Descends(sealedKey[m], sealedETag[m])
  /\ pc[m] \in {"putSnapshot", "swap", "reclaim", "reclaimDelete"} =>
       \A w \in late : w.key # sealedKey[m]
  /\ pc[m] = "swap" /\ root = sealedETag[m] => sealedKey[m] \in stored
  /\ pc[m] = "reclaimDelete" => root # sealedKey[m]
  /\ pc[m] = "probe" => doubtKey[m] = sealedKey[m]
  /\ pc[m] = "apply" => newETag[m] = sealedKey[m] /\ Past(sealedKey[m])

PruneInv(m) ==
  /\ Past(current[m])
  /\ pruning[m] # "delete" => doomed[m] = {}
  /\ \A k \in doomed[m] : Below(k, current[m])

\* What the safety theorems of RootCommit rest on: the bucket, every mount and
\* every late write agree on which root pointers there have been (commitSealed,
\* resolveRoot, pruneSnapshots).
Inductive ==
  /\ TypeOK
  /\ SealedTyped
  /\ StoreInv
  /\ AttemptsInv
  /\ LateInv
  /\ \A m \in Mount : KnowInv(m) /\ DoubtInv(m) /\ FlightInv(m) /\ PruneInv(m)
=============================================================================
