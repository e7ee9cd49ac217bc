------------------------------ MODULE RootCommit ------------------------------
(***************************************************************************)
(* The commit protocol of internal/blobfs/commit.go: several mounts of one *)
(* bucket, each of which loads the root pointer, changes its namespace in  *)
(* memory, and commits it by storing a snapshot and then compare-and-      *)
(* swapping the root pointer to name it.                                   *)
(*                                                                         *)
(* What is abstracted.                                                     *)
(*  - A namespace is the set of changes it contains.  A snapshot is the    *)
(*    set its seal fixed (body).  File data is module FileData's.          *)
(*  - A snapshot key is its epoch and its nonce, ordered as the key        *)
(*    strings are (the epoch is zero-padded, the nonce has a fixed width). *)
(*    Two attempts never draw the same nonce at one epoch.                 *)
(*  - A root pointer is the key it names: its other fields are fixed with  *)
(*    the key by the seal.  Both stores give the MD5 of a body as its      *)
(*    ETag and each attempt has one body, so an ETag is the key of the     *)
(*    root pointer it belongs to, and "" is None.                          *)
(*  - The store is strongly consistent.  A call takes effect between its   *)
(*    call and its return, except a root write given up on, which may      *)
(*    apply later (late).                                                  *)
(*  - commitMu is held from the top of Sync to its return, so a mount has  *)
(*    one commit at a time and pc is that commit's position.               *)
(***************************************************************************)
EXTENDS Integers, FiniteSets

CONSTANTS
  Mount,                  \* mounts of the bucket, one process each
  ReadOnly,               \* the mounts with Config.ReadOnly
  Change,                 \* namespace changes clients may make, each once
  MaxEpoch, MaxNonce,     \* bounds on the keys of snapshots
  Retention,              \* FS.retention; 0 keeps every snapshot
  AllowUnconditionalRoot, \* Config.AllowUnconditionalRoot
  Faults,                 \* the kinds of fault that may happen
  Weight, MaxFaults       \* what each kind counts, and the sum allowed

FaultKinds == {"crash", "read", "delete", "list", "put", "noETag", "refused",
               "lost", "late", "unsupported"}

ASSUME ConstantsAssumption ==
  /\ ReadOnly \subseteq Mount
  /\ MaxEpoch \in Nat
  /\ MaxNonce \in Nat
  /\ Retention \in Nat
  /\ AllowUnconditionalRoot \in BOOLEAN
  /\ Faults \subseteq FaultKinds
  /\ Weight \in [Faults -> Nat \ {0}]
  /\ MaxFaults \in Nat

Key == [epoch : 1 .. MaxEpoch, nonce : 1 .. MaxNonce]
None == [epoch |-> 0, nonce |-> 0]     \* the empty string: no key, no ETag
KeyOrNone == Key \cup {None}

\* k < c for the key strings.
Below(k, c) ==
  \/ k.epoch < c.epoch
  \/ k.epoch = c.epoch /\ k.nonce < c.nonce

VARIABLES
  \* the bucket
  root,           \* the key the root pointer names, None when there is none
  stored,         \* the snapshots in the bucket
  late,           \* root writes given up on that may still apply
  \* each mount's FS
  pc,             \* where its commit or its load stands
  serving,        \* New has returned it
  mode,           \* FS.mode
  knowledge,      \* FS.rootKnowledge
  epoch,          \* FS.epoch
  rootETag,       \* FS.rootETag
  rootSnapshot,   \* FS.rootSnapshot
  doubtKey,       \* FS.doubtKey
  inodes,         \* FS.inodes: the changes in the namespace
  changes,        \* FS.changes: the count markDirty advances
  dirty,          \* FS.dirty
  admitted,       \* changes past mutable() that have not taken FS.mu yet
  \* the commit in flight: its sealedCommit and the ETag to apply
  sealedKey, sealedETag, sealedChanges, newETag,
  \* the prune pass
  pruning,        \* "idle", or the step of the goroutine's pass
  current,        \* pruneSnapshots' current
  doomed,         \* the keys the pass has yet to delete
  \* history
  attempts,       \* the keys each mount has sealed, restarts included
  body,           \* the namespace the seal of each key fixed
  made,           \* changes clients have made
  acked,          \* changes a Sync that returned nil has covered
  faults          \* how many faults have happened

storeVars == <<root, stored, late>>
knowVars == <<knowledge, epoch, rootETag, rootSnapshot, doubtKey>>
nsVars == <<inodes, changes, dirty, admitted>>
flightVars == <<sealedKey, sealedETag, sealedChanges, newETag>>
pruneVars == <<pruning, current, doomed>>
sealVars == <<attempts, body>>
histVars == <<made, acked>>
vars == <<storeVars, pc, serving, mode, knowVars, nsVars, flightVars, pruneVars,
          sealVars, histVars, faults>>

-----------------------------------------------------------------------------
(* Types *)

Phase == {"down", "getSnapshot", "ready", "settle", "seal", "putSnapshot",
          "swap", "reclaim", "reclaimDelete", "fallback", "head", "probe",
          "apply", "exiting"}

LateWrite == [key : Key, ifMatch : KeyOrNone, unconditional : BOOLEAN]

TypeOK ==
  /\ root \in KeyOrNone
  /\ stored \subseteq Key
  /\ late \subseteq LateWrite
  /\ pc \in [Mount -> Phase]
  /\ serving \in [Mount -> BOOLEAN]
  /\ mode \in [Mount -> {"writable", "readOnly", "diverged"}]
  /\ knowledge \in [Mount -> {"known", "inDoubt"}]
  /\ epoch \in [Mount -> 0 .. MaxEpoch]
  /\ rootETag \in [Mount -> KeyOrNone]
  /\ rootSnapshot \in [Mount -> KeyOrNone]
  /\ doubtKey \in [Mount -> KeyOrNone]
  /\ inodes \in [Mount -> SUBSET Change]
  /\ changes \in [Mount -> Nat]
  /\ dirty \in [Mount -> BOOLEAN]
  /\ admitted \in [Mount -> SUBSET Change]
  /\ sealedKey \in [Mount -> KeyOrNone]
  /\ sealedETag \in [Mount -> KeyOrNone]
  /\ sealedChanges \in [Mount -> Nat]
  /\ newETag \in [Mount -> KeyOrNone]
  /\ pruning \in [Mount -> {"idle", "list", "delete"}]
  /\ current \in [Mount -> KeyOrNone]
  /\ doomed \in [Mount -> SUBSET Key]
  /\ attempts \in [Mount -> SUBSET Key]
  /\ body \in [Key -> SUBSET Change]
  /\ made \subseteq Change
  /\ acked \subseteq Change
  /\ faults \in 0 .. MaxFaults

InitialMode(m) == IF m \in ReadOnly THEN "readOnly" ELSE "writable"

Init ==
  /\ root = None
  /\ stored = {}
  /\ late = {}
  /\ pc = [m \in Mount |-> "down"]
  /\ serving = [m \in Mount |-> FALSE]
  /\ mode = [m \in Mount |-> InitialMode(m)]
  /\ knowledge = [m \in Mount |-> "known"]
  /\ epoch = [m \in Mount |-> 0]
  /\ rootETag = [m \in Mount |-> None]
  /\ rootSnapshot = [m \in Mount |-> None]
  /\ doubtKey = [m \in Mount |-> None]
  /\ inodes = [m \in Mount |-> {}]
  /\ changes = [m \in Mount |-> 0]
  /\ dirty = [m \in Mount |-> FALSE]
  /\ admitted = [m \in Mount |-> {}]
  /\ sealedKey = [m \in Mount |-> None]
  /\ sealedETag = [m \in Mount |-> None]
  /\ sealedChanges = [m \in Mount |-> 0]
  /\ newETag = [m \in Mount |-> None]
  /\ pruning = [m \in Mount |-> "idle"]
  /\ current = [m \in Mount |-> None]
  /\ doomed = [m \in Mount |-> {}]
  /\ attempts = [m \in Mount |-> {}]
  /\ body = [k \in Key |-> {}]
  /\ made = {}
  /\ acked = {}
  /\ faults = 0

-----------------------------------------------------------------------------
(* Steps shared by the actions *)

Goto(m, phase) == pc' = [pc EXCEPT ![m] = phase]

\* A commit returns, and its sealedCommit is gone.
Discard(m) ==
  /\ sealedKey' = [sealedKey EXCEPT ![m] = None]
  /\ sealedETag' = [sealedETag EXCEPT ![m] = None]
  /\ sealedChanges' = [sealedChanges EXCEPT ![m] = 0]
  /\ newETag' = [newETag EXCEPT ![m] = None]

\* A commit that returns an error: to the caller of Sync, or from New, whose
\* caller then gives the mount up.
ReturnError(m) ==
  /\ Goto(m, IF serving[m] THEN "ready" ELSE "exiting")
  /\ Discard(m)

\* One fault of the given kind.
Fault(kind) ==
  /\ kind \in Faults
  /\ faults + Weight[kind] <= MaxFaults
  /\ faults' = faults + Weight[kind]

\* Everything the process of m held in memory is gone.
Lose(m) ==
  /\ Goto(m, "down")
  /\ serving' = [serving EXCEPT ![m] = FALSE]
  /\ mode' = [mode EXCEPT ![m] = InitialMode(m)]
  /\ knowledge' = [knowledge EXCEPT ![m] = "known"]
  /\ epoch' = [epoch EXCEPT ![m] = 0]
  /\ rootETag' = [rootETag EXCEPT ![m] = None]
  /\ rootSnapshot' = [rootSnapshot EXCEPT ![m] = None]
  /\ doubtKey' = [doubtKey EXCEPT ![m] = None]
  /\ inodes' = [inodes EXCEPT ![m] = {}]
  /\ changes' = [changes EXCEPT ![m] = 0]
  /\ dirty' = [dirty EXCEPT ![m] = FALSE]
  /\ admitted' = [admitted EXCEPT ![m] = {}]
  /\ Discard(m)
  /\ pruning' = [pruning EXCEPT ![m] = "idle"]
  /\ current' = [current EXCEPT ![m] = None]
  /\ doomed' = [doomed EXCEPT ![m] = {}]

-----------------------------------------------------------------------------
(* Loading: New and loadOrInit *)

\* GetWithETag of the root pointer.  With none, a writable mount begins
\* initEmpty and a read-only one is refused, having changed nothing.  The two
\* fields set here are locals of loadOrInit until the snapshot is read; no
\* one else reads the FS before New returns it.
GetRoot(m) ==
  /\ pc[m] = "down"
  /\ \/ /\ root = None
        /\ m \notin ReadOnly
        /\ Goto(m, "seal")
        /\ UNCHANGED <<rootETag, rootSnapshot>>
     \/ /\ root # None
        /\ rootETag' = [rootETag EXCEPT ![m] = root]
        /\ rootSnapshot' = [rootSnapshot EXCEPT ![m] = root]
        /\ Goto(m, "getSnapshot")
  /\ UNCHANGED <<storeVars, serving, mode, knowledge, epoch, doubtKey, nsVars,
                 flightVars, pruneVars, sealVars, histVars, faults>>

\* Mutant: a missing snapshot is made up for by the newest one in the bucket.
GetSnapshotNewest(m) ==
  /\ pc[m] = "getSnapshot"
  /\ \E k \in stored :
       /\ \A j \in stored : ~Below(k, j)
       /\ inodes' = [inodes EXCEPT ![m] = body[k]]
       /\ epoch' = [epoch EXCEPT ![m] = k.epoch]
  /\ serving' = [serving EXCEPT ![m] = TRUE]
  /\ Goto(m, "ready")
  /\ UNCHANGED <<storeVars, mode, knowledge, rootETag, rootSnapshot, doubtKey,
                 changes, dirty, admitted, flightVars, pruneVars, sealVars,
                 histVars, faults>>

\* Get of the snapshot the root pointer named, and the end of New.  A prune
\* pass of another mount may have deleted it since: New then fails.
GetSnapshot(m) ==
  /\ pc[m] = "getSnapshot"
  /\ \/ /\ rootSnapshot[m] \in stored
        /\ inodes' = [inodes EXCEPT ![m] = body[rootSnapshot[m]]]
        /\ epoch' = [epoch EXCEPT ![m] = rootSnapshot[m].epoch]
        /\ serving' = [serving EXCEPT ![m] = TRUE]
        /\ Goto(m, "ready")
     \/ /\ rootSnapshot[m] \notin stored
        /\ Goto(m, "exiting")
        /\ UNCHANGED <<inodes, epoch, serving>>
  /\ UNCHANGED <<storeVars, mode, knowledge, rootETag, rootSnapshot, doubtKey,
                 changes, dirty, admitted, flightVars, pruneVars, sealVars,
                 histVars, faults>>

\* A process whose New returned an error ends.
Exit(m) ==
  /\ pc[m] = "exiting"
  /\ Lose(m)
  /\ UNCHANGED <<storeVars, sealVars, histVars, faults>>

\* The process of m dies, or an error ends it, at any point.
Crash(m) ==
  /\ pc[m] \notin {"down", "exiting"}
  /\ Fault("crash")
  /\ Lose(m)
  /\ UNCHANGED <<storeVars, sealVars, histVars>>

-----------------------------------------------------------------------------
(* Changing the namespace *)

\* A handler passes mutable(), which reads the mode and takes no lock.
Admit(m, c) ==
  /\ serving[m]
  /\ mode[m] = "writable"
  /\ c \notin made
  /\ made' = made \cup {c}
  /\ admitted' = [admitted EXCEPT ![m] = @ \cup {c}]
  /\ UNCHANGED <<storeVars, pc, serving, mode, knowVars, inodes, changes,
                 dirty, flightVars, pruneVars, sealVars, acked, faults>>

\* The handler takes FS.mu, changes the namespace and calls markDirty.
Mutate(m, c) ==
  /\ c \in admitted[m]
  /\ admitted' = [admitted EXCEPT ![m] = @ \ {c}]
  /\ inodes' = [inodes EXCEPT ![m] = @ \cup {c}]
  /\ changes' = [changes EXCEPT ![m] = @ + 1]
  /\ dirty' = [dirty EXCEPT ![m] = TRUE]
  /\ UNCHANGED <<storeVars, pc, serving, mode, knowVars, flightVars, pruneVars,
                 sealVars, histVars, faults>>

-----------------------------------------------------------------------------
(* The top of Sync, and the seal *)

\* A clean namespace: Sync returns nil and covers what the namespace holds.
SyncClean(m) ==
  /\ pc[m] = "ready"
  /\ ~dirty[m]
  /\ acked' = acked \cup inodes[m]
  /\ UNCHANGED <<storeVars, pc, serving, mode, knowVars, nsVars, flightVars,
                 pruneVars, sealVars, made, faults>>

\* Mutant: a root in doubt refuses the commit and is not settled.
SyncDirtyNoSettle(m) ==
  /\ pc[m] = "ready"
  /\ dirty[m]
  /\ mode[m] # "diverged"
  /\ IF knowledge[m] = "inDoubt" THEN UNCHANGED pc ELSE Goto(m, "seal")
  /\ UNCHANGED <<storeVars, serving, mode, knowVars, nsVars, flightVars,
                 pruneVars, sealVars, histVars, faults>>

\* A dirty one, of a mount not diverged: a root in doubt is settled first.
SyncDirty(m) ==
  /\ pc[m] = "ready"
  /\ dirty[m]
  /\ mode[m] # "diverged"
  /\ Goto(m, IF knowledge[m] = "inDoubt" THEN "settle" ELSE "seal")
  /\ UNCHANGED <<storeVars, serving, mode, knowVars, nsVars, flightVars,
                 pruneVars, sealVars, histVars, faults>>

\* A diverged mount's Sync returns an error and changes nothing.
SyncRefused(m) ==
  /\ pc[m] = "ready"
  /\ dirty[m]
  /\ mode[m] = "diverged"
  /\ UNCHANGED vars

\* Mutant: the condition of the swap is the ETag of the root pointer as it is
\* at the seal, rather than of the one the namespace descends from.
SealFreshETag(m) ==
  /\ pc[m] = "seal"
  /\ \E n \in 1 .. MaxNonce :
       LET k == [epoch |-> epoch[m] + 1, nonce |-> n]
       IN /\ k \in Key
          /\ \A o \in Mount : k \notin attempts[o]
          /\ attempts' = [attempts EXCEPT ![m] = @ \cup {k}]
          /\ body' = [body EXCEPT ![k] = inodes[m]]
          /\ sealedKey' = [sealedKey EXCEPT ![m] = k]
          /\ sealedETag' = [sealedETag EXCEPT ![m] = root]
          /\ sealedChanges' = [sealedChanges EXCEPT ![m] = changes[m]]
  /\ Goto(m, "putSnapshot")
  /\ UNCHANGED <<storeVars, serving, mode, knowVars, nsVars, newETag,
                 pruneVars, histVars, faults>>

\* The seal, in one hold of mu: the attempt's key, its snapshot, and the
\* copies of rootETag and changes.
Seal(m) ==
  /\ pc[m] = "seal"
  /\ \E n \in 1 .. MaxNonce :
       LET k == [epoch |-> epoch[m] + 1, nonce |-> n]
       IN /\ k \in Key
          /\ \A o \in Mount : k \notin attempts[o]
          /\ attempts' = [attempts EXCEPT ![m] = @ \cup {k}]
          /\ body' = [body EXCEPT ![k] = inodes[m]]
          /\ sealedKey' = [sealedKey EXCEPT ![m] = k]
          /\ sealedETag' = [sealedETag EXCEPT ![m] = rootETag[m]]
          /\ sealedChanges' = [sealedChanges EXCEPT ![m] = changes[m]]
  /\ Goto(m, "putSnapshot")
  /\ UNCHANGED <<storeVars, serving, mode, knowVars, nsVars, newETag,
                 pruneVars, histVars, faults>>

\* settleAll returns an error, so nothing is sealed.
SettleFails(m) ==
  /\ pc[m] = "seal"
  /\ serving[m]
  /\ Fault("put")
  /\ ReturnError(m)
  /\ UNCHANGED <<storeVars, serving, mode, knowVars, nsVars, pruneVars,
                 sealVars, histVars>>

-----------------------------------------------------------------------------
(* The flight: commitSealed *)

PutSnapshot(m) ==
  /\ pc[m] = "putSnapshot"
  /\ stored' = stored \cup {sealedKey[m]}
  /\ Goto(m, "swap")
  /\ UNCHANGED <<root, late, serving, mode, knowVars, nsVars, flightVars,
                 pruneVars, sealVars, histVars, faults>>

\* The Put returns an error, having taken effect or not.
PutSnapshotFails(m) ==
  /\ pc[m] = "putSnapshot"
  /\ Fault("put")
  /\ stored' \in {stored, stored \cup {sealedKey[m]}}
  /\ ReturnError(m)
  /\ UNCHANGED <<root, late, serving, mode, knowVars, nsVars, pruneVars,
                 sealVars, histVars>>

\* Mutant: the root pointer is written whatever it is.
ConditionIgnored(m) == TRUE

\* PutIfMatch's condition: If-Match sealedETag, If-None-Match for none.
ConditionHolds(m) == root = sealedETag[m]

\* The swap took effect, if its condition held, or it did not.
MayApply(m) ==
  \/ root' = root
  \/ ConditionHolds(m) /\ root' = sealedKey[m]

\* The attempt's key is kept as the one in doubt, and the probe follows.
RaiseDoubt(m) ==
  /\ knowledge' = [knowledge EXCEPT ![m] = "inDoubt"]
  /\ doubtKey' = [doubtKey EXCEPT ![m] = sealedKey[m]]
  /\ Goto(m, "probe")
  /\ UNCHANGED <<epoch, rootETag, rootSnapshot>>

UnchangedBySwap(m) ==
  UNCHANGED <<stored, serving, mode, nsVars, pruneVars, sealVars, histVars>>

\* Applied, with the new root pointer's ETag in the reply.
SwapOK(m) ==
  /\ pc[m] = "swap"
  /\ ConditionHolds(m)
  /\ root' = sealedKey[m]
  /\ newETag' = [newETag EXCEPT ![m] = sealedKey[m]]
  /\ Goto(m, "apply")
  /\ UnchangedBySwap(m)
  /\ UNCHANGED <<late, knowVars, sealedKey, sealedETag, sealedChanges, faults>>

\* ErrPrecondition, since the condition does not hold.
SwapConflict(m) ==
  /\ pc[m] = "swap"
  /\ ~ConditionHolds(m)
  /\ RaiseDoubt(m)
  /\ UnchangedBySwap(m)
  /\ UNCHANGED <<root, late, flightVars, faults>>

\* Applied, with no ETag in the reply.
SwapNoETag(m) ==
  /\ pc[m] = "swap"
  /\ Fault("noETag")
  /\ ConditionHolds(m)
  /\ root' = sealedKey[m]
  /\ RaiseDoubt(m)
  /\ UnchangedBySwap(m)
  /\ UNCHANGED <<late, flightVars>>

\* ErrPrecondition although the condition held (a 409 that answers a request
\* that met another, a proxy's repeat of a request that applied), or a
\* transport error: the reply does not say whether the write applied.
SwapUnknown(m) ==
  /\ pc[m] = "swap"
  /\ Fault("refused") \/ Fault("lost")
  /\ MayApply(m)
  /\ RaiseDoubt(m)
  /\ UnchangedBySwap(m)
  /\ UNCHANGED <<late, flightVars>>

\* A transport error, with the request still on its way to the store.
SwapDelayed(m) ==
  /\ pc[m] = "swap"
  /\ Fault("late")
  /\ late' = late \cup {[key |-> sealedKey[m], ifMatch |-> sealedETag[m],
                         unconditional |-> FALSE]}
  /\ RaiseDoubt(m)
  /\ UnchangedBySwap(m)
  /\ UNCHANGED <<root, flightVars>>

\* ErrUnsupported: the fallback with the operator's opt-in, the reclaim
\* without.  A store may answer it to a write it applied.
SwapUnsupported(m) ==
  /\ pc[m] = "swap"
  /\ Fault("unsupported")
  /\ MayApply(m)
  /\ Goto(m, IF AllowUnconditionalRoot THEN "fallback" ELSE "reclaim")
  /\ UnchangedBySwap(m)
  /\ UNCHANGED <<late, knowVars, flightVars>>

\* The reclaim's Get of the root pointer.  Only a read that shows another
\* root, or none, leads to the Delete; the attempt's own key leads to the
\* probe, which adopts it.
Reclaim(m) ==
  /\ pc[m] = "reclaim"
  /\ \/ /\ root # sealedKey[m]
        /\ Goto(m, "reclaimDelete")
        /\ UNCHANGED knowVars
     \/ /\ root = sealedKey[m]
        /\ RaiseDoubt(m)
  /\ UnchangedBySwap(m)
  /\ UNCHANGED <<root, late, flightVars, faults>>

\* The reclaim's Get fails, or gives a body that is no root pointer.
ReclaimFails(m) ==
  /\ pc[m] = "reclaim"
  /\ Fault("read")
  /\ RaiseDoubt(m)
  /\ UnchangedBySwap(m)
  /\ UNCHANGED <<root, late, flightVars>>

\* The refused attempt's snapshot is deleted, or the Delete fails and it
\* stays; the commit returns its refusal either way.
ReclaimDelete(m) ==
  /\ pc[m] = "reclaimDelete"
  /\ \/ stored' = stored \ {sealedKey[m]} /\ UNCHANGED faults
     \/ Fault("delete") /\ UNCHANGED stored
  /\ ReturnError(m)
  /\ UNCHANGED <<root, late, serving, mode, knowVars, nsVars, pruneVars,
                 sealVars, histVars>>

\* The unconditional Put of the root pointer.
FallbackPut(m) ==
  /\ pc[m] = "fallback"
  /\ root' = sealedKey[m]
  /\ Goto(m, "head")
  /\ UnchangedBySwap(m)
  /\ UNCHANGED <<late, knowVars, flightVars, faults>>

\* Mutant: an error of the Put is taken for success.
FallbackPutIgnored(m) ==
  /\ pc[m] = "fallback"
  /\ Fault("lost")
  /\ root' \in {root, sealedKey[m]}
  /\ Goto(m, "head")
  /\ UnchangedBySwap(m)
  /\ UNCHANGED <<late, knowVars, flightVars>>

\* Mutant: an error of the Put is taken to have changed nothing.
FallbackPutFinal(m) ==
  /\ pc[m] = "fallback"
  /\ Fault("lost")
  /\ root' \in {root, sealedKey[m]}
  /\ ReturnError(m)
  /\ UnchangedBySwap(m)
  /\ UNCHANGED <<late, knowVars>>

\* The Put returns an error, having taken effect or not, or being still on
\* its way; or it succeeded on a retry whose first request is.
FallbackPutFails(m) ==
  /\ pc[m] = "fallback"
  /\ \/ /\ Fault("lost")
        /\ root' \in {root, sealedKey[m]}
        /\ RaiseDoubt(m)
        /\ UNCHANGED late
     \/ /\ Fault("late")
        /\ late' = late \cup {[key |-> sealedKey[m], ifMatch |-> None,
                               unconditional |-> TRUE]}
        /\ \/ UNCHANGED root /\ RaiseDoubt(m)
           \/ root' = sealedKey[m] /\ Goto(m, "head") /\ UNCHANGED knowVars
  /\ UnchangedBySwap(m)
  /\ UNCHANGED flightVars

\* Head of the root pointer, for the ETag the Put did not give.
FallbackHead(m) ==
  /\ pc[m] = "head"
  /\ \/ /\ newETag' = [newETag EXCEPT ![m] = root]
        /\ Goto(m, "apply")
        /\ UNCHANGED <<knowVars, faults>>
     \/ /\ Fault("read")
        /\ RaiseDoubt(m)
        /\ UNCHANGED newETag
  /\ UnchangedBySwap(m)
  /\ UNCHANGED <<root, late, sealedKey, sealedETag, sealedChanges>>

\* A root write given up on reaches the store, which checks its condition.
ApplyLate(w) ==
  /\ late' = late \ {w}
  /\ root' = IF w.unconditional \/ root = w.ifMatch THEN w.key ELSE root
  /\ UNCHANGED <<stored, pc, serving, mode, knowVars, nsVars, flightVars,
                 pruneVars, sealVars, histVars, faults>>

-----------------------------------------------------------------------------
(* resolveRoot: one read of the root pointer settles a doubt.  The read and  *)
(* the hold of mu that applies its verdict are one step: commitMu keeps      *)
(* every other writer of the fields the verdict reads and sets out.          *)

ClassifyRoot(m) ==
  IF root = None THEN IF rootSnapshot[m] = None THEN "unchanged" ELSE "theirs"
  ELSE IF root = doubtKey[m] THEN "ours"
  ELSE IF root = rootSnapshot[m] THEN "unchanged" ELSE "theirs"

UnchangedByProbe(m) ==
  UNCHANGED <<storeVars, serving, nsVars, pruneVars, sealVars, histVars>>

\* Adopt the attempt.  In the flight the success path follows, in a second
\* hold of mu; at the top of Sync the commit goes on with dirty as it was.
ProbeOurs(m) ==
  /\ pc[m] \in {"probe", "settle"}
  /\ ClassifyRoot(m) = "ours"
  /\ knowledge' = [knowledge EXCEPT ![m] = "known"]
  /\ epoch' = [epoch EXCEPT ![m] = root.epoch]
  /\ rootETag' = [rootETag EXCEPT ![m] = root]
  /\ rootSnapshot' = [rootSnapshot EXCEPT ![m] = doubtKey[m]]
  /\ doubtKey' = [doubtKey EXCEPT ![m] = None]
  /\ newETag' = [newETag EXCEPT ![m] = IF pc[m] = "probe" THEN root ELSE @]
  /\ Goto(m, IF pc[m] = "probe" THEN "apply" ELSE "seal")
  /\ UnchangedByProbe(m)
  /\ UNCHANGED <<mode, sealedKey, sealedETag, sealedChanges, faults>>

\* Take the root pointer's ETag.  The flight returns an error; at the top of
\* Sync the commit goes on.
ProbeUnchanged(m) ==
  /\ pc[m] \in {"probe", "settle"}
  /\ ClassifyRoot(m) = "unchanged"
  /\ knowledge' = [knowledge EXCEPT ![m] = "known"]
  /\ rootETag' = [rootETag EXCEPT ![m] = root]
  /\ doubtKey' = [doubtKey EXCEPT ![m] = None]
  /\ \/ pc[m] = "probe" /\ ReturnError(m)
     \/ pc[m] = "settle" /\ Goto(m, "seal") /\ UNCHANGED flightVars
  /\ UnchangedByProbe(m)
  /\ UNCHANGED <<mode, epoch, rootSnapshot, faults>>

\* Another writer's root pointer: diverge, and stay in doubt.
ProbeTheirs(m) ==
  /\ pc[m] \in {"probe", "settle"}
  /\ ClassifyRoot(m) = "theirs"
  /\ mode' = [mode EXCEPT ![m] = "diverged"]
  /\ ReturnError(m)
  /\ UnchangedByProbe(m)
  /\ UNCHANGED <<knowVars, faults>>

\* The read fails, gives no ETag, or gives a body that is no root pointer.
ProbeFailed(m) ==
  /\ pc[m] \in {"probe", "settle"}
  /\ Fault("read")
  /\ ReturnError(m)
  /\ UnchangedByProbe(m)
  /\ UNCHANGED <<mode, knowVars>>

-----------------------------------------------------------------------------
(* applyLocked, and the prune pass it schedules *)

\* schedulePrune: one pass at a time, none when everything is kept.
SchedulePrune(m, k) ==
  IF Retention = 0 \/ pruning[m] # "idle"
  THEN UNCHANGED pruneVars
  ELSE /\ pruning' = [pruning EXCEPT ![m] = "list"]
       /\ current' = [current EXCEPT ![m] = k]
       /\ UNCHANGED doomed

\* Mutant: the namespace is clean after any commit.
ApplyCleans(m) ==
  /\ pc[m] = "apply"
  /\ epoch' = [epoch EXCEPT ![m] = sealedKey[m].epoch]
  /\ rootETag' = [rootETag EXCEPT ![m] = newETag[m]]
  /\ rootSnapshot' = [rootSnapshot EXCEPT ![m] = sealedKey[m]]
  /\ dirty' = [dirty EXCEPT ![m] = FALSE]
  /\ SchedulePrune(m, sealedKey[m])
  /\ acked' = acked \cup body[sealedKey[m]]
  /\ serving' = [serving EXCEPT ![m] = TRUE]
  /\ Goto(m, "ready")
  /\ Discard(m)
  /\ UNCHANGED <<storeVars, mode, knowledge, doubtKey, inodes, changes,
                 admitted, sealVars, made, faults>>

\* The namespace stays dirty if it changed since the seal.  The commit
\* returns nil, and covers what was sealed.
Apply(m) ==
  /\ pc[m] = "apply"
  /\ epoch' = [epoch EXCEPT ![m] = sealedKey[m].epoch]
  /\ rootETag' = [rootETag EXCEPT ![m] = newETag[m]]
  /\ rootSnapshot' = [rootSnapshot EXCEPT ![m] = sealedKey[m]]
  /\ dirty' = [dirty EXCEPT ![m] = changes[m] # sealedChanges[m]]
  /\ SchedulePrune(m, sealedKey[m])
  /\ acked' = acked \cup body[sealedKey[m]]
  /\ serving' = [serving EXCEPT ![m] = TRUE]
  /\ Goto(m, "ready")
  /\ Discard(m)
  /\ UNCHANGED <<storeVars, mode, knowledge, doubtKey, inodes, changes,
                 admitted, sealVars, made, faults>>

\* Mutant: the newest of all the keys are kept.
PrunableOfAll(keys, cur, keep) ==
  {k \in keys : Cardinality({j \in keys : Below(k, j)}) >= keep}

\* Mutant: the keys of the current epoch count as below it.
PrunableByEpoch(keys, cur, keep) ==
  LET below == {k \in keys : k.epoch <= cur.epoch}
  IN {k \in below : Cardinality({j \in below : Below(k, j)}) >= keep}

\* Of the keys below current, every one but the newest keep.
Prunable(keys, cur, keep) ==
  LET below == {k \in keys : Below(k, cur)}
  IN {k \in below : Cardinality({j \in below : Below(k, j)}) >= keep}

UnchangedByPrune(m) ==
  UNCHANGED <<root, late, pc, serving, mode, knowVars, nsVars, flightVars,
              sealVars, histVars>>

\* The pass lists the snapshots, or fails to and ends.
PruneList(m) ==
  /\ pruning[m] = "list"
  /\ \/ /\ doomed' = [doomed EXCEPT ![m] = Prunable(stored, current[m], Retention)]
        /\ pruning' = [pruning EXCEPT ![m] = "delete"]
        /\ UNCHANGED <<current, faults>>
     \/ /\ Fault("list")
        /\ pruning' = [pruning EXCEPT ![m] = "idle"]
        /\ current' = [current EXCEPT ![m] = None]
        /\ UNCHANGED doomed
  /\ UnchangedByPrune(m)
  /\ UNCHANGED stored

\* It deletes the doomed keys in ascending order; a failed Delete is skipped.
PruneDelete(m) ==
  /\ pruning[m] = "delete"
  /\ \E k \in doomed[m] :
       /\ \A j \in doomed[m] : ~Below(j, k)
       /\ \/ stored' = stored \ {k} /\ UNCHANGED faults
          \/ Fault("delete") /\ UNCHANGED stored
       /\ doomed' = [doomed EXCEPT ![m] = @ \ {k}]
  /\ UnchangedByPrune(m)
  /\ UNCHANGED <<pruning, current>>

\* Mutant: a pass that ends leaves FS.pruning set.
PruneEndKeepsFlag(m) ==
  /\ pruning[m] = "delete"
  /\ doomed[m] = {}
  /\ UnchangedByPrune(m)
  /\ UNCHANGED <<pruning, current, stored, doomed, faults>>

PruneEnd(m) ==
  /\ pruning[m] = "delete"
  /\ doomed[m] = {}
  /\ pruning' = [pruning EXCEPT ![m] = "idle"]
  /\ current' = [current EXCEPT ![m] = None]
  /\ UnchangedByPrune(m)
  /\ UNCHANGED <<stored, doomed, faults>>

-----------------------------------------------------------------------------
\* What a mount's committer does when the store answers.
CommitStep(m) ==
  \/ SyncClean(m) \/ SyncDirty(m) \/ SyncRefused(m) \/ Seal(m) \/ PutSnapshot(m)
  \/ SwapOK(m) \/ SwapConflict(m) \/ Reclaim(m) \/ ReclaimDelete(m)
  \/ FallbackPut(m) \/ FallbackHead(m)
  \/ ProbeOurs(m) \/ ProbeUnchanged(m) \/ ProbeTheirs(m) \/ Apply(m)

PruneStep(m) == PruneList(m) \/ PruneDelete(m) \/ PruneEnd(m)

LoadStep(m) == GetRoot(m) \/ GetSnapshot(m) \/ Exit(m)

\* What happens when it does not.
FaultStep(m) ==
  \/ Crash(m) \/ SettleFails(m) \/ PutSnapshotFails(m) \/ SwapNoETag(m)
  \/ SwapUnknown(m) \/ SwapDelayed(m) \/ SwapUnsupported(m) \/ ReclaimFails(m)
  \/ FallbackPutFails(m) \/ ProbeFailed(m)

Next ==
  \/ \E m \in Mount :
       \/ CommitStep(m) \/ PruneStep(m) \/ LoadStep(m) \/ FaultStep(m)
       \/ \E c \in Change : Admit(m, c) \/ Mutate(m, c)
  \/ \E w \in late : ApplyLate(w)

Spec == Init /\ [][Next]_vars

-----------------------------------------------------------------------------
(* Properties *)

\* What a mount that loaded the bucket now would see.
Content(k) == IF k = None THEN {} ELSE body[k]
Durable == Content(root)

\* The snapshot the root pointer names is in the bucket: whatever the order of
\* seals, swaps, lost replies, reclaims, prune passes and crashes of all the
\* mounts, the bucket can be mounted (Sync's comment, "never a root pointer
\* that names data which does not exist"; pruneSnapshots; the reclaim).
RootLoadable == root # None => root \in stored

\* A change covered by a Sync that returned nil is in the namespace the root
\* pointer names, now and ever after, whoever commits next (commitSealed,
\* applyLocked's clearing of dirty, and Sync's return on a clean namespace).
NoLostAck == acked \subseteq Durable

\* Every key a prune pass has yet to delete sorts below the key the root
\* pointer names, however commits and late replies overlap the pass
\* (pruneSnapshots).
PruneBelowRoot == \A m \in Mount : \A k \in doomed[m] : Below(k, root)

\* Every write of the root pointer that takes effect moves it to the next
\* epoch and keeps all that the root pointer named before (the compare-and-
\* swap in commitSealed; initEmpty's create, which wins at most once).
RootAdvances ==
  [][root' # root => /\ root'.epoch = root.epoch + 1
                     /\ Durable \subseteq Durable']_vars

\* A mount diverges only on a root pointer another mount wrote: none of its
\* own attempts, whatever became of its reply, is taken for a second writer
\* (classifyRoot, resolveRoot).
DivergesOnlyOnAnother ==
  [][\A m \in Mount :
       mode[m] # "diverged" /\ mode'[m] = "diverged"
         => root # None /\ root \notin attempts[m]]_vars

\* The mounts and the bucket implement one durable namespace that only grows,
\* is opened whole, holds every acknowledged change and nothing no client
\* asked for.  A mount's load takes effect when it reads the root pointer.
View == [m \in Mount |-> IF pc[m] = "getSnapshot" THEN Content(rootSnapshot[m])
                         ELSE IF pc[m] = "exiting" THEN {} ELSE inodes[m]]
Abstract == INSTANCE DurableNamespace
              WITH durable <- Durable, requested <- made, view <- View
ImplementsDurableNamespace == Abstract!Spec

-----------------------------------------------------------------------------
(* Liveness.  The committer's ticker and Go's scheduler keep a mount's       *)
(* commit and its prune pass running; clients, loads and faults are free.    *)

FairSpec ==
  /\ Spec
  /\ \A m \in Mount : WF_vars(CommitStep(m)) /\ WF_vars(PruneStep(m))

\* A change in a mount's namespace is acknowledged in the end, and is in the
\* commit the mount then descends from, past every lost reply, refused swap
\* and failed read, unless the mount dies or a root pointer it does not know
\* made it diverge (committer, Sync, resolveRoot).
ChangesCommitted ==
  \A m \in Mount : \A c \in Change :
    c \in inodes[m]
      ~> \/ c \in acked \cap Content(rootSnapshot[m])
         \/ mode[m] = "diverged" \/ ~serving[m]

\* A doubt about the root pointer is settled in the end (the top of Sync).
DoubtSettled ==
  \A m \in Mount :
    knowledge[m] = "inDoubt"
      ~> knowledge[m] = "known" \/ mode[m] = "diverged" \/ ~serving[m]

\* A prune pass ends, so that a later commit may begin another.
PruneEnds == \A m \in Mount : pruning[m] # "idle" ~> pruning[m] = "idle"
=============================================================================
