-------------------------- MODULE RootCommitProofs --------------------------
(***************************************************************************)
(* Proofs about the commit protocol of RootCommit for every set of mounts  *)
(* and changes and every bound: the inductive invariant of RootCommitInv,  *)
(* the safety properties that follow from it, what a mount that diverges   *)
(* has met, and that the mounts implement DurableNamespace.                *)
(***************************************************************************)
EXTENDS RootCommitInv, TLAPS

-----------------------------------------------------------------------------
(* The types *)

\* No key is the empty one, and the epochs and nonces of keys are in range
\* (the zero-padded key strings of sealedCommit).
LEMMA KeyFacts ==
  /\ None \notin Key
  /\ None.epoch = 0
  /\ \A k \in Key : k.epoch \in 1 .. MaxEpoch /\ k.nonce \in 1 .. MaxNonce
BY SMTT(60), ConstantsAssumption DEF Key, None

\* A fault of any kind keeps the sum of the weights in its bound.
LEMMA FaultCounted ==
  ASSUME faults \in 0 .. MaxFaults, NEW kind, Fault(kind)
  PROVE  faults' \in 0 .. MaxFaults
BY SMTT(60), ConstantsAssumption DEF Fault

\* The types hold before any mount opens the bucket.
LEMMA TypeInit == Init => TypeOK /\ SealedTyped
BY SMTT(60), ConstantsAssumption DEF Init, TypeOK, SealedTyped, Phase,
   InitialMode, KeyOrNone

\* Every step of every handler keeps the types, and a commit in flight keeps
\* its key (seal, commitSealed, applyLocked).
LEMMA TypeStep == TypeOK /\ SealedTyped /\ [Next]_vars => TypeOK' /\ SealedTyped'
<1> SUFFICES ASSUME TypeOK, SealedTyped, [Next]_vars
             PROVE  TypeOK' /\ SealedTyped'
  BY Zenon
<1> USE ConstantsAssumption, KeyFacts
<1> USE DEF TypeOK, SealedTyped, KeyOrNone, Phase, storeVars, knowVars, nsVars, flightVars,
        pruneVars, sealVars, histVars
<1>1. ASSUME NEW m \in Mount, SyncClean(m) PROVE TypeOK' /\ SealedTyped'
  BY Zenon, <1>1 DEF SyncClean
<1>2. ASSUME NEW m \in Mount, SyncDirty(m) PROVE TypeOK' /\ SealedTyped'
  BY Zenon, <1>2 DEF SyncDirty, Goto
<1>3. ASSUME NEW m \in Mount, SyncRefused(m) PROVE TypeOK' /\ SealedTyped'
  BY Zenon, <1>3 DEF SyncRefused, vars
<1>4. ASSUME NEW m \in Mount, Seal(m) PROVE TypeOK' /\ SealedTyped'
  BY SMTT(60), <1>4 DEF Seal, Goto
<1>5. ASSUME NEW m \in Mount, PutSnapshot(m) PROVE TypeOK' /\ SealedTyped'
  BY Zenon, <1>5 DEF PutSnapshot, Goto
<1>6. ASSUME NEW m \in Mount, SwapOK(m) PROVE TypeOK' /\ SealedTyped'
  BY Zenon, <1>6 DEF SwapOK, Goto, ConditionHolds, UnchangedBySwap
<1>7. ASSUME NEW m \in Mount, SwapConflict(m) PROVE TypeOK' /\ SealedTyped'
  BY Zenon, <1>7 DEF SwapConflict, Goto, ConditionHolds, RaiseDoubt,
     UnchangedBySwap
<1>8. ASSUME NEW m \in Mount, Reclaim(m) PROVE TypeOK' /\ SealedTyped'
  BY SMTT(60), <1>8 DEF Reclaim, Goto, RaiseDoubt, UnchangedBySwap
<1>9. ASSUME NEW m \in Mount, ReclaimDelete(m) PROVE TypeOK' /\ SealedTyped'
  BY SMTT(60), <1>9 DEF ReclaimDelete, Goto, ReturnError, Discard, Fault
<1>10. ASSUME NEW m \in Mount, FallbackPut(m) PROVE TypeOK' /\ SealedTyped'
  BY Zenon, <1>10 DEF FallbackPut, Goto, UnchangedBySwap
<1>11. ASSUME NEW m \in Mount, FallbackHead(m) PROVE TypeOK' /\ SealedTyped'
  <2>1. CASE Goto(m, "apply") /\ UNCHANGED <<knowVars, faults>>
    BY SMTT(60), <1>11, <2>1 DEF FallbackHead, Goto, UnchangedBySwap
  <2>2. CASE Fault("read") /\ RaiseDoubt(m) /\ UNCHANGED newETag
    BY SMTT(60), <1>11, <2>2 DEF FallbackHead, Goto, RaiseDoubt,
       UnchangedBySwap, Fault
  <2> QED
    BY Zenon, <1>11, <2>1, <2>2 DEF FallbackHead
<1>12. ASSUME NEW m \in Mount, ProbeOurs(m) PROVE TypeOK' /\ SealedTyped'
  BY SMTT(60), <1>12 DEF ProbeOurs, Goto, ClassifyRoot, UnchangedByProbe
<1>13. ASSUME NEW m \in Mount, ProbeUnchanged(m) PROVE TypeOK' /\ SealedTyped'
  <2>1. CASE pc[m] = "probe"
    <3>1. pc' \in [Mount -> Phase] /\ pc'[m] \in {"ready", "exiting"}
      BY ZenonT(60), <1>13, <2>1 DEF ProbeUnchanged, ReturnError, Goto
    <3>2. \A o \in Mount \ {m} : pc'[o] = pc[o] /\ sealedKey'[o] = sealedKey[o]
      BY Zenon, <1>13, <2>1 DEF ProbeUnchanged, ReturnError, Goto, Discard
    <3>3. SealedTyped'
      BY Zenon, <3>1, <3>2
    <3>4. Discard(m)
      BY Zenon, <1>13, <2>1 DEF ProbeUnchanged, ReturnError
    <3> HIDE DEF SealedTyped, Phase
    <3> QED
      BY Zenon, <1>13, <3>1, <3>3, <3>4 DEF ProbeUnchanged, Discard,
         UnchangedByProbe
  <2>2. CASE pc[m] = "settle"
    BY SMTT(60), <1>13, <2>2 DEF ProbeUnchanged, Goto, UnchangedByProbe
  <2> QED
    BY Zenon, <1>13, <2>1, <2>2 DEF ProbeUnchanged
<1>14. ASSUME NEW m \in Mount, ProbeTheirs(m) PROVE TypeOK' /\ SealedTyped'
  BY Zenon, <1>14 DEF ProbeTheirs, ReturnError, Goto, Discard, UnchangedByProbe
<1>15. ASSUME NEW m \in Mount, Apply(m) PROVE TypeOK' /\ SealedTyped'
  BY SMTT(60), <1>15 DEF Apply, Goto, Discard, SchedulePrune
<1>16. ASSUME NEW m \in Mount, PruneList(m) PROVE TypeOK' /\ SealedTyped'
  <2>1. Prunable(stored, current[m], Retention) \subseteq Key
    BY Zenon DEF Prunable
  <2>2. CASE pruning' = [pruning EXCEPT ![m] = "delete"] /\ UNCHANGED faults
    BY SMTT(60), <1>16, <2>1, <2>2 DEF PruneList, Fault, UnchangedByPrune
  <2>3. CASE pruning' = [pruning EXCEPT ![m] = "idle"] /\ Fault("list")
    BY SMTT(60), <1>16, <2>1, <2>3 DEF PruneList, Fault, UnchangedByPrune
  <2> QED
    BY Zenon, <1>16, <2>2, <2>3 DEF PruneList
<1>17. ASSUME NEW m \in Mount, PruneDelete(m) PROVE TypeOK' /\ SealedTyped'
  BY SMTT(60), <1>17 DEF PruneDelete, Fault, UnchangedByPrune
<1>18. ASSUME NEW m \in Mount, PruneEnd(m) PROVE TypeOK' /\ SealedTyped'
  BY Zenon, <1>18 DEF PruneEnd, UnchangedByPrune
<1>19. ASSUME NEW m \in Mount, GetRoot(m) PROVE TypeOK' /\ SealedTyped'
  <2>1. CASE root = None
    BY SMTT(60), <1>19, <2>1 DEF GetRoot, Goto
  <2>2. CASE root # None
    BY SMTT(60), <1>19, <2>2 DEF GetRoot, Goto
  <2> QED
    BY Zenon, <2>1, <2>2
<1>20. ASSUME NEW m \in Mount, GetSnapshot(m) PROVE TypeOK' /\ SealedTyped'
  <2>1. CASE rootSnapshot[m] \in stored
    <3>1. /\ body[rootSnapshot[m]] \in SUBSET Change
          /\ rootSnapshot[m].epoch \in 0 .. MaxEpoch
      BY SMTT(60), <2>1
    <3> QED
      BY ZenonT(30), <1>20, <2>1, <3>1 DEF GetSnapshot, Goto
  <2>2. CASE rootSnapshot[m] \notin stored
    BY SMTT(60), <1>20, <2>2 DEF GetSnapshot, Goto
  <2> QED
    BY Zenon, <2>1, <2>2
<1>21. ASSUME NEW m \in Mount, Exit(m) PROVE TypeOK' /\ SealedTyped'
  BY SMTT(60), <1>21 DEF Exit, Lose, Goto, Discard, InitialMode
<1>22. ASSUME NEW m \in Mount, Crash(m) PROVE TypeOK' /\ SealedTyped'
  BY SMTT(60), <1>22 DEF Crash, Fault, Lose, Goto, Discard, InitialMode
<1>23. ASSUME NEW m \in Mount, SettleFails(m) PROVE TypeOK' /\ SealedTyped'
  BY SMTT(60), <1>23 DEF SettleFails, Fault, ReturnError, Goto, Discard
<1>24. ASSUME NEW m \in Mount, PutSnapshotFails(m) PROVE TypeOK' /\ SealedTyped'
  BY SMTT(60), <1>24 DEF PutSnapshotFails, Fault, ReturnError, Goto, Discard
<1>25. ASSUME NEW m \in Mount, SwapNoETag(m) PROVE TypeOK' /\ SealedTyped'
  BY SMTT(60), <1>25 DEF SwapNoETag, Fault, ConditionHolds, RaiseDoubt, Goto,
     UnchangedBySwap
<1>26. ASSUME NEW m \in Mount, SwapUnknown(m) PROVE TypeOK' /\ SealedTyped'
  BY SMTT(60), <1>26 DEF SwapUnknown, Fault, ConditionHolds, MayApply,
     RaiseDoubt, Goto, UnchangedBySwap
<1>27. ASSUME NEW m \in Mount, SwapDelayed(m) PROVE TypeOK' /\ SealedTyped'
  <2>1. [key |-> sealedKey[m], ifMatch |-> sealedETag[m],
         unconditional |-> FALSE] \in LateWrite
    BY Zenon, <1>27 DEF SwapDelayed, LateWrite
  <2>2. late' \subseteq LateWrite
    BY Zenon, <1>27, <2>1 DEF SwapDelayed
  <2> QED
    BY SMTT(60), <1>27, <2>2 DEF SwapDelayed, Fault, RaiseDoubt, Goto,
       UnchangedBySwap
<1>28. ASSUME NEW m \in Mount, SwapUnsupported(m) PROVE TypeOK' /\ SealedTyped'
  BY SMTT(60), <1>28 DEF SwapUnsupported, Fault, ConditionHolds, MayApply,
     Goto, UnchangedBySwap
<1>29. ASSUME NEW m \in Mount, ReclaimFails(m) PROVE TypeOK' /\ SealedTyped'
  BY SMTT(60), <1>29 DEF ReclaimFails, Fault, RaiseDoubt, Goto, UnchangedBySwap
<1>30. ASSUME NEW m \in Mount, FallbackPutFails(m) PROVE TypeOK' /\ SealedTyped'
  <2>1. [key |-> sealedKey[m], ifMatch |-> None, unconditional |-> TRUE]
          \in LateWrite
    BY Zenon, <1>30 DEF FallbackPutFails, LateWrite
  <2>2. late' \subseteq LateWrite
    BY ZenonT(60), <1>30, <2>1 DEF FallbackPutFails
  <2>3. root' \in KeyOrNone
    BY Zenon, <1>30 DEF FallbackPutFails
  <2>4. CASE pc' = [pc EXCEPT ![m] = "probe"]
    <3>1. faults' \in 0 .. MaxFaults
      BY Zenon, <1>30, FaultCounted DEF FallbackPutFails
    <3>2. pc'[m] # "head"
      BY Zenon, <2>4
    <3>3. RaiseDoubt(m)
      BY Zenon, <1>30, <3>2 DEF FallbackPutFails, Goto
    <3> QED
      BY Zenon, <1>30, <2>2, <2>3, <2>4, <3>1, <3>3 DEF FallbackPutFails,
         RaiseDoubt, Goto, UnchangedBySwap
  <2>5. CASE pc' = [pc EXCEPT ![m] = "head"]
    BY SMTT(60), <1>30, <2>2, <2>3, <2>5 DEF FallbackPutFails, Fault,
       RaiseDoubt, Goto, UnchangedBySwap
  <2> QED
    BY Zenon, <1>30, <2>4, <2>5 DEF FallbackPutFails, RaiseDoubt, Goto
<1>31. ASSUME NEW m \in Mount, ProbeFailed(m) PROVE TypeOK' /\ SealedTyped'
  BY SMTT(60), <1>31 DEF ProbeFailed, Fault, ReturnError, Goto, Discard,
     UnchangedByProbe
<1>32. ASSUME NEW m \in Mount, NEW c \in Change, Admit(m, c) PROVE TypeOK' /\ SealedTyped'
  BY SMTT(60), <1>32 DEF Admit
<1>33. ASSUME NEW m \in Mount, NEW c \in Change, Mutate(m, c) PROVE TypeOK' /\ SealedTyped'
  BY SMTT(60), <1>33 DEF Mutate
<1>34. ASSUME NEW w \in late, ApplyLate(w) PROVE TypeOK' /\ SealedTyped'
  BY Zenon, <1>34 DEF ApplyLate, LateWrite
<1>35. CASE UNCHANGED vars
  BY Zenon, <1>35 DEF vars
<1> QED
  BY ZenonT(60), <1>1, <1>2, <1>3, <1>4, <1>5, <1>6, <1>7, <1>8, <1>9, <1>10, <1>11,
     <1>12,
     <1>13, <1>14, <1>15, <1>16, <1>17, <1>18, <1>19, <1>20, <1>21, <1>22, <1>23,
     <1>24, <1>25, <1>26, <1>27, <1>28, <1>29, <1>30, <1>31, <1>32, <1>33, <1>34,
     <1>35 DEF Next, CommitStep, PruneStep, LoadStep, FaultStep

\* The variables keep their types, with the fallback or without: no commit
\* path advances an epoch past the attempt it applies (applyLocked,
\* resolveRoot), or loses the key of the attempt it is settling.
THEOREM TypeCorrect == Spec => []TypeOK
<1>1. Init => TypeOK /\ SealedTyped
  BY Zenon, TypeInit
<1>2. TypeOK /\ SealedTyped /\ [Next]_vars => (TypeOK /\ SealedTyped)'
  BY Zenon, TypeStep
<1> QED
  BY <1>1, <1>2, PTL DEF Spec

-----------------------------------------------------------------------------
(* How the root pointer and the sealed namespaces evolve in one step *)

Evolves ==
  /\ \A k \in KeyOrNone : IsSealed(k) => IsSealed(k)' /\ Content(k)' = Content(k)
  /\ \/ root' = root
     \/ root'.epoch = root.epoch + 1 /\ Durable \subseteq Durable'

\* Nothing of mount o's memory changes.
Same(o) ==
  /\ pc'[o] = pc[o] /\ knowledge'[o] = knowledge[o] /\ epoch'[o] = epoch[o]
  /\ rootETag'[o] = rootETag[o] /\ rootSnapshot'[o] = rootSnapshot[o]
  /\ doubtKey'[o] = doubtKey[o] /\ inodes'[o] = inodes[o]
  /\ changes'[o] = changes[o] /\ dirty'[o] = dirty[o]
  /\ sealedKey'[o] = sealedKey[o] /\ sealedETag'[o] = sealedETag[o]
  /\ sealedChanges'[o] = sealedChanges[o] /\ newETag'[o] = newETag[o]
  /\ pruning'[o] = pruning[o] /\ current'[o] = current[o]
  /\ doomed'[o] = doomed[o] /\ attempts[o] \subseteq attempts'[o]

\* What mount o's attempt in flight asks of the bucket after a step.
FlightKept(o) ==
  /\ pc[o] = "swap" /\ root' = sealedETag[o] => sealedKey[o] \in stored'
  /\ pc[o] = "reclaimDelete" => root' # sealedKey[o]
  /\ pc[o] \in {"putSnapshot", "swap", "reclaim", "reclaimDelete"}
       => \A w \in late' : w.key # sealedKey[o]

MountInv(m) == KnowInv(m) /\ DoubtInv(m) /\ FlightInv(m) /\ PruneInv(m)

\* A seal covers as many changes as there are when it is made.
LEMMA CountsItself == \A n \in Nat : n <= n
  OBVIOUS

\* A mount with no attempt in flight (commitSealed has returned).
LEMMA Landed ==
  ASSUME NEW m \in Mount, pc'[m] \in {"down", "ready", "settle", "seal", "getSnapshot", "exiting"}
  PROVE  FlightInv(m)'
  BY Zenon DEF FlightInv

\* The end of one mount's commit leaves the others' commits in flight alone.
LEMMA DiscardKeeps ==
  ASSUME TypeOK, NEW m \in Mount, Discard(m)
  PROVE  \A o \in Mount \ {m} :
           /\ sealedKey'[o] = sealedKey[o] /\ sealedETag'[o] = sealedETag[o]
           /\ sealedChanges'[o] = sealedChanges[o] /\ newETag'[o] = newETag[o]
<1>1. /\ sealedKey \in [Mount -> KeyOrNone] /\ sealedKey' = [sealedKey EXCEPT ![m] = None]
      /\ sealedETag \in [Mount -> KeyOrNone] /\ sealedETag' = [sealedETag EXCEPT ![m] = None]
  BY Zenon DEF TypeOK, Discard
<1>2. /\ sealedChanges \in [Mount -> Nat] /\ sealedChanges' = [sealedChanges EXCEPT ![m] = 0]
      /\ newETag \in [Mount -> KeyOrNone] /\ newETag' = [newETag EXCEPT ![m] = None]
  BY Zenon DEF TypeOK, Discard
<1>3. \A o \in Mount \ {m} : sealedKey'[o] = sealedKey[o] /\ sealedETag'[o] = sealedETag[o]
  BY Zenon, <1>1
<1>4. \A o \in Mount \ {m} : sealedChanges'[o] = sealedChanges[o] /\ newETag'[o] = newETag[o]
  BY Zenon, <1>2
<1> QED
  BY Zenon, <1>3, <1>4

\* A prune pass that starts is its own mount's.
LEMMA SchedulePruneKeeps ==
  ASSUME TypeOK, NEW m \in Mount, NEW k, SchedulePrune(m, k)
  PROVE  \A o \in Mount \ {m} :
           pruning'[o] = pruning[o] /\ current'[o] = current[o] /\ doomed'[o] = doomed[o]
<1>1. \/ pruning' = pruning /\ current' = current
      \/ pruning' = [pruning EXCEPT ![m] = "list"] /\ current' = [current EXCEPT ![m] = k]
  BY Zenon DEF SchedulePrune, pruneVars
<1>2. pruning \in [Mount -> {"idle", "list", "delete"}] /\ current \in [Mount -> KeyOrNone]
  BY Zenon DEF TypeOK
<1>3. doomed' = doomed
  BY Zenon DEF SchedulePrune, pruneVars
<1> QED
  BY Zenon, <1>1, <1>2, <1>3

\* Only the empty key has epoch 0 (initEmpty commits epoch 1).
LEMMA Epochs == \A k \in KeyOrNone : k.epoch \in Nat /\ (k # None => k.epoch > 0)
BY SMTT(60), KeyFacts, ConstantsAssumption DEF KeyOrNone

\* What the root pointer names is not lost by a step that evolves.
LEMMA DurableKept ==
  ASSUME TypeOK, StoreInv, Evolves
  PROVE  Durable \subseteq Durable'
<1>1. CASE root' = root
  <2>1. IF root = None THEN Durable' = {} ELSE Durable' = body'[root]
    BY Zenon, <1>1 DEF Durable, Content
  <2> QED
    BY Zenon, <2>1 DEF TypeOK, StoreInv, Evolves, Durable, Content
<1>2. CASE root' # root
  BY Zenon, <1>2 DEF Evolves
<1> QED
  BY Zenon, <1>1, <1>2

\* A root pointer of the past stays one.
LEMMA PastKept ==
  ASSUME TypeOK, TypeOK', StoreInv, Evolves, NEW k \in KeyOrNone, Past(k)
  PROVE  Past(k)'
<1>1. Durable \subseteq Durable'
  BY Zenon, DurableKept
<1>2. IsSealed(k)' /\ Content(k)' = Content(k)
  BY Zenon DEF Past, Evolves
<1>3. k = root' \/ k.epoch < root'.epoch
  BY SMTT(60), Epochs DEF Past, Evolves, TypeOK
<1> QED
  BY Zenon, <1>1, <1>2, <1>3 DEF Past

\* A sealed snapshot goes on descending from the one it was made on.
LEMMA DescendsKept ==
  ASSUME Evolves, NEW k \in KeyOrNone, NEW e \in KeyOrNone,
         IsSealed(k), IsSealed(e), Descends(k, e)
  PROVE  Descends(k, e)'
BY Zenon DEF Evolves, Descends

\* A mount a step does not touch keeps its invariant, since what it knows of
\* the root pointer was true once and stays so.
LEMMA Frame ==
  ASSUME Inductive, TypeOK', Evolves, NEW o \in Mount, Same(o), FlightKept(o)
  PROVE  MountInv(o)'
<1> USE DEF TypeOK
<1>1. KnowInv(o) /\ DoubtInv(o) /\ FlightInv(o) /\ PruneInv(o) /\ StoreInv
  BY Zenon DEF Inductive
<1>2. Durable \subseteq Durable'
  BY Zenon, DurableKept DEF Inductive
<1>3. \A k \in KeyOrNone : Past(k) => Past(k)'
  BY Zenon, PastKept DEF Inductive
<1>4. \A k \in Key : k \in attempts[o] => body'[k] = body[k]
  BY Zenon, KeyFacts DEF Evolves, IsSealed, Content, KeyOrNone
<1>5. \A k, e \in KeyOrNone :
        IsSealed(k) /\ IsSealed(e) /\ Descends(k, e) => Descends(k, e)'
  BY Zenon, DescendsKept
<1>6. KnowInv(o)'
  <2>1. Content(rootSnapshot[o])' = Content(rootSnapshot[o])
    BY ZenonT(60), <1>1 DEF KnowInv, Past, Evolves, Inductive, Same, Content
  <2>2. Past(rootSnapshot[o])'
    BY Zenon, <1>1, <1>3 DEF KnowInv, Same, Past, Inductive
  <2> QED
    BY Zenon, <1>1, <1>2, <2>1, <2>2 DEF KnowInv, Same
<1>7. DoubtInv(o)'
  <2>1. CASE knowledge[o] = "inDoubt"
    <3>1. doubtKey[o] \in Key /\ IsSealed(doubtKey[o]) /\ IsSealed(rootSnapshot[o])
      BY Zenon, <1>1, <2>1 DEF DoubtInv, KnowInv, IsSealed, Past, Inductive
    <3>2. Descends(doubtKey[o], rootSnapshot[o])'
      BY SMTT(60), <1>1, <1>5, <2>1, <3>1 DEF DoubtInv, Same, Inductive,
         KeyOrNone, Descends, Content
    <3> QED
      BY Zenon, <1>1, <1>4, <2>1, <3>1, <3>2 DEF DoubtInv, Same
  <2>2. CASE knowledge[o] # "inDoubt"
    BY Zenon, <1>1, <2>2 DEF DoubtInv, Same
  <2> QED
    BY Zenon, <2>1, <2>2
<1>8. FlightInv(o)'
  <2>1. CASE pc[o] \in {"putSnapshot", "swap", "reclaim", "reclaimDelete", "probe", "apply"}
    <3>1. sealedKey[o] \in Key /\ IsSealed(sealedKey[o]) /\ IsSealed(rootSnapshot[o])
      BY Zenon, <1>1, <2>1 DEF FlightInv, KnowInv, IsSealed, Past, Inductive,
         SealedTyped
    <3>2. pc[o] # "apply" => Descends(sealedKey[o], sealedETag[o])'
      <4> SUFFICES ASSUME pc[o] # "apply"
                   PROVE  Descends(sealedKey[o], sealedETag[o])'
        BY Zenon
      <4>1. IsSealed(sealedETag[o]) /\ Descends(sealedKey[o], sealedETag[o])
        BY Zenon, <1>1, <2>1, <3>1 DEF FlightInv
      <4>2. sealedETag[o] \in KeyOrNone /\ sealedKey[o] \in KeyOrNone
        BY Zenon DEF Inductive
      <4>3. /\ Content(sealedKey[o])' = Content(sealedKey[o])
            /\ Content(sealedETag[o])' = Content(sealedETag[o])
        BY ZenonT(60), <3>1, <4>1, <4>2 DEF Evolves, Same, Content
      <4> QED
        BY Zenon, <4>1, <4>3 DEF Descends, Same
    <3>3. pc[o] = "apply" => Past(sealedKey[o])'
      BY SMTT(60), <1>1, <1>3, <3>1 DEF FlightInv, Same, Past, Inductive,
         KeyOrNone, IsSealed, Content, Durable
    <3>4. body'[sealedKey[o]] = body[sealedKey[o]]
      BY Zenon, <1>1, <1>4, <2>1, <3>1 DEF FlightInv
    <3> QED
      BY Zenon, <1>1, <2>1, <3>2, <3>3, <3>4 DEF FlightInv, Same, FlightKept
  <2>2. CASE pc[o] \notin {"putSnapshot", "swap", "reclaim", "reclaimDelete", "probe", "apply"}
    BY Zenon, <1>1, <2>2 DEF FlightInv, Same
  <2> QED
    BY Zenon, <2>1, <2>2
<1>9. PruneInv(o)'
  BY SMTT(60), <1>1, <1>3 DEF PruneInv, Same, Past, Inductive, Content,
     Durable, IsSealed
<1> QED
  BY Zenon, <1>6, <1>7, <1>8, <1>9 DEF MountInv

\* The invariant after a step of one mount, from its parts.
LEMMA Assemble ==
  ASSUME Inductive, TypeOK', SealedTyped', Evolves, NEW m \in Mount,
         \A o \in Mount \ {m} : Same(o) /\ FlightKept(o),
         StoreInv', AttemptsInv', LateInv', MountInv(m)'
  PROVE  Inductive'
<1>1. \A o \in Mount \ {m} : MountInv(o)'
  BY Zenon, Frame
<1> QED
  BY Zenon, <1>1 DEF Inductive, MountInv

\* A step that neither writes the bucket nor seals evolves.
LEMMA Quiet ==
  ASSUME Inductive, TypeOK', SealedTyped', NEW m \in Mount,
         UNCHANGED <<storeVars, sealVars>>, acked' \subseteq Durable,
         \A o \in Mount \ {m} : Same(o), MountInv(m)'
  PROVE  Inductive'
<1> USE DEF storeVars, sealVars
<1>1. Evolves
  BY Zenon DEF Evolves, IsSealed, Content
<1>2. \A o \in Mount \ {m} : FlightKept(o)
  BY Zenon DEF FlightKept, FlightInv, Inductive
<1>3. StoreInv' /\ AttemptsInv'
  BY Zenon DEF Inductive, StoreInv, AttemptsInv, IsSealed, Durable, Content
<1>4. LateInv'
  BY Zenon DEF Inductive, LateInv, IsSealed, Past, Descends, Durable, Content
<1> QED
  BY Zenon, <1>1, <1>2, <1>3, <1>4, Assemble

\* A root write by compare-and-swap evolves (PutIfMatch in commitSealed).
LEMMA RootMovesTo ==
  ASSUME Inductive, NEW k \in Key, IsSealed(k), root' = k, Descends(k, root),
         UNCHANGED sealVars
  PROVE  /\ Evolves
         /\ \A j \in KeyOrNone : Past(j) => Past(j)' /\ j # root'
         /\ Past(k)'
<1> USE DEF sealVars
<1>1. Durable \subseteq Durable'
  BY Zenon, KeyFacts DEF Descends, Durable, Content
<1>2. root'.epoch = root.epoch + 1
  BY Zenon DEF Descends
<1>3. Evolves
  BY Zenon, <1>1, <1>2 DEF Evolves, IsSealed, Content
<1>4. \A j \in KeyOrNone : Past(j) => Past(j)' /\ j # root'
  BY SMTT(60), <1>1, <1>2, Epochs DEF Past, IsSealed, Content, Inductive,
     TypeOK
<1>5. Past(k)'
  BY Zenon DEF Past, IsSealed, Content, Durable
<1> QED
  BY Zenon, <1>3, <1>4, <1>5

\* Every mount but the writer keeps its invariant when the root pointer moves
\* to a commit on top of it.
LEMMA RootMoves ==
  ASSUME Inductive, TypeOK', SealedTyped', NEW m \in Mount,
         NEW k \in Key, IsSealed(k), root' = k, Descends(k, root), k \in stored,
         UNCHANGED <<stored, sealVars, acked>>, late' \subseteq late,
         \A o \in Mount \ {m} :
            Same(o) /\ (pc[o] = "reclaimDelete" => sealedKey[o] # k),
         MountInv(m)'
  PROVE  Inductive'
<1> USE DEF sealVars
<1>1. Evolves /\ Past(k)' /\ \A j \in KeyOrNone : Past(j) => Past(j)' /\ j # root'
  BY Zenon, RootMovesTo
<1>2. Durable \subseteq Durable'
  BY Zenon, <1>1, DurableKept DEF Inductive
<1>3. StoreInv' /\ AttemptsInv'
  BY Zenon, <1>1, <1>2 DEF Inductive, StoreInv, AttemptsInv, IsSealed, Past
<1>4. LateInv'
  <2> SUFFICES ASSUME NEW w \in late'
               PROVE  /\ ~w.unconditional
                      /\ IsSealed(w.key)'
                      /\ Past(w.ifMatch)'
                      /\ Descends(w.key, w.ifMatch)'
                      /\ root' = w.ifMatch => w.key \in stored'
    BY Zenon DEF LateInv
  <2>1. w \in late /\ w.key \in KeyOrNone /\ w.ifMatch \in KeyOrNone
    BY ZenonT(60) DEF Inductive, TypeOK, LateWrite, KeyOrNone
  <2>2. /\ ~w.unconditional
        /\ IsSealed(w.key)
        /\ Past(w.ifMatch)
        /\ Descends(w.key, w.ifMatch)
    BY Zenon, <2>1 DEF Inductive, LateInv
  <2>3. Past(w.ifMatch)' /\ w.ifMatch # root'
    BY Zenon, <1>1, <2>1, <2>2
  <2>4. IsSealed(w.key)' /\ Descends(w.key, w.ifMatch)'
    BY Zenon, <2>2 DEF IsSealed, Descends, Content
  <2> QED
    BY Zenon, <2>2, <2>3, <2>4
<1>5. \A o \in Mount \ {m} : FlightKept(o)
  <2> SUFFICES ASSUME NEW o \in Mount \ {m} PROVE FlightKept(o)
    BY Zenon
  <2>1. FlightInv(o) /\ KnowInv(o)
    BY Zenon DEF Inductive
  <2>2. pc[o] = "swap" => root' # sealedETag[o]
    BY Zenon, <1>1, <2>1 DEF FlightInv, KnowInv, Inductive, TypeOK
  <2> QED
    BY Zenon, <2>1, <2>2 DEF FlightKept, FlightInv
<1> QED
  BY Zenon, <1>1, <1>3, <1>4, <1>5, Assemble

\* What the invariant says of the root pointers a mount remembers.
LEMMA PastFacts ==
  ASSUME TypeOK, StoreInv
  PROVE  Past(None) /\ Past(root) /\ None.epoch = 0
<1>1. None = root \/ None.epoch < root.epoch
  BY SMTT(60), KeyFacts DEF TypeOK, KeyOrNone
<1> QED
  BY Zenon, <1>1, KeyFacts DEF Past, StoreInv, IsSealed, Content, Durable

-----------------------------------------------------------------------------
(* The steps that leave the bucket alone *)

\* Sync on a clean namespace keeps the invariant.
LEMMA SyncCleanInd ==
  ASSUME Inductive, TypeOK', SealedTyped', NEW m \in Mount, SyncClean(m)
  PROVE  Inductive'
<1> USE DEF TypeOK, storeVars, knowVars, nsVars, flightVars,
            pruneVars, sealVars, histVars
<1>0. KnowInv(m) /\ DoubtInv(m) /\ FlightInv(m) /\ PruneInv(m) /\ StoreInv /\ TypeOK
  BY Zenon DEF Inductive
<1>1. UNCHANGED <<storeVars, sealVars>> /\ acked' \subseteq Durable
  BY Zenon, <1>0 DEF SyncClean, StoreInv, KnowInv, FlightInv, Past, Content
<1>2. \A o \in Mount \ {m} : Same(o)
  BY Zenon, <1>0 DEF Same, SyncClean
<1>3. KnowInv(m)'
  BY Zenon, <1>0, <1>1 DEF SyncClean, KnowInv, DoubtInv, FlightInv, Past,
     IsSealed, Content, Durable
<1>4. DoubtInv(m)'
  BY Zenon, <1>0, <1>1 DEF SyncClean, DoubtInv, FlightInv, Descends, Content
<1>5. FlightInv(m)'
  BY Zenon, <1>0, <1>1 DEF SyncClean, FlightInv, DoubtInv, Descends, Past,
     IsSealed, Content, Durable
<1>6. PruneInv(m)'
  BY Zenon, <1>0, <1>1 DEF SyncClean, PruneInv, Past, IsSealed, Content,
     Durable
<1> QED
  BY Zenon, <1>1, <1>2, <1>3, <1>4, <1>5, <1>6, Quiet DEF MountInv

\* The top of Sync keeps the invariant.
LEMMA SyncDirtyInd ==
  ASSUME Inductive, TypeOK', SealedTyped', NEW m \in Mount, SyncDirty(m)
  PROVE  Inductive'
<1> USE DEF TypeOK, storeVars, knowVars, nsVars, flightVars,
            pruneVars, sealVars, histVars
<1>0. KnowInv(m) /\ DoubtInv(m) /\ FlightInv(m) /\ PruneInv(m) /\ StoreInv /\ TypeOK
  BY Zenon DEF Inductive
<1>1. UNCHANGED <<storeVars, sealVars>> /\ acked' \subseteq Durable
  BY Zenon, <1>0 DEF SyncDirty, Goto, StoreInv, KnowInv, FlightInv, Past,
     Content
<1>2. \A o \in Mount \ {m} : Same(o)
  BY Zenon, <1>0 DEF Same, SyncDirty, Goto
<1>3. KnowInv(m)'
  BY Zenon, <1>0, <1>1 DEF SyncDirty, Goto, KnowInv, DoubtInv, FlightInv, Past,
     IsSealed, Content, Durable
<1>4. DoubtInv(m)'
  BY Zenon, <1>0, <1>1 DEF SyncDirty, Goto, DoubtInv, FlightInv, Descends,
     Content
<1>5. FlightInv(m)'
  BY Zenon, <1>0, <1>1 DEF SyncDirty, Goto, FlightInv, DoubtInv, Descends,
     Past, IsSealed, Content, Durable
<1>6. PruneInv(m)'
  BY Zenon, <1>0, <1>1 DEF SyncDirty, Goto, PruneInv, Past, IsSealed, Content,
     Durable
<1> QED
  BY Zenon, <1>1, <1>2, <1>3, <1>4, <1>5, <1>6, Quiet DEF MountInv

\* A diverged mount's Sync keeps the invariant.
LEMMA SyncRefusedInd ==
  ASSUME Inductive, TypeOK', SealedTyped', NEW m \in Mount, SyncRefused(m)
  PROVE  Inductive'
<1> USE DEF TypeOK, storeVars, knowVars, nsVars, flightVars,
            pruneVars, sealVars, histVars
<1>0. KnowInv(m) /\ DoubtInv(m) /\ FlightInv(m) /\ PruneInv(m) /\ StoreInv /\ TypeOK
  BY Zenon DEF Inductive
<1>1. UNCHANGED <<storeVars, sealVars>> /\ acked' \subseteq Durable
  BY Zenon, <1>0 DEF SyncRefused, vars, StoreInv, KnowInv, FlightInv, Past,
     Content
<1>2. \A o \in Mount \ {m} : Same(o)
  BY Zenon, <1>0 DEF Same, SyncRefused, vars
<1>3. KnowInv(m)'
  BY Zenon, <1>0, <1>1 DEF SyncRefused, vars, KnowInv, DoubtInv, FlightInv,
     Past, IsSealed, Content, Durable
<1>4. DoubtInv(m)'
  BY Zenon, <1>0, <1>1 DEF SyncRefused, vars, DoubtInv, FlightInv, Descends,
     Content
<1>5. FlightInv(m)'
  BY Zenon, <1>0, <1>1 DEF SyncRefused, vars, FlightInv, DoubtInv, Descends,
     Past, IsSealed, Content, Durable
<1>6. PruneInv(m)'
  BY Zenon, <1>0, <1>1 DEF SyncRefused, vars, PruneInv, Past, IsSealed,
     Content, Durable
<1> QED
  BY Zenon, <1>1, <1>2, <1>3, <1>4, <1>5, <1>6, Quiet DEF MountInv

\* A failed settleAll keeps the invariant.
LEMMA SettleFailsInd ==
  ASSUME Inductive, TypeOK', SealedTyped', NEW m \in Mount, SettleFails(m)
  PROVE  Inductive'
<1> USE DEF TypeOK, storeVars, knowVars, nsVars, flightVars,
            pruneVars, sealVars, histVars
<1>0. KnowInv(m) /\ DoubtInv(m) /\ FlightInv(m) /\ PruneInv(m) /\ StoreInv /\ TypeOK
  BY Zenon DEF Inductive
<1>1. UNCHANGED <<storeVars, sealVars>> /\ acked' \subseteq Durable
  BY ZenonT(60), <1>0 DEF SettleFails, Fault, ReturnError, Goto, Discard, StoreInv,
     KnowInv, FlightInv, Past, Content
<1>2. \A o \in Mount \ {m} : Same(o)
  <2> SUFFICES ASSUME NEW o \in Mount, o # m PROVE Same(o)
    BY Zenon
  <2>1. pc'[o] = pc[o]
    BY ZenonT(60), <1>0 DEF SettleFails, Fault, ReturnError, Goto, Discard
  <2>2. knowledge'[o] = knowledge[o] /\ epoch'[o] = epoch[o] /\ doubtKey'[o] = doubtKey[o]
    BY ZenonT(60), <1>0 DEF SettleFails, Fault, ReturnError, Goto, Discard
  <2>3. rootETag'[o] = rootETag[o] /\ rootSnapshot'[o] = rootSnapshot[o]
    BY ZenonT(60), <1>0 DEF SettleFails, Fault, ReturnError, Goto, Discard
  <2>4. /\ inodes'[o] = inodes[o] /\ changes'[o] = changes[o] /\ dirty'[o] = dirty[o]
    BY ZenonT(60), <1>0 DEF SettleFails, Fault, ReturnError, Goto, Discard
  <2>5. /\ sealedKey'[o] = sealedKey[o] /\ sealedETag'[o] = sealedETag[o]
        /\ sealedChanges'[o] = sealedChanges[o] /\ newETag'[o] = newETag[o]
    BY Zenon, <1>0, DiscardKeeps DEF SettleFails, ReturnError
  <2>6. /\ pruning'[o] = pruning[o] /\ current'[o] = current[o] /\ doomed'[o] = doomed[o]
    BY ZenonT(60), <1>0 DEF SettleFails, Fault, ReturnError, Goto, Discard
  <2>7. attempts[o] \subseteq attempts'[o]
    BY ZenonT(60), <1>0 DEF SettleFails, Fault, ReturnError, Goto, Discard
  <2> QED
    BY Zenon, <2>1, <2>2, <2>3, <2>4, <2>5, <2>6, <2>7 DEF Same
<1>3. KnowInv(m)'
  BY Zenon, <1>0, <1>1 DEF SettleFails, Fault, ReturnError, Goto, Discard,
     KnowInv, DoubtInv, FlightInv, Past, IsSealed, Content, Durable
<1>4. DoubtInv(m)'
  BY Zenon, <1>0, <1>1 DEF SettleFails, Fault, ReturnError, Goto, Discard,
     DoubtInv, FlightInv, Descends, Content
<1>5. FlightInv(m)'
  BY Zenon, <1>0, <1>1 DEF SettleFails, Fault, ReturnError, Goto, Discard,
     FlightInv, DoubtInv, Descends, Past, IsSealed, Content, Durable
<1>6. PruneInv(m)'
  BY Zenon, <1>0, <1>1 DEF SettleFails, Fault, ReturnError, Goto, Discard,
     PruneInv, Past, IsSealed, Content, Durable
<1> QED
  BY Zenon, <1>1, <1>2, <1>3, <1>4, <1>5, <1>6, Quiet DEF MountInv

\* loadOrInit's read of the root pointer keeps the invariant.
LEMMA GetRootInd ==
  ASSUME Inductive, TypeOK', SealedTyped', NEW m \in Mount, GetRoot(m)
  PROVE  Inductive'
<1> USE DEF TypeOK, storeVars, knowVars, nsVars, flightVars,
            pruneVars, sealVars, histVars
<1>0. KnowInv(m) /\ DoubtInv(m) /\ FlightInv(m) /\ PruneInv(m) /\ StoreInv /\ TypeOK
  BY Zenon DEF Inductive
<1>1. UNCHANGED <<storeVars, sealVars>> /\ acked' \subseteq Durable
  BY Zenon, <1>0 DEF GetRoot, Goto, StoreInv, KnowInv, FlightInv, Past, Content
<1>2. \A o \in Mount \ {m} : Same(o)
  <2> SUFFICES ASSUME NEW o \in Mount, o # m PROVE Same(o)
    BY Zenon
  <2>1. pc'[o] = pc[o]
    BY ZenonT(60), <1>0 DEF GetRoot, Goto
  <2>2. knowledge'[o] = knowledge[o] /\ epoch'[o] = epoch[o] /\ doubtKey'[o] = doubtKey[o]
    BY ZenonT(60), <1>0 DEF GetRoot, Goto
  <2>3. rootETag'[o] = rootETag[o] /\ rootSnapshot'[o] = rootSnapshot[o]
    BY ZenonT(60), <1>0 DEF GetRoot, Goto
  <2>4. /\ inodes'[o] = inodes[o] /\ changes'[o] = changes[o] /\ dirty'[o] = dirty[o]
    BY ZenonT(60), <1>0 DEF GetRoot, Goto
  <2>5. /\ sealedKey'[o] = sealedKey[o] /\ sealedETag'[o] = sealedETag[o]
        /\ sealedChanges'[o] = sealedChanges[o] /\ newETag'[o] = newETag[o]
    BY ZenonT(60), <1>0 DEF GetRoot, Goto
  <2>6. /\ pruning'[o] = pruning[o] /\ current'[o] = current[o] /\ doomed'[o] = doomed[o]
    BY ZenonT(60), <1>0 DEF GetRoot, Goto
  <2>7. attempts[o] \subseteq attempts'[o]
    BY ZenonT(60), <1>0 DEF GetRoot, Goto
  <2> QED
    BY Zenon, <2>1, <2>2, <2>3, <2>4, <2>5, <2>6, <2>7 DEF Same
<1>3. KnowInv(m)'
  <2>1. CASE root = None
    BY Zenon, <1>0, <1>1, <2>1 DEF GetRoot, Goto, KnowInv, Past, IsSealed,
       Content, Durable
  <2>2. CASE root # None
    <3>1. /\ rootETag'[m] = root /\ rootSnapshot'[m] = root /\ pc'[m] = "getSnapshot"
          /\ inodes'[m] = inodes[m] /\ dirty'[m] = dirty[m]
      BY Zenon, <1>0, <2>2 DEF GetRoot, Goto
    <3>2. Past(rootSnapshot[m])'
      BY Zenon, <1>0, <1>1, <3>1, PastFacts DEF Past, IsSealed, Content,
         Durable
    <3> QED
      BY Zenon, <1>0, <1>1, <3>1, <3>2 DEF KnowInv, Durable, Content
  <2> QED
    BY Zenon, <2>1, <2>2
<1>4. DoubtInv(m)'
  BY ZenonT(60), <1>0, <1>1 DEF GetRoot, Goto, DoubtInv, FlightInv, Descends,
     Content
<1>5. FlightInv(m)'
  <2>1. pc'[m] \in {"seal", "getSnapshot"}
    BY Zenon, <1>0 DEF GetRoot, Goto
  <2> QED
    BY Zenon, <2>1, Landed
<1>6. PruneInv(m)'
  BY Zenon, <1>0, <1>1 DEF GetRoot, Goto, PruneInv, Past, IsSealed, Content,
     Durable
<1> QED
  BY Zenon, <1>1, <1>2, <1>3, <1>4, <1>5, <1>6, Quiet DEF MountInv

\* loadOrInit's read of the snapshot keeps the invariant.
LEMMA GetSnapshotInd ==
  ASSUME Inductive, TypeOK', SealedTyped', NEW m \in Mount, GetSnapshot(m)
  PROVE  Inductive'
<1> USE DEF TypeOK, storeVars, knowVars, nsVars, flightVars,
            pruneVars, sealVars, histVars
<1>0. KnowInv(m) /\ DoubtInv(m) /\ FlightInv(m) /\ PruneInv(m) /\ StoreInv /\ TypeOK
  BY Zenon DEF Inductive
<1>1. UNCHANGED <<storeVars, sealVars>> /\ acked' \subseteq Durable
  BY Zenon, <1>0 DEF GetSnapshot, Goto, StoreInv, KnowInv, FlightInv, Past,
     Content
<1>2. \A o \in Mount \ {m} : Same(o)
  <2> SUFFICES ASSUME NEW o \in Mount, o # m PROVE Same(o)
    BY Zenon
  <2>1. pc'[o] = pc[o]
    BY ZenonT(60), <1>0 DEF GetSnapshot, Goto
  <2>2. knowledge'[o] = knowledge[o] /\ epoch'[o] = epoch[o] /\ doubtKey'[o] = doubtKey[o]
    BY ZenonT(60), <1>0 DEF GetSnapshot, Goto
  <2>3. rootETag'[o] = rootETag[o] /\ rootSnapshot'[o] = rootSnapshot[o]
    BY ZenonT(60), <1>0 DEF GetSnapshot, Goto
  <2>4. /\ inodes'[o] = inodes[o] /\ changes'[o] = changes[o] /\ dirty'[o] = dirty[o]
    BY ZenonT(60), <1>0 DEF GetSnapshot, Goto
  <2>5. /\ sealedKey'[o] = sealedKey[o] /\ sealedETag'[o] = sealedETag[o]
        /\ sealedChanges'[o] = sealedChanges[o] /\ newETag'[o] = newETag[o]
    BY ZenonT(60), <1>0 DEF GetSnapshot, Goto
  <2>6. /\ pruning'[o] = pruning[o] /\ current'[o] = current[o] /\ doomed'[o] = doomed[o]
    BY ZenonT(60), <1>0 DEF GetSnapshot, Goto
  <2>7. attempts[o] \subseteq attempts'[o]
    BY ZenonT(60), <1>0 DEF GetSnapshot, Goto
  <2> QED
    BY Zenon, <2>1, <2>2, <2>3, <2>4, <2>5, <2>6, <2>7 DEF Same
<1>3. KnowInv(m)'
  <2>1. /\ rootETag'[m] = rootETag[m] /\ rootSnapshot'[m] = rootSnapshot[m]
        /\ dirty'[m] = dirty[m]
    BY Zenon, <1>0 DEF GetSnapshot
  <2>2. Past(rootSnapshot[m])'
    BY Zenon, <1>0, <1>1, <2>1 DEF KnowInv, Past, IsSealed, Content, Durable
  <2>3. Durable' = Durable /\ Content(rootSnapshot[m])' = Content(rootSnapshot[m])
    BY Zenon, <1>1, <2>1 DEF Durable, Content
  <2>4. CASE rootSnapshot[m] \in stored
    <3>1. rootSnapshot[m] # None
      BY Zenon, <1>0, <2>4, KeyFacts
    <3>2. /\ inodes'[m] = Content(rootSnapshot[m]) /\ epoch'[m] = rootSnapshot[m].epoch
      BY Zenon, <1>0, <2>4, <3>1 DEF GetSnapshot, Content
    <3> QED
      BY SMTT(60), <1>0, <2>1, <2>2, <2>3, <3>2 DEF KnowInv, Past
  <2>5. CASE rootSnapshot[m] \notin stored
    <3>1. pc'[m] = "exiting" /\ inodes'[m] = inodes[m]
      BY Zenon, <1>0, <2>5 DEF GetSnapshot, Goto
    <3> QED
      BY Zenon, <1>0, <2>1, <2>2, <2>3, <3>1 DEF KnowInv
  <2> QED
    BY Zenon, <2>4, <2>5
<1>4. DoubtInv(m)'
  BY ZenonT(60), <1>0, <1>1 DEF GetSnapshot, Goto, DoubtInv, FlightInv, Descends,
     Content
<1>5. FlightInv(m)'
  <2>1. pc'[m] \in {"ready", "exiting"}
    BY Zenon, <1>0 DEF GetSnapshot, Goto
  <2> QED
    BY Zenon, <2>1, Landed
<1>6. PruneInv(m)'
  BY Zenon, <1>0, <1>1 DEF GetSnapshot, Goto, PruneInv, Past, IsSealed,
     Content, Durable
<1> QED
  BY Zenon, <1>1, <1>2, <1>3, <1>4, <1>5, <1>6, Quiet DEF MountInv

\* What a process that ends leaves of its mount, and of the others.
LEMMA LoseKeeps ==
  ASSUME TypeOK, NEW m \in Mount, Lose(m), UNCHANGED attempts
  PROVE  /\ \A o \in Mount \ {m} : Same(o)
         /\ pc'[m] = "down" /\ knowledge'[m] = "known" /\ epoch'[m] = 0
         /\ rootETag'[m] = None /\ rootSnapshot'[m] = None /\ inodes'[m] = {}
         /\ current'[m] = None /\ doomed'[m] = {}
<1>1. /\ pc'[m] = "down" /\ \A o \in Mount \ {m} : pc'[o] = pc[o]
      /\ knowledge'[m] = "known" /\ \A o \in Mount \ {m} : knowledge'[o] = knowledge[o]
      /\ epoch'[m] = 0 /\ \A o \in Mount \ {m} : epoch'[o] = epoch[o]
  <2>1. /\ pc \in [Mount -> Phase] /\ pc' = [pc EXCEPT ![m] = "down"]
        /\ knowledge \in [Mount -> {"known", "inDoubt"}] /\ knowledge' = [knowledge EXCEPT ![m] = "known"]
        /\ epoch \in [Mount -> 0 .. MaxEpoch] /\ epoch' = [epoch EXCEPT ![m] = 0]
    BY Zenon DEF TypeOK, Lose, Goto
  <2> QED
    BY Zenon, <2>1
<1>2. /\ rootETag'[m] = None /\ \A o \in Mount \ {m} : rootETag'[o] = rootETag[o]
      /\ rootSnapshot'[m] = None /\ \A o \in Mount \ {m} : rootSnapshot'[o] = rootSnapshot[o]
      /\ doubtKey'[m] = None /\ \A o \in Mount \ {m} : doubtKey'[o] = doubtKey[o]
  <2>1. /\ rootETag \in [Mount -> KeyOrNone] /\ rootETag' = [rootETag EXCEPT ![m] = None]
        /\ rootSnapshot \in [Mount -> KeyOrNone] /\ rootSnapshot' = [rootSnapshot EXCEPT ![m] = None]
        /\ doubtKey \in [Mount -> KeyOrNone] /\ doubtKey' = [doubtKey EXCEPT ![m] = None]
    BY Zenon DEF TypeOK, Lose
  <2> QED
    BY Zenon, <2>1
<1>3. /\ inodes'[m] = {} /\ \A o \in Mount \ {m} : inodes'[o] = inodes[o]
      /\ changes'[m] = 0 /\ \A o \in Mount \ {m} : changes'[o] = changes[o]
      /\ dirty'[m] = FALSE /\ \A o \in Mount \ {m} : dirty'[o] = dirty[o]
  <2>1. /\ inodes \in [Mount -> SUBSET Change] /\ inodes' = [inodes EXCEPT ![m] = {}]
        /\ changes \in [Mount -> Nat] /\ changes' = [changes EXCEPT ![m] = 0]
        /\ dirty \in [Mount -> BOOLEAN] /\ dirty' = [dirty EXCEPT ![m] = FALSE]
    BY Zenon DEF TypeOK, Lose
  <2> QED
    BY Zenon, <2>1
<1>4. /\ sealedKey'[m] = None /\ \A o \in Mount \ {m} : sealedKey'[o] = sealedKey[o]
      /\ sealedETag'[m] = None /\ \A o \in Mount \ {m} : sealedETag'[o] = sealedETag[o]
  <2>1. /\ sealedKey \in [Mount -> KeyOrNone] /\ sealedKey' = [sealedKey EXCEPT ![m] = None]
        /\ sealedETag \in [Mount -> KeyOrNone] /\ sealedETag' = [sealedETag EXCEPT ![m] = None]
    BY Zenon DEF TypeOK, Lose, Discard
  <2> QED
    BY Zenon, <2>1
<1>5. /\ sealedChanges'[m] = 0 /\ \A o \in Mount \ {m} : sealedChanges'[o] = sealedChanges[o]
      /\ newETag'[m] = None /\ \A o \in Mount \ {m} : newETag'[o] = newETag[o]
  <2>1. /\ sealedChanges \in [Mount -> Nat] /\ sealedChanges' = [sealedChanges EXCEPT ![m] = 0]
        /\ newETag \in [Mount -> KeyOrNone] /\ newETag' = [newETag EXCEPT ![m] = None]
    BY Zenon DEF TypeOK, Lose, Discard
  <2> QED
    BY Zenon, <2>1
<1>6. /\ pruning'[m] = "idle" /\ \A o \in Mount \ {m} : pruning'[o] = pruning[o]
      /\ current'[m] = None /\ \A o \in Mount \ {m} : current'[o] = current[o]
      /\ doomed'[m] = {} /\ \A o \in Mount \ {m} : doomed'[o] = doomed[o]
  <2>1. /\ pruning \in [Mount -> {"idle", "list", "delete"}] /\ pruning' = [pruning EXCEPT ![m] = "idle"]
        /\ current \in [Mount -> KeyOrNone] /\ current' = [current EXCEPT ![m] = None]
        /\ doomed \in [Mount -> SUBSET Key] /\ doomed' = [doomed EXCEPT ![m] = {}]
    BY Zenon DEF TypeOK, Lose
  <2> QED
    BY Zenon, <2>1
<1> QED
  BY Zenon, <1>1, <1>2, <1>3, <1>4, <1>5, <1>6 DEF Same

\* The end of a process keeps the invariant, whatever it was doing.
LEMMA LoseInd ==
  ASSUME Inductive, TypeOK', SealedTyped', NEW m \in Mount, Lose(m),
         UNCHANGED <<storeVars, sealVars, acked>>
  PROVE  Inductive'
<1>0. TypeOK /\ StoreInv /\ root' = root /\ attempts' = attempts /\ body' = body
  BY Zenon DEF Inductive, storeVars, sealVars
<1>1. acked' \subseteq Durable
  BY Zenon, <1>0 DEF StoreInv
<1>2. Past(None)'
  BY Zenon, <1>0, PastFacts DEF Past, IsSealed, Content, Durable
<1>3. Past(rootSnapshot[m])' /\ Past(current[m])'
  BY Zenon, <1>0, <1>2, LoseKeeps DEF Past, IsSealed, Content
<1>4. KnowInv(m)'
  BY Zenon, <1>0, <1>3, LoseKeeps, KeyFacts DEF KnowInv, Content
<1>5. DoubtInv(m)'
  BY Zenon, <1>0, LoseKeeps DEF DoubtInv
<1>6. FlightInv(m)'
  BY Zenon, <1>0, LoseKeeps, Landed
<1>7. PruneInv(m)'
  BY Zenon, <1>0, <1>3, LoseKeeps DEF PruneInv
<1> QED
  BY Zenon, <1>0, <1>1, <1>4, <1>5, <1>6, <1>7, LoseKeeps, Quiet DEF MountInv

\* The end of a process whose New failed keeps the invariant.
LEMMA ExitInd ==
  ASSUME Inductive, TypeOK', SealedTyped', NEW m \in Mount, Exit(m)
  PROVE  Inductive'
  BY Zenon, LoseInd DEF Exit, histVars

\* The death of a process at any point keeps the invariant.
LEMMA CrashInd ==
  ASSUME Inductive, TypeOK', SealedTyped', NEW m \in Mount, Crash(m)
  PROVE  Inductive'
  BY Zenon, LoseInd DEF Crash, histVars

\* A refused swap keeps the invariant.
LEMMA SwapConflictInd ==
  ASSUME Inductive, TypeOK', SealedTyped', NEW m \in Mount, SwapConflict(m)
  PROVE  Inductive'
<1> USE DEF TypeOK, storeVars, knowVars, nsVars, flightVars,
            pruneVars, sealVars, histVars
<1>0. KnowInv(m) /\ DoubtInv(m) /\ FlightInv(m) /\ PruneInv(m) /\ StoreInv /\ TypeOK
  BY Zenon DEF Inductive
<1>1. UNCHANGED <<storeVars, sealVars>> /\ acked' \subseteq Durable
  BY ZenonT(60), <1>0 DEF SwapConflict, Goto, ConditionHolds, RaiseDoubt,
     UnchangedBySwap, StoreInv, KnowInv, FlightInv, Past, Content
<1>2. \A o \in Mount \ {m} : Same(o)
  <2> SUFFICES ASSUME NEW o \in Mount, o # m PROVE Same(o)
    BY Zenon
  <2>1. pc'[o] = pc[o]
    BY ZenonT(60), <1>0 DEF SwapConflict, Goto, ConditionHolds, RaiseDoubt,
       UnchangedBySwap
  <2>2. knowledge'[o] = knowledge[o] /\ epoch'[o] = epoch[o] /\ doubtKey'[o] = doubtKey[o]
    BY ZenonT(60), <1>0 DEF SwapConflict, Goto, ConditionHolds, RaiseDoubt,
       UnchangedBySwap
  <2>3. rootETag'[o] = rootETag[o] /\ rootSnapshot'[o] = rootSnapshot[o]
    BY ZenonT(60), <1>0 DEF SwapConflict, Goto, ConditionHolds, RaiseDoubt,
       UnchangedBySwap
  <2>4. /\ inodes'[o] = inodes[o] /\ changes'[o] = changes[o] /\ dirty'[o] = dirty[o]
    BY ZenonT(60), <1>0 DEF SwapConflict, Goto, ConditionHolds, RaiseDoubt,
       UnchangedBySwap
  <2>5. /\ sealedKey'[o] = sealedKey[o] /\ sealedETag'[o] = sealedETag[o]
        /\ sealedChanges'[o] = sealedChanges[o] /\ newETag'[o] = newETag[o]
    BY ZenonT(60), <1>0 DEF SwapConflict, Goto, ConditionHolds, RaiseDoubt,
       UnchangedBySwap
  <2>6. /\ pruning'[o] = pruning[o] /\ current'[o] = current[o] /\ doomed'[o] = doomed[o]
    BY ZenonT(60), <1>0 DEF SwapConflict, Goto, ConditionHolds, RaiseDoubt,
       UnchangedBySwap
  <2>7. attempts[o] \subseteq attempts'[o]
    BY ZenonT(60), <1>0 DEF SwapConflict, Goto, ConditionHolds, RaiseDoubt,
       UnchangedBySwap
  <2> QED
    BY Zenon, <2>1, <2>2, <2>3, <2>4, <2>5, <2>6, <2>7 DEF Same
<1>3. KnowInv(m)'
  BY Zenon, <1>0, <1>1 DEF SwapConflict, Goto, ConditionHolds, RaiseDoubt,
     UnchangedBySwap, KnowInv, DoubtInv, FlightInv, Past, IsSealed, Content,
     Durable
<1>4. DoubtInv(m)'
  BY Zenon, <1>0, <1>1 DEF SwapConflict, Goto, ConditionHolds, RaiseDoubt,
     UnchangedBySwap, DoubtInv, FlightInv, Descends, Content
<1>5. FlightInv(m)'
  BY Zenon, <1>0, <1>1 DEF SwapConflict, Goto, ConditionHolds, RaiseDoubt,
     UnchangedBySwap, FlightInv, DoubtInv, Descends, Past, IsSealed, Content,
     Durable
<1>6. PruneInv(m)'
  BY Zenon, <1>0, <1>1 DEF SwapConflict, Goto, ConditionHolds, RaiseDoubt,
     UnchangedBySwap, PruneInv, Past, IsSealed, Content, Durable
<1> QED
  BY Zenon, <1>1, <1>2, <1>3, <1>4, <1>5, <1>6, Quiet DEF MountInv

\* The reclaim's read keeps the invariant.
LEMMA ReclaimInd ==
  ASSUME Inductive, TypeOK', SealedTyped', NEW m \in Mount, Reclaim(m)
  PROVE  Inductive'
<1> USE DEF TypeOK, storeVars, knowVars, nsVars, flightVars,
            pruneVars, sealVars, histVars
<1>0. KnowInv(m) /\ DoubtInv(m) /\ FlightInv(m) /\ PruneInv(m) /\ StoreInv /\ TypeOK
  BY Zenon DEF Inductive
<1>1. UNCHANGED <<storeVars, sealVars>> /\ acked' \subseteq Durable
  BY Zenon, <1>0 DEF Reclaim, Goto, RaiseDoubt, UnchangedBySwap, StoreInv,
     KnowInv, FlightInv, Past, Content
<1>2. \A o \in Mount \ {m} : Same(o)
  <2> SUFFICES ASSUME NEW o \in Mount, o # m PROVE Same(o)
    BY Zenon
  <2>1. pc'[o] = pc[o]
    BY ZenonT(60), <1>0 DEF Reclaim, Goto, RaiseDoubt, UnchangedBySwap
  <2>2. knowledge'[o] = knowledge[o] /\ epoch'[o] = epoch[o] /\ doubtKey'[o] = doubtKey[o]
    BY ZenonT(60), <1>0 DEF Reclaim, Goto, RaiseDoubt, UnchangedBySwap
  <2>3. rootETag'[o] = rootETag[o] /\ rootSnapshot'[o] = rootSnapshot[o]
    BY ZenonT(60), <1>0 DEF Reclaim, Goto, RaiseDoubt, UnchangedBySwap
  <2>4. /\ inodes'[o] = inodes[o] /\ changes'[o] = changes[o] /\ dirty'[o] = dirty[o]
    BY ZenonT(60), <1>0 DEF Reclaim, Goto, RaiseDoubt, UnchangedBySwap
  <2>5. /\ sealedKey'[o] = sealedKey[o] /\ sealedETag'[o] = sealedETag[o]
        /\ sealedChanges'[o] = sealedChanges[o] /\ newETag'[o] = newETag[o]
    BY ZenonT(60), <1>0 DEF Reclaim, Goto, RaiseDoubt, UnchangedBySwap
  <2>6. /\ pruning'[o] = pruning[o] /\ current'[o] = current[o] /\ doomed'[o] = doomed[o]
    BY ZenonT(60), <1>0 DEF Reclaim, Goto, RaiseDoubt, UnchangedBySwap
  <2>7. attempts[o] \subseteq attempts'[o]
    BY ZenonT(60), <1>0 DEF Reclaim, Goto, RaiseDoubt, UnchangedBySwap
  <2> QED
    BY Zenon, <2>1, <2>2, <2>3, <2>4, <2>5, <2>6, <2>7 DEF Same
<1>3. KnowInv(m)'
  BY ZenonT(60), <1>0, <1>1 DEF Reclaim, Goto, RaiseDoubt, UnchangedBySwap, KnowInv,
     DoubtInv, FlightInv, Past, IsSealed, Content, Durable
<1>7. /\ pc[m] = "reclaim" /\ UNCHANGED <<root, late, body, attempts, flightVars>>
      /\ UNCHANGED <<rootSnapshot, inodes, changes>>
  BY Zenon DEF Reclaim, RaiseDoubt, UnchangedBySwap
<1>8. \/ /\ root # sealedKey[m] /\ pc'[m] = "reclaimDelete"
         /\ knowledge'[m] = knowledge[m] /\ doubtKey'[m] = doubtKey[m]
      \/ /\ pc'[m] = "probe" /\ knowledge'[m] = "inDoubt" /\ doubtKey'[m] = sealedKey[m]
  <2>1. CASE root # sealedKey[m] /\ Goto(m, "reclaimDelete") /\ UNCHANGED knowVars
    BY Zenon, <1>0, <2>1 DEF Goto
  <2>2. CASE RaiseDoubt(m)
    BY Zenon, <1>0, <2>2 DEF RaiseDoubt, Goto
  <2> QED
    BY Zenon, <2>1, <2>2 DEF Reclaim
<1>9. /\ sealedKey[m] \in attempts[m] /\ body[sealedKey[m]] \subseteq inodes[m]
      /\ sealedChanges[m] <= changes[m]
      /\ sealedChanges[m] = changes[m] => inodes[m] = body[sealedKey[m]]
      /\ sealedETag[m] = rootSnapshot[m] /\ Descends(sealedKey[m], sealedETag[m])
      /\ \A w \in late : w.key # sealedKey[m]
  BY Zenon, <1>0, <1>7 DEF FlightInv
<1>10. Descends(sealedKey[m], sealedETag[m])'
  BY Zenon, <1>7, <1>9 DEF Descends, Content
<1>4. DoubtInv(m)'
  BY Zenon, <1>0, <1>7, <1>8, <1>9, <1>10 DEF DoubtInv
<1>5. FlightInv(m)'
  BY Zenon, <1>7, <1>8, <1>9, <1>10 DEF FlightInv
<1>6. PruneInv(m)'
  BY Zenon, <1>0, <1>1 DEF Reclaim, Goto, RaiseDoubt, UnchangedBySwap,
     PruneInv, Past, IsSealed, Content, Durable
<1> QED
  BY Zenon, <1>1, <1>2, <1>3, <1>4, <1>5, <1>6, Quiet DEF MountInv

\* A failed read of the reclaim keeps the invariant.
LEMMA ReclaimFailsInd ==
  ASSUME Inductive, TypeOK', SealedTyped', NEW m \in Mount, ReclaimFails(m)
  PROVE  Inductive'
<1> USE DEF TypeOK, storeVars, knowVars, nsVars, flightVars,
            pruneVars, sealVars, histVars
<1>0. KnowInv(m) /\ DoubtInv(m) /\ FlightInv(m) /\ PruneInv(m) /\ StoreInv /\ TypeOK
  BY Zenon DEF Inductive
<1>1. UNCHANGED <<storeVars, sealVars>> /\ acked' \subseteq Durable
  BY ZenonT(60), <1>0 DEF ReclaimFails, Fault, RaiseDoubt, Goto, UnchangedBySwap,
     StoreInv, KnowInv, FlightInv, Past, Content
<1>2. \A o \in Mount \ {m} : Same(o)
  <2> SUFFICES ASSUME NEW o \in Mount, o # m PROVE Same(o)
    BY Zenon
  <2>1. pc'[o] = pc[o]
    BY ZenonT(60), <1>0 DEF ReclaimFails, Fault, RaiseDoubt, Goto, UnchangedBySwap
  <2>2. knowledge'[o] = knowledge[o] /\ epoch'[o] = epoch[o] /\ doubtKey'[o] = doubtKey[o]
    BY ZenonT(60), <1>0 DEF ReclaimFails, Fault, RaiseDoubt, Goto, UnchangedBySwap
  <2>3. rootETag'[o] = rootETag[o] /\ rootSnapshot'[o] = rootSnapshot[o]
    BY ZenonT(60), <1>0 DEF ReclaimFails, Fault, RaiseDoubt, Goto, UnchangedBySwap
  <2>4. /\ inodes'[o] = inodes[o] /\ changes'[o] = changes[o] /\ dirty'[o] = dirty[o]
    BY ZenonT(60), <1>0 DEF ReclaimFails, Fault, RaiseDoubt, Goto, UnchangedBySwap
  <2>5. /\ sealedKey'[o] = sealedKey[o] /\ sealedETag'[o] = sealedETag[o]
        /\ sealedChanges'[o] = sealedChanges[o] /\ newETag'[o] = newETag[o]
    BY ZenonT(60), <1>0 DEF ReclaimFails, Fault, RaiseDoubt, Goto, UnchangedBySwap
  <2>6. /\ pruning'[o] = pruning[o] /\ current'[o] = current[o] /\ doomed'[o] = doomed[o]
    BY ZenonT(60), <1>0 DEF ReclaimFails, Fault, RaiseDoubt, Goto, UnchangedBySwap
  <2>7. attempts[o] \subseteq attempts'[o]
    BY ZenonT(60), <1>0 DEF ReclaimFails, Fault, RaiseDoubt, Goto, UnchangedBySwap
  <2> QED
    BY Zenon, <2>1, <2>2, <2>3, <2>4, <2>5, <2>6, <2>7 DEF Same
<1>3. KnowInv(m)'
  BY Zenon, <1>0, <1>1 DEF ReclaimFails, Fault, RaiseDoubt, Goto,
     UnchangedBySwap, KnowInv, DoubtInv, FlightInv, Past, IsSealed, Content,
     Durable
<1>4. DoubtInv(m)'
  BY Zenon, <1>0, <1>1 DEF ReclaimFails, Fault, RaiseDoubt, Goto,
     UnchangedBySwap, DoubtInv, FlightInv, Descends, Content
<1>5. FlightInv(m)'
  BY Zenon, <1>0, <1>1 DEF ReclaimFails, Fault, RaiseDoubt, Goto,
     UnchangedBySwap, FlightInv, DoubtInv, Descends, Past, IsSealed, Content,
     Durable
<1>6. PruneInv(m)'
  BY Zenon, <1>0, <1>1 DEF ReclaimFails, Fault, RaiseDoubt, Goto,
     UnchangedBySwap, PruneInv, Past, IsSealed, Content, Durable
<1> QED
  BY Zenon, <1>1, <1>2, <1>3, <1>4, <1>5, <1>6, Quiet DEF MountInv

\* resolveRoot's adoption of an attempt keeps the invariant.
LEMMA ProbeOursInd ==
  ASSUME Inductive, TypeOK', SealedTyped', NEW m \in Mount, ProbeOurs(m)
  PROVE  Inductive'
<1> USE DEF TypeOK, storeVars, knowVars, nsVars, flightVars,
            pruneVars, sealVars, histVars
<1>0. KnowInv(m) /\ DoubtInv(m) /\ FlightInv(m) /\ PruneInv(m) /\ StoreInv /\ TypeOK
  BY Zenon DEF Inductive
<1>1. UNCHANGED <<storeVars, sealVars>> /\ acked' \subseteq Durable
  BY ZenonT(60), <1>0 DEF ProbeOurs, Goto, ClassifyRoot, UnchangedByProbe, StoreInv,
     KnowInv, FlightInv, Past, Content
<1>2. \A o \in Mount \ {m} : Same(o)
  <2> SUFFICES ASSUME NEW o \in Mount, o # m PROVE Same(o)
    BY Zenon
  <2>1. /\ pc'[o] = pc[o] /\ knowledge'[o] = knowledge[o] /\ epoch'[o] = epoch[o]
        /\ rootETag'[o] = rootETag[o] /\ rootSnapshot'[o] = rootSnapshot[o]
        /\ doubtKey'[o] = doubtKey[o] /\ inodes'[o] = inodes[o]
        /\ changes'[o] = changes[o] /\ dirty'[o] = dirty[o]
    <3>1. pc'[o] = pc[o] /\ knowledge'[o] = knowledge[o]
      BY ZenonT(60), <1>0 DEF ProbeOurs, Goto, UnchangedByProbe
    <3>2. epoch'[o] = epoch[o] /\ rootETag'[o] = rootETag[o]
      BY ZenonT(60), <1>0 DEF ProbeOurs, Goto, UnchangedByProbe
    <3>3. rootSnapshot'[o] = rootSnapshot[o] /\ doubtKey'[o] = doubtKey[o]
      BY ZenonT(60), <1>0 DEF ProbeOurs, Goto, UnchangedByProbe
    <3>4. inodes'[o] = inodes[o] /\ changes'[o] = changes[o]
      BY ZenonT(60), <1>0 DEF ProbeOurs, Goto, UnchangedByProbe
    <3>5. dirty'[o] = dirty[o]
      BY ZenonT(60), <1>0 DEF ProbeOurs, Goto, UnchangedByProbe
    <3> QED
      BY Zenon, <3>1, <3>2, <3>3, <3>4, <3>5
  <2>2. /\ sealedKey'[o] = sealedKey[o] /\ sealedETag'[o] = sealedETag[o]
        /\ sealedChanges'[o] = sealedChanges[o] /\ newETag'[o] = newETag[o]
        /\ pruning'[o] = pruning[o] /\ current'[o] = current[o]
        /\ doomed'[o] = doomed[o] /\ attempts'[o] = attempts[o]
    <3>1. sealedKey'[o] = sealedKey[o] /\ sealedETag'[o] = sealedETag[o]
      BY ZenonT(60), <1>0 DEF ProbeOurs, Goto, UnchangedByProbe
    <3>2. sealedChanges'[o] = sealedChanges[o] /\ newETag'[o] = newETag[o]
      BY ZenonT(60), <1>0 DEF ProbeOurs, Goto, UnchangedByProbe
    <3>3. pruning'[o] = pruning[o] /\ current'[o] = current[o]
      BY ZenonT(60), <1>0 DEF ProbeOurs, Goto, UnchangedByProbe
    <3>4. doomed'[o] = doomed[o] /\ attempts'[o] = attempts[o]
      BY ZenonT(60), <1>0 DEF ProbeOurs, Goto, UnchangedByProbe
    <3> QED
      BY Zenon, <3>1, <3>2, <3>3, <3>4
  <2> QED
    BY Zenon, <2>1, <2>2 DEF Same
<1>3. KnowInv(m)'
  BY SMTT(60), <1>0, <1>1 DEF ProbeOurs, Goto, ClassifyRoot, UnchangedByProbe,
     KnowInv, DoubtInv, FlightInv, Past, IsSealed, Content, Durable
<1>4. DoubtInv(m)'
  BY Zenon, <1>0, <1>1 DEF ProbeOurs, Goto, ClassifyRoot, UnchangedByProbe,
     DoubtInv, FlightInv, Descends, Content
<1>5. FlightInv(m)'
  BY Zenon, <1>0, <1>1 DEF ProbeOurs, Goto, ClassifyRoot, UnchangedByProbe,
     FlightInv, DoubtInv, Descends, Past, IsSealed, Content, Durable
<1>6. PruneInv(m)'
  BY Zenon, <1>0, <1>1 DEF ProbeOurs, Goto, ClassifyRoot, UnchangedByProbe,
     PruneInv, Past, IsSealed, Content, Durable
<1> QED
  BY Zenon, <1>1, <1>2, <1>3, <1>4, <1>5, <1>6, Quiet DEF MountInv

\* resolveRoot's retreat to the root it knew keeps the invariant.
LEMMA ProbeUnchangedInd ==
  ASSUME Inductive, TypeOK', SealedTyped', NEW m \in Mount, ProbeUnchanged(m)
  PROVE  Inductive'
<1> USE DEF TypeOK, storeVars, knowVars, nsVars, flightVars,
            pruneVars, sealVars, histVars
<1>0. KnowInv(m) /\ DoubtInv(m) /\ FlightInv(m) /\ PruneInv(m) /\ StoreInv /\ TypeOK
  BY Zenon DEF Inductive
<1>1. UNCHANGED <<storeVars, sealVars>> /\ acked' \subseteq Durable
  BY Zenon, <1>0 DEF ProbeUnchanged, Goto, ClassifyRoot, ReturnError, Discard,
     UnchangedByProbe, StoreInv, KnowInv, FlightInv, Past, Content
<1>2. \A o \in Mount \ {m} : Same(o)
  <2> SUFFICES ASSUME NEW o \in Mount, o # m PROVE Same(o)
    BY Zenon
  <2>1. /\ pc'[o] = pc[o] /\ knowledge'[o] = knowledge[o] /\ epoch'[o] = epoch[o]
        /\ rootETag'[o] = rootETag[o] /\ rootSnapshot'[o] = rootSnapshot[o]
        /\ doubtKey'[o] = doubtKey[o] /\ inodes'[o] = inodes[o]
        /\ changes'[o] = changes[o] /\ dirty'[o] = dirty[o]
    <3>1. pc'[o] = pc[o] /\ knowledge'[o] = knowledge[o]
      BY ZenonT(60), <1>0 DEF ProbeUnchanged, Goto, ReturnError, Discard, UnchangedByProbe
    <3>2. epoch'[o] = epoch[o] /\ rootETag'[o] = rootETag[o]
      BY ZenonT(60), <1>0 DEF ProbeUnchanged, Goto, ReturnError, Discard, UnchangedByProbe
    <3>3. rootSnapshot'[o] = rootSnapshot[o] /\ doubtKey'[o] = doubtKey[o]
      BY ZenonT(60), <1>0 DEF ProbeUnchanged, Goto, ReturnError, Discard, UnchangedByProbe
    <3>4. inodes'[o] = inodes[o] /\ changes'[o] = changes[o]
      BY ZenonT(60), <1>0 DEF ProbeUnchanged, Goto, ReturnError, Discard, UnchangedByProbe
    <3>5. dirty'[o] = dirty[o]
      BY ZenonT(60), <1>0 DEF ProbeUnchanged, Goto, ReturnError, Discard, UnchangedByProbe
    <3> QED
      BY Zenon, <3>1, <3>2, <3>3, <3>4, <3>5
  <2>2. /\ sealedKey'[o] = sealedKey[o] /\ sealedETag'[o] = sealedETag[o]
        /\ sealedChanges'[o] = sealedChanges[o] /\ newETag'[o] = newETag[o]
    <3>1. Discard(m) \/ UNCHANGED flightVars
      BY Zenon DEF ProbeUnchanged, ReturnError
    <3> QED
      BY Zenon, <1>0, <3>1, DiscardKeeps
  <2>3. UNCHANGED <<pruneVars, sealVars>>
    BY ZenonT(60) DEF ProbeUnchanged, UnchangedByProbe
  <2> QED
    BY Zenon, <2>1, <2>2, <2>3 DEF Same
<1>3. KnowInv(m)'
  <2>1. root = rootSnapshot[m] /\ rootETag'[m] = root
    BY Zenon, <1>0 DEF ProbeUnchanged, ClassifyRoot
  <2>2. /\ pc[m] \in {"probe", "settle"}
        /\ UNCHANGED <<rootSnapshot, epoch, inodes, dirty>>
    BY Zenon DEF ProbeUnchanged, UnchangedByProbe
  <2>3. Past(rootSnapshot[m])'
    BY Zenon, <1>0, <1>1, <2>2 DEF KnowInv, Past, IsSealed, Content, Durable
  <2>4. Durable' = Durable /\ Content(rootSnapshot[m])' = Content(rootSnapshot[m])
    BY Zenon, <1>1, <2>2 DEF Durable, Content
  <2> QED
    BY Zenon, <1>0, <2>1, <2>2, <2>3, <2>4 DEF KnowInv
<1>4. DoubtInv(m)'
  <2>1. pc'[m] \in {"ready", "exiting", "seal"} /\ knowledge'[m] = "known"
    BY Zenon, <1>0 DEF ProbeUnchanged, Goto, ReturnError
  <2> QED
    BY Zenon, <2>1 DEF DoubtInv
<1>5. FlightInv(m)'
  <2>1. pc'[m] \in {"ready", "exiting", "seal"}
    BY Zenon, <1>0 DEF ProbeUnchanged, Goto, ReturnError
  <2> QED
    BY Zenon, <2>1, Landed
<1>6. PruneInv(m)'
  BY Zenon, <1>0, <1>1 DEF ProbeUnchanged, Goto, ClassifyRoot, ReturnError,
     Discard, UnchangedByProbe, PruneInv, Past, IsSealed, Content, Durable
<1> QED
  BY Zenon, <1>1, <1>2, <1>3, <1>4, <1>5, <1>6, Quiet DEF MountInv

\* resolveRoot's divergence keeps the invariant.
LEMMA ProbeTheirsInd ==
  ASSUME Inductive, TypeOK', SealedTyped', NEW m \in Mount, ProbeTheirs(m)
  PROVE  Inductive'
<1> USE DEF TypeOK, storeVars, knowVars, nsVars, flightVars,
            pruneVars, sealVars, histVars
<1>0. KnowInv(m) /\ DoubtInv(m) /\ FlightInv(m) /\ PruneInv(m) /\ StoreInv /\ TypeOK
  BY Zenon DEF Inductive
<1>1. UNCHANGED <<storeVars, sealVars>> /\ acked' \subseteq Durable
  BY Zenon, <1>0 DEF ProbeTheirs, ReturnError, Goto, Discard, UnchangedByProbe,
     StoreInv, KnowInv, FlightInv, Past, Content
<1>2. \A o \in Mount \ {m} : Same(o)
  <2> SUFFICES ASSUME NEW o \in Mount, o # m PROVE Same(o)
    BY Zenon
  <2>1. /\ pc'[o] = pc[o] /\ knowledge'[o] = knowledge[o] /\ epoch'[o] = epoch[o]
        /\ rootETag'[o] = rootETag[o] /\ rootSnapshot'[o] = rootSnapshot[o]
        /\ doubtKey'[o] = doubtKey[o] /\ inodes'[o] = inodes[o]
        /\ changes'[o] = changes[o] /\ dirty'[o] = dirty[o]
    BY Zenon, <1>0 DEF ProbeTheirs, ReturnError, Goto, Discard,
       UnchangedByProbe
  <2>2. /\ sealedKey'[o] = sealedKey[o] /\ sealedETag'[o] = sealedETag[o]
        /\ sealedChanges'[o] = sealedChanges[o] /\ newETag'[o] = newETag[o]
    <3>1. Discard(m)
      BY Zenon DEF ProbeTheirs, ReturnError
    <3> QED
      BY Zenon, <1>0, <3>1, DiscardKeeps
  <2>3. UNCHANGED <<pruneVars, sealVars>>
    BY Zenon DEF ProbeTheirs, UnchangedByProbe
  <2> QED
    BY Zenon, <2>1, <2>2, <2>3 DEF Same
<1>3. KnowInv(m)'
  BY Zenon, <1>0, <1>1 DEF ProbeTheirs, ReturnError, Goto, Discard,
     UnchangedByProbe, KnowInv, DoubtInv, FlightInv, Past, IsSealed, Content,
     Durable
<1>4. DoubtInv(m)'
  BY Zenon, <1>0, <1>1 DEF ProbeTheirs, ReturnError, Goto, Discard,
     UnchangedByProbe, DoubtInv, FlightInv, Descends, Content
<1>5. FlightInv(m)'
  BY Zenon, <1>0, <1>1 DEF ProbeTheirs, ReturnError, Goto, Discard,
     UnchangedByProbe, FlightInv, DoubtInv, Descends, Past, IsSealed, Content,
     Durable
<1>6. PruneInv(m)'
  BY Zenon, <1>0, <1>1 DEF ProbeTheirs, ReturnError, Goto, Discard,
     UnchangedByProbe, PruneInv, Past, IsSealed, Content, Durable
<1> QED
  BY Zenon, <1>1, <1>2, <1>3, <1>4, <1>5, <1>6, Quiet DEF MountInv

\* A failed read of resolveRoot keeps the invariant.
LEMMA ProbeFailedInd ==
  ASSUME Inductive, TypeOK', SealedTyped', NEW m \in Mount, ProbeFailed(m)
  PROVE  Inductive'
<1> USE DEF TypeOK, storeVars, knowVars, nsVars, flightVars,
            pruneVars, sealVars, histVars
<1>0. KnowInv(m) /\ DoubtInv(m) /\ FlightInv(m) /\ PruneInv(m) /\ StoreInv /\ TypeOK
  BY Zenon DEF Inductive
<1>1. UNCHANGED <<storeVars, sealVars>> /\ acked' \subseteq Durable
  BY ZenonT(60), <1>0 DEF ProbeFailed, Fault, ReturnError, Goto, Discard,
     UnchangedByProbe, StoreInv, KnowInv, FlightInv, Past, Content
<1>2. \A o \in Mount \ {m} : Same(o)
  <2> SUFFICES ASSUME NEW o \in Mount, o # m PROVE Same(o)
    BY Zenon
  <2>1. pc'[o] = pc[o]
    BY ZenonT(60), <1>0 DEF ProbeFailed, Fault, ReturnError, Goto, Discard,
       UnchangedByProbe
  <2>2. knowledge'[o] = knowledge[o] /\ epoch'[o] = epoch[o] /\ doubtKey'[o] = doubtKey[o]
    BY ZenonT(60), <1>0 DEF ProbeFailed, Fault, ReturnError, Goto, Discard,
       UnchangedByProbe
  <2>3. rootETag'[o] = rootETag[o] /\ rootSnapshot'[o] = rootSnapshot[o]
    BY ZenonT(60), <1>0 DEF ProbeFailed, Fault, ReturnError, Goto, Discard,
       UnchangedByProbe
  <2>4. /\ inodes'[o] = inodes[o] /\ changes'[o] = changes[o] /\ dirty'[o] = dirty[o]
    BY ZenonT(60), <1>0 DEF ProbeFailed, Fault, ReturnError, Goto, Discard,
       UnchangedByProbe
  <2>5. /\ sealedKey'[o] = sealedKey[o] /\ sealedETag'[o] = sealedETag[o]
        /\ sealedChanges'[o] = sealedChanges[o] /\ newETag'[o] = newETag[o]
    BY Zenon, <1>0, DiscardKeeps DEF ProbeFailed, ReturnError
  <2>6. /\ pruning'[o] = pruning[o] /\ current'[o] = current[o] /\ doomed'[o] = doomed[o]
    BY ZenonT(60), <1>0 DEF ProbeFailed, Fault, ReturnError, Goto, Discard,
       UnchangedByProbe
  <2>7. attempts[o] \subseteq attempts'[o]
    BY ZenonT(60), <1>0 DEF ProbeFailed, Fault, ReturnError, Goto, Discard,
       UnchangedByProbe
  <2> QED
    BY Zenon, <2>1, <2>2, <2>3, <2>4, <2>5, <2>6, <2>7 DEF Same
<1>3. KnowInv(m)'
  BY Zenon, <1>0, <1>1 DEF ProbeFailed, Fault, ReturnError, Goto, Discard,
     UnchangedByProbe, KnowInv, DoubtInv, FlightInv, Past, IsSealed, Content,
     Durable
<1>4. DoubtInv(m)'
  BY Zenon, <1>0, <1>1 DEF ProbeFailed, Fault, ReturnError, Goto, Discard,
     UnchangedByProbe, DoubtInv, FlightInv, Descends, Content
<1>5. FlightInv(m)'
  BY Zenon, <1>0, <1>1 DEF ProbeFailed, Fault, ReturnError, Goto, Discard,
     UnchangedByProbe, FlightInv, DoubtInv, Descends, Past, IsSealed, Content,
     Durable
<1>6. PruneInv(m)'
  BY Zenon, <1>0, <1>1 DEF ProbeFailed, Fault, ReturnError, Goto, Discard,
     UnchangedByProbe, PruneInv, Past, IsSealed, Content, Durable
<1> QED
  BY Zenon, <1>1, <1>2, <1>3, <1>4, <1>5, <1>6, Quiet DEF MountInv

\* applyLocked keeps the invariant.
LEMMA ApplyInd ==
  ASSUME Inductive, TypeOK', SealedTyped', NEW m \in Mount, Apply(m)
  PROVE  Inductive'
<1> USE DEF TypeOK, storeVars, knowVars, nsVars, flightVars,
            pruneVars, sealVars, histVars
<1>0. KnowInv(m) /\ DoubtInv(m) /\ FlightInv(m) /\ PruneInv(m) /\ StoreInv /\ TypeOK
  BY Zenon DEF Inductive
<1>1. UNCHANGED <<storeVars, sealVars>> /\ acked' \subseteq Durable
  <2>0. Past(sealedKey[m]) /\ sealedKey[m] # None
    <3>1. pc[m] = "apply"
      BY Zenon DEF Apply
    <3>2. Past(sealedKey[m])
      BY Zenon, <1>0, <3>1 DEF FlightInv
    <3>3. sealedKey[m] \in Key
      BY Zenon, <3>1 DEF Inductive, SealedTyped
    <3> QED
      BY Zenon, <3>2, <3>3, KeyFacts
  <2>1. body[sealedKey[m]] \subseteq Durable
    BY ZenonT(60), <2>0 DEF Past, Content
  <2> QED
    BY Zenon, <1>0, <2>1 DEF Apply, StoreInv
<1>2. \A o \in Mount \ {m} : Same(o)
  <2> SUFFICES ASSUME NEW o \in Mount, o # m PROVE Same(o)
    BY Zenon
  <2>1. /\ pc'[o] = pc[o] /\ knowledge'[o] = knowledge[o] /\ epoch'[o] = epoch[o]
        /\ rootETag'[o] = rootETag[o] /\ rootSnapshot'[o] = rootSnapshot[o]
        /\ doubtKey'[o] = doubtKey[o] /\ inodes'[o] = inodes[o]
        /\ changes'[o] = changes[o] /\ dirty'[o] = dirty[o]
    <3>1. pc'[o] = pc[o] /\ knowledge'[o] = knowledge[o]
      BY ZenonT(60), <1>0 DEF Apply, Goto, Discard, SchedulePrune
    <3>2. epoch'[o] = epoch[o] /\ rootETag'[o] = rootETag[o]
      BY ZenonT(60), <1>0 DEF Apply, Goto, Discard, SchedulePrune
    <3>3. rootSnapshot'[o] = rootSnapshot[o] /\ doubtKey'[o] = doubtKey[o]
      BY ZenonT(60), <1>0 DEF Apply, Goto, Discard, SchedulePrune
    <3>4. inodes'[o] = inodes[o] /\ changes'[o] = changes[o]
      BY ZenonT(60), <1>0 DEF Apply, Goto, Discard, SchedulePrune
    <3>5. dirty'[o] = dirty[o]
      BY ZenonT(60), <1>0 DEF Apply, Goto, Discard, SchedulePrune
    <3> QED
      BY Zenon, <3>1, <3>2, <3>3, <3>4, <3>5
  <2>2. Discard(m) /\ SchedulePrune(m, sealedKey[m]) /\ attempts' = attempts
    BY Zenon DEF Apply
  <2>3. /\ sealedKey'[o] = sealedKey[o] /\ sealedETag'[o] = sealedETag[o]
        /\ sealedChanges'[o] = sealedChanges[o] /\ newETag'[o] = newETag[o]
        /\ pruning'[o] = pruning[o] /\ current'[o] = current[o] /\ doomed'[o] = doomed[o]
    <3> HIDE DEF TypeOK
    <3> QED
      BY Zenon, <1>0, <2>2, DiscardKeeps, SchedulePruneKeeps
  <2> QED
    BY Zenon, <2>1, <2>2, <2>3 DEF Same
<1>3. KnowInv(m)'
  <2>1. /\ pc'[m] = "ready" /\ epoch'[m] = sealedKey[m].epoch
        /\ rootETag'[m] = newETag[m] /\ rootSnapshot'[m] = sealedKey[m]
        /\ dirty'[m] = (changes[m] # sealedChanges[m]) /\ inodes' = inodes
    <3>1. pc'[m] = "ready" /\ epoch'[m] = sealedKey[m].epoch
      BY ZenonT(60), <1>0 DEF Apply, Goto
    <3>2. rootETag'[m] = newETag[m] /\ rootSnapshot'[m] = sealedKey[m]
      BY ZenonT(60), <1>0 DEF Apply, Goto
    <3>3. dirty'[m] = (changes[m] # sealedChanges[m]) /\ inodes' = inodes
      BY ZenonT(60), <1>0 DEF Apply, Goto
    <3> QED
      BY Zenon, <3>1, <3>2, <3>3
  <2>2. pc[m] = "apply"
    BY Zenon DEF Apply
  <2>3. sealedKey[m] # None
    BY Zenon, <2>2, KeyFacts DEF Inductive, SealedTyped
  <2>4. /\ newETag[m] = sealedKey[m] /\ Past(sealedKey[m])
        /\ body[sealedKey[m]] \subseteq inodes[m]
        /\ changes[m] = sealedChanges[m] => inodes[m] = body[sealedKey[m]]
    BY Zenon, <1>0, <2>2 DEF FlightInv
  <2>5. UNCHANGED <<root, attempts, body>>
    BY Zenon, <1>1
  <2>6. Past(rootSnapshot[m])'
    BY Zenon, <2>1, <2>4, <2>5 DEF Past, IsSealed, Content, Durable
  <2>7. (Content(rootSnapshot[m]) \subseteq inodes[m])'
    BY Zenon, <2>1, <2>3, <2>4, <2>5 DEF Content
  <2>8. (~dirty[m] => inodes[m] \subseteq Durable)'
    <3>1. changes[m] = sealedChanges[m] => inodes[m] \subseteq Durable
      BY Zenon, <2>3, <2>4 DEF Past, Content
    <3> QED
      BY Zenon, <2>1, <2>5, <3>1 DEF Durable, Content
  <2>9. epoch'[m] = rootSnapshot'[m].epoch /\ rootETag'[m] = rootSnapshot'[m]
    BY Zenon, <2>1, <2>4
  <2> QED
    BY ZenonT(60), <2>6, <2>7, <2>8, <2>9 DEF KnowInv
<1>4. DoubtInv(m)'
  BY Zenon, <1>0, <1>1 DEF Apply, Goto, Discard, SchedulePrune, DoubtInv,
     FlightInv, Descends, Content
<1>5. FlightInv(m)'
  BY Zenon, <1>0, <1>1 DEF Apply, Goto, Discard, SchedulePrune, FlightInv,
     DoubtInv, Descends, Past, IsSealed, Content, Durable
<1>6. PruneInv(m)'
  <2>1. Past(sealedKey[m])
    BY Zenon, <1>0 DEF Apply, FlightInv
  <2>2. CASE Retention = 0 \/ pruning[m] # "idle"
    BY Zenon, <1>0, <1>1, <2>2 DEF Apply, SchedulePrune, PruneInv, Past,
       IsSealed, Content, Durable
  <2>3. CASE ~(Retention = 0 \/ pruning[m] # "idle")
    <3>1. /\ pruning'[m] = "list" /\ current'[m] = sealedKey[m] /\ doomed'[m] = {}
      <4>1. /\ pruning' = [pruning EXCEPT ![m] = "list"]
            /\ current' = [current EXCEPT ![m] = sealedKey[m]]
            /\ doomed' = doomed
        BY Zenon, <2>3 DEF Apply, SchedulePrune
      <4>2. doomed[m] = {}
        BY Zenon, <1>0, <2>3 DEF PruneInv
      <4> QED
        BY SMTT(60), <1>0, <4>1, <4>2
    <3>2. Past(current[m])'
      BY Zenon, <1>1, <2>1, <3>1 DEF Past, IsSealed, Content, Durable
    <3> QED
      BY Zenon, <3>1, <3>2 DEF PruneInv
  <2> QED
    BY Zenon, <2>2, <2>3
<1> QED
  BY Zenon, <1>1, <1>2, <1>3, <1>4, <1>5, <1>6, Quiet DEF MountInv

\* pruneSnapshots' listing keeps the invariant.
LEMMA PruneListInd ==
  ASSUME Inductive, TypeOK', SealedTyped', NEW m \in Mount, PruneList(m)
  PROVE  Inductive'
<1> USE DEF TypeOK, storeVars, knowVars, nsVars, flightVars,
            pruneVars, sealVars, histVars
<1>0. KnowInv(m) /\ DoubtInv(m) /\ FlightInv(m) /\ PruneInv(m) /\ StoreInv /\ TypeOK
  BY Zenon DEF Inductive
<1>1. UNCHANGED <<storeVars, sealVars>> /\ acked' \subseteq Durable
  BY Zenon, <1>0 DEF PruneList, Prunable, Fault, UnchangedByPrune, StoreInv,
     KnowInv, FlightInv, Past, Content
<1>2. \A o \in Mount \ {m} : Same(o)
  <2> SUFFICES ASSUME NEW o \in Mount, o # m PROVE Same(o)
    BY Zenon
  <2>1. /\ pc'[o] = pc[o] /\ knowledge'[o] = knowledge[o] /\ epoch'[o] = epoch[o]
        /\ rootETag'[o] = rootETag[o] /\ rootSnapshot'[o] = rootSnapshot[o]
        /\ doubtKey'[o] = doubtKey[o] /\ inodes'[o] = inodes[o]
        /\ changes'[o] = changes[o] /\ dirty'[o] = dirty[o]
    BY Zenon, <1>0 DEF PruneList, Fault, UnchangedByPrune
  <2>2. /\ sealedKey'[o] = sealedKey[o] /\ sealedETag'[o] = sealedETag[o]
        /\ sealedChanges'[o] = sealedChanges[o] /\ newETag'[o] = newETag[o]
        /\ pruning'[o] = pruning[o] /\ current'[o] = current[o]
        /\ doomed'[o] = doomed[o] /\ attempts'[o] = attempts[o]
    BY SMTT(60), <1>0 DEF PruneList, Fault, UnchangedByPrune
  <2> QED
    BY Zenon, <2>1, <2>2 DEF Same
<1>3. KnowInv(m)'
  BY Zenon, <1>0, <1>1 DEF PruneList, Prunable, Fault, UnchangedByPrune,
     KnowInv, DoubtInv, FlightInv, Past, IsSealed, Content, Durable
<1>4. DoubtInv(m)'
  BY Zenon, <1>0, <1>1 DEF PruneList, Prunable, Fault, UnchangedByPrune,
     DoubtInv, FlightInv, Descends, Content
<1>5. FlightInv(m)'
  BY Zenon, <1>0, <1>1 DEF PruneList, Prunable, Fault, UnchangedByPrune,
     FlightInv, DoubtInv, Descends, Past, IsSealed, Content, Durable
<1>6. PruneInv(m)'
  <2>1. CASE /\ doomed' = [doomed EXCEPT ![m] = Prunable(stored, current[m], Retention)]
             /\ pruning' = [pruning EXCEPT ![m] = "delete"]
             /\ UNCHANGED current
    <3>1. \A k \in doomed'[m] : Below(k, current'[m])
      BY SMTT(60), <1>0, <2>1 DEF Prunable
    <3>2. Past(current[m])'
      BY Zenon, <1>0, <1>1, <2>1 DEF PruneInv, Past, IsSealed, Content, Durable
    <3> QED
      BY SMTT(60), <1>0, <2>1, <3>1, <3>2 DEF PruneInv, Below
  <2>2. CASE /\ pruning' = [pruning EXCEPT ![m] = "idle"]
             /\ current' = [current EXCEPT ![m] = None]
             /\ UNCHANGED doomed
    <3>1. pruning'[m] = "idle" /\ current'[m] = None /\ doomed'[m] = {}
      BY SMTT(60), <1>0, <2>2 DEF PruneList, PruneInv
    <3>2. Past(None)'
      BY Zenon, <1>0, <1>1, PastFacts DEF Past, IsSealed, Content, Durable
    <3>3. Past(current[m])'
      BY Zenon, <3>1, <3>2 DEF Past, IsSealed, Content, Durable
    <3> QED
      BY Zenon, <3>1, <3>3 DEF PruneInv
  <2> QED
    BY Zenon, <2>1, <2>2 DEF PruneList
<1> QED
  BY Zenon, <1>1, <1>2, <1>3, <1>4, <1>5, <1>6, Quiet DEF MountInv

\* The end of pruneSnapshots keeps the invariant.
LEMMA PruneEndInd ==
  ASSUME Inductive, TypeOK', SealedTyped', NEW m \in Mount, PruneEnd(m)
  PROVE  Inductive'
<1> USE DEF TypeOK, storeVars, knowVars, nsVars, flightVars,
            pruneVars, sealVars, histVars
<1>0. KnowInv(m) /\ DoubtInv(m) /\ FlightInv(m) /\ PruneInv(m) /\ StoreInv /\ TypeOK
  BY Zenon DEF Inductive
<1>1. UNCHANGED <<storeVars, sealVars>> /\ acked' \subseteq Durable
  BY Zenon, <1>0 DEF PruneEnd, UnchangedByPrune, StoreInv, KnowInv, FlightInv,
     Past, Content
<1>2. \A o \in Mount \ {m} : Same(o)
  <2> SUFFICES ASSUME NEW o \in Mount, o # m PROVE Same(o)
    BY Zenon
  <2>1. /\ pc'[o] = pc[o] /\ knowledge'[o] = knowledge[o] /\ epoch'[o] = epoch[o]
        /\ rootETag'[o] = rootETag[o] /\ rootSnapshot'[o] = rootSnapshot[o]
        /\ doubtKey'[o] = doubtKey[o] /\ inodes'[o] = inodes[o]
        /\ changes'[o] = changes[o] /\ dirty'[o] = dirty[o]
    BY Zenon, <1>0 DEF PruneEnd, UnchangedByPrune
  <2>2. /\ sealedKey'[o] = sealedKey[o] /\ sealedETag'[o] = sealedETag[o]
        /\ sealedChanges'[o] = sealedChanges[o] /\ newETag'[o] = newETag[o]
        /\ pruning'[o] = pruning[o] /\ current'[o] = current[o]
        /\ doomed'[o] = doomed[o] /\ attempts'[o] = attempts[o]
    BY SMTT(60), <1>0 DEF PruneEnd, UnchangedByPrune
  <2> QED
    BY Zenon, <2>1, <2>2 DEF Same
<1>3. KnowInv(m)'
  BY Zenon, <1>0, <1>1 DEF PruneEnd, UnchangedByPrune, KnowInv, DoubtInv,
     FlightInv, Past, IsSealed, Content, Durable
<1>4. DoubtInv(m)'
  BY Zenon, <1>0, <1>1 DEF PruneEnd, UnchangedByPrune, DoubtInv, FlightInv,
     Descends, Content
<1>5. FlightInv(m)'
  BY Zenon, <1>0, <1>1 DEF PruneEnd, UnchangedByPrune, FlightInv, DoubtInv,
     Descends, Past, IsSealed, Content, Durable
<1>6. PruneInv(m)'
  <2>1. pruning'[m] = "idle" /\ current'[m] = None /\ doomed'[m] = {}
    <3>1. pruning'[m] = "idle" /\ current'[m] = None
      BY ZenonT(60), <1>0 DEF PruneEnd
    <3>2. doomed'[m] = {}
      BY ZenonT(60), <1>0 DEF PruneEnd
    <3> QED
      BY Zenon, <3>1, <3>2
  <2>2. Past(None)'
    BY Zenon, <1>0, <1>1, PastFacts DEF Past, IsSealed, Content, Durable
  <2>3. Past(current[m])'
    BY Zenon, <2>1, <2>2 DEF Past, IsSealed, Content, Durable
  <2> QED
    BY Zenon, <2>1, <2>3 DEF PruneInv
<1> QED
  BY Zenon, <1>1, <1>2, <1>3, <1>4, <1>5, <1>6, Quiet DEF MountInv

\* A handler past mutable() keeps the invariant.
LEMMA AdmitInd ==
  ASSUME Inductive, TypeOK', SealedTyped', NEW m \in Mount, NEW c \in Change, Admit(m, c)
  PROVE  Inductive'
<1> USE DEF TypeOK, storeVars, knowVars, nsVars, flightVars,
            pruneVars, sealVars, histVars
<1>0. KnowInv(m) /\ DoubtInv(m) /\ FlightInv(m) /\ PruneInv(m) /\ StoreInv /\ TypeOK
  BY Zenon DEF Inductive
<1>1. UNCHANGED <<storeVars, sealVars>> /\ acked' \subseteq Durable
  BY Zenon, <1>0 DEF Admit, StoreInv, KnowInv, FlightInv, Past, Content
<1>2. \A o \in Mount \ {m} : Same(o)
  BY Zenon, <1>0 DEF Same, Admit
<1>3. KnowInv(m)'
  BY Zenon, <1>0, <1>1 DEF Admit, KnowInv, DoubtInv, FlightInv, Past, IsSealed,
     Content, Durable
<1>4. DoubtInv(m)'
  BY Zenon, <1>0, <1>1 DEF Admit, DoubtInv, FlightInv, Descends, Content
<1>5. FlightInv(m)'
  BY Zenon, <1>0, <1>1 DEF Admit, FlightInv, DoubtInv, Descends, Past,
     IsSealed, Content, Durable
<1>6. PruneInv(m)'
  BY Zenon, <1>0, <1>1 DEF Admit, PruneInv, Past, IsSealed, Content, Durable
<1> QED
  BY Zenon, <1>1, <1>2, <1>3, <1>4, <1>5, <1>6, Quiet DEF MountInv

\* A handler's change under FS.mu keeps the invariant.
LEMMA MutateInd ==
  ASSUME Inductive, TypeOK', SealedTyped', NEW m \in Mount, NEW c \in Change, Mutate(m, c)
  PROVE  Inductive'
<1> USE DEF TypeOK, storeVars, knowVars, nsVars, flightVars,
            pruneVars, sealVars, histVars
<1>0. KnowInv(m) /\ DoubtInv(m) /\ FlightInv(m) /\ PruneInv(m) /\ StoreInv /\ TypeOK
  BY Zenon DEF Inductive
<1>1. UNCHANGED <<storeVars, sealVars>> /\ acked' \subseteq Durable
  BY Zenon, <1>0 DEF Mutate, StoreInv, KnowInv, FlightInv, Past, Content
<1>2. \A o \in Mount \ {m} : Same(o)
  <2> SUFFICES ASSUME NEW o \in Mount, o # m PROVE Same(o)
    BY Zenon
  <2>1. pc'[o] = pc[o]
    BY ZenonT(60), <1>0 DEF Mutate
  <2>2. knowledge'[o] = knowledge[o] /\ epoch'[o] = epoch[o] /\ doubtKey'[o] = doubtKey[o]
    BY ZenonT(60), <1>0 DEF Mutate
  <2>3. rootETag'[o] = rootETag[o] /\ rootSnapshot'[o] = rootSnapshot[o]
    BY ZenonT(60), <1>0 DEF Mutate
  <2>4. /\ inodes'[o] = inodes[o] /\ changes'[o] = changes[o] /\ dirty'[o] = dirty[o]
    BY ZenonT(60), <1>0 DEF Mutate
  <2>5. /\ sealedKey'[o] = sealedKey[o] /\ sealedETag'[o] = sealedETag[o]
        /\ sealedChanges'[o] = sealedChanges[o] /\ newETag'[o] = newETag[o]
    BY ZenonT(60), <1>0 DEF Mutate
  <2>6. /\ pruning'[o] = pruning[o] /\ current'[o] = current[o] /\ doomed'[o] = doomed[o]
    BY ZenonT(60), <1>0 DEF Mutate
  <2>7. attempts[o] \subseteq attempts'[o]
    BY ZenonT(60), <1>0 DEF Mutate
  <2> QED
    BY Zenon, <2>1, <2>2, <2>3, <2>4, <2>5, <2>6, <2>7 DEF Same
<1>3. KnowInv(m)'
  BY Zenon, <1>0, <1>1 DEF Mutate, KnowInv, DoubtInv, FlightInv, Past,
     IsSealed, Content, Durable
<1>4. DoubtInv(m)'
  BY Zenon, <1>0, <1>1 DEF Mutate, DoubtInv, FlightInv, Descends, Content
<1>5. FlightInv(m)'
  <2>1. /\ changes'[m] = changes[m] + 1 /\ inodes[m] \subseteq inodes'[m]
        /\ changes[m] \in Nat /\ sealedChanges[m] \in Nat
    BY Zenon, <1>0 DEF Mutate
  <2>2. sealedChanges[m] <= changes[m] =>
          sealedChanges[m] <= changes'[m] /\ sealedChanges[m] # changes'[m]
    BY SMTT(60), <2>1
  <2>3. Past(sealedKey[m])' <=> Past(sealedKey[m])
    BY Zenon, <1>1 DEF Mutate, Past, IsSealed, Content, Durable
  <2>4. Descends(sealedKey[m], sealedETag[m])' <=> Descends(sealedKey[m], sealedETag[m])
    BY Zenon, <1>1 DEF Mutate, Descends, Content
  <2>5. /\ UNCHANGED <<pc, sealedKey, sealedETag, sealedChanges, newETag, doubtKey, rootSnapshot>>
        /\ UNCHANGED <<root, stored, late, attempts, body>>
    BY Zenon DEF Mutate
  <2> QED
    BY Zenon, <1>0, <2>1, <2>2, <2>3, <2>4, <2>5 DEF FlightInv
<1>6. PruneInv(m)'
  BY Zenon, <1>0, <1>1 DEF Mutate, PruneInv, Past, IsSealed, Content, Durable
<1> QED
  BY Zenon, <1>1, <1>2, <1>3, <1>4, <1>5, <1>6, Quiet DEF MountInv

-----------------------------------------------------------------------------
(* The steps that store or delete a snapshot *)

\* No snapshot below a past root pointer is one that the root pointer names,
\* or that a swap that can still apply would make it name (pruneSnapshots).
LEMMA DoomedSafe ==
  ASSUME Inductive, NEW m \in Mount, NEW k \in doomed[m]
  PROVE  /\ Below(k, root)
         /\ k # root
         /\ \A j \in KeyOrNone : Descends(j, root) => j # k
<1>1. k \in Key /\ current[m] \in KeyOrNone /\ root \in KeyOrNone
  BY Zenon DEF Inductive, TypeOK
<1>2. Below(k, current[m]) /\ (current[m] = root \/ current[m].epoch < root.epoch)
  BY Zenon DEF Inductive, PruneInv, Past
<1>3. k.epoch \in Nat /\ k.nonce \in Nat /\ current[m].epoch \in Nat /\ root.epoch \in Nat
  BY SMTT(60), <1>1, Epochs, KeyFacts, ConstantsAssumption DEF KeyOrNone
<1>4. root # None => root.nonce \in Nat
  BY SMTT(60), <1>1, KeyFacts, ConstantsAssumption DEF KeyOrNone
<1>5. Below(k, root) /\ k.epoch <= root.epoch
  BY SMTT(60), <1>2, <1>3 DEF Below
<1>6. root # None
  BY SMTT(60), <1>1, <1>5, KeyFacts
<1> QED
  BY SMTT(60), <1>3, <1>4, <1>5, <1>6 DEF Below, Descends

\* A change of the stored snapshots keeps the invariant when it deletes none
\* that the root pointer names or may come to name.
LEMMA StoredChanges ==
  ASSUME Inductive, TypeOK', SealedTyped', NEW m \in Mount,
         UNCHANGED <<root, late, sealVars, acked>>,
         \A k \in stored' : IsSealed(k),
         root # None => root \in stored',
         \A w \in late : root = w.ifMatch => w.key \in stored',
         \A o \in Mount \ {m} :
            /\ Same(o)
            /\ pc[o] = "swap" /\ root = sealedETag[o] => sealedKey[o] \in stored',
         MountInv(m)'
  PROVE  Inductive'
<1> USE DEF sealVars
<1>1. Evolves
  BY Zenon DEF Evolves, IsSealed, Content
<1>2. \A o \in Mount \ {m} : FlightKept(o)
  BY Zenon DEF FlightKept, FlightInv, Inductive
<1>3. StoreInv' /\ AttemptsInv'
  BY Zenon DEF Inductive, StoreInv, AttemptsInv, IsSealed, Durable, Content
<1>4. LateInv'
  BY Zenon DEF Inductive, LateInv, IsSealed, Past, Descends, Durable, Content
<1> QED
  BY Zenon, <1>1, <1>2, <1>3, <1>4, Assemble

\* A delete of pruneSnapshots keeps the invariant.
LEMMA PruneDeleteInd ==
  ASSUME Inductive, TypeOK', SealedTyped', NEW m \in Mount, PruneDelete(m)
  PROVE  Inductive'
<1> USE DEF TypeOK, storeVars, knowVars, nsVars, flightVars, pruneVars, sealVars,
        histVars
<1>0. KnowInv(m) /\ DoubtInv(m) /\ FlightInv(m) /\ PruneInv(m) /\ StoreInv /\ TypeOK
  BY Zenon DEF Inductive
<1>1. PICK k \in doomed[m] :
        /\ stored' = stored \ {k} \/ stored' = stored
        /\ doomed' = [doomed EXCEPT ![m] = @ \ {k}]
  BY Zenon DEF PruneDelete
<1>2. k # root /\ \A j \in KeyOrNone : Descends(j, root) => j # k
  BY Zenon, DoomedSafe
<1>3. \A o \in Mount \ {m} : Same(o)
  BY Zenon, <1>0, <1>1 DEF PruneDelete, Same, UnchangedByPrune
<1>4. \A o \in Mount : pc[o] = "swap" /\ root = sealedETag[o] => sealedKey[o] \in stored'
  <2> SUFFICES ASSUME NEW o \in Mount, pc[o] = "swap", root = sealedETag[o]
               PROVE  sealedKey[o] \in stored'
    BY Zenon
  <2>1. Descends(sealedKey[o], root) /\ sealedKey[o] \in stored
    BY Zenon DEF Inductive, FlightInv
  <2> QED
    BY SMTT(60), <1>0, <1>1, <1>2, <2>1
<1>5. \A w \in late : root = w.ifMatch => w.key \in stored'
  <2> SUFFICES ASSUME NEW w \in late, root = w.ifMatch PROVE w.key \in stored'
    BY Zenon
  <2>1. Descends(w.key, root) /\ w.key \in stored /\ w.key \in KeyOrNone
    BY Zenon, <1>0 DEF Inductive, LateInv, LateWrite, KeyOrNone
  <2> QED
    BY Zenon, <1>1, <1>2, <2>1
<1>6. UNCHANGED <<root, late, pc, knowVars, nsVars, flightVars, sealVars, acked, pruning, current>>
  BY Zenon DEF PruneDelete, UnchangedByPrune
<1>7. KnowInv(m)' /\ DoubtInv(m)'
  BY Zenon, <1>0, <1>6 DEF KnowInv, DoubtInv, Past, Descends, IsSealed,
     Content, Durable
<1>8. FlightInv(m)'
  BY Zenon, <1>0, <1>4, <1>6 DEF FlightInv, Past, Descends, IsSealed, Content,
     Durable
<1>9. PruneInv(m)'
  <2>1. doomed'[m] = doomed[m] \ {k}
    BY Zenon, <1>0, <1>1
  <2>2. Past(current[m])'
    BY Zenon, <1>0, <1>6 DEF PruneInv, Past, IsSealed, Content, Durable
  <2> QED
    BY Zenon, <1>0, <1>6, <2>1, <2>2 DEF PruneInv
<1>10. \A j \in stored' : IsSealed(j)
  BY ZenonT(60), <1>1 DEF Inductive, AttemptsInv
<1> QED
  BY Zenon, <1>0, <1>1, <1>2, <1>3, <1>4, <1>5, <1>6, <1>7, <1>8, <1>9, <1>10,
     StoredChanges DEF MountInv, StoreInv

\* The reclaim's delete keeps the invariant.
LEMMA ReclaimDeleteInd ==
  ASSUME Inductive, TypeOK', SealedTyped', NEW m \in Mount, ReclaimDelete(m)
  PROVE  Inductive'
<1> USE DEF TypeOK, storeVars, knowVars, nsVars, flightVars, pruneVars, sealVars,
        histVars
<1>0. KnowInv(m) /\ DoubtInv(m) /\ FlightInv(m) /\ PruneInv(m) /\ StoreInv /\ TypeOK
  BY Zenon DEF Inductive
<1>1. /\ stored' = stored \ {sealedKey[m]} \/ stored' = stored
      /\ pc[m] = "reclaimDelete"
      /\ pc' = [pc EXCEPT ![m] = IF serving[m] THEN "ready" ELSE "exiting"]
      /\ Discard(m)
  BY Zenon DEF ReclaimDelete, ReturnError, Goto
<1>2. root # sealedKey[m] /\ sealedKey[m] \in attempts[m] /\ \A w \in late : w.key # sealedKey[m]
  BY Zenon, <1>0, <1>1 DEF FlightInv
<1>3. UNCHANGED <<root, late, knowVars, nsVars, pruneVars, sealVars, acked>>
  BY Zenon DEF ReclaimDelete
<1>4. \A o \in Mount \ {m} : Same(o)
  <2> SUFFICES ASSUME NEW o \in Mount, o # m PROVE Same(o)
    BY Zenon
  <2>1. pc'[o] = pc[o]
    BY ZenonT(60), <1>0, <1>1, <1>3 DEF Discard
  <2>2. knowledge'[o] = knowledge[o] /\ epoch'[o] = epoch[o] /\ doubtKey'[o] = doubtKey[o]
    BY ZenonT(60), <1>0, <1>1, <1>3 DEF Discard
  <2>3. rootETag'[o] = rootETag[o] /\ rootSnapshot'[o] = rootSnapshot[o]
    BY ZenonT(60), <1>0, <1>1, <1>3 DEF Discard
  <2>4. /\ inodes'[o] = inodes[o] /\ changes'[o] = changes[o] /\ dirty'[o] = dirty[o]
    BY ZenonT(60), <1>0, <1>1, <1>3 DEF Discard
  <2>5. /\ sealedKey'[o] = sealedKey[o] /\ sealedETag'[o] = sealedETag[o]
        /\ sealedChanges'[o] = sealedChanges[o] /\ newETag'[o] = newETag[o]
    <3> HIDE DEF TypeOK
    <3> QED
      BY Zenon, <1>0, <1>1, DiscardKeeps
  <2>6. /\ pruning'[o] = pruning[o] /\ current'[o] = current[o] /\ doomed'[o] = doomed[o]
    BY ZenonT(60), <1>0, <1>1, <1>3 DEF Discard
  <2>7. attempts[o] \subseteq attempts'[o]
    BY ZenonT(60), <1>0, <1>1, <1>3 DEF Discard
  <2> QED
    BY Zenon, <2>1, <2>2, <2>3, <2>4, <2>5, <2>6, <2>7 DEF Same
<1>5. \A o \in Mount \ {m} :
        pc[o] = "swap" /\ root = sealedETag[o] => sealedKey[o] \in stored'
  <2> SUFFICES ASSUME NEW o \in Mount \ {m}, pc[o] = "swap", root = sealedETag[o]
               PROVE  sealedKey[o] \in stored'
    BY Zenon
  <2>1. sealedKey[o] \in stored /\ sealedKey[o] \in attempts[o]
    BY Zenon DEF Inductive, FlightInv
  <2>2. sealedKey[o] # sealedKey[m]
    BY Zenon, <1>2, <2>1 DEF Inductive, AttemptsInv
  <2> QED
    BY Zenon, <1>1, <2>1, <2>2
<1>6. \A w \in late : root = w.ifMatch => w.key \in stored'
  BY Zenon, <1>1, <1>2 DEF Inductive, LateInv
<1>7. KnowInv(m)' /\ DoubtInv(m)' /\ PruneInv(m)'
  BY Zenon, <1>0, <1>1, <1>3 DEF KnowInv, DoubtInv, PruneInv, Past, Descends,
     IsSealed, Content, Durable
<1>8. FlightInv(m)'
  BY Zenon, <1>0, <1>1 DEF FlightInv
<1>9. \A j \in stored' : IsSealed(j)
  BY Zenon, <1>1 DEF Inductive, AttemptsInv
<1> QED
  BY Zenon, <1>0, <1>1, <1>2, <1>3, <1>4, <1>5, <1>6, <1>7, <1>8, <1>9,
     StoredChanges DEF MountInv, StoreInv

\* The Put of a snapshot, answered or not, keeps the invariant.
LEMMA PutSnapshotInd ==
  ASSUME Inductive, TypeOK', SealedTyped', NEW m \in Mount,
         PutSnapshot(m) \/ PutSnapshotFails(m)
  PROVE  Inductive'
<1> USE DEF TypeOK, storeVars, knowVars, nsVars, flightVars, pruneVars, sealVars,
        histVars
<1>0. KnowInv(m) /\ DoubtInv(m) /\ FlightInv(m) /\ PruneInv(m) /\ StoreInv /\ TypeOK
  BY Zenon DEF Inductive
<1>1. /\ stored' = stored \cup {sealedKey[m]} \/ stored' = stored
      /\ pc[m] = "putSnapshot"
      /\ UNCHANGED <<root, late, knowVars, nsVars, pruneVars, sealVars, acked>>
  BY Zenon DEF PutSnapshot, PutSnapshotFails
<1>2. \/ /\ pc' = [pc EXCEPT ![m] = "swap"]
         /\ sealedKey[m] \in stored'
         /\ UNCHANGED flightVars
      \/ /\ pc' = [pc EXCEPT ![m] = IF serving[m] THEN "ready" ELSE "exiting"]
         /\ Discard(m)
  BY Zenon DEF PutSnapshot, PutSnapshotFails, ReturnError, Goto
<1>3. \A o \in Mount \ {m} : Same(o)
  <2> SUFFICES ASSUME NEW o \in Mount, o # m PROVE Same(o)
    BY Zenon
  <2>1. pc'[o] = pc[o]
    BY ZenonT(60), <1>0, <1>1, <1>2 DEF Discard
  <2>2. knowledge'[o] = knowledge[o] /\ epoch'[o] = epoch[o] /\ doubtKey'[o] = doubtKey[o]
    BY ZenonT(60), <1>0, <1>1, <1>2 DEF Discard
  <2>3. rootETag'[o] = rootETag[o] /\ rootSnapshot'[o] = rootSnapshot[o]
    BY ZenonT(60), <1>0, <1>1, <1>2 DEF Discard
  <2>4. /\ inodes'[o] = inodes[o] /\ changes'[o] = changes[o] /\ dirty'[o] = dirty[o]
    BY ZenonT(60), <1>0, <1>1, <1>2 DEF Discard
  <2>5. /\ sealedKey'[o] = sealedKey[o] /\ sealedETag'[o] = sealedETag[o]
        /\ sealedChanges'[o] = sealedChanges[o] /\ newETag'[o] = newETag[o]
    <3> HIDE DEF TypeOK
    <3> QED
      BY Zenon, <1>0, <1>2, DiscardKeeps
  <2>6. /\ pruning'[o] = pruning[o] /\ current'[o] = current[o] /\ doomed'[o] = doomed[o]
    BY ZenonT(60), <1>0, <1>1, <1>2 DEF Discard
  <2>7. attempts[o] \subseteq attempts'[o]
    BY ZenonT(60), <1>0, <1>1, <1>2 DEF Discard
  <2> QED
    BY Zenon, <2>1, <2>2, <2>3, <2>4, <2>5, <2>6, <2>7 DEF Same
<1>4. sealedKey[m] \in attempts[m]
  BY Zenon, <1>0, <1>1 DEF FlightInv
<1>5. \A j \in stored' : IsSealed(j)
  <2>1. \A j \in stored : IsSealed(j)
    BY Zenon DEF Inductive, AttemptsInv
  <2>2. IsSealed(sealedKey[m])
    BY Zenon, <1>4 DEF IsSealed
  <2> QED
    BY Zenon, <1>1, <2>1, <2>2
<1>6. KnowInv(m)' /\ DoubtInv(m)' /\ PruneInv(m)'
  <2>1. pc'[m] \in {"swap", "ready", "exiting"}
    BY Zenon, <1>0, <1>2
  <2>2. KnowInv(m)'
    BY Zenon, <1>0, <1>1, <2>1 DEF KnowInv, Past, IsSealed, Content, Durable
  <2>3. DoubtInv(m)'
    BY Zenon, <1>0, <1>1, <2>1 DEF DoubtInv
  <2>4. PruneInv(m)'
    BY Zenon, <1>0, <1>1 DEF PruneInv, Past, IsSealed, Content, Durable
  <2> QED
    BY Zenon, <2>2, <2>3, <2>4
<1>7. FlightInv(m)'
  <2>1. CASE pc'[m] = "swap" /\ sealedKey[m] \in stored' /\ UNCHANGED flightVars
    BY ZenonT(60), <1>0, <1>1, <2>1 DEF FlightInv, Descends, Content
  <2>2. CASE pc'[m] \in {"ready", "exiting"}
    BY Zenon, <2>2, Landed
  <2> QED
    BY Zenon, <1>0, <1>2, <2>1, <2>2
<1>8. /\ \A o \in Mount \ {m} :
           pc[o] = "swap" /\ root = sealedETag[o] => sealedKey[o] \in stored'
      /\ \A w \in late : root = w.ifMatch => w.key \in stored'
  BY Zenon, <1>1 DEF Inductive, FlightInv, LateInv
<1> QED
  BY Zenon, <1>0, <1>1, <1>3, <1>5, <1>6, <1>7, <1>8, StoredChanges DEF
     MountInv, StoreInv

-----------------------------------------------------------------------------
(* The seal, and the steps that write the root pointer *)

\* seal keeps the invariant.
LEMMA SealInd ==
  ASSUME Inductive, TypeOK', SealedTyped', NEW m \in Mount, Seal(m)
  PROVE  Inductive'
<1> USE DEF TypeOK, storeVars, knowVars, nsVars, flightVars, pruneVars, sealVars,
        histVars
<1>0. KnowInv(m) /\ DoubtInv(m) /\ FlightInv(m) /\ PruneInv(m) /\ StoreInv /\ TypeOK
  BY Zenon DEF Inductive
<1>1. PICK k \in Key :
        /\ k.epoch = epoch[m] + 1
        /\ \A o \in Mount : k \notin attempts[o]
        /\ attempts' = [attempts EXCEPT ![m] = @ \cup {k}]
        /\ body' = [body EXCEPT ![k] = inodes[m]]
        /\ sealedKey' = [sealedKey EXCEPT ![m] = k]
        /\ sealedETag' = [sealedETag EXCEPT ![m] = rootETag[m]]
        /\ sealedChanges' = [sealedChanges EXCEPT ![m] = changes[m]]
  BY Zenon DEF Seal
<1>2. /\ pc[m] = "seal" /\ pc' = [pc EXCEPT ![m] = "putSnapshot"]
      /\ UNCHANGED <<storeVars, knowVars, nsVars, newETag, pruneVars, acked>>
  BY Zenon DEF Seal, Goto
<1>3. \A j \in KeyOrNone : IsSealed(j) => IsSealed(j)' /\ Content(j)' = Content(j)
  <2> SUFFICES ASSUME NEW j \in KeyOrNone, IsSealed(j)
               PROVE  IsSealed(j)' /\ Content(j)' = Content(j)
    BY Zenon
  <2>1. j # k
    <3>1. k \in Key /\ \A o \in Mount : k \notin attempts[o]
      BY Zenon, <1>1
    <3>2. k # None
      BY Zenon, <3>1, KeyFacts
    <3> QED
      BY Zenon, <3>1, <3>2 DEF IsSealed
  <2>2. attempts \in [Mount -> SUBSET Key] /\ body \in [Key -> SUBSET Change]
    BY Zenon, <1>0
  <2>3. \A o \in Mount : attempts[o] \subseteq attempts'[o]
    BY Zenon, <1>1, <2>2
  <2>4. IsSealed(j)'
    BY Zenon, <2>3 DEF IsSealed
  <2>5. j # None => body'[j] = body[j]
    BY Zenon, <1>1, <2>1, <2>2 DEF KeyOrNone
  <2> QED
    BY Zenon, <2>4, <2>5 DEF Content
<1>4. Evolves
  BY Zenon, <1>2, <1>3 DEF Evolves
<1>5. Durable' = Durable
  BY Zenon, <1>0, <1>2, <1>3 DEF StoreInv, Durable, Content
<1>6. \A o \in Mount \ {m} : Same(o)
  <2> SUFFICES ASSUME NEW o \in Mount, o # m PROVE Same(o)
    BY Zenon
  <2>1. pc'[o] = pc[o]
    BY ZenonT(60), <1>0, <1>1, <1>2
  <2>2. knowledge'[o] = knowledge[o] /\ epoch'[o] = epoch[o] /\ doubtKey'[o] = doubtKey[o]
    BY ZenonT(60), <1>0, <1>1, <1>2
  <2>3. rootETag'[o] = rootETag[o] /\ rootSnapshot'[o] = rootSnapshot[o]
    BY ZenonT(60), <1>0, <1>1, <1>2
  <2>4. /\ inodes'[o] = inodes[o] /\ changes'[o] = changes[o] /\ dirty'[o] = dirty[o]
    BY ZenonT(60), <1>0, <1>1, <1>2
  <2>5. /\ sealedKey'[o] = sealedKey[o] /\ sealedETag'[o] = sealedETag[o]
        /\ sealedChanges'[o] = sealedChanges[o] /\ newETag'[o] = newETag[o]
    BY ZenonT(60), <1>0, <1>1, <1>2
  <2>6. /\ pruning'[o] = pruning[o] /\ current'[o] = current[o] /\ doomed'[o] = doomed[o]
    BY ZenonT(60), <1>0, <1>1, <1>2
  <2>7. attempts[o] \subseteq attempts'[o]
    BY ZenonT(60), <1>0, <1>1, <1>2
  <2> QED
    BY Zenon, <2>1, <2>2, <2>3, <2>4, <2>5, <2>6, <2>7 DEF Same
<1>7. \A o \in Mount \ {m} : FlightKept(o)
  BY Zenon, <1>2 DEF FlightKept, FlightInv, Inductive
<1>8. StoreInv'
  BY Zenon, <1>0, <1>2, <1>3, <1>5 DEF StoreInv, IsSealed
<1>9. AttemptsInv'
  <2>1. \A j \in stored' : IsSealed(j)'
    BY ZenonT(60), <1>0, <1>2, <1>3 DEF Inductive, AttemptsInv, KeyOrNone
  <2>2. \A o, p \in Mount : o # p => attempts'[o] \cap attempts'[p] = {}
    <3>1. \A o, p \in Mount : o # p => attempts[o] \cap attempts[p] = {}
      BY Zenon DEF Inductive, AttemptsInv
    <3>2. attempts \in [Mount -> SUBSET Key]
      BY Zenon, <1>0
    <3>3. attempts' = [attempts EXCEPT ![m] = attempts[m] \cup {k}]
      BY Zenon, <1>1
    <3>4. attempts'[m] = attempts[m] \cup {k}
      BY Zenon, <3>2, <3>3
    <3>5. \A o \in Mount \ {m} : attempts'[o] = attempts[o]
      BY Zenon, <3>2, <3>3
    <3>6. \A o \in Mount : k \notin attempts[o]
      BY Zenon, <1>1
    <3> SUFFICES ASSUME NEW o \in Mount, NEW p \in Mount, o # p, NEW x,
                        x \in attempts'[o], x \in attempts'[p]
                 PROVE  FALSE
      BY Zenon
    <3>7. CASE o = m
      BY Zenon, <3>1, <3>4, <3>5, <3>6, <3>7
    <3>8. CASE p = m
      BY Zenon, <3>1, <3>4, <3>5, <3>6, <3>8
    <3>9. CASE o # m /\ p # m
      BY Zenon, <3>1, <3>5, <3>9
    <3> QED
      BY Zenon, <3>7, <3>8, <3>9
  <2> QED
    BY Zenon, <2>1, <2>2 DEF AttemptsInv
<1>10. LateInv'
  <2> SUFFICES ASSUME NEW w \in late
               PROVE  /\ ~w.unconditional
                      /\ IsSealed(w.key)'
                      /\ Past(w.ifMatch)'
                      /\ Descends(w.key, w.ifMatch)'
                      /\ root' = w.ifMatch => w.key \in stored'
    BY Zenon, <1>2 DEF LateInv
  <2>1. w.key \in KeyOrNone /\ w.ifMatch \in KeyOrNone
    BY ZenonT(60), <1>0 DEF LateWrite, KeyOrNone
  <2>2. /\ ~w.unconditional
        /\ IsSealed(w.key)
        /\ Past(w.ifMatch)
        /\ Descends(w.key, w.ifMatch)
        /\ root' = w.ifMatch => w.key \in stored'
    BY Zenon, <1>2 DEF Inductive, LateInv
  <2>3. Past(w.ifMatch)'
    BY Zenon, <1>0, <1>4, <2>1, <2>2, PastKept
  <2>4. Descends(w.key, w.ifMatch)'
    BY Zenon, <1>4, <2>1, <2>2, DescendsKept DEF Past
  <2> QED
    BY Zenon, <1>3, <2>1, <2>2, <2>3, <2>4
<1>11. /\ Content(rootSnapshot[m])' = Content(rootSnapshot[m])
       /\ Past(rootSnapshot[m])'
  <2>1. rootSnapshot' = rootSnapshot /\ Past(rootSnapshot[m]) /\ rootSnapshot[m] \in KeyOrNone
    BY Zenon, <1>0, <1>2 DEF KnowInv
  <2>2. Content(rootSnapshot[m])' = Content(rootSnapshot[m])
    BY Zenon, <1>3, <2>1 DEF Past, Content
  <2>3. IsSealed(rootSnapshot[m])'
    BY Zenon, <1>3, <2>1 DEF Past, IsSealed
  <2> QED
    BY Zenon, <1>2, <1>5, <2>1, <2>2, <2>3 DEF Past
<1>12. KnowInv(m)'
  BY ZenonT(60), <1>0, <1>2, <1>5, <1>11 DEF KnowInv
<1>13. DoubtInv(m)'
  BY Zenon, <1>0, <1>2 DEF DoubtInv
<1>14. FlightInv(m)'
  <2>1. /\ sealedKey'[m] = k /\ sealedETag'[m] = rootSnapshot[m] /\ sealedChanges'[m] = changes[m]
        /\ body'[k] = inodes[m] /\ k \in attempts'[m] /\ pc'[m] = "putSnapshot"
    <3>1. sealedKey'[m] = k /\ sealedETag'[m] = rootSnapshot[m]
      BY ZenonT(60), <1>0, <1>1, <1>2 DEF KnowInv
    <3>2. sealedChanges'[m] = changes[m] /\ body'[k] = inodes[m]
      BY ZenonT(60), <1>0, <1>1, <1>2 DEF KnowInv
    <3>3. k \in attempts'[m] /\ pc'[m] = "putSnapshot"
      BY ZenonT(60), <1>0, <1>1, <1>2 DEF KnowInv
    <3> QED
      BY Zenon, <3>1, <3>2, <3>3
  <2>2. Descends(sealedKey[m], sealedETag[m])'
    <3>1. k.epoch = rootSnapshot[m].epoch + 1 /\ Content(rootSnapshot[m]) \subseteq inodes[m]
      BY Zenon, <1>0, <1>1, <1>2 DEF KnowInv
    <3>2. Content(sealedKey[m])' = inodes[m] /\ Content(sealedETag[m])' = Content(rootSnapshot[m])
      BY Zenon, <1>2, <1>11, <2>1, KeyFacts DEF Content
    <3> QED
      BY Zenon, <2>1, <3>1, <3>2 DEF Descends
  <2>3. \A w \in late : w.key # k
    <3> SUFFICES ASSUME NEW w \in late PROVE w.key # k
      BY Zenon
    <3>1. IsSealed(w.key) /\ w.key \in Key
      BY Zenon, <1>0 DEF Inductive, LateInv, LateWrite
    <3> QED
      <4>1. k \in Key /\ \A o \in Mount : k \notin attempts[o]
        BY Zenon, <1>1
      <4>2. k # None
        BY Zenon, <4>1, KeyFacts
      <4> QED
        BY Zenon, <3>1, <4>1, <4>2 DEF IsSealed
  <2>4. changes'[m] = changes[m] /\ inodes'[m] = inodes[m] /\ late' = late
        /\ rootSnapshot'[m] = rootSnapshot[m] /\ changes[m] \in Nat
    BY Zenon, <1>0, <1>2
  <2>5. sealedChanges'[m] <= changes'[m]
    BY Zenon, <2>1, <2>4, CountsItself
  <2> QED
    BY ZenonT(60), <2>1, <2>2, <2>3, <2>4, <2>5 DEF FlightInv
<1>15. PruneInv(m)'
  <2>1. Past(current[m]) /\ current[m] \in KeyOrNone
    BY Zenon, <1>0 DEF PruneInv
  <2>2. IsSealed(current[m])' /\ Content(current[m])' = Content(current[m])
    BY Zenon, <1>2, <1>3, <2>1 DEF Past, IsSealed, Content
  <2>3. Past(current[m])'
    BY Zenon, <1>2, <1>5, <2>1, <2>2 DEF Past
  <2> QED
    BY Zenon, <1>0, <1>2, <2>3 DEF PruneInv
<1> QED
  BY Zenon, <1>4, <1>6, <1>7, <1>8, <1>9, <1>10, <1>12, <1>13, <1>14, <1>15,
     Assemble DEF MountInv

\* The attempt at the swap is sealed, a key, and descends from the root
\* pointer its condition names (seal).
LEMMA SwapFacts ==
  ASSUME Inductive, NEW m \in Mount, pc[m] = "swap", root = sealedETag[m]
  PROVE  /\ sealedKey[m] \in Key /\ IsSealed(sealedKey[m])
         /\ Descends(sealedKey[m], root)
         /\ sealedKey[m] \in stored
         /\ \A o \in Mount \ {m} : pc[o] = "reclaimDelete" => sealedKey[o] # sealedKey[m]
<1>1. FlightInv(m) /\ sealedKey[m] \in Key
  BY Zenon DEF Inductive, SealedTyped
<1>2. \A o \in Mount \ {m} : pc[o] = "reclaimDelete" => sealedKey[o] \in attempts[o]
  BY Zenon DEF Inductive, FlightInv
<1> QED
  BY Zenon, <1>1, <1>2 DEF FlightInv, IsSealed, Inductive, AttemptsInv

\* A swap that applied keeps the invariant.
LEMMA SwapOKInd ==
  ASSUME Inductive, TypeOK', SealedTyped', NEW m \in Mount, SwapOK(m)
  PROVE  Inductive'
<1> USE DEF TypeOK, storeVars, knowVars, nsVars, flightVars, pruneVars, sealVars,
        histVars
<1>0. KnowInv(m) /\ DoubtInv(m) /\ FlightInv(m) /\ PruneInv(m) /\ StoreInv /\ TypeOK
  BY Zenon DEF Inductive
<1>1. /\ pc[m] = "swap" /\ root = sealedETag[m] /\ root' = sealedKey[m]
      /\ newETag' = [newETag EXCEPT ![m] = sealedKey[m]]
      /\ pc' = [pc EXCEPT ![m] = "apply"]
      /\ UNCHANGED <<stored, late, knowVars, nsVars, pruneVars, sealVars, histVars>>
      /\ UNCHANGED <<sealedKey, sealedETag, sealedChanges>>
  BY Zenon DEF SwapOK, ConditionHolds, Goto, UnchangedBySwap
<1>2. /\ sealedKey[m] \in Key /\ IsSealed(sealedKey[m]) /\ sealedKey[m] \in stored
      /\ Descends(sealedKey[m], root)
      /\ \A o \in Mount \ {m} : pc[o] = "reclaimDelete" => sealedKey[o] # sealedKey[m]
  BY Zenon, <1>1, SwapFacts
<1>3. Evolves /\ Past(sealedKey[m])' /\ \A j \in KeyOrNone : Past(j) => Past(j)'
  BY Zenon, <1>1, <1>2, RootMovesTo DEF Past, IsSealed, Content, Durable
<1>4. Durable \subseteq Durable'
  BY Zenon, <1>0, <1>3, DurableKept
<1>5. \A o \in Mount \ {m} : Same(o)
  BY Zenon, <1>0, <1>1 DEF Same
<1>6. KnowInv(m)'
  <2>1. Past(rootSnapshot[m])'
    BY Zenon, <1>0, <1>1, <1>3 DEF KnowInv, Past, IsSealed, Content, Durable
  <2> QED
    BY Zenon, <1>0, <1>1, <1>4, <2>1 DEF KnowInv, Content
<1>7. DoubtInv(m)'
  BY Zenon, <1>0, <1>1 DEF DoubtInv
<1>8. FlightInv(m)'
  BY Zenon, <1>0, <1>1, <1>3 DEF FlightInv
<1>9. PruneInv(m)'
  <2>1. Past(current[m])'
    BY Zenon, <1>0, <1>1, <1>3 DEF PruneInv, Past, IsSealed, Content, Durable
  <2> QED
    BY Zenon, <1>0, <1>1, <2>1 DEF PruneInv
<1> QED
  BY Zenon, <1>1, <1>2, <1>5, <1>6, <1>7, <1>8, <1>9, RootMoves DEF MountInv

\* A swap whose reply does not say if it applied keeps the invariant.
LEMMA SwapMayApplyInd ==
  ASSUME Inductive, TypeOK', SealedTyped', NEW m \in Mount,
         pc[m] = "swap", MayApply(m), UnchangedBySwap(m), UNCHANGED <<late, flightVars>>,
         \/ RaiseDoubt(m)
         \/ Goto(m, "reclaim") /\ UNCHANGED knowVars
  PROVE  Inductive'
<1> USE DEF TypeOK, storeVars, knowVars, nsVars, flightVars, pruneVars, sealVars,
        histVars
<1>0. KnowInv(m) /\ DoubtInv(m) /\ FlightInv(m) /\ PruneInv(m) /\ StoreInv /\ TypeOK
  BY Zenon DEF Inductive
<1>1. /\ UNCHANGED <<stored, late, epoch, rootETag, rootSnapshot, nsVars, flightVars,
                     pruneVars, sealVars, histVars>>
      /\ \/ /\ pc' = [pc EXCEPT ![m] = "probe"]
            /\ knowledge' = [knowledge EXCEPT ![m] = "inDoubt"]
            /\ doubtKey' = [doubtKey EXCEPT ![m] = sealedKey[m]]
         \/ /\ pc' = [pc EXCEPT ![m] = "reclaim"]
            /\ UNCHANGED <<knowledge, doubtKey>>
  BY Zenon DEF RaiseDoubt, Goto, UnchangedBySwap
<1>2. \A o \in Mount \ {m} : Same(o)
  <2> SUFFICES ASSUME NEW o \in Mount, o # m PROVE Same(o)
    BY Zenon
  <2>1. pc'[o] = pc[o]
    BY ZenonT(60), <1>0, <1>1
  <2>2. knowledge'[o] = knowledge[o] /\ epoch'[o] = epoch[o] /\ doubtKey'[o] = doubtKey[o]
    BY ZenonT(60), <1>0, <1>1
  <2>3. rootETag'[o] = rootETag[o] /\ rootSnapshot'[o] = rootSnapshot[o]
    BY ZenonT(60), <1>0, <1>1
  <2>4. /\ inodes'[o] = inodes[o] /\ changes'[o] = changes[o] /\ dirty'[o] = dirty[o]
    BY ZenonT(60), <1>0, <1>1
  <2>5. /\ sealedKey'[o] = sealedKey[o] /\ sealedETag'[o] = sealedETag[o]
        /\ sealedChanges'[o] = sealedChanges[o] /\ newETag'[o] = newETag[o]
    BY ZenonT(60), <1>0, <1>1
  <2>6. /\ pruning'[o] = pruning[o] /\ current'[o] = current[o] /\ doomed'[o] = doomed[o]
    BY ZenonT(60), <1>0, <1>1
  <2>7. attempts[o] \subseteq attempts'[o]
    BY ZenonT(60), <1>0, <1>1
  <2> QED
    BY Zenon, <2>1, <2>2, <2>3, <2>4, <2>5, <2>6, <2>7 DEF Same
<1>3. ASSUME Evolves, \A j \in KeyOrNone : Past(j) => Past(j)'
      PROVE  MountInv(m)'
  <2>0. \/ pc'[m] = "probe" /\ knowledge'[m] = "inDoubt" /\ doubtKey'[m] = sealedKey[m]
        \/ pc'[m] = "reclaim" /\ knowledge'[m] = knowledge[m] /\ doubtKey'[m] = doubtKey[m]
    BY ZenonT(60), <1>0, <1>1
  <2>1. Durable \subseteq Durable'
    BY Zenon, <1>0, <1>3, DurableKept
  <2>2. Past(rootSnapshot[m])' /\ Past(current[m])'
    BY Zenon, <1>0, <1>1, <1>3 DEF KnowInv, PruneInv, Past, IsSealed, Content,
       Durable
  <2>3. KnowInv(m)'
    BY ZenonT(60), <1>0, <1>1, <2>1, <2>2 DEF KnowInv, Content
  <2>4. DoubtInv(m)'
    <3>1. CASE pc'[m] = "probe" /\ knowledge'[m] = "inDoubt" /\ doubtKey'[m] = sealedKey[m]
      BY ZenonT(60), <1>0, <1>1, <3>1 DEF DoubtInv, FlightInv, Descends, Content
    <3>2. CASE pc'[m] = "reclaim" /\ knowledge'[m] = knowledge[m] /\ doubtKey'[m] = doubtKey[m]
      BY ZenonT(60), <1>0, <3>2 DEF DoubtInv
    <3> QED
      BY Zenon, <2>0, <3>1, <3>2
  <2>5. FlightInv(m)'
    <3>1. pc'[m] = "reclaim" \/ (pc'[m] = "probe" /\ doubtKey'[m] = sealedKey[m])
      BY Zenon, <2>0
    <3>2. /\ sealedKey[m] \in attempts[m] /\ body[sealedKey[m]] \subseteq inodes[m]
          /\ sealedChanges[m] <= changes[m]
          /\ sealedChanges[m] = changes[m] => inodes[m] = body[sealedKey[m]]
          /\ sealedETag[m] = rootSnapshot[m] /\ Descends(sealedKey[m], sealedETag[m])
          /\ \A w \in late : w.key # sealedKey[m]
      BY Zenon, <1>0 DEF FlightInv
    <3>3. Descends(sealedKey[m], sealedETag[m])'
      BY Zenon, <1>1, <3>2 DEF Descends, Content
    <3> QED
      BY ZenonT(60), <1>1, <3>1, <3>2, <3>3 DEF FlightInv
  <2>6. PruneInv(m)'
    BY Zenon, <1>0, <1>1, <2>2 DEF PruneInv
  <2> QED
    BY Zenon, <2>3, <2>4, <2>5, <2>6 DEF MountInv
<1>4. CASE root' = root
  <2>1. Evolves /\ \A j \in KeyOrNone : Past(j) => Past(j)'
    BY Zenon, <1>1, <1>4 DEF Evolves, IsSealed, Past, Content, Durable
  <2> QED
    BY Zenon, <1>0, <1>1, <1>2, <1>3, <1>4, <2>1, Quiet DEF StoreInv
<1>5. CASE root = sealedETag[m] /\ root' = sealedKey[m]
  <2>1. /\ sealedKey[m] \in Key /\ IsSealed(sealedKey[m]) /\ sealedKey[m] \in stored
        /\ Descends(sealedKey[m], root)
        /\ \A o \in Mount \ {m} : pc[o] = "reclaimDelete" => sealedKey[o] # sealedKey[m]
    BY Zenon, <1>5, SwapFacts
  <2>2. Evolves /\ \A j \in KeyOrNone : Past(j) => Past(j)'
    BY Zenon, <1>1, <1>5, <2>1, RootMovesTo
  <2> QED
    BY Zenon, <1>1, <1>2, <1>3, <1>5, <2>1, <2>2, RootMoves
<1> QED
  BY Zenon, <1>4, <1>5 DEF MayApply, ConditionHolds

\* A swap still on its way when it is given up on keeps the invariant.
LEMMA SwapDelayedInd ==
  ASSUME Inductive, TypeOK', SealedTyped', NEW m \in Mount, SwapDelayed(m)
  PROVE  Inductive'
<1> USE DEF TypeOK, storeVars, knowVars, nsVars, flightVars, pruneVars, sealVars,
        histVars
<1>0. KnowInv(m) /\ DoubtInv(m) /\ FlightInv(m) /\ PruneInv(m) /\ StoreInv /\ TypeOK
  BY Zenon DEF Inductive
<1> DEFINE new == [key |-> sealedKey[m], ifMatch |-> sealedETag[m], unconditional |-> FALSE]
<1>1. /\ pc[m] = "swap" /\ late' = late \cup {new}
      /\ UNCHANGED <<root, stored, epoch, rootETag, rootSnapshot, nsVars, flightVars,
                     pruneVars, sealVars, histVars>>
      /\ pc' = [pc EXCEPT ![m] = "probe"]
      /\ knowledge' = [knowledge EXCEPT ![m] = "inDoubt"]
      /\ doubtKey' = [doubtKey EXCEPT ![m] = sealedKey[m]]
  BY ZenonT(60) DEF SwapDelayed, RaiseDoubt, Goto, UnchangedBySwap
<1>2. \A o \in Mount \ {m} : Same(o)
  <2> SUFFICES ASSUME NEW o \in Mount, o # m PROVE Same(o)
    BY Zenon
  <2>1. pc'[o] = pc[o]
    BY ZenonT(60), <1>0, <1>1
  <2>2. knowledge'[o] = knowledge[o] /\ epoch'[o] = epoch[o] /\ doubtKey'[o] = doubtKey[o]
    BY ZenonT(60), <1>0, <1>1
  <2>3. rootETag'[o] = rootETag[o] /\ rootSnapshot'[o] = rootSnapshot[o]
    BY ZenonT(60), <1>0, <1>1
  <2>4. /\ inodes'[o] = inodes[o] /\ changes'[o] = changes[o] /\ dirty'[o] = dirty[o]
    BY ZenonT(60), <1>0, <1>1
  <2>5. /\ sealedKey'[o] = sealedKey[o] /\ sealedETag'[o] = sealedETag[o]
        /\ sealedChanges'[o] = sealedChanges[o] /\ newETag'[o] = newETag[o]
    BY ZenonT(60), <1>0, <1>1
  <2>6. /\ pruning'[o] = pruning[o] /\ current'[o] = current[o] /\ doomed'[o] = doomed[o]
    BY ZenonT(60), <1>0, <1>1
  <2>7. attempts[o] \subseteq attempts'[o]
    BY ZenonT(60), <1>0, <1>1
  <2> QED
    BY Zenon, <2>1, <2>2, <2>3, <2>4, <2>5, <2>6, <2>7 DEF Same
<1>3. sealedKey[m] \in attempts[m] /\ Descends(sealedKey[m], sealedETag[m]) /\ Past(sealedETag[m])
  BY Zenon, <1>0, <1>1 DEF FlightInv, KnowInv
<1>4. Evolves
  BY Zenon, <1>1 DEF Evolves, IsSealed, Content
<1>5. StoreInv' /\ AttemptsInv'
  BY Zenon, <1>1 DEF Inductive, StoreInv, AttemptsInv, IsSealed, Durable,
     Content
<1>6. LateInv'
  <2> SUFFICES ASSUME NEW w \in late'
               PROVE  /\ ~w.unconditional
                      /\ IsSealed(w.key)
                      /\ Past(w.ifMatch)
                      /\ Descends(w.key, w.ifMatch)
                      /\ root = w.ifMatch => w.key \in stored
    BY Zenon, <1>1 DEF LateInv, IsSealed, Past, Descends, Content, Durable
  <2>1. CASE w \in late
    BY Zenon, <2>1 DEF Inductive, LateInv
  <2>2. CASE w = new
    <3>1. w.key = sealedKey[m] /\ w.ifMatch = sealedETag[m] /\ ~w.unconditional
      BY Zenon, <2>2
    <3> HIDE DEF new
    <3> QED
      BY Zenon, <1>0, <1>1, <1>3, <3>1 DEF FlightInv, IsSealed
  <2> QED
    BY Zenon, <1>1, <2>1, <2>2
<1>7. \A o \in Mount \ {m} : FlightKept(o)
  <2> SUFFICES ASSUME NEW o \in Mount \ {m} PROVE FlightKept(o)
    BY Zenon
  <2>1. FlightInv(o) /\ new.key = sealedKey[m]
    BY Zenon DEF Inductive
  <2>2. pc[o] \in {"putSnapshot", "swap", "reclaim", "reclaimDelete"}
          => sealedKey[o] # sealedKey[m]
    BY Zenon, <1>3, <2>1 DEF FlightInv, Inductive, AttemptsInv
  <2> HIDE DEF new
  <2> QED
    BY Zenon, <1>1, <2>1, <2>2 DEF FlightKept, FlightInv
<1>8. KnowInv(m)'
  BY Zenon, <1>0, <1>1 DEF KnowInv, Past, IsSealed, Content, Durable
<1>9. DoubtInv(m)'
  BY Zenon, <1>0, <1>1 DEF DoubtInv, FlightInv, Descends, Content
<1>10. FlightInv(m)'
  BY Zenon, <1>0, <1>1 DEF FlightInv, Descends, Content
<1>11. PruneInv(m)'
  BY Zenon, <1>0, <1>1 DEF PruneInv, Past, IsSealed, Content, Durable
<1> QED
  BY Zenon, <1>2, <1>4, <1>5, <1>6, <1>7, <1>8, <1>9, <1>10, <1>11, Assemble
     DEF MountInv

\* A late write that reaches the store keeps the invariant.
LEMMA ApplyLateInd ==
  ASSUME Inductive, TypeOK', SealedTyped', NEW w \in late, ApplyLate(w)
  PROVE  Inductive'
<1> USE DEF TypeOK, storeVars, knowVars, nsVars, flightVars, pruneVars, sealVars,
        histVars
<1>1. /\ late' \subseteq late
      /\ UNCHANGED <<stored, pc, knowVars, nsVars, flightVars, pruneVars, sealVars, histVars>>
      /\ root' = IF root = w.ifMatch THEN w.key ELSE root
  BY Zenon DEF ApplyLate, Inductive, LateInv
<1>2. \A o \in Mount : Same(o)
  BY Zenon, <1>1 DEF Same
<1>3. /\ w.key \in Key /\ IsSealed(w.key) /\ Descends(w.key, w.ifMatch)
      /\ root = w.ifMatch => w.key \in stored
  BY Zenon DEF Inductive, LateInv, LateWrite
<1>4. \A o \in Mount : pc[o] = "reclaimDelete" => sealedKey[o] # w.key
  BY SMTT(60) DEF Inductive, FlightInv
<1>5. CASE Mount = {}
  BY Zenon, <1>5, <1>3, KeyFacts DEF IsSealed
<1>6. ASSUME NEW m \in Mount PROVE Inductive'
  <2>1. CASE root = w.ifMatch
    <3>1. Evolves
      BY Zenon, <1>1, <1>3, <2>1, RootMovesTo
    <3>2. FlightKept(m)
      <4>1. FlightInv(m) /\ KnowInv(m) /\ sealedETag[m] \in KeyOrNone
        BY Zenon DEF Inductive
      <4>2. pc[m] = "swap" => root' # sealedETag[m]
        BY Zenon, <1>1, <1>3, <2>1, <4>1, RootMovesTo DEF FlightInv, KnowInv
      <4> QED
        BY Zenon, <1>1, <1>4, <2>1, <4>1, <4>2 DEF FlightKept, FlightInv
    <3>3. MountInv(m)'
      BY Zenon, <1>2, <3>1, <3>2, Frame
    <3> QED
      BY Zenon, <1>1, <1>2, <1>3, <1>4, <2>1, <3>3, RootMoves
  <2>2. CASE root # w.ifMatch
    <3>1. Evolves
      BY Zenon, <1>1, <2>2 DEF Evolves, IsSealed, Content
    <3>2. \A o \in Mount : FlightKept(o)
      BY ZenonT(60), <1>1, <2>2 DEF FlightKept, FlightInv, Inductive
    <3>3. StoreInv' /\ AttemptsInv'
      BY Zenon, <1>1, <2>2 DEF Inductive, StoreInv, AttemptsInv, IsSealed,
         Durable, Content
    <3>4. LateInv'
      BY Zenon, <1>1, <2>2 DEF Inductive, LateInv, IsSealed, Past, Descends,
         Durable, Content
    <3>5. MountInv(m)'
      BY Zenon, <1>2, <3>1, <3>2, Frame
    <3> QED
      BY Zenon, <1>2, <3>1, <3>2, <3>3, <3>4, <3>5, Assemble
  <2> QED
    BY Zenon, <2>1, <2>2
<1> QED
  BY Zenon, <1>5, <1>6

-----------------------------------------------------------------------------
(* The invariant *)

\* The invariant holds before any mount opens the bucket.
LEMMA InductiveInit == Init => Inductive
<1> SUFFICES ASSUME Init PROVE Inductive
  BY Zenon
<1>1. TypeOK /\ SealedTyped
  BY Zenon, TypeInit
<1>2. Past(None)
  BY Zenon, KeyFacts DEF Init, Past, IsSealed, Durable, Content
<1>3. StoreInv /\ AttemptsInv /\ LateInv
  BY Zenon, <1>1 DEF Init, StoreInv, AttemptsInv, LateInv, IsSealed
<1>4. ASSUME NEW m \in Mount PROVE KnowInv(m) /\ DoubtInv(m) /\ FlightInv(m) /\ PruneInv(m)
  BY Zenon, <1>2, KeyFacts DEF Init, KnowInv, DoubtInv, FlightInv, PruneInv,
     Content
<1> QED
  BY Zenon, <1>1, <1>3, <1>4 DEF Inductive

\* Every step of every handler keeps the invariant.
LEMMA InductiveStep ==
  ASSUME ~AllowUnconditionalRoot, Inductive, [Next]_vars
  PROVE  Inductive'
<1>1. TypeOK' /\ SealedTyped'
  BY Zenon, TypeStep DEF Inductive
<1> USE <1>1
<1>2. ASSUME NEW m \in Mount, SyncClean(m) PROVE Inductive'
  BY Zenon, <1>2, SyncCleanInd
<1>3. ASSUME NEW m \in Mount, SyncDirty(m) PROVE Inductive'
  BY ZenonT(60), <1>3, SyncDirtyInd
<1>4. ASSUME NEW m \in Mount, SyncRefused(m) PROVE Inductive'
  BY Zenon, <1>4, SyncRefusedInd
<1>5. ASSUME NEW m \in Mount, SettleFails(m) PROVE Inductive'
  BY Zenon, <1>5, SettleFailsInd
<1>6. ASSUME NEW m \in Mount, GetRoot(m) PROVE Inductive'
  BY Zenon, <1>6, GetRootInd
<1>7. ASSUME NEW m \in Mount, GetSnapshot(m) PROVE Inductive'
  BY Zenon, <1>7, GetSnapshotInd
<1>8. ASSUME NEW m \in Mount, Exit(m) PROVE Inductive'
  BY Zenon, <1>8, ExitInd
<1>9. ASSUME NEW m \in Mount, Crash(m) PROVE Inductive'
  BY Zenon, <1>9, CrashInd
<1>10. ASSUME NEW m \in Mount, SwapConflict(m) PROVE Inductive'
  BY Zenon, <1>10, SwapConflictInd
<1>11. ASSUME NEW m \in Mount, Reclaim(m) PROVE Inductive'
  BY Zenon, <1>11, ReclaimInd
<1>12. ASSUME NEW m \in Mount, ReclaimFails(m) PROVE Inductive'
  BY Zenon, <1>12, ReclaimFailsInd
<1>13. ASSUME NEW m \in Mount, ProbeOurs(m) PROVE Inductive'
  BY Zenon, <1>13, ProbeOursInd
<1>14. ASSUME NEW m \in Mount, ProbeUnchanged(m) PROVE Inductive'
  BY Zenon, <1>14, ProbeUnchangedInd
<1>15. ASSUME NEW m \in Mount, ProbeTheirs(m) PROVE Inductive'
  BY Zenon, <1>15, ProbeTheirsInd
<1>16. ASSUME NEW m \in Mount, ProbeFailed(m) PROVE Inductive'
  BY Zenon, <1>16, ProbeFailedInd
<1>17. ASSUME NEW m \in Mount, Apply(m) PROVE Inductive'
  BY Zenon, <1>17, ApplyInd
<1>18. ASSUME NEW m \in Mount, PruneList(m) PROVE Inductive'
  BY Zenon, <1>18, PruneListInd
<1>19. ASSUME NEW m \in Mount, PruneEnd(m) PROVE Inductive'
  BY Zenon, <1>19, PruneEndInd
<1>20. ASSUME NEW m \in Mount, PruneDelete(m) PROVE Inductive'
  BY Zenon, <1>20, PruneDeleteInd
<1>21. ASSUME NEW m \in Mount, ReclaimDelete(m) PROVE Inductive'
  BY Zenon, <1>21, ReclaimDeleteInd
<1>22. ASSUME NEW m \in Mount, Seal(m) PROVE Inductive'
  BY Zenon, <1>22, SealInd
<1>23. ASSUME NEW m \in Mount, SwapOK(m) PROVE Inductive'
  BY Zenon, <1>23, SwapOKInd
<1>24. ASSUME NEW m \in Mount, SwapDelayed(m) PROVE Inductive'
  BY Zenon, <1>24, SwapDelayedInd
<1>25. ASSUME NEW m \in Mount, PutSnapshot(m) PROVE Inductive'
  BY Zenon, <1>25, PutSnapshotInd
<1>26. ASSUME NEW m \in Mount, PutSnapshotFails(m) PROVE Inductive'
  BY Zenon, <1>26, PutSnapshotInd
<1>27. ASSUME NEW m \in Mount, SwapNoETag(m) PROVE Inductive'
  BY Zenon, <1>27, SwapMayApplyInd DEF SwapNoETag, MayApply
<1>28. ASSUME NEW m \in Mount, SwapUnknown(m) PROVE Inductive'
  BY Zenon, <1>28, SwapMayApplyInd DEF SwapUnknown, MayApply
<1>29. ASSUME NEW m \in Mount, SwapUnsupported(m) PROVE Inductive'
  BY Zenon, <1>29, SwapMayApplyInd DEF SwapUnsupported, MayApply
<1>30. ASSUME NEW m \in Mount, FallbackPut(m) PROVE Inductive'
  BY Zenon, <1>30 DEF FallbackPut, Inductive, FlightInv
<1>31. ASSUME NEW m \in Mount, FallbackPutFails(m) PROVE Inductive'
  BY Zenon, <1>31 DEF FallbackPutFails, Inductive, FlightInv
<1>32. ASSUME NEW m \in Mount, FallbackHead(m) PROVE Inductive'
  BY Zenon, <1>32 DEF FallbackHead, Inductive, FlightInv
<1>33. ASSUME NEW m \in Mount, NEW c \in Change, Admit(m, c) PROVE Inductive'
  BY Zenon, <1>33, AdmitInd
<1>34. ASSUME NEW m \in Mount, NEW c \in Change, Mutate(m, c) PROVE Inductive'
  BY Zenon, <1>34, MutateInd
<1>35. ASSUME NEW w \in late, ApplyLate(w) PROVE Inductive'
  BY Zenon, <1>35, ApplyLateInd
<1>36. CASE UNCHANGED vars
  <2>1. /\ UNCHANGED <<storeVars, pc, knowVars, nsVars, flightVars, pruneVars, sealVars, acked>>
    BY Zenon, <1>36 DEF vars, histVars
  <2>2. Evolves /\ \A o \in Mount : Same(o) /\ FlightKept(o)
    BY Zenon, <2>1 DEF Evolves, Same, FlightKept, Inductive, FlightInv,
       IsSealed, Content, storeVars, knowVars, nsVars, flightVars, pruneVars,
       sealVars
  <2>3. StoreInv' /\ AttemptsInv'
    BY Zenon, <2>1 DEF Inductive, StoreInv, AttemptsInv, IsSealed, Durable,
       Content, storeVars, sealVars
  <2>4. LateInv'
    BY Zenon, <2>1 DEF Inductive, LateInv, IsSealed, Past, Descends, Durable,
       Content, storeVars, sealVars
  <2>5. \A o \in Mount : MountInv(o)'
    BY Zenon, <2>2, Frame
  <2> QED
    BY Zenon, <2>3, <2>4, <2>5 DEF Inductive, MountInv
<1> QED
  BY Zenon, <1>2, <1>3, <1>4, <1>5, <1>6, <1>7, <1>8, <1>9, <1>10, <1>11,
     <1>12,
     <1>13, <1>14, <1>15, <1>16, <1>17, <1>18, <1>19, <1>20, <1>21, <1>22,
     <1>23, <1>24, <1>25, <1>26, <1>27, <1>28, <1>29, <1>30, <1>31, <1>32,
     <1>33, <1>34, <1>35, <1>36 DEF Next, CommitStep, PruneStep, LoadStep,
     FaultStep

-----------------------------------------------------------------------------
(* The theorems *)

\* The invariant always holds of mounts that write the root pointer only
\* conditionally.
LEMMA InductiveAlways ==
  ASSUME ~AllowUnconditionalRoot
  PROVE  Spec => []Inductive
<1>1. Init => Inductive
  BY Zenon, InductiveInit
<1>2. Inductive /\ [Next]_vars => Inductive'
  BY Zenon, InductiveStep
<1> QED
  BY <1>1, <1>2, PTL DEF Spec

\* For any number of mounts, changes, faults and retained snapshots, the
\* snapshot that the root pointer names is in the bucket: no prune pass, no
\* reclaim and no late write takes it away (pruneSnapshots, commitSealed).
THEOREM RootIsLoadable ==
  ASSUME ~AllowUnconditionalRoot
  PROVE  Spec => []RootLoadable
<1>1. Inductive => RootLoadable
  BY Zenon DEF Inductive, StoreInv, RootLoadable
<1> QED
  BY <1>1, InductiveAlways, PTL

\* What a Sync that returned nil covered is in the namespace the root pointer
\* names, whatever every mount does after it (Sync, commitSealed,
\* applyLocked).
THEOREM AcksAreKept ==
  ASSUME ~AllowUnconditionalRoot
  PROVE  Spec => []NoLostAck
<1>1. Inductive => NoLostAck
  BY Zenon DEF Inductive, StoreInv, NoLostAck
<1> QED
  BY <1>1, InductiveAlways, PTL

\* Every key a prune pass has yet to delete is below the one the root pointer
\* names, however many commits the pass has slept through (pruneSnapshots).
THEOREM PruneStaysBelowRoot ==
  ASSUME ~AllowUnconditionalRoot
  PROVE  Spec => []PruneBelowRoot
<1>1. Inductive => PruneBelowRoot
  BY Zenon, DoomedSafe DEF PruneBelowRoot
<1> QED
  BY <1>1, InductiveAlways, PTL

\* The steps that move the root pointer are a swap whose condition holds and a
\* late write whose condition does (PutIfMatch in commitSealed).
LEMMA RootWriters ==
  ASSUME ~AllowUnconditionalRoot, Inductive, [Next]_vars, root' # root
  PROVE  \/ \E m \in Mount :
              /\ pc[m] = "swap" /\ root = sealedETag[m] /\ root' = sealedKey[m]
              /\ UNCHANGED <<acked, made, inodes>>
              /\ UNCHANGED sealVars
         \/ \E w \in late :
              /\ root = w.ifMatch /\ root' = w.key
              /\ UNCHANGED <<pc, acked, made, inodes, sealVars>>
<1> USE DEF storeVars, knowVars, nsVars, flightVars, pruneVars, sealVars, histVars
<1>1. ASSUME NEW m \in Mount, CommitStep(m) PROVE SwapOK(m) \/ FallbackPut(m)
  BY Zenon, <1>1 DEF CommitStep, SyncClean, SyncDirty, SyncRefused, Seal,
     PutSnapshot, SwapConflict, Reclaim, ReclaimDelete, FallbackHead,
     ProbeOurs, ProbeUnchanged, ProbeTheirs, Apply, UnchangedByProbe, vars
<1>2. ASSUME NEW m \in Mount, FaultStep(m)
      PROVE  SwapNoETag(m) \/ SwapUnknown(m) \/ SwapUnsupported(m) \/ FallbackPutFails(m)
  BY Zenon, <1>2 DEF FaultStep, Crash, SettleFails, PutSnapshotFails,
     SwapDelayed, ReclaimFails, ProbeFailed, UnchangedByProbe
<1>3. ASSUME NEW m \in Mount, PruneStep(m) \/ LoadStep(m) PROVE FALSE
  BY Zenon, <1>3 DEF PruneStep, LoadStep, PruneList, PruneDelete, PruneEnd,
     GetRoot, GetSnapshot, Exit, UnchangedByPrune
<1>4. ASSUME NEW m \in Mount, NEW c \in Change, Admit(m, c) \/ Mutate(m, c) PROVE FALSE
  BY Zenon, <1>4 DEF Admit, Mutate
<1>5. ~UNCHANGED vars
  BY Zenon DEF vars
<1>6. \A m \in Mount : ~FallbackPut(m) /\ ~FallbackPutFails(m)
  BY Zenon DEF FallbackPut, FallbackPutFails, Inductive, FlightInv
<1>7. ASSUME NEW w \in late, ApplyLate(w)
      PROVE  /\ root = w.ifMatch /\ root' = w.key
             /\ UNCHANGED <<pc, acked, made, inodes, sealVars>>
  BY Zenon, <1>7 DEF ApplyLate, Inductive, LateInv
<1>8. ASSUME NEW m \in Mount,
             SwapOK(m) \/ SwapNoETag(m) \/ SwapUnknown(m) \/ SwapUnsupported(m)
      PROVE  /\ pc[m] = "swap" /\ root = sealedETag[m] /\ root' = sealedKey[m]
             /\ UNCHANGED <<acked, made, inodes>>
             /\ UNCHANGED sealVars
  BY Zenon, <1>8 DEF SwapOK, SwapNoETag, SwapUnknown, SwapUnsupported,
     ConditionHolds, MayApply, UnchangedBySwap
<1> QED
  BY Zenon, <1>1, <1>2, <1>3, <1>4, <1>5, <1>6, <1>7, <1>8 DEF Next

\* A step that moves the root pointer moves it to the next epoch and keeps
\* what it named.
LEMMA RootAdvancesStep ==
  ASSUME ~AllowUnconditionalRoot, Inductive, [Next]_vars, root' # root
  PROVE  root'.epoch = root.epoch + 1 /\ Durable \subseteq Durable'
<1>1. ASSUME NEW k \in Key, IsSealed(k), root' = k, Descends(k, root), UNCHANGED sealVars
      PROVE  root'.epoch = root.epoch + 1 /\ Durable \subseteq Durable'
  BY Zenon, <1>1, RootMovesTo, DurableKept DEF Inductive, Descends
<1>2. CASE \E m \in Mount : /\ pc[m] = "swap" /\ root = sealedETag[m] /\ root' = sealedKey[m]
                            /\ UNCHANGED sealVars
  BY Zenon, <1>1, <1>2, SwapFacts
<1>3. CASE \E w \in late : root = w.ifMatch /\ root' = w.key /\ UNCHANGED sealVars
  BY Zenon, <1>1, <1>3 DEF Inductive, LateInv, TypeOK, LateWrite
<1> QED
  BY Zenon, <1>2, <1>3, RootWriters

\* Every write of the root pointer that takes effect moves it one epoch on and
\* keeps all it named: no two writers' commits replace one another (PutIfMatch
\* in commitSealed, initEmpty).
THEOREM RootOnlyAdvances ==
  ASSUME ~AllowUnconditionalRoot
  PROVE  Spec => RootAdvances
<1>1. Inductive /\ [Next]_vars
        => [root' # root => root'.epoch = root.epoch + 1 /\ Durable \subseteq Durable']_vars
  BY Zenon, RootAdvancesStep
<1> QED
  BY <1>1, InductiveAlways, PTL DEF Spec, RootAdvances

\* A root pointer a running mount wrote is one it still knows to be its own.
Own(m) ==
  pc[m] \notin {"down", "exiting"} /\ root \in attempts[m] =>
    IF pc[m] = "apply" THEN root = sealedKey[m]
    ELSE \/ root = rootSnapshot[m]
         \/ knowledge[m] = "inDoubt" /\ root = doubtKey[m]
         \/ pc[m] = "reclaim" /\ root = sealedKey[m]

OwnInv == late = {} /\ \A m \in Mount : Own(m)

\* Mount o's part of what Own reads does not change.
SameOwn(o) ==
  /\ pc'[o] = pc[o] /\ rootSnapshot'[o] = rootSnapshot[o]
  /\ knowledge'[o] = knowledge[o] /\ doubtKey'[o] = doubtKey[o]
  /\ sealedKey'[o] = sealedKey[o] /\ attempts'[o] = attempts[o]

\* The invariant after a step of one mount, from that mount's part.
LEMMA OwnAssemble ==
  ASSUME Inductive, OwnInv, NEW m \in Mount, late' = {}, Own(m)',
         \A o \in Mount \ {m} : SameOwn(o),
         root' = root \/ root' \in attempts[m]
  PROVE  OwnInv'
<1> SUFFICES ASSUME NEW o \in Mount \ {m} PROVE Own(o)'
  BY Zenon DEF OwnInv
<1>1. root' \in attempts[o] => root' = root
  BY Zenon DEF Inductive, AttemptsInv
<1> QED
  BY ZenonT(60), <1>1 DEF OwnInv, Own, SameOwn

\* Every step keeps it.
LEMMA OwnStep ==
  ASSUME ~AllowUnconditionalRoot, "late" \notin Faults, Inductive, OwnInv, [Next]_vars
  PROVE  OwnInv'
<1> USE DEF TypeOK, storeVars, knowVars, nsVars, flightVars, pruneVars, sealVars, histVars
<1>0. TypeOK /\ StoreInv /\ late = {}
  BY Zenon DEF Inductive, OwnInv
<1>1. ASSUME NEW m \in Mount, SyncClean(m) PROVE OwnInv'
  <2>1. /\ late' = {}
        /\ root' = root \/ root' \in attempts[m]
    BY Zenon, <1>0, <1>1 DEF SyncClean, Inductive, FlightInv
  <2>2. \A o \in Mount \ {m} : SameOwn(o)
    BY Zenon, <1>0, <1>1 DEF SyncClean, SameOwn
  <2>3. Own(m)'
    BY ZenonT(60), <1>0, <1>1 DEF SyncClean, Own, OwnInv, Inductive, FlightInv,
       DoubtInv
  <2> QED
    BY Zenon, <2>1, <2>2, <2>3, OwnAssemble
<1>2. ASSUME NEW m \in Mount, SyncDirty(m) PROVE OwnInv'
  <2>1. /\ late' = {}
        /\ root' = root \/ root' \in attempts[m]
    BY Zenon, <1>0, <1>2 DEF SyncDirty, Goto, Inductive, FlightInv
  <2>2. \A o \in Mount \ {m} : SameOwn(o)
    BY Zenon, <1>0, <1>2 DEF SyncDirty, Goto, SameOwn
  <2>3. Own(m)'
    BY ZenonT(60), <1>0, <1>2 DEF SyncDirty, Goto, Own, OwnInv, Inductive,
       FlightInv, DoubtInv
  <2> QED
    BY Zenon, <2>1, <2>2, <2>3, OwnAssemble
<1>3. ASSUME NEW m \in Mount, SyncRefused(m) PROVE OwnInv'
  <2>1. /\ late' = {}
        /\ root' = root \/ root' \in attempts[m]
    BY Zenon, <1>0, <1>3 DEF SyncRefused, vars, Inductive, FlightInv
  <2>2. \A o \in Mount \ {m} : SameOwn(o)
    BY Zenon, <1>0, <1>3 DEF SyncRefused, vars, SameOwn
  <2>3. Own(m)'
    BY ZenonT(60), <1>0, <1>3 DEF SyncRefused, vars, Own, OwnInv, Inductive,
       FlightInv, DoubtInv
  <2> QED
    BY Zenon, <2>1, <2>2, <2>3, OwnAssemble
<1>4. ASSUME NEW m \in Mount, Seal(m) PROVE OwnInv'
  <2>1. /\ late' = {}
        /\ root' = root \/ root' \in attempts[m]
    BY Zenon, <1>0, <1>4 DEF Seal, Goto, Inductive, FlightInv
  <2>2. \A o \in Mount \ {m} : SameOwn(o)
    BY SMTT(60), <1>0, <1>4 DEF Seal, Goto, SameOwn
  <2>3. Own(m)'
    <3>1. PICK k \in Key :
            /\ k.epoch = epoch[m] + 1
            /\ \A o \in Mount : k \notin attempts[o]
            /\ attempts' = [attempts EXCEPT ![m] = attempts[m] \cup {k}]
            /\ body' = [body EXCEPT ![k] = inodes[m]]
      BY Zenon, <1>4 DEF Seal
    <3>2. root # k
      BY Zenon, <1>0, <3>1, KeyFacts DEF StoreInv, IsSealed
    <3>3. attempts'[m] = attempts[m] \cup {k}
      BY Zenon, <1>0, <3>1 DEF TypeOK
    <3>4. root' = root /\ root \in attempts'[m] => root \in attempts[m]
      BY Zenon, <3>2, <3>3, <1>4 DEF Seal
    <3> QED
      BY Zenon, <1>0, <3>4, <1>4 DEF Seal, Goto, Own, OwnInv
  <2> QED
    BY Zenon, <2>1, <2>2, <2>3, OwnAssemble
<1>5. ASSUME NEW m \in Mount, PutSnapshot(m) PROVE OwnInv'
  <2>1. /\ late' = {}
        /\ root' = root \/ root' \in attempts[m]
    BY Zenon, <1>0, <1>5 DEF PutSnapshot, Goto, Inductive, FlightInv
  <2>2. \A o \in Mount \ {m} : SameOwn(o)
    BY Zenon, <1>0, <1>5 DEF PutSnapshot, Goto, SameOwn
  <2>3. Own(m)'
    BY ZenonT(60), <1>0, <1>5 DEF PutSnapshot, Goto, Own, OwnInv, Inductive,
       FlightInv, DoubtInv
  <2> QED
    BY Zenon, <2>1, <2>2, <2>3, OwnAssemble
<1>6. ASSUME NEW m \in Mount, SwapOK(m) PROVE OwnInv'
  <2>1. /\ late' = {}
        /\ root' = root \/ root' \in attempts[m]
    BY Zenon, <1>0, <1>6 DEF SwapOK, Goto, ConditionHolds, UnchangedBySwap,
       Inductive, FlightInv
  <2>2. \A o \in Mount \ {m} : SameOwn(o)
    BY Zenon, <1>0, <1>6 DEF SwapOK, Goto, ConditionHolds, UnchangedBySwap,
       SameOwn
  <2>3. Own(m)'
    BY ZenonT(60), <1>0, <1>6 DEF SwapOK, Goto, ConditionHolds, UnchangedBySwap,
       Own, OwnInv, Inductive, FlightInv, DoubtInv
  <2> QED
    BY Zenon, <2>1, <2>2, <2>3, OwnAssemble
<1>7. ASSUME NEW m \in Mount, SwapConflict(m) PROVE OwnInv'
  <2>1. /\ late' = {}
        /\ root' = root \/ root' \in attempts[m]
    BY Zenon, <1>0, <1>7 DEF SwapConflict, Goto, ConditionHolds, RaiseDoubt,
       UnchangedBySwap, Inductive, FlightInv
  <2>2. \A o \in Mount \ {m} : SameOwn(o)
    BY Zenon, <1>0, <1>7 DEF SwapConflict, Goto, ConditionHolds, RaiseDoubt,
       UnchangedBySwap, SameOwn
  <2>3. Own(m)'
    BY ZenonT(60), <1>0, <1>7 DEF SwapConflict, Goto, ConditionHolds, RaiseDoubt,
       UnchangedBySwap, Own, OwnInv, Inductive, FlightInv, DoubtInv
  <2> QED
    BY Zenon, <2>1, <2>2, <2>3, OwnAssemble
<1>8. ASSUME NEW m \in Mount, Reclaim(m) PROVE OwnInv'
  <2>1. /\ late' = {}
        /\ root' = root \/ root' \in attempts[m]
    BY Zenon, <1>0, <1>8 DEF Reclaim, Goto, RaiseDoubt, UnchangedBySwap,
       Inductive, FlightInv
  <2>2. \A o \in Mount \ {m} : SameOwn(o)
    BY Zenon, <1>0, <1>8 DEF Reclaim, Goto, RaiseDoubt, UnchangedBySwap,
       SameOwn
  <2>3. Own(m)'
    <3>1. /\ Own(m) /\ pc[m] = "reclaim" /\ root' = root /\ attempts' = attempts
          /\ rootSnapshot' = rootSnapshot
      BY Zenon, <1>8 DEF OwnInv, Reclaim, RaiseDoubt, UnchangedBySwap
    <3>2. CASE root # sealedKey[m] /\ Goto(m, "reclaimDelete") /\ UNCHANGED knowVars
      BY Zenon, <1>0, <3>1, <3>2 DEF Goto, Own
    <3>3. CASE root = sealedKey[m] /\ RaiseDoubt(m)
      BY Zenon, <1>0, <3>1, <3>3 DEF RaiseDoubt, Goto, Own
    <3> QED
      BY Zenon, <1>8, <3>2, <3>3 DEF Reclaim
  <2> QED
    BY Zenon, <2>1, <2>2, <2>3, OwnAssemble
<1>9. ASSUME NEW m \in Mount, ReclaimDelete(m) PROVE OwnInv'
  <2>1. /\ late' = {}
        /\ root' = root \/ root' \in attempts[m]
    BY Zenon, <1>0, <1>9 DEF ReclaimDelete, Goto, ReturnError, Discard, Fault,
       Inductive, FlightInv
  <2>2. \A o \in Mount \ {m} : SameOwn(o)
    BY Zenon, <1>0, <1>9 DEF ReclaimDelete, Goto, ReturnError, Discard, Fault,
       SameOwn
  <2>3. Own(m)'
    BY ZenonT(60), <1>0, <1>9 DEF ReclaimDelete, Goto, ReturnError, Discard, Fault,
       Own, OwnInv, Inductive, FlightInv, DoubtInv
  <2> QED
    BY Zenon, <2>1, <2>2, <2>3, OwnAssemble
<1>10. ASSUME NEW m \in Mount, ProbeOurs(m) PROVE OwnInv'
  <2>1. /\ late' = {}
        /\ root' = root \/ root' \in attempts[m]
    BY Zenon, <1>0, <1>10 DEF ProbeOurs, Goto, UnchangedByProbe, Inductive,
       FlightInv
  <2>2. \A o \in Mount \ {m} : SameOwn(o)
    BY Zenon, <1>0, <1>10 DEF ProbeOurs, Goto, UnchangedByProbe, SameOwn
  <2>3. Own(m)'
    BY ZenonT(60), <1>0, <1>10 DEF ProbeOurs, Goto, ClassifyRoot, UnchangedByProbe,
       Own, OwnInv, Inductive, FlightInv, DoubtInv
  <2> QED
    BY Zenon, <2>1, <2>2, <2>3, OwnAssemble
<1>11. ASSUME NEW m \in Mount, ProbeUnchanged(m) PROVE OwnInv'
  <2>1. /\ late' = {}
        /\ root' = root \/ root' \in attempts[m]
    BY Zenon, <1>0, <1>11 DEF ProbeUnchanged, Goto, ReturnError, Discard,
       UnchangedByProbe, Inductive, FlightInv
  <2>2. \A o \in Mount \ {m} : SameOwn(o)
    BY Zenon, <1>0, <1>11 DEF ProbeUnchanged, Goto, ReturnError, Discard,
       UnchangedByProbe, SameOwn
  <2>3. Own(m)'
    <3>1. root = rootSnapshot[m] /\ root' = root /\ rootSnapshot' = rootSnapshot
      BY Zenon, <1>11 DEF ProbeUnchanged, ClassifyRoot, UnchangedByProbe
    <3>2. pc'[m] # "apply"
      BY Zenon, <1>0, <1>11 DEF ProbeUnchanged, Goto, ReturnError
    <3> QED
      BY Zenon, <3>1, <3>2 DEF Own
  <2> QED
    BY Zenon, <2>1, <2>2, <2>3, OwnAssemble
<1>12. ASSUME NEW m \in Mount, ProbeTheirs(m) PROVE OwnInv'
  <2>1. /\ late' = {}
        /\ root' = root \/ root' \in attempts[m]
    BY Zenon, <1>0, <1>12 DEF ProbeTheirs, ReturnError, Goto, Discard,
       UnchangedByProbe, Inductive, FlightInv
  <2>2. \A o \in Mount \ {m} : SameOwn(o)
    BY Zenon, <1>0, <1>12 DEF ProbeTheirs, ReturnError, Goto, Discard,
       UnchangedByProbe, SameOwn
  <2>3. Own(m)'
    BY ZenonT(60), <1>0, <1>12 DEF ProbeTheirs, ReturnError, Goto, Discard,
       UnchangedByProbe, Own, OwnInv, Inductive, FlightInv, DoubtInv
  <2> QED
    BY Zenon, <2>1, <2>2, <2>3, OwnAssemble
<1>13. ASSUME NEW m \in Mount, Apply(m) PROVE OwnInv'
  <2>1. /\ late' = {}
        /\ root' = root \/ root' \in attempts[m]
    BY ZenonT(60), <1>0, <1>13 DEF Apply, Goto, Discard, SchedulePrune, Inductive,
       FlightInv
  <2>2. \A o \in Mount \ {m} : SameOwn(o)
    BY Zenon, <1>0, <1>13 DEF Apply, Goto, Discard, SchedulePrune, SameOwn
  <2>3. Own(m)'
    BY ZenonT(60), <1>0, <1>13 DEF Apply, Goto, Discard, SchedulePrune, Own, OwnInv,
       Inductive, FlightInv, DoubtInv
  <2> QED
    BY Zenon, <2>1, <2>2, <2>3, OwnAssemble
<1>14. ASSUME NEW m \in Mount, PruneList(m) PROVE OwnInv'
  <2>1. /\ late' = {}
        /\ root' = root \/ root' \in attempts[m]
    BY Zenon, <1>0, <1>14 DEF PruneList, Fault, UnchangedByPrune, Inductive,
       FlightInv
  <2>2. \A o \in Mount \ {m} : SameOwn(o)
    BY Zenon, <1>0, <1>14 DEF PruneList, Fault, UnchangedByPrune, SameOwn
  <2>3. Own(m)'
    BY ZenonT(60), <1>0, <1>14 DEF PruneList, Prunable, Fault, UnchangedByPrune,
       Own, OwnInv, Inductive, FlightInv, DoubtInv
  <2> QED
    BY Zenon, <2>1, <2>2, <2>3, OwnAssemble
<1>15. ASSUME NEW m \in Mount, PruneDelete(m) PROVE OwnInv'
  <2>1. /\ late' = {}
        /\ root' = root \/ root' \in attempts[m]
    BY Zenon, <1>0, <1>15 DEF PruneDelete, Fault, UnchangedByPrune, Inductive,
       FlightInv
  <2>2. \A o \in Mount \ {m} : SameOwn(o)
    BY Zenon, <1>0, <1>15 DEF PruneDelete, Fault, UnchangedByPrune, SameOwn
  <2>3. Own(m)'
    BY ZenonT(60), <1>0, <1>15 DEF PruneDelete, Fault, UnchangedByPrune, Own,
       OwnInv, Inductive, FlightInv, DoubtInv
  <2> QED
    BY Zenon, <2>1, <2>2, <2>3, OwnAssemble
<1>16. ASSUME NEW m \in Mount, PruneEnd(m) PROVE OwnInv'
  <2>1. /\ late' = {}
        /\ root' = root \/ root' \in attempts[m]
    BY Zenon, <1>0, <1>16 DEF PruneEnd, UnchangedByPrune, Inductive, FlightInv
  <2>2. \A o \in Mount \ {m} : SameOwn(o)
    BY Zenon, <1>0, <1>16 DEF PruneEnd, UnchangedByPrune, SameOwn
  <2>3. Own(m)'
    BY ZenonT(60), <1>0, <1>16 DEF PruneEnd, UnchangedByPrune, Own, OwnInv,
       Inductive, FlightInv, DoubtInv
  <2> QED
    BY Zenon, <2>1, <2>2, <2>3, OwnAssemble
<1>17. ASSUME NEW m \in Mount, GetRoot(m) PROVE OwnInv'
  <2>1. /\ late' = {}
        /\ root' = root \/ root' \in attempts[m]
    BY ZenonT(60), <1>0, <1>17 DEF GetRoot, Goto, Inductive, FlightInv
  <2>2. \A o \in Mount \ {m} : SameOwn(o)
    BY Zenon, <1>0, <1>17 DEF GetRoot, Goto, SameOwn
  <2>3. Own(m)'
    <3>1. root = None => root \notin attempts[m]
      BY Zenon, <1>0, KeyFacts
    <3>2. CASE root = None
      BY Zenon, <1>0, <3>1, <3>2, <1>17 DEF GetRoot, Own
    <3>3. CASE root # None
      BY Zenon, <1>0, <3>3, <1>17 DEF GetRoot, Goto, Own
    <3> QED
      BY Zenon, <3>2, <3>3
  <2> QED
    BY Zenon, <2>1, <2>2, <2>3, OwnAssemble
<1>18. ASSUME NEW m \in Mount, GetSnapshot(m) PROVE OwnInv'
  <2>1. /\ late' = {}
        /\ root' = root \/ root' \in attempts[m]
    BY Zenon, <1>0, <1>18 DEF GetSnapshot, Goto, Inductive, FlightInv
  <2>2. \A o \in Mount \ {m} : SameOwn(o)
    BY Zenon, <1>0, <1>18 DEF GetSnapshot, Goto, SameOwn
  <2>3. Own(m)'
    BY ZenonT(60), <1>0, <1>18 DEF GetSnapshot, Goto, Own, OwnInv, Inductive,
       FlightInv, DoubtInv
  <2> QED
    BY Zenon, <2>1, <2>2, <2>3, OwnAssemble
<1>19. ASSUME NEW m \in Mount, Exit(m) PROVE OwnInv'
  <2>1. /\ late' = {}
        /\ root' = root \/ root' \in attempts[m]
    BY Zenon, <1>0, <1>19 DEF Exit, Lose, Goto, Discard, Inductive, FlightInv
  <2>2. \A o \in Mount \ {m} : SameOwn(o)
    BY Zenon, <1>0, <1>19 DEF Exit, Lose, Goto, Discard, SameOwn
  <2>3. Own(m)'
    BY ZenonT(60), <1>0, <1>19 DEF Exit, Lose, Goto, Discard, InitialMode, Own,
       OwnInv, Inductive, FlightInv, DoubtInv
  <2> QED
    BY Zenon, <2>1, <2>2, <2>3, OwnAssemble
<1>20. ASSUME NEW m \in Mount, Crash(m) PROVE OwnInv'
  <2>1. /\ late' = {}
        /\ root' = root \/ root' \in attempts[m]
    BY Zenon, <1>0, <1>20 DEF Crash, Fault, Lose, Goto, Discard, Inductive,
       FlightInv
  <2>2. \A o \in Mount \ {m} : SameOwn(o)
    BY Zenon, <1>0, <1>20 DEF Crash, Fault, Lose, Goto, Discard, SameOwn
  <2>3. Own(m)'
    BY ZenonT(60), <1>0, <1>20 DEF Crash, Fault, Lose, Goto, Discard, InitialMode,
       Own, OwnInv, Inductive, FlightInv, DoubtInv
  <2> QED
    BY Zenon, <2>1, <2>2, <2>3, OwnAssemble
<1>21. ASSUME NEW m \in Mount, SettleFails(m) PROVE OwnInv'
  <2>1. /\ late' = {}
        /\ root' = root \/ root' \in attempts[m]
    BY ZenonT(60), <1>0, <1>21 DEF SettleFails, Fault, ReturnError, Goto, Discard,
       Inductive, FlightInv
  <2>2. \A o \in Mount \ {m} : SameOwn(o)
    BY Zenon, <1>0, <1>21 DEF SettleFails, Fault, ReturnError, Goto, Discard,
       SameOwn
  <2>3. Own(m)'
    BY ZenonT(60), <1>0, <1>21 DEF SettleFails, Fault, ReturnError, Goto, Discard,
       Own, OwnInv, Inductive, FlightInv, DoubtInv
  <2> QED
    BY Zenon, <2>1, <2>2, <2>3, OwnAssemble
<1>22. ASSUME NEW m \in Mount, PutSnapshotFails(m) PROVE OwnInv'
  <2>1. /\ late' = {}
        /\ root' = root \/ root' \in attempts[m]
    BY Zenon, <1>0, <1>22 DEF PutSnapshotFails, Fault, ReturnError, Goto,
       Discard, Inductive, FlightInv
  <2>2. \A o \in Mount \ {m} : SameOwn(o)
    BY Zenon, <1>0, <1>22 DEF PutSnapshotFails, Fault, ReturnError, Goto,
       Discard, SameOwn
  <2>3. Own(m)'
    BY ZenonT(60), <1>0, <1>22 DEF PutSnapshotFails, Fault, ReturnError, Goto,
       Discard, Own, OwnInv, Inductive, FlightInv, DoubtInv
  <2> QED
    BY Zenon, <2>1, <2>2, <2>3, OwnAssemble
<1>23. ASSUME NEW m \in Mount, SwapNoETag(m) PROVE OwnInv'
  <2>1. /\ late' = {}
        /\ root' = root \/ root' \in attempts[m]
    BY Zenon, <1>0, <1>23 DEF SwapNoETag, Fault, ConditionHolds, RaiseDoubt,
       Goto, UnchangedBySwap, Inductive, FlightInv
  <2>2. \A o \in Mount \ {m} : SameOwn(o)
    BY Zenon, <1>0, <1>23 DEF SwapNoETag, Fault, ConditionHolds, RaiseDoubt,
       Goto, UnchangedBySwap, SameOwn
  <2>3. Own(m)'
    BY ZenonT(60), <1>0, <1>23 DEF SwapNoETag, Fault, ConditionHolds, RaiseDoubt,
       Goto, UnchangedBySwap, Own, OwnInv, Inductive, FlightInv, DoubtInv
  <2> QED
    BY Zenon, <2>1, <2>2, <2>3, OwnAssemble
<1>24. ASSUME NEW m \in Mount, SwapUnknown(m) PROVE OwnInv'
  <2>1. /\ late' = {}
        /\ root' = root \/ root' \in attempts[m]
    BY Zenon, <1>0, <1>24 DEF SwapUnknown, Fault, ConditionHolds, MayApply,
       RaiseDoubt, Goto, UnchangedBySwap, Inductive, FlightInv
  <2>2. \A o \in Mount \ {m} : SameOwn(o)
    BY Zenon, <1>0, <1>24 DEF SwapUnknown, Fault, ConditionHolds, MayApply,
       RaiseDoubt, Goto, UnchangedBySwap, SameOwn
  <2>3. Own(m)'
    <3>1. root' = root \/ root' = sealedKey[m]
      BY Zenon, <1>24 DEF SwapUnknown, MayApply
    <3>2. CASE root' = root
      BY ZenonT(60), <1>0, <3>2, <1>24 DEF SwapUnknown, Fault, RaiseDoubt, Goto,
         UnchangedBySwap, Own, OwnInv, Inductive, DoubtInv
    <3>3. CASE root' = sealedKey[m]
      BY ZenonT(60), <1>0, <3>3, <1>24 DEF SwapUnknown, Fault, RaiseDoubt, Goto,
         UnchangedBySwap, Own, Inductive, FlightInv
    <3> QED
      BY Zenon, <3>1, <3>2, <3>3
  <2> QED
    BY Zenon, <2>1, <2>2, <2>3, OwnAssemble
<1>25. ASSUME NEW m \in Mount, SwapUnsupported(m) PROVE OwnInv'
  <2>1. /\ late' = {}
        /\ root' = root \/ root' \in attempts[m]
    BY Zenon, <1>0, <1>25 DEF SwapUnsupported, Fault, ConditionHolds, MayApply,
       Goto, UnchangedBySwap, Inductive, FlightInv
  <2>2. \A o \in Mount \ {m} : SameOwn(o)
    BY Zenon, <1>0, <1>25 DEF SwapUnsupported, Fault, ConditionHolds, MayApply,
       Goto, UnchangedBySwap, SameOwn
  <2>3. Own(m)'
    <3>1. root' = root \/ root' = sealedKey[m]
      BY Zenon, <1>25 DEF SwapUnsupported, MayApply
    <3>2. CASE root' = root
      BY ZenonT(60), <1>0, <3>2, <1>25 DEF SwapUnsupported, Fault, RaiseDoubt, Goto,
         UnchangedBySwap, Own, OwnInv, Inductive, DoubtInv
    <3>3. CASE root' = sealedKey[m]
      BY ZenonT(60), <1>0, <3>3, <1>25 DEF SwapUnsupported, Fault, RaiseDoubt, Goto,
         UnchangedBySwap, Own, Inductive, FlightInv
    <3> QED
      BY Zenon, <3>1, <3>2, <3>3
  <2> QED
    BY Zenon, <2>1, <2>2, <2>3, OwnAssemble
<1>26. ASSUME NEW m \in Mount, ReclaimFails(m) PROVE OwnInv'
  <2>1. /\ late' = {}
        /\ root' = root \/ root' \in attempts[m]
    BY Zenon, <1>0, <1>26 DEF ReclaimFails, Fault, RaiseDoubt, Goto,
       UnchangedBySwap, Inductive, FlightInv
  <2>2. \A o \in Mount \ {m} : SameOwn(o)
    BY Zenon, <1>0, <1>26 DEF ReclaimFails, Fault, RaiseDoubt, Goto,
       UnchangedBySwap, SameOwn
  <2>3. Own(m)'
    BY ZenonT(60), <1>0, <1>26 DEF ReclaimFails, Fault, RaiseDoubt, Goto,
       UnchangedBySwap, Own, OwnInv, Inductive, FlightInv, DoubtInv
  <2> QED
    BY Zenon, <2>1, <2>2, <2>3, OwnAssemble
<1>27. ASSUME NEW m \in Mount, ProbeFailed(m) PROVE OwnInv'
  <2>1. /\ late' = {}
        /\ root' = root \/ root' \in attempts[m]
    BY Zenon, <1>0, <1>27 DEF ProbeFailed, Fault, ReturnError, Goto, Discard,
       UnchangedByProbe, Inductive, FlightInv
  <2>2. \A o \in Mount \ {m} : SameOwn(o)
    BY Zenon, <1>0, <1>27 DEF ProbeFailed, Fault, ReturnError, Goto, Discard,
       UnchangedByProbe, SameOwn
  <2>3. Own(m)'
    BY ZenonT(60), <1>0, <1>27 DEF ProbeFailed, Fault, ReturnError, Goto, Discard,
       UnchangedByProbe, Own, OwnInv, Inductive, FlightInv, DoubtInv
  <2> QED
    BY Zenon, <2>1, <2>2, <2>3, OwnAssemble
<1>28. ASSUME NEW m \in Mount, FallbackPut(m) \/ FallbackPutFails(m) \/ FallbackHead(m) \/ SwapDelayed(m)
     PROVE OwnInv'
  BY Zenon, <1>28 DEF FallbackPut, FallbackPutFails, FallbackHead, SwapDelayed,
     Fault, Inductive, FlightInv
<1>29. ASSUME NEW m \in Mount, NEW c \in Change, Admit(m, c) \/ Mutate(m, c) PROVE OwnInv'
  BY SMTT(60), <1>0, <1>29 DEF Admit, Mutate, OwnInv, Own
<1>30. CASE UNCHANGED vars
  BY Zenon, <1>30 DEF vars, OwnInv, Own
<1> QED
  BY Zenon, <1>0, <1>1, <1>2, <1>3, <1>4, <1>5, <1>6, <1>7, <1>8, <1>9, <1>10,
     <1>11, <1>12, <1>13, <1>14, <1>15, <1>16, <1>17, <1>18, <1>19, <1>20,
     <1>21, <1>22, <1>23, <1>24, <1>25, <1>26, <1>27, <1>28, <1>29, <1>30
     DEF Next, CommitStep, PruneStep, LoadStep, FaultStep

\* A mount that diverges does so on the verdict of a read (resolveRoot), and
\* the root pointer read is none it wrote.
LEMMA DivergesStep ==
  ASSUME ~AllowUnconditionalRoot, Inductive, OwnInv, [Next]_vars, NEW m \in Mount,
         mode[m] # "diverged", mode'[m] = "diverged"
  PROVE  root # None /\ root \notin attempts[m]
<1> USE DEF TypeOK, storeVars, knowVars, nsVars, flightVars, pruneVars, sealVars, histVars
<1>0. TypeOK /\ StoreInv /\ Own(m) /\ KnowInv(m) /\ DoubtInv(m)
  BY Zenon DEF Inductive, OwnInv
<1>1. ProbeTheirs(m)
  <2>1. SUFFICES ASSUME NEW o \in Mount, mode' # mode,
                        CommitStep(o) \/ PruneStep(o) \/ LoadStep(o) \/ FaultStep(o)
                 PROVE  ProbeTheirs(m)
    BY Zenon DEF Next, Admit, Mutate, ApplyLate, vars
  <2>2. CASE Exit(o) \/ Crash(o)
    BY Zenon, <1>0, <2>2 DEF Exit, Crash, Lose, InitialMode
  <2>3. CASE ProbeTheirs(o)
    BY Zenon, <1>0, <2>3 DEF ProbeTheirs
  <2>4. ~PruneStep(o)
    BY Zenon, <2>1 DEF PruneStep, PruneList, PruneDelete, PruneEnd,
       UnchangedByPrune
  <2>5. LoadStep(o) => Exit(o)
    BY Zenon, <2>1 DEF LoadStep, GetRoot, GetSnapshot
  <2>6. FaultStep(o) => Crash(o)
    BY Zenon, <2>1 DEF FaultStep, SettleFails, PutSnapshotFails, SwapNoETag,
       SwapUnknown, SwapDelayed, SwapUnsupported, ReclaimFails,
       FallbackPutFails, ProbeFailed, UnchangedBySwap
  <2>7. CommitStep(o) => ProbeTheirs(o)
    BY Zenon, <2>1 DEF CommitStep, SyncClean, SyncDirty, SyncRefused, Seal,
       PutSnapshot, SwapOK, SwapConflict, Reclaim, ReclaimDelete, FallbackPut,
       FallbackHead, ProbeOurs, ProbeUnchanged, Apply, UnchangedBySwap, vars
  <2> QED
    BY Zenon, <2>1, <2>2, <2>3, <2>4, <2>5, <2>6, <2>7
<1>2. /\ pc[m] \in {"probe", "settle"}
      /\ root = None \/ root # doubtKey[m]
      /\ root # rootSnapshot[m]
  BY Zenon, <1>1 DEF ProbeTheirs, ClassifyRoot
<1>3. root # None
  <2> SUFFICES ASSUME root = None PROVE FALSE
    BY Zenon
  <2>1. rootSnapshot[m].epoch < 0
    BY Zenon, <1>0, <1>2, KeyFacts DEF KnowInv, Past
  <2> QED
    BY SMTT(60), <1>0, <2>1, KeyFacts DEF KeyOrNone
<1> QED
  BY Zenon, <1>0, <1>2, <1>3 DEF Own

\* Where no write given up on applies later, a mount diverges only on a root
\* pointer another mount wrote, whatever became of the replies to its own
\* swaps (classifyRoot, resolveRoot).
THEOREM DivergesOnAnother ==
  ASSUME ~AllowUnconditionalRoot, "late" \notin Faults
  PROVE  Spec => DivergesOnlyOnAnother
<1>1. Init => OwnInv
  BY Zenon DEF Init, OwnInv, Own
<1>2. Spec => []Inductive
  BY Zenon, InductiveAlways
<1>3. Inductive /\ OwnInv /\ [Next]_vars => OwnInv'
  BY Zenon, OwnStep
<1>4. Inductive /\ OwnInv /\ [Next]_vars =>
        [\A m \in Mount : mode[m] # "diverged" /\ mode'[m] = "diverged"
           => root # None /\ root \notin attempts[m]]_vars
  BY Zenon, DivergesStep
<1> QED
  BY <1>1, <1>2, <1>3, <1>4, PTL DEF Spec, DivergesOnlyOnAnother

\* Whatever a mount or a snapshot holds, a client asked for, and only a mount
\* that serves has handlers running.
MadeInv ==
  /\ \A k \in Key : body[k] \subseteq made
  /\ \A m \in Mount :
       /\ inodes[m] \subseteq made
       /\ admitted[m] \subseteq made
       /\ admitted[m] # {} => serving[m]
       /\ serving[m] => pc[m] \notin {"down", "getSnapshot", "exiting"}

\* Every step keeps it (mutable, markDirty, seal, loadOrInit).
LEMMA MadeStep ==
  ASSUME Inductive, MadeInv, [Next]_vars
  PROVE  MadeInv'
<1> USE DEF TypeOK, MadeInv, storeVars, knowVars, nsVars, flightVars, pruneVars, sealVars, histVars
<1>0. TypeOK /\ SealedTyped
  BY Zenon DEF Inductive
<1>1. ASSUME NEW m \in Mount, SyncClean(m) PROVE MadeInv'
  BY Zenon, <1>0, <1>1 DEF SyncClean
<1>2. ASSUME NEW m \in Mount, SyncDirty(m) PROVE MadeInv'
  BY Zenon, <1>0, <1>2 DEF SyncDirty, Goto
<1>3. ASSUME NEW m \in Mount, SyncRefused(m) PROVE MadeInv'
  BY Zenon, <1>0, <1>3 DEF SyncRefused, vars
<1>4. ASSUME NEW m \in Mount, Seal(m) PROVE MadeInv'
  <2>1. PICK k \in Key : body' = [body EXCEPT ![k] = inodes[m]]
    BY Zenon, <1>4 DEF Seal
  <2>2. \A j \in Key : body'[j] \subseteq made
    BY Zenon, <1>0, <2>1
  <2> QED
    BY Zenon, <1>0, <2>2, <1>4 DEF Seal, Goto
<1>5. ASSUME NEW m \in Mount, PutSnapshot(m) PROVE MadeInv'
  BY Zenon, <1>0, <1>5 DEF PutSnapshot, Goto
<1>6. ASSUME NEW m \in Mount, SwapOK(m) PROVE MadeInv'
  BY Zenon, <1>0, <1>6 DEF SwapOK, Goto, UnchangedBySwap
<1>7. ASSUME NEW m \in Mount, SwapConflict(m) PROVE MadeInv'
  BY Zenon, <1>0, <1>7 DEF SwapConflict, Goto, RaiseDoubt, UnchangedBySwap
<1>8. ASSUME NEW m \in Mount, Reclaim(m) PROVE MadeInv'
  BY Zenon, <1>0, <1>8 DEF Reclaim, Goto, RaiseDoubt, UnchangedBySwap
<1>9. ASSUME NEW m \in Mount, ReclaimDelete(m) PROVE MadeInv'
  BY Zenon, <1>0, <1>9 DEF ReclaimDelete, Goto, ReturnError, Discard, Fault
<1>10. ASSUME NEW m \in Mount, FallbackPut(m) PROVE MadeInv'
  BY Zenon, <1>0, <1>10 DEF FallbackPut, Goto, UnchangedBySwap
<1>11. ASSUME NEW m \in Mount, FallbackHead(m) PROVE MadeInv'
  BY Zenon, <1>0, <1>11 DEF FallbackHead, Goto, RaiseDoubt, UnchangedBySwap,
     Fault
<1>12. ASSUME NEW m \in Mount, ProbeOurs(m) PROVE MadeInv'
  BY Zenon, <1>0, <1>12 DEF ProbeOurs, Goto, UnchangedByProbe
<1>13. ASSUME NEW m \in Mount, ProbeUnchanged(m) PROVE MadeInv'
  BY SMTT(60), <1>0, <1>13 DEF ProbeUnchanged, Goto, ReturnError, Discard,
     UnchangedByProbe
<1>14. ASSUME NEW m \in Mount, ProbeTheirs(m) PROVE MadeInv'
  BY Zenon, <1>0, <1>14 DEF ProbeTheirs, ReturnError, Goto, Discard,
     UnchangedByProbe
<1>15. ASSUME NEW m \in Mount, Apply(m) PROVE MadeInv'
  BY Zenon, <1>0, <1>15 DEF Apply, Goto, Discard
<1>16. ASSUME NEW m \in Mount, PruneList(m) PROVE MadeInv'
  BY Zenon, <1>0, <1>16 DEF PruneList, Fault, UnchangedByPrune
<1>17. ASSUME NEW m \in Mount, PruneDelete(m) PROVE MadeInv'
  BY Zenon, <1>0, <1>17 DEF PruneDelete, Fault, UnchangedByPrune
<1>18. ASSUME NEW m \in Mount, PruneEnd(m) PROVE MadeInv'
  BY Zenon, <1>0, <1>18 DEF PruneEnd, UnchangedByPrune
<1>19. ASSUME NEW m \in Mount, GetRoot(m) PROVE MadeInv'
  BY Zenon, <1>0, <1>19 DEF GetRoot, Goto
<1>20. ASSUME NEW m \in Mount, GetSnapshot(m) PROVE MadeInv'
  <2>1. rootSnapshot[m] \in stored => body[rootSnapshot[m]] \subseteq made
    BY Zenon, <1>0
  <2> QED
    BY SMTT(60), <1>0, <2>1, <1>20 DEF GetSnapshot, Goto
<1>21. ASSUME NEW m \in Mount, Exit(m) PROVE MadeInv'
  BY Zenon, <1>0, <1>21 DEF Exit, Lose, Goto, Discard
<1>22. ASSUME NEW m \in Mount, Crash(m) PROVE MadeInv'
  BY Zenon, <1>0, <1>22 DEF Crash, Fault, Lose, Goto, Discard
<1>23. ASSUME NEW m \in Mount, SettleFails(m) PROVE MadeInv'
  BY Zenon, <1>0, <1>23 DEF SettleFails, Fault, ReturnError, Goto, Discard
<1>24. ASSUME NEW m \in Mount, PutSnapshotFails(m) PROVE MadeInv'
  BY Zenon, <1>0, <1>24 DEF PutSnapshotFails, Fault, ReturnError, Goto, Discard
<1>25. ASSUME NEW m \in Mount, SwapNoETag(m) PROVE MadeInv'
  BY Zenon, <1>0, <1>25 DEF SwapNoETag, Fault, RaiseDoubt, Goto,
     UnchangedBySwap
<1>26. ASSUME NEW m \in Mount, SwapUnknown(m) PROVE MadeInv'
  BY Zenon, <1>0, <1>26 DEF SwapUnknown, Fault, RaiseDoubt, Goto,
     UnchangedBySwap
<1>27. ASSUME NEW m \in Mount, SwapDelayed(m) PROVE MadeInv'
  BY Zenon, <1>0, <1>27 DEF SwapDelayed, Fault, RaiseDoubt, Goto,
     UnchangedBySwap
<1>28. ASSUME NEW m \in Mount, SwapUnsupported(m) PROVE MadeInv'
  BY Zenon, <1>0, <1>28 DEF SwapUnsupported, Fault, Goto, UnchangedBySwap
<1>29. ASSUME NEW m \in Mount, ReclaimFails(m) PROVE MadeInv'
  BY Zenon, <1>0, <1>29 DEF ReclaimFails, Fault, RaiseDoubt, Goto,
     UnchangedBySwap
<1>30. ASSUME NEW m \in Mount, FallbackPutFails(m) PROVE MadeInv'
  BY Zenon, <1>0, <1>30 DEF FallbackPutFails, Fault, RaiseDoubt, Goto,
     UnchangedBySwap
<1>31. ASSUME NEW m \in Mount, ProbeFailed(m) PROVE MadeInv'
  BY Zenon, <1>0, <1>31 DEF ProbeFailed, Fault, ReturnError, Goto, Discard,
     UnchangedByProbe
<1>32. ASSUME NEW m \in Mount, NEW c \in Change, Admit(m, c) PROVE MadeInv'
  BY Zenon, <1>0, <1>32 DEF Admit
<1>33. ASSUME NEW m \in Mount, NEW c \in Change, Mutate(m, c) PROVE MadeInv'
  BY Zenon, <1>0, <1>33 DEF Mutate
<1>34. ASSUME NEW w \in late, ApplyLate(w) PROVE MadeInv'
  BY Zenon, <1>0, <1>34 DEF ApplyLate
<1>35. CASE UNCHANGED vars
  BY Zenon, <1>35 DEF vars
<1> QED
  BY ZenonT(60), <1>1, <1>2, <1>3, <1>4, <1>5, <1>6, <1>7, <1>8, <1>9, <1>10, <1>11,
     <1>12,
     <1>13, <1>14, <1>15, <1>16, <1>17, <1>18, <1>19, <1>20, <1>21, <1>22,
     <1>23, <1>24, <1>25, <1>26, <1>27, <1>28, <1>29, <1>30, <1>31, <1>32,
     <1>33, <1>34, <1>35 DEF Next, CommitStep, PruneStep, LoadStep, FaultStep

\* Mount o's part of what View reads does not change.
SameView(o) ==
  /\ pc'[o] = pc[o] /\ rootSnapshot'[o] = rootSnapshot[o] /\ inodes'[o] = inodes[o]

\* Only the mount that takes the step sees its namespace change (a mount reads
\* the bucket in loadOrInit alone).
LEMMA ViewOfOne ==
  ASSUME TypeOK, body' = body, NEW m \in Mount, \A o \in Mount \ {m} : SameView(o)
  PROVE  View' = [View EXCEPT ![m] = View'[m]]
<1>1. \A o \in Mount \ {m} : View'[o] = View[o]
  BY Zenon DEF View, Content, SameView
<1> QED
  BY Zenon, <1>1 DEF View

\* A step that leaves the bucket and the acknowledgements alone is one of the
\* abstract specification, if its mount keeps its view, loses it, or opens the
\* durable namespace (loadOrInit, and the end of a process).
LEMMA Views ==
  ASSUME TypeOK, UNCHANGED <<root, body, made, acked>>, NEW m \in Mount,
         \A o \in Mount \ {m} : SameView(o), View'[m] \in {View[m], {}, Durable}
  PROVE  [Abstract!Next]_(Abstract!vars)
<1>1. View' = [View EXCEPT ![m] = View'[m]]
  BY Zenon, ViewOfOne
<1>2. Durable' = Durable
  BY Zenon DEF Durable, Content
<1>3. CASE View'[m] = View[m]
  <2>1. View' = View
    BY Zenon, <1>1, <1>3 DEF View
  <2> QED
    BY Zenon, <1>2, <2>1 DEF Abstract!vars
<1>4. CASE View'[m] = {}
  BY Zenon, <1>1, <1>2, <1>4 DEF Abstract!Next, Abstract!Close
<1>5. CASE View'[m] = Durable
  BY Zenon, <1>1, <1>2, <1>5 DEF Abstract!Next, Abstract!Open
<1> QED
  BY Zenon, <1>3, <1>4, <1>5

\* The steps that leave the bucket's namespace and the acknowledgements alone.
LEMMA QuietRefines ==
  ASSUME Inductive, MadeInv, NEW m \in Mount,
         SyncDirty(m) \/ PutSnapshot(m) \/ SwapConflict(m) \/ Reclaim(m) \/
         ReclaimDelete(m) \/ ProbeOurs(m) \/ ProbeUnchanged(m) \/
         ProbeTheirs(m) \/ PruneList(m) \/ PruneDelete(m) \/ PruneEnd(m) \/
         GetRoot(m) \/ GetSnapshot(m) \/ Exit(m) \/ Crash(m) \/
         SettleFails(m) \/ PutSnapshotFails(m) \/ SwapDelayed(m) \/
         ReclaimFails(m) \/ ProbeFailed(m)
  PROVE  [Abstract!Next]_(Abstract!vars)
<1> USE DEF TypeOK, storeVars, knowVars, nsVars, flightVars, pruneVars, sealVars, histVars
<1>0. TypeOK
  BY Zenon DEF Inductive
<1>1. CASE SyncDirty(m)
  <2>1. /\ UNCHANGED <<root, body, made, acked>>
        /\ \A o \in Mount \ {m} : SameView(o)
    BY Zenon, <1>0, <1>1 DEF SyncDirty, Goto, SameView
  <2>2. View'[m] \in {View[m], {}, Durable}
    BY Zenon, <1>0, <1>1 DEF SyncDirty, Goto, View, Content, Durable
  <2> QED
    BY Zenon, <1>0, <2>1, <2>2, Views
<1>2. CASE PutSnapshot(m)
  <2>1. /\ UNCHANGED <<root, body, made, acked>>
        /\ \A o \in Mount \ {m} : SameView(o)
    BY Zenon, <1>0, <1>2 DEF PutSnapshot, Goto, SameView
  <2>2. View'[m] \in {View[m], {}, Durable}
    BY Zenon, <1>0, <1>2 DEF PutSnapshot, Goto, View, Content, Durable
  <2> QED
    BY Zenon, <1>0, <2>1, <2>2, Views
<1>3. CASE SwapConflict(m)
  <2>1. /\ UNCHANGED <<root, body, made, acked>>
        /\ \A o \in Mount \ {m} : SameView(o)
    BY Zenon, <1>0, <1>3 DEF SwapConflict, Goto, RaiseDoubt, UnchangedBySwap,
       SameView
  <2>2. View'[m] \in {View[m], {}, Durable}
    BY Zenon, <1>0, <1>3 DEF SwapConflict, Goto, RaiseDoubt, UnchangedBySwap,
       View, Content, Durable
  <2> QED
    BY Zenon, <1>0, <2>1, <2>2, Views
<1>4. CASE Reclaim(m)
  <2>1. /\ UNCHANGED <<root, body, made, acked>>
        /\ \A o \in Mount \ {m} : SameView(o)
    BY Zenon, <1>0, <1>4 DEF Reclaim, Goto, RaiseDoubt, UnchangedBySwap,
       SameView
  <2>2. View'[m] \in {View[m], {}, Durable}
    BY Zenon, <1>0, <1>4 DEF Reclaim, Goto, RaiseDoubt, UnchangedBySwap, View,
       Content, Durable
  <2> QED
    BY Zenon, <1>0, <2>1, <2>2, Views
<1>5. CASE ReclaimDelete(m)
  <2>1. /\ UNCHANGED <<root, body, made, acked>>
        /\ \A o \in Mount \ {m} : SameView(o)
    BY Zenon, <1>0, <1>5 DEF ReclaimDelete, Goto, ReturnError, Discard, Fault,
       SameView
  <2>2. View'[m] \in {View[m], {}, Durable}
    BY Zenon, <1>0, <1>5 DEF ReclaimDelete, Goto, ReturnError, Discard, Fault,
       View, Content, Durable
  <2> QED
    BY Zenon, <1>0, <2>1, <2>2, Views
<1>6. CASE ProbeOurs(m)
  <2>1. /\ UNCHANGED <<root, body, made, acked>>
        /\ \A o \in Mount \ {m} : SameView(o)
    BY Zenon, <1>0, <1>6 DEF ProbeOurs, Goto, UnchangedByProbe, SameView
  <2>2. View'[m] \in {View[m], {}, Durable}
    BY Zenon, <1>0, <1>6 DEF ProbeOurs, Goto, UnchangedByProbe, View, Content,
       Durable
  <2> QED
    BY Zenon, <1>0, <2>1, <2>2, Views
<1>7. CASE ProbeUnchanged(m)
  <2>1. /\ UNCHANGED <<root, body, made, acked>>
        /\ \A o \in Mount \ {m} : SameView(o)
    BY Zenon, <1>0, <1>7 DEF ProbeUnchanged, Goto, ReturnError, Discard,
       UnchangedByProbe, SameView
  <2>2. View'[m] \in {View[m], {}, Durable}
    BY Zenon, <1>0, <1>7 DEF ProbeUnchanged, Goto, ReturnError, Discard,
       UnchangedByProbe, View, Content, Durable
  <2> QED
    BY Zenon, <1>0, <2>1, <2>2, Views
<1>8. CASE ProbeTheirs(m)
  <2>1. /\ UNCHANGED <<root, body, made, acked>>
        /\ \A o \in Mount \ {m} : SameView(o)
    BY Zenon, <1>0, <1>8 DEF ProbeTheirs, ReturnError, Goto, Discard,
       UnchangedByProbe, SameView
  <2>2. View'[m] \in {View[m], {}, Durable}
    BY Zenon, <1>0, <1>8 DEF ProbeTheirs, ReturnError, Goto, Discard,
       UnchangedByProbe, View, Content, Durable
  <2> QED
    BY Zenon, <1>0, <2>1, <2>2, Views
<1>9. CASE PruneList(m)
  <2>1. /\ UNCHANGED <<root, body, made, acked>>
        /\ \A o \in Mount \ {m} : SameView(o)
    BY Zenon, <1>0, <1>9 DEF PruneList, Fault, UnchangedByPrune, SameView
  <2>2. View'[m] \in {View[m], {}, Durable}
    BY Zenon, <1>0, <1>9 DEF PruneList, Fault, UnchangedByPrune, View, Content,
       Durable
  <2> QED
    BY Zenon, <1>0, <2>1, <2>2, Views
<1>10. CASE PruneDelete(m)
  <2>1. /\ UNCHANGED <<root, body, made, acked>>
        /\ \A o \in Mount \ {m} : SameView(o)
    BY Zenon, <1>0, <1>10 DEF PruneDelete, Fault, UnchangedByPrune, SameView
  <2>2. View'[m] \in {View[m], {}, Durable}
    BY Zenon, <1>0, <1>10 DEF PruneDelete, Fault, UnchangedByPrune, View,
       Content, Durable
  <2> QED
    BY Zenon, <1>0, <2>1, <2>2, Views
<1>11. CASE PruneEnd(m)
  <2>1. /\ UNCHANGED <<root, body, made, acked>>
        /\ \A o \in Mount \ {m} : SameView(o)
    BY Zenon, <1>0, <1>11 DEF PruneEnd, UnchangedByPrune, SameView
  <2>2. View'[m] \in {View[m], {}, Durable}
    BY Zenon, <1>0, <1>11 DEF PruneEnd, UnchangedByPrune, View, Content,
       Durable
  <2> QED
    BY Zenon, <1>0, <2>1, <2>2, Views
<1>12. CASE GetRoot(m)
  <2>1. /\ UNCHANGED <<root, body, made, acked>>
        /\ \A o \in Mount \ {m} : SameView(o)
    BY Zenon, <1>0, <1>12 DEF GetRoot, Goto, SameView
  <2>2. View'[m] \in {View[m], {}, Durable}
    BY Zenon, <1>0, <1>12 DEF GetRoot, Goto, View, Content, Durable
  <2> QED
    BY Zenon, <1>0, <2>1, <2>2, Views
<1>13. CASE GetSnapshot(m)
  <2>1. /\ UNCHANGED <<root, body, made, acked>>
        /\ \A o \in Mount \ {m} : SameView(o)
    BY Zenon, <1>0, <1>13 DEF GetSnapshot, Goto, SameView
  <2>2. View'[m] \in {View[m], {}, Durable}
    <3>1. CASE rootSnapshot[m] \in stored /\ inodes' = [inodes EXCEPT ![m] = body[rootSnapshot[m]]]
               /\ pc' = [pc EXCEPT ![m] = "ready"]
      <4>1. rootSnapshot[m] # None
        BY Zenon, <1>0, <3>1, KeyFacts
      <4>2. View'[m] = body[rootSnapshot[m]]
        BY Zenon, <1>0, <3>1 DEF View
      <4>3. View[m] = body[rootSnapshot[m]]
        BY Zenon, <4>1, <1>13 DEF View, Content, GetSnapshot
      <4> QED
        BY Zenon, <4>2, <4>3
    <3>2. CASE pc' = [pc EXCEPT ![m] = "exiting"]
      BY Zenon, <1>0, <3>2 DEF View
    <3> QED
      BY Zenon, <1>13, <3>1, <3>2 DEF GetSnapshot, Goto
  <2> QED
    BY Zenon, <1>0, <2>1, <2>2, Views
<1>14. CASE Exit(m)
  <2>1. /\ UNCHANGED <<root, body, made, acked>>
        /\ \A o \in Mount \ {m} : SameView(o)
    BY Zenon, <1>0, <1>14 DEF Exit, Lose, Goto, Discard, SameView
  <2>2. View'[m] \in {View[m], {}, Durable}
    BY Zenon, <1>0, <1>14 DEF Exit, Lose, Goto, Discard, View, Content, Durable
  <2> QED
    BY Zenon, <1>0, <2>1, <2>2, Views
<1>15. CASE Crash(m)
  <2>1. /\ UNCHANGED <<root, body, made, acked>>
        /\ \A o \in Mount \ {m} : SameView(o)
    BY Zenon, <1>0, <1>15 DEF Crash, Fault, Lose, Goto, Discard, SameView
  <2>2. View'[m] \in {View[m], {}, Durable}
    BY Zenon, <1>0, <1>15 DEF Crash, Fault, Lose, Goto, Discard, View, Content,
       Durable
  <2> QED
    BY Zenon, <1>0, <2>1, <2>2, Views
<1>16. CASE SettleFails(m)
  <2>1. /\ UNCHANGED <<root, body, made, acked>>
        /\ \A o \in Mount \ {m} : SameView(o)
    BY Zenon, <1>0, <1>16 DEF SettleFails, Fault, ReturnError, Goto, Discard,
       SameView
  <2>2. View'[m] \in {View[m], {}, Durable}
    BY Zenon, <1>0, <1>16 DEF SettleFails, Fault, ReturnError, Goto, Discard,
       View, Content, Durable
  <2> QED
    BY Zenon, <1>0, <2>1, <2>2, Views
<1>17. CASE PutSnapshotFails(m)
  <2>1. /\ UNCHANGED <<root, body, made, acked>>
        /\ \A o \in Mount \ {m} : SameView(o)
    BY Zenon, <1>0, <1>17 DEF PutSnapshotFails, Fault, ReturnError, Goto,
       Discard, SameView
  <2>2. View'[m] \in {View[m], {}, Durable}
    BY Zenon, <1>0, <1>17 DEF PutSnapshotFails, Fault, ReturnError, Goto,
       Discard, View, Content, Durable
  <2> QED
    BY Zenon, <1>0, <2>1, <2>2, Views
<1>18. CASE SwapDelayed(m)
  <2>1. /\ UNCHANGED <<root, body, made, acked>>
        /\ \A o \in Mount \ {m} : SameView(o)
    BY Zenon, <1>0, <1>18 DEF SwapDelayed, Fault, RaiseDoubt, Goto,
       UnchangedBySwap, SameView
  <2>2. View'[m] \in {View[m], {}, Durable}
    BY Zenon, <1>0, <1>18 DEF SwapDelayed, Fault, RaiseDoubt, Goto,
       UnchangedBySwap, View, Content, Durable
  <2> QED
    BY Zenon, <1>0, <2>1, <2>2, Views
<1>19. CASE ReclaimFails(m)
  <2>1. /\ UNCHANGED <<root, body, made, acked>>
        /\ \A o \in Mount \ {m} : SameView(o)
    BY Zenon, <1>0, <1>19 DEF ReclaimFails, Fault, RaiseDoubt, Goto,
       UnchangedBySwap, SameView
  <2>2. View'[m] \in {View[m], {}, Durable}
    BY Zenon, <1>0, <1>19 DEF ReclaimFails, Fault, RaiseDoubt, Goto,
       UnchangedBySwap, View, Content, Durable
  <2> QED
    BY Zenon, <1>0, <2>1, <2>2, Views
<1>20. CASE ProbeFailed(m)
  <2>1. /\ UNCHANGED <<root, body, made, acked>>
        /\ \A o \in Mount \ {m} : SameView(o)
    BY Zenon, <1>0, <1>20 DEF ProbeFailed, Fault, ReturnError, Goto, Discard,
       UnchangedByProbe, SameView
  <2>2. View'[m] \in {View[m], {}, Durable}
    BY Zenon, <1>0, <1>20 DEF ProbeFailed, Fault, ReturnError, Goto, Discard,
       UnchangedByProbe, View, Content, Durable
  <2> QED
    BY Zenon, <1>0, <2>1, <2>2, Views
<1> QED
  BY ZenonT(60), <1>1, <1>2, <1>3, <1>4, <1>5, <1>6, <1>7, <1>8, <1>9, <1>10, <1>11,
     <1>12,
     <1>13, <1>14, <1>15, <1>16, <1>17, <1>18, <1>19, <1>20

\* A root write that applies is a Commit: it keeps what was durable and adds
\* nothing no client asked for (PutIfMatch in commitSealed).
LEMMA RootMoveRefines ==
  ASSUME ~AllowUnconditionalRoot, Inductive, MadeInv, [Next]_vars, TypeOK',
         UNCHANGED <<body, made, acked>>, View' = View
  PROVE  [Abstract!Next]_(Abstract!vars)
<1>1. Durable' \subseteq made
  BY Zenon DEF Durable, Content, MadeInv, TypeOK, KeyOrNone
<1>2. CASE root' = root
  BY Zenon, <1>2 DEF Abstract!vars, Durable, Content
<1>3. CASE root' # root
  <2>1. Durable \subseteq Durable'
    BY Zenon, <1>3, RootAdvancesStep
  <2> QED
    BY Zenon, <1>1, <2>1 DEF Abstract!Next, Abstract!Commit
<1> QED
  BY Zenon, <1>2, <1>3

\* The seal changes no namespace anyone can open (seal).
LEMMA SealRefines ==
  ASSUME Inductive, NEW m \in Mount, Seal(m)
  PROVE  [Abstract!Next]_(Abstract!vars)
<1>0. TypeOK /\ StoreInv /\ \A o \in Mount : KnowInv(o)
  BY Zenon DEF Inductive
<1>1. PICK k \in Key :
        /\ k.epoch = epoch[m] + 1
        /\ \A o \in Mount : k \notin attempts[o]
        /\ body' = [body EXCEPT ![k] = inodes[m]]
  BY Zenon DEF Seal
<1>2. UNCHANGED <<root, rootSnapshot, inodes, made, acked>>
  BY Zenon DEF Seal, storeVars, knowVars, nsVars, histVars
<1>3. \A j \in KeyOrNone : IsSealed(j) => Content(j)' = Content(j)
  BY SMTT(60), <1>0, <1>1, KeyFacts DEF IsSealed, Content, TypeOK, KeyOrNone
<1>4. Durable' = Durable
  BY Zenon, <1>0, <1>2, <1>3 DEF Durable, StoreInv, TypeOK, Content
<1>5. \A o \in Mount : View'[o] = View[o]
  <2> SUFFICES ASSUME NEW o \in Mount PROVE View'[o] = View[o]
    BY Zenon
  <2>1. Content(rootSnapshot[o])' = Content(rootSnapshot[o])
    BY Zenon, <1>0, <1>2, <1>3 DEF KnowInv, Past, TypeOK, Content
  <2>2. \/ pc'[o] = pc[o]
        \/ pc[o] = "seal" /\ pc'[o] = "putSnapshot"
    <3>1. pc[m] = "seal" /\ pc' = [pc EXCEPT ![m] = "putSnapshot"]
      BY Zenon DEF Seal, Goto
    <3> QED
      BY Zenon, <1>0, <3>1 DEF TypeOK
  <2> QED
    BY Zenon, <1>2, <2>1, <2>2 DEF View
<1>6. View' = View
  BY Zenon, <1>5 DEF View
<1> QED
  BY Zenon, <1>2, <1>4, <1>6 DEF Abstract!vars

\* The return of a Sync acknowledges only what is durable (Sync, applyLocked).
LEMMA ReturnRefines ==
  ASSUME Inductive, NEW m \in Mount, SyncClean(m) \/ Apply(m)
  PROVE  [Abstract!Next]_(Abstract!vars)
<1> USE DEF storeVars, knowVars, nsVars, sealVars, histVars
<1>0. TypeOK /\ KnowInv(m) /\ FlightInv(m) /\ SealedTyped
  BY Zenon DEF Inductive
<1>1. /\ UNCHANGED <<root, body, made, inodes>>
      /\ \A o \in Mount \ {m} : SameView(o)
  BY Zenon, <1>0 DEF SyncClean, Apply, Goto, SameView, TypeOK
<1>2. View'[m] = View[m]
  BY Zenon, <1>0 DEF SyncClean, Apply, Goto, View, TypeOK
<1>3. View' = View
  BY ZenonT(60), <1>0, <1>1, <1>2, ViewOfOne DEF View
<1>4. Durable' = Durable
  BY Zenon, <1>1 DEF Durable, Content
<1>5. PICK s \in SUBSET Durable : acked' = acked \cup s
  <2>1. CASE SyncClean(m)
    BY Zenon, <1>0, <2>1 DEF SyncClean, KnowInv
  <2>2. CASE Apply(m)
    <3>1. Past(sealedKey[m]) /\ sealedKey[m] # None
      BY Zenon, <1>0, <2>2, KeyFacts DEF Apply, FlightInv, SealedTyped
    <3>2. body[sealedKey[m]] \subseteq Durable
      BY Zenon, <3>1 DEF Past, Content
    <3> QED
      BY Zenon, <2>2, <3>2 DEF Apply
  <2> QED
    BY Zenon, <2>1, <2>2
<1> QED
  BY Zenon, <1>1, <1>3, <1>4, <1>5 DEF Abstract!Next, Abstract!Acknowledge

\* Every step of the mounts is one of the abstract specification, or changes
\* nothing it sees.
LEMMA StepRefines ==
  ASSUME ~AllowUnconditionalRoot, Inductive, TypeOK', MadeInv, [Next]_vars
  PROVE  [Abstract!Next]_(Abstract!vars)
<1> USE DEF TypeOK, storeVars, knowVars, nsVars, flightVars, pruneVars, sealVars, histVars
<1>0. TypeOK
  BY Zenon DEF Inductive
<1>1. ASSUME NEW m \in Mount,
             SwapOK(m) \/ SwapNoETag(m) \/ SwapUnknown(m) \/ SwapUnsupported(m)
      PROVE  [Abstract!Next]_(Abstract!vars)
  <2>1. UNCHANGED <<body, made, acked, inodes, rootSnapshot>>
    BY Zenon, <1>1 DEF SwapOK, SwapNoETag, SwapUnknown, SwapUnsupported,
       UnchangedBySwap, RaiseDoubt
  <2>2. pc[m] = "swap" /\ \E p \in {"apply", "probe", "reclaim", "fallback"} : pc' = [pc EXCEPT ![m] = p]
    BY Zenon, <1>1 DEF SwapOK, SwapNoETag, SwapUnknown, SwapUnsupported,
       RaiseDoubt, Goto
  <2>3. \A o \in Mount \ {m} : SameView(o)
    BY Zenon, <1>0, <2>1, <2>2 DEF SameView
  <2>4. View'[m] = View[m]
    BY Zenon, <1>0, <2>1, <2>2 DEF View
  <2>5. View' = [View EXCEPT ![m] = View'[m]]
    BY Zenon, <1>0, <2>1, <2>3, ViewOfOne
  <2>6. View' = View
    BY Zenon, <2>4, <2>5 DEF View
  <2> QED
    BY Zenon, <2>1, <2>6, RootMoveRefines
<1>2. ASSUME NEW w \in late, ApplyLate(w) PROVE [Abstract!Next]_(Abstract!vars)
  <2>1. UNCHANGED <<body, made, acked, inodes, rootSnapshot, pc>>
    BY Zenon, <1>2 DEF ApplyLate
  <2>2. View' = View
    BY Zenon, <2>1 DEF View, Content
  <2> QED
    BY Zenon, <2>1, <2>2, RootMoveRefines
<1>3. ASSUME NEW m \in Mount, NEW c \in Change, Admit(m, c)
      PROVE  [Abstract!Next]_(Abstract!vars)
  <2>1. UNCHANGED <<root, body, acked, inodes, rootSnapshot, pc>> /\ made' = made \cup {c}
    BY Zenon, <1>3 DEF Admit
  <2>2. View' = View /\ Durable' = Durable
    BY Zenon, <2>1 DEF View, Durable, Content
  <2> QED
    BY Zenon, <2>1, <2>2 DEF Abstract!Next, Abstract!Request
<1>4. ASSUME NEW m \in Mount, NEW c \in Change, Mutate(m, c)
      PROVE  [Abstract!Next]_(Abstract!vars)
  <2>1. /\ UNCHANGED <<root, body, acked, made, rootSnapshot, pc>>
        /\ inodes' = [inodes EXCEPT ![m] = @ \cup {c}]
        /\ c \in made
        /\ pc[m] \notin {"getSnapshot", "exiting"}
    BY Zenon, <1>4 DEF Mutate, MadeInv
  <2>2. \A o \in Mount \ {m} : SameView(o)
    BY Zenon, <1>0, <2>1 DEF SameView
  <2>3. View'[m] = View[m] \cup {c}
    BY Zenon, <1>0, <2>1 DEF View
  <2>4. View' = [View EXCEPT ![m] = View[m] \cup {c}]
    <3>1. body' = body
      BY Zenon, <2>1
    <3>2. View' = [View EXCEPT ![m] = View'[m]]
      BY Zenon, <1>0, <2>2, <3>1, ViewOfOne
    <3> QED
      BY Zenon, <2>3, <3>2
  <2>5. Durable' = Durable
    BY Zenon, <2>1 DEF Durable, Content
  <2> QED
    BY Zenon, <2>1, <2>4, <2>5 DEF Abstract!Next, Abstract!Perform
<1>5. ASSUME UNCHANGED vars PROVE [Abstract!Next]_(Abstract!vars)
  BY Zenon, <1>5 DEF vars, Abstract!vars, View, Durable, Content
<1>6. ASSUME NEW m \in Mount, FallbackPut(m) \/ FallbackPutFails(m) \/ FallbackHead(m)
      PROVE  FALSE
  BY Zenon, <1>6 DEF FallbackPut, FallbackPutFails, FallbackHead, Inductive,
     FlightInv
<1>7. ASSUME NEW m \in Mount, CommitStep(m) PROVE [Abstract!Next]_(Abstract!vars)
  BY Zenon, <1>1, <1>5, <1>6, <1>7, QuietRefines, SealRefines, ReturnRefines
     DEF CommitStep, SyncRefused
<1>8. ASSUME NEW m \in Mount, PruneStep(m) \/ LoadStep(m)
      PROVE  [Abstract!Next]_(Abstract!vars)
  BY Zenon, <1>8, QuietRefines DEF PruneStep, LoadStep
<1>9. ASSUME NEW m \in Mount, FaultStep(m) PROVE [Abstract!Next]_(Abstract!vars)
  BY Zenon, <1>1, <1>6, <1>9, QuietRefines DEF FaultStep
<1> QED
  BY Zenon, <1>2, <1>3, <1>4, <1>5, <1>7, <1>8, <1>9 DEF Next

\* The mounts of a bucket, for any number of them and any faults, implement
\* one durable namespace that only grows, is opened whole, and holds every
\* change a Sync has acknowledged and none that no client asked for (loadOrInit,
\* Sync, commitSealed, resolveRoot).
THEOREM Refinement ==
  ASSUME ~AllowUnconditionalRoot
  PROVE  Spec => ImplementsDurableNamespace
<1>1. Init => MadeInv
  BY Zenon DEF Init, MadeInv
<1>2. Init => Abstract!Init
  BY Zenon DEF Init, Abstract!Init, View, Durable, Content
<1>3. Spec => []Inductive
  BY Zenon, InductiveAlways
<1>4. Inductive /\ MadeInv /\ [Next]_vars => MadeInv'
  BY Zenon, MadeStep
<1>5. Inductive' => TypeOK'
  BY Zenon DEF Inductive
<1>6. Inductive /\ TypeOK' /\ MadeInv /\ [Next]_vars => [Abstract!Next]_(Abstract!vars)
  BY Zenon, StepRefines
<1> QED
  BY <1>1, <1>2, <1>3, <1>4, <1>5, <1>6, PTL DEF Spec, ImplementsDurableNamespace,
     Abstract!Spec
====
