----------------------------- MODULE BudgetProofs -----------------------------
(***************************************************************************)
(* Proofs about Budget, for any set of threads, any limit and any number   *)
(* of calls.                                                               *)
(***************************************************************************)
EXTENDS Budget, FiniteSetTheorems, TLAPS

\* budget.mu is held by the one call that goes round await's loop, and the
\* in-progress mark is set by the one call that drains.  A parked call has
\* its callback registered.
OneHolder ==
  /\ \A p \in Proc : pc[p] = "loop" <=> mu = p
  /\ draining <=> \E p \in Proc : pc[p] = "draining"
  /\ \A p, q \in Proc : pc[p] = "draining" /\ pc[q] = "draining" => p = q
  /\ \A p \in Proc : pc[p] = "parked" => waker[p]

\* A call is not younger than the drains it has seen, and one that is owed a
\* failure is about to find it.
OwedFails ==
  \A p \in Proc :
    /\ start[p] <= ended
    /\ owed[p] => pc[p] \in {"woken", "loop"} /\ Failed(p)

\* What admitted calls have yet to charge is in the bound already.
RoomReserved ==
  Limit > 0 =>
    charge + MaxCharge * Cardinality(Admitted) <= Limit - 1 + MaxCharge * peak

Inductive == TypeOK /\ OneHolder /\ ParkedHasReason /\ OwedFails /\ RoomReserved

\* The peak is a number of threads.
LEMMA PeakType ==
  ASSUME TypeOK, NEW p \in Proc
  PROVE  /\ IsFiniteSet(Admitted) /\ Cardinality(Admitted) \in Nat
         /\ Peak(p) \in Nat
         /\ Cardinality(Admitted \cup {p}) <= Peak(p)
<1>1. IsFiniteSet(Admitted) /\ IsFiniteSet(Admitted \cup {p})
  <2>1. Admitted \subseteq Proc /\ Admitted \cup {p} \subseteq Proc
    BY DEF Admitted
  <2> QED
    BY <2>1, ConstantsAssumption, FS_Subset
<1>2. Cardinality(Admitted) \in Nat /\ Cardinality(Admitted \cup {p}) \in Nat
  BY <1>1, FS_CardinalityType
<1> QED
  BY <1>1, <1>2 DEF Peak, TypeOK

\* Every step keeps the types.
LEMMA TypeStep ==
  ASSUME TypeOK, OneHolder, [Next]_vars
  PROVE  TypeOK'
<1>0. 1 .. charge \subseteq Nat /\ 1 .. toFree \subseteq Nat
  BY DEF TypeOK
<1>1. ASSUME NEW n \in Nat, release(n) PROVE TypeOK'
  <2>1. pc' \in [Proc -> Blocked \cup {"idle", "admitted"}]
    BY <1>1, ConstantsAssumption DEF TypeOK, None, Errors, Blocked, release, Broadcast
  <2>2. n <= charge
    BY <1>1 DEF TypeOK, release
  <2>3. charge' \in Nat /\ toFree' \in Nat
    BY <1>1, <2>2 DEF TypeOK, release, Freed
  <2> QED
    BY <1>1, <2>1, <2>3 DEF TypeOK, None, Errors, Blocked, release, vars, budgetVars,
       callVars, wakerVars, histVars
<1>2. ASSUME NEW p \in Proc, awaitFast(p) PROVE TypeOK'
  <2>1. peak' \in Nat
    BY Zenon, <1>2, PeakType DEF awaitFast, Enter
  <2> QED
    BY <1>2, <2>1, ConstantsAssumption DEF TypeOK, None, Errors, Blocked, awaitFast,
       Enter, vars, budgetVars, callVars, wakerVars, histVars
<1>3. ASSUME NEW p \in Proc, awaitBlocks(p) PROVE TypeOK'
  BY <1>3, ConstantsAssumption DEF awaitBlocks, Enter, TypeOK, None, Errors, Blocked,
     vars, budgetVars, callVars, wakerVars, histVars
<1>4. ASSUME NEW p \in Proc, add(p) PROVE TypeOK'
  BY <1>4, ConstantsAssumption DEF add, TypeOK, None, Errors, Blocked, vars,
     budgetVars, callVars, wakerVars, histVars
<1>5. ASSUME NEW p \in Proc, loopFails(p) PROVE TypeOK'
  BY <1>5, ConstantsAssumption DEF loopFails, Return, Failed, TypeOK, None, Errors,
     Blocked, vars, budgetVars, callVars, wakerVars, histVars
<1>6. ASSUME NEW p \in Proc, loopAdmits(p) PROVE TypeOK'
  <2>1. peak' \in Nat
    BY Zenon, <1>6, PeakType DEF loopAdmits, Return, Failed
  <2> QED
    BY <1>6, <2>1, ConstantsAssumption DEF TypeOK, None, Errors, Blocked, loopAdmits,
       Return, Failed, vars, budgetVars, callVars, wakerVars, histVars
<1>7. ASSUME NEW p \in Proc, loopCancelled(p) PROVE TypeOK'
  BY <1>7, ConstantsAssumption DEF loopCancelled, Return, Failed, TypeOK, None,
     Errors, Blocked, vars, budgetVars, callVars, wakerVars, histVars
<1>8. ASSUME NEW p \in Proc, loopParks(p) PROVE TypeOK'
  BY <1>8, ConstantsAssumption DEF loopParks, loopWaits, Failed, TypeOK, None, Errors,
     Blocked, vars, budgetVars, callVars, wakerVars, histVars
<1>9. ASSUME NEW p \in Proc, loopDrains(p) PROVE TypeOK'
  BY <1>9, ConstantsAssumption DEF loopDrains, loopWaits, Failed, TypeOK, None,
     Errors, Blocked, vars, budgetVars, callVars, wakerVars, histVars
<1>10. ASSUME NEW p \in Proc, wake(p) PROVE TypeOK'
  BY <1>10, ConstantsAssumption DEF wake, TypeOK, None, Errors, Blocked, vars,
     budgetVars, callVars, wakerVars, histVars
<1>11. ASSUME NEW p \in Proc, drainFrees(p) PROVE TypeOK'
  BY <1>0, <1>1, <1>11 DEF drainFrees
<1>12. ASSUME NEW p \in Proc, drainSucceeds(p) PROVE TypeOK'
  <2>1. pc' \in [Proc -> Blocked \cup {"idle", "admitted"}]
    BY <1>12, ConstantsAssumption DEF TypeOK, None, Errors, Blocked, drainSucceeds,
       settle, Broadcast
  <2>2. charge' \in Nat /\ toFree' \in Nat /\ ended' \in Nat /\ failedAt' \in 0 .. ended'
    BY <1>12, ConstantsAssumption DEF TypeOK, None, Errors, Blocked, drainSucceeds,
       settle, Broadcast, budgetVars, histVars
  <2> QED
    BY Zenon, <1>12, <2>1, <2>2, ConstantsAssumption DEF TypeOK, None, Errors, Blocked,
       drainSucceeds, settle, Broadcast, vars, budgetVars, callVars, wakerVars,
       histVars
<1>13. ASSUME NEW p \in Proc, drainAbandoned(p) PROVE TypeOK'
  <2>1. pc' \in [Proc -> Blocked \cup {"idle", "admitted"}]
    BY <1>13, ConstantsAssumption DEF TypeOK, None, Errors, Blocked, drainAbandoned,
       DrainEnds, settle, Broadcast, Owe
  <2>2. charge' \in Nat /\ toFree' \in Nat /\ ended' \in Nat /\ failedAt' \in 0 .. ended'
    BY <1>13, ConstantsAssumption DEF TypeOK, None, Errors, Blocked, drainAbandoned,
       DrainEnds, settle, Broadcast, Owe, budgetVars, histVars
  <2> QED
    BY Zenon, <1>13, <2>1, <2>2, ConstantsAssumption DEF TypeOK, None, Errors, Blocked,
       drainAbandoned, DrainEnds, settle, Broadcast, Owe, vars, budgetVars, callVars,
       wakerVars, histVars
<1>14. ASSUME NEW p \in Proc, drainFails(p) PROVE TypeOK'
  <2>1. pc' \in [Proc -> Blocked \cup {"idle", "admitted"}]
    BY <1>14, ConstantsAssumption DEF TypeOK, None, Errors, Blocked, drainFails,
       DrainEnds, settle, Broadcast, Owe
  <2>2. charge' \in Nat /\ toFree' \in Nat /\ ended' \in Nat /\ failedAt' \in 0 .. ended'
    BY <1>14, ConstantsAssumption DEF TypeOK, None, Errors, Blocked, drainFails,
       DrainEnds, settle, Broadcast, Owe, budgetVars, histVars
  <2> QED
    BY Zenon, <1>14, <2>1, <2>2, ConstantsAssumption DEF TypeOK, None, Errors, Blocked,
       drainFails, DrainEnds, settle, Broadcast, Owe, vars, budgetVars, callVars,
       wakerVars, histVars
<1>15. ASSUME NEW p \in Proc, drainPanics(p) PROVE TypeOK'
  <2>1. pc' \in [Proc -> Blocked \cup {"idle", "admitted"}]
    BY <1>15, ConstantsAssumption DEF TypeOK, None, Errors, Blocked, drainPanics,
       DrainEnds, settle, Broadcast, Owe
  <2>2. charge' \in Nat /\ toFree' \in Nat /\ ended' \in Nat /\ failedAt' \in 0 .. ended'
    BY <1>15, ConstantsAssumption DEF TypeOK, None, Errors, Blocked, drainPanics,
       DrainEnds, settle, Broadcast, Owe, budgetVars, histVars
  <2> QED
    BY Zenon, <1>15, <2>1, <2>2, ConstantsAssumption DEF TypeOK, None, Errors, Blocked,
       drainPanics, DrainEnds, settle, Broadcast, Owe, vars, budgetVars, callVars,
       wakerVars, histVars
<1>16. ASSUME NEW p \in Proc, wakeOnDone(p) PROVE TypeOK'
  <2>1. pc' \in [Proc -> Blocked \cup {"idle", "admitted"}]
    BY <1>16, ConstantsAssumption DEF TypeOK, None, Errors, Blocked, wakeOnDone,
       Broadcast
  <2>2. charge' \in Nat /\ toFree' \in Nat /\ ended' \in Nat /\ failedAt' \in 0 .. ended'
    BY <1>16, ConstantsAssumption DEF TypeOK, None, Errors, Blocked, wakeOnDone,
       Broadcast, budgetVars, histVars
  <2> QED
    BY <1>16, <2>1, <2>2, ConstantsAssumption DEF TypeOK, None, Errors, Blocked,
       wakeOnDone, Broadcast, vars, budgetVars, callVars, wakerVars, histVars
<1>17. ASSUME NEW p \in Proc, Cancel(p) PROVE TypeOK'
  BY <1>17, ConstantsAssumption DEF Cancel, TypeOK, None, Errors, Blocked, vars,
     budgetVars, callVars, wakerVars, histVars
<1>18. CASE wakeTooLate
  <2>1. pc' \in [Proc -> Blocked \cup {"idle", "admitted"}]
    BY <1>18, ConstantsAssumption DEF TypeOK, None, Errors, Blocked, wakeTooLate,
       Broadcast
  <2>2. charge' \in Nat /\ toFree' \in Nat /\ ended' \in Nat /\ failedAt' \in 0 .. ended'
    BY <1>18, ConstantsAssumption DEF TypeOK, None, Errors, Blocked, wakeTooLate,
       Broadcast, budgetVars, histVars
  <2> QED
    BY Zenon, <1>18, <2>1, <2>2, ConstantsAssumption DEF TypeOK, None, Errors, Blocked,
       wakeTooLate, Broadcast, vars, budgetVars, callVars, wakerVars, histVars
<1>19. CASE Done
  BY <1>19, ConstantsAssumption DEF Done, TypeOK, None, Errors, Blocked, vars,
     budgetVars, callVars, wakerVars, histVars
<1>20. CASE UNCHANGED vars
  BY <1>20, ConstantsAssumption DEF TypeOK, None, Errors, Blocked, vars, budgetVars,
     callVars, wakerVars, histVars
<1> QED
  BY <1>0, <1>1, <1>2, <1>3, <1>4, <1>5, <1>6, <1>7, <1>8, <1>9, <1>10, <1>11, <1>12,
     <1>13, <1>14, <1>15, <1>16, <1>17, <1>18, <1>19, <1>20 DEF
     Next, Proceed

\* Every step keeps one holder of mu and one drainer.
LEMMA HolderStep ==
  ASSUME TypeOK, OneHolder, ParkedHasReason, [Next]_vars
  PROVE  OneHolder'
<1>0. 1 .. charge \subseteq Nat /\ 1 .. toFree \subseteq Nat
  BY DEF TypeOK
<1>1. ASSUME NEW n \in Nat, release(n) PROVE OneHolder'
  BY <1>1, ConstantsAssumption DEF release, Freed, Broadcast, TypeOK, OneHolder, None,
     Errors, Blocked, vars, budgetVars, callVars, wakerVars, histVars
<1>2. ASSUME NEW p \in Proc, awaitFast(p) PROVE OneHolder'
  BY <1>2, ConstantsAssumption DEF awaitFast, Enter, TypeOK, OneHolder, None, Errors,
     Blocked, vars, budgetVars, callVars, wakerVars, histVars
<1>3. ASSUME NEW p \in Proc, awaitBlocks(p) PROVE OneHolder'
  BY <1>3, ConstantsAssumption DEF awaitBlocks, Enter, TypeOK, OneHolder, None,
     Errors, Blocked, vars, budgetVars, callVars, wakerVars, histVars
<1>4. ASSUME NEW p \in Proc, add(p) PROVE OneHolder'
  BY <1>4, ConstantsAssumption DEF add, TypeOK, OneHolder, None, Errors, Blocked,
     vars, budgetVars, callVars, wakerVars, histVars
<1>5. ASSUME NEW p \in Proc, loopFails(p) PROVE OneHolder'
  BY <1>5, ConstantsAssumption DEF loopFails, Return, Failed, TypeOK, OneHolder, None,
     Errors, Blocked, vars, budgetVars, callVars, wakerVars, histVars
<1>6. ASSUME NEW p \in Proc, loopAdmits(p) PROVE OneHolder'
  BY <1>6, ConstantsAssumption DEF loopAdmits, Return, Failed, TypeOK, OneHolder,
     None, Errors, Blocked, vars, budgetVars, callVars, wakerVars, histVars
<1>7. ASSUME NEW p \in Proc, loopCancelled(p) PROVE OneHolder'
  BY <1>7, ConstantsAssumption DEF loopCancelled, Return, Failed, TypeOK, OneHolder,
     None, Errors, Blocked, vars, budgetVars, callVars, wakerVars, histVars
<1>8. ASSUME NEW p \in Proc, loopParks(p) PROVE OneHolder'
  BY <1>8, ConstantsAssumption DEF loopParks, loopWaits, Failed, TypeOK, OneHolder,
     None, Errors, Blocked, vars, budgetVars, callVars, wakerVars, histVars
<1>9. ASSUME NEW p \in Proc, loopDrains(p) PROVE OneHolder'
  BY <1>9, ConstantsAssumption DEF loopDrains, loopWaits, Failed, TypeOK, OneHolder,
     None, Errors, Blocked, vars, budgetVars, callVars, wakerVars, histVars
<1>10. ASSUME NEW p \in Proc, wake(p) PROVE OneHolder'
  BY <1>10, ConstantsAssumption DEF wake, TypeOK, OneHolder, None, Errors, Blocked,
     vars, budgetVars, callVars, wakerVars, histVars
<1>11. ASSUME NEW p \in Proc, drainFrees(p) PROVE OneHolder'
  BY <1>0, <1>1, <1>11 DEF drainFrees
<1>12. ASSUME NEW p \in Proc, drainSucceeds(p) PROVE OneHolder'
  BY <1>12, ConstantsAssumption DEF drainSucceeds, settle, Broadcast, TypeOK,
     OneHolder, None, Errors, Blocked, vars, budgetVars, callVars, wakerVars, histVars
<1>13. ASSUME NEW p \in Proc, drainAbandoned(p) PROVE OneHolder'
  BY <1>13, ConstantsAssumption DEF drainAbandoned, DrainEnds, settle, Broadcast, Owe,
     TypeOK, OneHolder, None, Errors, Blocked, vars, budgetVars, callVars, wakerVars,
     histVars
<1>14. ASSUME NEW p \in Proc, drainFails(p) PROVE OneHolder'
  BY <1>14, ConstantsAssumption DEF drainFails, DrainEnds, settle, Broadcast, Owe,
     TypeOK, OneHolder, None, Errors, Blocked, vars, budgetVars, callVars, wakerVars,
     histVars
<1>15. ASSUME NEW p \in Proc, drainPanics(p) PROVE OneHolder'
  BY <1>15, ConstantsAssumption DEF drainPanics, DrainEnds, settle, Broadcast, Owe,
     TypeOK, OneHolder, None, Errors, Blocked, vars, budgetVars, callVars, wakerVars,
     histVars
<1>16. ASSUME NEW p \in Proc, wakeOnDone(p) PROVE OneHolder'
  BY <1>16, ConstantsAssumption DEF wakeOnDone, Broadcast, TypeOK, OneHolder, None,
     Errors, Blocked, vars, budgetVars, callVars, wakerVars, histVars
<1>17. ASSUME NEW p \in Proc, Cancel(p) PROVE OneHolder'
  BY <1>17, ConstantsAssumption DEF Cancel, TypeOK, OneHolder, None, Errors, Blocked,
     vars, budgetVars, callVars, wakerVars, histVars
<1>18. CASE wakeTooLate
  BY <1>18, ConstantsAssumption DEF wakeTooLate, Broadcast, TypeOK, OneHolder, None,
     Errors, Blocked, vars, budgetVars, callVars, wakerVars, histVars
<1>19. CASE Done
  BY <1>19, ConstantsAssumption DEF Done, TypeOK, OneHolder, None, Errors, Blocked,
     vars, budgetVars, callVars, wakerVars, histVars
<1>20. CASE UNCHANGED vars
  BY <1>20, ConstantsAssumption DEF TypeOK, OneHolder, None, Errors, Blocked, vars,
     budgetVars, callVars, wakerVars, histVars
<1> QED
  BY <1>0, <1>1, <1>2, <1>3, <1>4, <1>5, <1>6, <1>7, <1>8, <1>9, <1>10, <1>11, <1>12,
     <1>13, <1>14, <1>15, <1>16, <1>17, <1>18, <1>19, <1>20 DEF
     Next, Proceed

\* Every step keeps what is owed.
LEMMA OwedStep ==
  ASSUME TypeOK, OneHolder, OwedFails, [Next]_vars
  PROVE  OwedFails'
<1>0. 1 .. charge \subseteq Nat /\ 1 .. toFree \subseteq Nat
  BY DEF TypeOK
<1>1. ASSUME NEW n \in Nat, release(n) PROVE OwedFails'
  BY <1>1, ConstantsAssumption DEF release, Freed, Broadcast, TypeOK, OneHolder,
     OwedFails, Failed, None, Errors, Blocked, vars, budgetVars, callVars, wakerVars,
     histVars
<1>2. ASSUME NEW p \in Proc, awaitFast(p) PROVE OwedFails'
  BY <1>2, ConstantsAssumption DEF awaitFast, Enter, TypeOK, OneHolder, OwedFails,
     Failed, None, Errors, Blocked, vars, budgetVars, callVars, wakerVars, histVars
<1>3. ASSUME NEW p \in Proc, awaitBlocks(p) PROVE OwedFails'
  BY <1>3, ConstantsAssumption DEF awaitBlocks, Enter, TypeOK, OneHolder, OwedFails,
     Failed, None, Errors, Blocked, vars, budgetVars, callVars, wakerVars, histVars
<1>4. ASSUME NEW p \in Proc, add(p) PROVE OwedFails'
  BY <1>4, ConstantsAssumption DEF add, TypeOK, OneHolder, OwedFails, Failed, None,
     Errors, Blocked, vars, budgetVars, callVars, wakerVars, histVars
<1>5. ASSUME NEW p \in Proc, loopFails(p) PROVE OwedFails'
  BY <1>5, ConstantsAssumption DEF loopFails, Return, Failed, TypeOK, OneHolder,
     OwedFails, None, Errors, Blocked, vars, budgetVars, callVars, wakerVars, histVars
<1>6. ASSUME NEW p \in Proc, loopAdmits(p) PROVE OwedFails'
  BY <1>6, ConstantsAssumption DEF loopAdmits, Return, Failed, TypeOK, OneHolder,
     OwedFails, None, Errors, Blocked, vars, budgetVars, callVars, wakerVars, histVars
<1>7. ASSUME NEW p \in Proc, loopCancelled(p) PROVE OwedFails'
  BY <1>7, ConstantsAssumption DEF loopCancelled, Return, Failed, TypeOK, OneHolder,
     OwedFails, None, Errors, Blocked, vars, budgetVars, callVars, wakerVars, histVars
<1>8. ASSUME NEW p \in Proc, loopParks(p) PROVE OwedFails'
  BY <1>8, ConstantsAssumption DEF loopParks, loopWaits, Failed, TypeOK, OneHolder,
     OwedFails, None, Errors, Blocked, vars, budgetVars, callVars, wakerVars, histVars
<1>9. ASSUME NEW p \in Proc, loopDrains(p) PROVE OwedFails'
  BY <1>9, ConstantsAssumption DEF loopDrains, loopWaits, Failed, TypeOK, OneHolder,
     OwedFails, None, Errors, Blocked, vars, budgetVars, callVars, wakerVars, histVars
<1>10. ASSUME NEW p \in Proc, wake(p) PROVE OwedFails'
  BY <1>10, ConstantsAssumption DEF wake, TypeOK, OneHolder, OwedFails, Failed, None,
     Errors, Blocked, vars, budgetVars, callVars, wakerVars, histVars
<1>11. ASSUME NEW p \in Proc, drainFrees(p) PROVE OwedFails'
  BY <1>0, <1>1, <1>11 DEF drainFrees
<1>12. ASSUME NEW p \in Proc, drainSucceeds(p) PROVE OwedFails'
  BY <1>12, ConstantsAssumption DEF drainSucceeds, settle, Broadcast, TypeOK,
     OneHolder, OwedFails, Failed, None, Errors, Blocked, vars, budgetVars, callVars,
     wakerVars, histVars
<1>13. ASSUME NEW p \in Proc, drainAbandoned(p) PROVE OwedFails'
  BY <1>13, ConstantsAssumption DEF drainAbandoned, DrainEnds, settle, Broadcast, Owe,
     TypeOK, OneHolder, OwedFails, Failed, None, Errors, Blocked, vars, budgetVars,
     callVars, wakerVars, histVars
<1>14. ASSUME NEW p \in Proc, drainFails(p) PROVE OwedFails'
  BY <1>14, ConstantsAssumption DEF drainFails, DrainEnds, settle, Broadcast, Owe,
     TypeOK, OneHolder, OwedFails, Failed, None, Errors, Blocked, vars, budgetVars,
     callVars, wakerVars, histVars
<1>15. ASSUME NEW p \in Proc, drainPanics(p) PROVE OwedFails'
  BY <1>15, ConstantsAssumption DEF drainPanics, DrainEnds, settle, Broadcast, Owe,
     TypeOK, OneHolder, OwedFails, Failed, None, Errors, Blocked, vars, budgetVars,
     callVars, wakerVars, histVars
<1>16. ASSUME NEW p \in Proc, wakeOnDone(p) PROVE OwedFails'
  BY <1>16, ConstantsAssumption DEF wakeOnDone, Broadcast, TypeOK, OneHolder,
     OwedFails, Failed, None, Errors, Blocked, vars, budgetVars, callVars, wakerVars,
     histVars
<1>17. ASSUME NEW p \in Proc, Cancel(p) PROVE OwedFails'
  BY <1>17, ConstantsAssumption DEF Cancel, TypeOK, OneHolder, OwedFails, Failed,
     None, Errors, Blocked, vars, budgetVars, callVars, wakerVars, histVars
<1>18. CASE wakeTooLate
  BY <1>18, ConstantsAssumption DEF wakeTooLate, Broadcast, TypeOK, OneHolder,
     OwedFails, Failed, None, Errors, Blocked, vars, budgetVars, callVars, wakerVars,
     histVars
<1>19. CASE Done
  BY <1>19, ConstantsAssumption DEF Done, TypeOK, OneHolder, OwedFails, Failed, None,
     Errors, Blocked, vars, budgetVars, callVars, wakerVars, histVars
<1>20. CASE UNCHANGED vars
  BY <1>20, ConstantsAssumption DEF TypeOK, OneHolder, OwedFails, Failed, None,
     Errors, Blocked, vars, budgetVars, callVars, wakerVars, histVars
<1> QED
  BY <1>0, <1>1, <1>2, <1>3, <1>4, <1>5, <1>6, <1>7, <1>8, <1>9, <1>10, <1>11, <1>12,
     <1>13, <1>14, <1>15, <1>16, <1>17, <1>18, <1>19, <1>20 DEF
     Next, Proceed

\* Every step keeps a reason for every parked call.
LEMMA ParkedStep ==
  ASSUME TypeOK, OneHolder, OwedFails, ParkedHasReason, [Next]_vars
  PROVE  ParkedHasReason'
<1>0. 1 .. charge \subseteq Nat /\ 1 .. toFree \subseteq Nat
  BY DEF TypeOK
<1>1. ASSUME NEW n \in Nat, release(n) PROVE ParkedHasReason'
  BY <1>1, ConstantsAssumption DEF release, Freed, Broadcast, TypeOK, OneHolder,
     OwedFails, ParkedHasReason, Failed, None, Errors, Blocked, vars, budgetVars,
     callVars, wakerVars, histVars
<1>2. ASSUME NEW p \in Proc, awaitFast(p) PROVE ParkedHasReason'
  BY <1>2, ConstantsAssumption DEF awaitFast, Enter, TypeOK, OneHolder, OwedFails,
     ParkedHasReason, Failed, None, Errors, Blocked, vars, budgetVars, callVars,
     wakerVars, histVars
<1>3. ASSUME NEW p \in Proc, awaitBlocks(p) PROVE ParkedHasReason'
  BY <1>3, ConstantsAssumption DEF awaitBlocks, Enter, TypeOK, OneHolder, OwedFails,
     ParkedHasReason, Failed, None, Errors, Blocked, vars, budgetVars, callVars,
     wakerVars, histVars
<1>4. ASSUME NEW p \in Proc, add(p) PROVE ParkedHasReason'
  BY <1>4, ConstantsAssumption DEF add, TypeOK, OneHolder, OwedFails, ParkedHasReason,
     Failed, None, Errors, Blocked, vars, budgetVars, callVars, wakerVars, histVars
<1>5. ASSUME NEW p \in Proc, loopFails(p) PROVE ParkedHasReason'
  BY <1>5, ConstantsAssumption DEF loopFails, Return, Failed, TypeOK, OneHolder,
     OwedFails, ParkedHasReason, None, Errors, Blocked, vars, budgetVars, callVars,
     wakerVars, histVars
<1>6. ASSUME NEW p \in Proc, loopAdmits(p) PROVE ParkedHasReason'
  BY <1>6, ConstantsAssumption DEF loopAdmits, Return, Failed, TypeOK, OneHolder,
     OwedFails, ParkedHasReason, None, Errors, Blocked, vars, budgetVars, callVars,
     wakerVars, histVars
<1>7. ASSUME NEW p \in Proc, loopCancelled(p) PROVE ParkedHasReason'
  BY <1>7, ConstantsAssumption DEF loopCancelled, Return, Failed, TypeOK, OneHolder,
     OwedFails, ParkedHasReason, None, Errors, Blocked, vars, budgetVars, callVars,
     wakerVars, histVars
<1>8. ASSUME NEW p \in Proc, loopParks(p) PROVE ParkedHasReason'
  BY <1>8, ConstantsAssumption DEF loopParks, loopWaits, Failed, TypeOK, OneHolder,
     OwedFails, ParkedHasReason, None, Errors, Blocked, vars, budgetVars, callVars,
     wakerVars, histVars
<1>9. ASSUME NEW p \in Proc, loopDrains(p) PROVE ParkedHasReason'
  BY <1>9, ConstantsAssumption DEF loopDrains, loopWaits, Failed, TypeOK, OneHolder,
     OwedFails, ParkedHasReason, None, Errors, Blocked, vars, budgetVars, callVars,
     wakerVars, histVars
<1>10. ASSUME NEW p \in Proc, wake(p) PROVE ParkedHasReason'
  BY <1>10, ConstantsAssumption DEF wake, TypeOK, OneHolder, OwedFails,
     ParkedHasReason, Failed, None, Errors, Blocked, vars, budgetVars, callVars,
     wakerVars, histVars
<1>11. ASSUME NEW p \in Proc, drainFrees(p) PROVE ParkedHasReason'
  BY <1>0, <1>1, <1>11 DEF drainFrees
<1>12. ASSUME NEW p \in Proc, drainSucceeds(p) PROVE ParkedHasReason'
  BY <1>12, ConstantsAssumption DEF drainSucceeds, settle, Broadcast, TypeOK,
     OneHolder, OwedFails, ParkedHasReason, Failed, None, Errors, Blocked, vars,
     budgetVars, callVars, wakerVars, histVars
<1>13. ASSUME NEW p \in Proc, drainAbandoned(p) PROVE ParkedHasReason'
  BY <1>13, ConstantsAssumption DEF drainAbandoned, DrainEnds, settle, Broadcast, Owe,
     TypeOK, OneHolder, OwedFails, ParkedHasReason, Failed, None, Errors, Blocked,
     vars, budgetVars, callVars, wakerVars, histVars
<1>14. ASSUME NEW p \in Proc, drainFails(p) PROVE ParkedHasReason'
  BY <1>14, ConstantsAssumption DEF drainFails, DrainEnds, settle, Broadcast, Owe,
     TypeOK, OneHolder, OwedFails, ParkedHasReason, Failed, None, Errors, Blocked,
     vars, budgetVars, callVars, wakerVars, histVars
<1>15. ASSUME NEW p \in Proc, drainPanics(p) PROVE ParkedHasReason'
  BY <1>15, ConstantsAssumption DEF drainPanics, DrainEnds, settle, Broadcast, Owe,
     TypeOK, OneHolder, OwedFails, ParkedHasReason, Failed, None, Errors, Blocked,
     vars, budgetVars, callVars, wakerVars, histVars
<1>16. ASSUME NEW p \in Proc, wakeOnDone(p) PROVE ParkedHasReason'
  BY <1>16, ConstantsAssumption DEF wakeOnDone, Broadcast, TypeOK, OneHolder,
     OwedFails, ParkedHasReason, Failed, None, Errors, Blocked, vars, budgetVars,
     callVars, wakerVars, histVars
<1>17. ASSUME NEW p \in Proc, Cancel(p) PROVE ParkedHasReason'
  BY <1>17, ConstantsAssumption DEF Cancel, TypeOK, OneHolder, OwedFails,
     ParkedHasReason, Failed, None, Errors, Blocked, vars, budgetVars, callVars,
     wakerVars, histVars
<1>18. CASE wakeTooLate
  BY <1>18, ConstantsAssumption DEF wakeTooLate, Broadcast, TypeOK, OneHolder,
     OwedFails, ParkedHasReason, Failed, None, Errors, Blocked, vars, budgetVars,
     callVars, wakerVars, histVars
<1>19. CASE Done
  BY <1>19, ConstantsAssumption DEF Done, TypeOK, OneHolder, OwedFails,
     ParkedHasReason, Failed, None, Errors, Blocked, vars, budgetVars, callVars,
     wakerVars, histVars
<1>20. CASE UNCHANGED vars
  BY <1>20, ConstantsAssumption DEF TypeOK, OneHolder, OwedFails, ParkedHasReason,
     Failed, None, Errors, Blocked, vars, budgetVars, callVars, wakerVars, histVars
<1> QED
  BY <1>0, <1>1, <1>2, <1>3, <1>4, <1>5, <1>6, <1>7, <1>8, <1>9, <1>10, <1>11, <1>12,
     <1>13, <1>14, <1>15, <1>16, <1>17, <1>18, <1>19, <1>20 DEF
     Next, Proceed

\* Multiplying by a natural number keeps the order.
LEMMA TimesMonotone ==
  ASSUME NEW a \in Nat, NEW b \in Nat, NEW c \in Nat, b <= c
  PROVE  a * b <= a * c /\ a * b \in Nat /\ a * c \in Nat
  OBVIOUS

\* Room moves from what is reserved to what is charged.
LEMMA Carried ==
  ASSUME NEW b \in Nat, NEW d \in Nat, NEW w \in Nat, NEW l \in Int,
         NEW m \in Nat, NEW k \in Nat, d <= b + w, b + m <= l - 1 + k
  PROVE  d + (m - w) <= l - 1 + k
  OBVIOUS

\* A step that admits no call and charges nothing.
LEMMA RoomKept ==
  ASSUME TypeOK, TypeOK', RoomReserved, Admitted' = Admitted, charge' <= charge, peak' = peak
  PROVE  RoomReserved'
<1>1. Cardinality(Admitted) \in Nat
  <2>1. Admitted \subseteq Proc
    BY DEF Admitted
  <2> QED
    BY <2>1, ConstantsAssumption, FS_Subset, FS_CardinalityType
<1>2. MaxCharge * Cardinality(Admitted) \in Nat /\ MaxCharge * peak \in Nat
  BY <1>1, ConstantsAssumption DEF TypeOK
<1> QED
  BY <1>1, <1>2, ConstantsAssumption DEF RoomReserved, TypeOK

\* A step that admits p.
LEMMA RoomAdmits ==
  ASSUME TypeOK, TypeOK', NEW p \in Proc, Limit > 0 => charge < Limit,
         charge' = charge, Admitted' = Admitted \cup {p}, peak' = Peak(p)
  PROVE  RoomReserved'
<1>1. Cardinality(Admitted') \in Nat /\ Cardinality(Admitted') <= peak' /\ peak' \in Nat
  <2>1. Admitted' \subseteq Proc
    BY DEF Admitted
  <2> QED
    BY <2>1, PeakType, ConstantsAssumption, FS_Subset, FS_CardinalityType
<1>2. /\ MaxCharge * Cardinality(Admitted') <= MaxCharge * peak'
      /\ MaxCharge * Cardinality(Admitted') \in Nat
      /\ MaxCharge * peak' \in Nat
  BY <1>1, TimesMonotone, ConstantsAssumption
<1> QED
  BY <1>2, ConstantsAssumption DEF RoomReserved, TypeOK

\* A step in which p charges what it was admitted for.
LEMMA RoomCharges ==
  ASSUME TypeOK, TypeOK', RoomReserved, NEW p \in Proc, add(p)
  PROVE  RoomReserved'
<1>1. Admitted' = Admitted \ {p} /\ p \in Admitted
  BY DEF add, Admitted, TypeOK
<1>2. IsFiniteSet(Admitted)
  <2>1. Admitted \subseteq Proc
    BY DEF Admitted
  <2> QED
    BY <2>1, ConstantsAssumption, FS_Subset
<1> DEFINE c == Cardinality(Admitted)
<1>3. c \in Nat /\ Cardinality(Admitted') = c - 1 /\ Cardinality(Admitted') \in Nat
  BY <1>1, <1>2, FS_CardinalityType, FS_RemoveElement
<1>4. charge' <= charge + MaxCharge /\ peak' = peak
  BY ConstantsAssumption DEF add, TypeOK, histVars
<1> HIDE DEF c
<1>5. MaxCharge * (c - 1) = MaxCharge * c - MaxCharge
  BY <1>3, ConstantsAssumption
<1>6. MaxCharge * c \in Nat /\ MaxCharge * peak \in Nat
  BY <1>3, ConstantsAssumption DEF TypeOK
<1>7. Limit > 0 => charge + MaxCharge * c <= Limit - 1 + MaxCharge * peak
  BY DEF RoomReserved, c
<1>8. Limit > 0 => charge' + (MaxCharge * c - MaxCharge) <= Limit - 1 + MaxCharge * peak
  <2>1. charge \in Nat /\ charge' \in Nat /\ MaxCharge \in Nat /\ Limit \in Int
    BY ConstantsAssumption DEF TypeOK
  <2> QED
    BY <1>4, <1>6, <1>7, <2>1, Carried
<1> QED
  BY <1>3, <1>4, <1>5, <1>8 DEF RoomReserved

\* Every step keeps the room that admitted calls may still fill.
LEMMA RoomStep ==
  ASSUME TypeOK, TypeOK', RoomReserved, [Next]_vars
  PROVE  RoomReserved'
<1>1. ASSUME NEW n \in Nat, release(n) PROVE RoomReserved'
  <2>1. charge' <= charge
    BY <1>1 DEF release, Freed, TypeOK
  <2>2. Admitted' = Admitted /\ peak' = peak
    BY <1>1, ConstantsAssumption DEF release, Broadcast, Admitted, TypeOK
  <2> QED
    BY <2>1, <2>2, RoomKept
<1>2. ASSUME NEW p \in Proc, awaitFast(p) PROVE RoomReserved'
  <2>1. Admitted' = Admitted \cup {p} /\ charge' = charge /\ peak' = Peak(p)
    BY <1>2 DEF awaitFast, Enter, Admitted, TypeOK, budgetVars
  <2>2. Limit > 0 => charge < Limit
    BY <1>2, ConstantsAssumption DEF awaitFast
  <2> QED
    BY <2>1, <2>2, RoomAdmits
<1>3. ASSUME NEW p \in Proc, loopAdmits(p) PROVE RoomReserved'
  <2>1. Admitted' = Admitted \cup {p} /\ charge' = charge /\ peak' = Peak(p)
    BY <1>3 DEF loopAdmits, Admitted, TypeOK, budgetVars
  <2> QED
    BY <1>3, <2>1, RoomAdmits DEF loopAdmits
<1>4. ASSUME NEW p \in Proc, add(p) PROVE RoomReserved'
  BY <1>4, RoomCharges
<1>5. ASSUME NEW p \in Proc, awaitBlocks(p) \/ loopFails(p) \/ loopCancelled(p)
                             \/ loopParks(p) \/ loopDrains(p) \/ wake(p)
      PROVE  RoomReserved'
  <2>1. Admitted' = Admitted /\ charge' = charge /\ peak' = peak
    BY <1>5 DEF awaitBlocks, Enter, loopFails, loopCancelled, loopParks, loopDrains,
       loopWaits, wake, Admitted, TypeOK, budgetVars, histVars
  <2> QED
    BY <2>1, RoomKept DEF TypeOK
<1>6. ASSUME NEW p \in Proc, drainFrees(p) PROVE RoomReserved'
  BY SMTT(60), <1>1, <1>6 DEF drainFrees, TypeOK
<1>7. ASSUME NEW p \in Proc, drainSucceeds(p) \/ drainAbandoned(p) \/ drainFails(p)
                             \/ drainPanics(p)
      PROVE  RoomReserved'
  <2>1. Admitted' = Admitted /\ charge' = charge /\ peak' = peak
    BY <1>7 DEF drainSucceeds, drainAbandoned, drainFails, drainPanics, DrainEnds,
       Broadcast, Admitted, TypeOK, histVars
  <2> QED
    BY <2>1, RoomKept DEF TypeOK
<1>8. ASSUME NEW p \in Proc, wakeOnDone(p) \/ Cancel(p) PROVE RoomReserved'
  <2>1. Admitted' = Admitted /\ charge' = charge /\ peak' = peak
    <3>1. CASE wakeOnDone(p)
      BY <3>1, ConstantsAssumption DEF wakeOnDone, Cancel, Broadcast, Admitted,
         TypeOK, budgetVars, histVars
    <3>2. CASE Cancel(p)
      BY <3>2 DEF wakeOnDone, Cancel, Broadcast, Admitted, TypeOK, budgetVars,
         histVars
    <3> QED
      BY <1>8, <3>1, <3>2
  <2> QED
    BY <2>1, RoomKept DEF TypeOK
<1>9. CASE wakeTooLate \/ Done \/ UNCHANGED vars
  <2>1. Admitted' = Admitted /\ charge' = charge /\ peak' = peak
    <3>1. CASE wakeTooLate
      BY <3>1, ConstantsAssumption DEF wakeTooLate, Done, Broadcast, Admitted, TypeOK,
         budgetVars, histVars, vars
    <3>2. CASE Done
      BY <3>2 DEF wakeTooLate, Done, Broadcast, Admitted, TypeOK, budgetVars,
         histVars, vars
    <3>3. CASE UNCHANGED vars
      BY <3>3 DEF wakeTooLate, Done, Broadcast, Admitted, TypeOK, budgetVars,
         histVars, vars
    <3> QED
      BY <1>9, <3>1, <3>2, <3>3
  <2> QED
    BY <2>1, RoomKept DEF TypeOK
<1> QED
  BY <1>1, <1>2, <1>3, <1>4, <1>5, <1>6, <1>7, <1>8, <1>9 DEF Next, Proceed, TypeOK

\* The empty budget satisfies the inductive invariant.
LEMMA InductiveInit == Init => Inductive
<1> SUFFICES ASSUME Init PROVE Inductive
  OBVIOUS
<1>1. TypeOK
  <2>1. charge \in Nat /\ ended \in Nat /\ failedAt \in 0 .. ended /\ calls \in 0 .. MaxCalls
        /\ toFree \in Nat /\ peak \in Nat /\ start \in [Proc -> Nat]
    BY ConstantsAssumption DEF Init
  <2> QED
    BY Zenon, <2>1 DEF Init, TypeOK, None, Errors, Blocked
<1>2. OneHolder /\ ParkedHasReason
  BY ConstantsAssumption DEF Init, OneHolder, ParkedHasReason
<1>3. OwedFails
  BY DEF Init, OwedFails
<1>4. Admitted = {}
  BY DEF Init, Admitted
<1>5. RoomReserved
  BY <1>4, FS_EmptySet, ConstantsAssumption DEF Init, RoomReserved
<1> QED
  BY <1>1, <1>2, <1>3, <1>5 DEF Inductive

\* Every step of a write, a drain or a release keeps it.
LEMMA InductiveStep == Inductive /\ [Next]_vars => Inductive'
  BY TypeStep, HolderStep, OwedStep, ParkedStep, RoomStep DEF Inductive

\* So it holds in every state.
LEMMA InductiveAlways == Spec => []Inductive
  BY InductiveInit, InductiveStep, PTL DEF Spec

\* The budget's counters and every call's place in await keep their types.
THEOREM TypeCorrect == Spec => []TypeOK
<1>1. Inductive => TypeOK
  BY DEF Inductive
<1> QED
  BY <1>1, InductiveAlways, PTL

\* No wake-up of await's condition variable is lost, for any number of
\* threads: a parked call always has another call's drain to wait for.
THEOREM NoLostWakeup == Spec => []ParkedHasReason
<1>1. Inductive => ParkedHasReason
  BY DEF Inductive
<1> QED
  BY <1>1, InductiveAlways, PTL

\* The charge exceeds the limit by at most what the calls once admitted
\* together could add.
THEOREM ChargeIsBounded == Spec => []ChargeBounded
<1>1. Inductive => ChargeBounded
  <2> SUFFICES ASSUME Inductive PROVE ChargeBounded
    OBVIOUS
  <2>1. Cardinality(Admitted) \in Nat
    <3>1. Admitted \subseteq Proc
      BY DEF Admitted
    <3> QED
      BY <3>1, ConstantsAssumption, FS_Subset, FS_CardinalityType
  <2>2. MaxCharge * Cardinality(Admitted) \in Nat /\ MaxCharge * peak \in Nat
    BY <2>1, ConstantsAssumption DEF Inductive, TypeOK
  <2> QED
    BY <2>2, ConstantsAssumption DEF Inductive, TypeOK, RoomReserved, ChargeBounded
<1> QED
  BY <1>1, InductiveAlways, PTL

\* G2: a failed drain reaches every call that was parked when it failed.
THEOREM FailuresReachParked == Spec => FailureReachesParked
<1> DEFINE Reached ==
      \A p \in Proc : owed[p] /\ pc'[p] \in {"idle", "admitted"} => result'[p] \in Errors
<1>1. Inductive /\ [Next]_vars => [Reached]_vars
  <2> SUFFICES ASSUME Inductive, Next, NEW p \in Proc, owed[p],
                      pc'[p] \in {"idle", "admitted"}
               PROVE  result'[p] \in Errors
    OBVIOUS
  <2>1. pc[p] \in {"woken", "loop"} /\ Failed(p) /\ TypeOK /\ OneHolder
    BY SMTT(60) DEF Inductive, OwedFails
  <2>2. ASSUME NEW n \in Nat, release(n) PROVE FALSE
    BY <2>1, <2>2, ConstantsAssumption DEF release, Broadcast
  <2>3. ASSUME NEW q \in Proc, awaitFast(q) \/ awaitBlocks(q) \/ add(q) \/ wake(q)
                               \/ wakeOnDone(q) \/ Cancel(q)
        PROVE  FALSE
    BY <2>1, <2>3, ConstantsAssumption DEF awaitFast, awaitBlocks, Enter, add, wake,
       wakeOnDone, Cancel,
       Broadcast, TypeOK
  <2>4. ASSUME NEW q \in Proc, loopFails(q) PROVE result'[p] \in Errors
    BY <2>1, <2>4 DEF loopFails, Return, Failed, TypeOK, None
  <2>5. ASSUME NEW q \in Proc, loopAdmits(q) \/ loopCancelled(q) \/ loopParks(q)
                               \/ loopDrains(q)
        PROVE  FALSE
    BY <2>1, <2>5 DEF loopAdmits, loopCancelled, loopParks, loopDrains, loopWaits,
       TypeOK
  <2>6. ASSUME NEW q \in Proc, drainSucceeds(q) \/ drainAbandoned(q) \/ drainFails(q)
                               \/ drainPanics(q)
        PROVE  FALSE
    BY <2>1, <2>6 DEF drainSucceeds, drainAbandoned, drainFails, drainPanics,
       DrainEnds,
       Broadcast, TypeOK
  <2>7. ~wakeTooLate /\ ~Done
    BY <2>1, ConstantsAssumption DEF wakeTooLate, Done, Broadcast, vars
  <2> QED
    BY <2>1, <2>2, <2>3, <2>4, <2>5, <2>6, <2>7 DEF Next, Proceed, drainFrees, TypeOK
<1> QED
  BY <1>1, InductiveAlways, PTL DEF Spec, FailureReachesParked

\* A drainer that is cut short fails no call but its own.
THEOREM CancellationsAreOwn == Spec => []CancellationIsOwn
<1>1. Init => CancellationIsOwn
  BY SMTT(60) DEF Init, CancellationIsOwn
<1>2. Inductive /\ CancellationIsOwn /\ [Next]_vars => CancellationIsOwn'
  <2> SUFFICES ASSUME Inductive, CancellationIsOwn, [Next]_vars, NEW p \in Proc,
                      result'[p] = "cancelled"
               PROVE  cancelled'[p] \/ pc'[p] \in Blocked
    BY DEF CancellationIsOwn
  <2>0. TypeOK /\ OneHolder
    BY DEF Inductive
  <2> USE <2>0, ConstantsAssumption DEF CancellationIsOwn, TypeOK, Blocked, Errors
  <2>1. ASSUME NEW n \in Nat, release(n) PROVE cancelled'[p] \/ pc'[p] \in Blocked
    BY <2>1 DEF release, Broadcast, callVars
  <2>2. ASSUME NEW q \in Proc, awaitFast(q) \/ awaitBlocks(q)
        PROVE  cancelled'[p] \/ pc'[p] \in Blocked
    BY <2>2 DEF awaitFast, awaitBlocks, Enter, histVars
  <2>3. ASSUME NEW q \in Proc, add(q) \/ Cancel(q) \/ wake(q) \/ wakeOnDone(q)
        PROVE  cancelled'[p] \/ pc'[p] \in Blocked
    BY <2>3 DEF add, Cancel, wake, wakeOnDone, Broadcast, callVars, histVars
  <2>4. ASSUME NEW q \in Proc, loopFails(q) \/ loopAdmits(q) \/ loopCancelled(q)
        PROVE  cancelled'[p] \/ pc'[p] \in Blocked
    BY <2>4 DEF loopFails, loopAdmits, loopCancelled, Return, Failed, callVars
  <2>5. ASSUME NEW q \in Proc, loopParks(q) \/ loopDrains(q)
        PROVE  cancelled'[p] \/ pc'[p] \in Blocked
    BY <2>5 DEF loopParks, loopDrains, loopWaits, callVars, histVars
  <2>6. ASSUME NEW q \in Proc, drainSucceeds(q)
        PROVE  cancelled'[p] \/ pc'[p] \in Blocked
    BY <2>6 DEF drainSucceeds, Broadcast, callVars, histVars
  <2>7. ASSUME NEW q \in Proc, drainAbandoned(q) \/ drainFails(q) \/ drainPanics(q)
        PROVE  cancelled'[p] \/ pc'[p] \in Blocked
    BY <2>7 DEF drainAbandoned, drainFails, drainPanics, DrainEnds, Broadcast, callVars
  <2>8. ASSUME wakeTooLate \/ Done \/ UNCHANGED vars
        PROVE  cancelled'[p] \/ pc'[p] \in Blocked
    BY <2>8 DEF wakeTooLate, Done, Broadcast, vars, callVars, histVars
  <2>9. 1 .. charge \subseteq Nat /\ 1 .. toFree \subseteq Nat
    OBVIOUS
  <2> QED
    BY Zenon, <2>1, <2>2, <2>3, <2>4, <2>5, <2>6, <2>7, <2>8, <2>9
       DEF Next, Proceed, drainFrees
<1> QED
  BY <1>1, <1>2, InductiveAlways, PTL DEF Spec
=============================================================================
