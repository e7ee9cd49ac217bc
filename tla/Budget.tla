-------------------------------- MODULE Budget --------------------------------
(***************************************************************************)
(* The write-backpressure budget of internal/blobfs/budget.go: a count of  *)
(* the buffer capacity held by unflushed writes, and the wait a write      *)
(* performs once the count has reached its limit.  One of the waiting      *)
(* calls is elected to run the drain (FS.Sync); the others park.           *)
(*                                                                         *)
(* What is abstracted.                                                     *)
(*  - A hold of budget.mu is one step, except in the loop of await, where  *)
(*    mu names the call that goes round it.                                *)
(*  - Capacity is counted in chunks.  Who frees it, and how the charge     *)
(*    follows the buffers, is module FileData's.                           *)
(*  - FS.Sync frees what was charged when it began, or fails, or panics,   *)
(*    or is cut short by its context.  How is modules FileData's and       *)
(*    RootCommit's.                                                        *)
(*  - The log records and the timer of the Warn record are left out.       *)
(***************************************************************************)
EXTENDS Integers, FiniteSets

CONSTANTS
  Proc,       \* threads that make writes
  Nobody,     \* the holder of a free mutex
  Limit,      \* budget.maxBytes; zero or less disables waiting
  MaxCharge,  \* the most capacity one write can add
  MaxCalls    \* how many writes are made in all

ASSUME ConstantsAssumption ==
  /\ Nobody \notin Proc
  /\ IsFiniteSet(Proc)
  /\ Limit \in Int
  /\ MaxCharge \in Nat
  /\ MaxCalls \in Nat

None == "none"
Errors == {"failed", "panicked"}
Blocked == {"loop", "parked", "woken", "draining"}

VARIABLES
  mu,         \* budget.mu
  charge,     \* budget.charge
  draining,   \* budget.draining
  ended,      \* budget.ended
  failure,    \* budget.failure
  failedAt,   \* budget.failedAt
  pc,         \* where each thread is: idle, in await, or admitted by it
  start,      \* each await call's start
  cancelled,  \* whether each call's context is done
  waker,      \* each call's stopWake: registered and not yet run
  lateWaker,  \* a callback that had begun when its call returned
  calls,
  \* history
  toFree,     \* what the drain has yet to free of the charge it began with
  owed,       \* a drain failed while the call was parked
  result,     \* what each thread's latest call returned
  peak        \* the most calls ever admitted and not yet charged at once

budgetVars == <<charge, draining, ended, failure, failedAt>>
callVars == <<start, cancelled, calls>>
wakerVars == <<waker, lateWaker>>
histVars == <<toFree, owed, result, peak>>
vars == <<mu, budgetVars, pc, callVars, wakerVars, histVars>>

Init ==
  /\ mu = Nobody
  /\ charge = 0
  /\ draining = FALSE
  /\ ended = 0
  /\ failure = None
  /\ failedAt = 0
  /\ pc = [p \in Proc |-> "idle"]
  /\ start = [p \in Proc |-> 0]
  /\ cancelled = [p \in Proc |-> FALSE]
  /\ waker = [p \in Proc |-> FALSE]
  /\ lateWaker = FALSE
  /\ calls = 0
  /\ toFree = 0
  /\ owed = [p \in Proc |-> FALSE]
  /\ result = [p \in Proc |-> "nil"]
  /\ peak = 0

-----------------------------------------------------------------------------
(* add and release                                                           *)

\* cond.Broadcast, in a step after which thread p, if any, is at l.
Broadcast(p, l) ==
  pc' = [q \in Proc |-> IF q = p THEN l
                        ELSE IF pc[q] = "parked" THEN "woken" ELSE pc[q]]

Admitted == {p \in Proc : pc[p] = "admitted"}

\* bufferWrite of an admitted call charges the buffers it allocated.
add(p) ==
  /\ pc[p] = "admitted"
  /\ mu = Nobody
  /\ \E n \in 0 .. MaxCharge : charge' = charge + n
  /\ pc' = [pc EXCEPT ![p] = "idle"]
  /\ UNCHANGED <<mu, draining, ended, failure, failedAt, callVars, wakerVars, histVars>>

Freed(n) ==
  /\ charge' = charge - n
  /\ toFree' = IF n < toFree THEN toFree - n ELSE 0

\* Mutant: only room for a write is worth a wake-up, and one wakes for it.
releaseSignals(n) ==
  /\ mu = Nobody
  /\ n \in 1 .. charge
  /\ Freed(n)
  /\ \/ \E q \in Proc : pc[q] = "parked" /\ pc' = [pc EXCEPT ![q] = "woken"]
     \/ (\A q \in Proc : pc[q] # "parked") /\ UNCHANGED pc
  /\ UNCHANGED <<mu, draining, ended, failure, failedAt, callVars, wakerVars, owed,
                 result, peak>>

\* A flush, a truncate, an unlink or a failed write gives capacity back.
release(n) ==
  /\ mu = Nobody
  /\ n \in 1 .. charge
  /\ Freed(n)
  /\ Broadcast(Nobody, "idle")
  /\ UNCHANGED <<mu, draining, ended, failure, failedAt, callVars, wakerVars, owed,
                 result, peak>>

-----------------------------------------------------------------------------
(* await                                                                     *)

Enter(p) ==
  /\ pc[p] = "idle"
  /\ mu = Nobody
  /\ calls < MaxCalls
  /\ calls' = calls + 1
  /\ cancelled' = [cancelled EXCEPT ![p] = FALSE]

\* The call leaves await, with r.  A callback that stopWake is too late to
\* stop still broadcasts.
Return(p, r) ==
  /\ mu' = Nobody
  /\ result' = [result EXCEPT ![p] = r]
  /\ owed' = [owed EXCEPT ![p] = FALSE]
  /\ waker' = [waker EXCEPT ![p] = FALSE]
  /\ lateWaker' \in {lateWaker, lateWaker \/ (waker[p] /\ cancelled[p])}

\* The peak after thread p is admitted.
Peak(p) == LET n == Cardinality(Admitted \cup {p}) IN IF n > peak THEN n ELSE peak

awaitFast(p) ==
  /\ Enter(p)
  /\ Limit <= 0 \/ charge < Limit
  /\ pc' = [pc EXCEPT ![p] = "admitted"]
  /\ result' = [result EXCEPT ![p] = "nil"]
  /\ peak' = Peak(p)
  /\ UNCHANGED <<mu, budgetVars, start, wakerVars, toFree, owed>>

awaitBlocks(p) ==
  /\ Enter(p)
  /\ ~(Limit <= 0 \/ charge < Limit)
  /\ start' = [start EXCEPT ![p] = ended]
  /\ mu' = p
  /\ pc' = [pc EXCEPT ![p] = "loop"]
  /\ UNCHANGED <<budgetVars, wakerVars, histVars>>

Failed(p) == failure # None /\ failedAt > start[p]

loopFails(p) ==
  /\ pc[p] = "loop"
  /\ Failed(p)
  /\ Return(p, failure)
  /\ pc' = [pc EXCEPT ![p] = "idle"]
  /\ UNCHANGED <<budgetVars, callVars, toFree, peak>>

loopAdmits(p) ==
  /\ pc[p] = "loop"
  /\ ~Failed(p)
  /\ charge < Limit
  /\ Return(p, "nil")
  /\ pc' = [pc EXCEPT ![p] = "admitted"]
  /\ peak' = Peak(p)
  /\ UNCHANGED <<budgetVars, callVars, toFree>>

loopCancelled(p) ==
  /\ pc[p] = "loop"
  /\ ~Failed(p)
  /\ charge >= Limit
  /\ cancelled[p]
  /\ Return(p, "cancelled")
  /\ pc' = [pc EXCEPT ![p] = "idle"]
  /\ UNCHANGED <<budgetVars, callVars, toFree, peak>>

\* The context is not done and there is no room.
loopWaits(p) ==
  /\ pc[p] = "loop"
  /\ ~Failed(p)
  /\ charge >= Limit
  /\ ~cancelled[p]
  /\ mu' = Nobody

loopParks(p) ==
  /\ loopWaits(p)
  /\ draining
  /\ waker' = [waker EXCEPT ![p] = TRUE]
  /\ pc' = [pc EXCEPT ![p] = "parked"]
  /\ UNCHANGED <<budgetVars, callVars, lateWaker, histVars>>

loopDrains(p) ==
  /\ loopWaits(p)
  /\ ~draining
  /\ draining' = TRUE
  /\ toFree' = charge
  /\ pc' = [pc EXCEPT ![p] = "draining"]
  /\ UNCHANGED <<charge, ended, failure, failedAt, callVars, wakerVars, owed, result,
                 peak>>

\* Cond.Wait relocks mu and the call goes round again.
wake(p) ==
  /\ pc[p] = "woken"
  /\ mu = Nobody
  /\ mu' = p
  /\ pc' = [pc EXCEPT ![p] = "loop"]
  /\ UNCHANGED <<budgetVars, callVars, wakerVars, histVars>>

\* context.AfterFunc's callback.
wakeOnDone(p) ==
  /\ waker[p]
  /\ cancelled[p]
  /\ mu = Nobody
  /\ waker' = [waker EXCEPT ![p] = FALSE]
  /\ Broadcast(Nobody, "idle")
  /\ UNCHANGED <<mu, budgetVars, callVars, lateWaker, histVars>>

wakeTooLate ==
  /\ lateWaker
  /\ mu = Nobody
  /\ lateWaker' = FALSE
  /\ Broadcast(Nobody, "idle")
  /\ UNCHANGED <<mu, budgetVars, callVars, waker, histVars>>

-----------------------------------------------------------------------------
(* The drain                                                                 *)

\* Mutant: only the latest drain's result is kept.
settleLatest(f) ==
  /\ draining' = FALSE
  /\ ended' = ended + 1
  /\ failure' = f
  /\ failedAt' = ended + 1

settle(f) ==
  /\ draining' = FALSE
  /\ ended' = ended + 1
  /\ failure' = IF f = None THEN failure ELSE f
  /\ failedAt' = IF f = None THEN failedAt ELSE ended + 1

\* A failure is owed to the calls parked when it is settled, the woken ones
\* that have not relocked mu included.
Owe == [q \in Proc |-> owed[q] \/ pc[q] \in {"parked", "woken"}]

\* The drain flushes a file.
drainFrees(p) ==
  /\ pc[p] = "draining"
  /\ \E n \in 1 .. toFree : release(n)

\* Mutant: a drain that succeeds admits the call that ran it.
drainSucceedsAdmits(p) ==
  /\ pc[p] = "draining"
  /\ mu = Nobody
  /\ toFree = 0
  /\ settle(None)
  /\ mu' = Nobody
  /\ Broadcast(p, "admitted")
  /\ peak' = Peak(p)
  /\ result' = [result EXCEPT ![p] = "nil"]
  /\ UNCHANGED <<charge, callVars, wakerVars, toFree, owed>>

\* It goes round the loop like any other call, mu held.
drainSucceeds(p) ==
  /\ pc[p] = "draining"
  /\ mu = Nobody
  /\ toFree = 0
  /\ settle(None)
  /\ mu' = p
  /\ Broadcast(p, "loop")
  /\ UNCHANGED <<charge, callVars, wakerVars, histVars>>

\* The drain ends otherwise: the call leaves await with r, having settled f.
DrainEnds(p, f, r) ==
  /\ pc[p] = "draining"
  /\ mu = Nobody
  /\ settle(f)
  /\ mu' = Nobody
  /\ Broadcast(p, "idle")
  /\ result' = [result EXCEPT ![p] = r]
  /\ owed' = IF f = None THEN owed ELSE [Owe EXCEPT ![p] = FALSE]
  /\ waker' = [waker EXCEPT ![p] = FALSE]
  /\ lateWaker' \in {lateWaker, lateWaker \/ (waker[p] /\ cancelled[p])}
  /\ toFree' = 0
  /\ UNCHANGED <<charge, callVars, peak>>

\* Mutant: the drainer's own cancellation is published as a failure.
drainAbandonedPublishes(p) == cancelled[p] /\ DrainEnds(p, "cancelled", "cancelled")

drainAbandoned(p) == cancelled[p] /\ DrainEnds(p, None, "cancelled")
drainFails(p) == ~cancelled[p] /\ DrainEnds(p, "failed", "failed")

\* Mutant: a panic in the drain leaves the in-progress mark set.
drainPanicsUnsettled(p) ==
  /\ pc[p] = "draining"
  /\ pc' = [pc EXCEPT ![p] = "idle"]
  /\ result' = [result EXCEPT ![p] = "panicked"]
  /\ UNCHANGED <<mu, budgetVars, callVars, wakerVars, toFree, owed, peak>>

\* The deferred settle; the panic goes on to dispatch.
drainPanics(p) == DrainEnds(p, "panicked", "panicked")

-----------------------------------------------------------------------------
Cancel(p) ==
  /\ pc[p] \in Blocked
  /\ ~cancelled[p]
  /\ cancelled' = [cancelled EXCEPT ![p] = TRUE]
  /\ UNCHANGED <<mu, budgetVars, pc, start, calls, wakerVars, histVars>>

\* What a thread does once it has made a call.
Proceed(p) ==
  \/ add(p)
  \/ loopFails(p) \/ loopAdmits(p) \/ loopCancelled(p)
  \/ loopParks(p) \/ loopDrains(p) \/ wake(p)
  \/ drainFrees(p) \/ drainSucceeds(p)
  \/ drainAbandoned(p) \/ drainFails(p) \/ drainPanics(p)

Done ==
  /\ calls = MaxCalls
  /\ \A p \in Proc : pc[p] = "idle"
  /\ UNCHANGED vars

Next ==
  \/ \E p \in Proc : awaitFast(p) \/ awaitBlocks(p) \/ Proceed(p)
                     \/ wakeOnDone(p) \/ Cancel(p)
  \/ \E n \in 1 .. charge : release(n)
  \/ wakeTooLate
  \/ Done

Spec == Init /\ [][Next]_vars

\* Threads that can run do, callbacks included, and FS.Sync returns, which
\* its store calls do.  Nothing else frees capacity of its own accord.
FairSpec ==
  /\ Spec
  /\ \A p \in Proc : WF_vars(Proceed(p)) /\ WF_vars(wakeOnDone(p))

-----------------------------------------------------------------------------
(* Properties                                                                *)

TypeOK ==
  /\ mu \in Proc \cup {Nobody}
  /\ charge \in Nat
  /\ draining \in BOOLEAN
  /\ ended \in Nat
  /\ failure \in {None} \cup Errors
  /\ failedAt \in 0 .. ended
  /\ pc \in [Proc -> Blocked \cup {"idle", "admitted"}]
  /\ start \in [Proc -> Nat]
  /\ cancelled \in [Proc -> BOOLEAN]
  /\ waker \in [Proc -> BOOLEAN]
  /\ lateWaker \in BOOLEAN
  /\ calls \in 0 .. MaxCalls
  /\ toFree \in Nat
  /\ owed \in [Proc -> BOOLEAN]
  /\ result \in [Proc -> {"nil", "cancelled"} \cup Errors]
  /\ peak \in Nat

\* No wake-up is lost.  A call that sleeps on the condition variable has a
\* reason to: another call's drain is running and will end in a broadcast,
\* there is no room, no drain has failed since the call began, and if its
\* context is done the callback that wakes it is still to come.
ParkedHasReason ==
  \A p \in Proc : pc[p] = "parked" =>
    /\ draining /\ \E q \in Proc : pc[q] = "draining"
    /\ charge >= Limit
    /\ ~Failed(p)
    /\ cancelled[p] => waker[p]

\* The bound of ADR 0003: the charge exceeds the limit by no more than the
\* calls that were ever admitted together, and had yet to charge, could add.
ChargeBounded == Limit > 0 => charge <= Limit - 1 + MaxCharge * peak

\* G2: a call parked when a drain fails or panics does not return nil, nor
\* its own cancellation, however much was freed and however many drains have
\* succeeded by the time it runs: it returns a drain's failure.
FailureReachesParked ==
  [][\A p \in Proc : owed[p] /\ pc'[p] \in {"idle", "admitted"} => result'[p] \in Errors]_vars

\* A call returns a cancellation only if its own context is done: a drainer
\* that is cut short does not fail the calls that wait for it.
CancellationIsOwn == \A p \in Proc : result[p] = "cancelled" => cancelled[p] \/ pc[p] \in Blocked

\* Every call leaves await: the in-progress mark never outlives its drain,
\* not even when that panics, and some call always takes the drain up.
AwaitReturns == \A p \in Proc : pc[p] \in Blocked ~> pc[p] \notin Blocked
=============================================================================
