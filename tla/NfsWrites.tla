------------------------------- MODULE NfsWrites -------------------------------
(***************************************************************************)
(* A WRITE from the client's page cache to the bucket: the WRITE and       *)
(* COMMIT handlers (internal/nfs/nfs3.go), FS.Write, FS.Commit and Sync    *)
(* (internal/blobfs), the committer, and the life of the process from New  *)
(* to the final commit (cmd/strata/main.go), with its crashes.             *)
(*                                                                         *)
(* The client may forget a page only when the server has said that it is   *)
(* stable, or has answered a COMMIT with the verifier it gave the WRITE.   *)
(*                                                                         *)
(* What is abstracted.                                                     *)
(*  - The file is a set of blocks; its contents are the number of the last *)
(*    application write to each.  A WRITE carries one block.               *)
(*  - Of the commit: what a seal fixed becomes durable, or the commit      *)
(*    fails with the root pointer replaced or not (module RootCommit).     *)
(*    Files have no trims here (module FileData).                          *)
(*  - The verifier is random (New); it is the number of the process, which *)
(*    no other process has.                                                *)
(*  - A request is in the client until a goroutine takes it and a reply    *)
(*    reaches the client in the step that produces it, or is lost.         *)
(*  - The drain that a WRITE over budget runs (module Budget) is a Sync     *)
(*    like the committer's, and is left to it.                             *)
(***************************************************************************)
EXTENDS Integers, FiniteSets

CONSTANTS
  Block,        \* the blocks of the file
  Thread,       \* goroutines that serve requests
  Committer,    \* the goroutine of FS.Run
  Main,         \* the goroutine of run, which makes the final commit
  Nobody,       \* the holder of a free lock
  Hows,         \* the stability clients ask for
  MaxWrites,    \* how many times the application writes a block
  MaxFaults,    \* how many times the process is stopped, a store call fails
                \* while it serves, or a reply is lost, in all
  MaxOverlaps   \* how many requests are sent again while they execute

ASSUME ConstantsAssumption ==
  /\ Committer \notin Thread /\ Main \notin Thread /\ Committer # Main
  /\ Nobody \notin Thread \cup {Committer, Main}
  /\ Hows \subseteq {"unstable", "fileSync"}
  /\ MaxWrites \in Nat /\ MaxFaults \in Nat /\ MaxOverlaps \in Nat

Proc == Thread \cup {Committer, Main}
NoBlock == 0            \* what no buffer holds, and what no write has number
NoJob == [kind |-> "none"]
WriteJob(b, v, how) == [kind |-> "write", block |-> b, ver |-> v, how |-> how]
CommitJob == [kind |-> "commit"]

VARIABLES
  durable,        \* the file as the root pointer's snapshot has it
  \* the process
  phase,          \* "down", "serving", or "stopping" once serving has ended
  boot,           \* which process it is: FS.writeVerf
  inodes,         \* the file as the chunk list has it
  buffered,       \* openFile.dirty
  dirty, changes, commitMu, sealed, sealedChanges,
  pc, job,        \* of each goroutine
  awaited,        \* goroutines whose reply the client waits for
  \* the client
  page,           \* what it knows of each block
  ver,            \* the number of the last write to each block
  verf,           \* the verifier of each block's last WRITE reply
  asked,          \* the WRITE each "sent" block waits for
  committing,     \* whether it waits for a COMMIT
  writes, faults, overlaps,
  atStop          \* history: what the file held when serving ended

memVars == <<inodes, buffered, dirty, changes>>
commitVars == <<commitMu, sealed, sealedChanges>>
procVars == <<pc, job, awaited>>
pageVars == <<page, ver, verf, asked>>
clientVars == <<pageVars, committing>>
countVars == <<writes, faults, overlaps>>
vars == <<durable, phase, boot, memVars, commitVars, procVars, clientVars,
          countVars, atStop>>

\* What a read of a block returns.
Held == [b \in Block |-> IF buffered[b] # NoBlock THEN buffered[b] ELSE inodes[b]]

NothingBuffered == [b \in Block |-> NoBlock]

Init ==
  /\ durable = [b \in Block |-> 0]
  /\ phase = "down"
  /\ boot = 0
  /\ inodes = durable
  /\ buffered = NothingBuffered
  /\ dirty = FALSE
  /\ changes = 0
  /\ commitMu = Nobody
  /\ sealed = NothingBuffered
  /\ sealedChanges = 0
  /\ pc = [p \in Proc |-> "idle"]
  /\ job = [p \in Proc |-> NoJob]
  /\ awaited = {}
  /\ page = [b \in Block |-> "clean"]
  /\ ver = durable
  /\ verf = durable
  /\ asked = [b \in Block |-> NoJob]
  /\ committing = FALSE
  /\ writes = 0 /\ faults = 0 /\ overlaps = 0
  /\ atStop = NothingBuffered

Goto(p, label) == pc' = [pc EXCEPT ![p] = label]

Fault == faults < MaxFaults /\ faults' = faults + 1

\* A store call fails.  Once serving has ended the context of every handler
\* is cancelled, so any of theirs may.
Failure == IF phase = "serving" THEN Fault ELSE UNCHANGED faults

markDirty == dirty' = TRUE /\ changes' = changes + 1

-----------------------------------------------------------------------------
(* The client: one page for each block, written back by WRITE and COMMIT     *)

\* The application writes a block.  A page being written back is waited for.
AppWrite(b) ==
  /\ page[b] # "sent"
  /\ writes < MaxWrites
  /\ writes' = writes + 1
  /\ ver' = [ver EXCEPT ![b] = writes']
  /\ page' = [page EXCEPT ![b] = "dirty"]
  /\ UNCHANGED <<durable, phase, boot, memVars, commitVars, procVars, verf, asked,
                 committing, faults, overlaps, atStop>>

SendWrite(b, how) ==
  /\ page[b] = "dirty"
  /\ page' = [page EXCEPT ![b] = "sent"]
  /\ asked' = [asked EXCEPT ![b] = WriteJob(b, ver[b], how)]
  /\ UNCHANGED <<durable, phase, boot, memVars, commitVars, procVars, ver, verf,
                 committing, countVars, atStop>>

\* A COMMIT covers the pages whose WRITE was answered before it is sent.
SendCommit ==
  /\ ~committing
  /\ \E b \in Block : page[b] = "unstable"
  /\ committing' = TRUE
  /\ page' = [b \in Block |-> IF page[b] = "unstable" THEN "committing" ELSE page[b]]
  /\ UNCHANGED <<durable, phase, boot, memVars, commitVars, procVars, ver, verf,
                 asked, countVars, atStop>>

\* What the client does with a reply.  An error is reported to the
\* application, which is then told that its data may be lost.
Told(j, outcome) ==
  \/ /\ j.kind = "write"
     /\ page' = [page EXCEPT ![j.block] = CASE outcome = "error" -> "failed"
                                            [] outcome = "fileSync" -> "clean"
                                            [] OTHER -> "unstable"]
     /\ verf' = [verf EXCEPT ![j.block] = boot]
     /\ asked' = [asked EXCEPT ![j.block] = NoJob]
     /\ UNCHANGED <<ver, committing>>
  \/ /\ j.kind = "commit"
     /\ page' = [b \in Block |->
                   IF page[b] # "committing" THEN page[b]
                   ELSE IF outcome = "error" THEN "failed"
                   ELSE IF verf[b] = boot THEN "clean" ELSE "dirty"]
     /\ committing' = FALSE
     /\ UNCHANGED <<ver, verf, asked>>

\* The requests that wait for a reply, and the goroutines that execute one.
Requests == {asked[b] : b \in {x \in Block : page[x] = "sent"}}
            \cup (IF committing THEN {CommitJob} ELSE {})
Executing(j) == {t \in awaited : job[t] = j}

-----------------------------------------------------------------------------
(* The handlers.  WRITE and COMMIT are Idempotent, so dispatch executes every *)
(* copy of a request it is sent.                                              *)

\* serveConn goes on reading from its connection once serving has ended.
Receive(t, j) ==
  /\ phase # "down"
  /\ pc[t] = "idle"
  /\ j \in Requests
  /\ IF Executing(j) = {} THEN UNCHANGED overlaps
     ELSE overlaps < MaxOverlaps /\ overlaps' = overlaps + 1
  /\ job' = [job EXCEPT ![t] = j]
  /\ awaited' = awaited \cup {t}
  /\ Goto(t, IF j.kind = "write" THEN "Write" ELSE "commitFile")
  /\ UNCHANGED <<durable, phase, boot, memVars, commitVars, clientVars, writes,
                 faults, atStop>>

\* The reply is written, and reaches the client or is lost.
Reply(t, outcome) ==
  /\ Goto(t, "idle")
  /\ job' = [job EXCEPT ![t] = NoJob]
  /\ \/ /\ t \in awaited
        /\ Told(job[t], outcome)
        /\ awaited' = awaited \ Executing(job[t])
        /\ UNCHANGED faults
     \/ /\ t \in awaited
        /\ Fault
        /\ awaited' = awaited \ {t}
        /\ UNCHANGED clientVars
     \/ /\ t \notin awaited
        /\ UNCHANGED <<awaited, clientVars, faults>>
  /\ UNCHANGED <<durable, phase, boot, memVars, commitVars, writes, overlaps,
                 atStop>>

\* FS.Write, past its checks and its wait for the budget: bufferWrite, and
\* then syncFileAndNamespace if the client asked for stability.
bufferWrite(t) ==
  /\ pc[t] = "Write"
  /\ buffered' = [buffered EXCEPT ![job[t].block] = job[t].ver]
  /\ markDirty
  /\ Goto(t, IF job[t].how = "fileSync" THEN "commitFile" ELSE "buffered")
  /\ UNCHANGED <<durable, phase, boot, inodes, commitVars, job, awaited, clientVars,
                 countVars, atStop>>

\* The mount refuses the write, the wait for the budget fails, or a fetch.
WriteFails(t) ==
  /\ pc[t] = "Write"
  /\ Failure
  /\ Goto(t, "failed")
  /\ UNCHANGED <<durable, phase, boot, memVars, commitVars, job, awaited, clientVars,
                 writes, overlaps, atStop>>

write(t) ==
  /\ job[t].kind = "write"
  /\ \/ pc[t] = "buffered" /\ Reply(t, "unstable")
     \/ pc[t] = "nil" /\ Reply(t, "fileSync")
     \/ pc[t] = "failed" /\ Reply(t, "error")

commit(t) ==
  /\ job[t].kind = "commit"
  /\ \/ pc[t] = "nil" /\ Reply(t, "ok")
     \/ pc[t] = "failed" /\ Reply(t, "error")

-----------------------------------------------------------------------------
(* Sync, which COMMIT, a stable WRITE, the committer and run call             *)

\* The committer only logs what Sync returns.
Return(p, result) == Goto(p, IF p = Committer THEN "idle" ELSE result)

\* One flush of the file: of commitFile, and then of Sync's flushAll.
flushOpen(p) ==
  /\ pc[p] \in {"commitFile", "flushAll"}
  /\ inodes' = Held
  /\ buffered' = NothingBuffered
  /\ IF buffered = NothingBuffered THEN UNCHANGED <<dirty, changes>> ELSE markDirty
  /\ Goto(p, IF pc[p] = "commitFile" THEN "flushAll" ELSE "Sync")
  /\ UNCHANGED <<durable, phase, boot, commitVars, job, awaited, clientVars,
                 countVars, atStop>>

\* An upload fails: the buffers stay as they were.
flushFails(p) ==
  /\ pc[p] \in {"commitFile", "flushAll"}
  /\ buffered # NothingBuffered
  /\ Failure
  /\ Return(p, "failed")
  /\ UNCHANGED <<durable, phase, boot, memVars, commitVars, job, awaited, clientVars,
                 writes, overlaps, atStop>>

SyncClean(p) ==
  /\ pc[p] = "Sync"
  /\ commitMu = Nobody
  /\ ~dirty
  /\ Return(p, "nil")
  /\ UNCHANGED <<durable, phase, boot, memVars, commitVars, job, awaited, clientVars,
                 countVars, atStop>>

seal(p) ==
  /\ pc[p] = "Sync"
  /\ commitMu = Nobody
  /\ dirty
  /\ commitMu' = p
  /\ sealed' = inodes
  /\ sealedChanges' = changes
  /\ Goto(p, "commitSealed")
  /\ UNCHANGED <<durable, phase, boot, memVars, job, awaited, clientVars, countVars,
                 atStop>>

\* Sync returns, and forgets what it sealed.
Unlock == commitMu' = Nobody /\ sealed' = NothingBuffered /\ sealedChanges' = 0

\* Mutant: a commit leaves the filesystem clean whatever changed meanwhile.
applyCleans(p) ==
  /\ pc[p] = "commitSealed"
  /\ durable' = sealed
  /\ dirty' = FALSE
  /\ Unlock
  /\ Return(p, "nil")
  /\ UNCHANGED <<phase, boot, inodes, buffered, changes, job, awaited, clientVars,
                 countVars, atStop>>

\* Mutant: Sync returns without unlocking commitMu.
commitSealedLocked(p) ==
  /\ pc[p] = "commitSealed"
  /\ durable' = sealed
  /\ dirty' = (changes # sealedChanges)
  /\ Return(p, "nil")
  /\ UNCHANGED <<phase, boot, inodes, buffered, changes, commitVars, job, awaited,
                 clientVars, countVars, atStop>>

\* The commit that was sealed: the bucket has it, and apply cleans the
\* filesystem if nothing has changed since.
commitSealed(p) ==
  /\ pc[p] = "commitSealed"
  /\ durable' = sealed
  /\ dirty' = (changes # sealedChanges)
  /\ Unlock
  /\ Return(p, "nil")
  /\ UNCHANGED <<phase, boot, inodes, buffered, changes, job, awaited, clientVars,
                 countVars, atStop>>

\* It failed: the root pointer may name the snapshot all the same.
commitFails(p) ==
  /\ pc[p] = "commitSealed"
  /\ Failure
  /\ durable' \in {durable, sealed}
  /\ Unlock
  /\ Return(p, "failed")
  /\ UNCHANGED <<phase, boot, memVars, job, awaited, clientVars, writes, overlaps,
                 atStop>>

\* The commit interval has passed, or the context of FS.Run is done.
committer ==
  /\ phase # "down"
  /\ pc[Committer] = "idle"
  /\ Goto(Committer, "flushAll")
  /\ UNCHANGED <<durable, phase, boot, memVars, commitVars, job, awaited, clientVars,
                 countVars, atStop>>

-----------------------------------------------------------------------------
(* The process                                                                *)

\* Mutant: the verifier is the same in every process.
NewSameVerf ==
  /\ phase = "down"
  /\ phase' = "serving"
  /\ boot' = 1
  /\ UNCHANGED <<durable, memVars, commitVars, procVars, clientVars, countVars, atStop>>

\* New loads the snapshot of the root pointer and draws a verifier, and run
\* serves.
New ==
  /\ phase = "down"
  /\ phase' = "serving"
  /\ boot' = boot + 1
  /\ UNCHANGED <<durable, memVars, commitVars, procVars, clientVars, countVars, atStop>>

\* The process is gone, its memory with it.  The next one starts from what
\* is durable.
Ends ==
  /\ phase' = "down"
  /\ inodes' = durable
  /\ buffered' = NothingBuffered
  /\ dirty' = FALSE
  /\ changes' = 0
  /\ Unlock
  /\ pc' = [p \in Proc |-> "idle"]
  /\ job' = [p \in Proc |-> NoJob]
  /\ awaited' = {}
  /\ atStop' = NothingBuffered
  /\ UNCHANGED <<durable, boot, clientVars, writes, overlaps>>

Crash == phase # "down" /\ Fault /\ Ends

\* A signal, or serving has failed: finalCommit ends serving and calls Sync.
run ==
  /\ phase = "serving"
  /\ Fault
  /\ phase' = "stopping"
  /\ atStop' = Held
  /\ Goto(Main, "flushAll")
  /\ UNCHANGED <<durable, boot, memVars, commitVars, job, awaited, clientVars, writes,
                 overlaps>>

\* finalCommit has returned, and run returns to main, which exits.
exit == pc[Main] \in {"nil", "failed"} /\ UNCHANGED faults /\ Ends

-----------------------------------------------------------------------------
Sync(p) == flushOpen(p) \/ SyncClean(p) \/ seal(p) \/ commitSealed(p)

SyncFails(p) == flushFails(p) \/ commitFails(p)

Serve(t) == (\E j \in Requests : Receive(t, j)) \/ bufferWrite(t) \/ write(t) \/ commit(t)

Next ==
  \/ \E b \in Block : AppWrite(b) \/ \E how \in Hows : SendWrite(b, how)
  \/ SendCommit
  \/ \E t \in Thread : Serve(t) \/ WriteFails(t)
  \/ \E p \in Proc : Sync(p) \/ SyncFails(p)
  \/ committer \/ New \/ Crash \/ run \/ exit

Spec == Init /\ [][Next]_vars

\* The client writes its pages back and commits them, goroutines are
\* scheduled, a lock is passed on, and the process is started again.
FairSpec ==
  /\ Spec
  /\ \A b \in Block : WF_vars(\E how \in Hows : SendWrite(b, how))
  /\ WF_vars(SendCommit)
  /\ \A t \in Thread : WF_vars(Serve(t))
  /\ \A p \in Proc : SF_vars(Sync(p))
  /\ WF_vars(New) /\ WF_vars(exit)

-----------------------------------------------------------------------------
(* Properties                                                                 *)

\* A page the client has forgotten is in the bucket: WRITE answers FILE_SYNC
\* and COMMIT answers with the verifier of the WRITE only when the bytes, and
\* the namespace that names them, are durable, whatever processes came and
\* went between the WRITE and the COMMIT (nfs3.go commit, FS.Write, FS.Commit).
DiscardedDurable == \A b \in Block : page[b] = "clean" => durable[b] = ver[b]

\* When run returns with no error, everything written before serving ended
\* is committed, whatever other commit was in flight at the time and
\* whatever handlers go on executing (finalCommit).
CleanExitCovers ==
  pc[Main] = "nil" => \A b \in Block : durable[b] >= atStop[b]

\* Every write-back ends: a dirty page becomes durable, or the application
\* is told of a failure, through lost replies, failed commits and restarts
\* (Receive after New; Sync's retry of what a failed commit left dirty).
WritesSettle ==
  \A b \in Block : page[b] = "dirty" ~> page[b] \in {"clean", "failed"}

\* The server holds what it acknowledged: a second execution of a WRITE
\* puts the same bytes at the same place, and so changes nothing the client
\* knows (Server.Idempotent; docs/adr/0002-duplicate-request-cache.md, "For
\* idempotent procedures that is harmless").
ReplaysHarmless ==
  phase # "down" => \A b \in Block : page[b] = "clean" => Held[b] = ver[b]
=============================================================================
