---------------------------- MODULE NfsWritesProofs ----------------------------
(***************************************************************************)
(* DiscardedDurable and CleanExitCovers (module NfsWrites) hold for every  *)
(* set of blocks and goroutines, every number of faults and every number   *)
(* of processes, provided that no request is sent again while it executes  *)
(* (NoOverlaps): the two are not true otherwise.                           *)
(***************************************************************************)
EXTENDS NfsWrites, TLAPS

\* A request is sent again only once its execution has ended.
NoOverlaps == MaxOverlaps = 0

Versions == [Block -> Nat]
Labels == {"idle", "Write", "buffered", "commitFile", "flushAll", "Sync", "commitSealed",
           "nil", "failed"}
WriteJobs == [kind : {"write"}, block : Block, ver : Nat, how : Hows]
Jobs == {NoJob, CommitJob} \cup WriteJobs

Types ==
  /\ durable \in Versions /\ inodes \in Versions /\ buffered \in Versions
  /\ sealed \in Versions /\ atStop \in Versions
  /\ ver \in Versions /\ verf \in Versions
  /\ phase \in {"down", "serving", "stopping"}
  /\ boot \in Nat /\ changes \in Nat /\ sealedChanges \in Nat
  /\ writes \in Nat /\ overlaps \in Nat
  /\ dirty \in BOOLEAN /\ committing \in BOOLEAN
  /\ commitMu \in Proc \cup {Nobody}
  /\ pc \in [Proc -> Labels]
  /\ job \in [Proc -> Jobs]
  /\ awaited \subseteq Thread
  /\ page \in [Block -> {"clean", "dirty", "sent", "unstable", "committing", "failed"}]
  /\ asked \in [Block -> Jobs]

\* Each goroutine that executes a request is the only one, and the client
\* waits for it.
OneEach ==
  /\ \A p \in Proc : phase = "down" => pc[p] = "idle"
  /\ phase # "stopping" => pc[Main] = "idle"
  /\ \A t \in Thread : pc[t] \in {"Write", "buffered"} => job[t].kind = "write"
  /\ \A t \in Thread : (pc[t] = "idle") <=> (job[t] = NoJob)
  /\ \A t \in Thread : t \in awaited <=> job[t] # NoJob
  /\ \A t, u \in Thread : t # u /\ job[t] = job[u] => job[t] = NoJob

\* What is asked is what the page holds.
Asked ==
  /\ \A b \in Block : page[b] = "sent" =>
       \E how \in Hows : asked[b] = WriteJob(b, ver[b], how)
  /\ \A t \in Thread : job[t].kind = "write" =>
       page[job[t].block] = "sent" /\ asked[job[t].block] = job[t]
  /\ \A t \in Thread : job[t].kind = "commit" => committing

\* Versions only grow on their way to the bucket.
Ordered ==
  /\ \A b \in Block : durable[b] <= inodes[b] /\ inodes[b] <= Held[b] /\ Held[b] <= ver[b]
  /\ \A b \in Block : ver[b] <= writes /\ verf[b] <= boot
  /\ \A b \in Block : page[b] \in {"dirty", "sent", "unstable", "committing"} => ver[b] >= 1
  /\ commitMu # Nobody =>
       \A b \in Block : durable[b] <= sealed[b] /\ sealed[b] <= inodes[b]

\* What a clean flag and the lock mean.
Sealing ==
  /\ ~dirty => inodes = durable
  /\ commitMu # Nobody => dirty /\ pc[commitMu] = "commitSealed"
  /\ \A p \in Proc : pc[p] = "commitSealed" => commitMu = p
  /\ commitMu # Nobody => sealedChanges <= changes
  /\ commitMu # Nobody /\ changes = sealedChanges => inodes = sealed

\* How far Sync has brought version v of block b in goroutine p.
Covers(p, b, v) ==
  /\ pc[p] \in {"buffered", "commitFile", "flushAll"} => Held[b] >= v
  /\ pc[p] = "Sync" => inodes[b] >= v
  /\ pc[p] = "commitSealed" => sealed[b] >= v
  /\ pc[p] = "nil" => durable[b] >= v

Covered ==
  /\ \A t \in Thread : job[t].kind = "write" => Covers(t, job[t].block, ver[job[t].block])
  /\ \A t \in Thread : job[t].kind = "commit" =>
       \A b \in Block : page[b] = "committing" /\ verf[b] = boot => Covers(t, b, ver[b])
  /\ \A b \in Block : Covers(Main, b, atStop[b])

\* What the client may assume of each page.
Pages ==
  \A b \in Block :
    /\ page[b] = "clean" => durable[b] = ver[b]
    /\ page[b] \in {"unstable", "committing"} /\ verf[b] = boot /\ phase # "down" =>
         Held[b] = ver[b]

IInv == Types /\ OneEach /\ Asked /\ Ordered /\ Sealing /\ Covered /\ Pages

-----------------------------------------------------------------------------
USE ConstantsAssumption
USE DEF memVars, commitVars, procVars, pageVars, clientVars, countVars, Goto

\* What a read returns is a version for each block.
LEMMA HeldVersions == Types => Held \in Versions
  BY Zenon DEF Types, Held, Versions

\* Of versions in order, the first is the last if it is no smaller.
LEMMA Squeezed ==
  \A i, j, k, n \in Nat : i <= j /\ j <= k /\ k <= n /\ i >= n => i = n
  BY SMT

\* The invariant holds before the first process starts.
LEMMA InitInv == Init => IInv
<1> SUFFICES ASSUME Init PROVE IInv
  BY Zenon
<1> USE DEF Init, NothingBuffered, NoBlock
<1>0. Types
  BY Zenon DEF Types, Versions, Labels, Jobs, Proc
<1>1. Ordered
  BY DEF Ordered, Held
<1>2. OneEach /\ Asked
  BY Zenon DEF OneEach, Asked, NoJob, Proc
<1>3. Sealing /\ Covered /\ Pages
  BY Zenon DEF Sealing, Covered, Covers, Pages, NoJob, Proc
<1> QED
  BY Zenon, <1>0, <1>1, <1>2, <1>3 DEF IInv

\* The application's write makes the page's version newer than any the
\* server has.
LEMMA AppWritePreserves ==
  ASSUME IInv, NEW b \in Block, AppWrite(b)
  PROVE IInv'
<1>1. Types'
  BY DEF IInv, Types, Versions, Labels, Proc, AppWrite
<1>2. OneEach'
  BY Zenon DEF IInv, Types, OneEach, Labels, Proc, AppWrite
<1>3. Asked'
  BY DEF IInv, Types, OneEach, Asked, AppWrite
<1>4. Ordered'
  BY DEF IInv, Types, Ordered, Versions, Held, AppWrite
<1>5. Sealing'
  BY Zenon DEF IInv, Types, Sealing, Proc, AppWrite
<1>6. Covered'
  BY DEF IInv, Types, OneEach, Asked, Covered, Covers, Ordered, Versions, Held,
         Proc, AppWrite
<1>7. Pages'
  BY DEF IInv, Types, Pages, Held, AppWrite
<1> QED
  BY Zenon, <1>1, <1>2, <1>3, <1>4, <1>5, <1>6, <1>7 DEF IInv

\* A WRITE asks for the page's version.
LEMMA SendWritePreserves ==
  ASSUME IInv, NEW b \in Block, NEW how \in Hows, SendWrite(b, how)
  PROVE IInv'
<1>1. Types'
  BY Zenon DEF IInv, Types, Versions, Jobs, WriteJob, WriteJobs, SendWrite
<1>2. OneEach'
  BY Zenon DEF IInv, Types, OneEach, Labels, Proc, SendWrite
<1>3. Asked'
  BY DEF IInv, Types, OneEach, Asked, SendWrite
<1>4. Ordered'
  BY Zenon DEF IInv, Types, Ordered, Versions, Held, SendWrite
<1>5. Sealing'
  BY Zenon DEF IInv, Types, Sealing, Proc, SendWrite
<1>6. Covered'
  BY DEF IInv, Types, Covered, Covers, Held, Proc, SendWrite
<1>7. Pages'
  BY Zenon DEF IInv, Types, Pages, Held, SendWrite
<1> QED
  BY Zenon, <1>1, <1>2, <1>3, <1>4, <1>5, <1>6, <1>7 DEF IInv

\* A COMMIT covers pages that the server, if it is still the same one, holds.
LEMMA SendCommitPreserves ==
  ASSUME IInv, SendCommit
  PROVE IInv'
<1>1. Types'
  BY Zenon DEF IInv, Types, Versions, Labels, Proc, SendCommit
<1>2. OneEach'
  BY Zenon DEF IInv, Types, OneEach, Labels, Proc, SendCommit
<1>3. Asked'
  BY DEF IInv, Types, OneEach, Asked, Jobs, WriteJobs, NoJob, CommitJob, Proc,
         SendCommit
<1>4. Ordered'
  BY Zenon DEF IInv, Types, Ordered, Versions, Held, SendCommit
<1>5. Sealing'
  BY Zenon DEF IInv, Types, Sealing, Proc, SendCommit
<1>6. Covered'
  BY DEF IInv, Types, OneEach, Asked, Covered, Covers, Ordered, Versions, Held,
         Proc, SendCommit
<1>7. Pages'
  BY Zenon DEF IInv, Types, Pages, Held, SendCommit
<1> QED
  BY Zenon, <1>1, <1>2, <1>3, <1>4, <1>5, <1>6, <1>7 DEF IInv

\* A goroutine takes a request that no other executes.
LEMMA ReceivePreserves ==
  ASSUME IInv, NoOverlaps, NEW t \in Thread, NEW j \in Requests, Receive(t, j)
  PROVE IInv'
<1>1. Types'
  BY DEF IInv, Types, Versions, Labels, Jobs, NoJob, Proc, Receive, Requests,
         Executing
<1>2. OneEach'
  <2>1. j # NoJob /\ j.kind \in {"write", "commit"}
    <3>1. CASE \E b \in Block : page[b] = "sent" /\ j = asked[b]
      <4>1. PICK b \in Block : page[b] = "sent" /\ j = asked[b]
        BY Zenon, <3>1
      <4>2. PICK how \in Hows : j = WriteJob(b, ver[b], how)
        BY Zenon, <4>1 DEF IInv, Asked
      <4> QED
        BY Zenon, <4>2 DEF WriteJob, NoJob
    <3>2. CASE j = CommitJob
      BY Zenon, <3>2 DEF CommitJob, NoJob
    <3> QED
      BY Zenon, <3>1, <3>2 DEF Requests
  <2>2. Executing(j) = {}
    BY DEF Receive, NoOverlaps, IInv, Types
  <2>3. \A u \in Thread : job[u] # j
    BY Zenon, <2>1, <2>2 DEF IInv, OneEach, Executing
  <2>4. /\ \A u \in Thread : u # t => job'[u] = job[u] /\ pc'[u] = pc[u]
        /\ job'[t] = j
        /\ pc'[t] = IF j.kind = "write" THEN "Write" ELSE "commitFile"
        /\ pc'[Main] = pc[Main] /\ phase' = phase /\ phase # "down"
        /\ awaited' = awaited \cup {t}
    BY Zenon DEF IInv, Types, Receive, Proc
  <2> QED
    BY <2>1, <2>3, <2>4 DEF IInv, OneEach
<1>3. Asked'
  BY DEF IInv, Types, OneEach, Asked, NoJob, CommitJob, WriteJob, WriteJobs, Jobs,
         Receive, Requests, Executing
<1>4. Ordered'
  BY Zenon DEF IInv, Types, Ordered, Versions, Held, Receive, Requests, Executing
<1>5. Sealing'
  BY Zenon DEF IInv, Types, Sealing, Proc, Receive, Requests, Executing
<1>6. Covered'
  BY DEF IInv, Types, OneEach, Asked, Covered, Pages, Ordered, Covers, Held,
         Versions, Proc, NoJob, CommitJob, WriteJob, Receive, Requests
<1>7. Pages'
  BY Zenon DEF IInv, Types, Pages, Held, Receive, Requests, Executing
<1> QED
  BY Zenon, <1>1, <1>2, <1>3, <1>4, <1>5, <1>6, <1>7 DEF IInv

\* The bytes of a WRITE are the newest of their block.
LEMMA BufferWritePreserves ==
  ASSUME IInv, NEW t \in Thread, bufferWrite(t)
  PROVE IInv'
<1>1. Types'
  BY DEF IInv, Types, OneEach, Jobs, WriteJobs, NoJob, CommitJob, Versions, Labels,
         Proc, bufferWrite, markDirty
<1>2. OneEach'
  BY Zenon DEF IInv, Types, OneEach, Labels, Proc, bufferWrite, markDirty
<1>3. Asked'
  BY DEF IInv, Types, OneEach, Asked, bufferWrite, markDirty
<1>4. Ordered'
  BY DEF IInv, Types, OneEach, Asked, Ordered, Jobs, WriteJobs, NoJob, CommitJob,
         WriteJob, Versions, Held, NoBlock, bufferWrite, markDirty
<1>5. Sealing'
  BY DEF IInv, Types, Sealing, Proc, bufferWrite, markDirty
<1>6. Covered'
  <2> DEFINE b == job[t].block
  <2>1. b \in Block /\ job[t].kind = "write" /\ page[b] = "sent" /\ job[t].ver = ver[b]
    <3>1. job[t].kind = "write" /\ job[t] \in WriteJobs
      BY DEF IInv, Types, OneEach, bufferWrite, Proc, Jobs, NoJob, CommitJob
    <3>2. b \in Block /\ page[b] = "sent" /\ asked[b] = job[t]
      BY Zenon, <3>1 DEF IInv, Asked, WriteJobs
    <3>3. PICK how \in Hows : job[t] = WriteJob(b, ver[b], how)
      BY <3>2 DEF IInv, Asked
    <3> QED
      BY <3>1, <3>2, <3>3 DEF WriteJob
  <2>2. ver[b] \in Nat /\ ver[b] >= 1
    BY Zenon, <2>1 DEF IInv, Types, Ordered, Versions
  <2>3. /\ Held'[b] = ver[b]
        /\ \A x \in Block : Held'[x] \in Nat /\ Held'[x] >= Held[x] /\ Held[x] \in Nat
    BY <2>1, <2>2 DEF IInv, Types, Ordered, Versions, Held, NoBlock, bufferWrite
  <2>4. \A p \in Proc, x \in Block, v \in Nat : p # t /\ Covers(p, x, v) => Covers(p, x, v)'
    BY <2>3 DEF IInv, Types, Versions, Covers, bufferWrite
  <2>5. Covers(t, b, ver[b])'
    BY <2>2, <2>3 DEF IInv, Types, Proc, Covers, bufferWrite
  <2>6. UNCHANGED <<job, page, ver, verf, boot, atStop>>
    BY Zenon DEF bufferWrite
  <2>7. \A u \in Thread : u # t /\ job[u].kind = "write" => job[u].block \in Block
    BY DEF IInv, Types, Proc, Jobs, WriteJobs, NoJob, CommitJob
  <2>8. Main \in Proc /\ Main # t /\ \A u \in Thread : u \in Proc
    BY Zenon DEF Proc
  <2>9. ver \in Versions /\ atStop \in Versions
    BY Zenon DEF IInv, Types
  <2> QED
    BY Zenon, <2>1, <2>4, <2>5, <2>6, <2>7, <2>8, <2>9 DEF IInv, Covered, Versions
<1>7. Pages'
  BY DEF IInv, Types, OneEach, Asked, Ordered, Pages, Jobs, WriteJobs, NoJob,
         CommitJob, WriteJob, Versions, Held, bufferWrite, markDirty
<1> QED
  BY Zenon, <1>1, <1>2, <1>3, <1>4, <1>5, <1>6, <1>7 DEF IInv

\* A WRITE that fails before it buffers leaves the file alone.
LEMMA WriteFailsPreserves ==
  ASSUME IInv, NEW t \in Thread, WriteFails(t)
  PROVE IInv'
<1>1. Types'
  BY Zenon DEF IInv, Types, Versions, Labels, Proc, WriteFails, Failure, Fault
<1>2. OneEach'
  BY Zenon DEF IInv, Types, OneEach, Labels, Proc, WriteFails, Failure, Fault
<1>3. Asked'
  BY DEF IInv, Types, OneEach, Asked, WriteFails, Failure, Fault
<1>4. Ordered'
  BY Zenon DEF IInv, Types, Ordered, Versions, Held, WriteFails, Failure, Fault
<1>5. Sealing'
  BY Zenon DEF IInv, Types, Sealing, Proc, WriteFails, Failure, Fault
<1>6. Covered'
  BY Zenon DEF IInv, Types, Covered, Covers, Held, Proc, WriteFails, Failure, Fault
<1>7. Pages'
  BY Zenon DEF IInv, Types, Pages, Held, WriteFails, Failure, Fault
<1> QED
  BY Zenon, <1>1, <1>2, <1>3, <1>4, <1>5, <1>6, <1>7 DEF IInv

\* A reply reaches the one goroutine's client, or is lost with its goroutine.
\* It tells the client what Sync has brought to the bucket.
LEMMA ReplyPreserves ==
  ASSUME IInv, NEW t \in Thread, write(t) \/ commit(t)
  PROVE IInv'
<1> USE DEF IInv, write, commit, Reply
<1>1. t \in awaited /\ job[t] # NoJob /\ Executing(job[t]) = {t}
  BY SMTT(60) DEF Types, OneEach, Executing, NoJob
<1>2. /\ pc' = [pc EXCEPT ![t] = "idle"]
      /\ job' = [job EXCEPT ![t] = NoJob]
      /\ awaited' = awaited \ {t}
      /\ UNCHANGED <<durable, phase, boot, memVars, commitVars, writes, overlaps, atStop>>
  BY Zenon, <1>1
<1>3. OneEach' /\ Sealing'
  <2>1. \A u \in Thread : u \in Proc /\ (u # t => job'[u] = job[u] /\ pc'[u] = pc[u])
    BY Zenon, <1>2 DEF Types, Proc
  <2>2. job'[t] = NoJob /\ pc'[t] = "idle" /\ pc'[Main] = pc[Main]
    BY Zenon, <1>2 DEF Types, Proc
  <2>3. OneEach'
    BY SMTT(60), <1>2, <2>1, <2>2 DEF OneEach, Types
  <2>4. Sealing'
    BY Zenon, <1>2 DEF Sealing, Types, Proc
  <2> QED
    BY Zenon, <2>3, <2>4
<1>4. \A p \in Proc, b \in Block, v \in Nat : p # t /\ Covers(p, b, v) => Covers(p, b, v)'
  BY SMTT(60), <1>2 DEF Types, Covers, Held
<1>5. \A u \in Thread : u # t => job'[u] = job[u] /\ u \in Proc
  BY Zenon, <1>2 DEF Types, Proc
<1>6. job'[t].kind = "none" /\ Main \in Proc /\ Main # t
  BY Zenon, <1>2 DEF Types, Proc, NoJob
<1>7. CASE UNCHANGED clientVars
  <2>1. Types' /\ Ordered' /\ Pages'
    BY Zenon, <1>2, <1>7 DEF Types, Ordered, Pages, Held, Labels, Jobs
  <2>2. Asked'
    BY <1>2, <1>5, <1>6, <1>7 DEF Asked
  <2>3. Covered'
    <3>1. ver \in Versions /\ atStop \in Versions
      BY Zenon DEF Types
    <3>2. \A u \in Thread : job[u].kind = "write" => job[u].block \in Block
      BY SMTT(60) DEF Types, Proc, Jobs, WriteJobs, NoJob, CommitJob
    <3> QED
      BY Zenon, <1>2, <1>4, <1>5, <1>6, <1>7, <3>1, <3>2 DEF Covered, Versions
  <2> QED
    BY Zenon, <1>3, <2>1, <2>2, <2>3
<1>8. CASE write(t) /\ ~UNCHANGED clientVars
  <2> DEFINE b == job[t].block
  <2>1. b \in Block /\ page[b] = "sent" /\ job[t].kind = "write"
    BY SMTT(60), <1>8 DEF Types, Asked, Proc, Jobs, WriteJobs, NoJob, CommitJob
  <2>2. /\ verf' = [verf EXCEPT ![b] = boot] /\ asked' = [asked EXCEPT ![b] = NoJob]
        /\ UNCHANGED <<ver, committing>>
        /\ \/ page' = [page EXCEPT ![b] = "failed"]
           \/ pc[t] = "nil" /\ page' = [page EXCEPT ![b] = "clean"]
           \/ pc[t] = "buffered" /\ page' = [page EXCEPT ![b] = "unstable"]
    BY Zenon, <1>1, <1>8, <2>1 DEF Told
  <2>3. Covers(t, b, ver[b])
    BY ZenonT(60), <2>1 DEF Covered
  <2>4. Types'
    BY ZenonT(60), <1>2, <2>1, <2>2 DEF Types, Versions, Labels, Jobs
  <2>5. \A u \in Thread : u # t /\ job[u].kind = "write" => job[u].block \in Block /\ job[u].block # b
    BY <2>1 DEF OneEach, Asked, Types, Proc, Jobs, WriteJobs, NoJob, CommitJob
  <2>6. Asked'
    BY <1>2, <1>5, <1>6, <2>1, <2>2, <2>5 DEF Asked, Types
  <2>7. Ordered'
    BY SMTT(60), <1>2, <2>1, <2>2 DEF Ordered, Types, Versions, Held
  <2>8. Covered'
    <3>1. ver \in Versions /\ atStop \in Versions
      BY Zenon DEF Types
    <3>2. \A x \in Block : page'[x] = "committing" => x # b /\ page[x] = "committing" /\ verf'[x] = verf[x]
      BY SMTT(60), <2>1, <2>2 DEF Types
    <3> QED
      BY SMTT(60), <1>2, <1>4, <1>5, <1>6, <2>2, <2>5, <3>1, <3>2 DEF Covered, Versions
  <2>9. Pages'
    <3>1. Held' = Held /\ durable' = durable /\ ver' = ver /\ boot' = boot /\ phase' = phase
      BY Zenon, <1>2, <2>2 DEF Held
    <3>2. \A x \in Block : x # b => page'[x] = page[x] /\ verf'[x] = verf[x]
      BY SMTT(60), <2>2 DEF Types
    <3>3. page'[b] = "clean" => durable[b] = ver[b]
      BY SMTT(60), <2>1, <2>2, <2>3 DEF Covers, Ordered, Types, Versions, Held
    <3>4. page'[b] \in {"unstable", "committing"} => Held[b] = ver[b]
      BY SMTT(60), <2>1, <2>2, <2>3 DEF Covers, Ordered, Types, Versions, Held
    <3> QED
      BY Zenon, <2>1, <3>1, <3>2, <3>3, <3>4 DEF Pages
  <2> QED
    BY Zenon, <1>3, <2>4, <2>6, <2>7, <2>8, <2>9
<1>9. CASE commit(t) /\ ~UNCHANGED clientVars
  <2>1. /\ committing' = FALSE
        /\ UNCHANGED <<ver, verf, asked>>
        /\ \A b \in Block :
             \/ page'[b] = page[b] /\ page[b] # "committing"
             \/ page[b] = "committing" /\ page'[b] \in {"failed", "dirty"}
             \/ /\ page[b] = "committing" /\ page'[b] = "clean"
                /\ verf[b] = boot /\ pc[t] = "nil"
        /\ page' = [b \in Block |-> page'[b]]
    BY Zenon, <1>1, <1>9 DEF Told
  <2>2. Types'
    BY ZenonT(60), <1>2, <2>1 DEF Types, Versions, Labels, Jobs
  <2>3. \A u \in Thread : u # t => job[u].kind # "commit"
    BY <1>9 DEF OneEach, Types, Proc, Jobs, WriteJobs, NoJob, CommitJob
  <2>4. \A u \in Thread : job[u].kind = "write" => job[u].block \in Block
    BY DEF Types, Proc, Jobs, WriteJobs, NoJob, CommitJob
  <2>5. Asked'
    BY <1>2, <1>5, <1>6, <2>1, <2>3, <2>4 DEF Asked
  <2>6. Ordered'
    BY Zenon, <1>2, <2>1 DEF Ordered, Types, Versions, Held
  <2>7. Covered'
    <3>1. ver \in Versions /\ atStop \in Versions
      BY Zenon DEF Types
    <3> QED
      BY SMTT(60), <1>2, <1>4, <1>5, <1>6, <2>1, <2>3, <2>4, <3>1 DEF Covered, Versions
  <2>8. Pages'
    <3>1. \A b \in Block : page[b] = "committing" /\ page'[b] = "clean" => durable[b] = ver[b]
      <4>1. SUFFICES ASSUME NEW b \in Block, page[b] = "committing", page'[b] = "clean"
                     PROVE durable[b] = ver[b]
        BY ZenonT(60)
      <4>2. verf[b] = boot /\ pc[t] = "nil" /\ job[t].kind = "commit"
        BY Zenon, <1>9, <2>1, <4>1
      <4>3. durable[b] >= ver[b]
        BY Zenon, <4>1, <4>2 DEF Covered, Covers
      <4>4. durable[b] <= inodes[b] /\ inodes[b] <= Held[b] /\ Held[b] <= ver[b]
        BY ZenonT(60) DEF Ordered
      <4>5. durable[b] \in Nat /\ inodes[b] \in Nat /\ Held[b] \in Nat /\ ver[b] \in Nat
        BY Zenon, HeldVersions DEF Types, Versions
      <4> QED
        BY ZenonT(60), <4>3, <4>4, <4>5, Squeezed
    <3> QED
      BY Zenon, <1>2, <2>1, <3>1 DEF Pages, Held
  <2> QED
    BY Zenon, <1>3, <2>2, <2>5, <2>6, <2>7, <2>8
<1> QED
  BY Zenon, <1>7, <1>8, <1>9

\* A flush moves buffers to the chunk list and keeps what a read returns.
LEMMA FlushOpenPreserves ==
  ASSUME IInv, NEW p \in Proc, flushOpen(p)
  PROVE IInv'
<1>1. Types'
  <2>1. Held \in Versions
    BY Zenon, HeldVersions DEF IInv
  <2>2. buffered' \in Versions
    BY Zenon DEF flushOpen, NothingBuffered, NoBlock, Versions
  <2>3. dirty' \in BOOLEAN /\ changes' \in Nat
    <3>1. CASE buffered = NothingBuffered
      BY Zenon, <3>1 DEF IInv, Types, flushOpen
    <3>2. CASE buffered # NothingBuffered
      BY <3>2 DEF IInv, Types, flushOpen, markDirty
    <3> QED
      BY Zenon, <3>1, <3>2
  <2>4. pc' \in [Proc -> Labels]
    BY Zenon DEF IInv, Types, Labels, flushOpen
  <2> QED
    BY Zenon, <2>1, <2>2, <2>3, <2>4 DEF IInv, Types, flushOpen
<1>2. OneEach'
  BY Zenon DEF IInv, Types, OneEach, Labels, Proc, flushOpen, markDirty, NothingBuffered
<1>3. Asked'
  BY SMTT(60) DEF IInv, Types, OneEach, Asked, flushOpen, markDirty, NothingBuffered
<1>4. Ordered'
  BY SMTT(60) DEF IInv, Types, Ordered, Versions, Held, flushOpen, markDirty,
     NothingBuffered
<1>5. Sealing'
  BY SMTT(60) DEF IInv, Types, OneEach, Sealing, Ordered, Held, Versions, Proc, flushOpen,
         markDirty, NothingBuffered
<1>6. Covered'
  BY DEF IInv, Types, Jobs, WriteJobs, NoJob, CommitJob, Covered, Covers, Ordered,
         Versions, Held, NoBlock, NothingBuffered, Proc, flushOpen
<1>7. Pages'
  BY Zenon DEF IInv, Types, Pages, Held, flushOpen, markDirty, NothingBuffered
<1> QED
  BY Zenon, <1>1, <1>2, <1>3, <1>4, <1>5, <1>6, <1>7 DEF IInv

\* A flush that fails keeps the buffers.
LEMMA FlushFailsPreserves ==
  ASSUME IInv, NEW p \in Proc, flushFails(p)
  PROVE IInv'
<1>1. Types'
  BY Zenon DEF IInv, Types, Versions, Labels, Proc, flushFails, Failure, Fault, Return
<1>2. OneEach'
  BY Zenon DEF IInv, Types, OneEach, Labels, Proc, flushFails, Failure, Fault, Return
<1>3. Asked'
  BY SMTT(60) DEF IInv, Types, OneEach, Asked, flushFails, Failure, Fault, Return
<1>4. Ordered'
  BY Zenon DEF IInv, Types, Ordered, Versions, Held, flushFails, Failure, Fault, Return
<1>5. Sealing'
  BY Zenon DEF IInv, Types, Sealing, Proc, flushFails, Failure, Fault, Return
<1>6. Covered'
  BY DEF IInv, Types, Covered, Covers, Held, Proc, flushFails, Failure, Fault,
         Return
<1>7. Pages'
  BY Zenon DEF IInv, Types, Pages, Held, flushFails, Failure, Fault, Return
<1> QED
  BY Zenon, <1>1, <1>2, <1>3, <1>4, <1>5, <1>6, <1>7 DEF IInv

\* A clean filesystem is durable, so Sync may return at once.
LEMMA SyncCleanPreserves ==
  ASSUME IInv, NEW p \in Proc, SyncClean(p)
  PROVE IInv'
<1>1. Types'
  BY Zenon DEF IInv, Types, Versions, Labels, Proc, SyncClean, Return
<1>2. OneEach'
  BY Zenon DEF IInv, Types, OneEach, Labels, Proc, SyncClean, Return
<1>3. Asked'
  BY SMTT(60) DEF IInv, Types, OneEach, Asked, SyncClean, Return
<1>4. Ordered'
  BY Zenon DEF IInv, Types, Ordered, Versions, Held, SyncClean, Return
<1>5. Sealing'
  BY Zenon DEF IInv, Types, Sealing, Proc, SyncClean, Return
<1>6. Covered'
  BY DEF IInv, Types, Covered, Covers, Sealing, Held, Proc, SyncClean, Return
<1>7. Pages'
  BY Zenon DEF IInv, Types, Pages, Held, SyncClean, Return
<1> QED
  BY Zenon, <1>1, <1>2, <1>3, <1>4, <1>5, <1>6, <1>7 DEF IInv

\* The seal holds everything this Sync has flushed.
LEMMA SealPreserves ==
  ASSUME IInv, NEW p \in Proc, seal(p)
  PROVE IInv'
<1>1. Types'
  BY Zenon DEF IInv, Types, Versions, Labels, Proc, seal
<1>2. OneEach'
  BY SMTT(60) DEF IInv, Types, OneEach, Asked, Labels, Proc, NoJob, CommitJob, WriteJob,
     seal
<1>3. Asked'
  BY SMTT(60) DEF IInv, Types, OneEach, Asked, seal
<1>4. Ordered'
  BY DEF IInv, Types, Ordered, Versions, Held, seal
<1>5. Sealing'
  BY SMTT(60) DEF IInv, Types, Sealing, Proc, seal
<1>6. Covered'
  BY DEF IInv, Types, Covered, Covers, Sealing, Held, Proc, seal
<1>7. Pages'
  BY Zenon DEF IInv, Types, Pages, Held, seal
<1> QED
  BY Zenon, <1>1, <1>2, <1>3, <1>4, <1>5, <1>6, <1>7 DEF IInv

\* A commit makes what its Sync flushed durable, and cleans the filesystem
\* only when the chunk list is the one sealed.
LEMMA CommitSealedPreserves ==
  ASSUME IInv, NEW p \in Proc, commitSealed(p)
  PROVE IInv'
<1>1. Types'
  BY Zenon DEF IInv, Types, Versions, Labels, Proc, NoBlock, commitSealed, Return, Unlock,
         NothingBuffered
<1>2. OneEach'
  BY Zenon DEF IInv, Types, OneEach, Labels, Proc, commitSealed, Return, Unlock,
         NothingBuffered
<1>3. Asked'
  BY SMTT(60) DEF IInv, Types, OneEach, Asked, commitSealed, Return, Unlock,
     NothingBuffered
<1>4. Ordered'
  BY Zenon DEF IInv, Types, Ordered, Sealing, Versions, Held, Proc, commitSealed, Return,
         Unlock, NothingBuffered
<1>5. Sealing'
  BY Zenon DEF IInv, Types, Sealing, Proc, commitSealed, Return, Unlock, NothingBuffered
<1>6. Covered'
  BY SMTT(60) DEF IInv, Types, Jobs, WriteJobs, NoJob, CommitJob, Covered, Covers,
     Sealing,
         Ordered, Versions, Held, Proc, commitSealed, Return
<1>7. Pages'
  BY SMTT(60) DEF IInv, Types, Pages, Ordered, Sealing, Versions, Held, Proc,
     commitSealed,
         Return, Unlock, NothingBuffered
<1> QED
  BY Zenon, <1>1, <1>2, <1>3, <1>4, <1>5, <1>6, <1>7 DEF IInv

\* A commit that fails may have moved the root pointer forward, never back.
LEMMA CommitFailsPreserves ==
  ASSUME IInv, NEW p \in Proc, commitFails(p)
  PROVE IInv'
<1>1. Types'
  BY Zenon DEF IInv, Types, Versions, Labels, Proc, NoBlock, commitFails, Return, Unlock,
         NothingBuffered
<1>2. OneEach'
  BY Zenon DEF IInv, Types, OneEach, Labels, Proc, commitFails, Return, Unlock,
         NothingBuffered, Failure, Fault
<1>3. Asked'
  BY SMTT(60) DEF IInv, Types, OneEach, Asked, commitFails, Return, Unlock,
     NothingBuffered,
         Failure, Fault
<1>4. Ordered'
  BY Zenon DEF IInv, Types, Ordered, Sealing, Versions, Held, Proc, commitFails, Return,
         Unlock, NothingBuffered, Failure, Fault
<1>5. Sealing'
  BY Zenon DEF IInv, Types, Sealing, Proc, commitFails, Return, Unlock, NothingBuffered,
         Failure, Fault
<1>6. Covered'
  BY SMTT(60) DEF IInv, Types, Jobs, WriteJobs, NoJob, CommitJob, Covered, Covers,
     Sealing,
         Ordered, Versions, Held, Proc, commitFails, Return
<1>7. Pages'
  BY SMTT(60) DEF IInv, Types, Pages, Ordered, Sealing, Versions, Held, Proc, commitFails,
         Return, Unlock, NothingBuffered, Failure, Fault
<1> QED
  BY Zenon, <1>1, <1>2, <1>3, <1>4, <1>5, <1>6, <1>7 DEF IInv

\* The committer begins a Sync.
LEMMA CommitterPreserves ==
  ASSUME IInv, committer
  PROVE IInv'
<1>1. Types'
  BY Zenon DEF IInv, Types, Versions, Labels, Proc, committer
<1>2. OneEach'
  BY Zenon DEF IInv, Types, OneEach, Labels, Proc, committer
<1>3. Asked'
  <2>1. UNCHANGED <<page, ver, asked, job, committing>>
    BY Zenon DEF committer
  <2> QED
    BY Zenon, <2>1 DEF IInv, Asked
<1>4. Ordered'
  BY Zenon DEF IInv, Types, Ordered, Versions, Held, committer
<1>5. Sealing'
  BY Zenon DEF IInv, Types, Sealing, Proc, committer
<1>6. Covered'
  BY DEF IInv, Types, Covered, Covers, Held, Proc, committer
<1>7. Pages'
  BY Zenon DEF IInv, Types, Pages, Held, committer
<1> QED
  BY Zenon, <1>1, <1>2, <1>3, <1>4, <1>5, <1>6, <1>7 DEF IInv

\* A new process has a verifier no page has.
LEMMA NewPreserves ==
  ASSUME IInv, New
  PROVE IInv'
<1>1. Types'
  BY DEF IInv, Types, Versions, Labels, Proc, New
<1>2. OneEach'
  BY Zenon DEF IInv, Types, OneEach, Labels, Proc, New
<1>3. Asked'
  BY SMTT(60) DEF IInv, Types, OneEach, Asked, New
<1>4. Ordered'
  BY SMTT(60) DEF IInv, Types, Ordered, Versions, Held, New
<1>5. Sealing'
  BY Zenon DEF IInv, Types, Sealing, Proc, New
<1>6. Covered'
  BY Zenon DEF IInv, Types, OneEach, Asked, Covered, Covers, Ordered, Versions, Held,
         Proc, New
<1>7. Pages'
  BY SMTT(60) DEF IInv, Types, Pages, Ordered, Sealing, Versions, Held, Proc, New
<1> QED
  BY Zenon, <1>1, <1>2, <1>3, <1>4, <1>5, <1>6, <1>7 DEF IInv

\* A process that ends takes its goroutines with it.
LEMMA EndsPreserves ==
  ASSUME IInv, Ends
  PROVE IInv'
<1>1. Types'
  BY Zenon DEF IInv, Types, Versions, Labels, Proc, NoBlock, Jobs, Ends, Unlock,
         NothingBuffered
<1>2. OneEach'
  BY Zenon DEF IInv, Types, OneEach, Labels, Proc, Ends, Unlock, NothingBuffered
<1>3. Asked'
  BY DEF IInv, Types, Asked, NoJob, Proc, Ends
<1>4. Ordered'
  BY DEF IInv, Types, Ordered, Versions, Held, Ends, Unlock, NothingBuffered
<1>5. Sealing'
  BY Zenon DEF IInv, Types, Sealing, Proc, Ends, Unlock, NothingBuffered
<1>6. Covered'
  BY Zenon DEF IInv, Types, Covered, Covers, Held, Proc, Ends, Unlock, NothingBuffered
<1>7. Pages'
  BY Zenon DEF IInv, Types, Pages, Held, Ends, Unlock, NothingBuffered
<1> QED
  BY Zenon, <1>1, <1>2, <1>3, <1>4, <1>5, <1>6, <1>7 DEF IInv

\* The final commit begins with what a read returns.
LEMMA RunPreserves ==
  ASSUME IInv, run
  PROVE IInv'
<1>1. Types'
  <2>1. Held \in Versions
    BY Zenon, HeldVersions DEF IInv
  <2> QED
    BY Zenon, <2>1 DEF IInv, Types, Labels, Proc, run
<1>2. OneEach'
  BY Zenon DEF IInv, Types, OneEach, Labels, Proc, run, Fault
<1>3. Asked'
  BY SMTT(60) DEF IInv, Types, OneEach, Asked, run, Fault
<1>4. Ordered'
  BY Zenon DEF IInv, Types, Ordered, Versions, Held, run, Fault
<1>5. Sealing'
  BY Zenon DEF IInv, Types, OneEach, Sealing, Ordered, Held, Versions, Proc, run, Fault
<1>6. Covered'
  BY SMTT(60) DEF IInv, Types, OneEach, Asked, Covered, Covers, Ordered, Versions, Held,
         Proc, run, Fault
<1>7. Pages'
  BY Zenon DEF IInv, Types, Pages, Held, run, Fault
<1> QED
  BY Zenon, <1>1, <1>2, <1>3, <1>4, <1>5, <1>6, <1>7 DEF IInv

-----------------------------------------------------------------------------
\* A step that changes nothing preserves the invariant.
LEMMA StutterPreserves == IInv /\ UNCHANGED vars => IInv'
<1> SUFFICES ASSUME IInv, UNCHANGED vars PROVE IInv'
  BY Zenon
<1> USE DEF IInv, vars
<1>1. Types' /\ OneEach'
  BY Zenon DEF Types, OneEach
<1>2. Asked' /\ Sealing'
  BY SMTT(60) DEF Asked, Sealing
<1>3. Held' = Held
  BY Zenon DEF Held
<1>4. Ordered' /\ Pages'
  BY Zenon, <1>3 DEF Ordered, Pages
<1>5. Covered'
  BY Zenon, <1>3 DEF Covered, Covers
<1> QED
  BY Zenon, <1>1, <1>2, <1>4, <1>5

\* Every step preserves the invariant.
LEMMA NextPreserves ==
  ASSUME NoOverlaps, IInv, [Next]_vars
  PROVE IInv'
<1>1. CASE \E b \in Block : AppWrite(b) \/ \E how \in Hows : SendWrite(b, how)
  BY Zenon, <1>1, AppWritePreserves, SendWritePreserves
<1>2. CASE SendCommit
  BY Zenon, <1>2, SendCommitPreserves
<1>3. CASE \E t \in Thread : Serve(t) \/ WriteFails(t)
  BY Zenon, <1>3, ReceivePreserves, BufferWritePreserves, ReplyPreserves,
     WriteFailsPreserves
     DEF Serve
<1>4. CASE \E p \in Proc : Sync(p)
  BY Zenon, <1>4, FlushOpenPreserves, SyncCleanPreserves, SealPreserves,
     CommitSealedPreserves
     DEF Sync
<1>5. CASE \E p \in Proc : SyncFails(p)
  BY Zenon, <1>5, FlushFailsPreserves, CommitFailsPreserves DEF SyncFails
<1>6. CASE committer \/ New \/ run
  BY Zenon, <1>6, CommitterPreserves, NewPreserves, RunPreserves
<1>7. CASE Crash \/ exit
  BY Zenon, <1>7, EndsPreserves DEF Crash, exit
<1>8. CASE UNCHANGED vars
  BY Zenon, <1>8, StutterPreserves
<1> QED
  BY Zenon, <1>1, <1>2, <1>3, <1>4, <1>5, <1>6, <1>7, <1>8 DEF Next

\* IInv holds in every reachable state when no request overlaps itself.
THEOREM Invariance == NoOverlaps => (Spec => []IInv)
<1> SUFFICES ASSUME NoOverlaps PROVE Spec => []IInv
  BY Zenon
<1>1. Init => IInv
  BY Zenon, InitInv
<1>2. IInv /\ [Next]_vars => IInv'
  BY Zenon, NextPreserves
<1> QED
  BY <1>1, <1>2, PTL DEF Spec

\* A page the client has forgotten is in the bucket, for every number of
\* blocks, goroutines, faults and processes (nfs3.go commit, FS.Write).
THEOREM ForgottenIsDurable == NoOverlaps => (Spec => []DiscardedDurable)
<1>1. IInv => DiscardedDurable
  BY Zenon DEF IInv, Pages, DiscardedDurable
<1> QED
  BY <1>1, Invariance, PTL

\* A final commit that succeeds covers everything written before serving
\* ended (finalCommit).
THEOREM CleanExitIsComplete == NoOverlaps => (Spec => []CleanExitCovers)
<1>1. IInv => CleanExitCovers
  BY Zenon DEF IInv, Covered, Covers, CleanExitCovers
<1> QED
  BY <1>1, Invariance, PTL

\* What the server would answer a read of a forgotten page with is the page,
\* when no WRITE is executed twice at once (Server.Idempotent).
THEOREM ReplaysAreHarmless == NoOverlaps => (Spec => []ReplaysHarmless)
<1>1. IInv => ReplaysHarmless
  BY DEF IInv, Types, Versions, Pages, Ordered, Held, ReplaysHarmless
<1> QED
  BY <1>1, Invariance, PTL
=============================================================================
