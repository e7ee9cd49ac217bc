------------------------------- MODULE FileData -------------------------------
(***************************************************************************)
(* The data path of one file in internal/blobfs/fs.go: writes buffered in  *)
(* an openFile, truncates that cut stored chunks without fetching them     *)
(* (pending trims), flushes that upload and repoint, the commit gate and   *)
(* the settle pass of Sync, and the unlink that races them all.            *)
(*                                                                         *)
(* What is abstracted.                                                     *)
(*  - A byte is the number of the write that stored it: 0 for a hole and   *)
(*    1 for the file as it was mounted.  A chunk reference holds the       *)
(*    contents its hash names, so a store that returns other bytes, which  *)
(*    loadChunk refuses, is a failed fetch.                                *)
(*  - A hold of FS.mu that makes no store call is one step.  openFile.mu,  *)
(*    the commit gate and commitMu are held across steps.                  *)
(*  - The flight is one step: module RootCommit's is the one that opens    *)
(*    it.  Of a root in doubt it keeps that the commit may fail.           *)
(*  - Buffer capacity is counted in chunks (every buffer is made with the  *)
(*    capacity of one).  The wait for the budget is module Budget's.       *)
(***************************************************************************)
EXTENDS Integers, Sequences, FiniteSetsExt, Functions

CONSTANTS
  Proc,        \* threads: NFS requests and the committer
  Nobody,      \* the holder of a free lock
  ChunkSize,   \* FS.chunkSize
  MaxSize,     \* FS.maxFileSize, the limit of every offset below
  InitSizes,   \* the sizes the file may have when it is mounted
  Loads,       \* what clients may ask for: the kinds of their calls, the
               \* <<off, len>> of their writes, the sizes they truncate to,
               \* how many calls run at once and how many are made in all
  MaxFaults    \* how many store calls fail in all

ASSUME ConstantsAssumption ==
  /\ Nobody \notin Proc
  /\ ChunkSize \in Nat \ {0}
  /\ MaxSize \in Nat
  /\ InitSizes \subseteq 0 .. MaxSize
  /\ IsFiniteSet(Loads)
  /\ Loads \subseteq [kinds : SUBSET {"write", "stableWrite", "truncate", "commit", "sync",
                                     "unlink"},
                      ranges : SUBSET ((0 .. MaxSize - 1) \X (Nat \ {0})),
                      sizes : SUBSET (0 .. MaxSize),
                      threads : Nat, calls : Nat]

Index == 0 .. (MaxSize - 1) \div ChunkSize
OpenFile == 1 .. 2      \* the entry of the file, and one made after its unlink
MaxCalls == Max({l.calls : l \in Loads})
Byte == 0 .. MaxCalls + 1
Chunk == UNION {[1 .. n -> Byte] : n \in 0 .. ChunkSize}
Zeros(n) == [i \in 1 .. n |-> 0]
Hole == [hole |-> TRUE, data |-> Zeros(ChunkSize)]
Stored(data) == [hole |-> FALSE, data |-> data]
Ref == {Hole} \cup [hole : {FALSE}, data : Chunk]
Absent == -1            \* what the file holds past its end, or once unlinked

Smaller(a, b) == IF a < b THEN a ELSE b
Larger(a, b) == IF a < b THEN b ELSE a
NoFun == [x \in {} |-> 0]
NoPromise == [i \in 0 .. MaxSize |-> {}]
NoCall == [kind |-> "none", off |-> 0, len |-> 0, val |-> 0]

VARIABLES
  \* the inode
  linked, size, chunks,
  \* FS.open's entry for it, 0 for none, and each openFile's fields
  open, dirty, pendingTrim, unsettled, bytes, ofmu,
  used,           \* the budget's count
  \* the FS's commit state
  nsDirty, changes, commitMu, gateWriter, gateReaders,
  sealed, sealedChanges,
  committed,      \* the inode as the root pointer's snapshot has it
  bucket,         \* the contents stored under chunks/
  \* each thread
  pc, call, of, refs, charge, taken, next,
  \* history
  held,           \* what the file holds: its image, see Image
  sinceCut,       \* per place, what it has held since it was last cut off
  sinceCall,      \* per thread and place, what it has held since the call
  load,           \* of one of Loads, what clients may still ask for
  faults

inodeVars == <<linked, size, chunks>>
openVars == <<open, dirty, pendingTrim, unsettled, bytes, ofmu>>
commitVars == <<nsDirty, changes, commitMu, gateWriter, gateReaders, sealed,
                sealedChanges, committed>>
threadVars == <<pc, call, of, refs, charge, taken, next>>
histVars == <<held, sinceCut, sinceCall>>
vars == <<inodeVars, openVars, used, commitVars, bucket, threadVars, histVars,
          load, faults>>

Inode == [linked |-> linked, size |-> size, chunks |-> chunks]

\* The chunk list of a file of n bytes, each of them b.
ChunksOf(n, b) ==
  [k \in 1 .. (n + ChunkSize - 1) \div ChunkSize |->
     Stored([i \in 1 .. Smaller(ChunkSize, n - (k - 1) * ChunkSize) |-> b])]

\* What place i of a chunk list holds: bytes past the end of a chunk or of
\* the list read as zeros.
ByteAt(cs, i) ==
  LET k == (i - 1) \div ChunkSize + 1
      j == ((i - 1) % ChunkSize) + 1
  IN IF k > Len(cs) \/ j > Len(cs[k].data) THEN 0 ELSE cs[k].data[j]

\* A file as its places: 0 stands for its name, i for its i-th byte.
Image(f) ==
  [i \in 0 .. MaxSize |-> IF ~f.linked \/ i > f.size THEN Absent
                          ELSE IF i = 0 THEN 1 ELSE ByteAt(f.chunks, i)]

Init ==
  /\ linked = TRUE
  /\ size \in InitSizes
  /\ chunks = ChunksOf(size, 1)
  /\ open = 0
  /\ dirty = [o \in OpenFile |-> NoFun]
  /\ pendingTrim = [o \in OpenFile |-> NoFun]
  /\ unsettled = [o \in OpenFile |-> FALSE]
  /\ bytes = [o \in OpenFile |-> 0]
  /\ ofmu = [o \in OpenFile |-> Nobody]
  /\ used = 0
  /\ nsDirty = FALSE
  /\ changes = 0
  /\ commitMu = Nobody
  /\ gateWriter = "free"
  /\ gateReaders = {}
  /\ sealed = Inode
  /\ sealedChanges = 0
  /\ committed = Inode
  /\ bucket = {chunks[k].data : k \in DOMAIN chunks}
  /\ pc = [p \in Proc |-> "idle"]
  /\ call = [p \in Proc |-> NoCall]
  /\ of = [p \in Proc |-> 0]
  /\ refs = [p \in Proc |-> <<>>]
  /\ charge = [p \in Proc |-> 0]
  /\ taken = [p \in Proc |-> 0]
  /\ next = [p \in Proc |-> "idle"]
  /\ held = Image(Inode)
  /\ sinceCut = [i \in 0 .. MaxSize |-> {held[i]}]
  /\ sinceCall = [p \in Proc |-> NoPromise]
  /\ load \in Loads
  /\ faults = 0

-----------------------------------------------------------------------------
(* Read: what a hold of FS.mu, and of openFile.mu when there is an entry,    *)
(* makes the reply.  The chunks it fetches after them cannot change.         *)

Dirty == IF open = 0 THEN NoFun ELSE dirty[open]
Trims == IF open = 0 THEN NoFun ELSE pendingTrim[open]

ReadEnd(off, count) == IF count < size - off THEN off + count ELSE size

\* The chunks to fetch, each cut at its index's pending trim.
ReadRefs(off, end) ==
  [idx \in {i \in off \div ChunkSize .. (end - 1) \div ChunkSize :
              i < Len(chunks) /\ i \notin DOMAIN Dirty /\ ~chunks[i + 1].hole}
     |-> LET data == chunks[idx + 1].data
         IN IF idx \in DOMAIN Trims
            THEN SubSeq(data, 1, Smaller(Trims[idx].to, Len(data))) ELSE data]

\* The reply: dirty bytes and fetched bytes, and zeros where there are none.
Read(off, count) ==
  IF off >= size THEN <<>>
  ELSE LET end == ReadEnd(off, count)
           from == ReadRefs(off, end)
           at(i) == LET idx == i \div ChunkSize
                        j == (i % ChunkSize) + 1
                        data == IF idx \in DOMAIN Dirty THEN Dirty[idx]
                                ELSE IF idx \in DOMAIN from THEN from[idx] ELSE <<>>
                    IN IF j <= Len(data) THEN data[j] ELSE 0
       IN [k \in 1 .. end - off |-> at(off + k - 1)]

-----------------------------------------------------------------------------
(* Steps shared by the actions *)

Goto(p, label) == pc' = [pc EXCEPT ![p] = label]

Fault ==
  /\ faults < MaxFaults
  /\ faults' = faults + 1

markDirty ==
  /\ nsDirty' = TRUE
  /\ changes' = changes + 1

\* The histories once the file holds what new says.  A place that comes to
\* hold a byte has held a zero: a commit may have the file's size before its
\* bytes.
Gains(new, i) == {new[i]} \cup (IF held[i] = Absent /\ new[i] # Absent THEN {0} ELSE {})
CutHistory(new) ==
  [i \in 0 .. MaxSize |-> IF new[i] = Absent THEN {Absent} ELSE sinceCut[i] \cup Gains(new, i)]
CallHistory(new) ==
  [p \in Proc |-> [i \in 0 .. MaxSize |->
     IF sinceCall[p][i] = {} THEN {} ELSE sinceCall[p][i] \cup Gains(new, i)]]

Becomes(new) ==
  /\ held' = new
  /\ sinceCut' = CutHistory(new)
  /\ sinceCall' = CallHistory(new)

\* A call's promise is about what the file holds from its start on, a stable
\* write's about its own bytes too.
Promise(image) == [i \in 0 .. MaxSize |-> {image[i]}]

\* A thread's locals at its return, whatever it returns.
Forget(p) ==
  /\ call' = [call EXCEPT ![p] = NoCall]
  /\ of' = [of EXCEPT ![p] = 0]
  /\ refs' = [refs EXCEPT ![p] = <<>>]
  /\ charge' = [charge EXCEPT ![p] = 0]
  /\ taken' = [taken EXCEPT ![p] = 0]
  /\ next' = [next EXCEPT ![p] = "idle"]

\* It returns an error, or nil having promised nothing about the bucket.
Return(p) ==
  /\ Goto(p, "idle")
  /\ Forget(p)
  /\ sinceCall' = [sinceCall EXCEPT ![p] = NoPromise]

\* A client makes a call of this kind, and thread p serves it.
Asks(p, kind) ==
  /\ pc[p] = "idle"
  /\ kind \in load.kinds
  /\ load.calls > 0
  /\ Cardinality({q \in Proc : pc[q] # "idle"}) < load.threads
  /\ load' = [load EXCEPT !.calls = @ - 1]

\* A call passes the checks it makes first: mutable, resolve and the policy.
Start(p, kind, off, len, label) ==
  /\ Asks(p, kind)
  /\ call' = [call EXCEPT ![p] = [kind |-> kind, off |-> off, len |-> len,
                                   val |-> load.calls + 1]]
  /\ Goto(p, label)
  /\ UNCHANGED <<inodeVars, openVars, used, commitVars, bucket, of, refs,
                 charge, taken, next, held, sinceCut, faults>>

\* getOpen, in one hold of FS.mu.  It makes an entry also for an inode that
\* has gone since the caller's check.
getOpen(p) ==
  /\ pc[p] = "getOpen"
  /\ open' = IF open # 0 THEN open ELSE IF linked THEN 1 ELSE 2
  /\ of' = [of EXCEPT ![p] = open']
  /\ Goto(p, "lock")
  /\ UNCHANGED <<inodeVars, dirty, pendingTrim, unsettled, bytes, ofmu, used,
                 commitVars, bucket, call, refs, charge, taken, next, histVars,
                 load, faults>>

-----------------------------------------------------------------------------
(* Write *)

\* Mutant: the write is not clamped to the largest size.
StartWriteUnclamped(p) ==
  /\ linked
  /\ \E r \in load.ranges, kind \in {"write", "stableWrite"} :
       Start(p, kind, r[1], r[2], "getOpen")
  /\ UNCHANGED sinceCall

StartWrite(p) ==
  /\ linked
  /\ \E r \in load.ranges, kind \in {"write", "stableWrite"} :
       Start(p, kind, r[1], Smaller(r[2], MaxSize - r[1]), "getOpen")
  /\ UNCHANGED sinceCall

\* bufferWrite takes openFile.mu, and copies the chunk list under FS.mu; for
\* an inode that has gone it buffers nothing and takes every byte.
bufferLock(p) ==
  /\ pc[p] = "lock"
  /\ call[p].kind \in {"write", "stableWrite"}
  /\ ofmu[of[p]] = Nobody
  /\ ofmu' = [ofmu EXCEPT ![of[p]] = p]
  /\ IF linked THEN /\ refs' = [refs EXCEPT ![p] = chunks]
                    /\ Goto(p, "fill")
                    /\ UNCHANGED taken
               ELSE /\ taken' = [taken EXCEPT ![p] = call[p].len]
                    /\ Goto(p, "extend")
                    /\ UNCHANGED refs
  /\ UNCHANGED <<inodeVars, open, dirty, pendingTrim, unsettled, bytes, used,
                 commitVars, bucket, call, of, charge, next, histVars, load,
                 faults>>

\* The part of index idx that bytes [off, off + n) fill, as positions.
Lo(idx, off) == Larger(off - idx * ChunkSize, 0)
Hi(idx, off, n) == Smaller(off + n - idx * ChunkSize, ChunkSize)

\* What bufferWrite starts index idx from: its buffer, nothing when the write
\* covers it or the list lacks it, or else the chunk, cut at a pending trim.
Base(p, idx) ==
  LET o == of[p]
      c == call[p]
      data == refs[p][idx + 1].data
  IN IF idx \in DOMAIN dirty[o] THEN dirty[o][idx]
     ELSE IF \/ Lo(idx, c.off) = 0 /\ Hi(idx, c.off, c.len) = ChunkSize
             \/ idx >= Len(refs[p]) THEN <<>>
     ELSE IF idx \in DOMAIN pendingTrim[o]
          THEN SubSeq(data, 1, Smaller(pendingTrim[o][idx].to, Len(data)))
     ELSE data

\* Index idx must be fetched before the write can fill it.
Fetches(p, idx) ==
  /\ idx \notin DOMAIN dirty[of[p]]
  /\ ~(Lo(idx, call[p].off) = 0 /\ Hi(idx, call[p].off, call[p].len) = ChunkSize)
  /\ idx < Len(refs[p])
  /\ ~refs[p][idx + 1].hole

\* Index idx's buffer once the write has filled it.
Filled(p, idx) ==
  LET c == call[p]
      base == Base(p, idx)
      lo == Lo(idx, c.off)
      hi == Hi(idx, c.off, c.len)
  IN [j \in 1 .. Larger(hi, Len(base)) |->
        IF lo < j /\ j <= hi THEN c.val
        ELSE IF j <= Len(base) THEN base[j] ELSE 0]

\* Mutant: an index that is buffered keeps its trim.
TakeKeepsTrims(p, n) ==
  LET o == of[p]
      off == call[p].off
      touched == off \div ChunkSize .. (off + n - 1) \div ChunkSize
      fresh == Cardinality(touched \ DOMAIN dirty[o])
  IN /\ dirty' = [dirty EXCEPT ![o] =
            [idx \in DOMAIN @ \cup touched |->
               IF idx \in touched THEN Filled(p, idx) ELSE @[idx]]]
     /\ UNCHANGED pendingTrim
     /\ taken' = [taken EXCEPT ![p] = n]
     /\ charge' = [charge EXCEPT ![p] = fresh]
     /\ used' = used + fresh

\* The first n bytes of the write are in the buffers, and the budget is
\* charged for the new ones; their trims go.
Take(p, n) ==
  LET o == of[p]
      off == call[p].off
      touched == off \div ChunkSize .. (off + n - 1) \div ChunkSize
      fresh == Cardinality(touched \ DOMAIN dirty[o])
  IN /\ dirty' = [dirty EXCEPT ![o] =
            [idx \in DOMAIN @ \cup touched |->
               IF idx \in touched THEN Filled(p, idx) ELSE @[idx]]]
     /\ pendingTrim' = [pendingTrim EXCEPT ![o] = Restrict(@, DOMAIN @ \ touched)]
     /\ taken' = [taken EXCEPT ![p] = n]
     /\ charge' = [charge EXCEPT ![p] = fresh]
     /\ used' = used + fresh

\* The loop of bufferWrite, and budget.add.
bufferFill(p) ==
  /\ pc[p] = "fill"
  /\ Take(p, call[p].len)
  /\ Goto(p, "charge")
  /\ UNCHANGED <<inodeVars, open, unsettled, bytes, ofmu, commitVars, bucket,
                 call, of, refs, next, histVars, load, faults>>

\* A fetch fails: the write is cut short before that index, and is refused
\* when nothing comes before it.
bufferFillFails(p) ==
  /\ pc[p] = "fill"
  /\ Fault
  /\ \E idx \in Index :
       /\ Fetches(p, idx)
       /\ idx * ChunkSize < call[p].off + call[p].len
       /\ (idx + 1) * ChunkSize > call[p].off
       /\ LET n == Larger(idx * ChunkSize - call[p].off, 0)
          IN \/ /\ n > 0
                /\ Take(p, n)
                /\ Goto(p, "charge")
                /\ UNCHANGED <<call, of, refs, next, ofmu, sinceCall>>
             \/ /\ n = 0
                /\ ofmu' = [ofmu EXCEPT ![of[p]] = Nobody]
                /\ Return(p)
                /\ UNCHANGED <<dirty, pendingTrim, used>>
  /\ UNCHANGED <<inodeVars, open, unsettled, bytes, commitVars, bucket, held,
                 sinceCut, load>>

\* of.bytes.Add.
bufferCharge(p) ==
  /\ pc[p] = "charge"
  /\ bytes' = [bytes EXCEPT ![of[p]] = @ + charge[p]]
  /\ Goto(p, "extend")
  /\ UNCHANGED <<inodeVars, open, dirty, pendingTrim, unsettled, ofmu, used,
                 commitVars, bucket, call, of, refs, charge, taken, next,
                 histVars, load, faults>>

\* The last hold of FS.mu: the size, or, for an inode that has gone, the end
\* of the buffers and of the file's whole charge.
bufferExtend(p) ==
  LET o == of[p]
      c == call[p]
      end == c.off + taken[p]
      new == [i \in 0 .. MaxSize |->
                IF c.off < i /\ i <= end THEN c.val
                ELSE IF i <= end /\ held[i] = Absent THEN 0 ELSE held[i]]
  IN /\ pc[p] = "extend"
     /\ ofmu' = [ofmu EXCEPT ![o] = Nobody]
     /\ IF linked
        THEN /\ size' = Larger(size, end)
             /\ markDirty
             /\ UNCHANGED <<dirty, bytes, used>>
        ELSE /\ dirty' = [dirty EXCEPT ![o] = NoFun]
             /\ used' = used - bytes[o]
             /\ bytes' = [bytes EXCEPT ![o] = 0]
             /\ UNCHANGED <<size, nsDirty, changes>>
     /\ \/ /\ c.kind = "write"
           /\ Goto(p, "idle")
           /\ Forget(p)
           /\ IF linked THEN Becomes(new) ELSE UNCHANGED histVars
        \/ /\ c.kind = "stableWrite"
           /\ Goto(p, "commitFile")
           /\ held' = IF linked THEN new ELSE held
           /\ sinceCut' = IF linked THEN CutHistory(new) ELSE sinceCut
           /\ sinceCall' = [CallHistory(held') EXCEPT ![p] = Promise(held')]
           /\ refs' = [refs EXCEPT ![p] = <<>>]
           /\ charge' = [charge EXCEPT ![p] = 0]
           /\ taken' = [taken EXCEPT ![p] = 0]
           /\ UNCHANGED <<call, of, next>>
     /\ UNCHANGED <<linked, chunks, open, pendingTrim, unsettled, commitMu,
                    gateWriter, gateReaders, sealed, sealedChanges, committed,
                    bucket, load, faults>>

-----------------------------------------------------------------------------
(* SetAttr of a size: truncate *)

StartTruncate(p) ==
  /\ linked
  /\ \E n \in load.sizes : Start(p, "truncate", n, 0, "gate")
  /\ UNCHANGED sinceCall

\* commitGate.RLock: it waits for a Sync that holds the gate or waits for it.
gateRLock(p) ==
  /\ pc[p] = "gate"
  /\ gateWriter = "free"
  /\ gateReaders' = gateReaders \cup {p}
  /\ Goto(p, "getOpen")
  /\ UNCHANGED <<inodeVars, openVars, used, nsDirty, changes, commitMu,
                 gateWriter, sealed, sealedChanges, committed, bucket, call, of,
                 refs, charge, taken, next, histVars, load, faults>>

\* The indices a file of n bytes has no part of.
Beyond(n) == {idx \in Index : idx * ChunkSize >= n}

\* The chunk list and the buffers of a file cut to n bytes.
CutChunks(n) == SubSeq(chunks, 1, Smaller(Len(chunks), (n + ChunkSize - 1) \div ChunkSize))
CutDirty(o, n) ==
  [idx \in DOMAIN dirty[o] \ Beyond(n) |->
     SubSeq(dirty[o][idx], 1, Smaller(Len(dirty[o][idx]), n - idx * ChunkSize))]

\* n ends inside the last chunk of the list, and that chunk is no hole.
CutsStored(n) ==
  /\ n % ChunkSize # 0
  /\ Len(CutChunks(n)) = (n \div ChunkSize) + 1
  /\ ~chunks[(n \div ChunkSize) + 1].hole

\* Mutant: the cut replaces the one before it.
CutTrimsLatest(o, n) ==
  LET kept == Restrict(pendingTrim[o], DOMAIN pendingTrim[o] \ Beyond(n))
      idx == n \div ChunkSize
      tail == n % ChunkSize
  IN IF /\ CutsStored(n) /\ idx \notin DOMAIN dirty[o]
        /\ tail < Len(chunks[idx + 1].data)
     THEN [i \in DOMAIN kept \cup {idx} |->
             IF i = idx THEN [to |-> tail, ref |-> chunks[idx + 1]] ELSE kept[i]]
     ELSE kept

\* The trims: those past the end go, and a cut into a stored chunk that is
\* not dirty is recorded, the smallest length kept.
CutTrims(o, n) ==
  LET kept == Restrict(pendingTrim[o], DOMAIN pendingTrim[o] \ Beyond(n))
      idx == n \div ChunkSize
      tail == n % ChunkSize
      shown == IF idx \in DOMAIN kept THEN kept[idx].to ELSE Len(chunks[idx + 1].data)
  IN IF CutsStored(n) /\ idx \notin DOMAIN dirty[o] /\ tail < shown
     THEN [i \in DOMAIN kept \cup {idx} |->
             IF i = idx THEN [to |-> tail, ref |-> chunks[idx + 1]] ELSE kept[i]]
     ELSE kept

\* Mutant: only a cut that leaves a trim unsettles the file.
UnsettlesTrimmed(o, n) == CutsStored(n) /\ n \div ChunkSize \in DOMAIN CutTrims(o, n)

\* The stored chunk at the new end still names bytes past it.
Unsettles(o, n) ==
  /\ CutsStored(n)
  /\ Len(chunks[(n \div ChunkSize) + 1].data) > n % ChunkSize

\* Holes up to the new end of a file that grows.
Grow(cs, n) ==
  IF n > size THEN cs \o [k \in 1 .. Larger((n \div ChunkSize) - Len(cs), 0) |-> Hole] ELSE cs

\* The change, in one hold of FS.mu under openFile.mu; an inode that has gone
\* is refused.  The gate is released last.
truncate(p) ==
  LET o == of[p]
      n == call[p].off
      freed == Cardinality(DOMAIN dirty[o] \cap Beyond(n))
  IN /\ pc[p] = "lock"
     /\ call[p].kind = "truncate"
     /\ ofmu[o] = Nobody
     /\ \/ /\ linked
           /\ dirty' = [dirty EXCEPT ![o] = CutDirty(o, n)]
           /\ bytes' = [bytes EXCEPT ![o] = @ - freed]
           /\ used' = used - freed
           /\ pendingTrim' = [pendingTrim EXCEPT ![o] = CutTrims(o, n)]
           /\ unsettled' = [unsettled EXCEPT ![o] = @ \/ Unsettles(o, n)]
           /\ chunks' = Grow(CutChunks(n), n)
           /\ size' = n
           /\ markDirty
           /\ Becomes([i \in 0 .. MaxSize |->
                IF i > n THEN Absent ELSE IF held[i] = Absent THEN 0 ELSE held[i]])
        \/ /\ ~linked
           /\ UNCHANGED <<size, chunks, dirty, pendingTrim, unsettled, bytes,
                          used, nsDirty, changes, histVars>>
     /\ gateReaders' = gateReaders \ {p}
     /\ Goto(p, "idle")
     /\ Forget(p)
     /\ UNCHANGED <<linked, open, ofmu, commitMu, gateWriter, sealed,
                    sealedChanges, committed, bucket, load, faults>>

-----------------------------------------------------------------------------
(* Remove of the file's last name: unlink and dropOpen, one hold of FS.mu *)

\* Mutant: the buffers are dropped and stay charged.
unlinkKeepsCharge(p) ==
  /\ Asks(p, "unlink")
  /\ linked
  /\ linked' = FALSE
  /\ open' = 0
  /\ UNCHANGED <<used, bytes>>
  /\ markDirty
  /\ Becomes([i \in 0 .. MaxSize |-> Absent])
  /\ UNCHANGED <<size, chunks, dirty, pendingTrim, unsettled, ofmu, commitMu,
                 gateWriter, gateReaders, sealed, sealedChanges, committed,
                 bucket, threadVars, faults>>

unlink(p) ==
  /\ Asks(p, "unlink")
  /\ linked
  /\ linked' = FALSE
  /\ open' = 0
  /\ IF open = 0 THEN UNCHANGED <<used, bytes>>
     ELSE /\ used' = used - bytes[open]
          /\ bytes' = [bytes EXCEPT ![open] = 0]
  /\ markDirty
  /\ Becomes([i \in 0 .. MaxSize |-> Absent])
  /\ UNCHANGED <<size, chunks, dirty, pendingTrim, unsettled, ofmu, commitMu,
                 gateWriter, gateReaders, sealed, sealedChanges, committed,
                 bucket, threadVars, faults>>

-----------------------------------------------------------------------------
(* flushOpen, which commitFile, flushAll and settleAll call *)

\* Thread p flushes openFile o, and then goes on to label.
Flush(p, o, label) ==
  /\ of' = [of EXCEPT ![p] = o]
  /\ next' = [next EXCEPT ![p] = label]
  /\ Goto(p, "flush")

\* A flush of a Sync's settle pass holds commitMu and the gate.
ReleaseCommit(p) ==
  /\ commitMu' = IF commitMu = p THEN Nobody ELSE commitMu
  /\ gateWriter' = IF commitMu = p THEN "free" ELSE gateWriter

Trimmed(o) ==
  [idx \in DOMAIN pendingTrim[o] |->
     LET t == pendingTrim[o][idx]
     IN Stored(SubSeq(t.ref.data, 1, Smaller(t.to, Len(t.ref.data))))]
Uploaded(o) == [idx \in DOMAIN dirty[o] |-> Stored(dirty[o][idx])]

\* Mutant: a chunk of a length that is stored already is not uploaded.
UploadsSkipped(o) ==
  {d \in {Uploaded(o)[i].data : i \in DOMAIN dirty[o]} : Len(d) = ChunkSize}

\* The contents a flush puts under chunks/: the shortened chunks, then the
\* buffers.  One already there costs no upload.
Uploads(o) ==
  {Trimmed(o)[i].data : i \in DOMAIN pendingTrim[o]}
    \cup {Uploaded(o)[i].data : i \in DOMAIN dirty[o]}

\* Nothing to flush: only the mark is cleared.
flushNothing(p) ==
  LET o == of[p]
  IN /\ pc[p] = "flush"
     /\ ofmu[o] = Nobody
     /\ DOMAIN dirty[o] = {} /\ DOMAIN pendingTrim[o] = {}
     /\ unsettled' = [unsettled EXCEPT ![o] = FALSE]
     /\ Goto(p, next[p])
     /\ UNCHANGED <<inodeVars, open, dirty, pendingTrim, bytes, ofmu, used,
                    commitVars, bucket, call, of, refs, charge, taken, next,
                    histVars, load, faults>>

\* openFile.mu is taken, and everything uploaded.
flushUpload(p) ==
  LET o == of[p]
  IN /\ pc[p] = "flush"
     /\ ofmu[o] = Nobody
     /\ DOMAIN dirty[o] \cup DOMAIN pendingTrim[o] # {}
     /\ ofmu' = [ofmu EXCEPT ![o] = p]
     /\ bucket' = bucket \cup Uploads(o)
     /\ Goto(p, "repoint")
     /\ UNCHANGED <<inodeVars, open, dirty, pendingTrim, unsettled, bytes, used,
                    commitVars, call, of, refs, charge, taken, next, histVars,
                    load, faults>>

\* A fetch or an upload fails after some of the uploads.  The buffers stay
\* for the next flush, unless the inode has gone (dropIfGone).
flushFails(p) ==
  LET o == of[p]
  IN /\ pc[p] = "flush"
     /\ ofmu[o] = Nobody
     /\ DOMAIN dirty[o] \cup DOMAIN pendingTrim[o] # {}
     /\ Fault
     /\ \E some \in SUBSET Uploads(o) : bucket' = bucket \cup some
     /\ IF linked THEN UNCHANGED <<dirty, pendingTrim, bytes, used>>
        ELSE /\ dirty' = [dirty EXCEPT ![o] = NoFun]
             /\ pendingTrim' = [pendingTrim EXCEPT ![o] = NoFun]
             /\ used' = used - bytes[o]
             /\ bytes' = [bytes EXCEPT ![o] = 0]
     /\ ReleaseCommit(p)
     /\ Return(p)
     /\ UNCHANGED <<inodeVars, open, unsettled, ofmu, nsDirty, changes,
                    gateReaders, sealed, sealedChanges, committed, held,
                    sinceCut, load>>

\* The chunk list with the flush's references, gaps filled with holes.
Repointed(o) ==
  LET last == Max({Len(chunks)} \cup {idx + 1 : idx \in DOMAIN dirty[o]})
  IN [k \in 1 .. last |->
        IF k - 1 \in DOMAIN dirty[o] THEN Uploaded(o)[k - 1]
        ELSE IF k > Len(chunks) THEN Hole
        ELSE IF k - 1 \in DOMAIN pendingTrim[o] THEN Trimmed(o)[k - 1]
        ELSE chunks[k]]

\* The hold of FS.mu that repoints the chunk list and clears the mark.
flushRepoint(p) ==
  LET o == of[p]
  IN /\ pc[p] = "repoint"
     /\ IF linked THEN chunks' = Repointed(o) /\ markDirty
                  ELSE UNCHANGED <<chunks, nsDirty, changes>>
     /\ unsettled' = [unsettled EXCEPT ![o] = FALSE]
     /\ Goto(p, "reset")
     /\ UNCHANGED <<linked, size, open, dirty, pendingTrim, bytes, ofmu, used,
                    commitMu, gateWriter, gateReaders, sealed, sealedChanges,
                    committed, bucket, call, of, refs, charge, taken, next,
                    histVars, load, faults>>

flushReset(p) ==
  LET o == of[p]
  IN /\ pc[p] = "reset"
     /\ dirty' = [dirty EXCEPT ![o] = NoFun]
     /\ pendingTrim' = [pendingTrim EXCEPT ![o] = NoFun]
     /\ used' = used - bytes[o]
     /\ bytes' = [bytes EXCEPT ![o] = 0]
     /\ ofmu' = [ofmu EXCEPT ![o] = Nobody]
     /\ Goto(p, next[p])
     /\ UNCHANGED <<inodeVars, open, unsettled, commitVars, bucket, call, of,
                    refs, charge, taken, next, histVars, load, faults>>

-----------------------------------------------------------------------------
(* Commit, and Sync *)

StartCommit(p) ==
  /\ linked
  /\ Start(p, "commit", 0, 0, "commitFile")
  /\ sinceCall' = [sinceCall EXCEPT ![p] = Promise(held)]

StartSync(p) ==
  /\ Start(p, "sync", 0, 0, "flushAll")
  /\ sinceCall' = [sinceCall EXCEPT ![p] = Promise(held)]

UnchangedByList ==
  UNCHANGED <<inodeVars, openVars, used, bucket, call, refs, charge, taken,
              histVars, load, faults>>

\* A pass looks FS.open up, and flushes the entry if there is one.
commitFile(p) ==
  /\ pc[p] = "commitFile"
  /\ IF open # 0 THEN Flush(p, open, "flushAll")
     ELSE Goto(p, "flushAll") /\ UNCHANGED <<of, next>>
  /\ UnchangedByList
  /\ UNCHANGED commitVars

flushAll(p) ==
  /\ pc[p] = "flushAll"
  /\ IF open # 0 THEN Flush(p, open, "commitMu")
     ELSE Goto(p, "commitMu") /\ UNCHANGED <<of, next>>
  /\ UnchangedByList
  /\ UNCHANGED commitVars

\* commitMu is taken and the namespace is clean: Sync returns nil.
syncClean(p) ==
  /\ pc[p] = "commitMu"
  /\ commitMu = Nobody
  /\ ~nsDirty
  /\ Goto(p, "acked")
  /\ UnchangedByList
  /\ UNCHANGED <<of, next, commitVars>>

\* It is dirty: Sync waits for the gate, which lets no new truncate in.
syncDirty(p) ==
  /\ pc[p] = "commitMu"
  /\ commitMu = Nobody
  /\ nsDirty
  /\ commitMu' = p
  /\ gateWriter' = "waiting"
  /\ Goto(p, "gateLock")
  /\ UnchangedByList
  /\ UNCHANGED <<of, next, nsDirty, changes, gateReaders, sealed, sealedChanges,
                 committed>>

\* Mutant: the settle pass flushes nothing.
MarkedNone == FALSE

\* The file is one settleAll flushes.
Marked == open # 0 /\ unsettled[open]

\* The gate is held for writing, and settleAll lists the marked files.
settleAll(p) ==
  /\ pc[p] = "gateLock"
  /\ gateReaders = {}
  /\ gateWriter' = "held"
  /\ IF Marked THEN Flush(p, open, "seal")
     ELSE Goto(p, "seal") /\ UNCHANGED <<of, next>>
  /\ UnchangedByList
  /\ UNCHANGED <<nsDirty, changes, commitMu, gateReaders, sealed, sealedChanges,
                 committed>>

\* seal, which refuses a marked file; the gate is released.
seal(p) ==
  /\ pc[p] = "seal"
  /\ gateWriter' = "free"
  /\ IF open # 0 /\ unsettled[open]
     THEN /\ commitMu' = Nobody
          /\ Return(p)
          /\ UNCHANGED <<sealed, sealedChanges>>
     ELSE /\ sealed' = Inode
          /\ sealedChanges' = changes
          /\ Goto(p, "flight")
          /\ UNCHANGED <<commitMu, call, of, refs, charge, taken, next, sinceCall>>
  /\ UNCHANGED <<inodeVars, openVars, used, nsDirty, changes, gateReaders,
                 committed, bucket, held, sinceCut, load, faults>>

\* Mutant: the namespace is clean after a commit, whatever changed since.
flightCleans(p) ==
  /\ pc[p] = "flight"
  /\ committed' = sealed
  /\ nsDirty' = FALSE
  /\ commitMu' = Nobody
  /\ Goto(p, "acked")
  /\ UnchangedByList
  /\ UNCHANGED <<of, next, changes, gateWriter, gateReaders, sealed, sealedChanges>>

\* commitSealed succeeds: dirty is cleared if nothing changed since the seal.
flight(p) ==
  /\ pc[p] = "flight"
  /\ committed' = sealed
  /\ nsDirty' = (changes # sealedChanges)
  /\ commitMu' = Nobody
  /\ Goto(p, "acked")
  /\ UnchangedByList
  /\ UNCHANGED <<of, next, changes, gateWriter, gateReaders, sealed, sealedChanges>>

\* It fails, and leaves the namespace dirty.
flightFails(p) ==
  /\ pc[p] = "flight"
  /\ Fault
  /\ commitMu' = Nobody
  /\ Return(p)
  /\ UNCHANGED <<inodeVars, openVars, used, nsDirty, changes, gateWriter,
                 gateReaders, sealed, sealedChanges, committed, bucket, held,
                 sinceCut, load>>

\* The nil goes back to the client.
reply(p) ==
  /\ pc[p] = "acked"
  /\ Return(p)
  /\ UNCHANGED <<inodeVars, openVars, used, commitVars, bucket, held, sinceCut,
                 load, faults>>

-----------------------------------------------------------------------------
Call(p) == StartWrite(p) \/ StartTruncate(p) \/ StartCommit(p) \/ StartSync(p) \/ unlink(p)

Step(p) ==
  \/ getOpen(p) \/ bufferLock(p) \/ bufferFill(p) \/ bufferCharge(p) \/ bufferExtend(p)
  \/ gateRLock(p) \/ truncate(p)
  \/ flushNothing(p) \/ flushUpload(p) \/ flushRepoint(p) \/ flushReset(p)
  \/ commitFile(p) \/ flushAll(p) \/ syncClean(p) \/ syncDirty(p) \/ settleAll(p)
  \/ seal(p) \/ flight(p) \/ reply(p)

StoreFails(p) == bufferFillFails(p) \/ flushFails(p) \/ flightFails(p)

Idle == (\A p \in Proc : pc[p] = "idle") /\ UNCHANGED vars

Next == (\E p \in Proc : Call(p) \/ Step(p) \/ StoreFails(p)) \/ Idle

Spec == Init /\ [][Next]_vars

-----------------------------------------------------------------------------
(* Properties *)

Label == {"idle", "getOpen", "lock", "fill", "charge", "extend", "gate", "flush",
          "repoint", "reset", "commitFile", "flushAll", "commitMu", "gateLock",
          "seal", "flight", "acked"}
InodeType == [linked : BOOLEAN, size : 0 .. MaxSize, chunks : Seq(Ref)]

TypeOK ==
  /\ Inode \in InodeType
  /\ sealed \in InodeType
  /\ committed \in InodeType
  /\ open \in {0} \cup OpenFile
  /\ \A o \in OpenFile :
       /\ \A idx \in DOMAIN dirty[o] : idx \in Index /\ dirty[o][idx] \in Chunk
       /\ \A idx \in DOMAIN pendingTrim[o] :
            idx \in Index /\ pendingTrim[o][idx] \in [to : 1 .. ChunkSize - 1, ref : Ref]
  /\ unsettled \in [OpenFile -> BOOLEAN]
  /\ bytes \in [OpenFile -> 0 .. Cardinality(Index)]
  /\ ofmu \in [OpenFile -> Proc \cup {Nobody}]
  /\ used \in 0 .. 2 * Cardinality(Index)
  /\ nsDirty \in BOOLEAN
  /\ changes \in Nat /\ sealedChanges \in Nat
  /\ commitMu \in Proc \cup {Nobody}
  /\ gateWriter \in {"free", "waiting", "held"}
  /\ gateReaders \subseteq Proc
  /\ bucket \subseteq Chunk
  /\ pc \in [Proc -> Label]
  /\ of \in [Proc -> {0} \cup OpenFile]
  /\ \A p \in Proc : refs[p] \in Seq(Ref)

\* A Read that takes its view now returns exactly the bytes the writes and the
\* truncates before it left, for every range, wherever they are: in buffers,
\* in stored chunks, behind a pending trim or in a hole (Read, readBuffered,
\* bufferWrite, truncate, flushOpen).
ReadsHeld ==
  linked /\ (open = 0 \/ ofmu[open] = Nobody) =>
    /\ \A off \in 0 .. MaxSize, count \in 0 .. MaxSize :
         Read(off, count) = [k \in 1 .. Len(Read(off, count)) |-> held[off + k]]
    /\ \A off \in 0 .. MaxSize : (held[off] = Absent) <=> off > size

\* No commit names a byte that a truncate removed: each place of a sealed file
\* holds what it has held since it was last cut off, or a zero (truncate's
\* mark, settleAll, seal).
NoCutByteSealed ==
  [][sealed' # sealed => \A i \in 0 .. MaxSize : Image(sealed')[i] \in sinceCut[i]]_vars

\* A COMMIT, a stable WRITE or a Sync that returns nil finds the file in the
\* bucket as it was at some time since the call, place by place, the write's
\* own bytes included, whichever thread's commit stored it (Commit,
\* syncFileAndNamespace, Sync, flushAll).
CommitCovers ==
  \A p \in Proc : pc[p] = "acked" =>
    \A i \in 0 .. MaxSize : Image(committed)[i] \in sinceCall[p][i]

\* seal finds no file unsettled, so its refusal never happens: no truncate can
\* mark a file between the settle pass and the seal (commitGate, settleAll).
SealSettled ==
  \A p \in Proc : pc[p] = "seal" => ~(open # 0 /\ unsettled[open])

\* The budget counts exactly the buffers FS.open holds whenever no buffer is
\* being changed: every path that makes, drops or uploads one, and the unlink
\* that races it, settles its charge exactly once (bufferWrite, truncate,
\* flushOpen, dropIfGone, dropOpen).
ChargeExact ==
  (\A o \in OpenFile : ofmu[o] = Nobody) =>
    used = (IF open = 0 THEN 0 ELSE Cardinality(DOMAIN dirty[open]))

\* Every chunk the namespace, a sealed commit or a pending trim names is in
\* the bucket (flushOpen's order; Sync's durability argument).
RefsStored ==
  LET named == Range(chunks) \cup Range(sealed.chunks) \cup Range(committed.chunks)
                 \cup {t.ref : t \in UNION {Range(pendingTrim[o]) : o \in OpenFile}}
  IN \A r \in named : r.hole \/ r.data \in bucket

\* A pending trim stands for the chunk the list has at its index, which is
\* not buffered, and there is one at most (truncate, bufferWrite, flushOpen).
TrimsSound ==
  LET t == Trims IN
  linked /\ (open = 0 \/ ofmu[open] = Nobody) =>
    /\ Cardinality(DOMAIN t) <= 1
    /\ \A idx \in DOMAIN t :
         /\ idx \notin DOMAIN Dirty
         /\ idx < Len(chunks) /\ t[idx].ref = chunks[idx + 1]
         /\ unsettled[open]
=============================================================================
