--------------------------- MODULE FileDataSteps ----------------------------
(***************************************************************************)
(* What a step of FileData does to the locks, the gate, the marks and the  *)
(* entries of FS.open, and to the parts of a file that need no counting of *)
(* buffers: the lemmas that module FileDataProofs puts together.           *)
(*                                                                         *)
(* Control is proved from what one thread contributes to it (Own), the     *)
(* state the threads share (Shared), and the fact that a step changes only *)
(* its own thread's part in a way the others can rely on (Alone).          *)
(***************************************************************************)
EXTENDS FileDataInv, TLAPS

-----------------------------------------------------------------------------
(* Arithmetic of chunks *)

\* A size is an integer.
LEMMA NatInt == \A n \in Nat : n \in Int
  OBVIOUS

\* Division and remainder of an offset by the chunk size, which every offset
\* computation of fs.go rests on.
LEMMA Division ==
  ASSUME NEW a \in Nat
  PROVE  /\ a \div ChunkSize \in Nat
         /\ a % ChunkSize \in 0 .. ChunkSize - 1
         /\ (a \div ChunkSize) * ChunkSize \in Nat
         /\ a = (a \div ChunkSize) * ChunkSize + (a % ChunkSize)
<1>1. a \div ChunkSize \in Int /\ a % ChunkSize \in 0 .. ChunkSize - 1
  BY ConstantsAssumption
<1>2. a % ChunkSize = a - (a \div ChunkSize) * ChunkSize
  BY ConstantsAssumption
<1>3. \A q, r, c \in Int :
        c > 0 /\ r >= 0 /\ r < c /\ r = a - q * c => q \in Nat /\ q * c \in Nat /\ a = q * c + r
  OBVIOUS
<1>4. ChunkSize \in Int /\ ChunkSize > 0
  BY ConstantsAssumption
<1>5. a % ChunkSize \in Int /\ a % ChunkSize >= 0 /\ a % ChunkSize < ChunkSize
  BY <1>1, <1>4
<1> QED
  BY ONLY <1>1, <1>2, <1>3, <1>4, <1>5, Zenon

\* A place is a position of an index.
LEMMA PlaceIs ==
  ASSUME NEW i \in Nat \ {0}
  PROVE  /\ Idx(i) \in Nat
         /\ Pos(i) \in 1 .. ChunkSize
         /\ Idx(i) * ChunkSize \in Nat
         /\ i = Idx(i) * ChunkSize + Pos(i)
<1>1. i - 1 \in Nat
  OBVIOUS
<1>2. ChunkSize \in Nat \ {0}
  BY Zenon, ConstantsAssumption
<1> QED
  BY <1>1, <1>2, Division DEF Idx, Pos

\* An index ends before the next one starts.
LEMMA Before ==
  ASSUME NEW a \in Int, NEW b \in Int
  PROVE  /\ a * ChunkSize \in Int /\ b * ChunkSize \in Int
         /\ a < b => a * ChunkSize + ChunkSize <= b * ChunkSize
  BY ConstantsAssumption

\* How many chunks n bytes take, the expression truncate cuts the list with.
LEMMA Chunks ==
  ASSUME NEW n \in Nat
  PROVE  (n + ChunkSize - 1) \div ChunkSize
           = (n \div ChunkSize) + (IF n % ChunkSize = 0 THEN 0 ELSE 1)
  BY ConstantsAssumption

\* A place of the file is an offset after the first, up to its limit.
LEMMA PlaceIn ==
  ASSUME NEW i \in Place
  PROVE  i \in 0 .. MaxSize /\ i \in Int
  BY ConstantsAssumption DEF Place

\* A place of a file is a size but 0.
LEMMA PlaceOf ==
  ASSUME NEW i \in 0 .. MaxSize, i # 0
  PROVE  i \in Place
  BY ConstantsAssumption DEF Place

\* WriteAt clamps a write at the file's limit.
LEMMA Clamped ==
  ASSUME NEW off \in 0 .. MaxSize - 1, NEW len \in Nat \ {0}
  PROVE  /\ Smaller(len, MaxSize - off) \in Nat \ {0}
         /\ off + Smaller(len, MaxSize - off) <= MaxSize
  BY ConstantsAssumption DEF Smaller

\* An index past the one a size ends in starts at the size or after it.
LEMMA PastEnd ==
  ASSUME NEW n \in Nat, NEW i \in Int, n \div ChunkSize < i
  PROVE  ~(i * ChunkSize < n)
<1>1. n \div ChunkSize \in Int
  BY Zenon, Division, NatInt
<1>2. (n \div ChunkSize) * ChunkSize + ChunkSize <= i * ChunkSize /\ i * ChunkSize \in Int
  BY Zenon, <1>1, Before
<1>3. /\ (n \div ChunkSize) * ChunkSize \in Nat /\ n % ChunkSize \in 0 .. ChunkSize - 1
      /\ n = (n \div ChunkSize) * ChunkSize + (n % ChunkSize) /\ ChunkSize \in Nat /\ n \in Nat
  BY Zenon, Division, ConstantsAssumption
<1>4. n % ChunkSize \in Int /\ n % ChunkSize < ChunkSize /\ (n \div ChunkSize) * ChunkSize \in Int
  BY <1>3
<1>5. \A a, b, c, r \in Int : a + c <= b /\ r < c /\ n = a + r => ~(b < n)
  OBVIOUS
<1>6. ChunkSize \in Int
  BY Zenon, <1>3, NatInt
<1> QED
  BY Zenon, <1>2, <1>3, <1>4, <1>5, <1>6

\* A place of a list, counted from 0 as the indices are.
LEMMA ListPlace ==
  ASSUME NEW S, NEW s \in Seq(S)
  PROVE  /\ Len(s) \in Nat
         /\ \A i \in Nat : i + 1 \in DOMAIN s <=> i < Len(s)
         /\ \A k \in DOMAIN s : /\ k \in Nat /\ k - 1 \in Nat /\ k - 1 < Len(s) /\ k = (k - 1) + 1
                               /\ \A i \in Nat : k > i + 1 => k - 1 > i
  OBVIOUS

\* A whole write takes a part of itself.
LEMMA WholePart ==
  ASSUME NEW len \in Nat \ {0}
  PROVE  len \in 1 .. len
  OBVIOUS

-----------------------------------------------------------------------------
(* Locks, entries and marks *)

\* FS.open holds the entry of the file and, once it is unlinked, a second one.
LEMMA OpenFiles == OpenFile = {1, 2}
  BY DEF OpenFile

\* A free lock is held by no thread.
LEMMA NobodyFree == Nobody \notin Proc
  BY Zenon, ConstantsAssumption

Only(p) ==
  \A q \in Proc \ {p} :
    /\ pc'[q] = pc[q] /\ call'[q] = call[q] /\ of'[q] = of[q] /\ next'[q] = next[q]
    /\ refs'[q] = refs[q] /\ charge'[q] = charge[q] /\ taken'[q] = taken[q]

\* A thread at a label past getOpen has the file's entry while it is linked.
LEMMA AtFirst ==
  ASSUME Inv, NEW p \in Proc, linked, pc[p] \in {"lock", "flush", "repoint"}
  PROVE  of[p] = 1
<1>1. of[p] \in OpenFile
  BY Zenon DEF Inv, LockInv, Holds
<1>2. of[p] # 2
  BY Zenon DEF Inv, EntryInv
<1> QED
  BY Zenon, <1>1, <1>2, OpenFiles

\* A step of one thread leaves the locals of the others alone.
LEMMA OthersKept ==
  ASSUME Inv, NEW p \in Proc, Call(p) \/ Step(p) \/ StoreFails(p)
  PROVE  Only(p)
<1>1. /\ DOMAIN pc = Proc /\ DOMAIN call = Proc /\ DOMAIN of = Proc /\ DOMAIN next = Proc
      /\ DOMAIN refs = Proc /\ DOMAIN charge = Proc /\ DOMAIN taken = Proc
  BY Zenon DEF Inv, ThreadTypes, AskTypes, LocalTypes
<1>2. CASE StartWrite(p)
  BY Zenon, <1>1, <1>2 DEF StartWrite, Start, Asks, Goto, threadVars, Only
<1>3. CASE StartTruncate(p)
  BY Zenon, <1>1, <1>3 DEF StartTruncate, Start, Asks, Goto, threadVars, Only
<1>4. CASE StartCommit(p)
  BY Zenon, <1>1, <1>4 DEF StartCommit, Start, Asks, Goto, threadVars, Only
<1>5. CASE StartSync(p)
  BY Zenon, <1>1, <1>5 DEF StartSync, Start, Asks, Goto, threadVars, Only
<1>6. CASE unlink(p)
  BY Zenon, <1>1, <1>6 DEF unlink, Asks, threadVars, Only
<1>7. CASE getOpen(p)
  BY Zenon, <1>1, <1>7 DEF getOpen, Goto, threadVars, Only
<1>8. CASE bufferLock(p)
  BY Zenon, <1>1, <1>8 DEF bufferLock, Goto, threadVars, Only
<1>9. CASE bufferFill(p)
  BY Zenon, <1>1, <1>9 DEF bufferFill, Take, Goto, threadVars, Only
<1>10. CASE bufferCharge(p)
  BY Zenon, <1>1, <1>10 DEF bufferCharge, Goto, threadVars, Only
<1>11. CASE bufferExtend(p)
  BY <1>1, <1>11 DEF bufferExtend, Goto, Forget, threadVars, Only
<1>12. CASE gateRLock(p)
  BY Zenon, <1>1, <1>12 DEF gateRLock, Goto, threadVars, Only
<1>13. CASE truncate(p)
  BY Zenon, <1>1, <1>13 DEF truncate, Goto, Forget, threadVars, Only
<1>14. CASE flushNothing(p)
  BY Zenon, <1>1, <1>14 DEF flushNothing, Goto, threadVars, Only
<1>15. CASE flushUpload(p)
  BY Zenon, <1>1, <1>15 DEF flushUpload, Goto, threadVars, Only
<1>16. CASE flushRepoint(p)
  BY Zenon, <1>1, <1>16 DEF flushRepoint, Goto, threadVars, Only
<1>17. CASE flushReset(p)
  BY Zenon, <1>1, <1>17 DEF flushReset, Goto, threadVars, Only
<1>18. CASE commitFile(p)
  BY Zenon, <1>1, <1>18 DEF commitFile, Flush, Goto, UnchangedByList, threadVars, Only
<1>19. CASE flushAll(p)
  BY Zenon, <1>1, <1>19 DEF flushAll, Flush, Goto, UnchangedByList, threadVars, Only
<1>20. CASE syncClean(p)
  BY Zenon, <1>1, <1>20 DEF syncClean, Goto, UnchangedByList, threadVars, Only
<1>21. CASE syncDirty(p)
  BY Zenon, <1>1, <1>21 DEF syncDirty, Goto, UnchangedByList, threadVars, Only
<1>22. CASE settleAll(p)
  BY Zenon, <1>1, <1>22 DEF settleAll, Flush, Goto, UnchangedByList, threadVars, Only
<1>23. CASE seal(p)
  BY Zenon, <1>1, <1>23 DEF seal, Goto, Return, Forget, threadVars, Only
<1>24. CASE flight(p)
  BY Zenon, <1>1, <1>24 DEF flight, Goto, UnchangedByList, threadVars, Only
<1>25. CASE reply(p)
  BY Zenon, <1>1, <1>25 DEF reply, Return, Goto, Forget, threadVars, Only
<1>26. CASE bufferFillFails(p)
  BY <1>1, <1>26 DEF bufferFillFails, Take, Goto, Return, Forget, threadVars, Only
<1>27. CASE flushFails(p)
  BY Zenon, <1>1, <1>27 DEF flushFails, Return, Goto, Forget, threadVars, Only
<1>28. CASE flightFails(p)
  BY Zenon, <1>1, <1>28 DEF flightFails, Return, Goto, Forget, threadVars, Only
<1> QED
  BY Zenon, <1>2, <1>3, <1>4, <1>5, <1>6, <1>7, <1>8, <1>9, <1>10, <1>11, <1>12, <1>13,
     <1>14, <1>15, <1>16, <1>17, <1>18, <1>19, <1>20, <1>21, <1>22, <1>23, <1>24, <1>25,
     <1>26, <1>27, <1>28 DEF Call, Step, StoreFails

\* The indices are numbers.
LEMMA IndexNat == Index \subseteq Nat
<1>1. (MaxSize - 1) \div ChunkSize \in Int
  BY ConstantsAssumption
<1> QED
  BY <1>1 DEF Index

\* A write whose fetch fails is cut short, or takes nothing.
FillsShort(p) ==
  /\ \E n \in 1 .. call[p].len : Whole(p, n) /\ Take(p, n)
  /\ Goto(p, "charge")
  /\ call' = call /\ of' = of /\ refs' = refs /\ next' = next /\ ofmu' = ofmu
  /\ sinceCall' = sinceCall
FillsNothing(p) ==
  /\ ofmu' = [ofmu EXCEPT ![of[p]] = Nobody]
  /\ Return(p)
  /\ dirty' = dirty /\ pendingTrim' = pendingTrim /\ used' = used

\* A fetch that fails cuts the write short or refuses it (bufferWrite).
LEMMA FillFails ==
  ASSUME Inv, NEW p \in Proc, bufferFillFails(p)
  PROVE  FillsShort(p) \/ FillsNothing(p)
<1> DEFINE n(idx) == Larger(idx * ChunkSize - call[p].off, 0)
<1>1. PICK idx \in Index :
        /\ idx * ChunkSize < call[p].off + call[p].len
        /\ \/ n(idx) > 0 /\ Take(p, n(idx)) /\ Goto(p, "charge")
              /\ UNCHANGED <<call, of, refs, next, ofmu, sinceCall>>
           \/ FillsNothing(p)
  BY Zenon DEF bufferFillFails, FillsNothing
<1>2. CASE FillsNothing(p)
  BY Zenon, <1>2
<1>3. CASE ~FillsNothing(p)
  <2>1. pc[p] = "fill" /\ call[p].off \in Nat /\ call[p].len \in Nat
    BY ConstantsAssumption DEF bufferFillFails, Inv, AskTypes, CallType
  <2>2. idx \in Int /\ idx * ChunkSize \in Int
    BY Before, ConstantsAssumption DEF Index
  <2>3. n(idx) > 0 => n(idx) \in 1 .. call[p].len /\ call[p].off + n(idx) = idx * ChunkSize
    BY <1>1, <2>1, <2>2 DEF Larger
  <2>4. n(idx) > 0 => Whole(p, n(idx))
    BY Zenon, <2>3, IndexNat DEF Whole
  <2> QED
    BY <1>1, <1>3, <2>3, <2>4, Zenon DEF FillsShort
<1> QED
  BY Zenon, <1>2, <1>3

\* What Control says of thread p, and of the locks and the entry alone.
Own(p) ==
  /\ pc[p] \in Holds => of[p] \in OpenFile /\ ofmu[of[p]] = p
  /\ pc[p] \in {"lock", "flush"} => of[p] \in OpenFile
  /\ \A o \in OpenFile : ofmu[o] = p => pc[p] \in Holds /\ of[p] = o
  /\ pc[p] \in {"getOpen", "lock"} => call[p].kind \in Writes \cup {"truncate"}
  /\ pc[p] = "gate" => call[p].kind = "truncate"
  /\ pc[p] \in {"fill", "charge", "extend"} => call[p].kind \in Writes
  /\ pc[p] \in {"fill", "charge"} => of[p] = 1
  /\ pc[p] \in Flushing => next[p] \in {"flushAll", "commitMu", "seal"}
  /\ p \in gateReaders <=> pc[p] \in {"getOpen", "lock"} /\ call[p].kind = "truncate"
  /\ commitMu = p <=> pc[p] \in {"gateLock", "seal", "flight"} \/ Settling(p)
  /\ pc[p] = "gateLock" => gateWriter = "waiting"
  /\ pc[p] = "flight" => gateWriter = "free"
  /\ pc[p] = "seal" \/ Settling(p) => gateWriter = "held"
  /\ of[p] = 1 => open = 1 \/ ~linked
  /\ of[p] = 2 => open = 2
  /\ pc[p] = "seal" \/ (pc[p] = "reset" /\ Settling(p)) => ~Marked
  /\ Settling(p) /\ Marked => of[p] = open
Shared ==
  /\ commitMu = Nobody => gateWriter = "free"
  /\ gateWriter = "held" => gateReaders = {}
  /\ open = 1 => linked
  /\ open = 2 => ~linked

\* The control part of the invariant, by thread.
LEMMA ControlParts ==
  /\ Control <=> Shared /\ \A p \in Proc : Own(p)
  /\ Control' <=> Shared' /\ \A p \in Proc : Own(p)'
  BY SMT DEF Control, LockInv, GateInv, EntryInv, MarkInv, Shared, Own, Marked

\* A step of p takes and leaves locks for itself only, moves the gate only as
\* the holder of commitMu, and marks no file while the gate is held.
Alone(p) ==
  /\ \A o \in OpenFile :
       ofmu'[o] = ofmu[o] \/ (ofmu[o] \in {p, Nobody} /\ ofmu'[o] \in {p, Nobody})
  /\ \A q \in Proc \ {p} : q \in gateReaders' <=> q \in gateReaders
  /\ commitMu' = commitMu \/ (commitMu \in {p, Nobody} /\ commitMu' \in {p, Nobody})
  /\ gateWriter' = gateWriter \/ commitMu = p \/ commitMu' = p
  /\ open' = open \/ open = 0 \/ (open' = 0 /\ linked /\ ~linked')
  /\ linked' => linked
  /\ Marked' => (Marked /\ open' = open) \/ gateWriter # "held"

\* A step that respects the others' locks keeps the part of every thread that does not take it.
LEMMA Bystanders ==
  ASSUME Control, NEW p \in Proc, Only(p), Alone(p), NEW q \in Proc, q # p
  PROVE  Own(q)'
<1>1. Own(q) /\ Shared
  BY Zenon, ControlParts
<1>2. pc'[q] = pc[q] /\ call'[q] = call[q] /\ of'[q] = of[q] /\ next'[q] = next[q]
  BY Zenon DEF Only
<1>3. q # Nobody
  BY Zenon, NobodyFree
<1> QED
  BY <1>1, <1>2, <1>3 DEF Alone, Own, Shared, Settling

\* Every step keeps the locks, the gate, the entries and the marks right.
LEMMA ControlStep ==
  ASSUME Inv, NEW p \in Proc, Call(p) \/ Step(p) \/ StoreFails(p)
  PROVE  Control'
<1>1. Only(p)
  BY Zenon, OthersKept
<1>0. /\ Own(p) /\ Shared
      /\ linked \in BOOLEAN /\ of[p] \in {0, 1, 2} /\ open \in {0, 1, 2}
      /\ ofmu \in [{1, 2} -> Proc \cup {Nobody}] /\ unsettled \in [{1, 2} -> BOOLEAN]
      /\ unsettled[2] = FALSE /\ (linked /\ open = 0 => unsettled[1] = FALSE)
  BY ControlParts DEF Inv, Control, ThreadTypes, OpenFile, FreshInv, Untouched
<1>2. CASE StartWrite(p)
  <2>1. /\ pc[p] = "idle" /\ pc'[p] = "getOpen" /\ of'[p] = of[p] /\ next'[p] = next[p]
        /\ call'[p].kind \in Writes /\ linked' = linked /\ open' = open
        /\ unsettled' = unsettled /\ ofmu' = ofmu /\ commitMu' = commitMu
        /\ gateWriter' = gateWriter /\ gateReaders' = gateReaders
    BY <1>2 DEF StartWrite, Start, Asks, Goto, inodeVars, openVars, commitVars,
       threadVars, Writes, Inv, ThreadTypes, AskTypes
  <2>2. Own(p)' /\ Shared'
    BY Zenon, <1>0, <2>1, NobodyFree DEF Own, Shared, Holds, Flushing, Settling, Writes,
       OpenFile, Marked, NoCall
  <2>3. Alone(p)
    BY Zenon, <2>1 DEF Alone, Marked
  <2> QED
    BY Zenon, <1>1, <2>2, <2>3, Bystanders, ControlParts DEF Inv, Control
<1>3. CASE StartTruncate(p)
  <2>1. /\ pc[p] = "idle" /\ pc'[p] = "gate" /\ of'[p] = of[p] /\ next'[p] = next[p]
        /\ call'[p].kind = "truncate" /\ linked' = linked /\ open' = open
        /\ unsettled' = unsettled /\ ofmu' = ofmu /\ commitMu' = commitMu
        /\ gateWriter' = gateWriter /\ gateReaders' = gateReaders
    BY <1>3 DEF StartTruncate, Start, Asks, Goto, inodeVars, openVars, commitVars,
       threadVars, Inv, ThreadTypes, AskTypes
  <2>2. Own(p)' /\ Shared'
    BY Zenon, <1>0, <2>1, NobodyFree DEF Own, Shared, Holds, Flushing, Settling, Writes,
       OpenFile, Marked, NoCall
  <2>3. Alone(p)
    BY Zenon, <2>1 DEF Alone, Marked
  <2> QED
    BY Zenon, <1>1, <2>2, <2>3, Bystanders, ControlParts DEF Inv, Control
<1>4. CASE StartCommit(p)
  <2>1. /\ pc[p] = "idle" /\ pc'[p] = "commitFile" /\ of'[p] = of[p]
        /\ next'[p] = next[p] /\ linked' = linked /\ open' = open
        /\ unsettled' = unsettled /\ ofmu' = ofmu /\ commitMu' = commitMu
        /\ gateWriter' = gateWriter /\ gateReaders' = gateReaders
    BY Zenon, <1>4 DEF StartCommit, Start, Asks, Goto, inodeVars, openVars, commitVars,
       threadVars, Inv, ThreadTypes, AskTypes
  <2>2. Own(p)' /\ Shared'
    BY Zenon, <1>0, <2>1, NobodyFree DEF Own, Shared, Holds, Flushing, Settling, Writes,
       OpenFile, Marked, NoCall
  <2>3. Alone(p)
    BY Zenon, <2>1 DEF Alone, Marked
  <2> QED
    BY Zenon, <1>1, <2>2, <2>3, Bystanders, ControlParts DEF Inv, Control
<1>5. CASE StartSync(p)
  <2>1. /\ pc[p] = "idle" /\ pc'[p] = "flushAll" /\ of'[p] = of[p] /\ next'[p] = next[p]
        /\ linked' = linked /\ open' = open /\ unsettled' = unsettled /\ ofmu' = ofmu
        /\ commitMu' = commitMu /\ gateWriter' = gateWriter /\ gateReaders' = gateReaders
    BY Zenon, <1>5 DEF StartSync, Start, Asks, Goto, inodeVars, openVars, commitVars,
       threadVars, Inv, ThreadTypes, AskTypes
  <2>2. Own(p)' /\ Shared'
    BY Zenon, <1>0, <2>1, NobodyFree DEF Own, Shared, Holds, Flushing, Settling, Writes,
       OpenFile, Marked, NoCall
  <2>3. Alone(p)
    BY Zenon, <2>1 DEF Alone, Marked
  <2> QED
    BY Zenon, <1>1, <2>2, <2>3, Bystanders, ControlParts DEF Inv, Control
<1>6. CASE unlink(p)
  <2>1. /\ linked /\ ~linked' /\ open' = 0 /\ pc' = pc /\ of' = of /\ next' = next
        /\ call' = call /\ unsettled' = unsettled /\ ofmu' = ofmu /\ commitMu' = commitMu
        /\ gateWriter' = gateWriter /\ gateReaders' = gateReaders
    BY Zenon, <1>6 DEF unlink, Asks, markDirty, inodeVars, openVars, commitVars,
       threadVars, Inv, ThreadTypes, AskTypes
  <2>2. Own(p)' /\ Shared'
    BY <1>0, <2>1, NobodyFree DEF Own, Shared, Holds, Flushing, Settling, Writes,
       OpenFile, Marked, NoCall
  <2>3. Alone(p)
    BY Zenon, <2>1 DEF Alone, Marked
  <2> QED
    BY Zenon, <1>1, <2>2, <2>3, Bystanders, ControlParts DEF Inv, Control
<1>7. CASE getOpen(p)
  <2>1. /\ pc[p] = "getOpen" /\ pc'[p] = "lock" /\ next'[p] = next[p]
        /\ call'[p] = call[p] /\ of'[p] = open' /\ (open # 0 => open' = open)
        /\ (open = 0 /\ linked => open' = 1) /\ (open = 0 /\ ~linked => open' = 2)
        /\ linked' = linked /\ unsettled' = unsettled /\ ofmu' = ofmu
        /\ commitMu' = commitMu /\ gateWriter' = gateWriter /\ gateReaders' = gateReaders
    BY Zenon, <1>7 DEF getOpen, Goto, inodeVars, openVars, commitVars, threadVars, Inv,
       ThreadTypes, AskTypes
  <2>2. Own(p)' /\ Shared'
    BY <1>0, <2>1, NobodyFree DEF Own, Shared, Holds, Flushing, Settling, Writes,
       OpenFile, Marked, NoCall
  <2>3. Alone(p)
    BY Zenon, <1>0, <2>1, NobodyFree DEF Alone, Own, Shared, Holds, Flushing, Settling,
       OpenFile, Marked
  <2> QED
    BY Zenon, <1>1, <2>2, <2>3, Bystanders, ControlParts DEF Inv, Control
<1>8. CASE bufferLock(p)
  <2>1. /\ pc[p] = "lock" /\ call[p].kind \in Writes /\ pc'[p] \in {"fill", "extend"}
        /\ (pc'[p] = "fill" => linked) /\ of'[p] = of[p] /\ next'[p] = next[p]
        /\ call'[p] = call[p] /\ ofmu[of[p]] = Nobody
        /\ ofmu' = [ofmu EXCEPT ![of[p]] = p] /\ linked' = linked /\ open' = open
        /\ unsettled' = unsettled /\ commitMu' = commitMu /\ gateWriter' = gateWriter
        /\ gateReaders' = gateReaders
    BY Zenon, <1>8 DEF bufferLock, Goto, inodeVars, openVars, commitVars, threadVars,
       Writes, Inv, ThreadTypes, AskTypes
  <2>2. Own(p)' /\ Shared'
    BY <1>0, <2>1, NobodyFree DEF Own, Shared, Holds, Flushing, Settling, Writes,
       OpenFile, Marked, NoCall
  <2>3. Alone(p)
    BY <1>0, <2>1, NobodyFree DEF Alone, Own, Shared, Holds, Flushing, Settling,
       OpenFile, Marked
  <2> QED
    BY Zenon, <1>1, <2>2, <2>3, Bystanders, ControlParts DEF Inv, Control
<1>9. CASE bufferFill(p)
  <2>1. /\ pc[p] = "fill" /\ pc'[p] = "charge" /\ of'[p] = of[p] /\ next'[p] = next[p]
        /\ call'[p] = call[p] /\ linked' = linked /\ open' = open
        /\ unsettled' = unsettled /\ ofmu' = ofmu /\ commitMu' = commitMu
        /\ gateWriter' = gateWriter /\ gateReaders' = gateReaders
    BY Zenon, <1>9 DEF bufferFill, Goto, inodeVars, openVars, commitVars, threadVars,
       Inv, ThreadTypes, AskTypes
  <2>2. Own(p)' /\ Shared'
    BY Zenon, <1>0, <2>1, NobodyFree DEF Own, Shared, Holds, Flushing, Settling, Writes,
       OpenFile, Marked, NoCall
  <2>3. Alone(p)
    BY Zenon, <2>1 DEF Alone, Marked
  <2> QED
    BY Zenon, <1>1, <2>2, <2>3, Bystanders, ControlParts DEF Inv, Control
<1>10. CASE bufferCharge(p)
  <2>1. /\ pc[p] = "charge" /\ pc'[p] = "extend" /\ of'[p] = of[p] /\ next'[p] = next[p]
        /\ call'[p] = call[p] /\ linked' = linked /\ open' = open
        /\ unsettled' = unsettled /\ ofmu' = ofmu /\ commitMu' = commitMu
        /\ gateWriter' = gateWriter /\ gateReaders' = gateReaders
    BY Zenon, <1>10 DEF bufferCharge, Goto, inodeVars, openVars, commitVars, threadVars,
       Inv, ThreadTypes, AskTypes
  <2>2. Own(p)' /\ Shared'
    BY Zenon, <1>0, <2>1, NobodyFree DEF Own, Shared, Holds, Flushing, Settling, Writes,
       OpenFile, Marked, NoCall
  <2>3. Alone(p)
    BY Zenon, <2>1 DEF Alone, Marked
  <2> QED
    BY Zenon, <1>1, <2>2, <2>3, Bystanders, ControlParts DEF Inv, Control
<1>11. CASE bufferExtend(p)
  <2>1. /\ pc[p] = "extend" /\ pc'[p] \in {"idle", "commitFile"} /\ of'[p] \in {0, of[p]}
        /\ next'[p] \in {"idle", next[p]} /\ ofmu' = [ofmu EXCEPT ![of[p]] = Nobody]
        /\ linked' = linked /\ open' = open /\ unsettled' = unsettled
        /\ commitMu' = commitMu /\ gateWriter' = gateWriter /\ gateReaders' = gateReaders
    BY Zenon, <1>11 DEF bufferExtend, markDirty, Goto, Forget, inodeVars, openVars,
       commitVars, threadVars, Inv, ThreadTypes, AskTypes, MarkInv
  <2>2. Own(p)' /\ Shared'
    BY <1>0, <2>1, NobodyFree DEF Own, Shared, Holds, Flushing, Settling, Writes,
       OpenFile, Marked, NoCall
  <2>3. Alone(p)
    BY <1>0, <2>1, NobodyFree DEF Alone, Own, Shared, Holds, Flushing, Settling,
       OpenFile, Marked
  <2> QED
    BY Zenon, <1>1, <2>2, <2>3, Bystanders, ControlParts DEF Inv, Control
<1>12. CASE gateRLock(p)
  <2>1. /\ pc[p] = "gate" /\ pc'[p] = "getOpen" /\ of'[p] = of[p] /\ next'[p] = next[p]
        /\ call'[p] = call[p] /\ gateWriter = "free"
        /\ gateReaders' = gateReaders \cup {p} /\ linked' = linked /\ open' = open
        /\ unsettled' = unsettled /\ ofmu' = ofmu /\ commitMu' = commitMu
        /\ gateWriter' = gateWriter
    BY Zenon, <1>12 DEF gateRLock, Goto, inodeVars, openVars, commitVars, threadVars,
       Inv, ThreadTypes, AskTypes
  <2>2. Own(p)' /\ Shared'
    BY Zenon, <1>0, <2>1, NobodyFree DEF Own, Shared, Holds, Flushing, Settling, Writes,
       OpenFile, Marked, NoCall
  <2>3. Alone(p)
    BY Zenon, <2>1 DEF Alone, Marked
  <2> QED
    BY Zenon, <1>1, <2>2, <2>3, Bystanders, ControlParts DEF Inv, Control
<1>13. CASE truncate(p)
  <2>1. /\ pc[p] = "lock" /\ call[p].kind = "truncate" /\ pc'[p] = "idle" /\ of'[p] = 0
        /\ next'[p] = "idle" /\ call'[p] = NoCall /\ gateReaders' = gateReaders \ {p}
        /\ (unsettled' = unsettled \/ linked) /\ unsettled'[2] = unsettled[2]
        /\ linked' = linked /\ open' = open /\ ofmu' = ofmu /\ commitMu' = commitMu
        /\ gateWriter' = gateWriter
    BY <1>13 DEF truncate, markDirty, Goto, Forget, inodeVars, openVars, commitVars,
       threadVars, Inv, ThreadTypes, AskTypes, EntryInv, OpenFile
  <2>2. Own(p)' /\ Shared'
    BY <1>0, <2>1, NobodyFree DEF Own, Shared, Holds, Flushing, Settling, Writes,
       OpenFile, Marked, NoCall
  <2>3. Alone(p)
    BY Zenon, <1>0, <2>1, NobodyFree DEF Alone, Own, Shared, Holds, Flushing, Settling,
       OpenFile, Marked
  <2> QED
    BY Zenon, <1>1, <2>2, <2>3, Bystanders, ControlParts DEF Inv, Control
<1>14. CASE flushNothing(p)
  <2>1. /\ pc[p] = "flush" /\ pc'[p] = next[p] /\ of'[p] = of[p] /\ next'[p] = next[p]
        /\ call'[p] = call[p] /\ ofmu[of[p]] = Nobody
        /\ unsettled' = [unsettled EXCEPT ![of[p]] = FALSE] /\ linked' = linked
        /\ open' = open /\ ofmu' = ofmu /\ commitMu' = commitMu
        /\ gateWriter' = gateWriter /\ gateReaders' = gateReaders
    BY Zenon, <1>14 DEF flushNothing, Goto, inodeVars, openVars, commitVars, threadVars,
       Inv, ThreadTypes, AskTypes
  <2>2. Own(p)' /\ Shared'
    BY Zenon, <1>0, <2>1, NobodyFree DEF Own, Shared, Holds, Flushing, Settling, Writes,
       OpenFile, Marked, NoCall
  <2>3. Alone(p)
    BY Zenon, <1>0, <2>1, NobodyFree DEF Alone, Own, Shared, Holds, Flushing, Settling,
       OpenFile, Marked
  <2> QED
    BY Zenon, <1>1, <2>2, <2>3, Bystanders, ControlParts DEF Inv, Control
<1>15. CASE flushUpload(p)
  <2>1. /\ pc[p] = "flush" /\ pc'[p] = "repoint" /\ of'[p] = of[p] /\ next'[p] = next[p]
        /\ call'[p] = call[p] /\ ofmu[of[p]] = Nobody
        /\ ofmu' = [ofmu EXCEPT ![of[p]] = p] /\ linked' = linked /\ open' = open
        /\ unsettled' = unsettled /\ commitMu' = commitMu /\ gateWriter' = gateWriter
        /\ gateReaders' = gateReaders
    BY Zenon, <1>15 DEF flushUpload, Goto, inodeVars, openVars, commitVars, threadVars,
       Inv, ThreadTypes, AskTypes
  <2>2. Own(p)' /\ Shared'
    BY <1>0, <2>1, NobodyFree DEF Own, Shared, Holds, Flushing, Settling, Writes,
       OpenFile, Marked, NoCall
  <2>3. Alone(p)
    BY <1>0, <2>1, NobodyFree DEF Alone, Own, Shared, Holds, Flushing, Settling,
       OpenFile, Marked
  <2> QED
    BY Zenon, <1>1, <2>2, <2>3, Bystanders, ControlParts DEF Inv, Control
<1>16. CASE flushRepoint(p)
  <2>1. /\ pc[p] = "repoint" /\ pc'[p] = "reset" /\ of'[p] = of[p] /\ next'[p] = next[p]
        /\ call'[p] = call[p] /\ unsettled' = [unsettled EXCEPT ![of[p]] = FALSE]
        /\ linked' = linked /\ open' = open /\ ofmu' = ofmu /\ commitMu' = commitMu
        /\ gateWriter' = gateWriter /\ gateReaders' = gateReaders
    BY Zenon, <1>16 DEF flushRepoint, markDirty, Goto, inodeVars, openVars, commitVars,
       threadVars, Inv, ThreadTypes, AskTypes
  <2>2. Own(p)' /\ Shared'
    BY Zenon, <1>0, <2>1, NobodyFree DEF Own, Shared, Holds, Flushing, Settling, Writes,
       OpenFile, Marked, NoCall
  <2>3. Alone(p)
    BY Zenon, <1>0, <2>1, NobodyFree DEF Alone, Own, Shared, Holds, Flushing, Settling,
       OpenFile, Marked
  <2> QED
    BY Zenon, <1>1, <2>2, <2>3, Bystanders, ControlParts DEF Inv, Control
<1>17. CASE flushReset(p)
  <2>1. /\ pc[p] = "reset" /\ pc'[p] = next[p] /\ of'[p] = of[p] /\ next'[p] = next[p]
        /\ call'[p] = call[p] /\ ofmu' = [ofmu EXCEPT ![of[p]] = Nobody]
        /\ linked' = linked /\ open' = open /\ unsettled' = unsettled
        /\ commitMu' = commitMu /\ gateWriter' = gateWriter /\ gateReaders' = gateReaders
    BY Zenon, <1>17 DEF flushReset, Goto, inodeVars, openVars, commitVars, threadVars,
       Inv, ThreadTypes, AskTypes
  <2>2. Own(p)' /\ Shared'
    BY <1>0, <2>1, NobodyFree DEF Own, Shared, Holds, Flushing, Settling, Writes,
       OpenFile, Marked, NoCall
  <2>3. Alone(p)
    BY <1>0, <2>1, NobodyFree DEF Alone, Own, Shared, Holds, Flushing, Settling,
       OpenFile, Marked
  <2> QED
    BY Zenon, <1>1, <2>2, <2>3, Bystanders, ControlParts DEF Inv, Control
<1>18. CASE commitFile(p)
  <2>1. /\ pc[p] = "commitFile"
        /\ (open # 0 => pc'[p] = "flush" /\ of'[p] = open /\ next'[p] = "flushAll")
        /\ (open = 0 => pc'[p] = "flushAll" /\ of'[p] = of[p] /\ next'[p] = next[p])
        /\ call'[p] = call[p] /\ linked' = linked /\ open' = open
        /\ unsettled' = unsettled /\ ofmu' = ofmu /\ commitMu' = commitMu
        /\ gateWriter' = gateWriter /\ gateReaders' = gateReaders
    BY Zenon, <1>18 DEF commitFile, Flush, Goto, UnchangedByList, inodeVars, openVars,
       commitVars, threadVars, Inv, ThreadTypes, AskTypes
  <2>2. Own(p)' /\ Shared'
    BY <1>0, <2>1, NobodyFree DEF Own, Shared, Holds, Flushing, Settling, Writes,
       OpenFile, Marked, NoCall
  <2>3. Alone(p)
    BY Zenon, <2>1 DEF Alone, Marked
  <2> QED
    BY Zenon, <1>1, <2>2, <2>3, Bystanders, ControlParts DEF Inv, Control
<1>19. CASE flushAll(p)
  <2>1. /\ pc[p] = "flushAll"
        /\ (open # 0 => pc'[p] = "flush" /\ of'[p] = open /\ next'[p] = "commitMu")
        /\ (open = 0 => pc'[p] = "commitMu" /\ of'[p] = of[p] /\ next'[p] = next[p])
        /\ call'[p] = call[p] /\ linked' = linked /\ open' = open
        /\ unsettled' = unsettled /\ ofmu' = ofmu /\ commitMu' = commitMu
        /\ gateWriter' = gateWriter /\ gateReaders' = gateReaders
    BY Zenon, <1>19 DEF flushAll, Flush, Goto, UnchangedByList, inodeVars, openVars,
       commitVars, threadVars, Inv, ThreadTypes, AskTypes
  <2>2. Own(p)' /\ Shared'
    BY <1>0, <2>1, NobodyFree DEF Own, Shared, Holds, Flushing, Settling, Writes,
       OpenFile, Marked, NoCall
  <2>3. Alone(p)
    BY Zenon, <2>1 DEF Alone, Marked
  <2> QED
    BY Zenon, <1>1, <2>2, <2>3, Bystanders, ControlParts DEF Inv, Control
<1>20. CASE syncClean(p)
  <2>1. /\ pc[p] = "commitMu" /\ pc'[p] = "acked" /\ of'[p] = of[p] /\ next'[p] = next[p]
        /\ call'[p] = call[p] /\ linked' = linked /\ open' = open
        /\ unsettled' = unsettled /\ ofmu' = ofmu /\ commitMu' = commitMu
        /\ gateWriter' = gateWriter /\ gateReaders' = gateReaders
    BY Zenon, <1>20 DEF syncClean, Goto, UnchangedByList, inodeVars, openVars,
       commitVars, threadVars, Inv, ThreadTypes, AskTypes
  <2>2. Own(p)' /\ Shared'
    BY Zenon, <1>0, <2>1, NobodyFree DEF Own, Shared, Holds, Flushing, Settling, Writes,
       OpenFile, Marked, NoCall
  <2>3. Alone(p)
    BY Zenon, <2>1 DEF Alone, Marked
  <2> QED
    BY Zenon, <1>1, <2>2, <2>3, Bystanders, ControlParts DEF Inv, Control
<1>21. CASE syncDirty(p)
  <2>1. /\ pc[p] = "commitMu" /\ pc'[p] = "gateLock" /\ of'[p] = of[p]
        /\ next'[p] = next[p] /\ call'[p] = call[p] /\ commitMu = Nobody /\ commitMu' = p
        /\ gateWriter' = "waiting" /\ linked' = linked /\ open' = open
        /\ unsettled' = unsettled /\ ofmu' = ofmu /\ gateReaders' = gateReaders
    BY Zenon, <1>21 DEF syncDirty, Goto, UnchangedByList, inodeVars, openVars,
       commitVars, threadVars, Inv, ThreadTypes, AskTypes
  <2>2. Own(p)' /\ Shared'
    BY Zenon, <1>0, <2>1, NobodyFree DEF Own, Shared, Holds, Flushing, Settling, Writes,
       OpenFile, Marked, NoCall
  <2>3. Alone(p)
    BY Zenon, <1>0, <2>1, NobodyFree DEF Alone, Own, Shared, Holds, Flushing, Settling,
       OpenFile, Marked
  <2> QED
    BY Zenon, <1>1, <2>2, <2>3, Bystanders, ControlParts DEF Inv, Control
<1>22. CASE settleAll(p)
  <2>1. /\ pc[p] = "gateLock" /\ gateReaders = {} /\ gateWriter' = "held"
        /\ (Marked => open # 0 /\ pc'[p] = "flush" /\ of'[p] = open /\ next'[p] = "seal")
        /\ (~Marked => pc'[p] = "seal" /\ of'[p] = of[p] /\ next'[p] = next[p])
        /\ call'[p] = call[p] /\ linked' = linked /\ open' = open
        /\ unsettled' = unsettled /\ ofmu' = ofmu /\ commitMu' = commitMu
        /\ gateReaders' = gateReaders
    BY Zenon, <1>22 DEF settleAll, Marked, Flush, Goto, UnchangedByList, inodeVars,
       openVars, commitVars, threadVars, Inv, ThreadTypes, AskTypes
  <2>2. Own(p)' /\ Shared'
    BY <1>0, <2>1, NobodyFree DEF Own, Shared, Holds, Flushing, Settling, Writes,
       OpenFile, Marked, NoCall
  <2>3. Alone(p)
    BY Zenon, <1>0, <2>1, NobodyFree DEF Alone, Own, Shared, Holds, Flushing, Settling,
       OpenFile, Marked
  <2> QED
    BY Zenon, <1>1, <2>2, <2>3, Bystanders, ControlParts DEF Inv, Control
<1>23. CASE seal(p)
  <2>1. /\ pc[p] = "seal" /\ gateWriter' = "free" /\ pc'[p] = "flight"
        /\ commitMu' = commitMu /\ of'[p] = of[p] /\ next'[p] = next[p]
        /\ call'[p] = call[p] /\ linked' = linked /\ open' = open
        /\ unsettled' = unsettled /\ ofmu' = ofmu /\ gateReaders' = gateReaders
    BY Zenon, <1>23 DEF seal, Goto, Return, Forget, inodeVars, openVars, commitVars,
       threadVars, Inv, ThreadTypes, AskTypes, MarkInv
  <2>2. Own(p)' /\ Shared'
    BY Zenon, <1>0, <2>1, NobodyFree DEF Own, Shared, Holds, Flushing, Settling, Writes,
       OpenFile, Marked, NoCall
  <2>3. Alone(p)
    BY Zenon, <1>0, <2>1, NobodyFree DEF Alone, Own, Shared, Holds, Flushing, Settling,
       OpenFile, Marked
  <2> QED
    BY Zenon, <1>1, <2>2, <2>3, Bystanders, ControlParts DEF Inv, Control
<1>24. CASE flight(p)
  <2>1. /\ pc[p] = "flight" /\ pc'[p] = "acked" /\ of'[p] = of[p] /\ next'[p] = next[p]
        /\ call'[p] = call[p] /\ commitMu' = Nobody /\ linked' = linked /\ open' = open
        /\ unsettled' = unsettled /\ ofmu' = ofmu /\ gateWriter' = gateWriter
        /\ gateReaders' = gateReaders
    BY Zenon, <1>24 DEF flight, Goto, UnchangedByList, inodeVars, openVars, commitVars,
       threadVars, Inv, ThreadTypes, AskTypes
  <2>2. Own(p)' /\ Shared'
    BY Zenon, <1>0, <2>1, NobodyFree DEF Own, Shared, Holds, Flushing, Settling, Writes,
       OpenFile, Marked, NoCall
  <2>3. Alone(p)
    BY Zenon, <1>0, <2>1, NobodyFree DEF Alone, Own, Shared, Holds, Flushing, Settling,
       OpenFile, Marked
  <2> QED
    BY Zenon, <1>1, <2>2, <2>3, Bystanders, ControlParts DEF Inv, Control
<1>25. CASE reply(p)
  <2>1. /\ pc[p] = "acked" /\ pc'[p] = "idle" /\ of'[p] = 0 /\ next'[p] = "idle"
        /\ call'[p] = NoCall /\ linked' = linked /\ open' = open
        /\ unsettled' = unsettled /\ ofmu' = ofmu /\ commitMu' = commitMu
        /\ gateWriter' = gateWriter /\ gateReaders' = gateReaders
    BY Zenon, <1>25 DEF reply, Return, Goto, Forget, inodeVars, openVars, commitVars,
       threadVars, Inv, ThreadTypes, AskTypes
  <2>2. Own(p)' /\ Shared'
    BY <1>0, <2>1, NobodyFree DEF Own, Shared, Holds, Flushing, Settling, Writes,
       OpenFile, Marked, NoCall
  <2>3. Alone(p)
    BY Zenon, <2>1 DEF Alone, Marked
  <2> QED
    BY Zenon, <1>1, <2>2, <2>3, Bystanders, ControlParts DEF Inv, Control
<1>26. CASE bufferFillFails(p)
  <2>1. /\ pc[p] = "fill" /\ linked' = linked /\ open' = open /\ unsettled' = unsettled
        /\ commitMu' = commitMu /\ gateWriter' = gateWriter /\ gateReaders' = gateReaders
    BY Zenon, <1>26 DEF bufferFillFails, inodeVars, commitVars
  <2>2. CASE FillsShort(p)
    <3>1. /\ pc'[p] = "charge" /\ of'[p] = of[p] /\ next'[p] = next[p] /\ call'[p] = call[p]
          /\ ofmu' = ofmu
      BY Zenon, <2>2 DEF FillsShort, Goto, Inv, ThreadTypes
    <3>2. Own(p)' /\ Shared'
      BY Zenon, <1>0, <2>1, <3>1, NobodyFree DEF Own, Shared, Holds, Flushing, Settling,
         Marked
    <3>3. Alone(p)
      BY Zenon, <2>1, <3>1 DEF Alone, Marked
    <3> QED
      BY Zenon, <1>1, <3>2, <3>3, Bystanders, ControlParts DEF Inv, Control
  <2>3. CASE FillsNothing(p)
    <3>1. /\ pc'[p] = "idle" /\ of'[p] = 0 /\ next'[p] = "idle" /\ call'[p] = NoCall
          /\ ofmu' = [ofmu EXCEPT ![of[p]] = Nobody]
      BY Zenon, <2>3 DEF FillsNothing, Return, Forget, Goto, Inv, ThreadTypes, AskTypes
    <3>2. Own(p)' /\ Shared'
      BY <1>0, <2>1, <3>1, NobodyFree DEF Own, Shared, Holds, Flushing, Settling,
         OpenFile, Marked, NoCall
    <3>3. Alone(p)
      <4>1. ofmu[of[p]] = p
        BY Zenon, <1>0, <2>1 DEF Own, Holds
      <4> QED
        BY Zenon, <1>0, <2>1, <3>1, <4>1, OpenFiles DEF Alone, Marked
    <3> QED
      BY Zenon, <1>1, <3>2, <3>3, Bystanders, ControlParts DEF Inv, Control
  <2> QED
    BY Zenon, <1>26, <2>2, <2>3, FillFails
<1>27. CASE flushFails(p)
  <2>1. /\ pc[p] = "flush" /\ ofmu[of[p]] = Nobody /\ pc'[p] = "idle" /\ of'[p] = 0
        /\ next'[p] = "idle" /\ call'[p] = NoCall
        /\ (commitMu = p => commitMu' = Nobody /\ gateWriter' = "free")
        /\ (commitMu # p => commitMu' = commitMu /\ gateWriter' = gateWriter)
        /\ linked' = linked /\ open' = open /\ unsettled' = unsettled /\ ofmu' = ofmu
        /\ gateReaders' = gateReaders
    BY Zenon, <1>27 DEF flushFails, Fault, ReleaseCommit, Return, Goto, Forget,
       inodeVars, openVars, commitVars, threadVars, Inv, ThreadTypes, AskTypes
  <2>2. Own(p)' /\ Shared'
    BY <1>0, <2>1, NobodyFree DEF Own, Shared, Holds, Flushing, Settling, Writes,
       OpenFile, Marked, NoCall
  <2>3. Alone(p)
    BY Zenon, <1>0, <2>1, NobodyFree DEF Alone, Own, Shared, Holds, Flushing, Settling,
       OpenFile, Marked
  <2> QED
    BY Zenon, <1>1, <2>2, <2>3, Bystanders, ControlParts DEF Inv, Control
<1>28. CASE flightFails(p)
  <2>1. /\ pc[p] = "flight" /\ pc'[p] = "idle" /\ of'[p] = 0 /\ next'[p] = "idle"
        /\ call'[p] = NoCall /\ commitMu' = Nobody /\ linked' = linked /\ open' = open
        /\ unsettled' = unsettled /\ ofmu' = ofmu /\ gateWriter' = gateWriter
        /\ gateReaders' = gateReaders
    BY Zenon, <1>28 DEF flightFails, Fault, Return, Goto, Forget, inodeVars, openVars,
       commitVars, threadVars, Inv, ThreadTypes, AskTypes
  <2>2. Own(p)' /\ Shared'
    BY <1>0, <2>1, NobodyFree DEF Own, Shared, Holds, Flushing, Settling, Writes,
       OpenFile, Marked, NoCall
  <2>3. Alone(p)
    BY Zenon, <1>0, <2>1, NobodyFree DEF Alone, Own, Shared, Holds, Flushing, Settling,
       OpenFile, Marked
  <2> QED
    BY Zenon, <1>1, <2>2, <2>3, Bystanders, ControlParts DEF Inv, Control
<1> QED
  BY Zenon, <1>2, <1>3, <1>4, <1>5, <1>6, <1>7, <1>8, <1>9, <1>10, <1>11, <1>12, <1>13,
     <1>14, <1>15, <1>16, <1>17, <1>18, <1>19, <1>20, <1>21, <1>22, <1>23, <1>24, <1>25,
     <1>26, <1>27, <1>28 DEF Call, Step, StoreFails

-----------------------------------------------------------------------------
(* Types *)

\* A step keeps the types of the locks and of a thread's own variables.
LEMMA ThreadTypesStep ==
  ASSUME Inv, NEW p \in Proc, Call(p) \/ Step(p) \/ StoreFails(p)
  PROVE  ThreadTypes'
<1>1. ThreadTypes
  BY Zenon DEF Inv
<1> USE DEF ThreadTypes, Goto, inodeVars, openVars, commitVars, threadVars
<1>2. CASE StartWrite(p)
  BY Zenon, <1>1, <1>2 DEF StartWrite, Start, Asks, Label, OpenFile
<1>3. CASE StartTruncate(p)
  BY Zenon, <1>1, <1>3 DEF StartTruncate, Start, Asks, Label, OpenFile
<1>4. CASE StartCommit(p)
  BY Zenon, <1>1, <1>4 DEF StartCommit, Start, Asks, Label, OpenFile
<1>5. CASE StartSync(p)
  BY Zenon, <1>1, <1>5 DEF StartSync, Start, Asks, Label, OpenFile
<1>6. CASE unlink(p)
  BY <1>1, <1>6, Zenon DEF unlink, Asks, Label, OpenFile
<1>7. CASE getOpen(p)
  BY <1>1, <1>7 DEF getOpen, Label, OpenFile
<1>8. CASE bufferLock(p)
  BY <1>1, <1>8, Zenon DEF bufferLock, Label, OpenFile
<1>9. CASE bufferFill(p)
  BY Zenon, <1>1, <1>9 DEF bufferFill, Label, OpenFile
<1>10. CASE bufferCharge(p)
  BY Zenon, <1>1, <1>10 DEF bufferCharge, Label, OpenFile
<1>11. CASE bufferExtend(p)
  BY <1>1, <1>11, Zenon DEF bufferExtend, Forget, Label, OpenFile
<1>12. CASE gateRLock(p)
  BY Zenon, <1>1, <1>12 DEF gateRLock, Label, OpenFile
<1>13. CASE truncate(p)
  BY Zenon, <1>1, <1>13 DEF truncate, Forget, Label, OpenFile
<1>14. CASE flushNothing(p)
  BY <1>1, <1>14, Zenon DEF flushNothing, Label, OpenFile
<1>15. CASE flushUpload(p)
  BY <1>1, <1>15, Zenon DEF flushUpload, Label, OpenFile
<1>16. CASE flushRepoint(p)
  BY <1>1, <1>16, Zenon DEF flushRepoint, Label, OpenFile
<1>17. CASE flushReset(p)
  BY <1>1, <1>17, Zenon DEF flushReset, Label, OpenFile
<1>18. CASE commitFile(p)
  BY Zenon, <1>1, <1>18 DEF commitFile, Flush, UnchangedByList, Label, OpenFile
<1>19. CASE flushAll(p)
  BY Zenon, <1>1, <1>19 DEF flushAll, Flush, UnchangedByList, Label, OpenFile
<1>20. CASE syncClean(p)
  BY Zenon, <1>1, <1>20 DEF syncClean, UnchangedByList, Label, OpenFile
<1>21. CASE syncDirty(p)
  BY Zenon, <1>1, <1>21 DEF syncDirty, UnchangedByList, Label, OpenFile
<1>22. CASE settleAll(p)
  BY Zenon, <1>1, <1>22 DEF settleAll, Flush, UnchangedByList, Label, OpenFile
<1>23. CASE seal(p)
  BY <1>1, <1>23 DEF seal, Return, Forget, Label, OpenFile
<1>24. CASE flight(p)
  BY Zenon, <1>1, <1>24 DEF flight, UnchangedByList, Label, OpenFile
<1>25. CASE reply(p)
  BY Zenon, <1>1, <1>25 DEF reply, Return, Forget, Label, OpenFile
<1>26. CASE bufferFillFails(p)
  BY <1>1, <1>26, FillFails DEF bufferFillFails, FillsShort, FillsNothing, Return,
     Forget, Label, OpenFile
<1>27. CASE flushFails(p)
  BY Zenon, <1>1, <1>27 DEF flushFails, ReleaseCommit, Return, Forget, Label, OpenFile
<1>28. CASE flightFails(p)
  BY Zenon, <1>1, <1>28 DEF flightFails, Return, Forget, Label, OpenFile
<1> QED
  BY <1>2, <1>3, <1>4, <1>5, <1>6, <1>7, <1>8, <1>9, <1>10, <1>11, <1>12, <1>13, <1>14,
     <1>15, <1>16, <1>17, <1>18, <1>19, <1>20, <1>21, <1>22, <1>23, <1>24, <1>25, <1>26,
     <1>27, <1>28, Zenon DEF Call, Step, StoreFails

\* A step keeps the types of what clients ask for (the clamp of Write).
LEMMA AskTypesStep ==
  ASSUME Inv, NEW p \in Proc, Call(p) \/ Step(p) \/ StoreFails(p)
  PROVE  AskTypes'
<1>1. AskTypes /\ pc \in [Proc -> Label]
  BY Zenon DEF Inv, ThreadTypes
<1>2. /\ MaxSize \in Nat /\ NoCall \in CallType
      /\ load.ranges \subseteq (0 .. MaxSize - 1) \X (Nat \ {0}) /\ load.sizes \subseteq 0 .. MaxSize
      /\ load.calls \in Nat /\ (load.calls > 0 => load.calls + 1 \in Byte)
  BY <1>1, ConstantsAssumption DEF AskTypes, LoadType, NoCall, CallType, Kinds, Byte
<1>3. CASE call' = [call EXCEPT ![p] = NoCall] /\ load' = load
  BY Zenon, <1>1, <1>2, <1>3 DEF AskTypes
<1>4. CASE call' = call /\ load' = load
  BY Zenon, <1>1, <1>4 DEF AskTypes
<1>5. CASE \E kind \in Kinds, off \in 0 .. MaxSize, len \in Nat, label \in Label : Start(p, kind, off, len, label)
  <2>1. PICK kind \in Kinds, off \in 0 .. MaxSize, len \in Nat, label \in Label : Start(p, kind, off, len, label)
    BY Zenon, <1>5
  <2>2. load.calls > 0 /\ load' = [load EXCEPT !.calls = @ - 1]
    BY Zenon, <2>1 DEF Start, Asks
  <2>3. /\ load' \in LoadType /\ load'.calls <= MaxCalls
    BY <1>1, <1>2, <2>2 DEF AskTypes, LoadType
  <2>4. /\ [kind |-> kind, off |-> off, len |-> len, val |-> load.calls + 1] \in CallType
    BY Zenon, <1>2, <2>2 DEF CallType
  <2>5. call' \in [Proc -> CallType]
    BY Zenon, <1>1, <2>1, <2>4 DEF Start, AskTypes
  <2> QED
    BY Zenon, <1>1, <2>3, <2>5 DEF AskTypes
<1>6. CASE unlink(p)
  BY <1>1, <1>2, <1>6 DEF unlink, Asks, AskTypes, LoadType, threadVars
<1>7. CASE StartWrite(p)
  <2>1. \A r \in load.ranges : r[1] \in 0 .. MaxSize /\ Smaller(r[2], MaxSize - r[1]) \in Nat
    BY <1>2 DEF Smaller
  <2> QED
    BY Zenon, <1>5, <1>7, <2>1 DEF StartWrite, Kinds, Label
<1>8. CASE StartTruncate(p) \/ StartCommit(p) \/ StartSync(p)
  BY <1>2, <1>5, <1>8 DEF StartTruncate, StartCommit, StartSync, Kinds, Label
<1>9. CASE Step(p)
  BY <1>3, <1>4, <1>9, Zenon DEF Step, getOpen, bufferLock, bufferFill, bufferCharge,
     bufferExtend,
     gateRLock, truncate, flushNothing, flushUpload, flushRepoint, flushReset, commitFile,
     flushAll, syncClean, syncDirty, settleAll, seal, flight, reply, UnchangedByList, Return, Forget
<1>10. CASE StoreFails(p)
  BY <1>3, <1>4, <1>10, FillFails, Zenon DEF StoreFails, bufferFillFails, flushFails,
     flightFails, Return, Forget, FillsShort, FillsNothing
<1> QED
  BY Zenon, <1>6, <1>7, <1>8, <1>9, <1>10 DEF Call

-----------------------------------------------------------------------------
(* Chunks and references *)

\* A chunk is a sequence of bytes no longer than the chunk size.
LEMMA ChunkIs ==
  /\ \A s \in Chunk : s \in Seq(Byte) /\ Len(s) \in 0 .. ChunkSize /\ DOMAIN s = 1 .. Len(s)
  /\ \A s \in Seq(Byte) : Len(s) <= ChunkSize => s \in Chunk
<1>0. ChunkSize \in Nat
  BY Zenon, ConstantsAssumption
<1>1. ASSUME NEW s \in Chunk
      PROVE  s \in Seq(Byte) /\ Len(s) \in 0 .. ChunkSize /\ DOMAIN s = 1 .. Len(s)
  BY <1>0 DEF Chunk
<1>2. ASSUME NEW s \in Seq(Byte), Len(s) <= ChunkSize
      PROVE  s \in Chunk
  <2>1. s \in [1 .. Len(s) -> Byte] /\ Len(s) \in 0 .. ChunkSize
    BY <1>0, <1>2
  <2> QED
    BY Zenon, <2>1 DEF Chunk
<1> QED
  BY Zenon, <1>1, <1>2

\* A function on the first n positions is a chunk.
LEMMA FunChunk ==
  ASSUME NEW n \in 0 .. ChunkSize, NEW f \in [1 .. n -> Byte]
  PROVE  f \in Chunk /\ Len(f) = n
<1>1. n \in Nat
  BY ConstantsAssumption
<1> QED
  BY <1>1 DEF Chunk

\* A sequence is a function on the places it has.
LEMMA SequenceIs ==
  ASSUME NEW S, NEW q \in Seq(S)
  PROVE  q \in [1 .. Len(q) -> S]
  OBVIOUS

\* The beginning of a chunk is one: what a cut leaves of it.
LEMMA Beginning ==
  ASSUME NEW s \in Chunk, NEW n \in Int, 0 <= n, n <= Len(s)
  PROVE  /\ SubSeq(s, 1, n) \in Chunk
         /\ Len(SubSeq(s, 1, n)) = n
         /\ \A j \in 1 .. n : SubSeq(s, 1, n)[j] = s[j]
         /\ n = Len(s) => SubSeq(s, 1, n) = s
<1>1. s \in Seq(Byte) /\ Len(s) \in 0 .. ChunkSize /\ DOMAIN s = 1 .. Len(s)
  BY Zenon, ChunkIs
<1>2. SubSeq(s, 1, n) \in Seq(Byte) /\ Len(SubSeq(s, 1, n)) = n
  BY <1>1
<1>3. \A j \in 1 .. n : SubSeq(s, 1, n)[j] = s[j]
  BY <1>1
<1>4. SubSeq(s, 1, n) \in Chunk
  <2>1. ChunkSize \in Nat
    BY Zenon, ConstantsAssumption
  <2>2. n \in 0 .. ChunkSize
    BY <1>1, <2>1
  <2>3. SubSeq(s, 1, n) \in [1 .. n -> Byte]
    BY <1>2, SequenceIs, Zenon
  <2> QED
    BY <2>2, <2>3, FunChunk, Zenon
<1>5. n = Len(s) => SubSeq(s, 1, n) = s
  BY <1>1
<1> QED
  BY Zenon, <1>2, <1>3, <1>4, <1>5

\* A reference holds a chunk, a hole a chunk of zeros.
LEMMA RefIs ==
  ASSUME MaxCalls \in Nat
  PROVE  /\ Hole \in Ref /\ Hole.hole /\ Len(Hole.data) = ChunkSize
         /\ \A j \in 1 .. ChunkSize : Hole.data[j] = 0
         /\ \A r \in Ref : r.data \in Chunk /\ r.hole \in BOOLEAN /\ (r.hole => r = Hole)
         /\ \A s \in Chunk : Stored(s) \in Ref /\ Stored(s).data = s /\ ~Stored(s).hole
         /\ <<>> \in Chunk /\ Len(<<>>) = 0 /\ 0 \in Byte
<1>1. ChunkSize \in Nat /\ 0 \in 0 .. ChunkSize /\ ChunkSize \in 0 .. ChunkSize
  BY ConstantsAssumption
<1>2. 0 \in Byte
  BY DEF Byte
<1>3. Zeros(ChunkSize) \in [1 .. ChunkSize -> Byte]
  BY Zenon, <1>2 DEF Zeros
<1>4. Zeros(ChunkSize) \in Chunk /\ Len(Zeros(ChunkSize)) = ChunkSize
  BY Zenon, <1>1, <1>3, FunChunk
<1>5. <<>> \in Chunk
  <2>1. <<>> \in [1 .. 0 -> Byte]
    BY SMT
  <2> QED
    BY <1>1, <2>1, FunChunk, Zenon
<1>6. /\ Hole \in Ref /\ Hole.hole /\ Hole.data = Zeros(ChunkSize)
      /\ \A s \in Chunk : Stored(s) \in Ref /\ Stored(s).data = s /\ ~Stored(s).hole
  BY Zenon DEF Hole, Ref, Stored
<1>7. \A j \in 1 .. ChunkSize : Zeros(ChunkSize)[j] = 0
  BY Zenon DEF Zeros
<1>8. \A r \in Ref : r.data \in Chunk /\ r.hole \in BOOLEAN /\ (r.hole => r = Hole)
  BY <1>4, <1>6, Zenon DEF Ref
<1> QED
  BY Zenon, <1>2, <1>4, <1>5, <1>6, <1>7, <1>8

\* A place of a chunk list.
LEMMA ByteIs ==
  ASSUME NEW cs, Len(cs) \in Nat, NEW i \in Nat \ {0}
  PROVE  ByteAt(cs, i) = IF Idx(i) >= Len(cs) THEN 0 ELSE At(cs[Idx(i) + 1].data, Pos(i))
<1>1. Idx(i) \in Nat
  BY Zenon, PlaceIs
<1> QED
  BY <1>1 DEF ByteAt, Idx, Pos, At

\* A list that nothing is buffered or cut in front of is what the file shows.
LEMMA ListShown ==
  ASSUME NEW d, NEW t, DOMAIN d = {}, DOMAIN t = {}, DataTypes, NEW i \in Place
  PROVE  Shown(d, t, chunks, i) = ByteAt(chunks, i)
<1>1. i \in Nat \ {0} /\ Len(chunks) \in Nat
  BY ConstantsAssumption DEF Place, DataTypes
<1>2. ByteAt(chunks, i) = IF Idx(i) >= Len(chunks) THEN 0 ELSE At(chunks[Idx(i) + 1].data, Pos(i))
  BY Zenon, <1>1, ByteIs
<1>3. Buf(d, t, chunks, Idx(i)) = IF Idx(i) >= Len(chunks) THEN <<>> ELSE chunks[Idx(i) + 1].data
  BY Zenon DEF Buf
<1>4. At(<<>>, Pos(i)) = 0
  <2>1. Pos(i) \in 1 .. ChunkSize /\ ChunkSize \in Nat
    BY Zenon, <1>1, PlaceIs, ConstantsAssumption
  <2> HIDE DEF Pos
  <2> QED
    BY <2>1 DEF At
<1> QED
  BY Zenon, <1>2, <1>3, <1>4 DEF Shown

-----------------------------------------------------------------------------
(* What the clients wrote *)

\* What the file holds after a write, a truncate and an unlink.
Extended(p) ==
  [i \in 0 .. MaxSize |->
     IF call[p].off < i /\ i <= call[p].off + taken[p] THEN call[p].val
     ELSE IF i <= call[p].off + taken[p] /\ held[i] = Absent THEN 0 ELSE held[i]]
Cut(n) ==
  [i \in 0 .. MaxSize |-> IF i > n THEN Absent ELSE IF held[i] = Absent THEN 0 ELSE held[i]]
Gone == [i \in 0 .. MaxSize |-> Absent]

\* The histories keep their types whatever the file comes to hold.
LEMMA HistoryTypes ==
  ASSUME LocalTypes, DataTypes, MaxCalls \in Nat, NEW new \in [0 .. MaxSize -> Content]
  PROVE  /\ CutHistory(new) \in [0 .. MaxSize -> SUBSET Content]
         /\ CallHistory(new) \in [Proc -> [0 .. MaxSize -> SUBSET Content]]
         /\ Promise(new) \in [0 .. MaxSize -> SUBSET Content]
<1>1. 0 \in Content /\ Absent \in Content
  BY Zenon, RefIs DEF Content
<1>2. \A i \in 0 .. MaxSize : Gains(new, i) \in SUBSET Content
  BY Zenon, <1>1 DEF Gains
<1>3. CutHistory(new) \in [0 .. MaxSize -> SUBSET Content]
  BY Zenon, <1>1, <1>2 DEF CutHistory, DataTypes
<1>4. \A p \in Proc, i \in 0 .. MaxSize : sinceCall[p][i] \in SUBSET Content
  BY Zenon DEF LocalTypes
<1>5. CallHistory(new) \in [Proc -> [0 .. MaxSize -> SUBSET Content]]
  BY Zenon, <1>2, <1>4 DEF CallHistory
<1>6. Promise(new) \in [0 .. MaxSize -> SUBSET Content]
  BY Zenon DEF Promise
<1> QED
  BY Zenon, <1>3, <1>5, <1>6

\* What the file comes to hold has the type of what it held.
LEMMA ImageTypes ==
  ASSUME AskTypes, DataTypes, NEW p \in Proc, NEW n
  PROVE  /\ Extended(p) \in [0 .. MaxSize -> Content]
         /\ Cut(n) \in [0 .. MaxSize -> Content]
         /\ Gone \in [0 .. MaxSize -> Content]
<1>1. 0 \in Content /\ Absent \in Content /\ call[p].val \in Content
  BY Zenon, RefIs DEF Content, AskTypes, CallType
<1>2. \A i \in 0 .. MaxSize : held[i] \in Content
  BY Zenon DEF DataTypes
<1> QED
  BY Zenon, <1>1, <1>2 DEF Extended, Cut, Gone

\* What a step does to what the file holds and to the histories.
LEMMA HeldSteps ==
  ASSUME Inv, NEW p \in Proc, Call(p) \/ Step(p) \/ StoreFails(p)
  PROVE  \/ held' = held /\ sinceCut' = sinceCut
         \/ \E n : held' \in {Extended(p), Cut(n), Gone} /\ sinceCut' = CutHistory(held')
<1>1. CASE unlink(p)
  BY <1>1, Zenon DEF unlink, Becomes, Gone
<1>2. CASE truncate(p)
  <2>1. CASE linked
    <3>1. held' = Cut(call[p].off)
      BY Zenon, <1>2, <2>1 DEF truncate, Becomes, Cut
    <3>2. sinceCut' = CutHistory(Cut(call[p].off))
      BY Zenon, <1>2, <2>1 DEF truncate, Becomes, Cut
    <3> QED
      BY <3>1, <3>2
  <2>2. CASE ~linked
    BY Zenon, <1>2, <2>2 DEF truncate, histVars
  <2> QED
    BY Zenon, <2>1, <2>2
<1>3. CASE bufferExtend(p)
  BY <1>3, Zenon DEF bufferExtend, Becomes, Extended, histVars
<1>4. CASE ~(unlink(p) \/ truncate(p) \/ bufferExtend(p))
  BY <1>4, Zenon DEF Call, Step, StoreFails, StartWrite, StartTruncate, StartCommit,
     StartSync, Start,
     getOpen, bufferLock, bufferFill, bufferCharge, gateRLock, flushNothing, flushUpload,
     flushRepoint, flushReset, commitFile, flushAll, syncClean, syncDirty, settleAll, seal,
     flight, reply, bufferFillFails, flushFails, flightFails, UnchangedByList, histVars
<1> QED
  BY Zenon, <1>1, <1>2, <1>3, <1>4

-----------------------------------------------------------------------------
(* Steps that leave the file alone *)

\* What the file's part of the invariant is about.
FileInv ==
  /\ DataTypes /\ FreshInv /\ ChargeInv /\ StoredInv /\ TrimInv /\ HeldInv /\ CutInv
  /\ CleanInv

\* The holder of openFile.mu names the phase.
LEMMA PhaseIs ==
  ASSUME Inv, NEW p \in Proc
  PROVE  /\ ofmu[1] = p => Phase = pc[p]
         /\ ofmu[1] = Nobody => Phase = "free"
         /\ ofmu[1] \in Proc \cup {Nobody}
         /\ pc[p] \in Holds /\ of[p] = 1 => ofmu[1] = p
         /\ ofmu[1] = p => pc[p] \in Holds /\ of[p] = 1
  BY NobodyFree DEF Inv, ThreadTypes, LockInv, Phase, OpenFile

DataKept ==
  /\ linked' = linked /\ size' = size /\ chunks' = chunks
  /\ dirty' = dirty /\ pendingTrim' = pendingTrim /\ unsettled' = unsettled /\ bytes' = bytes
  /\ used' = used /\ nsDirty' = nsDirty /\ changes' = changes
  /\ sealed' = sealed /\ sealedChanges' = sealedChanges /\ committed' = committed
  /\ bucket' = bucket /\ held' = held /\ sinceCut' = sinceCut

\* The lock's holder is another than p, or p takes or gives it back having
\* changed nothing.
PhaseKept(p) ==
  \/ ofmu'[1] = ofmu[1] /\ ofmu[1] # p
  \/ Phase \in {"free", "fill"} /\ Phase' \in {"free", "fill"}
  \/ Phase = "free" /\ Phase' = "extend" /\ ~linked

\* A step that changes neither the file nor the holder's phase keeps the
\* file's part of the invariant.
LEMMA KeptFile ==
  ASSUME Inv, NEW p \in Proc, Only(p), DataKept, PhaseKept(p),
         linked /\ open' = 0 => open = 0, pc'[p] # "repoint", pc'[p] = "flight" => pc[p] = "flight"
  PROVE  FileInv'
<1> USE DEF DataKept
<1>1. /\ DataTypes /\ FreshInv /\ ChargeInv /\ StoredInv /\ TrimInv /\ HeldInv /\ CutInv /\ CleanInv
      /\ ofmu[1] \in Proc \cup {Nobody}
  BY Zenon, PhaseIs DEF Inv
<1>2. DataTypes' /\ FreshInv' /\ CutInv'
  <2>1. DataTypes'
    BY <1>1, Zenon DEF DataTypes
  <2>2. FreshInv'
    BY <1>1, Zenon DEF FreshInv, Untouched
  <2>3. CutInv'
    BY <1>1, Zenon DEF CutInv
  <2> QED
    BY Zenon, <2>1, <2>2, <2>3
<1>3. /\ Charging' = Charging
      /\ \/ Phase' = Phase
         \/ Phase \in {"free", "fill"} /\ Phase' \in {"free", "fill"}
         \/ Phase = "free" /\ Phase' = "extend" /\ ~linked
      /\ Phase \in {"charge", "extend"} /\ linked =>
           /\ ofmu'[1] = ofmu[1] /\ call'[ofmu[1]] = call[ofmu[1]]
           /\ taken'[ofmu[1]] = taken[ofmu[1]]
  <2>1. CASE ofmu'[1] = ofmu[1] /\ ofmu[1] # p
    BY ZenonT(60), <1>1, <2>1 DEF Only, Phase, Charging
  <2>2. CASE ~(ofmu'[1] = ofmu[1] /\ ofmu[1] # p)
    BY Zenon, <2>2 DEF PhaseKept, Charging
  <2> QED
    BY Zenon, <2>1, <2>2
<1>4. ChargeInv'
  BY <1>1, <1>3, Zenon DEF ChargeInv
<1>5. TrimInv'
  BY <1>1, <1>3, Zenon DEF TrimInv, TrimOf
<1>6. HeldInv'
  <2>1. CASE ~linked
    BY <1>1, <2>1, Zenon DEF HeldInv
  <2>2. CASE linked
    <3>1. \A i : Holding(i)' = Holding(i)
      BY ZenonT(60) DEF Holding
    <3>2. Phase \in {"charge", "extend"} => \A i : Written(ofmu[1], i)' = Written(ofmu[1], i)
      BY Zenon, <1>3, <2>2 DEF Written
    <3> QED
      BY <1>1, <1>3, <2>2, <3>1, <3>2, Zenon DEF HeldInv
  <2> QED
    BY Zenon, <2>1, <2>2
<1>7. StoredInv'
  <2>1. ASSUME NEW q \in Proc, pc'[q] = "repoint"
        PROVE  Uploads(of[q])' \subseteq bucket'
    <3>1. q # p /\ pc[q] = "repoint" /\ of'[q] = of[q]
      BY Zenon, <2>1 DEF Only
    <3>2. Uploads(of[q]) \subseteq bucket
      BY Zenon, <1>1, <3>1 DEF StoredInv
    <3>3. Uploads(of[q])' = Uploads(of[q])
      BY <3>1, Zenon DEF Uploads, Uploaded, Trimmed
    <3> QED
      BY Zenon, <3>2, <3>3
  <2> QED
    BY <1>1, <2>1, Zenon DEF StoredInv, Kept
<1>8. CleanInv'
  <2>1. (\E q \in Proc : pc'[q] = "flight") => \E q \in Proc : pc[q] = "flight"
    BY Zenon DEF Only
  <2> QED
    BY <1>1, <2>1, Zenon DEF CleanInv, Inode
<1> QED
  BY Zenon, <1>2, <1>4, <1>5, <1>6, <1>7, <1>8 DEF FileInv

\* The steps that change neither the file nor its lock.
Quiet(p) ==
  \/ StartWrite(p) \/ StartTruncate(p) \/ StartCommit(p) \/ StartSync(p)
  \/ getOpen(p) \/ gateRLock(p) \/ commitFile(p) \/ flushAll(p)
  \/ syncClean(p) \/ syncDirty(p) \/ settleAll(p) \/ flightFails(p) \/ reply(p)

\* The steps that only move a thread on, or a lock other than openFile.mu,
\* are such steps.
LEMMA QuietFile ==
  ASSUME Inv, NEW p \in Proc, Quiet(p)
  PROVE  FileInv'
<1>1. Only(p) /\ DOMAIN pc = Proc
  BY OthersKept, Zenon DEF Call, Step, StoreFails, Quiet, Inv, ThreadTypes
<1>2. DataKept /\ ofmu' = ofmu
  BY Zenon DEF DataKept, Quiet, StartWrite, StartTruncate, StartCommit, StartSync, Start,
     getOpen, gateRLock, commitFile, flushAll, syncClean, syncDirty, settleAll, flightFails, reply,
     UnchangedByList, inodeVars, openVars, commitVars, histVars
<1>3. /\ pc[p] \in {"idle", "getOpen", "gate", "commitFile", "flushAll", "commitMu",
                    "gateLock", "flight", "acked"}
      /\ pc'[p] \in {"getOpen", "gate", "commitFile", "flushAll", "lock", "flush", "commitMu",
                     "gateLock", "acked", "seal", "idle"}
  BY <1>1, Zenon DEF Quiet, StartWrite, StartTruncate, StartCommit, StartSync, Start,
     Asks, Goto,
     getOpen, gateRLock, commitFile, flushAll, syncClean, syncDirty, settleAll, flightFails, reply,
     Return, Flush
<1>4. linked /\ open' = 0 => open = 0
  BY Zenon DEF Quiet, StartWrite, StartTruncate, StartCommit, StartSync, Start,
     getOpen, gateRLock, commitFile, flushAll, syncClean, syncDirty, settleAll, flightFails, reply,
     UnchangedByList, openVars
<1>5. pc[p] \notin Holds /\ pc'[p] # "repoint" /\ pc'[p] # "flight"
  BY Zenon, <1>3 DEF Holds
<1>6. PhaseKept(p)
  BY Zenon, <1>2, <1>5, PhaseIs DEF PhaseKept
<1> QED
  BY <1>1, <1>2, <1>4, <1>5, <1>6, KeptFile, Zenon

\* A write takes the lock, or gives it back having taken nothing.
LEMMA BufferLockFile ==
  ASSUME Inv, NEW p \in Proc, bufferLock(p)
  PROVE  FileInv'
<1>1. Only(p)
  BY Zenon, OthersKept DEF Call, Step, StoreFails
<1>2. DataKept /\ open' = open /\ ofmu' = [ofmu EXCEPT ![of[p]] = p] /\ ofmu[of[p]] = Nobody
      /\ pc[p] = "lock" /\ pc'[p] = (IF linked THEN "fill" ELSE "extend")
  BY Zenon DEF bufferLock, DataKept, inodeVars, commitVars, histVars, Goto, Inv,
     ThreadTypes
<1>3. of[p] \in OpenFile /\ DOMAIN ofmu = OpenFile
  BY Zenon, <1>2 DEF Inv, LockInv, ThreadTypes
<1>4. PhaseKept(p)
  <2>1. CASE of[p] = 1
    <3>1. Phase = "free" /\ Phase' = pc'[p]
      BY Zenon, <1>2, <1>3, <2>1, NobodyFree DEF Phase
    <3> QED
      BY Zenon, <1>2, <3>1 DEF PhaseKept
  <2>2. CASE of[p] # 1
    <3>1. ofmu'[1] = ofmu[1]
      BY <1>2, <1>3, <2>2
    <3>2. ofmu[1] # p
      BY Zenon, <1>2, PhaseIs DEF Holds
    <3> QED
      BY Zenon, <3>1, <3>2 DEF PhaseKept
  <2> QED
    BY Zenon, <2>1, <2>2
<1>5. pc'[p] # "repoint" /\ pc'[p] # "flight"
  BY Zenon, <1>2
<1> QED
  BY <1>1, <1>2, <1>4, <1>5, KeptFile, Zenon

\* A write that is refused gives the lock back, and leaves the file.
LEMMA FillsNothingFile ==
  ASSUME Inv, NEW p \in Proc, bufferFillFails(p), FillsNothing(p)
  PROVE  FileInv'
<1>1. Only(p)
  BY Zenon, OthersKept DEF Call, Step, StoreFails
<1>2. DataKept /\ open' = open /\ ofmu' = [ofmu EXCEPT ![of[p]] = Nobody]
      /\ pc[p] = "fill" /\ pc'[p] = "idle"
  <2>1. linked' = linked /\ size' = size /\ chunks' = chunks /\ open' = open /\ unsettled' = unsettled
        /\ bytes' = bytes /\ nsDirty' = nsDirty /\ changes' = changes /\ sealed' = sealed
        /\ sealedChanges' = sealedChanges /\ committed' = committed /\ bucket' = bucket /\ held' = held
        /\ sinceCut' = sinceCut /\ pc[p] = "fill"
    BY Zenon DEF bufferFillFails, inodeVars, commitVars
  <2> QED
    BY Zenon, <2>1 DEF FillsNothing, DataKept, Return, Goto, Inv, ThreadTypes
<1>3. of[p] = 1 /\ DOMAIN ofmu = OpenFile /\ ofmu[1] = p
  BY <1>2 DEF Inv, LockInv, ThreadTypes, Holds
<1>4. Phase = "fill" /\ Phase' = "free"
  BY <1>2, <1>3, NobodyFree DEF Phase, OpenFile
<1>5. PhaseKept(p)
  BY Zenon, <1>4 DEF PhaseKept
<1>6. pc'[p] # "repoint" /\ pc'[p] # "flight"
  BY Zenon, <1>2
<1> QED
  BY <1>1, <1>2, <1>5, <1>6, KeptFile, Zenon

\* A truncate of a file that has gone is refused.
LEMMA RefusedFile ==
  ASSUME Inv, NEW p \in Proc, truncate(p), ~linked
  PROVE  FileInv'
<1>1. Only(p)
  BY Zenon, OthersKept DEF Call, Step, StoreFails
<1>2. DataKept /\ open' = open /\ ofmu' = ofmu /\ pc[p] = "lock" /\ pc'[p] = "idle"
  BY Zenon DEF truncate, DataKept, histVars, Goto, Inv, ThreadTypes
<1>3. PhaseKept(p)
  BY Zenon, <1>2, PhaseIs DEF PhaseKept, Holds
<1>4. pc'[p] # "repoint" /\ pc'[p] # "flight"
  BY Zenon, <1>2
<1> QED
  BY <1>1, <1>2, <1>3, <1>4, KeptFile, Zenon

\* What a call does to the entry made after the unlink changes nothing: it is
\* empty and stays so (getOpen, bufferWrite, flushOpen).
LEMMA SecondFile ==
  ASSUME Inv, NEW p \in Proc, of[p] = 2,
         \/ bufferExtend(p) \/ flushNothing(p) \/ flushUpload(p) \/ flushRepoint(p)
         \/ flushReset(p) \/ flushFails(p)
  PROVE  FileInv'
<1>1. Only(p)
  BY OthersKept, Zenon DEF Call, Step, StoreFails
<1>2. /\ dirty[2] = NoFun /\ pendingTrim[2] = NoFun /\ unsettled[2] = FALSE /\ bytes[2] = 0
      /\ ~linked /\ used \in Nat
      /\ DOMAIN dirty = OpenFile /\ DOMAIN pendingTrim = OpenFile /\ DOMAIN unsettled = OpenFile
      /\ DOMAIN bytes = OpenFile /\ DOMAIN ofmu = OpenFile /\ 1 \in OpenFile /\ 2 \in OpenFile /\ 1 # 2
  BY DEF Inv, FreshInv, Untouched, EntryInv, DataTypes, ThreadTypes, OpenFile
<1>3. DOMAIN dirty[2] = {} /\ DOMAIN pendingTrim[2] = {}
  BY Zenon, <1>2 DEF NoFun
<1>4. /\ [dirty EXCEPT ![2] = NoFun] = dirty
      /\ [pendingTrim EXCEPT ![2] = NoFun] = pendingTrim
      /\ [unsettled EXCEPT ![2] = FALSE] = unsettled
      /\ [bytes EXCEPT ![2] = 0] = bytes
      /\ used - bytes[2] = used
  <2>1. dirty \in [OpenFile -> Buffers] /\ pendingTrim \in [OpenFile -> TrimMaps]
        /\ unsettled \in [OpenFile -> BOOLEAN] /\ bytes \in [OpenFile -> Nat]
    BY Zenon DEF Inv, DataTypes, ThreadTypes
  <2>2. [dirty EXCEPT ![2] = NoFun] = dirty
    BY Zenon, <1>2, <2>1
  <2>3. [pendingTrim EXCEPT ![2] = NoFun] = pendingTrim
    BY Zenon, <1>2, <2>1
  <2>4. [unsettled EXCEPT ![2] = FALSE] = unsettled
    BY Zenon, <1>2, <2>1
  <2>5. [bytes EXCEPT ![2] = 0] = bytes
    BY Zenon, <1>2, <2>1
  <2>6. used - bytes[2] = used
    BY <1>2
  <2> QED
    BY Zenon, <2>2, <2>3, <2>4, <2>5, <2>6
<1>5. /\ DataKept /\ open' = open /\ (ofmu' = ofmu \/ ofmu' = [ofmu EXCEPT ![2] = Nobody])
      /\ pc'[p] \in {"idle", "commitFile", "flushAll", "commitMu", "seal", "reset"}
  <2>0. DOMAIN pc = Proc
    BY Zenon DEF Inv, ThreadTypes
  <2>1. CASE bufferExtend(p)
    BY <1>2, <1>4, <2>0, <2>1, Zenon DEF bufferExtend, DataKept, histVars, Goto
  <2>2. CASE flushNothing(p)
    <3>1. next[p] \in {"flushAll", "commitMu", "seal"}
      BY ZenonT(60), <2>2 DEF flushNothing, Inv, LockInv, Flushing
    <3> QED
      BY Zenon, <1>2, <1>4, <2>0, <2>2, <3>1 DEF flushNothing, DataKept, inodeVars,
         commitVars, histVars, Goto
  <2>3. CASE flushUpload(p)
    BY Zenon, <1>3, <2>3 DEF flushUpload
  <2>4. CASE flushRepoint(p)
    BY Zenon, <1>2, <1>4, <2>0, <2>4 DEF flushRepoint, DataKept, histVars, Goto
  <2>5. CASE flushReset(p)
    <3>1. next[p] \in {"flushAll", "commitMu", "seal"}
      BY ZenonT(60), <2>5 DEF flushReset, Inv, LockInv, Flushing
    <3> QED
      BY Zenon, <1>2, <1>4, <2>0, <2>5, <3>1 DEF flushReset, DataKept, inodeVars,
         commitVars, histVars, Goto
  <2>6. CASE flushFails(p)
    BY ZenonT(60), <1>3, <2>6 DEF flushFails
  <2> QED
    BY Zenon, <2>1, <2>2, <2>3, <2>4, <2>5, <2>6
<1>6. ofmu[1] # p
  BY PhaseIs
<1>7. PhaseKept(p)
  BY Zenon, <1>2, <1>5, <1>6 DEF PhaseKept
<1>8. pc'[p] # "repoint" /\ pc'[p] # "flight"
  BY Zenon, <1>5
<1> QED
  BY <1>1, <1>5, <1>7, <1>8, KeptFile, Zenon

-----------------------------------------------------------------------------
(* Steps that keep the buffers *)

\* A thread other than p that is about to repoint holds the second entry.
LEMMA OtherRepointers ==
  ASSUME Inv, NEW p \in Proc, Only(p), ofmu[1] \in {p, Nobody}, bucket \subseteq bucket',
         dirty'[2] = dirty[2], pendingTrim'[2] = pendingTrim[2]
  PROVE  \A q \in Proc \ {p} : pc'[q] = "repoint" => Uploads(of[q])' \subseteq bucket'
<1> SUFFICES ASSUME NEW q \in Proc, q # p, pc'[q] = "repoint"
             PROVE  Uploads(of[q])' \subseteq bucket'
  BY Zenon
<1>1. pc[q] = "repoint" /\ of'[q] = of[q]
  BY Zenon DEF Only
<1>2. of[q] = 2
  BY <1>1, NobodyFree DEF Inv, LockInv, Holds, OpenFile
<1>3. dirty'[of'[q]] = dirty[of[q]] /\ pendingTrim'[of'[q]] = pendingTrim[of[q]]
  BY Zenon, <1>1, <1>2
<1>4. Uploads(of[q])' = Uploads(of[q])
  BY <1>3, Zenon DEF Uploads, Uploaded, Trimmed
<1> QED
  BY Zenon, <1>1, <1>4 DEF Inv, StoredInv

\* The second entry stays empty.
LEMMA FreshKept ==
  ASSUME Inv, NEW p \in Proc, of[p] = 1, linked' => linked, linked' => open' = open,
         dirty'[2] = dirty[2], pendingTrim'[2] = pendingTrim[2], unsettled'[2] = unsettled[2],
         bytes'[2] = bytes[2]
  PROVE  FreshInv'
  BY Zenon DEF Inv, FreshInv, Untouched, EntryInv

\* Every change to the inode counts.
LEMMA CleanKept ==
  ASSUME Inv, NEW p \in Proc, Only(p), pc'[p] # "flight",
         sealed' = sealed, sealedChanges' = sealedChanges, committed' = committed,
         \/ nsDirty' = TRUE /\ changes' = changes + 1
         \/ /\ nsDirty' = nsDirty /\ changes' = changes
            /\ linked' = linked /\ size' = size /\ chunks' = chunks
  PROVE  CleanInv'
<1>1. (\E q \in Proc : pc'[q] = "flight") => \E q \in Proc : pc[q] = "flight"
  BY Zenon DEF Only
<1>2. CleanInv /\ changes \in Nat /\ sealedChanges \in Nat
  BY Zenon DEF Inv, DataTypes
<1>3. CASE nsDirty' = TRUE /\ changes' = changes + 1
  <2>1. sealedChanges <= changes => sealedChanges <= changes + 1 /\ sealedChanges # changes + 1
    BY ONLY <1>2
  <2> QED
    BY Zenon, <1>1, <1>2, <1>3, <2>1 DEF CleanInv
<1>4. CASE nsDirty' = nsDirty /\ changes' = changes /\ Inode' = Inode
  BY <1>1, <1>2, <1>4, Zenon DEF CleanInv
<1> QED
  BY <1>3, <1>4, Zenon DEF Inode

\* The charge moves to the file.
LEMMA BufferChargeFile ==
  ASSUME Inv, NEW p \in Proc, bufferCharge(p)
  PROVE  FileInv'
<1>1. Only(p)
  BY Zenon, OthersKept DEF Call, Step, StoreFails
<1>2. /\ pc[p] = "charge" /\ pc'[p] = "extend" /\ bytes' = [bytes EXCEPT ![of[p]] = @ + charge[p]]
      /\ linked' = linked /\ size' = size /\ chunks' = chunks /\ open' = open /\ unsettled' = unsettled
      /\ dirty' = dirty /\ pendingTrim' = pendingTrim /\ used' = used /\ taken' = taken
      /\ ofmu' = ofmu /\ nsDirty' = nsDirty /\ changes' = changes /\ sealed' = sealed
      /\ sealedChanges' = sealedChanges /\ committed' = committed /\ bucket' = bucket /\ call' = call
      /\ held' = held /\ sinceCut' = sinceCut
  BY Zenon DEF bufferCharge, inodeVars, commitVars, histVars, Goto, Inv, ThreadTypes
<1>3. of[p] = 1 /\ ofmu[1] = p
  BY Zenon, <1>2 DEF Inv, LockInv, Holds
<1>4. DataTypes /\ charge[p] \in Nat /\ bytes[1] \in Nat
  BY Zenon, OpenFiles DEF Inv, LocalTypes, DataTypes
<1>5. Phase = "charge" /\ Phase' = "extend" /\ ofmu'[1] = p /\ Charging = charge[p] /\ Charging' = 0
  BY Zenon, <1>2, <1>3, NobodyFree DEF Phase, Charging
<1>6. bytes'[1] = bytes[1] + charge[p] /\ bytes'[2] = bytes[2] /\ bytes' \in [OpenFile -> Nat]
  BY <1>2, <1>3, <1>4 DEF DataTypes, OpenFile
<1>7. DataTypes'
  BY <1>2, <1>4, <1>6, Zenon DEF DataTypes
<1>8. FreshInv' /\ CleanInv'
  BY Zenon, <1>1, <1>2, <1>3, <1>6, FreshKept, CleanKept
<1>9. ChargeInv'
  BY <1>2, <1>4, <1>5, <1>6 DEF Inv, ChargeInv
<1>10. StoredInv'
  <2>1. \A q \in Proc \ {p} : pc'[q] = "repoint" => Uploads(of[q])' \subseteq bucket'
    BY Zenon, <1>1, <1>2, <1>3, OtherRepointers
  <2>2. \A q \in Proc : pc'[q] = "repoint" => Uploads(of[q])' \subseteq bucket'
    BY Zenon, <1>2, <2>1
  <2> QED
    BY <1>2, <2>2, Zenon DEF Inv, StoredInv, Kept
<1>11. TrimInv'
  BY <1>2, <1>5, Zenon DEF Inv, TrimInv, TrimOf
<1>12. HeldInv'
  <2>1. \A i : Holding(i)' = Holding(i) /\ Written(ofmu[1], i)' = Written(ofmu[1], i)
    BY Zenon, <1>2 DEF Holding, Written
  <2> QED
    BY <1>2, <1>5, <2>1, Zenon DEF Inv, HeldInv
<1>13. CutInv'
  BY <1>2, Zenon DEF Inv, CutInv
<1> QED
  BY Zenon, <1>7, <1>8, <1>9, <1>10, <1>11, <1>12, <1>13 DEF FileInv

\* The histories hold what the file comes to hold.
LEMMA Recorded ==
  ASSUME NEW new, NEW i \in 0 .. MaxSize
  PROVE  /\ new[i] \in CutHistory(new)[i]
         /\ new[i] # Absent => sinceCut[i] \subseteq CutHistory(new)[i]
         /\ new[i] # Absent /\ held[i] = Absent => 0 \in CutHistory(new)[i]
  BY Zenon DEF CutHistory, Gains

\* The write counts: the file holds its bytes, and zeros up to them.
LEMMA ExtendFile ==
  ASSUME Inv, NEW p \in Proc, bufferExtend(p), of[p] = 1, linked
  PROVE  FileInv'
<1> DEFINE end == call[p].off + taken[p]
<1>1. Only(p)
  BY Zenon, OthersKept DEF Call, Step, StoreFails
<1>2. /\ pc[p] = "extend" /\ pc'[p] \in {"idle", "commitFile"} /\ bytes' = bytes
      /\ linked' = linked /\ size' = Larger(size, end) /\ chunks' = chunks /\ open' = open
      /\ unsettled' = unsettled
      /\ dirty' = dirty /\ pendingTrim' = pendingTrim /\ used' = used
      /\ ofmu' = [ofmu EXCEPT ![1] = Nobody] /\ nsDirty' = TRUE /\ changes' = changes + 1 /\ sealed' = sealed
      /\ sealedChanges' = sealedChanges /\ committed' = committed /\ bucket' = bucket
      /\ held' = Extended(p) /\ sinceCut' = CutHistory(Extended(p))
  BY Zenon DEF bufferExtend, markDirty, Becomes, Extended, Goto, Inv, ThreadTypes
<1>3. /\ DataTypes /\ AskTypes /\ LocalTypes /\ ofmu[1] = p
      /\ call[p].off \in Nat /\ taken[p] \in Nat \ {0} /\ end \in 1 .. MaxSize
      /\ size \in Nat /\ size <= MaxSize /\ MaxSize \in Nat /\ call[p].val \in Byte
      /\ MaxCalls \in Nat
  <2>1. DataTypes /\ AskTypes /\ LocalTypes /\ CallInv /\ LockInv
    BY Zenon DEF Inv
  <2>2. call[p].off \in Nat /\ call[p].val \in Byte /\ call[p].len \in Nat /\ MaxCalls \in Nat
        /\ MaxSize \in Nat
    BY <2>1, ConstantsAssumption DEF AskTypes, CallType
  <2>3. ofmu[1] = p /\ call[p].kind \in Writes
    BY <1>2, <2>1 DEF LockInv, Holds
  <2>4. call[p].off + call[p].len <= MaxSize /\ taken[p] \in 1 .. call[p].len
    BY Zenon, <1>2, <2>1, <2>3 DEF CallInv, Called
  <2>5. size \in 0 .. MaxSize
    BY Zenon, <2>1 DEF DataTypes
  <2>6. taken[p] \in Nat \ {0} /\ end \in 1 .. MaxSize /\ size \in Nat /\ size <= MaxSize
    BY ONLY <2>2, <2>4, <2>5
  <2> QED
    BY Zenon, <2>1, <2>2, <2>3, <2>6
<1>4. Phase = "extend" /\ Phase' = "free" /\ Charging = 0 /\ Charging' = 0
  <2>1. ofmu'[1] = Nobody /\ p # Nobody
    BY Zenon, <1>2, NobodyFree, OpenFiles DEF Inv, ThreadTypes
  <2> QED
    BY Zenon, <1>2, <1>3, <2>1 DEF Phase, Charging
<1>5. /\ size' \in 0 .. MaxSize
      /\ \A i \in Int : i > size' <=> i > size /\ i > end
  BY <1>2, <1>3 DEF Larger
<1>6. held' \in [0 .. MaxSize -> Content] /\ sinceCut' \in [0 .. MaxSize -> SUBSET Content]
  BY <1>2, <1>3, ImageTypes, HistoryTypes, Zenon
<1>7. changes' \in Nat
  <2>1. changes \in Nat /\ changes' = changes + 1
    BY Zenon, <1>2, <1>3 DEF DataTypes
  <2> QED
    BY ONLY <2>1
<1>8. DataTypes'
  BY <1>2, <1>3, <1>5, <1>6, <1>7, Zenon DEF DataTypes
<1>9. FreshInv' /\ CleanInv'
  <2>1. pc'[p] # "flight"
    BY Zenon, <1>2
  <2> QED
    BY Zenon, <1>1, <1>2, <2>1, FreshKept, CleanKept
<1>10. ChargeInv'
  BY <1>2, <1>4, Zenon DEF Inv, ChargeInv
<1>11. StoredInv'
  <2>1. \A q \in Proc \ {p} : pc'[q] = "repoint" => Uploads(of[q])' \subseteq bucket'
    BY Zenon, <1>1, <1>2, <1>3, OtherRepointers
  <2>2. \A q \in Proc : pc'[q] = "repoint" => Uploads(of[q])' \subseteq bucket'
    BY Zenon, <1>2, <2>1
  <2> QED
    BY <1>2, <2>2, Zenon DEF Inv, StoredInv, Kept
<1>12. TrimInv'
  <2>1. Phase # "reset"
    BY Zenon, <1>4
  <2> QED
    BY <1>2, <2>1, Zenon DEF Inv, TrimInv, TrimOf
<1>13. \A i \in 0 .. MaxSize : (held[i] = Absent <=> i > size) /\ i \in Int
  BY <1>3 DEF Inv, HeldInv
<1>14. \A i \in 0 .. MaxSize :
         held'[i] = IF call[p].off < i /\ i <= end THEN call[p].val
                    ELSE IF i <= end /\ i > size THEN 0 ELSE held[i]
  BY Zenon, <1>2, <1>13 DEF Extended
<1>15. \A b \in Byte : b # Absent
  BY <1>3 DEF Byte, Absent
<1>16. 0 # Absent
  BY DEF Absent
<1>17. \A i \in 0 .. MaxSize : held'[i] = Absent <=> i > size'
  BY <1>3, <1>5, <1>13, <1>14, <1>15, <1>16
<1>18. HeldInv'
  <2>1. held'[0] = 1
    BY <1>3, <1>14 DEF Inv, HeldInv
  <2>2. ASSUME NEW i \in Place
        PROVE  Shown(dirty[1], pendingTrim[1], chunks, i) = Holding(i)'
    <3>1. Shown(dirty[1], pendingTrim[1], chunks, i) =
            IF Written(p, i) THEN call[p].val ELSE Holding(i)
      BY Zenon, <1>3, <1>4 DEF Inv, HeldInv
    <3>2. i \in 0 .. MaxSize /\ i \in Int
      BY Zenon, PlaceIn
    <3>3. Holding(i)' = IF i > size' THEN 0 ELSE held'[i]
      BY Zenon DEF Holding
    <3>4. Holding(i)' = IF Written(p, i) THEN call[p].val ELSE Holding(i)
      BY <1>3, <1>5, <1>14, <3>2, <3>3 DEF Holding, Written
    <3> QED
      BY <3>1, <3>4
  <2> QED
    BY Zenon, <1>2, <1>4, <1>17, <2>1, <2>2 DEF HeldInv
<1>19. CutInv'
  <2>1. \A i \in 0 .. MaxSize : held'[i] \in sinceCut'[i]
    BY Zenon, <1>2, Recorded
  <2>2. ASSUME ~unsettled[1], NEW i \in Place
        PROVE  ByteAt(chunks, i) \in (IF i > size' THEN {0} ELSE sinceCut'[i])
    <3>1. ByteAt(chunks, i) \in (IF i > size THEN {0} ELSE sinceCut[i])
      BY Zenon, <2>2 DEF Inv, CutInv
    <3>2. i \in 0 .. MaxSize /\ i \in Int
      BY Zenon, PlaceIn
    <3>3. CASE i > size'
      BY Zenon, <1>5, <3>1, <3>2, <3>3
    <3>4. CASE ~(i > size') /\ i > size
      <4>1. ByteAt(chunks, i) = 0
        BY Zenon, <3>1, <3>4
      <4>2. 0 \in sinceCut'[i]
        BY Zenon, <1>2, <1>13, <1>17, <3>2, <3>4, Recorded
      <4> QED
        BY Zenon, <3>4, <4>1, <4>2
    <3>5. CASE ~(i > size)
      <4>1. ~(i > size')
        BY Zenon, <1>5, <3>2, <3>5
      <4>2. sinceCut[i] \subseteq sinceCut'[i]
        BY Zenon, <1>2, <1>17, <3>2, <4>1, Recorded
      <4> QED
        BY Zenon, <3>1, <3>5, <4>1, <4>2
    <3> QED
      BY Zenon, <3>3, <3>4, <3>5
  <2> QED
    BY Zenon, <1>2, <2>1, <2>2 DEF CutInv
<1> QED
  BY Zenon, <1>8, <1>9, <1>10, <1>11, <1>12, <1>18, <1>19 DEF FileInv

\* A flush finds nothing to do, and clears the mark.
LEMMA FlushNothingFile ==
  ASSUME Inv, NEW p \in Proc, flushNothing(p), of[p] = 1
  PROVE  FileInv'
<1>1. Only(p)
  BY Zenon, OthersKept DEF Call, Step, StoreFails
<1>2. /\ pc[p] = "flush" /\ pc'[p] = next[p] /\ bytes' = bytes
      /\ linked' = linked /\ size' = size /\ chunks' = chunks /\ open' = open
      /\ unsettled' = [unsettled EXCEPT ![1] = FALSE] /\ DOMAIN dirty[1] = {} /\ DOMAIN pendingTrim[1] = {}
      /\ dirty' = dirty /\ pendingTrim' = pendingTrim /\ used' = used /\ taken' = taken
      /\ ofmu' = ofmu /\ ofmu[1] = Nobody /\ nsDirty' = nsDirty /\ changes' = changes /\ sealed' = sealed
      /\ sealedChanges' = sealedChanges /\ committed' = committed /\ bucket' = bucket /\ call' = call
      /\ held' = held /\ sinceCut' = sinceCut
  BY Zenon DEF flushNothing, inodeVars, commitVars, histVars, Goto, Inv, ThreadTypes
<1>3. unsettled'[1] = FALSE /\ unsettled'[2] = unsettled[2]
  BY <1>2 DEF Inv, ThreadTypes, OpenFile
<1>4. Phase = "free" /\ Phase' = "free" /\ Charging = 0 /\ Charging' = 0
  BY ZenonT(60), <1>2 DEF Phase, Charging
<1>5. pc'[p] # "flight" /\ pc'[p] # "repoint"
  BY Zenon, <1>2 DEF Inv, LockInv, Flushing
<1>6. DataTypes'
  BY <1>2, Zenon DEF Inv, DataTypes
<1>7. FreshInv' /\ CleanInv'
  BY Zenon, <1>1, <1>2, <1>3, <1>5, FreshKept, CleanKept
<1>8. ChargeInv'
  BY <1>2, <1>4, Zenon DEF Inv, ChargeInv
<1>9. StoredInv'
  <2>1. \A q \in Proc \ {p} : pc'[q] = "repoint" => Uploads(of[q])' \subseteq bucket'
    BY Zenon, <1>1, <1>2, OtherRepointers
  <2>2. \A q \in Proc : pc'[q] = "repoint" => Uploads(of[q])' \subseteq bucket'
    BY Zenon, <1>5, <2>1
  <2> QED
    BY <1>2, <2>2, Zenon DEF Inv, StoredInv, Kept
<1>10. TrimInv'
  BY Zenon, <1>2 DEF TrimInv
<1>11. \A i : Holding(i)' = Holding(i)
  BY Zenon, <1>2 DEF Holding
<1>12. HeldInv'
  BY <1>2, <1>4, <1>11, Zenon DEF Inv, HeldInv
<1>13. CutInv'
  <2>1. ASSUME linked, NEW i \in Place
        PROVE  ByteAt(chunks, i) \in (IF i > size THEN {0} ELSE sinceCut[i])
    <3>1. Shown(dirty[1], pendingTrim[1], chunks, i) = Holding(i)
      BY Zenon, <1>4, <2>1 DEF Inv, HeldInv
    <3>2. ByteAt(chunks, i) = Holding(i)
      BY <1>2, <3>1, ListShown, Zenon DEF Inv
    <3>3. held[i] \in sinceCut[i]
      BY ConstantsAssumption DEF Place, Inv, CutInv
    <3> QED
      BY Zenon, <3>2, <3>3 DEF Holding
  <2> QED
    BY <1>2, <2>1, Zenon DEF Inv, CutInv
<1> QED
  BY Zenon, <1>6, <1>7, <1>8, <1>9, <1>10, <1>12, <1>13 DEF FileInv

\* What a flush uploads are chunks.
LEMMA UploadsAre ==
  ASSUME AskTypes, DataTypes
  PROVE  Uploads(1) \subseteq Chunk
<1>1. dirty[1] \in Buffers /\ pendingTrim[1] \in TrimMaps /\ MaxCalls \in Nat
  BY DEF DataTypes, OpenFile, AskTypes
<1>2. ASSUME NEW idx \in DOMAIN dirty[1]
      PROVE  Uploaded(1)[idx].data \in Chunk
  <2>1. dirty[1][idx] \in Chunk
    BY Zenon, <1>1 DEF Buffers
  <2>2. Uploaded(1)[idx] = Stored(dirty[1][idx])
    BY Zenon DEF Uploaded
  <2> QED
    BY Zenon, <1>1, <2>1, <2>2, RefIs
<1>3. ASSUME NEW idx \in DOMAIN pendingTrim[1]
      PROVE  Trimmed(1)[idx].data \in Chunk
  <2> DEFINE t == pendingTrim[1][idx]
             m == Smaller(t.to, Len(t.ref.data))
  <2>1. t \in TrimType
    BY Zenon, <1>1 DEF TrimMaps
  <2>2. t.to \in 1 .. ChunkSize - 1 /\ t.ref.data \in Chunk
    BY Zenon, <1>1, <2>1, RefIs DEF TrimType
  <2>3. t.to \in Int /\ t.to > 0 /\ Len(t.ref.data) \in Nat
    BY <2>2, ChunkIs, ConstantsAssumption
  <2>4. m \in Int /\ 0 <= m /\ m <= Len(t.ref.data)
    BY <2>3 DEF Smaller
  <2>5. Trimmed(1)[idx] = Stored(SubSeq(t.ref.data, 1, m))
    BY Zenon DEF Trimmed
  <2> HIDE DEF t, m
  <2>6. SubSeq(t.ref.data, 1, m) \in Chunk
    BY Zenon, <2>2, <2>4, Beginning
  <2> QED
    BY Zenon, <1>1, <2>5, <2>6, RefIs
<1> QED
  BY Zenon, <1>2, <1>3 DEF Uploads

\* A flush takes the lock and uploads.
LEMMA FlushUploadFile ==
  ASSUME Inv, NEW p \in Proc, flushUpload(p), of[p] = 1
  PROVE  FileInv'
<1>1. Only(p)
  BY Zenon, OthersKept DEF Call, Step, StoreFails
<1>2. /\ pc[p] = "flush" /\ pc'[p] = "repoint" /\ of' = of /\ bytes' = bytes
      /\ linked' = linked /\ size' = size /\ chunks' = chunks /\ open' = open
      /\ unsettled' = unsettled
      /\ dirty' = dirty /\ pendingTrim' = pendingTrim /\ used' = used
      /\ ofmu' = [ofmu EXCEPT ![1] = p] /\ ofmu[1] = Nobody /\ nsDirty' = nsDirty /\ changes' = changes
      /\ sealed' = sealed
      /\ sealedChanges' = sealedChanges /\ committed' = committed /\ bucket' = bucket \cup Uploads(1)
      /\ held' = held /\ sinceCut' = sinceCut
  BY Zenon DEF flushUpload, inodeVars, commitVars, histVars, Goto, Inv, ThreadTypes
<1>3. Phase = "free" /\ Phase' = "repoint" /\ Charging = 0 /\ Charging' = 0
  BY <1>2, NobodyFree DEF Phase, Charging, Inv, ThreadTypes, OpenFile
<1>4. DataTypes'
  <2>1. bucket' \subseteq Chunk
    BY Zenon, <1>2, UploadsAre DEF Inv, DataTypes
  <2> QED
    BY <1>2, <2>1, Zenon DEF Inv, DataTypes
<1>5. FreshInv' /\ CleanInv'
  BY Zenon, <1>1, <1>2, FreshKept, CleanKept
<1>6. ChargeInv'
  <2>1. Phase # "extend"
    BY Zenon, <1>3
  <2> QED
    BY <1>2, <1>3, <2>1, Zenon DEF Inv, ChargeInv
<1>7. StoredInv'
  <2>1. \A q \in Proc \ {p} : pc'[q] = "repoint" => Uploads(of[q])' \subseteq bucket'
    BY Zenon, <1>1, <1>2, OtherRepointers
  <2>2. Uploads(of[p])' = Uploads(of[p])
    BY <1>2, Zenon DEF Uploads, Uploaded, Trimmed
  <2>3. \A q \in Proc : pc'[q] = "repoint" => Uploads(of[q])' \subseteq bucket'
    BY Zenon, <1>2, <2>1, <2>2
  <2>4. \A r : Kept(r) => Kept(r)'
    BY Zenon, <1>2 DEF Kept
  <2> QED
    BY <1>2, <2>3, <2>4, Zenon DEF Inv, StoredInv
<1>8. TrimInv'
  <2>1. Phase # "reset"
    BY Zenon, <1>3
  <2> QED
    BY <1>2, <2>1, Zenon DEF Inv, TrimInv, TrimOf
<1>9. \A i : Holding(i)' = Holding(i)
  BY Zenon, <1>2 DEF Holding
<1>10. HeldInv'
  BY <1>2, <1>3, <1>9, Zenon DEF Inv, HeldInv
<1>11. CutInv'
  BY <1>2, Zenon DEF Inv, CutInv
<1> QED
  BY Zenon, <1>4, <1>5, <1>6, <1>7, <1>8, <1>10, <1>11 DEF FileInv

\* The seal takes the inode.
LEMMA SealFile ==
  ASSUME Inv, NEW p \in Proc, seal(p)
  PROVE  FileInv'
<1>1. Only(p)
  BY Zenon, OthersKept DEF Call, Step, StoreFails
<1>2. ~(open # 0 /\ unsettled[open])
  BY Zenon DEF seal, Inv, MarkInv
<1>3. /\ pc[p] = "seal" /\ pc'[p] = "flight" /\ sealed' = Inode /\ sealedChanges' = changes
      /\ linked' = linked /\ size' = size /\ chunks' = chunks /\ open' = open
      /\ unsettled' = unsettled /\ dirty' = dirty /\ pendingTrim' = pendingTrim
      /\ bytes' = bytes /\ used' = used /\ ofmu' = ofmu /\ nsDirty' = nsDirty /\ changes' = changes
      /\ committed' = committed /\ bucket' = bucket /\ held' = held /\ sinceCut' = sinceCut
  BY Zenon, <1>2 DEF seal, inodeVars, openVars, Goto, Inv, ThreadTypes
<1>4. ofmu[1] # p
  BY Zenon, <1>3, PhaseIs DEF Holds
<1>5. DataTypes /\ Inode \in InodeType
  BY Zenon DEF Inv, DataTypes, ThreadTypes, Inode, InodeType
<1>6. DataTypes'
  BY <1>3, <1>5, Zenon DEF DataTypes
<1>7. FreshInv' /\ CutInv'
  BY <1>3, Zenon DEF Inv, FreshInv, Untouched, CutInv
<1>8. CleanInv'
  <2>1. Inode' = Inode
    BY Zenon, <1>3 DEF Inode
  <2>2. changes <= changes
    BY <1>5 DEF DataTypes
  <2> QED
    BY <1>3, <2>1, <2>2, Zenon DEF Inv, CleanInv
<1>9. StoredInv'
  <2>1. ASSUME NEW q \in Proc, pc'[q] = "repoint"
        PROVE  Uploads(of[q])' \subseteq bucket'
    <3>1. q # p /\ pc[q] = "repoint" /\ of'[q] = of[q]
      BY Zenon, <1>1, <1>3, <2>1 DEF Only
    <3>2. Uploads(of[q])' = Uploads(of[q])
      BY <1>3, <3>1, Zenon DEF Uploads, Uploaded, Trimmed
    <3> QED
      BY ZenonT(60), <1>3, <3>1, <3>2 DEF Inv, StoredInv
  <2>2. sealed'.chunks = chunks
    BY ZenonT(60), <1>3 DEF Inode
  <2> QED
    BY <1>3, <2>1, <2>2, Zenon DEF Inv, StoredInv, Kept
<1>10. Phase' = Phase /\ Charging' = Charging
       /\ (Phase \in {"charge", "extend"} =>
             \A i : Written(ofmu[1], i)' = Written(ofmu[1], i) /\ call'[ofmu[1]] = call[ofmu[1]])
  <2>1. ofmu[1] = Nobody \/ (ofmu[1] \in Proc \ {p})
    BY Zenon, <1>4, PhaseIs
  <2>2. CASE ofmu[1] = Nobody
    BY Zenon, <1>3, <2>2 DEF Phase, Charging
  <2>3. CASE ofmu[1] \in Proc \ {p}
    BY Zenon, <1>1, <1>3, <2>3 DEF Phase, Charging, Only, Written
  <2> QED
    BY Zenon, <2>1, <2>2, <2>3
<1>11. ChargeInv'
  BY <1>3, <1>10, Zenon DEF Inv, ChargeInv
<1>12. TrimInv'
  BY <1>3, <1>10, Zenon DEF Inv, TrimInv, TrimOf
<1>13. HeldInv'
  <2>1. \A i : Holding(i)' = Holding(i)
    BY Zenon, <1>3 DEF Holding
  <2> QED
    BY <1>3, <1>10, <2>1, Zenon DEF Inv, HeldInv
<1> QED
  BY Zenon, <1>6, <1>7, <1>8, <1>9, <1>11, <1>12, <1>13 DEF FileInv

\* The flight makes the sealed inode the committed one.
LEMMA FlightFile ==
  ASSUME Inv, NEW p \in Proc, flight(p)
  PROVE  FileInv'
<1>1. Only(p)
  BY Zenon, OthersKept DEF Call, Step, StoreFails
<1>2. /\ pc[p] = "flight" /\ pc'[p] = "acked" /\ committed' = sealed
      /\ nsDirty' = (changes # sealedChanges) /\ changes' = changes /\ commitMu' = Nobody
      /\ linked' = linked /\ size' = size /\ chunks' = chunks /\ open' = open
      /\ unsettled' = unsettled /\ dirty' = dirty /\ pendingTrim' = pendingTrim
      /\ bytes' = bytes /\ used' = used /\ ofmu' = ofmu
      /\ sealed' = sealed /\ sealedChanges' = sealedChanges
      /\ bucket' = bucket /\ held' = held /\ sinceCut' = sinceCut
  BY Zenon DEF flight, UnchangedByList, inodeVars, openVars, histVars, Goto, Inv,
     ThreadTypes
<1>3. ofmu[1] # p
  BY Zenon, <1>2, PhaseIs DEF Holds
<1>4. DataTypes'
  BY <1>2, Zenon DEF Inv, DataTypes
<1>5. FreshInv' /\ CutInv'
  BY <1>2, Zenon DEF Inv, FreshInv, Untouched, CutInv
<1>6. CleanInv'
  <2>1. Inode' = Inode
    BY Zenon, <1>2 DEF Inode
  <2>2. \A q \in Proc : pc'[q] # "flight"
    <3>1. \A q \in Proc : pc[q] = "flight" => q = p
      BY Zenon, <1>2 DEF Inv, GateInv
    <3> QED
      BY Zenon, <1>1, <1>2, <3>1 DEF Only
  <2>3. sealedChanges = changes => sealed = Inode
    BY Zenon, <1>2 DEF Inv, CleanInv
  <2> QED
    BY <1>2, <2>1, <2>2, <2>3, Zenon DEF CleanInv
<1>7. StoredInv'
  <2>1. ASSUME NEW q \in Proc, pc'[q] = "repoint"
        PROVE  Uploads(of[q])' \subseteq bucket'
    <3>1. q # p /\ pc[q] = "repoint" /\ of'[q] = of[q]
      BY Zenon, <1>1, <1>2, <2>1 DEF Only
    <3>2. Uploads(of[q])' = Uploads(of[q])
      BY <1>2, <3>1, Zenon DEF Uploads, Uploaded, Trimmed
    <3> QED
      BY Zenon, <1>2, <3>1, <3>2 DEF Inv, StoredInv
  <2> QED
    BY <1>2, <2>1, Zenon DEF Inv, StoredInv, Kept
<1>8. Phase' = Phase /\ Charging' = Charging
      /\ (Phase \in {"charge", "extend"} =>
            \A i : Written(ofmu[1], i)' = Written(ofmu[1], i) /\ call'[ofmu[1]] = call[ofmu[1]])
  <2>1. ofmu[1] = Nobody \/ (ofmu[1] \in Proc \ {p})
    BY Zenon, <1>3, PhaseIs
  <2>2. CASE ofmu[1] = Nobody
    BY Zenon, <1>2, <2>2 DEF Phase, Charging
  <2>3. CASE ofmu[1] \in Proc \ {p}
    BY Zenon, <1>1, <1>2, <2>3 DEF Phase, Charging, Only, Written
  <2> QED
    BY Zenon, <2>1, <2>2, <2>3
<1>9. ChargeInv'
  BY <1>2, <1>8, Zenon DEF Inv, ChargeInv
<1>10. TrimInv'
  BY <1>2, <1>8, Zenon DEF Inv, TrimInv, TrimOf
<1>11. HeldInv'
  <2>1. \A i : Holding(i)' = Holding(i)
    BY Zenon, <1>2 DEF Holding
  <2> QED
    BY <1>2, <1>8, <2>1, Zenon DEF Inv, HeldInv
<1> QED
  BY Zenon, <1>4, <1>5, <1>6, <1>7, <1>9, <1>10, <1>11 DEF FileInv

-----------------------------------------------------------------------------
(* What a write is asked for *)

\* A write's list stays the inode's while it fills: only a truncate and a
\* flush change that, and both wait for the lock.
LEMMA OtherCalled ==
  ASSUME Inv, NEW p \in Proc, Call(p) \/ Step(p) \/ StoreFails(p), NEW q \in Proc, q # p
  PROVE  Called(q)'
<1>1. Only(p)
  BY Zenon, OthersKept
<1>2. chunks' = chunks \/ (truncate(p) /\ linked) \/ (flushRepoint(p) /\ linked)
  BY FillFails, Zenon DEF Call, Step, StoreFails, StartWrite, StartTruncate,
     StartCommit, StartSync, Start,
     unlink, getOpen, bufferLock, bufferFill, bufferCharge, bufferExtend, gateRLock, truncate,
     flushNothing, flushUpload, flushRepoint, flushReset, commitFile, flushAll, syncClean, syncDirty,
     settleAll, seal, flight, reply, bufferFillFails, flushFails, flightFails, UnchangedByList, inodeVars
<1>3. pc[q] = "fill" => chunks' = chunks
  <2> SUFFICES ASSUME pc[q] = "fill" PROVE chunks' = chunks
    BY Zenon
  <2>1. ofmu[1] = q /\ q # Nobody
    BY Zenon, NobodyFree DEF Inv, LockInv, Holds
  <2>2. ~(truncate(p) /\ linked)
    <3>1. truncate(p) /\ linked => of[p] = 1 /\ ofmu[of[p]] = Nobody
      BY Zenon, AtFirst DEF truncate
    <3> QED
      BY Zenon, <2>1, <3>1
  <2>3. ~(flushRepoint(p) /\ linked)
    <3>1. flushRepoint(p) /\ linked => of[p] = 1 /\ ofmu[of[p]] = p
      BY Zenon, AtFirst DEF flushRepoint, Inv, LockInv, Holds
    <3> QED
      BY Zenon, <2>1, <3>1
  <2> QED
    BY Zenon, <1>2, <2>2, <2>3
<1>4. /\ pc'[q] = pc[q] /\ call'[q] = call[q] /\ refs'[q] = refs[q] /\ taken'[q] = taken[q]
  BY Zenon, <1>1 DEF Only
<1>5. Called(q)
  BY Zenon DEF Inv, CallInv
<1> QED
  BY <1>3, <1>4, <1>5, Zenon DEF Called

\* The steps of a write that lead to another of its labels.
LEMMA OwnCalled ==
  ASSUME Inv, NEW p \in Proc, Call(p) \/ Step(p) \/ StoreFails(p)
  PROVE  Called(p)'
<1>1. /\ Called(p) /\ DOMAIN pc = Proc /\ DOMAIN call = Proc /\ DOMAIN refs = Proc /\ DOMAIN taken = Proc
      /\ AskTypes
  BY Zenon DEF Inv, CallInv, ThreadTypes, AskTypes, LocalTypes
<1>2. CASE StartWrite(p)
  <2>1. PICK r \in load.ranges, kind \in Writes :
          /\ call' = [call EXCEPT ![p] = [kind |-> kind, off |-> r[1],
                        len |-> Smaller(r[2], MaxSize - r[1]), val |-> load.calls + 1]]
          /\ pc' = [pc EXCEPT ![p] = "getOpen"]
    BY <1>2, Zenon DEF StartWrite, Start, Goto, Writes
  <2>2. r[1] \in 0 .. MaxSize - 1 /\ r[2] \in Nat \ {0} /\ MaxSize \in Nat
    BY Zenon, <1>1, ConstantsAssumption DEF AskTypes, LoadType
  <2> DEFINE len == Smaller(r[2], MaxSize - r[1])
  <2>3. len \in Nat \ {0} /\ r[1] + len <= MaxSize
    BY Zenon, <2>2, Clamped
  <2> HIDE DEF len
  <2>4. call'[p].len = len /\ call'[p].off = r[1] /\ pc'[p] = "getOpen"
    BY Zenon, <1>1, <2>1 DEF len
  <2> QED
    BY Zenon, <2>3, <2>4 DEF Called
<1>3. CASE gateRLock(p)
  <2>1. pc'[p] = "getOpen" /\ call'[p] = call[p] /\ call[p].kind = "truncate"
    BY Zenon, <1>1, <1>3 DEF gateRLock, Goto, Inv, LockInv
  <2> QED
    BY Zenon, <2>1 DEF Called, Writes
<1>4. CASE getOpen(p)
  <2>1. pc[p] = "getOpen" /\ pc'[p] = "lock" /\ call'[p] = call[p]
    BY Zenon, <1>1, <1>4 DEF getOpen, Goto
  <2> QED
    BY Zenon, <1>1, <2>1 DEF Called
<1>5. CASE bufferLock(p)
  <2>1. /\ pc[p] = "lock" /\ pc'[p] \in {"fill", "extend"} /\ call'[p] = call[p] /\ call[p].kind \in Writes
        /\ pc'[p] = "fill" => refs'[p] = chunks'
        /\ pc'[p] = "extend" => taken'[p] = call[p].len
    BY Zenon, <1>1, <1>5 DEF bufferLock, Goto, inodeVars, Writes
  <2>2. call[p].len \in Nat \ {0} => call[p].len \in 1 .. call[p].len
    BY Zenon, WholePart
  <2> QED
    BY Zenon, <1>1, <2>1, <2>2 DEF Called
<1>6. CASE bufferFill(p)
  <2>1. pc[p] = "fill" /\ pc'[p] = "charge" /\ call'[p] = call[p] /\ taken'[p] = call[p].len
    BY Zenon, <1>1, <1>6 DEF bufferFill, Goto, Take
  <2>2. call[p].kind \in Writes
    BY Zenon, <2>1 DEF Inv, LockInv
  <2> QED
    BY <1>1, <2>1, <2>2 DEF Called
<1>7. CASE bufferFillFails(p)
  <2>1. pc[p] = "fill"
    BY Zenon, <1>7 DEF bufferFillFails
  <2>2. CASE FillsShort(p)
    <3>1. pc'[p] = "charge" /\ call'[p] = call[p] /\ taken'[p] \in 1 .. call[p].len
      <4>1. pc'[p] = "charge" /\ call'[p] = call[p]
        BY Zenon, <1>1, <2>2 DEF FillsShort, Goto
      <4>2. PICK n \in 1 .. call[p].len : Take(p, n)
        BY Zenon, <2>2 DEF FillsShort
      <4> QED
        BY Zenon, <1>1, <4>1, <4>2 DEF Take
    <3> QED
      BY Zenon, <1>1, <2>1, <3>1 DEF Called
  <2>3. CASE FillsNothing(p)
    <3>1. pc'[p] = "idle"
      BY Zenon, <1>1, <2>3 DEF FillsNothing, Return, Goto
    <3> QED
      BY Zenon, <3>1 DEF Called
  <2> QED
    BY Zenon, <1>7, <2>2, <2>3, FillFails
<1>8. CASE bufferCharge(p)
  <2>1. pc[p] = "charge" /\ pc'[p] = "extend" /\ call'[p] = call[p] /\ taken'[p] = taken[p]
    BY Zenon, <1>1, <1>8 DEF bufferCharge, Goto
  <2> QED
    BY Zenon, <1>1, <2>1 DEF Called
<1>9. ASSUME ~StartWrite(p), ~gateRLock(p), ~getOpen(p), ~bufferLock(p), ~bufferFill(p),
             ~bufferFillFails(p), ~bufferCharge(p)
      PROVE  Called(p)'
  <2>1. \/ pc'[p] \in {"gate", "commitFile", "flushAll", "flush", "repoint", "reset", "commitMu", "gateLock",
                       "seal", "flight", "acked", "idle"}
        \/ pc'[p] = next[p] /\ pc[p] \in Flushing
    BY <1>1, <1>9, Zenon DEF Call, Step, StoreFails, StartTruncate, StartCommit,
       StartSync, Start, Asks, Goto,
       unlink, threadVars, bufferExtend, truncate, flushNothing, flushUpload, flushRepoint, flushReset,
       commitFile, flushAll, syncClean, syncDirty, settleAll, seal, flight, reply, flushFails,
       flightFails, Return, Flush, Flushing
  <2>2. pc'[p] \notin {"getOpen", "lock", "fill", "charge", "extend"}
    BY Zenon, <2>1 DEF Inv, LockInv
  <2> QED
    BY Zenon, <2>2 DEF Called
<1> QED
  BY Zenon, <1>2, <1>3, <1>4, <1>5, <1>6, <1>7, <1>8, <1>9

\* Every step keeps what a write relies on until it is done.
LEMMA CallStep ==
  ASSUME Inv, NEW p \in Proc, Call(p) \/ Step(p) \/ StoreFails(p)
  PROVE  CallInv'
  BY Zenon, OtherCalled, OwnCalled DEF CallInv

-----------------------------------------------------------------------------
(* What a commit covers *)

CoverDataKept ==
  /\ linked' = linked /\ size' = size /\ chunks' = chunks /\ held' = held
  /\ sealed' = sealed /\ committed' = committed

\* The steps that change nothing a commit is covered by.
CoverQuiet(p) ==
  \/ StartWrite(p) \/ StartTruncate(p) \/ StartCommit(p) \/ StartSync(p)
  \/ getOpen(p) \/ bufferLock(p) \/ bufferFill(p) \/ bufferFillFails(p) \/ bufferCharge(p)
  \/ gateRLock(p) \/ commitFile(p) \/ flushAll(p) \/ syncClean(p) \/ syncDirty(p)
  \/ settleAll(p) \/ flightFails(p) \/ reply(p)
  \/ flushNothing(p) \/ flushUpload(p) \/ flushReset(p) \/ flushFails(p)

\* The inode of a flushed file covers a commit.
LEMMA ImageCovered ==
  ASSUME Inv, NEW q \in Proc, Active(q), Flushed(q)
  PROVE  CoveredBy(Inode, q)
<1> SUFFICES ASSUME NEW i \in 0 .. MaxSize
             PROVE  Image(Inode)[i] \in sinceCall[q][i]
  BY Zenon DEF CoveredBy
<1>1. Image(Inode)[i] = IF ~linked \/ i > size THEN Absent ELSE IF i = 0 THEN 1 ELSE ByteAt(chunks, i)
  BY Zenon DEF Image, Inode
<1>2. Cover(q) /\ HeldInv
  BY Zenon DEF Inv, CoverInv
<1>3. held[i] \in sinceCall[q][i]
  BY Zenon, <1>2 DEF Cover
<1>4. CASE ~linked
  BY Zenon, <1>1, <1>2, <1>3, <1>4 DEF HeldInv
<1>5. CASE linked /\ i > size
  <2>1. held[i] = Absent
    BY Zenon, <1>2, <1>5 DEF HeldInv
  <2> QED
    BY Zenon, <1>1, <1>3, <1>5, <2>1
<1>6. CASE linked /\ ~(i > size) /\ i = 0
  BY Zenon, <1>1, <1>2, <1>3, <1>6 DEF HeldInv
<1>7. CASE linked /\ ~(i > size) /\ i # 0
  <2>1. i \in Place
    BY Zenon, <1>7, PlaceOf
  <2>2. Within(i, sinceCall[q][i])
    BY Zenon, <1>2, <1>7, <2>1 DEF Cover
  <2>3. ByteAt(chunks, i) \in sinceCall[q][i]
    BY <1>7, <2>2, Zenon DEF Within
  <2> QED
    BY <1>1, <1>7, <2>3, Zenon
<1> QED
  BY Zenon, <1>4, <1>5, <1>6, <1>7

\* A step of p that leaves the file alone leaves what the others are covered by.
LEMMA OtherCover ==
  ASSUME Inv, NEW p \in Proc, Only(p), CoverDataKept, pc'[p] = "flight" => pc[p] = "flight",
         NEW q \in Proc, q # p, sinceCall'[q] = sinceCall[q]
  PROVE  Cover(q)'
<1>1. pc'[q] = pc[q] /\ next'[q] = next[q]
  BY Zenon DEF Only
<1>2. (\E r \in Proc : pc'[r] = "flight") => \E r \in Proc : pc[r] = "flight"
  BY Zenon DEF Only
<1>3. Cover(q)
  BY Zenon DEF Inv, CoverInv
<1>4. Active(q)' = Active(q) /\ Flushed(q)' = Flushed(q)
  BY Zenon, <1>1 DEF Active, Flushed, Settling
<1>6. \A i, m : Within(i, m)' = Within(i, m)
  BY Zenon DEF Within, CoverDataKept
<1>7. sealed' = sealed /\ committed' = committed /\ linked' = linked /\ held' = held
  BY Zenon DEF CoverDataKept
<1>8. CoveredBy(sealed, q)' = CoveredBy(sealed, q) /\ CoveredBy(committed, q)' = CoveredBy(committed, q)
  BY <1>7, Zenon DEF CoveredBy, Image
<1> QED
  BY <1>1, <1>2, <1>3, <1>4, <1>6, <1>7, <1>8, Zenon DEF Cover

\* A commit goes on: it stays covered once it has flushed, or finds that the
\* list shows what the file holds.
LEMMA OwnCover ==
  ASSUME Inv, NEW p \in Proc, CoverDataKept, Active(p), sinceCall'[p] = sinceCall[p],
         pc'[p] \notin {"flight", "acked"},
         \/ Flushed(p)' => Flushed(p)
         \/ linked => \A i \in Place : ByteAt(chunks, i) = Holding(i)
  PROVE  Cover(p)'
<1>1. \A i \in 0 .. MaxSize : held[i] \in sinceCall[p][i]
  BY Zenon DEF Inv, CoverInv, Cover
<1>2. ASSUME Flushed(p)', linked, NEW i \in Place
      PROVE  Within(i, sinceCall[p][i])
  <2>1. CASE Flushed(p)
    BY Zenon, <1>2, <2>1 DEF Inv, CoverInv, Cover
  <2>2. CASE ByteAt(chunks, i) = Holding(i)
    <3>1. held[i] \in sinceCall[p][i]
      BY Zenon, <1>1, PlaceIn
    <3> QED
      BY Zenon, <2>2, <3>1 DEF Holding, Within
  <2> QED
    BY Zenon, <1>2, <2>1, <2>2
<1>3. \A i, m : Within(i, m)' = Within(i, m)
  BY Zenon DEF Within, CoverDataKept
<1> QED
  BY Zenon, <1>1, <1>2, <1>3 DEF Cover, CoverDataKept

\* With nothing in the buffers and nobody at them the list shows what the file
\* holds.
LEMMA ListHolds ==
  ASSUME Inv, linked, open = 0 \/ (ofmu[1] = Nobody /\ DOMAIN dirty[1] = {} /\ DOMAIN pendingTrim[1] = {})
  PROVE  \A i \in Place : ByteAt(chunks, i) = Holding(i)
<1> SUFFICES ASSUME NEW i \in Place PROVE ByteAt(chunks, i) = Holding(i)
  BY Zenon
<1>1. ofmu[1] = Nobody /\ DOMAIN dirty[1] = {} /\ DOMAIN pendingTrim[1] = {}
  <2>1. CASE open = 0
    <3>1. dirty[1] = NoFun /\ pendingTrim[1] = NoFun
      BY Zenon, <2>1 DEF Inv, FreshInv, Untouched
    <3>2. ofmu[1] = Nobody
      <4>1. \A p \in Proc : of[p] # 1
        BY Zenon, <2>1 DEF Inv, EntryInv
      <4>2. ofmu[1] \in Proc \cup {Nobody}
        BY DEF Inv, ThreadTypes, OpenFile
      <4>3. \A p \in Proc : ofmu[1] # p
        BY Zenon, <4>1, PhaseIs
      <4> QED
        BY Zenon, <4>2, <4>3
    <3> QED
      BY Zenon, <3>1, <3>2 DEF NoFun
  <2> QED
    BY Zenon, <2>1
<1>2. Phase = "free"
  BY Zenon, <1>1 DEF Phase
<1>3. Shown(dirty[1], pendingTrim[1], chunks, i) = Holding(i)
  BY Zenon, <1>2 DEF Inv, HeldInv
<1> QED
  BY <1>1, <1>3, ListShown, Zenon DEF Inv

\* The steps that leave the file and its histories alone leave every commit
\* covered.
LEMMA QuietCover ==
  ASSUME Inv, NEW p \in Proc, CoverQuiet(p)
  PROVE  CoverInv'
<1>1. Only(p) /\ DOMAIN pc = Proc /\ DOMAIN sinceCall = Proc /\ DOMAIN next = Proc
  BY OthersKept, Zenon DEF Call, Step, StoreFails, CoverQuiet, Inv, ThreadTypes,
     LocalTypes
<1>2. CoverDataKept
  BY Zenon DEF CoverDataKept, CoverQuiet, StartWrite, StartTruncate, StartCommit,
     StartSync, Start,
     getOpen, bufferLock, bufferFill, bufferFillFails, bufferCharge, gateRLock, commitFile, flushAll,
     syncClean, syncDirty, settleAll, flightFails, reply, flushNothing, flushUpload, flushReset,
     flushFails, UnchangedByList, inodeVars, commitVars, histVars
<1>3. \A q \in Proc \ {p} : sinceCall'[q] = sinceCall[q]
  <2>1. sinceCall' = sinceCall \/ \E s : sinceCall' = [sinceCall EXCEPT ![p] = s]
    BY FillFails, Zenon DEF CoverQuiet, StartWrite, StartTruncate, StartCommit, StartSync,
       getOpen, bufferLock, bufferFill, bufferCharge, gateRLock, commitFile, flushAll,
       syncClean, syncDirty, settleAll, flightFails, reply, flushNothing, flushUpload, flushReset,
       flushFails, UnchangedByList, histVars, FillsShort, FillsNothing, Return
  <2> QED
    BY Zenon, <1>1, <2>1
<1>4. next[p] \in {"flushAll", "commitMu", "seal"} \/ pc[p] \notin Flushing
  BY Zenon DEF Inv, LockInv
<1>5. pc'[p] # "flight"
  <2>1. pc'[p] # "flight" \/ (pc'[p] = next[p] /\ pc[p] \in Flushing)
    BY <1>1, FillFails, Zenon DEF CoverQuiet, StartWrite, StartTruncate, StartCommit,
       StartSync, Start, Asks, Goto,
       getOpen, bufferLock, bufferFill, bufferCharge, gateRLock, commitFile, flushAll,
       syncClean, syncDirty, settleAll, flightFails, reply, flushNothing, flushUpload, flushReset,
       flushFails, FillsShort, FillsNothing, Return, Flush, Flushing
  <2> QED
    BY Zenon, <1>4, <2>1
<1>6. \A q \in Proc \ {p} : Cover(q)'
  BY Zenon, <1>1, <1>2, <1>3, <1>5, OtherCover
<1>7. Cover(p)'
  <2>1. CASE \/ StartWrite(p) \/ StartTruncate(p) \/ getOpen(p) \/ bufferLock(p) \/ bufferFill(p)
             \/ bufferFillFails(p) \/ bufferCharge(p) \/ gateRLock(p) \/ flightFails(p) \/ reply(p)
             \/ flushFails(p)
    <3>1. pc'[p] \in {"getOpen", "gate", "lock", "fill", "extend", "charge", "idle"}
      BY <1>1, <2>1, FillFails, Zenon DEF StartWrite, StartTruncate, Start, Goto,
         getOpen, bufferLock, bufferFill, bufferCharge, gateRLock, flightFails, reply,
         flushFails, FillsShort, FillsNothing, Return
    <3>2. ~Active(p)' /\ ~Flushed(p)' /\ pc'[p] \notin {"flight", "acked"}
      BY Zenon, <3>1 DEF Active, Flushed, Settling, Flushing
    <3> QED
      BY Zenon, <3>2 DEF Cover
  <2>2. CASE StartCommit(p) \/ StartSync(p)
    <3>1. pc'[p] \in {"commitFile", "flushAll"} /\ sinceCall'[p] = Promise(held)
      BY <1>1, <2>2, Zenon DEF StartCommit, StartSync, Start, Goto
    <3>2. ~Flushed(p)' /\ pc'[p] \notin {"flight", "acked"}
      BY Zenon, <3>1 DEF Flushed, Settling, Flushing
    <3>3. \A i \in 0 .. MaxSize : held[i] \in sinceCall'[p][i]
      BY Zenon, <3>1 DEF Promise
    <3> QED
      BY Zenon, <1>2, <3>2, <3>3 DEF Cover, CoverDataKept
  <2>3. CASE commitFile(p) \/ syncDirty(p) \/ settleAll(p) \/ flushUpload(p) \/ flushReset(p)
    <3>1. sinceCall' = sinceCall
      BY <2>3, Zenon DEF commitFile, syncDirty, settleAll, flushUpload, flushReset,
         UnchangedByList, histVars
    <3>2. \/ pc[p] = "commitFile" /\ pc'[p] = "flush" /\ next'[p] = "flushAll"
          \/ pc[p] = "commitFile" /\ pc'[p] = "flushAll"
          \/ pc[p] = "commitMu" /\ pc'[p] = "gateLock"
          \/ pc[p] = "gateLock" /\ pc'[p] \in {"flush", "seal"}
          \/ pc[p] = "flush" /\ pc'[p] = "repoint" /\ next'[p] = next[p]
          \/ pc[p] = "reset" /\ pc'[p] = next[p]
      BY <1>1, <2>3, Zenon DEF commitFile, syncDirty, settleAll, flushUpload,
         flushReset, Goto, Flush
    <3>3. Active(p) /\ (Flushed(p)' => Flushed(p)) /\ pc'[p] \notin {"flight", "acked"}
      BY Zenon, <1>4, <3>2 DEF Active, Flushed, Settling, Flushing
    <3> QED
      BY <1>2, <3>1, <3>3, OwnCover, Zenon
  <2>4. CASE flushAll(p) \/ flushNothing(p)
    <3>1. sinceCall' = sinceCall
      BY <2>4, Zenon DEF flushAll, flushNothing, UnchangedByList, histVars
    <3>2. pc[p] \in {"flushAll", "flush"} /\ pc'[p] \notin {"flight", "acked"} /\ Active(p)
      <4>1. CASE flushAll(p)
        BY Zenon, <1>1, <4>1 DEF flushAll, Goto, Flush, Active
      <4>2. CASE flushNothing(p)
        <5>1. pc[p] = "flush" /\ pc'[p] = next[p]
          BY Zenon, <1>1, <4>2 DEF flushNothing, Goto
        <5> QED
          BY Zenon, <1>4, <5>1 DEF Active, Flushing
      <4> QED
        BY Zenon, <2>4, <4>1, <4>2
    <3>3. (Flushed(p)' => Flushed(p)) \/ (linked => \A i \in Place : ByteAt(chunks, i) = Holding(i))
      <4>1. CASE flushAll(p) /\ open # 0
        <5>1. pc'[p] = "flush" /\ next'[p] = "commitMu"
          BY Zenon, <1>1, <4>1 DEF flushAll, Goto, Flush
        <5> QED
          BY Zenon, <5>1 DEF Flushed, Settling
      <4>2. CASE flushAll(p) /\ open = 0
        BY Zenon, <4>2, ListHolds
      <4>3. CASE flushNothing(p)
        <5>1. linked => of[p] = 1
          BY Zenon, <4>3, AtFirst DEF flushNothing
        <5>2. ofmu[of[p]] = Nobody /\ DOMAIN dirty[of[p]] = {} /\ DOMAIN pendingTrim[of[p]] = {}
          BY Zenon, <4>3 DEF flushNothing
        <5> QED
          BY Zenon, <5>1, <5>2, ListHolds
      <4> QED
        BY Zenon, <2>4, <4>1, <4>2, <4>3
    <3> QED
      BY <1>2, <3>1, <3>2, <3>3, OwnCover, Zenon
  <2>5. CASE syncClean(p)
    <3>1. /\ pc[p] = "commitMu" /\ pc'[p] = "acked" /\ sinceCall' = sinceCall /\ ~nsDirty
          /\ commitMu = Nobody
      BY Zenon, <1>1, <2>5 DEF syncClean, Goto, UnchangedByList, histVars
    <3>2. Active(p) /\ Flushed(p) /\ committed = Inode
      BY Zenon, <3>1 DEF Active, Flushed, Inv, CleanInv
    <3>3. CoveredBy(committed, p)
      BY Zenon, <3>2, ImageCovered
    <3>4. CoveredBy(committed, p)'
      BY <1>2, <3>1, <3>3, Zenon DEF CoveredBy, Image, CoverDataKept
    <3>5. \A q \in Proc : pc'[q] # "flight"
      <4>1. \A q \in Proc : pc[q] # "flight"
        BY Zenon, <3>1, NobodyFree DEF Inv, GateInv
      <4> QED
        BY Zenon, <1>1, <3>1, <4>1 DEF Only
    <3>6. Cover(p)
      BY Zenon DEF Inv, CoverInv
    <3>7. \A i, m : Within(i, m)' = Within(i, m)
      BY Zenon, <1>2 DEF Within, CoverDataKept
    <3> QED
      BY Zenon, <1>2, <3>1, <3>2, <3>4, <3>5, <3>6, <3>7 DEF Cover, CoverDataKept
  <2> QED
    BY <2>1, <2>2, <2>3, <2>4, <2>5, Zenon DEF CoverQuiet
<1> QED
  BY Zenon, <1>6, <1>7 DEF CoverInv

\* A history only grows, by what the file comes to hold and, at a place that
\* comes to exist, a zero.
LEMMA Grows ==
  ASSUME NEW new, NEW q \in Proc, NEW i \in 0 .. MaxSize, NEW b \in sinceCall[q][i]
  PROVE  /\ b \in CallHistory(new)[q][i]
         /\ new[i] \in CallHistory(new)[q][i]
         /\ held[i] = Absent /\ new[i] # Absent => 0 \in CallHistory(new)[q][i]
<1>1. CallHistory(new)[q][i] = sinceCall[q][i] \cup Gains(new, i)
  BY Zenon DEF CallHistory
<1> QED
  BY Zenon, <1>1 DEF Gains

\* A change to the file leaves the commits of others covered.
LEMMA GrownCover ==
  ASSUME Inv, FileInv', NEW p \in Proc, Only(p), pc'[p] # "flight",
         sealed' = sealed, committed' = committed,
         linked' => linked,
         linked' => \A i \in Place : \/ ByteAt(chunks', i) = ByteAt(chunks, i)
                                     \/ i > size' /\ ByteAt(chunks', i) = 0,
         NEW q \in Proc, q # p, sinceCall'[q] = CallHistory(held')[q]
  PROVE  Cover(q)'
<1>1. pc'[q] = pc[q] /\ next'[q] = next[q]
  BY Zenon DEF Only
<1>2. (\E r \in Proc : pc'[r] = "flight") => \E r \in Proc : pc[r] = "flight"
  BY Zenon DEF Only
<1>3. Cover(q)
  BY Zenon DEF Inv, CoverInv
<1>4. Active(q)' = Active(q) /\ Flushed(q)' = Flushed(q) /\ (Flushed(q) => Active(q))
  <2>1. Flushed(q) => Active(q)
    BY Zenon DEF Active, Flushed, Settling, Flushing
  <2> QED
    BY Zenon, <1>1, <2>1 DEF Active, Flushed, Settling
<1>5. \A i \in 0 .. MaxSize : \A b \in sinceCall[q][i] :
        /\ b \in sinceCall'[q][i] /\ held'[i] \in sinceCall'[q][i]
        /\ held[i] = Absent /\ held'[i] # Absent => 0 \in sinceCall'[q][i]
  BY Grows, Zenon
<1>6. Active(q) => \A i \in 0 .. MaxSize : held[i] \in sinceCall[q][i]
  BY <1>3, Zenon DEF Cover
<1>7. CoveredBy(sealed, q) => CoveredBy(sealed, q)'
  <2>1. ASSUME NEW i \in 0 .. MaxSize, Image(sealed)[i] \in sinceCall[q][i]
        PROVE  Image(sealed')[i] \in sinceCall'[q][i]
    BY Zenon, <1>5, <2>1
  <2> QED
    BY <2>1, Zenon DEF CoveredBy, Image
<1>8. CoveredBy(committed, q) => CoveredBy(committed, q)'
  <2>1. ASSUME NEW i \in 0 .. MaxSize, Image(committed)[i] \in sinceCall[q][i]
        PROVE  Image(committed')[i] \in sinceCall'[q][i]
    BY Zenon, <1>5, <2>1
  <2> QED
    BY <2>1, Zenon DEF CoveredBy, Image
<1>9. ASSUME Flushed(q), linked', NEW i \in Place
      PROVE  Within(i, sinceCall[q][i])'
  <2>1. Within(i, sinceCall[q][i]) /\ i \in 0 .. MaxSize
    BY Zenon, <1>3, <1>9, PlaceIn DEF Cover
  <2>2. held[i] \in sinceCall[q][i]
    BY Zenon, <1>4, <1>6, <1>9, <2>1
  <2>3. CASE ByteAt(chunks', i) = ByteAt(chunks, i) /\ ByteAt(chunks, i) \in sinceCall[q][i]
    <3>1. ByteAt(chunks', i) \in sinceCall'[q][i]
      BY Zenon, <1>5, <2>1, <2>3
    <3> QED
      BY <3>1, Zenon DEF Within
  <2>4. CASE ByteAt(chunks', i) = 0 /\ i > size'
    BY <2>4, Zenon DEF Within
  <2>5. CASE ByteAt(chunks', i) = 0 /\ i > size /\ ~(i > size')
    <3>1. held[i] = Absent /\ held'[i] # Absent
      BY Zenon, <1>9, <2>1, <2>5 DEF Inv, FileInv, HeldInv
    <3>2. 0 \in sinceCall'[q][i]
      BY Zenon, <1>5, <2>1, <2>2, <3>1
    <3> QED
      BY <2>5, <3>2, Zenon DEF Within
  <2>6. ByteAt(chunks, i) \in sinceCall[q][i] \/ (i > size /\ ByteAt(chunks, i) = 0)
    BY <2>1, Zenon DEF Within
  <2> QED
    BY Zenon, <1>9, <2>3, <2>4, <2>5, <2>6
<1>10. Active(q) => \A i \in 0 .. MaxSize : held'[i] \in sinceCall'[q][i]
  BY Zenon, <1>5, <1>6
<1> QED
  BY <1>1, <1>2, <1>3, <1>4, <1>7, <1>8, <1>9, <1>10, Zenon DEF Cover

\* A thread that is not committing needs no cover.
LEMMA NoCover ==
  ASSUME NEW p \in Proc, pc'[p] = "idle"
  PROVE  Cover(p)'
  BY Zenon DEF Cover, Active, Flushed, Settling, Flushing

\* An unlink leaves every commit covered: each promised the name or its
\* absence.
LEMMA UnlinkCover ==
  ASSUME Inv, FileInv', NEW p \in Proc, unlink(p)
  PROVE  CoverInv'
<1>1. Only(p)
  BY Zenon, OthersKept DEF Call, Step, StoreFails
<1>2. /\ ~linked' /\ sealed' = sealed /\ committed' = committed /\ sinceCall' = CallHistory(held')
      /\ pc'[p] = "idle"
  BY Zenon DEF unlink, Becomes, Asks, threadVars
<1>3. ASSUME NEW q \in Proc, q # p PROVE Cover(q)'
  <2>1. pc'[p] # "flight"
    BY Zenon, <1>2
  <2> QED
    BY Zenon, <1>1, <1>2, <1>3, <2>1, GrownCover
<1> QED
  BY Zenon, <1>2, <1>3, NoCover DEF CoverInv

\* A write that counts leaves every commit covered, and starts its own
\* promise if it is a stable one.
LEMMA ExtendCover ==
  ASSUME Inv, FileInv', NEW p \in Proc, bufferExtend(p)
  PROVE  CoverInv'
<1>1. Only(p) /\ DOMAIN sinceCall = Proc /\ DOMAIN pc = Proc
  BY OthersKept, Zenon DEF Call, Step, StoreFails, Inv, LocalTypes, ThreadTypes
<1>2. /\ linked' = linked /\ chunks' = chunks /\ sealed' = sealed /\ committed' = committed
      /\ pc'[p] \in {"idle", "commitFile"}
      /\ \/ linked /\ pc'[p] = "idle" /\ sinceCall' = CallHistory(held')
         \/ ~linked /\ pc'[p] = "idle" /\ sinceCall' = sinceCall /\ held' = held /\ size' = size
         \/ pc'[p] = "commitFile" /\ sinceCall' = [CallHistory(held') EXCEPT ![p] = Promise(held')]
  BY <1>1, Zenon DEF bufferExtend, Becomes, Goto, histVars
<1>3. pc'[p] # "flight"
  BY Zenon, <1>2
<1>4. ASSUME NEW q \in Proc, q # p PROVE Cover(q)'
  <2>1. CASE sinceCall'[q] = CallHistory(held')[q]
    BY <1>1, <1>2, <1>3, <1>4, <2>1, GrownCover, Zenon
  <2>2. CASE sinceCall' = sinceCall /\ held' = held /\ size' = size
    BY Zenon, <1>1, <1>2, <1>3, <1>4, <2>2, OtherCover DEF CoverDataKept
  <2>3. sinceCall' = [CallHistory(held') EXCEPT ![p] = Promise(held')] =>
          sinceCall'[q] = CallHistory(held')[q]
    BY <1>4, Zenon DEF CallHistory
  <2> QED
    BY Zenon, <1>2, <2>1, <2>2, <2>3
<1>5. Cover(p)'
  <2>1. CASE pc'[p] = "idle"
    BY Zenon, <2>1, NoCover
  <2>2. CASE pc'[p] = "commitFile"
    <3>1. sinceCall'[p] = Promise(held')
      BY Zenon, <1>2, <2>2 DEF CallHistory
    <3>2. \A i \in 0 .. MaxSize : held'[i] \in sinceCall'[p][i]
      BY Zenon, <3>1 DEF Promise
    <3> QED
      BY Zenon, <2>2, <3>2 DEF Cover, Flushed, Settling, Flushing
  <2> QED
    BY Zenon, <1>2, <2>1, <2>2
<1> QED
  BY Zenon, <1>4, <1>5 DEF CoverInv

\* The list of a flushed file shows what it holds, whichever commit waits.
LEMMA RepointCover ==
  ASSUME Inv, FileInv', NEW p \in Proc, flushRepoint(p)
  PROVE  CoverInv'
<1>1. Only(p)
  BY Zenon, OthersKept DEF Call, Step, StoreFails
<1>2. /\ linked' = linked /\ size' = size /\ sealed' = sealed /\ committed' = committed
      /\ held' = held /\ sinceCall' = sinceCall /\ ofmu' = ofmu
      /\ pc[p] = "repoint" /\ pc'[p] = "reset" /\ (~linked => chunks' = chunks)
  BY Zenon DEF flushRepoint, Goto, histVars, Inv, ThreadTypes
<1>3. Active(p)
  BY Zenon, <1>2 DEF Active, Flushing
<1>4. CASE ~linked
  <2>1. CoverDataKept /\ pc'[p] # "flight" /\ pc'[p] \notin {"flight", "acked"}
    BY Zenon, <1>2, <1>4 DEF CoverDataKept
  <2>2. Cover(p)'
    BY Zenon, <1>2, <1>3, <1>4, <2>1, OwnCover
  <2>3. \A q \in Proc \ {p} : Cover(q)'
    BY Zenon, <1>1, <1>2, <2>1, OtherCover
  <2> QED
    BY Zenon, <2>2, <2>3 DEF CoverInv
<1>5. CASE linked
  <2>1. ofmu[1] = p
    BY <1>2, <1>5 DEF Inv, LockInv, EntryInv, Holds, OpenFile
  <2>2. Phase' = "reset"
    BY Zenon, <1>2, <2>1, NobodyFree DEF Phase
  <2>3. \A i : Holding(i)' = Holding(i)
    BY Zenon, <1>2 DEF Holding
  <2>4. \A i \in Place : ByteAt(chunks', i) = Holding(i)
    BY Zenon, <1>2, <1>5, <2>2, <2>3 DEF FileInv, HeldInv
  <2>5. ASSUME NEW q \in Proc PROVE Cover(q)'
    <3>1. Cover(q)
      BY Zenon DEF Inv, CoverInv
    <3>2. /\ Active(q)' => Active(q)
          /\ Flushed(q)' => Active(q)
          /\ pc'[q] = "flight" => pc[q] = "flight"
          /\ pc'[q] = "acked" => pc[q] = "acked"
      <4>1. CASE q = p
        BY Zenon, <1>2, <1>3, <4>1
      <4>2. CASE q # p
        <5>1. pc'[q] = pc[q] /\ next'[q] = next[q]
          BY Zenon, <1>1, <4>2 DEF Only
        <5>2. Flushed(q) => Active(q)
          BY Zenon DEF Active, Flushed, Settling, Flushing
        <5> QED
          BY Zenon, <5>1, <5>2 DEF Active, Flushed, Settling
      <4> QED
        BY Zenon, <4>1, <4>2
    <3>3. (\E r \in Proc : pc'[r] = "flight") => \E r \in Proc : pc[r] = "flight"
      BY Zenon, <1>1, <1>2 DEF Only
    <3>4. Active(q) => \A i \in 0 .. MaxSize : held[i] \in sinceCall[q][i]
      BY <3>1, Zenon DEF Cover
    <3>5. ASSUME Active(q), NEW i \in Place PROVE Within(i, sinceCall[q][i])'
      <4>1. held[i] \in sinceCall[q][i]
        BY Zenon, <3>4, <3>5, PlaceIn
      <4>2. ByteAt(chunks', i) = IF i > size' THEN 0 ELSE held[i]
        BY Zenon, <1>2, <2>4 DEF Holding
      <4> QED
        BY <1>2, <4>1, <4>2, Zenon DEF Within
    <3>6. CoveredBy(sealed, q)' = CoveredBy(sealed, q) /\ CoveredBy(committed, q)' = CoveredBy(committed, q)
      BY <1>2, Zenon DEF CoveredBy, Image
    <3> QED
      BY <1>2, <3>1, <3>2, <3>3, <3>4, <3>5, <3>6, Zenon DEF Cover
  <2> QED
    BY Zenon, <2>5 DEF CoverInv
<1> QED
  BY Zenon, <1>4, <1>5

\* The sealed inode covers its own commit, and every one that has flushed.
LEMMA SealCover ==
  ASSUME Inv, NEW p \in Proc, seal(p)
  PROVE  CoverInv'
<1>1. Only(p)
  BY Zenon, OthersKept DEF Call, Step, StoreFails
<1>2. ~(open # 0 /\ unsettled[open])
  BY Zenon DEF seal, Inv, MarkInv
<1>3. /\ pc[p] = "seal" /\ pc'[p] = "flight" /\ sealed' = Inode /\ sinceCall' = sinceCall
      /\ linked' = linked /\ size' = size /\ chunks' = chunks
      /\ committed' = committed /\ held' = held
  BY Zenon, <1>2 DEF seal, inodeVars, openVars, Goto, Inv, ThreadTypes
<1> SUFFICES ASSUME NEW q \in Proc PROVE Cover(q)'
  BY Zenon DEF CoverInv
<1>4. Cover(q)
  BY Zenon DEF Inv, CoverInv
<1>5. /\ Active(q)' => Active(q)
      /\ Flushed(q)' => Flushed(q)
      /\ pc'[q] = "flight" => Active(q) /\ Flushed(q)
      /\ pc'[q] = "acked" => Active(q) /\ Flushed(q) /\ pc[q] = "acked"
  <2>1. CASE q = p
    BY Zenon, <1>3, <2>1 DEF Active, Flushed
  <2>2. CASE q # p
    <3>1. pc'[q] = pc[q] /\ next'[q] = next[q]
      BY Zenon, <1>1, <2>2 DEF Only
    <3> QED
      BY Zenon, <3>1 DEF Active, Flushed, Settling
  <2> QED
    BY Zenon, <2>1, <2>2
<1>6. Active(q) /\ Flushed(q) => CoveredBy(sealed, q)'
  <2>1. Active(q) /\ Flushed(q) => CoveredBy(Inode, q)
    BY Zenon, ImageCovered
  <2>2. CoveredBy(sealed, q)' = CoveredBy(Inode, q)
    BY <1>3, Zenon DEF CoveredBy, Image, Inode
  <2> QED
    BY Zenon, <2>1, <2>2
<1>7. CoveredBy(committed, q)' = CoveredBy(committed, q)
  BY <1>3, Zenon DEF CoveredBy, Image
<1>8. \A i, m : Within(i, m)' = Within(i, m)
  BY Zenon, <1>3 DEF Within
<1> QED
  BY <1>3, <1>4, <1>5, <1>6, <1>7, <1>8, Zenon DEF Cover

\* The flight makes what covers its commit durable.
LEMMA FlightCover ==
  ASSUME Inv, NEW p \in Proc, flight(p)
  PROVE  CoverInv'
<1>1. Only(p)
  BY Zenon, OthersKept DEF Call, Step, StoreFails
<1>2. /\ pc[p] = "flight" /\ pc'[p] = "acked" /\ committed' = sealed /\ sealed' = sealed
      /\ linked' = linked /\ size' = size /\ chunks' = chunks
      /\ held' = held /\ sinceCall' = sinceCall
  BY Zenon DEF flight, UnchangedByList, inodeVars, histVars, Goto, Inv, ThreadTypes
<1>3. \A q \in Proc : pc'[q] # "flight"
  <2>1. \A q \in Proc : pc[q] = "flight" => q = p
    BY Zenon, <1>2 DEF Inv, GateInv
  <2> QED
    BY Zenon, <1>1, <1>2, <2>1 DEF Only
<1> SUFFICES ASSUME NEW q \in Proc PROVE Cover(q)'
  BY Zenon DEF CoverInv
<1>4. Cover(q)
  BY Zenon DEF Inv, CoverInv
<1>5. /\ Active(q)' => Active(q)
      /\ Flushed(q)' => Flushed(q)
      /\ pc'[q] = "acked" => CoveredBy(sealed, q)
  <2>1. CASE q = p
    BY Zenon, <1>2, <1>4, <2>1 DEF Active, Flushed, Cover
  <2>2. CASE q # p
    <3>1. pc'[q] = pc[q] /\ next'[q] = next[q]
      BY Zenon, <1>1, <2>2 DEF Only
    <3>2. pc[q] = "acked" => CoveredBy(sealed, q)
      BY Zenon, <1>2, <1>4 DEF Cover
    <3> QED
      BY Zenon, <3>1, <3>2 DEF Active, Flushed, Settling
  <2> QED
    BY Zenon, <2>1, <2>2
<1>6. CoveredBy(committed, q)' = CoveredBy(sealed, q)
  BY <1>2, Zenon DEF CoveredBy, Image
<1>7. \A i, m : Within(i, m)' = Within(i, m)
  BY Zenon, <1>2 DEF Within
<1> QED
  BY <1>2, <1>3, <1>4, <1>5, <1>6, <1>7, Zenon DEF Cover

-----------------------------------------------------------------------------
(* A file as the mount finds it, and a step that changes nothing *)

\* The list of a file of n bytes, each of them 1: its places are 0 or 1, and 0
\* past its end.
LEMMA MountedList ==
  ASSUME NEW n \in 0 .. MaxSize, MaxCalls \in Nat
  PROVE  /\ ChunksOf(n, 1) \in Seq(Ref)
         /\ \A i \in Place : ByteAt(ChunksOf(n, 1), i) \in {0, 1} /\ (i > n => ByteAt(ChunksOf(n, 1), i) = 0)
<1> DEFINE m == (n + ChunkSize - 1) \div ChunkSize
           part(k) == Smaller(ChunkSize, n - (k - 1) * ChunkSize)
           data(k) == [i \in 1 .. part(k) |-> 1]
           cs == ChunksOf(n, 1)
<1>1. /\ ChunkSize \in Nat /\ ChunkSize > 0 /\ n \in Nat /\ m \in Nat /\ m * ChunkSize \in Nat
      /\ m * ChunkSize <= n + ChunkSize - 1 /\ MaxSize \in Nat
  <2>1. ChunkSize \in Nat /\ ChunkSize > 0 /\ n \in Nat /\ MaxSize \in Nat
    BY ConstantsAssumption
  <2>2. n + ChunkSize - 1 \in Nat
    BY <2>1
  <2>3. m \in Nat /\ m * ChunkSize \in Nat /\ m * ChunkSize <= n + ChunkSize - 1
    BY <2>1, <2>2, Division
  <2> QED
    BY Zenon, <2>1, <2>3
<1> HIDE DEF m
<1>2. cs = [k \in 1 .. m |-> Stored(data(k))]
  BY Zenon DEF ChunksOf, m
<1>3. ASSUME NEW k \in 1 .. m
      PROVE  /\ part(k) \in 0 .. ChunkSize /\ part(k) <= n - (k - 1) * ChunkSize
             /\ (k - 1) * ChunkSize \in Int
  <2>1. k - 1 < m /\ k - 1 \in Nat
    BY <1>1
  <2>2. (k - 1) * ChunkSize + ChunkSize <= m * ChunkSize /\ (k - 1) * ChunkSize \in Int
    BY <1>1, <2>1, Before
  <2> HIDE DEF part
  <2>3. n - (k - 1) * ChunkSize >= 0
    BY <1>1, <2>2
  <2> QED
    BY <1>1, <2>2, <2>3 DEF part, Smaller
<1>4. ASSUME NEW k \in 1 .. m
      PROVE  data(k) \in Chunk /\ Len(data(k)) = part(k)
  <2>1. 1 \in Byte
    BY DEF Byte
  <2>2. part(k) \in 0 .. ChunkSize
    BY Zenon, <1>3
  <2> HIDE DEF part
  <2>3. data(k) \in [1 .. part(k) -> Byte]
    BY Zenon, <2>1
  <2> QED
    BY Zenon, <2>2, <2>3, FunChunk
<1> HIDE DEF data
<1>5. \A k \in 1 .. m : Stored(data(k)) \in Ref /\ Stored(data(k)).data = data(k)
  BY Zenon, <1>4, RefIs
<1>6. cs \in Seq(Ref) /\ Len(cs) = m
  BY <1>1, <1>2, <1>5
<1>7. ASSUME NEW i \in Place
      PROVE  ByteAt(cs, i) \in {0, 1} /\ (i > n => ByteAt(cs, i) = 0)
  <2> DEFINE idx == Idx(i)
             j == Pos(i)
             k == idx + 1
  <2>1. /\ idx \in Nat /\ j \in 1 .. ChunkSize /\ idx * ChunkSize \in Nat
        /\ i = idx * ChunkSize + j /\ i \in Nat
    BY PlaceIs, <1>1 DEF Place
  <2>2. i \in Nat \ {0} /\ Len(cs) \in Nat
    BY <1>1, <1>6 DEF Place
  <2> HIDE DEF cs
  <2>3. ByteAt(cs, i) = IF idx >= m THEN 0 ELSE At(cs[k].data, j)
    BY Zenon, <1>6, <2>2, ByteIs
  <2> HIDE DEF idx, j
  <2>4. CASE idx >= m
    BY Zenon, <2>3, <2>4
  <2>5. CASE ~(idx >= m)
    <3>1. k \in 1 .. m /\ k - 1 = idx
      BY <1>1, <2>1, <2>5
    <3>2. cs[k].data = data(k)
      BY Zenon, <1>2, <1>5, <3>1 DEF cs
    <3>3. ByteAt(cs, i) = At(data(k), j)
      BY Zenon, <2>3, <2>5, <3>2
    <3>4. Len(data(k)) = part(k) /\ part(k) <= n - idx * ChunkSize /\ part(k) \in 0 .. ChunkSize
      BY Zenon, <1>3, <1>4, <3>1
    <3> HIDE DEF k
    <3>5. j <= part(k) => data(k)[j] = 1
      BY <2>1, <3>4 DEF data
    <3> HIDE DEF part
    <3>6. CASE j > part(k)
      BY Zenon, <3>3, <3>4, <3>6 DEF At
    <3>7. CASE ~(j > part(k))
      <4>1. j <= part(k)
        BY <1>1, <2>1, <3>4, <3>7
      <4>2. ByteAt(cs, i) = 1
        BY Zenon, <3>3, <3>4, <3>5, <3>7, <4>1 DEF At
      <4>3. ~(i > n)
        BY <1>1, <2>1, <3>4, <4>1
      <4> QED
        BY Zenon, <4>2, <4>3
    <3> QED
      BY Zenon, <3>6, <3>7
  <2> QED
    BY Zenon, <2>4, <2>5
<1> QED
  BY Zenon, <1>6, <1>7

\* A step that changes nothing keeps the invariant.
LEMMA StutterInv ==
  ASSUME Inv, UNCHANGED vars
  PROVE  Inv'
<1> USE DEF vars, inodeVars, openVars, commitVars, threadVars, histVars
<1>1. ThreadTypes'
  BY Zenon DEF Inv, ThreadTypes
<1>2. AskTypes'
  BY Zenon DEF Inv, AskTypes
<1>3. LocalTypes' /\ DataTypes'
  BY Zenon DEF Inv, LocalTypes, DataTypes
<1>4. LockInv' /\ EntryInv'
  BY DEF Inv, LockInv, EntryInv
<1>13. CallInv'
  BY Zenon DEF Inv, CallInv, Called
<1>5. GateInv' /\ MarkInv'
  BY Zenon DEF Inv, GateInv, MarkInv, Settling
<1>6. FreshInv' /\ ChargeInv'
  BY Zenon DEF Inv, FreshInv, Untouched, ChargeInv, Charging, Phase
<1>7. StoredInv'
  <2>1. \A p \in Proc : Uploads(of[p])' = Uploads(of[p])
    BY Zenon DEF Uploads, Uploaded, Trimmed
  <2> QED
    BY Zenon, <2>1 DEF Inv, StoredInv, Kept
<1>8. TrimInv'
  BY Zenon DEF Inv, TrimInv, TrimOf, Phase
<1>9. HeldInv'
  BY Zenon DEF Inv, HeldInv, Holding, Written, Phase
<1>10. CutInv'
  BY Zenon DEF Inv, CutInv
<1>11. CoverInv'
  BY Zenon DEF Inv, CoverInv, Cover, Active, Flushed, Settling, Within, CoveredBy
<1>12. CleanInv'
  BY Zenon DEF Inv, CleanInv, Inode
<1> QED
  BY <1>1, <1>2, <1>3, <1>4, <1>5, <1>6, <1>7, <1>8, <1>9, <1>10, <1>11, <1>12, <1>13,
     ZenonT(60) DEF Inv

-----------------------------------------------------------------------------
(* Cutting the file *)

\* The indices bytes [off, off + n) touch, as the loop of bufferWrite counts them.
LEMMA Touched ==
  ASSUME NEW off \in Nat, NEW n \in Nat \ {0}, NEW idx \in Nat
  PROVE  idx \in off \div ChunkSize .. (off + n - 1) \div ChunkSize
           <=> idx * ChunkSize < off + n /\ off < idx * ChunkSize + ChunkSize
<1> DEFINE a == off \div ChunkSize
           b == (off + n - 1) \div ChunkSize
<1>1. off + n - 1 \in Nat /\ ChunkSize \in Nat
  BY ConstantsAssumption
<1>2. /\ a \in Nat /\ a * ChunkSize \in Nat
      /\ a * ChunkSize <= off /\ off < a * ChunkSize + ChunkSize
  BY <1>1, Division
<1>3. /\ b \in Nat /\ b * ChunkSize \in Nat
      /\ b * ChunkSize <= off + n - 1 /\ off + n - 1 < b * ChunkSize + ChunkSize
  BY <1>1, Division
<1> HIDE DEF a, b
<1>4. idx * ChunkSize \in Int
  BY Before
<1>5. /\ idx < a => idx * ChunkSize + ChunkSize <= a * ChunkSize
      /\ a < idx => a * ChunkSize + ChunkSize <= idx * ChunkSize
      /\ idx < b => idx * ChunkSize + ChunkSize <= b * ChunkSize
      /\ b < idx => b * ChunkSize + ChunkSize <= idx * ChunkSize
  BY <1>2, <1>3, Before
<1>6. idx \in a .. b <=> idx * ChunkSize < off + n /\ off < idx * ChunkSize + ChunkSize
  BY <1>1, <1>2, <1>3, <1>4, <1>5
<1> QED
  BY Zenon, <1>6 DEF a, b

\* The indices of the file sizes there are.
LEMMA IndexIs ==
  /\ Index \subseteq Nat
  /\ \A idx \in Nat : idx * ChunkSize < MaxSize => idx \in Index
<1>1. MaxSize \in Nat /\ ChunkSize \in Nat \ {0}
  BY Zenon, ConstantsAssumption
<1>2. (MaxSize - 1) \div ChunkSize \in Int
  BY <1>1
<1>3. Index \subseteq Nat
  BY <1>2 DEF Index
<1>4. ASSUME NEW idx \in Nat, idx * ChunkSize < MaxSize
      PROVE  idx \in Index
  <2>1. idx * ChunkSize \in Nat
    BY <1>1
  <2>2. MaxSize \in Nat \ {0} /\ 0 < idx * ChunkSize + ChunkSize /\ MaxSize = 0 + MaxSize
    BY <1>1, <1>4, <2>1
  <2>3. idx \in 0 \div ChunkSize .. (0 + MaxSize - 1) \div ChunkSize
    BY Zenon, <1>4, <2>2, Touched
  <2>4. 0 \div ChunkSize = 0
    BY <1>1
  <2> QED
    BY <2>2, <2>3, <2>4 DEF Index
<1> QED
  BY Zenon, <1>3, <1>4

\* An index is the quotient of the offsets inside it.
LEMMA Quotient ==
  ASSUME NEW a \in Nat, NEW q \in Int, q * ChunkSize <= a, a < q * ChunkSize + ChunkSize
  PROVE  a \div ChunkSize = q
<1> DEFINE b == a \div ChunkSize
<1>1. /\ b \in Nat /\ b * ChunkSize \in Nat
      /\ b * ChunkSize <= a /\ a < b * ChunkSize + ChunkSize
  BY Division, ConstantsAssumption
<1> HIDE DEF b
<1>2. ~(b < q) /\ ~(q < b)
  BY <1>1, Before, ConstantsAssumption
<1> QED
  BY <1>1, <1>2 DEF b

\* A position of the beginning of a chunk.
LEMMA AtBeginning ==
  ASSUME NEW s \in Chunk, NEW m \in Int, 0 <= m, m <= Len(s), NEW j \in Nat \ {0}
  PROVE  At(SubSeq(s, 1, m), j) = IF j > m THEN 0 ELSE At(s, j)
<1>1. Len(SubSeq(s, 1, m)) = m /\ \A k \in 1 .. m : SubSeq(s, 1, m)[k] = s[k]
  BY Zenon, Beginning
<1>2. Len(s) \in Nat
  BY ChunkIs
<1> QED
  BY <1>1, <1>2 DEF At

\* The chunk list after a truncate to n bytes: what it keeps of the old one, and
\* holes where it has grown.
LEMMA CutList ==
  ASSUME AskTypes, DataTypes, NEW n \in 0 .. MaxSize
  PROVE  /\ Grow(CutChunks(n), n) \in Seq(Ref) /\ Len(CutChunks(n)) \in Nat
         /\ CutsStored(n) => (n \div ChunkSize) + 1 \in DOMAIN chunks
         /\ \A idx \in Nat :
              /\ idx * ChunkSize < n /\ idx < Len(chunks) =>
                   /\ idx < Len(CutChunks(n)) /\ idx < Len(Grow(CutChunks(n), n))
                   /\ Grow(CutChunks(n), n)[idx + 1] = chunks[idx + 1]
              /\ idx < Len(CutChunks(n)) => idx * ChunkSize < n
              /\ idx < Len(Grow(CutChunks(n), n)) => idx * ChunkSize < n
              /\ idx < Len(Grow(CutChunks(n), n)) /\ idx >= Len(chunks) =>
                   Grow(CutChunks(n), n)[idx + 1] = Hole /\ idx * ChunkSize + ChunkSize <= n
<1> DEFINE q == n \div ChunkSize
           r == n % ChunkSize
           c == (n + ChunkSize - 1) \div ChunkSize
           cut == CutChunks(n)
           new == Grow(cut, n)
           more == Larger(q - Len(cut), 0)
           holes == [k \in 1 .. more |-> Hole]
<1>1. n \in Nat /\ ChunkSize \in Nat /\ ChunkSize > 0 /\ size \in Nat /\ chunks \in Seq(Ref) /\ MaxCalls \in Nat
  BY ConstantsAssumption DEF AskTypes, DataTypes
<1>2. q \in Nat /\ q * ChunkSize \in Nat /\ r \in 0 .. ChunkSize - 1 /\ n = q * ChunkSize + r
  BY Zenon, <1>1, Division
<1>3. c = q + (IF r = 0 THEN 0 ELSE 1)
  BY Zenon, <1>1, Chunks
<1>4. cut = SubSeq(chunks, 1, Smaller(Len(chunks), c))
  BY Zenon DEF CutChunks
<1>5. CutsStored(n) => Len(cut) = q + 1
  BY Zenon DEF CutsStored
<1>6. new = IF n > size THEN cut \o holes ELSE cut
  BY Zenon DEF Grow
<1> HIDE DEF q, r, c, cut, new
<1>7. Len(chunks) \in Nat /\ c \in Nat
  BY <1>1, <1>2, <1>3
<1>8. /\ cut \in Seq(Ref) /\ Len(cut) = Smaller(Len(chunks), c)
      /\ \A k \in 1 .. Len(cut) : cut[k] = chunks[k]
  BY <1>1, <1>4, <1>7 DEF Smaller
<1>9. Len(cut) \in Nat /\ Len(cut) <= Len(chunks) /\ Len(cut) <= c /\ (Len(cut) = Len(chunks) \/ Len(cut) = c)
  BY <1>7, <1>8 DEF Smaller
<1>10. more \in Nat /\ more = IF q > Len(cut) THEN q - Len(cut) ELSE 0
  BY <1>2, <1>9 DEF Larger
<1>11. holes \in Seq(Ref) /\ Len(holes) = more /\ \A k \in 1 .. more : holes[k] = Hole
  <2>1. Hole \in Ref
    BY Zenon, <1>1, RefIs
  <2> HIDE DEF more
  <2> QED
    BY <1>10, <2>1
<1> HIDE DEF more, holes
<1>12. /\ new \in Seq(Ref) /\ Len(new) \in {Len(cut), Len(cut) + more}
       /\ \A k \in 1 .. Len(cut) : new[k] = chunks[k]
       /\ \A k \in Nat : k > Len(cut) /\ k <= Len(new) => new[k] = Hole
  <2>1. CASE ~(n > size)
    BY <1>6, <1>8, <1>9, <2>1
  <2>2. CASE n > size
    <3>1. new = cut \o holes
      BY Zenon, <1>6, <2>2
    <3>2. /\ new \in Seq(Ref) /\ Len(new) = Len(cut) + more
          /\ \A k \in 1 .. Len(new) : new[k] = IF k <= Len(cut) THEN cut[k] ELSE holes[k - Len(cut)]
      BY <1>8, <1>11, <3>1
    <3>3. \A k \in Nat : k > Len(cut) /\ k <= Len(new) => k - Len(cut) \in 1 .. more
      BY <1>9, <1>10, <3>2
    <3>4. ASSUME NEW k \in 1 .. Len(cut)
          PROVE  new[k] = chunks[k]
      <4>1. k \in 1 .. Len(new) /\ k <= Len(cut)
        BY <1>9, <1>10, <3>2
      <4> QED
        BY <1>8, <3>2, <4>1, Zenon
    <3>5. ASSUME NEW k \in Nat, k > Len(cut), k <= Len(new)
          PROVE  new[k] = Hole
      <4>1. k \in 1 .. Len(new) /\ ~(k <= Len(cut))
        BY <1>9, <3>5
      <4> QED
        BY <1>11, <3>2, <3>3, <3>5, <4>1, Zenon
    <3> QED
      BY Zenon, <3>2, <3>4, <3>5
  <2> QED
    BY Zenon, <2>1, <2>2
<1>13. ASSUME NEW idx \in Nat
       PROVE  /\ idx * ChunkSize \in Int
              /\ idx < c <=> idx * ChunkSize < n
              /\ idx < q => idx * ChunkSize + ChunkSize <= n
  <2>1. /\ idx * ChunkSize \in Int
        /\ idx < q => idx * ChunkSize + ChunkSize <= q * ChunkSize
        /\ q < idx => q * ChunkSize + ChunkSize <= idx * ChunkSize
        /\ q = idx => q * ChunkSize = idx * ChunkSize
    BY <1>2, Before
  <2> QED
    BY <1>1, <1>2, <1>3, <2>1
<1>14. ASSUME NEW idx \in Nat
       PROVE  /\ idx * ChunkSize < n /\ idx < Len(chunks) =>
                   idx < Len(cut) /\ idx < Len(new) /\ new[idx + 1] = chunks[idx + 1]
              /\ idx < Len(cut) => idx * ChunkSize < n
              /\ idx < Len(new) => idx * ChunkSize < n
              /\ idx < Len(new) /\ idx >= Len(chunks) =>
                   new[idx + 1] = Hole /\ idx * ChunkSize + ChunkSize <= n
  <2>1. /\ idx * ChunkSize < n /\ idx < Len(chunks) => idx < Len(cut)
        /\ idx < Len(cut) => idx * ChunkSize < n /\ new[idx + 1] = chunks[idx + 1]
    BY <1>7, <1>9, <1>12, <1>13
  <2>2. idx < Len(new) /\ idx >= Len(cut) => idx < q /\ new[idx + 1] = Hole
    BY SMTT(30), <1>2, <1>9, <1>10, <1>12
  <2>3. Len(new) >= Len(cut) /\ Len(new) \in Nat
    BY <1>9, <1>10, <1>12
  <2> QED
    BY <1>1, <1>7, <1>9, <1>13, <2>1, <2>2, <2>3
<1>15. CutsStored(n) => q + 1 \in DOMAIN chunks
  BY <1>1, <1>2, <1>5, <1>9
<1> QED
  BY Zenon, <1>9, <1>12, <1>14, <1>15 DEF cut, new, q

\* The trims a truncate to n bytes leaves (truncate's pendingTrim part).
LEMMA CutTrimsAre ==
  ASSUME AskTypes, DataTypes, NEW n \in 0 .. MaxSize
  PROVE  LET q == n \div ChunkSize
             r == n % ChunkSize
             T == pendingTrim[1]
             new == CutTrims(1, n)
             shown == IF q \in DOMAIN T THEN T[q].to ELSE Len(chunks[q + 1].data)
             cuts == CutsStored(n) /\ q \notin DOMAIN dirty[1] /\ r < shown
         IN /\ new \in TrimMaps
            /\ \A idx \in DOMAIN new : idx * ChunkSize < n /\ (idx \in DOMAIN T \/ (idx = q /\ cuts))
            /\ \A idx \in DOMAIN T : idx * ChunkSize < n => idx \in DOMAIN new
            /\ \A idx \in DOMAIN T \cap DOMAIN new : ~(idx = q /\ cuts) => new[idx] = T[idx]
            /\ cuts => q \in DOMAIN new /\ new[q] = [to |-> r, ref |-> chunks[q + 1]]
<1> DEFINE q == n \div ChunkSize
           r == n % ChunkSize
           T == pendingTrim[1]
           new == CutTrims(1, n)
           shown == IF q \in DOMAIN T THEN T[q].to ELSE Len(chunks[q + 1].data)
           kept == Restrict(T, DOMAIN T \ Beyond(n))
           shown1 == IF q \in DOMAIN kept THEN kept[q].to ELSE Len(chunks[q + 1].data)
           cuts == CutsStored(n) /\ q \notin DOMAIN dirty[1] /\ r < shown
           cuts1 == CutsStored(n) /\ q \notin DOMAIN dirty[1] /\ r < shown1
<1>1. /\ n \in Nat /\ ChunkSize \in Nat /\ ChunkSize > 0 /\ chunks \in Seq(Ref) /\ MaxCalls \in Nat
      /\ T \in TrimMaps /\ MaxSize \in Nat
  BY ConstantsAssumption DEF AskTypes, DataTypes, OpenFile
<1>2. q \in Nat /\ q * ChunkSize \in Nat /\ r \in 0 .. ChunkSize - 1 /\ n = q * ChunkSize + r
  BY Zenon, <1>1, Division
<1>3. CutsStored(n) => r # 0 /\ q + 1 \in DOMAIN chunks
  BY Zenon, CutList DEF CutsStored
<1>4. new = IF cuts1 THEN [i \in DOMAIN kept \cup {q} |->
                             IF i = q THEN [to |-> r, ref |-> chunks[q + 1]] ELSE kept[i]]
            ELSE kept
  BY Zenon DEF CutTrims
<1>5. DOMAIN T \subseteq Index /\ T \in [DOMAIN T -> TrimType]
  BY Zenon, <1>1 DEF TrimMaps
<1>6. kept = [idx \in DOMAIN T \ Beyond(n) |-> T[idx]]
  BY Zenon DEF Restrict
<1>7. \A idx \in DOMAIN T : idx \in Nat /\ idx * ChunkSize \in Int /\ (idx \in Beyond(n) <=> idx * ChunkSize >= n)
  <2>1. DOMAIN T \subseteq Nat
    BY Zenon, <1>5, IndexIs
  <2>2. \A idx \in Nat : idx * ChunkSize \in Int
    BY <1>1
  <2> HIDE DEF T
  <2> QED
    BY <1>5, <2>1, <2>2, Zenon DEF Beyond
<1> HIDE DEF q, r, new, kept, T
<1>8. CutsStored(n) => q * ChunkSize < n /\ q \in Index /\ r \in 1 .. ChunkSize - 1
  BY <1>1, <1>2, <1>3, IndexIs
<1>9. DOMAIN kept = {idx \in DOMAIN T : idx * ChunkSize < n}
  BY <1>1, <1>6, <1>7
<1>10. \A idx \in DOMAIN kept : kept[idx] = T[idx]
  BY Zenon, <1>6
<1>11. CutsStored(n) => (cuts <=> cuts1)
  BY Zenon, <1>8, <1>9, <1>10
<1>12. cuts <=> cuts1
  BY Zenon, <1>11
<1> HIDE DEF cuts1
<1>13. CASE ~cuts
  <2>1. new = kept
    BY Zenon, <1>4, <1>12, <1>13
  <2>2. kept \in [DOMAIN kept -> TrimType] /\ DOMAIN kept \in SUBSET Index
    BY Zenon, <1>5, <1>6, <1>9
  <2>3. new \in TrimMaps
    BY Zenon, <2>1, <2>2 DEF TrimMaps
  <2> HIDE DEF cuts
  <2>4. /\ \A idx \in DOMAIN new : idx * ChunkSize < n /\ idx \in DOMAIN T
        /\ \A idx \in DOMAIN T : idx * ChunkSize < n => idx \in DOMAIN new
        /\ \A idx \in DOMAIN T \cap DOMAIN new : new[idx] = T[idx]
    BY Zenon, <1>9, <1>10, <2>1
  <2> QED
    BY Zenon, <1>13, <2>3, <2>4 DEF q, r, T, new, cuts
<1>14. CASE cuts
  <2> DEFINE t == [to |-> r, ref |-> chunks[q + 1]]
  <2>1. new = [i \in DOMAIN kept \cup {q} |-> IF i = q THEN t ELSE kept[i]]
    BY Zenon, <1>4, <1>12, <1>14
  <2>2. q * ChunkSize < n /\ q \in Index /\ r \in 1 .. ChunkSize - 1 /\ chunks[q + 1] \in Ref
    BY <1>1, <1>3, <1>8, <1>14
  <2>3. t \in TrimType
    BY Zenon, <2>2 DEF TrimType
  <2> HIDE DEF t
  <2>4. /\ DOMAIN kept \cup {q} \in SUBSET Index
        /\ new \in [DOMAIN kept \cup {q} -> TrimType]
    BY Zenon, <1>5, <1>9, <1>10, <2>1, <2>2, <2>3
  <2>5. new \in TrimMaps
    BY Zenon, <2>4 DEF TrimMaps
  <2> HIDE DEF cuts
  <2>6. /\ \A idx \in DOMAIN new : idx * ChunkSize < n /\ (idx \in DOMAIN T \/ idx = q)
        /\ \A idx \in DOMAIN T : idx * ChunkSize < n => idx \in DOMAIN new
        /\ \A idx \in DOMAIN T \cap DOMAIN new : idx # q => new[idx] = T[idx]
        /\ q \in DOMAIN new /\ new[q] = t
    BY Zenon, <1>9, <1>10, <2>1, <2>2
  <2> QED
    BY <1>14, <2>5, <2>6, Zenon DEF q, r, T, new, cuts, t
<1> QED
  BY Zenon, <1>13, <1>14

\* The buffers a truncate to n bytes leaves (truncate's loop over of.dirty).
LEMMA CutDirtyAre ==
  ASSUME AskTypes, DataTypes, NEW n \in 0 .. MaxSize
  PROVE  /\ CutDirty(1, n) \in Buffers
         /\ DOMAIN CutDirty(1, n) = DOMAIN dirty[1] \ Beyond(n)
         /\ \A idx \in DOMAIN dirty[1] : idx \in Nat /\ (idx \in Beyond(n) <=> idx * ChunkSize >= n)
         /\ \A idx \in DOMAIN CutDirty(1, n), j \in Nat \ {0} :
              At(CutDirty(1, n)[idx], j) =
                IF idx * ChunkSize + j > n THEN 0 ELSE At(dirty[1][idx], j)
<1> DEFINE D == dirty[1]
           new == CutDirty(1, n)
           m(idx) == Smaller(Len(D[idx]), n - idx * ChunkSize)
<1>1. n \in Nat /\ ChunkSize \in Nat /\ D \in Buffers
  BY ConstantsAssumption DEF DataTypes, OpenFile
<1>2. DOMAIN D \in SUBSET Index /\ D \in [DOMAIN D -> Chunk]
  BY Zenon, <1>1 DEF Buffers
<1>3. new = [idx \in DOMAIN D \ Beyond(n) |-> SubSeq(D[idx], 1, m(idx))]
  BY Zenon DEF CutDirty
<1> HIDE DEF D, new
<1>4. DOMAIN D \subseteq Nat
  BY Zenon, <1>2, IndexIs
<1>5. \A idx \in Nat : idx * ChunkSize \in Int
  BY <1>1
<1>6. \A idx \in DOMAIN D : idx \in Nat /\ (idx \in Beyond(n) <=> idx * ChunkSize >= n)
  BY <1>2, <1>4, Zenon DEF Beyond
<1>7. ASSUME NEW idx \in DOMAIN D \ Beyond(n)
      PROVE  /\ new[idx] \in Chunk
             /\ \A j \in Nat \ {0} :
                  At(new[idx], j) = IF idx * ChunkSize + j > n THEN 0 ELSE At(D[idx], j)
  <2>1. idx \in Nat /\ idx * ChunkSize \in Int /\ idx * ChunkSize < n /\ D[idx] \in Chunk
    BY <1>1, <1>2, <1>5, <1>6
  <2>2. Len(D[idx]) \in Nat
    BY <2>1, ChunkIs
  <2>3. m(idx) \in Int /\ 0 <= m(idx) /\ m(idx) <= Len(D[idx]) /\ m(idx) <= n - idx * ChunkSize
        /\ (m(idx) = Len(D[idx]) \/ m(idx) = n - idx * ChunkSize)
    <3>1. \A x, y \in Int : 0 <= x /\ 0 <= y =>
            LET z == Smaller(x, y) IN /\ z \in Int /\ 0 <= z /\ z <= x /\ z <= y
                                      /\ z = x \/ z = y
      BY DEF Smaller
    <3>2. n - idx * ChunkSize \in Int /\ 0 <= n - idx * ChunkSize
      BY <1>1, <2>1
    <3> QED
      BY <2>2, <3>1, <3>2
  <2>4. new[idx] = SubSeq(D[idx], 1, m(idx))
    BY <1>3, Zenon
  <2> HIDE DEF m
  <2>5. new[idx] \in Chunk
    BY Zenon, <2>1, <2>3, <2>4, Beginning
  <2>6. ASSUME NEW j \in Nat \ {0}
        PROVE  At(new[idx], j) = IF idx * ChunkSize + j > n THEN 0 ELSE At(D[idx], j)
    <3>1. At(new[idx], j) = IF j > m(idx) THEN 0 ELSE At(D[idx], j)
      BY <2>1, <2>3, <2>4, AtBeginning
    <3> QED
      BY <1>1, <2>1, <2>2, <2>3, <3>1 DEF At
  <2> QED
    BY Zenon, <2>5, <2>6
<1>8. DOMAIN new = DOMAIN D \ Beyond(n)
  BY Zenon, <1>3
<1>9. new \in [DOMAIN D \ Beyond(n) -> Chunk] /\ DOMAIN D \ Beyond(n) \in SUBSET Index
  BY Zenon, <1>2, <1>3, <1>7
<1>10. new \in Buffers
  BY Zenon, <1>9 DEF Buffers
<1> QED
  BY <1>6, <1>7, <1>8, <1>10, Zenon DEF D, new

\* The index a truncate to n bytes cuts into, and what it finds there.
LEMMA CutIndex ==
  ASSUME AskTypes, DataTypes, NEW n \in 0 .. MaxSize, NEW idx \in Nat,
         idx * ChunkSize < n, n < idx * ChunkSize + ChunkSize, idx < Len(chunks)
  PROVE  /\ n \div ChunkSize = idx /\ n % ChunkSize = n - idx * ChunkSize
         /\ CutsStored(n) <=> ~chunks[idx + 1].hole
<1>1. n \in Nat /\ ChunkSize \in Nat /\ ChunkSize > 0 /\ chunks \in Seq(Ref) /\ idx * ChunkSize \in Int
  BY ConstantsAssumption DEF DataTypes
<1>2. n \div ChunkSize = idx
  BY <1>1, Quotient
<1>3. n % ChunkSize = n - idx * ChunkSize
  BY <1>1, <1>2, Division
<1>4. n % ChunkSize # 0
  BY <1>1, <1>3
<1>5. Len(CutChunks(n)) = idx + 1
  <2>1. idx < Len(CutChunks(n)) /\ Len(CutChunks(n)) \in Nat
    BY Zenon, CutList
  <2>2. idx + 1 < Len(CutChunks(n)) => (idx + 1) * ChunkSize < n
    BY CutList
  <2>3. (idx + 1) * ChunkSize = idx * ChunkSize + ChunkSize
    BY <1>1
  <2> QED
    BY <1>1, <2>1, <2>2, <2>3
<1> QED
  BY Zenon, <1>2, <1>3, <1>4, <1>5 DEF CutsStored

\* The bytes of the list a truncate leaves: those below n, and past n nothing
\* unless the cut leaves a stored chunk longer than its part (Unsettles).
LEMMA CutBytes ==
  ASSUME AskTypes, DataTypes, NEW n \in 0 .. MaxSize, NEW i \in Place
  PROVE  LET new == Grow(CutChunks(n), n)
         IN /\ i <= n => ByteAt(new, i) = ByteAt(chunks, i)
            /\ i > n => ByteAt(new, i) \in {0, ByteAt(chunks, i)}
            /\ i > n /\ ~Unsettles(1, n) => ByteAt(new, i) = 0
<1> DEFINE new == Grow(CutChunks(n), n)
           idx == Idx(i)
           j == Pos(i)
<1>1. /\ n \in Nat /\ ChunkSize \in Nat /\ ChunkSize > 0 /\ chunks \in Seq(Ref) /\ MaxCalls \in Nat
      /\ Len(chunks) \in Nat
  BY ConstantsAssumption DEF AskTypes, DataTypes
<1>2. /\ idx \in Nat /\ j \in 1 .. ChunkSize /\ idx * ChunkSize \in Nat
      /\ i = idx * ChunkSize + j /\ i \in Nat \ {0}
  BY PlaceIs, ConstantsAssumption DEF Place
<1>3. new \in Seq(Ref) /\ Len(new) \in Nat
  BY CutList
<1>4. /\ ByteAt(new, i) = IF idx >= Len(new) THEN 0 ELSE At(new[idx + 1].data, j)
      /\ ByteAt(chunks, i) = IF idx >= Len(chunks) THEN 0 ELSE At(chunks[idx + 1].data, j)
  BY Zenon, <1>1, <1>2, <1>3, ByteIs
<1>5. /\ idx * ChunkSize < n /\ idx < Len(chunks) => idx < Len(new) /\ new[idx + 1] = chunks[idx + 1]
      /\ idx < Len(new) => idx * ChunkSize < n
      /\ idx < Len(new) /\ idx >= Len(chunks) => new[idx + 1] = Hole /\ idx * ChunkSize + ChunkSize <= n
  BY Zenon, <1>2, CutList
<1>6. Unsettles(1, n) <=> CutsStored(n) /\ Len(chunks[(n \div ChunkSize) + 1].data) > n % ChunkSize
  BY Zenon DEF Unsettles
<1> HIDE DEF new, idx, j
<1>7. At(Hole.data, j) = 0
  BY Zenon, <1>1, <1>2, RefIs DEF At
<1>8. CASE ~(idx * ChunkSize < n)
  BY <1>1, <1>2, <1>3, <1>4, <1>5, <1>8 DEF new
<1>9. CASE idx * ChunkSize < n /\ idx >= Len(chunks)
  BY <1>1, <1>2, <1>3, <1>4, <1>5, <1>7, <1>9 DEF new
<1>10. CASE idx * ChunkSize < n /\ idx < Len(chunks)
  <2>1. ByteAt(new, i) = ByteAt(chunks, i)
    BY <1>1, <1>2, <1>3, <1>4, <1>5, <1>10
  <2>2. ASSUME i > n, ~Unsettles(1, n) PROVE ByteAt(new, i) = 0
    <3>1. n < idx * ChunkSize + ChunkSize
      BY <1>1, <1>2, <2>2
    <3>2. /\ n \div ChunkSize = idx /\ n % ChunkSize = n - idx * ChunkSize
          /\ CutsStored(n) <=> ~chunks[idx + 1].hole
      BY Zenon, <1>2, <1>10, <3>1, CutIndex
    <3>3. chunks[idx + 1] \in Ref /\ chunks[idx + 1].data \in Chunk
      BY <1>1, <1>2, <1>10, RefIs
    <3>4. CASE chunks[idx + 1].hole
      <4>1. chunks[idx + 1] = Hole
        BY Zenon, <1>1, <3>3, <3>4, RefIs
      <4> QED
        BY Zenon, <1>1, <1>2, <1>4, <1>7, <1>10, <2>1, <4>1
    <3>5. CASE ~chunks[idx + 1].hole
      <4>1. Len(chunks[idx + 1].data) \in Nat /\ ~(Len(chunks[idx + 1].data) > n - idx * ChunkSize)
        BY <1>6, <2>2, <3>2, <3>3, <3>5, ChunkIs
      <4> QED
        BY <1>1, <1>2, <1>4, <1>10, <2>1, <2>2, <4>1 DEF At
    <3> QED
      BY Zenon, <3>4, <3>5
  <2> QED
    BY Zenon, <2>1, <2>2 DEF new
<1> QED
  BY <1>1, <1>2, <1>8, <1>9, <1>10

\* After a truncate to n bytes the buffers, the trims and the list show what they
\* showed below n, and zeros past it, whatever the chunks still name (truncate).
LEMMA CutShown ==
  ASSUME AskTypes, DataTypes, NEW n \in 0 .. MaxSize, NEW i \in Place,
         \A idx \in DOMAIN pendingTrim[1] : TrimOf(idx)
  PROVE  Shown(CutDirty(1, n), CutTrims(1, n), Grow(CutChunks(n), n), i) =
           IF i > n THEN 0 ELSE Shown(dirty[1], pendingTrim[1], chunks, i)
<1> DEFINE new == Grow(CutChunks(n), n)
           D == dirty[1]
           T == pendingTrim[1]
           D1 == CutDirty(1, n)
           T1 == CutTrims(1, n)
           idx == Idx(i)
           j == Pos(i)
           q == n \div ChunkSize
           r == n % ChunkSize
           shown == IF q \in DOMAIN T THEN T[q].to ELSE Len(chunks[q + 1].data)
           cuts == CutsStored(n) /\ q \notin DOMAIN D /\ r < shown
           b1 == Buf(D1, T1, new, idx)
           b == Buf(D, T, chunks, idx)
<1>1. /\ n \in Nat /\ ChunkSize \in Nat /\ ChunkSize > 0 /\ chunks \in Seq(Ref) /\ MaxCalls \in Nat
      /\ Len(chunks) \in Nat /\ T \in TrimMaps
  BY ConstantsAssumption DEF AskTypes, DataTypes, OpenFile
<1>2. /\ idx \in Nat /\ j \in 1 .. ChunkSize /\ idx * ChunkSize \in Nat
      /\ i = idx * ChunkSize + j /\ i \in Nat \ {0}
  BY PlaceIs, ConstantsAssumption DEF Place
<1>3. Len(new) \in Nat
  BY CutList
<1>4. /\ idx * ChunkSize < n /\ idx < Len(chunks) => idx < Len(new) /\ new[idx + 1] = chunks[idx + 1]
      /\ idx < Len(new) => idx * ChunkSize < n
      /\ idx < Len(new) /\ idx >= Len(chunks) => new[idx + 1] = Hole
  BY Zenon, <1>2, CutList
<1>5. /\ idx \in DOMAIN D1 <=> idx \in DOMAIN D /\ idx * ChunkSize < n
      /\ idx \in DOMAIN D1 => At(D1[idx], j) = IF i > n THEN 0 ELSE At(D[idx], j)
  <2>0. j \in Nat \ {0}
    BY <1>1, <1>2
  <2> HIDE DEF idx, j
  <2>1. /\ DOMAIN D1 = DOMAIN D \ Beyond(n)
        /\ idx \in DOMAIN D => (idx \in Beyond(n) <=> idx * ChunkSize >= n)
        /\ idx \in DOMAIN D1 => At(D1[idx], j) = IF idx * ChunkSize + j > n THEN 0 ELSE At(D[idx], j)
    BY <2>0, CutDirtyAre, Zenon
  <2> QED
    BY <1>1, <1>2, <2>1
<1>6. /\ idx \in DOMAIN T1 => idx * ChunkSize < n /\ (idx \in DOMAIN T \/ (idx = q /\ cuts))
      /\ idx \in DOMAIN T /\ idx * ChunkSize < n => idx \in DOMAIN T1
      /\ idx \in DOMAIN T /\ idx \in DOMAIN T1 /\ ~(idx = q /\ cuts) => T1[idx] = T[idx]
      /\ cuts => q \in DOMAIN T1 /\ T1[q] = [to |-> r, ref |-> chunks[q + 1]]
  <2> HIDE DEF idx
  <2> QED
    BY CutTrimsAre, Zenon
<1>7. CutsStored(n) => q < Len(chunks) /\ q \in Nat
  <2>1. q \in Nat
    BY Zenon, <1>1, Division
  <2>2. CutsStored(n) => q + 1 \in DOMAIN chunks
    BY Zenon, CutList
  <2> QED
    BY <1>1, <2>1, <2>2
<1>8. idx \in DOMAIN T => /\ idx < Len(chunks) /\ ~chunks[idx + 1].hole
                          /\ T[idx].to \in Nat
  BY <1>1, ConstantsAssumption DEF TrimOf, TrimMaps, TrimType
<1>9. /\ b1 = IF idx \in DOMAIN D1 THEN D1[idx] ELSE IF idx >= Len(new) THEN <<>>
              ELSE IF idx \in DOMAIN T1
                   THEN SubSeq(new[idx + 1].data, 1, Smaller(T1[idx].to, Len(new[idx + 1].data)))
              ELSE new[idx + 1].data
      /\ b = IF idx \in DOMAIN D THEN D[idx] ELSE IF idx >= Len(chunks) THEN <<>>
             ELSE IF idx \in DOMAIN T
                  THEN SubSeq(chunks[idx + 1].data, 1, Smaller(T[idx].to, Len(chunks[idx + 1].data)))
             ELSE chunks[idx + 1].data
  BY Zenon DEF Buf
<1>10. At(<<>>, j) = 0
  BY <1>2 DEF At
<1>11. At(Hole.data, j) = 0
  BY Zenon, <1>1, <1>2, RefIs DEF At
<1>12. SUFFICES At(b1, j) = IF i > n THEN 0 ELSE At(b, j)
  BY Zenon DEF Shown
<1> HIDE DEF new, D, T, D1, T1, idx, j, q, r, b1, b, cuts
<1>13. CASE ~(idx * ChunkSize < n)
  BY <1>1, <1>2, <1>3, <1>4, <1>5, <1>9, <1>10, <1>13
<1>14. CASE idx * ChunkSize < n /\ idx \in DOMAIN D
  BY Zenon, <1>5, <1>9, <1>14
<1>15. CASE idx * ChunkSize < n /\ idx \notin DOMAIN D /\ idx >= Len(chunks)
  <2>1. b = <<>>
    BY Zenon, <1>9, <1>15
  <2>2. idx \notin DOMAIN T1
    BY <1>1, <1>2, <1>6, <1>7, <1>8, <1>15 DEF cuts
  <2>3. b1 = <<>> \/ b1 = Hole.data
    BY <1>2, <1>3, <1>4, <1>5, <1>9, <1>15, <2>2
  <2> QED
    BY Zenon, <1>10, <1>11, <2>1, <2>3
<1>16. CASE idx * ChunkSize < n /\ idx \notin DOMAIN D /\ idx < Len(chunks)
  <2> DEFINE s == chunks[idx + 1].data
             cut == SubSeq(s, 1, Smaller(T[idx].to, Len(s)))
  <2>1. /\ b = IF idx \in DOMAIN T THEN cut ELSE s
        /\ b1 = IF idx \in DOMAIN T1 THEN SubSeq(s, 1, Smaller(T1[idx].to, Len(s))) ELSE s
    BY <1>1, <1>2, <1>3, <1>4, <1>5, <1>9, <1>16
  <2>2. chunks[idx + 1] \in Ref /\ s \in Chunk
    BY <1>1, <1>2, <1>16, RefIs
  <2>3. Len(s) \in Nat
    BY <2>2, ChunkIs
  <2>4. CASE idx * ChunkSize + ChunkSize <= n
    <3>1. ~(i > n)
      BY <1>1, <1>2, <2>4
    <3>2. idx # q \/ ~cuts
      <4>1. SUFFICES ASSUME idx = q PROVE ~cuts
        BY Zenon
      <4>2. n < q * ChunkSize + ChunkSize
        BY <1>1, Division DEF q
      <4> QED
        BY <1>1, <1>2, <2>4, <4>1, <4>2
    <3>3. b1 = b
      BY Zenon, <1>6, <1>16, <2>1, <3>2
    <3> QED
      BY Zenon, <3>1, <3>3
  <2>5. CASE n < idx * ChunkSize + ChunkSize
    <3>1. idx = q /\ r = n - idx * ChunkSize /\ (CutsStored(n) <=> ~chunks[idx + 1].hole)
      BY Zenon, <1>2, <1>16, <2>5, CutIndex DEF q, r
    <3>2. r \in Nat /\ (i > n <=> j > r)
      BY <1>1, <1>2, <1>16, <3>1
    <3>3. CASE chunks[idx + 1].hole
      <4>1. idx \notin DOMAIN T /\ idx \notin DOMAIN T1
        BY Zenon, <1>6, <1>8, <3>1, <3>3 DEF cuts
      <4>2. s = Hole.data
        BY Zenon, <1>1, <2>2, <3>3, RefIs
      <4> QED
        BY Zenon, <1>11, <2>1, <4>1, <4>2
    <3>4. CASE ~chunks[idx + 1].hole
      <4>1. CutsStored(n) /\ shown = IF idx \in DOMAIN T THEN T[idx].to ELSE Len(s)
        BY Zenon, <3>1, <3>4
      <4> HIDE DEF shown, s
      <4>2. cuts <=> r < shown
        BY Zenon, <1>16, <3>1, <4>1 DEF cuts
      <4>3. ASSUME NEW m \in Nat
            PROVE  At(SubSeq(s, 1, Smaller(m, Len(s))), j) = IF j > m THEN 0 ELSE At(s, j)
        <5>1. Smaller(m, Len(s)) \in Int /\ 0 <= Smaller(m, Len(s)) /\ Smaller(m, Len(s)) <= Len(s)
          BY <2>3 DEF Smaller
        <5>2. At(SubSeq(s, 1, Smaller(m, Len(s))), j) = IF j > Smaller(m, Len(s)) THEN 0 ELSE At(s, j)
          BY <1>1, <1>2, <2>2, <5>1, AtBeginning DEF s
        <5> QED
          BY <1>2, <2>3, <5>2 DEF Smaller, At
      <4>4. CASE cuts
        <5>1. At(b1, j) = IF j > r THEN 0 ELSE At(s, j)
          <6>1. idx \in DOMAIN T1 /\ T1[idx].to = r
            BY <1>6, <3>1, <4>4
          <6> QED
            BY Zenon, <2>1, <3>2, <4>3, <6>1
        <5>2. idx \in DOMAIN T => At(b, j) = IF j > T[idx].to THEN 0 ELSE At(s, j)
          BY Zenon, <1>8, <2>1, <4>3
        <5> QED
          BY <1>2, <1>8, <2>1, <3>2, <4>1, <4>2, <4>4, <5>1, <5>2
      <4>5. CASE ~cuts
        <5>1. b1 = b
          BY <1>6, <1>16, <2>1, <4>5
        <5>2. j > r => At(b, j) = 0
          <6>1. CASE idx \in DOMAIN T
            <7>1. T[idx].to \in Nat /\ ~(r < T[idx].to) /\ b = SubSeq(s, 1, Smaller(T[idx].to, Len(s)))
              BY Zenon, <1>8, <2>1, <4>1, <4>2, <4>5, <6>1 DEF s
            <7> QED
              BY <1>2, <3>2, <4>3, <7>1
          <6>2. CASE idx \notin DOMAIN T
            BY <1>2, <2>1, <2>3, <3>2, <4>1, <4>2, <4>5, <6>2 DEF At, s
          <6> QED
            BY Zenon, <6>1, <6>2
        <5> QED
          BY Zenon, <3>2, <5>1, <5>2
      <4> QED
        BY Zenon, <4>4, <4>5
    <3> QED
      BY Zenon, <3>3, <3>4
  <2> QED
    BY <1>1, <1>2, <2>4, <2>5
<1> QED
  BY <1>1, <1>2, <1>13, <1>14, <1>15, <1>16

\* What a truncate to n bytes makes of the trims.
LEMMA CutTrimInv ==
  ASSUME AskTypes, DataTypes, NEW n \in 0 .. MaxSize,
         \A idx \in DOMAIN pendingTrim[1] : TrimOf(idx),
         NEW idx \in DOMAIN CutTrims(1, n)
  PROVE  /\ idx \notin DOMAIN CutDirty(1, n)
         /\ idx < Len(Grow(CutChunks(n), n))
         /\ CutTrims(1, n)[idx].ref = Grow(CutChunks(n), n)[idx + 1]
         /\ ~Grow(CutChunks(n), n)[idx + 1].hole
         /\ \A k \in DOMAIN Grow(CutChunks(n), n) : k > idx + 1 => Grow(CutChunks(n), n)[k].hole
         /\ idx \in DOMAIN pendingTrim[1] \/ Unsettles(1, n)
<1> DEFINE q == n \div ChunkSize
           r == n % ChunkSize
           T == pendingTrim[1]
           new == CutTrims(1, n)
           list == Grow(CutChunks(n), n)
           shown == IF q \in DOMAIN T THEN T[q].to ELSE Len(chunks[q + 1].data)
           cuts == CutsStored(n) /\ q \notin DOMAIN dirty[1] /\ r < shown
<1>1. /\ new \in TrimMaps
      /\ \A i \in DOMAIN new : i * ChunkSize < n /\ (i \in DOMAIN T \/ (i = q /\ cuts))
      /\ \A i \in DOMAIN T \cap DOMAIN new : ~(i = q /\ cuts) => new[i] = T[i]
      /\ cuts => q \in DOMAIN new /\ new[q] = [to |-> r, ref |-> chunks[q + 1]]
  BY CutTrimsAre, Zenon
<1>2. ChunkSize \in Nat \ {0} /\ n \in Nat /\ q \in Nat /\ r \in Nat /\ n = q * ChunkSize + r /\ r < ChunkSize
  BY ConstantsAssumption, Division
<1>3. idx \in Nat /\ chunks \in Seq(Ref) /\ Len(chunks) \in Nat /\ MaxCalls \in Nat
  <2>1. DOMAIN new \subseteq Index
    BY Zenon, <1>1 DEF TrimMaps
  <2>2. idx \in Nat
    BY Zenon, <2>1, IndexIs
  <2> QED
    BY Zenon, <2>2, ListPlace DEF DataTypes, AskTypes
<1>4. /\ list \in Seq(Ref)
      /\ CutsStored(n) => q + 1 \in DOMAIN chunks
      /\ \A i \in Nat : i * ChunkSize < n /\ i < Len(chunks) => i < Len(list) /\ list[i + 1] = chunks[i + 1]
      /\ \A i \in Nat : i < Len(list) => i * ChunkSize < n
      /\ \A i \in Nat : i < Len(list) /\ i >= Len(chunks) => list[i + 1] = Hole
  BY CutList, Zenon
<1>5. idx * ChunkSize < n /\ (idx \in DOMAIN T \/ (idx = q /\ cuts))
  BY Zenon, <1>1
<1>6. idx \notin DOMAIN dirty[1] /\ idx < Len(chunks) /\ ~chunks[idx + 1].hole
  <2>1. CASE idx \in DOMAIN T
    BY Zenon, <2>1 DEF TrimOf
  <2>2. CASE idx = q /\ cuts
    <3>1. idx + 1 \in DOMAIN chunks
      BY Zenon, <1>4, <2>2
    <3>2. ~chunks[q + 1].hole
      BY Zenon, <2>2 DEF CutsStored
    <3> QED
      BY Zenon, <1>3, <2>2, <3>1, <3>2, ListPlace
  <2> QED
    BY Zenon, <1>5, <2>1, <2>2
<1>7. idx < Len(list) /\ list[idx + 1] = chunks[idx + 1]
  BY <1>3, <1>4, <1>5, <1>6, Zenon
<1>8. new[idx].ref = chunks[idx + 1]
  <2>1. CASE idx = q /\ cuts
    BY <1>1, <2>1
  <2>2. CASE ~(idx = q /\ cuts)
    <3>1. idx \in DOMAIN T /\ new[idx] = T[idx]
      BY Zenon, <1>1, <1>5, <2>2
    <3> QED
      BY Zenon, <3>1 DEF TrimOf
  <2> QED
    BY Zenon, <2>1, <2>2
<1>9. ASSUME NEW k \in DOMAIN list, k > idx + 1
      PROVE  list[k].hole
  <2> DEFINE i == k - 1
  <2>1. i \in Nat /\ i > idx /\ k = i + 1 /\ i < Len(list) /\ Len(list) \in Nat /\ k \in Nat
    BY Zenon, <1>3, <1>4, <1>9, ListPlace
  <2>2. i * ChunkSize < n
    BY Zenon, <1>4, <2>1
  <2> HIDE DEF i
  <2>3. CASE i >= Len(chunks)
    <3>1. list[k] = Hole
      BY <1>4, <2>1, <2>3, Zenon
    <3> QED
      BY Zenon, <1>3, <3>1, RefIs
  <2>4. CASE ~(i >= Len(chunks))
    <3>1. i < Len(chunks) /\ k \in DOMAIN chunks
      BY <1>3, <2>1, <2>4
    <3>2. list[k] = chunks[k]
      BY <1>4, <2>1, <2>2, <3>1, Zenon
    <3>3. CASE idx \in DOMAIN T
      BY Zenon, <1>9, <3>1, <3>2, <3>3 DEF TrimOf
    <3>4. CASE idx = q
      <4>1. n \div ChunkSize < i /\ i \in Int /\ n \in Nat
        BY <1>2, <2>1, <3>4
      <4> QED
        BY Zenon, <2>2, <4>1, PastEnd
    <3> QED
      BY Zenon, <1>5, <3>3, <3>4
  <2> QED
    BY Zenon, <2>3, <2>4
<1>10. idx \notin DOMAIN CutDirty(1, n)
  BY <1>6, CutDirtyAre, Zenon
<1>11. idx \in DOMAIN T \/ Unsettles(1, n)
  <2>1. CASE idx = q /\ cuts /\ q \notin DOMAIN T
    <3>1. r < Len(chunks[q + 1].data)
      BY Zenon, <2>1
    <3>2. chunks[q + 1].data \in Chunk
      BY <1>3, <1>4, <2>1, RefIs
    <3>3. Len(chunks[q + 1].data) > r
      BY Zenon, <1>2, <3>1, <3>2, ChunkIs
    <3> QED
      BY Zenon, <2>1, <3>3 DEF Unsettles
  <2> QED
    BY Zenon, <1>5, <2>1
<1> QED
  BY <1>6, <1>7, <1>8, <1>9, <1>10, <1>11, Zenon
=============================================================================
