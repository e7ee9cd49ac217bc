--------------------------- MODULE FileDataProofs ---------------------------
(***************************************************************************)
(* The theorems of the data path: Inv holds in every reachable state, for  *)
(* every chunk size, file size, number of threads and mix of calls, and    *)
(* the properties of FileData that runs check on one instance follow from  *)
(* it.                                                                     *)
(***************************************************************************)
EXTENDS FileDataSteps, FiniteSetTheorems, WellFoundedInduction

-----------------------------------------------------------------------------
(* Finite sets *)

\* A set of numbers that is not empty has a least one.
LEMMA Least ==
  ASSUME NEW T \in SUBSET Nat, T # {}
  PROVE  \E x \in T : \A y \in T : x <= y
<1> DEFINE R == OpToRel(<, Nat)
<1>1. IsWellFoundedOn(R, Nat)
  BY Zenon, NatLessThanWellFounded
<1>2. \A x, y \in Nat : <<y, x>> \in R <=> y < x
  BY Zenon DEF OpToRel
<1> HIDE DEF R
<1>3. PICK x \in T : \A y \in T : ~(<<y, x>> \in R)
  BY Zenon, <1>1, WFMin
<1>4. \A y \in T : x \in Nat /\ y \in Nat /\ ~(y < x)
  BY Zenon, <1>2, <1>3
<1> QED
  BY <1>4

\* A set of numbers with a bound has a largest, which Max names.
LEMMA Largest ==
  ASSUME NEW S \in SUBSET Nat, S # {}, NEW m \in Nat, \A x \in S : x <= m
  PROVE  Max(S) \in S /\ \A x \in S : x <= Max(S)
<1> DEFINE T == {k \in Nat : \A x \in S : x <= k}
<1>1. PICK k \in T : \A y \in T : k <= y
  BY Zenon, Least
<1>2. k \in S
  <2>1. SUFFICES ASSUME k \notin S PROVE FALSE
    BY Zenon
  <2>2. \A x \in S : x <= k - 1 /\ x >= 0
    BY <2>1, <1>1
  <2>3. k - 1 \in T
    <3>1. PICK x \in S : TRUE
      BY Zenon
    <3>2. k - 1 \in Nat
      BY <2>2, <3>1, <1>1
    <3> QED
      BY Zenon, <2>2, <3>2
  <2> QED
    BY <2>3, <1>1
<1>3. \E x \in S : \A y \in S : x >= y
  BY Zenon, <1>1, <1>2
<1>4. Max(S) \in S /\ \A y \in S : Max(S) >= y
  BY <1>3, Zenon DEF Max
<1> QED
  BY Zenon, <1>4

\* The calls of every load are at most MaxCalls.
LEMMA CallsBound == \A l \in Loads : MaxCalls \in Nat /\ l.calls <= MaxCalls
<1> DEFINE Bounded(U) == \E m \in Nat : \A l \in U : l.calls <= m
           T == {U \in FiniteSubsetsOf(Loads) : ~Bounded(U)}
           R == StrictSubsetOrdering(Loads)
<1>0. \A l \in Loads : l.calls \in Nat
  BY Zenon, ConstantsAssumption
<1>1. T = {}
  <2>1. SUFFICES ASSUME T # {} PROVE FALSE
    BY Zenon
  <2>2. IsWellFoundedOn(R, FiniteSubsetsOf(Loads))
    BY Zenon, FS_StrictSubsetOrderingWellFounded
  <2>3. PICK U \in T : \A V \in T : ~(<<V, U>> \in R)
    <3> HIDE DEF R, Bounded
    <3> QED BY Zenon, <2>1, <2>2, WFMin
  <2>4. U \subseteq Loads /\ IsFiniteSet(U) /\ ~Bounded(U)
    BY Zenon, <2>3 DEF FiniteSubsetsOf
  <2>5. PICK l \in U : TRUE
    BY Zenon, <2>4
  <2>6. U \ {l} \in FiniteSubsetsOf(Loads)
    BY <2>4, FS_RemoveElement, Zenon DEF FiniteSubsetsOf
  <2>7. <<U \ {l}, U>> \in R
    BY Zenon, <2>4, <2>5 DEF StrictSubsetOrdering
  <2>8. Bounded(U \ {l})
    BY Zenon, <2>6, <2>7, <2>3
  <2>9. PICK m \in Nat : \A k \in U \ {l} : k.calls <= m
    BY Zenon, <2>8
  <2>10. \A k \in U : k.calls <= m + l.calls
    BY <2>9, <1>0, <2>4
  <2> QED
    BY <2>10, <2>4, <2>5, <1>0
<1>2. PICK m \in Nat : \A l \in Loads : l.calls <= m
  BY Zenon, <1>1, ConstantsAssumption DEF FiniteSubsetsOf
<1>3. CASE Loads = {}
  BY Zenon, <1>3
<1>4. CASE Loads # {}
  <2> DEFINE S == {l.calls : l \in Loads}
  <2>1. S \in SUBSET Nat /\ S # {} /\ \A x \in S : x <= m
    BY Zenon, <1>0, <1>2, <1>4
  <2> HIDE DEF S
  <2>2. Max(S) \in S /\ \A x \in S : x <= Max(S)
    BY Zenon, <2>1, Largest
  <2> QED
    BY Zenon, <2>1, <2>2 DEF S, MaxCalls
<1> QED
  BY Zenon, <1>3, <1>4

\* The buffers of a file are finite in number.
LEMMA Indices ==
  ASSUME NEW S \in SUBSET Index
  PROVE  /\ IsFiniteSet(S) /\ Cardinality(S) \in Nat /\ Cardinality(Index) \in Nat
         /\ Cardinality(S) <= Cardinality(Index)
<1>1. (MaxSize - 1) \div ChunkSize \in Int /\ 0 \in Int
  BY ConstantsAssumption
<1>2. IsFiniteSet(Index)
  BY <1>1, FS_Interval, Zenon DEF Index
<1> QED
  BY <1>2, FS_Subset, FS_CardinalityType, Zenon

-----------------------------------------------------------------------------
(* What a thread carries *)

\* A step keeps the types of what threads carry.
LEMMA LocalTypesStep ==
  ASSUME Inv, NEW p \in Proc, Call(p) \/ Step(p) \/ StoreFails(p)
  PROVE  LocalTypes'
<1>1. AskTypes /\ LocalTypes /\ DataTypes /\ ThreadTypes
  BY Zenon DEF Inv
<1>2. chunks \in Seq(Ref) /\ <<>> \in Seq(Ref) /\ 0 \in Nat /\ MaxCalls \in Nat
  BY <1>1 DEF DataTypes, AskTypes
<1>3. refs' \in [Proc -> Seq(Ref)]
  <2>1. refs' = refs \/ refs' = [refs EXCEPT ![p] = <<>>] \/ refs' = [refs EXCEPT ![p] = chunks]
    BY FillFails, Zenon DEF Call, Step, StoreFails, StartWrite, StartTruncate,
       StartCommit, StartSync, Start,
     unlink, threadVars, getOpen, bufferLock, bufferFill, bufferCharge, bufferExtend, gateRLock, truncate,
     flushNothing, flushUpload, flushRepoint, flushReset, commitFile, flushAll, syncClean, syncDirty,
     settleAll, seal, flight, reply, flushFails, flightFails, UnchangedByList, Return, Forget,
     FillsShort, FillsNothing
  <2> QED
    BY <1>1, <1>2, <2>1, Zenon DEF LocalTypes
<1>4. /\ charge' = charge \/ charge' = [charge EXCEPT ![p] = 0] \/ \E n \in Nat : charge' = [charge EXCEPT ![p] = n]
      /\ taken' = taken \/ taken' = [taken EXCEPT ![p] = 0] \/ \E n \in Nat : taken' = [taken EXCEPT ![p] = n]
  <2>1. ASSUME NEW n \in Nat, Take(p, n)
        PROVE  /\ \E k \in Nat : charge' = [charge EXCEPT ![p] = k]
               /\ taken' = [taken EXCEPT ![p] = n]
    <3> DEFINE t == call[p].off \div ChunkSize .. (call[p].off + n - 1) \div ChunkSize
    <3>1. call[p].off \div ChunkSize \in Int /\ (call[p].off + n - 1) \div ChunkSize \in Int
      BY <1>1, ConstantsAssumption DEF AskTypes, CallType
    <3>2. IsFiniteSet(t \ DOMAIN dirty[of[p]])
      BY <3>1, FS_Interval, FS_Difference, Zenon
    <3>3. Cardinality(t \ DOMAIN dirty[of[p]]) \in Nat
      BY <3>2, FS_CardinalityType, Zenon
    <3> QED
      BY Zenon, <2>1, <3>3 DEF Take
  <2>2. call[p].len \in Nat
    BY Zenon, <1>1 DEF AskTypes, CallType
  <2>3. CASE bufferFill(p)
    BY <2>1, <2>2, <2>3, Zenon DEF bufferFill
  <2>4. CASE bufferFillFails(p)
    <3>1. CASE FillsShort(p)
      <4>1. PICK n \in 1 .. call[p].len : Take(p, n)
        BY Zenon, <3>1 DEF FillsShort
      <4>2. n \in Nat
        BY <2>2
      <4> QED
        BY <2>1, <4>1, <4>2, Zenon
    <3>2. CASE FillsNothing(p)
      BY <3>2, Zenon DEF FillsNothing, Return, Forget
    <3> QED
      BY Zenon, <2>4, <3>1, <3>2, FillFails
  <2>5. CASE ~bufferFill(p) /\ ~bufferFillFails(p)
    BY <2>2, <2>5, Zenon DEF Call, Step, StoreFails, StartWrite, StartTruncate,
       StartCommit, StartSync, Start,
     unlink, threadVars, getOpen, bufferLock, bufferCharge, bufferExtend, gateRLock, truncate,
     flushNothing, flushUpload, flushRepoint, flushReset, commitFile, flushAll, syncClean, syncDirty,
     settleAll, seal, flight, reply, flushFails, flightFails, UnchangedByList, Return, Forget
  <2> QED
    BY Zenon, <2>3, <2>4, <2>5
<1>5. charge' \in [Proc -> Nat] /\ taken' \in [Proc -> Nat]
  BY Zenon, <1>1, <1>2, <1>4 DEF LocalTypes
<1>6. sinceCall' \in [Proc -> [0 .. MaxSize -> SUBSET Content]]
  <2> DEFINE H == [0 .. MaxSize -> SUBSET Content]
  <2>1. sinceCall \in [Proc -> H] /\ NoPromise \in H /\ held \in [0 .. MaxSize -> Content]
    BY Zenon, <1>1 DEF LocalTypes, DataTypes, NoPromise
  <2>2. Promise(held) \in H
    BY Zenon, <1>1, <1>2, <2>1, HistoryTypes
  <2>3. CASE sinceCall' = sinceCall \/ sinceCall' = [sinceCall EXCEPT ![p] = NoPromise]
             \/ sinceCall' = [sinceCall EXCEPT ![p] = Promise(held)]
    <3> HIDE DEF H
    <3> QED
      BY Zenon, <2>1, <2>2, <2>3 DEF H
  <2>4. CASE unlink(p) \/ truncate(p) \/ bufferExtend(p)
    <3>1. held' \in [0 .. MaxSize -> Content]
      BY <1>1, <2>1, HeldSteps, ImageTypes, Zenon
    <3>2. CallHistory(held') \in [Proc -> H] /\ Promise(held') \in H
      BY <1>1, <1>2, <3>1, HistoryTypes, Zenon
    <3>3. \/ sinceCall' = sinceCall \/ sinceCall' = CallHistory(held')
          \/ sinceCall' = [CallHistory(held') EXCEPT ![p] = Promise(held')]
      BY <2>4, Zenon DEF unlink, truncate, bufferExtend, Becomes, histVars
    <3> HIDE DEF H
    <3> QED
      BY Zenon, <2>1, <3>2, <3>3 DEF H
  <2>5. CASE ~(unlink(p) \/ truncate(p) \/ bufferExtend(p))
    BY <2>3, <2>5, FillFails, Zenon DEF Call, Step, StoreFails, StartWrite,
       StartTruncate, StartCommit, StartSync,
     getOpen, bufferLock, bufferFill, bufferCharge, gateRLock, histVars,
     flushNothing, flushUpload, flushRepoint, flushReset, commitFile, flushAll, syncClean, syncDirty,
     settleAll, seal, flight, reply, flushFails, flightFails, UnchangedByList, Return,
     FillsShort, FillsNothing
  <2> QED
    BY Zenon, <2>4, <2>5
<1> QED
  BY Zenon, <1>3, <1>5, <1>6 DEF LocalTypes

-----------------------------------------------------------------------------
(* Filling buffers *)

\* What is at hand of a file's contents at index idx.
LEMMA BufIs ==
  ASSUME AskTypes, DataTypes, NEW idx \in Nat
  PROVE  Buf(dirty[1], pendingTrim[1], chunks, idx) \in Chunk
<1>1. /\ dirty[1] \in Buffers /\ pendingTrim[1] \in TrimMaps /\ chunks \in Seq(Ref) /\ MaxCalls \in Nat
  BY DEF AskTypes, DataTypes, OpenFile
<1>2. CASE idx \in DOMAIN dirty[1]
  BY Zenon, <1>1, <1>2 DEF Buf, Buffers
<1>3. CASE idx \notin DOMAIN dirty[1] /\ idx >= Len(chunks)
  BY Zenon, <1>1, <1>3, RefIs DEF Buf
<1>4. CASE idx \notin DOMAIN dirty[1] /\ ~(idx >= Len(chunks))
  <2>1. idx + 1 \in DOMAIN chunks
    BY <1>1, <1>4
  <2>2. chunks[idx + 1].data \in Chunk
    BY <1>1, <2>1, RefIs
  <2>3. Len(chunks[idx + 1].data) \in Nat
    BY <2>2, ChunkIs
  <2>4. ASSUME idx \in DOMAIN pendingTrim[1]
        PROVE  SubSeq(chunks[idx + 1].data, 1, Smaller(pendingTrim[1][idx].to, Len(chunks[idx + 1].data))) \in Chunk
    <3>1. pendingTrim[1][idx].to \in Nat
      BY <1>1, <2>4, ConstantsAssumption DEF TrimMaps, TrimType
    <3> QED
      BY <2>2, <2>3, <3>1, Beginning DEF Smaller
  <2> QED
    BY Zenon, <1>4, <2>2, <2>4 DEF Buf
<1> QED
  BY Zenon, <1>2, <1>3, <1>4

\* A write's part of an index's buffer shows the write's bytes, and what was at
\* hand of the index elsewhere (the loop of bufferWrite).
LEMMA FilledIs ==
  ASSUME AskTypes, DataTypes, NEW p \in Proc, of[p] = 1, refs[p] = chunks, NEW idx \in Nat,
         idx * ChunkSize < call[p].off + call[p].len, call[p].off < idx * ChunkSize + ChunkSize
  PROVE  /\ Filled(p, idx) \in Chunk
         /\ \A j \in 1 .. ChunkSize :
              At(Filled(p, idx), j) =
                IF call[p].off < idx * ChunkSize + j /\ idx * ChunkSize + j <= call[p].off + call[p].len
                THEN call[p].val ELSE At(Buf(dirty[1], pendingTrim[1], chunks, idx), j)
<1> DEFINE off == call[p].off
           len == call[p].len
           at == idx * ChunkSize
           lo == Lo(idx, off)
           hi == Hi(idx, off, len)
           base == Base(p, idx)
           buf == Buf(dirty[1], pendingTrim[1], chunks, idx)
           m == Larger(hi, Len(base))
<1>1. /\ off \in Nat /\ len \in Nat /\ call[p].val \in Byte /\ MaxCalls \in Nat
  BY ConstantsAssumption DEF AskTypes, CallType
<1>2. ChunkSize \in Nat /\ ChunkSize > 0 /\ at \in Int
  BY ConstantsAssumption
<1>3. /\ lo \in Nat /\ lo = (IF off < at THEN 0 ELSE off - at)
      /\ hi \in 1 .. ChunkSize /\ hi = (IF off + len - at < ChunkSize THEN off + len - at ELSE ChunkSize)
  BY <1>1, <1>2 DEF Lo, Hi, Larger, Smaller
<1>4. buf \in Chunk
  BY Zenon, BufIs
<1>5. base = buf \/ (base = <<>> /\ lo = 0 /\ hi = ChunkSize)
  BY Zenon DEF Base, Buf
<1>6. base \in Chunk /\ Len(base) \in 0 .. ChunkSize
  BY Zenon, <1>1, <1>4, <1>5, RefIs, ChunkIs
<1>7. Filled(p, idx) = [j \in 1 .. m |-> IF lo < j /\ j <= hi THEN call[p].val
                                        ELSE IF j <= Len(base) THEN base[j] ELSE 0]
  BY Zenon DEF Filled
<1> HIDE DEF base, buf, lo, hi, at
<1>8. m \in 0 .. ChunkSize /\ hi <= m /\ Len(base) <= m /\ (m = hi \/ m = Len(base))
  BY <1>2, <1>3, <1>6 DEF Larger
<1> HIDE DEF m
<1>9. \A j \in 1 .. Len(base) : base[j] \in Byte
  BY <1>6, ChunkIs
<1>10. 0 \in Byte
  BY Zenon, <1>1, RefIs
<1>11. Filled(p, idx) \in [1 .. m -> Byte]
  BY <1>1, <1>3, <1>6, <1>7, <1>9, <1>10
<1>12. Filled(p, idx) \in Chunk /\ Len(Filled(p, idx)) = m
  BY <1>8, <1>11, FunChunk, Zenon
<1>13. ASSUME NEW j \in 1 .. ChunkSize
       PROVE  At(Filled(p, idx), j) =
                IF off < at + j /\ at + j <= off + len THEN call[p].val ELSE At(buf, j)
  <2>1. (lo < j /\ j <= hi) <=> (off < at + j /\ at + j <= off + len)
    BY <1>1, <1>2, <1>3
  <2>2. CASE lo < j /\ j <= hi
    <3>1. j \in 1 .. m
      BY <1>3, <1>8, <2>2
    <3> QED
      BY <1>7, <1>8, <1>12, <2>1, <2>2, <3>1 DEF At
  <2>3. CASE ~(lo < j /\ j <= hi)
    <3>1. base = buf
      BY <1>3, <1>5, <2>3
    <3>2. CASE j \in 1 .. m
      BY <1>6, <1>7, <1>8, <1>12, <2>1, <2>3, <3>1, <3>2 DEF At
    <3>3. CASE j \notin 1 .. m
      BY <1>6, <1>8, <1>12, <2>1, <2>3, <3>1, <3>3 DEF At
    <3> QED
      BY Zenon, <3>2, <3>3
  <2> QED
    BY Zenon, <2>2, <2>3
<1> QED
  BY Zenon, <1>12, <1>13 DEF at, buf

\* Whatever part of a write the buffers take, they show its bytes and otherwise
\* what they showed; the charge is the number of new ones (bufferWrite).
TakeEffect(p, n) ==
  /\ \A o \in OpenFile \ {1} : dirty'[o] = dirty[o] /\ pendingTrim'[o] = pendingTrim[o]
  /\ dirty'[1] \in Buffers /\ pendingTrim'[1] \in TrimMaps
  /\ \A idx \in DOMAIN pendingTrim'[1] :
       /\ idx \in DOMAIN pendingTrim[1] /\ pendingTrim'[1][idx] = pendingTrim[1][idx]
       /\ idx \in DOMAIN dirty'[1] => idx \in DOMAIN dirty[1]
  /\ DOMAIN dirty[1] \subseteq DOMAIN dirty'[1]
  /\ charge'[p] \in Nat
  /\ Cardinality(DOMAIN dirty'[1]) = Cardinality(DOMAIN dirty[1]) + charge'[p]
  /\ used' = used + charge'[p]
  /\ taken'[p] = n
  /\ \A i \in Place :
       Shown(dirty'[1], pendingTrim'[1], chunks, i) =
         IF call[p].off < i /\ i <= call[p].off + n THEN call[p].val
         ELSE Shown(dirty[1], pendingTrim[1], chunks, i)

\* What bufferWrite makes of the buffers, the trims and the charge, once the
\* first n bytes of the write are in.
LEMMA TakeIs ==
  ASSUME AskTypes, LocalTypes, DataTypes, NEW p \in Proc, of[p] = 1,
         refs[p] = chunks, call[p].off + call[p].len <= MaxSize, NEW n, Whole(p, n), Take(p, n)
  PROVE  TakeEffect(p, n)
<1> DEFINE off == call[p].off
           len == call[p].len
           touched == off \div ChunkSize .. (off + n - 1) \div ChunkSize
           fresh == touched \ DOMAIN dirty[1]
           D == dirty[1]
           T == pendingTrim[1]
           D1 == dirty'[1]
           T1 == pendingTrim'[1]
<1>1. off \in Nat /\ len \in Nat /\ n \in 1 .. len /\ n \in Nat \ {0} /\ MaxCalls \in Nat
  BY ConstantsAssumption DEF AskTypes, CallType, Whole
<1>2. MaxSize \in Nat /\ ChunkSize \in Nat /\ ChunkSize > 0
  BY ConstantsAssumption
<1>3. /\ D \in Buffers /\ T \in TrimMaps /\ DOMAIN dirty = OpenFile /\ DOMAIN pendingTrim = OpenFile
      /\ DOMAIN taken = Proc /\ DOMAIN charge = Proc /\ 1 \in OpenFile /\ used \in Nat
  BY DEF DataTypes, LocalTypes, OpenFile
<1>4. off \div ChunkSize \in Nat /\ (off + n - 1) \div ChunkSize \in Int
  BY <1>1, <1>2, Division
<1>5. touched \subseteq Nat /\ IsFiniteSet(touched)
  BY <1>4, FS_Interval
<1>6. \A idx \in Nat : idx \in touched <=> idx * ChunkSize < off + n /\ off < idx * ChunkSize + ChunkSize
  BY <1>1, Touched, Zenon
<1>7. /\ dirty' = [dirty EXCEPT ![1] = [idx \in DOMAIN D \cup touched |->
                       IF idx \in touched THEN Filled(p, idx) ELSE D[idx]]]
      /\ pendingTrim' = [pendingTrim EXCEPT ![1] = Restrict(T, DOMAIN T \ touched)]
      /\ taken' = [taken EXCEPT ![p] = n] /\ charge' = [charge EXCEPT ![p] = Cardinality(fresh)]
      /\ used' = used + Cardinality(fresh)
  BY Zenon DEF Take
<1>8. /\ D1 = [idx \in DOMAIN D \cup touched |-> IF idx \in touched THEN Filled(p, idx) ELSE D[idx]]
      /\ T1 = [idx \in DOMAIN T \ touched |-> T[idx]]
      /\ \A o \in OpenFile \ {1} : dirty'[o] = dirty[o] /\ pendingTrim'[o] = pendingTrim[o]
      /\ taken'[p] = n /\ charge'[p] = Cardinality(fresh)
  BY Zenon, <1>3, <1>7 DEF Restrict
<1> HIDE DEF touched, D, T, D1, T1
<1>9. \A idx \in touched : idx * ChunkSize \in Int /\ idx * ChunkSize < off + len
                            /\ off < idx * ChunkSize + ChunkSize
  <2> SUFFICES ASSUME NEW idx \in touched
               PROVE  /\ idx * ChunkSize \in Int /\ idx * ChunkSize < off + len
                      /\ off < idx * ChunkSize + ChunkSize
    BY Zenon
  <2>1. idx \in Nat /\ idx * ChunkSize \in Int
    BY <1>2, <1>5
  <2>2. idx * ChunkSize < off + n /\ off < idx * ChunkSize + ChunkSize
    BY <1>6, <2>1, Zenon
  <2> QED
    BY <1>1, <2>1, <2>2
<1>10. \A idx \in touched : Filled(p, idx) \in Chunk
  BY Zenon, <1>5, <1>9, FilledIs
<1>11. touched \subseteq Index
  BY <1>1, <1>2, <1>5, <1>9, IndexIs
<1>12. DOMAIN D \subseteq Index /\ IsFiniteSet(DOMAIN D) /\ D \in [DOMAIN D -> Chunk]
  BY Zenon, <1>3, Indices DEF Buffers
<1>13. D1 \in [DOMAIN D \cup touched -> Chunk]
  BY Zenon, <1>8, <1>10, <1>12
<1>14. D1 \in Buffers /\ DOMAIN D1 = DOMAIN D \cup touched
  BY Zenon, <1>11, <1>12, <1>13 DEF Buffers
<1>15. T1 \in TrimMaps
  <2>1. DOMAIN T \subseteq Index /\ T \in [DOMAIN T -> TrimType]
    BY Zenon, <1>3 DEF TrimMaps
  <2>2. T1 \in [DOMAIN T \ touched -> TrimType] /\ DOMAIN T \ touched \in SUBSET Index
    BY Zenon, <1>8, <2>1
  <2> QED
    BY Zenon, <2>2 DEF TrimMaps
<1>16. IsFiniteSet(fresh) /\ Cardinality(fresh) \in Nat /\ fresh \cap DOMAIN D = {}
  BY <1>5, FS_Difference, FS_CardinalityType, Zenon DEF D
<1>17. DOMAIN D1 = DOMAIN D \cup fresh
  BY Zenon, <1>14 DEF D
<1>18. Cardinality(DOMAIN D1) = Cardinality(DOMAIN D) + Cardinality(fresh)
  <2>1. Cardinality(DOMAIN D \cup fresh) =
          Cardinality(DOMAIN D) + Cardinality(fresh) - Cardinality(DOMAIN D \cap fresh)
    BY <1>12, <1>16, FS_Union, Zenon
  <2>2. DOMAIN D \cap fresh = {}
    BY Zenon, <1>16
  <2>3. Cardinality(DOMAIN D \cap fresh) = 0
    BY <2>2, FS_EmptySet, Zenon
  <2>4. Cardinality(DOMAIN D) \in Nat
    BY <1>12, FS_CardinalityType, Zenon
  <2> QED
    BY <1>16, <1>17, <2>1, <2>3, <2>4
<1>19. ASSUME NEW i \in Place
       PROVE  Shown(D1, T1, chunks, i) =
                IF off < i /\ i <= off + n THEN call[p].val ELSE Shown(D, T, chunks, i)
  <2> DEFINE idx == Idx(i)
             j == Pos(i)
  <2>1. /\ idx \in Nat /\ j \in 1 .. ChunkSize /\ idx * ChunkSize \in Nat
        /\ i = idx * ChunkSize + j /\ i \in Nat
    <3>1. i \in Nat \ {0}
      BY <1>2 DEF Place
    <3> QED
      BY Zenon, <3>1, PlaceIs
  <2> HIDE DEF idx, j
  <2>2. CASE idx \notin touched
    <3>1. /\ idx \in DOMAIN D1 <=> idx \in DOMAIN D
          /\ idx \in DOMAIN D => D1[idx] = D[idx]
          /\ idx \in DOMAIN T1 <=> idx \in DOMAIN T
          /\ idx \in DOMAIN T => T1[idx] = T[idx]
      BY Zenon, <1>8, <2>2
    <3>2. Buf(D1, T1, chunks, idx) = Buf(D, T, chunks, idx)
      BY Zenon, <3>1 DEF Buf
    <3>3. ~(off < i /\ i <= off + n)
      BY <1>1, <1>2, <1>6, <2>1, <2>2
    <3> QED
      BY Zenon, <3>2, <3>3 DEF Shown, idx
  <2>3. CASE idx \in touched
    <3>1. Buf(D1, T1, chunks, idx) = Filled(p, idx)
      BY Zenon, <1>8, <2>3 DEF Buf
    <3>2. At(Filled(p, idx), j) =
            IF off < idx * ChunkSize + j /\ idx * ChunkSize + j <= off + len
            THEN call[p].val ELSE At(Buf(D, T, chunks, idx), j)
      BY Zenon, <1>9, <2>1, <2>3, FilledIs DEF D, T
    <3>3. i <= off + len => i <= off + n
      <4>1. CASE n = len
        BY Zenon, <4>1
      <4>2. ASSUME NEW k \in Nat, off + n = k * ChunkSize
            PROVE  i <= off + n
        <5>0. idx * ChunkSize < k * ChunkSize
          BY Zenon, <1>6, <2>1, <2>3, <4>2
        <5>1. idx < k
          BY <1>2, <2>1, <5>0, Before
        <5>2. idx * ChunkSize + ChunkSize <= k * ChunkSize
          BY <2>1, <5>1, Before
        <5> QED
          BY <1>1, <1>2, <2>1, <4>2, <5>2
      <4> QED
        BY Zenon, <4>1, <4>2 DEF Whole
    <3>4. i <= off + n => i <= off + len
      BY <1>1, <2>1
    <3> QED
      BY Zenon, <2>1, <3>1, <3>2, <3>3, <3>4 DEF Shown, idx, j
  <2> QED
    BY Zenon, <2>2, <2>3
<1>20. \A idx \in DOMAIN T1 : /\ idx \in DOMAIN T /\ T1[idx] = T[idx]
                               /\ idx \in DOMAIN D1 => idx \in DOMAIN D
  BY Zenon, <1>8, <1>14
<1>21. DOMAIN D \subseteq DOMAIN D1 /\ used' = used + charge'[p]
  BY Zenon, <1>7, <1>8, <1>14
<1>22. Cardinality(DOMAIN D1) = Cardinality(DOMAIN D) + charge'[p] /\ charge'[p] \in Nat
  BY Zenon, <1>8, <1>16, <1>18
<1> QED
  BY Zenon, <1>21, <1>22, <1>8, <1>14, <1>15, <1>16, <1>18, <1>19, <1>20 DEF TakeEffect,
     D, T, D1, T1

\* The part of a write that is in the buffers, before it counts as the file's.
LEMMA TakeFile ==
  ASSUME Inv, NEW p \in Proc, Only(p), pc[p] = "fill", pc'[p] = "charge", NEW n, Whole(p, n), Take(p, n),
         linked' = linked, size' = size, chunks' = chunks, open' = open, unsettled' = unsettled,
         bytes' = bytes, ofmu' = ofmu, nsDirty' = nsDirty, changes' = changes, sealed' = sealed,
         sealedChanges' = sealedChanges, committed' = committed, bucket' = bucket, call' = call,
         held' = held, sinceCut' = sinceCut
  PROVE  FileInv'
<1>1. /\ of[p] = 1 /\ ofmu[1] = p /\ refs[p] = chunks /\ call[p].kind \in Writes
      /\ call[p].off + call[p].len <= MaxSize
  BY Zenon DEF Inv, LockInv, Holds, CallInv, Called
<1>2. AskTypes /\ LocalTypes /\ DataTypes
  BY Zenon DEF Inv
<1>3. TakeEffect(p, n)
  BY <1>1, <1>2, TakeIs, Zenon
<1>4. Phase = "fill" /\ Phase' = "charge" /\ ofmu'[1] = p /\ Charging = 0 /\ Charging' = charge'[p]
  BY Zenon, <1>1, NobodyFree DEF Phase, Charging
<1>5. \A o \in OpenFile \ {1} : dirty'[o] = dirty[o] /\ pendingTrim'[o] = pendingTrim[o]
  BY Zenon, <1>3 DEF TakeEffect
<1>6. dirty'[2] = dirty[2] /\ pendingTrim'[2] = pendingTrim[2]
  BY <1>5 DEF OpenFile
<1>7. DataTypes'
  <2>1. dirty'[1] \in Buffers /\ pendingTrim'[1] \in TrimMaps /\ used' = used + charge'[p] /\ charge'[p] \in Nat
    BY Zenon, <1>3 DEF TakeEffect
  <2>2. DOMAIN dirty' = OpenFile /\ DOMAIN pendingTrim' = OpenFile
        /\ dirty' = [o \in DOMAIN dirty' |-> dirty'[o]] /\ pendingTrim' = [o \in DOMAIN pendingTrim' |-> pendingTrim'[o]]
    BY <1>2, Zenon DEF Take, DataTypes
  <2>3. dirty' \in [OpenFile -> Buffers]
    BY <1>2, <1>6, <2>1, <2>2 DEF DataTypes, OpenFile
  <2>4. pendingTrim' \in [OpenFile -> TrimMaps]
    BY <1>2, <1>6, <2>1, <2>2 DEF DataTypes, OpenFile
  <2>5. used' \in Nat
    BY <1>2, <2>1 DEF DataTypes
  <2> QED
    BY <1>2, <2>3, <2>4, <2>5, Zenon DEF DataTypes
<1>8. FreshInv' /\ CleanInv'
  BY Zenon, <1>1, <1>6, FreshKept, CleanKept
<1>9. ChargeInv'
  <2>1. ChargeInv /\ bytes[1] \in Nat /\ used \in Nat
    BY <1>2 DEF Inv, DataTypes, OpenFile
  <2>2. /\ charge'[p] \in Nat /\ used' = used + charge'[p]
        /\ Cardinality(DOMAIN dirty'[1]) = Cardinality(DOMAIN dirty[1]) + charge'[p]
    BY Zenon, <1>3 DEF TakeEffect
  <2>3. Cardinality(DOMAIN dirty[1]) \in Nat
    BY <1>2, Indices DEF DataTypes, Buffers, OpenFile
  <2> HIDE DEF Phase, Charging
  <2> QED
    BY <1>4, <2>1, <2>2, <2>3 DEF ChargeInv
<1>10. \A idx \in DOMAIN pendingTrim'[1] :
         /\ idx \in DOMAIN pendingTrim[1] /\ pendingTrim'[1][idx] = pendingTrim[1][idx]
         /\ idx \in DOMAIN dirty'[1] => idx \in DOMAIN dirty[1]
  BY Zenon, <1>3 DEF TakeEffect
<1>11. StoredInv'
  <2>1. \A q \in Proc \ {p} : pc'[q] = "repoint" => Uploads(of[q])' \subseteq bucket'
    BY ZenonT(60), <1>1, <1>6, OtherRepointers
  <2>2. \A q \in Proc : pc'[q] = "repoint" => Uploads(of[q])' \subseteq bucket'
    BY Zenon, <2>1
  <2>3. StoredInv
    BY Zenon DEF Inv
  <2> QED
    BY <1>10, <2>2, <2>3, Zenon DEF StoredInv, Kept
<1>12. TrimInv'
  <2>1. linked => (\A idx \in DOMAIN pendingTrim[1] : TrimOf(idx)) /\ (DOMAIN pendingTrim[1] # {} => unsettled[1])
    BY Zenon, <1>4 DEF Inv, TrimInv
  <2>2. ASSUME linked, NEW idx \in DOMAIN pendingTrim'[1] PROVE TrimOf(idx)'
    BY <1>10, <2>1, <2>2, Zenon DEF TrimOf
  <2>3. linked /\ DOMAIN pendingTrim'[1] # {} => unsettled[1]
    BY Zenon, <1>10, <2>1
  <2> QED
    BY Zenon, <2>2, <2>3 DEF TrimInv
<1>13. HeldInv'
  <2>1. HeldInv
    BY Zenon DEF Inv
  <2>2. \A i \in Place :
          Shown(dirty'[1], pendingTrim'[1], chunks, i) =
            IF call[p].off < i /\ i <= call[p].off + n THEN call[p].val
            ELSE Shown(dirty[1], pendingTrim[1], chunks, i)
    BY <1>3, Zenon DEF TakeEffect
  <2>3. taken'[p] = n
    BY Zenon, <1>3 DEF TakeEffect
  <2>4. \A i : Holding(i)' = Holding(i)
    BY Zenon DEF Holding
  <2>5. \A i : Written(p, i)' <=> call[p].off < i /\ i <= call[p].off + n
    BY Zenon, <2>3 DEF Written
  <2>6. linked => \A i \in Place : Shown(dirty[1], pendingTrim[1], chunks, i) = Holding(i)
    BY <1>4, <2>1, Zenon DEF HeldInv
  <2>7. linked => \A i \in Place :
          Shown(dirty'[1], pendingTrim'[1], chunks, i) = IF Written(p, i)' THEN call[p].val ELSE Holding(i)'
    BY <2>2, <2>4, <2>5, <2>6, Zenon
  <2>8. \A i : Written(ofmu[1], i)' = Written(p, i)'
    BY <1>4, Zenon DEF Written
  <2> QED
    BY Zenon, <1>4, <2>1, <2>7, <2>8 DEF HeldInv
<1>14. CutInv'
  BY Zenon DEF Inv, CutInv
<1> QED
  BY Zenon, <1>7, <1>8, <1>9, <1>11, <1>12, <1>13, <1>14 DEF FileInv

\* A write fills its buffers in full (bufferWrite).
LEMMA BufferFillFile ==
  ASSUME Inv, NEW p \in Proc, bufferFill(p)
  PROVE  FileInv'
<1>1. Only(p)
  BY Zenon, OthersKept DEF Call, Step, StoreFails
<1>2. /\ pc[p] = "fill" /\ pc'[p] = "charge" /\ Take(p, call[p].len)
      /\ linked' = linked /\ size' = size /\ chunks' = chunks /\ open' = open /\ unsettled' = unsettled
      /\ bytes' = bytes /\ ofmu' = ofmu /\ nsDirty' = nsDirty /\ changes' = changes /\ sealed' = sealed
      /\ sealedChanges' = sealedChanges /\ committed' = committed /\ bucket' = bucket /\ call' = call
      /\ held' = held /\ sinceCut' = sinceCut
  BY Zenon DEF bufferFill, inodeVars, commitVars, histVars, Goto, Inv, ThreadTypes
<1>3. Whole(p, call[p].len)
  BY <1>2 DEF Inv, LockInv, CallInv, Called, Whole
<1> QED
  BY <1>1, <1>2, <1>3, TakeFile, Zenon

\* A write fills its buffers up to the chunk it cannot fetch (bufferWrite).
LEMMA FillsShortFile ==
  ASSUME Inv, NEW p \in Proc, bufferFillFails(p), FillsShort(p)
  PROVE  FileInv'
<1>1. Only(p)
  BY Zenon, OthersKept DEF Call, Step, StoreFails
<1>2. PICK n \in 1 .. call[p].len : Whole(p, n) /\ Take(p, n)
  BY Zenon DEF FillsShort
<1>3. /\ pc[p] = "fill"
      /\ linked' = linked /\ size' = size /\ chunks' = chunks /\ open' = open /\ unsettled' = unsettled
      /\ bytes' = bytes /\ nsDirty' = nsDirty /\ changes' = changes /\ sealed' = sealed
      /\ sealedChanges' = sealedChanges /\ committed' = committed /\ bucket' = bucket
      /\ held' = held /\ sinceCut' = sinceCut
  BY Zenon DEF bufferFillFails, inodeVars, commitVars
<1>4. pc'[p] = "charge" /\ ofmu' = ofmu /\ call' = call
  BY Zenon DEF FillsShort, Goto, Inv, ThreadTypes
<1> QED
  BY <1>1, <1>2, <1>3, <1>4, TakeFile, Zenon

-----------------------------------------------------------------------------
(* Cutting the file *)

\* The file is cut or grows, and its buffers, its trims, its list and the charge
\* with it.
LEMMA TruncateFile ==
  ASSUME Inv, NEW p \in Proc, truncate(p), linked
  PROVE  FileInv'
<1> DEFINE n == call[p].off
           freed == Cardinality(DOMAIN dirty[1] \cap Beyond(n))
<1>1. Only(p)
  BY Zenon, OthersKept DEF Call, Step, StoreFails
<1>2. /\ DataTypes /\ AskTypes /\ LocalTypes
      /\ n \in 0 .. MaxSize /\ MaxSize \in Nat /\ MaxCalls \in Nat
  BY Zenon, ConstantsAssumption DEF Inv, AskTypes, CallType
<1>3. of[p] = 1 /\ pc[p] = "lock"
  BY DEF truncate, Inv, LockInv, EntryInv, OpenFile
<1>4. /\ pc'[p] = "idle" /\ ofmu[1] = Nobody /\ ofmu' = ofmu
      /\ linked' = linked /\ open' = open /\ size' = n /\ chunks' = Grow(CutChunks(n), n)
      /\ dirty' = [dirty EXCEPT ![1] = CutDirty(1, n)]
      /\ pendingTrim' = [pendingTrim EXCEPT ![1] = CutTrims(1, n)]
      /\ bytes' = [bytes EXCEPT ![1] = @ - freed] /\ used' = used - freed
      /\ unsettled' = [unsettled EXCEPT ![1] = @ \/ Unsettles(1, n)]
      /\ nsDirty' = TRUE /\ changes' = changes + 1
      /\ sealed' = sealed /\ sealedChanges' = sealedChanges /\ committed' = committed
      /\ bucket' = bucket /\ held' = Cut(n) /\ sinceCut' = CutHistory(Cut(n))
  BY Zenon, <1>3 DEF truncate, markDirty, Becomes, Cut, Goto, Inv, ThreadTypes
<1>5. Phase = "free" /\ Phase' = "free" /\ Charging = 0 /\ Charging' = 0
  BY Zenon, <1>4 DEF Phase, Charging
<1>6. \A idx \in DOMAIN pendingTrim[1] : TrimOf(idx)
  BY Zenon, <1>5 DEF Inv, TrimInv
<1>7. /\ CutDirty(1, n) \in Buffers /\ DOMAIN CutDirty(1, n) = DOMAIN dirty[1] \ Beyond(n)
      /\ CutTrims(1, n) \in TrimMaps /\ Grow(CutChunks(n), n) \in Seq(Ref)
  BY <1>2, CutDirtyAre, CutTrimsAre, CutList, Zenon
<1> HIDE DEF n
<1>8. /\ dirty' \in [OpenFile -> Buffers] /\ dirty'[1] = CutDirty(1, n) /\ dirty'[2] = dirty[2]
  BY <1>2, <1>4, <1>7 DEF DataTypes, OpenFile
<1>9. /\ pendingTrim' \in [OpenFile -> TrimMaps] /\ pendingTrim'[1] = CutTrims(1, n)
      /\ pendingTrim'[2] = pendingTrim[2]
  BY <1>2, <1>4, <1>7 DEF DataTypes, OpenFile
<1>10. unsettled'[1] = (unsettled[1] \/ Unsettles(1, n)) /\ unsettled'[2] = unsettled[2]
  BY <1>4 DEF Inv, ThreadTypes, OpenFile
<1>11. /\ Cardinality(DOMAIN dirty'[1]) = Cardinality(DOMAIN dirty[1]) - freed
       /\ freed \in Nat /\ Cardinality(DOMAIN dirty[1]) \in Nat /\ Cardinality(DOMAIN dirty'[1]) \in Nat
  <2>1. IsFiniteSet(DOMAIN dirty[1])
    BY <1>2, Indices DEF DataTypes, Buffers, OpenFile
  <2>2. /\ Cardinality(DOMAIN dirty[1] \ Beyond(n)) = Cardinality(DOMAIN dirty[1]) - freed
        /\ IsFiniteSet(DOMAIN dirty[1] \ Beyond(n))
        /\ IsFiniteSet(DOMAIN dirty[1] \cap Beyond(n))
    BY <2>1, FS_Difference, FS_Intersection, Zenon
  <2>3. dirty'[1] = CutDirty(1, n) /\ DOMAIN CutDirty(1, n) = DOMAIN dirty[1] \ Beyond(n)
    BY Zenon, <1>7, <1>8
  <2>4. /\ Cardinality(DOMAIN dirty[1] \ Beyond(n)) \in Nat /\ freed \in Nat
        /\ Cardinality(DOMAIN dirty[1]) \in Nat
    BY <2>1, <2>2, FS_CardinalityType, Zenon
  <2> QED
    BY <2>2, <2>3, <2>4, Zenon
<1> HIDE DEF freed
<1>12. /\ bytes[1] = Cardinality(DOMAIN dirty[1]) /\ used = bytes[1]
       /\ bytes' \in [OpenFile -> Nat] /\ bytes'[1] = Cardinality(DOMAIN dirty'[1]) /\ used' = bytes'[1]
       /\ bytes'[2] = bytes[2]
  <2>1. bytes[1] = Cardinality(DOMAIN dirty[1]) /\ used = bytes[1] /\ bytes \in [OpenFile -> Nat]
    <3>1. /\ used = bytes[1] + Charging
          /\ bytes[1] + Charging = Cardinality(DOMAIN dirty[1])
      BY Zenon DEF Inv, ChargeInv
    <3>2. bytes \in [OpenFile -> Nat] /\ bytes[1] \in Nat
      BY <1>2 DEF DataTypes, OpenFile
    <3> QED
      BY <1>5, <3>1, <3>2
  <2>2. bytes[1] - freed = Cardinality(DOMAIN dirty'[1]) /\ bytes[1] - freed \in Nat
    BY Zenon, <1>11, <2>1
  <2> QED
    BY <1>4, <2>1, <2>2 DEF OpenFile
<1>13. held' \in [0 .. MaxSize -> Content] /\ sinceCut' \in [0 .. MaxSize -> SUBSET Content]
  BY <1>2, <1>4, ImageTypes, HistoryTypes, Zenon
<1>14. DataTypes'
  <2>1. used' \in Nat /\ changes' \in Nat /\ nsDirty' \in BOOLEAN
    BY <1>2, <1>4, <1>11, <1>12 DEF DataTypes
  <2> QED
    BY <1>2, <1>4, <1>7, <1>8, <1>9, <1>12, <1>13, <2>1, Zenon DEF DataTypes
<1>15. FreshInv' /\ CleanInv'
  <2>1. pc'[p] # "flight"
    BY Zenon, <1>4
  <2> QED
    BY Zenon, <1>1, <1>3, <1>4, <1>8, <1>9, <1>10, <1>12, <2>1, FreshKept, CleanKept
<1>16. ChargeInv'
  BY <1>4, <1>5, <1>11, <1>12 DEF ChargeInv
<1>17. \A idx \in DOMAIN pendingTrim'[1] :
         TrimOf(idx)' /\ (idx \in DOMAIN pendingTrim[1] \/ Unsettles(1, n))
  <2> SUFFICES ASSUME NEW idx \in DOMAIN CutTrims(1, n)
               PROVE  TrimOf(idx)' /\ (idx \in DOMAIN pendingTrim[1] \/ Unsettles(1, n))
    BY Zenon, <1>9
  <2>1. /\ idx \notin DOMAIN CutDirty(1, n)
        /\ idx < Len(Grow(CutChunks(n), n))
        /\ CutTrims(1, n)[idx].ref = Grow(CutChunks(n), n)[idx + 1]
        /\ ~Grow(CutChunks(n), n)[idx + 1].hole
        /\ \A k \in DOMAIN Grow(CutChunks(n), n) : k > idx + 1 => Grow(CutChunks(n), n)[k].hole
        /\ idx \in DOMAIN pendingTrim[1] \/ Unsettles(1, n)
    BY <1>2, <1>6, CutTrimInv, Zenon
  <2> QED
    BY <1>4, <1>8, <1>9, <2>1, Zenon DEF TrimOf
<1>18. TrimInv'
  <2>1. DOMAIN pendingTrim[1] # {} => unsettled[1]
    BY Zenon, <1>5 DEF Inv, TrimInv
  <2> QED
    BY <1>10, <1>17, <2>1, Zenon DEF TrimInv
<1>19. StoredInv'
  <2>1. \A q \in Proc \ {p} : pc'[q] = "repoint" => Uploads(of[q])' \subseteq bucket'
    BY ZenonT(60), <1>1, <1>4, <1>8, <1>9, OtherRepointers
  <2>2. \A q \in Proc : pc'[q] = "repoint" => Uploads(of[q])' \subseteq bucket'
    BY Zenon, <1>4, <2>1
  <2>3. \A k \in DOMAIN chunks' : Kept(chunks'[k])
    <3> SUFFICES ASSUME NEW k \in DOMAIN Grow(CutChunks(n), n)
                 PROVE  Kept(Grow(CutChunks(n), n)[k])
      BY Zenon, <1>4
    <3> DEFINE i == k - 1
               list == Grow(CutChunks(n), n)
    <3>1. i \in Nat /\ k = i + 1 /\ i < Len(list) /\ chunks \in Seq(Ref) /\ Len(chunks) \in Nat
      BY <1>2, <1>7 DEF DataTypes
    <3> HIDE DEF i
    <3>2. i * ChunkSize < n
      BY <1>2, <3>1, CutList, Zenon
    <3>3. CASE i >= Len(chunks)
      <4>1. list[k] = Hole
        BY <1>2, <3>1, <3>3, CutList, Zenon
      <4> QED
        BY Zenon, <1>2, <4>1, RefIs DEF Kept
    <3>4. CASE ~(i >= Len(chunks))
      <4>1. i < Len(chunks) /\ k \in DOMAIN chunks
        BY <3>1, <3>4
      <4>2. list[k] = chunks[k]
        BY <1>2, <3>1, <3>2, <4>1, CutList, Zenon
      <4> QED
        BY Zenon, <4>1, <4>2 DEF Inv, StoredInv
    <3> QED
      BY Zenon, <3>3, <3>4
  <2>4. \A idx \in DOMAIN pendingTrim'[1] : Kept(pendingTrim'[1][idx].ref)
    <3> SUFFICES ASSUME NEW idx \in DOMAIN pendingTrim'[1]
                 PROVE  Kept(pendingTrim'[1][idx].ref)
      BY Zenon
    <3>1. idx < Len(chunks') /\ pendingTrim'[1][idx].ref = chunks'[idx + 1]
      BY Zenon, <1>17 DEF TrimOf
    <3>2. idx \in Nat
      <4>1. DOMAIN pendingTrim'[1] \subseteq Index
        BY Zenon, <1>7, <1>9 DEF TrimMaps
      <4> QED
        BY Zenon, <4>1, IndexIs
    <3>3. idx + 1 \in DOMAIN chunks'
      BY <1>4, <1>7, <3>1, <3>2
    <3> QED
      BY Zenon, <2>3, <3>1, <3>3
  <2> QED
    BY <1>4, <2>2, <2>3, <2>4, Zenon DEF Inv, StoredInv, Kept
<1>20. \A i \in 0 .. MaxSize : (held[i] = Absent <=> i > size) /\ i \in Int /\ i >= 0
  BY <1>2 DEF Inv, HeldInv
<1>21. \A i \in 0 .. MaxSize : held'[i] = IF i > n THEN Absent ELSE IF i > size THEN 0 ELSE held[i]
  BY Zenon, <1>4, <1>20 DEF Cut
<1>22. \A i \in 0 .. MaxSize : held'[i] = Absent <=> i > size'
  BY <1>4, <1>20, <1>21 DEF Absent
<1>23. HeldInv'
  <2>1. held'[0] = 1
    <3>1. held[0] = 1 /\ DataTypes
      BY Zenon DEF Inv, HeldInv
    <3>2. ~(0 > size) /\ ~(0 > n) /\ 0 \in 0 .. MaxSize
      BY <1>2, <3>1 DEF DataTypes
    <3> QED
      BY Zenon, <1>21, <3>1, <3>2
  <2>2. ASSUME NEW i \in Place
        PROVE  Shown(dirty'[1], pendingTrim'[1], chunks', i) = Holding(i)'
    <3>1. Shown(dirty[1], pendingTrim[1], chunks, i) = Holding(i)
      BY Zenon, <1>5 DEF Inv, HeldInv
    <3>2. i \in 0 .. MaxSize /\ i \in Int
      BY <1>2 DEF Place
    <3>3. Shown(dirty'[1], pendingTrim'[1], chunks', i) = IF i > n THEN 0 ELSE Holding(i)
      BY <1>2, <1>4, <1>6, <1>8, <1>9, <3>1, CutShown, Zenon
    <3>4. Holding(i)' = IF i > n THEN 0 ELSE held'[i]
      BY Zenon, <1>4 DEF Holding
    <3>5. Holding(i)' = IF i > n THEN 0 ELSE Holding(i)
      BY Zenon, <1>21, <3>2, <3>4 DEF Holding
    <3> QED
      BY <3>3, <3>5
  <2> QED
    BY Zenon, <1>4, <1>5, <1>22, <2>1, <2>2 DEF HeldInv
<1>24. CutInv'
  <2>1. \A i \in 0 .. MaxSize : held'[i] \in sinceCut'[i]
    BY Zenon, <1>4, Recorded
  <2>2. ASSUME ~unsettled'[1], NEW i \in Place
        PROVE  ByteAt(chunks', i) \in (IF i > size' THEN {0} ELSE sinceCut'[i])
    <3>1. ByteAt(chunks, i) \in (IF i > size THEN {0} ELSE sinceCut[i]) /\ ~Unsettles(1, n)
      BY <1>10, <2>2, Zenon DEF Inv, CutInv
    <3>2. i \in 0 .. MaxSize /\ i \in Int
      BY <1>2 DEF Place
    <3>3. /\ i <= n => ByteAt(chunks', i) = ByteAt(chunks, i)
          /\ i > n => ByteAt(chunks', i) = 0
      BY <1>2, <1>4, <3>1, CutBytes, Zenon
    <3>4. CASE i > n
      BY Zenon, <1>4, <3>3, <3>4
    <3>5. CASE ~(i > n)
      <4>1. ByteAt(chunks', i) = ByteAt(chunks, i) /\ held'[i] # Absent
        BY <1>2, <1>4, <1>22, <3>2, <3>3, <3>5
      <4>2. sinceCut[i] \subseteq sinceCut'[i] /\ (i > size => 0 \in sinceCut'[i])
        BY Zenon, <1>4, <1>20, <3>2, <4>1, Recorded
      <4> QED
        BY Zenon, <1>4, <3>1, <3>5, <4>1, <4>2
    <3> QED
      BY Zenon, <3>4, <3>5
  <2> QED
    BY Zenon, <1>4, <2>1, <2>2 DEF CutInv
<1> QED
  BY Zenon, <1>14, <1>15, <1>16, <1>18, <1>19, <1>23, <1>24 DEF FileInv

\* A truncate leaves every commit covered.
LEMMA TruncateCover ==
  ASSUME Inv, FileInv', NEW p \in Proc, truncate(p)
  PROVE  CoverInv'
<1> DEFINE n == call[p].off
<1>1. Only(p)
  BY Zenon, OthersKept DEF Call, Step, StoreFails
<1>2. /\ linked' = linked /\ sealed' = sealed /\ committed' = committed /\ pc'[p] = "idle"
      /\ pc'[p] # "flight"
  BY Zenon DEF truncate, Goto, Inv, ThreadTypes
<1>3. CASE linked
  <2>1. size' = n /\ chunks' = Grow(CutChunks(n), n) /\ sinceCall' = CallHistory(held')
    BY <1>3, Zenon DEF truncate, Becomes
  <2>2. AskTypes /\ DataTypes /\ n \in 0 .. MaxSize /\ n \in Int
    BY ConstantsAssumption DEF Inv, AskTypes, CallType
  <2> HIDE DEF n
  <2>3. ASSUME NEW i \in Place
        PROVE  \/ ByteAt(chunks', i) = ByteAt(chunks, i)
               \/ i > size' /\ ByteAt(chunks', i) = 0
    <3>1. /\ i <= n => ByteAt(chunks', i) = ByteAt(chunks, i)
          /\ i > n => ByteAt(chunks', i) \in {0, ByteAt(chunks, i)}
      BY <2>1, <2>2, CutBytes, Zenon
    <3>2. i <= n \/ i > n
      BY <2>2, ConstantsAssumption DEF Place
    <3> QED
      BY Zenon, <2>1, <3>1, <3>2
  <2>4. ASSUME NEW q \in Proc, q # p PROVE Cover(q)'
    <3>1. sinceCall'[q] = CallHistory(held')[q]
      BY Zenon, <2>1
    <3> QED
      BY <1>1, <1>2, <2>3, <2>4, <3>1, GrownCover, Zenon
  <2> QED
    BY Zenon, <1>2, <2>4, NoCover DEF CoverInv
<1>4. CASE ~linked
  <2>1. CoverDataKept /\ sinceCall' = sinceCall
    BY Zenon, <1>4 DEF truncate, CoverDataKept, histVars
  <2> QED
    BY Zenon, <1>1, <1>2, <2>1, OtherCover, NoCover DEF CoverInv
<1> QED
  BY Zenon, <1>3, <1>4

-----------------------------------------------------------------------------
(* Storing buffers and dropping them *)

\* The list a flush leaves names a hole, an old chunk or one it uploaded at each
\* index, and shows what the buffers and the trims showed (flushOpen).
LEMMA RepointedIs ==
  ASSUME AskTypes, DataTypes, \A idx \in DOMAIN pendingTrim[1] : TrimOf(idx)
  PROVE  /\ Repointed(1) \in Seq(Ref)
         /\ \A k \in DOMAIN Repointed(1) :
              \/ Repointed(1)[k].hole
              \/ k \in DOMAIN chunks /\ Repointed(1)[k] = chunks[k]
              \/ Repointed(1)[k].data \in Uploads(1)
         /\ \A i \in Place :
              ByteAt(Repointed(1), i) = Shown(dirty[1], pendingTrim[1], chunks, i)
<1> DEFINE new == Repointed(1)
           D == dirty[1]
           T == pendingTrim[1]
           S == {Len(chunks)} \cup {idx + 1 : idx \in DOMAIN D}
           last == Max(S)
<1>1. /\ ChunkSize \in Nat /\ ChunkSize > 0 /\ chunks \in Seq(Ref) /\ MaxCalls \in Nat
      /\ Len(chunks) \in Nat /\ D \in Buffers /\ T \in TrimMaps
  BY ConstantsAssumption DEF AskTypes, DataTypes, OpenFile
<1>2. /\ DOMAIN D \in SUBSET Index /\ DOMAIN D \in SUBSET Nat /\ D \in [DOMAIN D -> Chunk]
      /\ DOMAIN T \in SUBSET Index /\ DOMAIN T \in SUBSET Nat /\ T \in [DOMAIN T -> TrimType]
  BY <1>1, IndexIs, Zenon DEF Buffers, TrimMaps
<1>3. last \in S /\ \A x \in S : x <= last
  <2> DEFINE b == (MaxSize - 1) \div ChunkSize
             m == Len(chunks) + (IF b < 0 THEN 0 ELSE b) + 1
  <2>1. b \in Int /\ DOMAIN D \subseteq 0 .. b
    BY <1>2, ConstantsAssumption DEF Index
  <2> HIDE DEF b
  <2>2. m \in Nat /\ (\A x \in S : x <= m) /\ S \in SUBSET Nat /\ S # {}
    BY <1>1, <1>2, <2>1
  <2> HIDE DEF m, S
  <2> QED
    BY <2>2, Largest, Zenon
<1>4. /\ last \in Nat /\ Len(chunks) <= last
      /\ \A idx \in DOMAIN D : idx + 1 \in 1 .. last
  <2>1. Len(chunks) \in S /\ \A idx \in DOMAIN D : idx + 1 \in S
    BY Zenon
  <2>2. S \in SUBSET Nat
    BY <1>1, <1>2
  <2> HIDE DEF S, last
  <2>3. last \in Nat /\ Len(chunks) <= last /\ \A idx \in DOMAIN D : idx + 1 <= last
    BY <1>3, <2>1, <2>2, Zenon
  <2> QED
    BY <1>2, <2>3
<1> HIDE DEF last
<1>5. \A idx \in DOMAIN D : /\ Uploaded(1)[idx] \in Ref /\ Uploaded(1)[idx].data = D[idx]
                            /\ D[idx] \in Uploads(1)
  <2>1. \A idx \in DOMAIN D : Uploaded(1)[idx] = Stored(D[idx]) /\ D[idx] \in Chunk
    BY Zenon, <1>2 DEF Uploaded
  <2>2. \A idx \in DOMAIN D : Stored(D[idx]) \in Ref /\ Stored(D[idx]).data = D[idx]
    BY Zenon, <1>1, <2>1, RefIs
  <2> QED
    BY Zenon, <2>1, <2>2 DEF Uploads
<1>6. \A idx \in DOMAIN T :
        /\ idx < Len(chunks)
        /\ Trimmed(1)[idx] \in Ref /\ Trimmed(1)[idx].data \in Uploads(1)
        /\ Trimmed(1)[idx].data =
             SubSeq(chunks[idx + 1].data, 1, Smaller(T[idx].to, Len(chunks[idx + 1].data)))
  <2> SUFFICES ASSUME NEW idx \in DOMAIN T
               PROVE  /\ idx < Len(chunks)
                      /\ Trimmed(1)[idx] \in Ref /\ Trimmed(1)[idx].data \in Uploads(1)
                      /\ Trimmed(1)[idx].data =
                           SubSeq(chunks[idx + 1].data, 1, Smaller(T[idx].to, Len(chunks[idx + 1].data)))
    BY Zenon
  <2> DEFINE s == chunks[idx + 1].data
             m == Smaller(T[idx].to, Len(s))
  <2>1. /\ idx \in Nat /\ idx < Len(chunks) /\ T[idx].ref = chunks[idx + 1] /\ T[idx].to \in Nat
    BY <1>1, <1>2 DEF TrimOf, TrimType
  <2>2. s \in Chunk
    BY <1>1, <2>1, RefIs
  <2>3. Len(s) \in Nat
    BY <2>2, ChunkIs
  <2>4. m \in Int /\ 0 <= m /\ m <= Len(s)
    BY <2>1, <2>3 DEF Smaller
  <2>5. SubSeq(s, 1, m) \in Chunk
    BY Zenon, <2>2, <2>4, Beginning
  <2>6. Trimmed(1)[idx] = Stored(SubSeq(s, 1, m))
    BY Zenon, <2>1 DEF Trimmed
  <2>7. Trimmed(1)[idx] \in Ref /\ Trimmed(1)[idx].data = SubSeq(s, 1, m)
    BY <1>1, <2>5, <2>6, RefIs, Zenon
  <2>8. Trimmed(1)[idx].data \in Uploads(1)
    BY Zenon DEF Uploads
  <2> QED
    BY Zenon, <2>1, <2>7, <2>8
<1>7. new = [k \in 1 .. last |->
               IF k - 1 \in DOMAIN D THEN Uploaded(1)[k - 1]
               ELSE IF k > Len(chunks) THEN Hole
               ELSE IF k - 1 \in DOMAIN T THEN Trimmed(1)[k - 1]
               ELSE chunks[k]]
  BY Zenon DEF Repointed, last
<1> HIDE DEF new, D, T
<1>8. /\ Hole \in Ref /\ Hole.hole
      /\ \A k \in 1 .. Len(chunks) : k \in DOMAIN chunks /\ chunks[k] \in Ref
  BY <1>1, RefIs
<1>9. ASSUME NEW k \in 1 .. last
      PROVE  /\ new[k] \in Ref
             /\ \/ new[k].hole
                \/ k \in DOMAIN chunks /\ new[k] = chunks[k]
                \/ new[k].data \in Uploads(1)
  <2>1. ~(k > Len(chunks)) => k \in 1 .. Len(chunks)
    BY <1>1, <1>4
  <2> QED
    BY Zenon, <1>5, <1>6, <1>7, <1>8, <2>1
<1>10. new \in Seq(Ref) /\ Len(new) = last /\ DOMAIN new = 1 .. last
  BY <1>4, <1>7, <1>9
<1>11. ASSUME NEW i \in Place
       PROVE  ByteAt(new, i) = Shown(D, T, chunks, i)
  <2> DEFINE idx == Idx(i)
             j == Pos(i)
             b == Buf(D, T, chunks, idx)
  <2>1. idx \in Nat /\ j \in 1 .. ChunkSize /\ i \in Nat \ {0}
    BY PlaceIs, ConstantsAssumption DEF Place
  <2>2. ByteAt(new, i) = IF idx >= last THEN 0 ELSE At(new[idx + 1].data, j)
    BY Zenon, <1>4, <1>10, <2>1, ByteIs
  <2>3. b = IF idx \in DOMAIN D THEN D[idx] ELSE IF idx >= Len(chunks) THEN <<>>
            ELSE IF idx \in DOMAIN T
                 THEN SubSeq(chunks[idx + 1].data, 1, Smaller(T[idx].to, Len(chunks[idx + 1].data)))
            ELSE chunks[idx + 1].data
    BY Zenon DEF Buf
  <2>4. At(<<>>, j) = 0 /\ At(Hole.data, j) = 0
    BY <1>1, <2>1, RefIs DEF At
  <2>5. SUFFICES ByteAt(new, i) = At(b, j)
    BY Zenon DEF Shown
  <2> HIDE DEF idx, j, b
  <2>6. idx < last => new[idx + 1] = IF idx \in DOMAIN D THEN Uploaded(1)[idx]
                                     ELSE IF idx + 1 > Len(chunks) THEN Hole
                                     ELSE IF idx \in DOMAIN T THEN Trimmed(1)[idx]
                                     ELSE chunks[idx + 1]
    <3>1. \A k \in 1 .. last, x \in Nat : k - 1 = x =>
            new[k] = IF x \in DOMAIN D THEN Uploaded(1)[x]
                     ELSE IF k > Len(chunks) THEN Hole
                     ELSE IF x \in DOMAIN T THEN Trimmed(1)[x] ELSE chunks[k]
      BY <1>7, Zenon
    <3> DEFINE k == idx + 1
    <3> HIDE DEF k
    <3>2. idx < last => new[k] = IF idx \in DOMAIN D THEN Uploaded(1)[idx]
                                 ELSE IF k > Len(chunks) THEN Hole
                                 ELSE IF idx \in DOMAIN T THEN Trimmed(1)[idx] ELSE chunks[k]
      <4>1. idx < last => k \in 1 .. last /\ k - 1 = idx
        BY <1>4, <2>1 DEF k
      <4> QED
        BY <2>1, <3>1, <4>1, Zenon
    <3> QED
      BY Zenon, <3>2 DEF k
  <2>7. CASE idx \in DOMAIN D
    BY <1>4, <1>5, <2>1, <2>2, <2>3, <2>6, <2>7
  <2>8. CASE idx \notin DOMAIN D /\ idx >= Len(chunks)
    BY <1>1, <1>4, <2>1, <2>2, <2>3, <2>4, <2>6, <2>8
  <2>9. CASE idx \notin DOMAIN D /\ idx < Len(chunks)
    <3>1. idx < last /\ ~(idx >= last) /\ ~(idx + 1 > Len(chunks)) /\ ~(idx >= Len(chunks))
      BY <1>1, <1>4, <2>1, <2>9
    <3> QED
      BY <1>6, <2>2, <2>3, <2>6, <2>9, <3>1, Zenon
  <2> QED
    BY <1>1, <2>1, <2>7, <2>8, <2>9
<1> QED
  BY Zenon, <1>9, <1>10, <1>11 DEF new, D, T

\* The list takes what the flush uploaded, and alone shows what the file holds.
LEMMA FlushRepointFile ==
  ASSUME Inv, NEW p \in Proc, flushRepoint(p), of[p] = 1
  PROVE  FileInv'
<1>1. Only(p)
  BY Zenon, OthersKept DEF Call, Step, StoreFails
<1>2. /\ pc[p] = "repoint" /\ pc'[p] = "reset" /\ of' = of /\ bytes' = bytes
      /\ linked' = linked /\ size' = size /\ open' = open
      /\ unsettled' = [unsettled EXCEPT ![1] = FALSE]
      /\ dirty' = dirty /\ pendingTrim' = pendingTrim /\ used' = used /\ ofmu' = ofmu
      /\ sealed' = sealed
      /\ sealedChanges' = sealedChanges /\ committed' = committed /\ bucket' = bucket
      /\ held' = held /\ sinceCut' = sinceCut
      /\ IF linked THEN chunks' = Repointed(1) /\ nsDirty' = TRUE /\ changes' = changes + 1
         ELSE chunks' = chunks /\ nsDirty' = nsDirty /\ changes' = changes
  BY Zenon DEF flushRepoint, markDirty, histVars, Goto, Inv, ThreadTypes
<1>3. ofmu[1] = p /\ unsettled'[1] = FALSE /\ unsettled'[2] = unsettled[2]
  BY <1>2 DEF Inv, LockInv, Holds, ThreadTypes, OpenFile
<1>4. Phase = "repoint" /\ Phase' = "reset" /\ Charging = 0 /\ Charging' = 0
  BY Zenon, <1>2, <1>3, NobodyFree DEF Phase, Charging
<1>5. AskTypes /\ DataTypes /\ (linked => \A idx \in DOMAIN pendingTrim[1] : TrimOf(idx))
  BY Zenon, <1>4 DEF Inv, TrimInv
<1>6. linked => /\ chunks' \in Seq(Ref)
                /\ \A k \in DOMAIN chunks' :
                     \/ chunks'[k].hole
                     \/ k \in DOMAIN chunks /\ chunks'[k] = chunks[k]
                     \/ chunks'[k].data \in Uploads(1)
                /\ \A i \in Place :
                     ByteAt(chunks', i) = Shown(dirty[1], pendingTrim[1], chunks, i)
  BY <1>2, <1>5, RepointedIs, Zenon
<1>7. DataTypes'
  <2>1. chunks' \in Seq(Ref) /\ nsDirty' \in BOOLEAN /\ changes' \in Nat
    <3>1. chunks \in Seq(Ref) /\ nsDirty \in BOOLEAN /\ changes \in Nat
      BY Zenon, <1>5 DEF DataTypes
    <3>2. changes + 1 \in Nat
      BY <3>1
    <3> QED
      BY <1>2, <1>6, <3>1, <3>2, Zenon
  <2> QED
    BY <1>2, <1>5, <2>1, Zenon DEF DataTypes
<1>8. FreshInv' /\ CleanInv'
  <2>1. pc'[p] # "flight" /\ linked' = linked /\ open' = open
        /\ dirty'[2] = dirty[2] /\ pendingTrim'[2] = pendingTrim[2] /\ bytes'[2] = bytes[2]
    BY Zenon, <1>2
  <2>2. \/ nsDirty' = TRUE /\ changes' = changes + 1
        \/ /\ nsDirty' = nsDirty /\ changes' = changes
           /\ linked' = linked /\ size' = size /\ chunks' = chunks
    BY <1>2, Zenon
  <2>3. sealed' = sealed /\ sealedChanges' = sealedChanges /\ committed' = committed
    BY Zenon, <1>2
  <2>4. FreshInv'
    BY Zenon, <1>3, <2>1, FreshKept
  <2>5. CleanInv'
    BY Zenon, <1>1, <2>1, <2>2, <2>3, CleanKept
  <2> QED
    BY Zenon, <2>4, <2>5
<1>9. ChargeInv'
  <2>1. Phase # "extend"
    BY Zenon, <1>4
  <2> QED
    BY <1>2, <1>4, <2>1, Zenon DEF Inv, ChargeInv
<1>10. StoredInv'
  <2>1. \A q \in Proc \ {p} : pc'[q] = "repoint" => Uploads(of[q])' \subseteq bucket'
    BY Zenon, <1>1, <1>2, <1>3, OtherRepointers
  <2>2. \A q \in Proc : pc'[q] = "repoint" => Uploads(of[q])' \subseteq bucket'
    BY Zenon, <1>2, <2>1
  <2>3. Uploads(1) \subseteq bucket
    BY Zenon, <1>2 DEF Inv, StoredInv
  <2>4. StoredInv
    BY Zenon DEF Inv
  <2>5. \A k \in DOMAIN chunks' : Kept(chunks'[k])
    <3>1. CASE linked
      BY Zenon, <1>6, <2>3, <2>4, <3>1 DEF StoredInv, Kept
    <3>2. CASE ~linked
      BY <1>2, <2>4, <3>2, Zenon DEF StoredInv
    <3> QED
      BY Zenon, <3>1, <3>2
  <2> QED
    BY <1>2, <2>2, <2>4, <2>5, Zenon DEF StoredInv, Kept
<1>11. TrimInv'
  BY Zenon, <1>4 DEF TrimInv
<1>12. \A i : Holding(i)' = Holding(i)
  BY Zenon, <1>2 DEF Holding
<1>13. linked => \A i \in Place : ByteAt(chunks', i) = Holding(i)
  BY Zenon, <1>4, <1>6 DEF Inv, HeldInv
<1>14. HeldInv'
  BY Zenon, <1>2, <1>4, <1>12, <1>13 DEF Inv, HeldInv
<1>15. CutInv'
  <2>1. ASSUME linked, NEW i \in Place
        PROVE  ByteAt(chunks', i) \in (IF i > size THEN {0} ELSE sinceCut[i])
    <3>1. held[i] \in sinceCut[i]
      BY ConstantsAssumption DEF Place, Inv, CutInv
    <3> QED
      BY Zenon, <1>13, <2>1, <3>1 DEF Holding
  <2> QED
    BY <1>2, <2>1, Zenon DEF Inv, CutInv
<1> QED
  BY Zenon, <1>7, <1>8, <1>9, <1>10, <1>11, <1>14, <1>15 DEF FileInv

\* The buffers and the trims of an entry go, and its charge with them.
LEMMA Emptied ==
  ASSUME Inv, Charging = 0,
         dirty' = [dirty EXCEPT ![1] = NoFun], pendingTrim' = [pendingTrim EXCEPT ![1] = NoFun],
         bytes' = [bytes EXCEPT ![1] = 0], used' = used - bytes[1]
  PROVE  /\ dirty' \in [OpenFile -> Buffers] /\ dirty'[1] = NoFun /\ dirty'[2] = dirty[2]
         /\ pendingTrim' \in [OpenFile -> TrimMaps] /\ pendingTrim'[1] = NoFun
         /\ pendingTrim'[2] = pendingTrim[2]
         /\ bytes' \in [OpenFile -> Nat] /\ bytes'[1] = 0 /\ bytes'[2] = bytes[2] /\ used' = 0
         /\ DOMAIN dirty'[1] = {} /\ DOMAIN pendingTrim'[1] = {}
         /\ Cardinality(DOMAIN dirty'[1]) = 0
<1>1. NoFun \in Buffers /\ NoFun \in TrimMaps /\ DOMAIN NoFun = {}
  BY Zenon DEF NoFun, Buffers, TrimMaps
<1>2. DataTypes
  BY Zenon DEF Inv
<1>3. used = bytes[1] /\ bytes[1] \in Nat
  BY <1>2 DEF Inv, ChargeInv, DataTypes, OpenFile
<1>4. dirty' \in [OpenFile -> Buffers] /\ dirty'[1] = NoFun /\ dirty'[2] = dirty[2]
  BY <1>1, <1>2 DEF DataTypes, OpenFile
<1>5. /\ pendingTrim' \in [OpenFile -> TrimMaps] /\ pendingTrim'[1] = NoFun
      /\ pendingTrim'[2] = pendingTrim[2]
  BY <1>1, <1>2 DEF DataTypes, OpenFile
<1>6. bytes' \in [OpenFile -> Nat] /\ bytes'[1] = 0 /\ bytes'[2] = bytes[2] /\ used' = 0
  BY <1>2, <1>3 DEF DataTypes, OpenFile
<1>7. DOMAIN dirty'[1] = {} /\ DOMAIN pendingTrim'[1] = {}
  BY Zenon, <1>1, <1>4, <1>5
<1>8. Cardinality(DOMAIN dirty'[1]) = 0
  BY <1>7, FS_EmptySet, Zenon
<1> QED
  BY Zenon, <1>4, <1>5, <1>6, <1>7, <1>8

\* The flush drops what it has stored.
LEMMA FlushResetFile ==
  ASSUME Inv, NEW p \in Proc, flushReset(p), of[p] = 1
  PROVE  FileInv'
<1>1. Only(p)
  BY Zenon, OthersKept DEF Call, Step, StoreFails
<1>2. /\ pc[p] = "reset" /\ pc'[p] = next[p]
      /\ linked' = linked /\ size' = size /\ chunks' = chunks /\ open' = open
      /\ unsettled' = unsettled
      /\ dirty' = [dirty EXCEPT ![1] = NoFun] /\ pendingTrim' = [pendingTrim EXCEPT ![1] = NoFun]
      /\ bytes' = [bytes EXCEPT ![1] = 0] /\ used' = used - bytes[1]
      /\ ofmu' = [ofmu EXCEPT ![1] = Nobody] /\ nsDirty' = nsDirty /\ changes' = changes
      /\ sealed' = sealed
      /\ sealedChanges' = sealedChanges /\ committed' = committed /\ bucket' = bucket
      /\ held' = held /\ sinceCut' = sinceCut
  BY Zenon DEF flushReset, inodeVars, commitVars, histVars, Goto, Inv, ThreadTypes
<1>3. ofmu[1] = p
  BY ZenonT(60), <1>2 DEF Inv, LockInv, Holds
<1>4. Phase = "reset" /\ Phase' = "free" /\ Charging = 0 /\ Charging' = 0
  BY <1>2, <1>3, NobodyFree DEF Phase, Charging, Inv, ThreadTypes, OpenFile
<1>5. pc'[p] # "flight" /\ pc'[p] # "repoint"
  BY Zenon, <1>2 DEF Inv, LockInv, Flushing
<1>6. /\ dirty' \in [OpenFile -> Buffers] /\ dirty'[1] = NoFun /\ dirty'[2] = dirty[2]
      /\ pendingTrim' \in [OpenFile -> TrimMaps] /\ pendingTrim'[1] = NoFun
      /\ pendingTrim'[2] = pendingTrim[2]
      /\ bytes' \in [OpenFile -> Nat] /\ bytes'[1] = 0 /\ bytes'[2] = bytes[2] /\ used' = 0
      /\ DOMAIN dirty'[1] = {} /\ DOMAIN pendingTrim'[1] = {}
      /\ Cardinality(DOMAIN dirty'[1]) = 0
  BY <1>2, <1>4, Emptied, Zenon
<1>7. DataTypes'
  <2>1. 0 \in Nat
    BY Zenon
  <2> QED
    BY <1>2, <1>6, <2>1, Zenon DEF Inv, DataTypes
<1>8. FreshInv' /\ CleanInv'
  BY Zenon, <1>1, <1>2, <1>5, <1>6, FreshKept, CleanKept
<1>9. ChargeInv'
  BY <1>4, <1>6 DEF ChargeInv
<1>10. StoredInv'
  <2>1. \A q \in Proc \ {p} : pc'[q] = "repoint" => Uploads(of[q])' \subseteq bucket'
    BY Zenon, <1>1, <1>2, <1>3, <1>6, OtherRepointers
  <2>2. \A q \in Proc : pc'[q] = "repoint" => Uploads(of[q])' \subseteq bucket'
    BY Zenon, <1>5, <2>1
  <2> QED
    BY <1>2, <1>6, <2>2, Zenon DEF Inv, StoredInv, Kept
<1>11. TrimInv'
  BY Zenon, <1>6 DEF TrimInv
<1>12. HeldInv'
  <2>1. ASSUME linked, NEW i \in Place
        PROVE  Shown(dirty'[1], pendingTrim'[1], chunks, i) = Holding(i)
    <3>1. ByteAt(chunks, i) = Holding(i)
      BY Zenon, <1>4, <2>1 DEF Inv, HeldInv
    <3>2. Shown(dirty'[1], pendingTrim'[1], chunks, i) = ByteAt(chunks, i)
      BY <1>6, ListShown, Zenon DEF Inv
    <3> QED
      BY Zenon, <3>1, <3>2
  <2>2. \A i : Holding(i)' = Holding(i)
    BY Zenon, <1>2 DEF Holding
  <2> QED
    BY Zenon, <1>2, <1>4, <2>1, <2>2 DEF Inv, HeldInv
<1>13. CutInv'
  BY <1>2, Zenon DEF Inv, CutInv
<1> QED
  BY Zenon, <1>7, <1>8, <1>9, <1>10, <1>11, <1>12, <1>13 DEF FileInv

\* A flush that fails leaves the file as it was, unless it has gone.
LEMMA FlushFailsFile ==
  ASSUME Inv, NEW p \in Proc, flushFails(p), of[p] = 1
  PROVE  FileInv'
<1>1. Only(p)
  BY Zenon, OthersKept DEF Call, Step, StoreFails
<1>2. /\ pc[p] = "flush" /\ pc'[p] = "idle"
      /\ linked' = linked /\ size' = size /\ chunks' = chunks /\ open' = open
      /\ unsettled' = unsettled
      /\ IF linked THEN dirty' = dirty /\ pendingTrim' = pendingTrim /\ bytes' = bytes /\ used' = used
         ELSE /\ dirty' = [dirty EXCEPT ![1] = NoFun] /\ pendingTrim' = [pendingTrim EXCEPT ![1] = NoFun]
              /\ bytes' = [bytes EXCEPT ![1] = 0] /\ used' = used - bytes[1]
      /\ ofmu' = ofmu /\ ofmu[1] = Nobody /\ nsDirty' = nsDirty /\ changes' = changes
      /\ sealed' = sealed
      /\ sealedChanges' = sealedChanges /\ committed' = committed
      /\ \E some \in SUBSET Uploads(1) : bucket' = bucket \cup some
      /\ held' = held /\ sinceCut' = sinceCut
  BY Zenon DEF flushFails, inodeVars, Return, Goto, Inv, ThreadTypes
<1>3. Phase = "free" /\ Phase' = "free" /\ Charging = 0 /\ Charging' = 0
  BY Zenon, <1>2 DEF Phase, Charging
<1>4. DataTypes /\ AskTypes
  BY Zenon DEF Inv
<1>5. bucket \subseteq bucket' /\ bucket' \subseteq Chunk
  BY Zenon, <1>2, <1>4, UploadsAre DEF DataTypes
<1>6. /\ dirty' \in [OpenFile -> Buffers] /\ dirty'[2] = dirty[2]
      /\ pendingTrim' \in [OpenFile -> TrimMaps] /\ pendingTrim'[2] = pendingTrim[2]
      /\ bytes' \in [OpenFile -> Nat] /\ bytes'[2] = bytes[2] /\ used' \in Nat
      /\ ~linked => /\ bytes'[1] = 0 /\ used' = 0 /\ DOMAIN pendingTrim'[1] = {}
                    /\ Cardinality(DOMAIN dirty'[1]) = 0
  <2>1. CASE linked
    BY <1>2, <1>4, <2>1, Zenon DEF DataTypes
  <2>2. CASE ~linked
    <3>1. 0 \in Nat
      BY Zenon
    <3> QED
      BY <1>2, <1>3, <2>2, <3>1, Emptied, Zenon
  <2> QED
    BY Zenon, <2>1, <2>2
<1>7. DataTypes'
  BY <1>2, <1>4, <1>5, <1>6, Zenon DEF DataTypes
<1>8. FreshInv' /\ CleanInv'
  BY Zenon, <1>1, <1>2, <1>6, FreshKept, CleanKept
<1>9. ChargeInv'
  <2>1. CASE linked
    BY <1>2, <1>3, <2>1, Zenon DEF Inv, ChargeInv
  <2>2. CASE ~linked
    BY <1>2, <1>3, <1>6, <2>2 DEF ChargeInv
  <2> QED
    BY Zenon, <2>1, <2>2
<1>10. StoredInv'
  <2>1. \A q \in Proc \ {p} : pc'[q] = "repoint" => Uploads(of[q])' \subseteq bucket'
    BY Zenon, <1>1, <1>2, <1>5, <1>6, OtherRepointers
  <2>2. \A q \in Proc : pc'[q] = "repoint" => Uploads(of[q])' \subseteq bucket'
    BY Zenon, <1>2, <2>1
  <2>3. \A r : Kept(r) => Kept(r)'
    BY Zenon, <1>5 DEF Kept
  <2>4. \A idx \in DOMAIN pendingTrim'[1] : Kept(pendingTrim'[1][idx].ref)
    BY Zenon, <1>2, <1>6 DEF Inv, StoredInv
  <2> QED
    BY <1>2, <2>2, <2>3, <2>4, Zenon DEF Inv, StoredInv
<1>11. TrimInv'
  <2>1. Phase # "reset"
    BY Zenon, <1>3
  <2> QED
    BY <1>2, <2>1, Zenon DEF Inv, TrimInv, TrimOf
<1>12. HeldInv'
  <2>1. \A i : Holding(i)' = Holding(i)
    BY Zenon, <1>2 DEF Holding
  <2> QED
    BY <1>2, <1>3, <2>1, Zenon DEF Inv, HeldInv
<1>13. CutInv'
  BY <1>2, Zenon DEF Inv, CutInv
<1> QED
  BY Zenon, <1>7, <1>8, <1>9, <1>10, <1>11, <1>12, <1>13 DEF FileInv

\* The write finds the file gone: its buffers and the whole charge go.
LEMMA ExtendGoneFile ==
  ASSUME Inv, NEW p \in Proc, bufferExtend(p), of[p] = 1, ~linked
  PROVE  FileInv'
<1>1. Only(p)
  BY Zenon, OthersKept DEF Call, Step, StoreFails
<1>2. /\ pc[p] = "extend" /\ pc'[p] \in {"idle", "commitFile"}
      /\ linked' = linked /\ size' = size /\ chunks' = chunks /\ open' = open
      /\ unsettled' = unsettled /\ dirty' = [dirty EXCEPT ![1] = NoFun] /\ pendingTrim' = pendingTrim
      /\ used' = used - bytes[1] /\ bytes' = [bytes EXCEPT ![1] = 0]
      /\ ofmu' = [ofmu EXCEPT ![1] = Nobody] /\ nsDirty' = nsDirty /\ changes' = changes
      /\ sealed' = sealed
      /\ sealedChanges' = sealedChanges /\ committed' = committed /\ bucket' = bucket
      /\ held' = held /\ sinceCut' = sinceCut
  BY Zenon DEF bufferExtend, histVars, Goto, Inv, ThreadTypes
<1>3. DataTypes /\ ofmu[1] = p
  BY Zenon, <1>2 DEF Inv, LockInv, Holds
<1>4. Phase = "extend" /\ Phase' = "free" /\ Charging = 0 /\ Charging' = 0
  BY <1>2, <1>3, NobodyFree DEF Phase, Charging, Inv, ThreadTypes, OpenFile
<1>5. NoFun \in Buffers /\ DOMAIN NoFun = {}
  BY Zenon DEF NoFun, Buffers
<1>6. /\ dirty' \in [OpenFile -> Buffers] /\ dirty'[1] = NoFun /\ dirty'[2] = dirty[2]
      /\ bytes' \in [OpenFile -> Nat] /\ bytes'[1] = 0 /\ bytes'[2] = bytes[2] /\ used' = 0
  <2>1. used = bytes[1] /\ bytes[1] \in Nat
    BY <1>3, <1>4 DEF Inv, ChargeInv, DataTypes, OpenFile
  <2>2. dirty' \in [OpenFile -> Buffers] /\ dirty'[1] = NoFun /\ dirty'[2] = dirty[2]
    BY <1>2, <1>3, <1>5 DEF DataTypes, OpenFile
  <2> QED
    BY <1>2, <1>3, <2>1, <2>2 DEF DataTypes, OpenFile
<1>7. DataTypes'
  <2>1. 0 \in Nat
    BY Zenon
  <2> QED
    BY <1>2, <1>3, <1>6, <2>1, Zenon DEF DataTypes
<1>8. FreshInv' /\ CleanInv'
  <2>1. pc'[p] # "flight"
    BY Zenon, <1>2
  <2> QED
    BY Zenon, <1>1, <1>2, <1>6, <2>1, FreshKept, CleanKept
<1>9. ChargeInv'
  <2>1. Cardinality(DOMAIN dirty'[1]) = 0
    BY <1>5, <1>6, FS_EmptySet, Zenon
  <2> QED
    BY <1>2, <1>4, <1>6, <2>1 DEF ChargeInv
<1>10. StoredInv'
  <2>1. \A q \in Proc \ {p} : pc'[q] = "repoint" => Uploads(of[q])' \subseteq bucket'
    BY Zenon, <1>1, <1>2, <1>3, <1>6, OtherRepointers
  <2>2. \A q \in Proc : pc'[q] = "repoint" => Uploads(of[q])' \subseteq bucket'
    BY Zenon, <1>2, <2>1
  <2> QED
    BY <1>2, <2>2, Zenon DEF Inv, StoredInv, Kept
<1>11. TrimInv' /\ HeldInv' /\ CutInv'
  BY <1>2, Zenon DEF Inv, TrimInv, HeldInv, CutInv
<1> QED
  BY Zenon, <1>7, <1>8, <1>9, <1>10, <1>11 DEF FileInv

\* The file goes, and with it what its entry is charged for.
LEMMA UnlinkFile ==
  ASSUME Inv, NEW p \in Proc, unlink(p)
  PROVE  FileInv'
<1>1. Only(p)
  BY Zenon, OthersKept DEF Call, Step, StoreFails
<1>2. /\ linked /\ ~linked' /\ size' = size /\ chunks' = chunks /\ open' = 0
      /\ unsettled' = unsettled /\ dirty' = dirty /\ pendingTrim' = pendingTrim
      /\ IF open = 0 THEN used' = used /\ bytes' = bytes
         ELSE used' = used - bytes[open] /\ bytes' = [bytes EXCEPT ![open] = 0]
      /\ ofmu' = ofmu /\ nsDirty' = TRUE /\ changes' = changes + 1
      /\ sealed' = sealed
      /\ sealedChanges' = sealedChanges /\ committed' = committed /\ bucket' = bucket
      /\ held' = Gone /\ sinceCut' = CutHistory(Gone)
      /\ pc[p] = "idle" /\ pc' = pc /\ of' = of /\ charge' = charge
  BY Zenon DEF unlink, Asks, markDirty, Becomes, Gone, threadVars
<1>3. DataTypes /\ AskTypes /\ LocalTypes /\ open \in {0, 1} /\ MaxCalls \in Nat
  BY <1>2 DEF Inv, EntryInv, ThreadTypes, OpenFile, AskTypes
<1>4. Phase' = Phase /\ Charging' = Charging
  BY <1>2, Zenon DEF Phase, Charging
<1>5. bytes[1] \in Nat /\ bytes[2] = 0 /\ used \in Nat /\ used = bytes[1] + Charging
      /\ (open = 0 => bytes[1] = 0)
  BY <1>2, <1>3 DEF Inv, ChargeInv, FreshInv, Untouched, DataTypes, OpenFile
<1>6. bytes' \in [OpenFile -> Nat] /\ bytes'[1] = 0 /\ bytes'[2] = bytes[2] /\ used' = used - bytes[1]
  BY <1>2, <1>3, <1>5 DEF DataTypes, OpenFile
<1>7. Charging \in Nat /\ Charging <= Cardinality(DOMAIN dirty[1])
  <2>1. Charging \in Nat
    BY Zenon, PhaseIs DEF Charging, Inv, LocalTypes, Phase
  <2>2. Cardinality(DOMAIN dirty[1]) \in Nat
    BY <1>3, Indices DEF DataTypes, Buffers, OpenFile
  <2> QED
    BY <1>5, <2>1, <2>2 DEF Inv, ChargeInv
<1>8. held' \in [0 .. MaxSize -> Content] /\ sinceCut' \in [0 .. MaxSize -> SUBSET Content]
  BY <1>2, <1>3, ImageTypes, HistoryTypes, Zenon
<1>9. DataTypes'
  <2>1. used' \in Nat /\ changes' \in Nat /\ nsDirty' \in BOOLEAN
    BY <1>2, <1>5, <1>6, <1>7 DEF Inv, DataTypes
  <2> QED
    BY <1>2, <1>3, <1>6, <1>8, <2>1, Zenon DEF DataTypes
<1>10. FreshInv'
  BY Zenon, <1>2, <1>6 DEF Inv, FreshInv, Untouched
<1>11. CleanInv'
  <2>1. pc'[p] # "flight"
    BY Zenon, <1>2
  <2> QED
    BY Zenon, <1>1, <1>2, <2>1, CleanKept
<1>12. ChargeInv'
  BY <1>2, <1>4, <1>5, <1>6, <1>7 DEF ChargeInv
<1>13. StoredInv'
  <2>1. ASSUME NEW q \in Proc, pc'[q] = "repoint"
        PROVE  Uploads(of[q])' \subseteq bucket'
    <3>1. Uploads(of[q])' = Uploads(of[q])
      BY <1>2, Zenon DEF Uploads, Uploaded, Trimmed
    <3> QED
      BY Zenon, <1>2, <2>1, <3>1 DEF Inv, StoredInv
  <2> QED
    BY <1>2, <2>1, Zenon DEF Inv, StoredInv, Kept
<1>14. TrimInv' /\ HeldInv'
  BY Zenon, <1>2 DEF TrimInv, HeldInv, Gone
<1>15. CutInv'
  BY Zenon, <1>2, Recorded DEF CutInv
<1> QED
  BY Zenon, <1>9, <1>10, <1>11, <1>12, <1>13, <1>14, <1>15 DEF FileInv

-----------------------------------------------------------------------------
(* The invariant holds *)

\* Every step keeps the file's part of the invariant.
LEMMA FileStep ==
  ASSUME Inv, NEW p \in Proc, Call(p) \/ Step(p) \/ StoreFails(p)
  PROVE  FileInv'
<1>1. CASE of[p] = 1
  <2>1. \/ Quiet(p) \/ unlink(p) \/ bufferLock(p) \/ bufferFill(p) \/ bufferCharge(p) \/ bufferExtend(p)
        \/ truncate(p) \/ flushNothing(p) \/ flushUpload(p) \/ flushRepoint(p) \/ flushReset(p)
        \/ seal(p) \/ flight(p) \/ bufferFillFails(p) \/ flushFails(p)
    BY Zenon DEF Call, Step, StoreFails, Quiet
  <2> QED
    BY <1>1, <2>1, QuietFile, UnlinkFile, BufferLockFile, BufferFillFile,
       BufferChargeFile, ExtendFile,
       ExtendGoneFile, RefusedFile, TruncateFile, FlushNothingFile, FlushUploadFile, FlushRepointFile,
       FlushResetFile, SealFile, FlightFile, FillFails, FillsShortFile, FillsNothingFile, FlushFailsFile,
       Zenon
<1>2. CASE of[p] # 1
  <2>1. /\ bufferExtend(p) \/ flushRepoint(p) \/ flushReset(p) => pc[p] \in Holds
        /\ flushNothing(p) \/ flushUpload(p) \/ flushFails(p) => pc[p] = "flush"
    BY ZenonT(60) DEF bufferExtend, flushNothing, flushUpload, flushRepoint, flushReset,
       flushFails, Holds
  <2>2. /\ pc[p] \in Holds => of[p] = 2
        /\ pc[p] = "flush" => of[p] = 2
    BY <1>2 DEF Inv, LockInv, OpenFile
  <2> QED
    BY <2>1, <2>2, QuietFile, UnlinkFile, BufferLockFile, BufferFillFile,
       BufferChargeFile, SecondFile,
       RefusedFile, TruncateFile, SealFile, FlightFile, FillFails, FillsShortFile, FillsNothingFile, ZenonT(60)
       DEF Call, Step, StoreFails, Quiet
<1> QED
  BY Zenon, <1>1, <1>2

\* Every step leaves every commit covered.
LEMMA CoverStep ==
  ASSUME Inv, NEW p \in Proc, Call(p) \/ Step(p) \/ StoreFails(p)
  PROVE  CoverInv'
<1>1. FileInv'
  BY Zenon, FileStep
<1>2. \/ CoverQuiet(p) \/ unlink(p) \/ truncate(p) \/ bufferExtend(p) \/ flushRepoint(p) \/ seal(p)
      \/ flight(p)
  BY Zenon DEF Call, Step, StoreFails, CoverQuiet
<1> QED
  BY Zenon, <1>1, <1>2, QuietCover, UnlinkCover, TruncateCover, ExtendCover, RepointCover,
     SealCover, FlightCover

\* A mounted file satisfies the invariant.
LEMMA InitInv == Init => Inv
<1> SUFFICES ASSUME Init PROVE Inv
  BY Zenon
<1>1. load \in LoadType /\ MaxCalls \in Nat /\ load.calls <= MaxCalls
  BY Zenon, ConstantsAssumption, CallsBound DEF Init, LoadType, Kinds
<1>2. size \in 0 .. MaxSize /\ chunks = ChunksOf(size, 1) /\ MaxSize \in Nat /\ ChunkSize \in Nat \ {0}
  BY Zenon, ConstantsAssumption DEF Init
<1>3. /\ chunks \in Seq(Ref)
      /\ \A i \in Place : ByteAt(chunks, i) \in {0, 1} /\ (i > size => ByteAt(chunks, i) = 0)
  BY <1>1, <1>2, MountedList, Zenon
<1>4. /\ NoFun \in Buffers /\ NoFun \in TrimMaps /\ DOMAIN NoFun = {}
      /\ Cardinality(DOMAIN NoFun) = 0
  <2>1. NoFun \in Buffers /\ NoFun \in TrimMaps /\ DOMAIN NoFun = {}
    BY Zenon DEF NoFun, Buffers, TrimMaps
  <2> QED
    BY <2>1, FS_EmptySet, Zenon
<1>5. Phase = "free" /\ Charging = 0
  BY DEF Init, Phase, Charging, OpenFile
<1>6. ThreadTypes
  BY Zenon DEF Init, ThreadTypes, Label, OpenFile
<1>7. AskTypes
  <2>1. NoCall \in CallType
    BY <1>1, <1>2 DEF NoCall, CallType, Byte
  <2> QED
    BY Zenon, <1>1, <2>1 DEF Init, AskTypes
<1>8. LocalTypes
  <2>1. <<>> \in Seq(Ref) /\ 0 \in Nat /\ NoPromise \in [0 .. MaxSize -> SUBSET Content]
    BY DEF NoPromise
  <2> QED
    BY <2>1, Zenon DEF Init, LocalTypes
<1>9. held = [i \in 0 .. MaxSize |-> IF i > size THEN Absent ELSE IF i = 0 THEN 1 ELSE ByteAt(chunks, i)]
  BY Zenon DEF Init, Image, Inode
<1>10. \A i \in 0 .. MaxSize : /\ held[i] \in Content
                               /\ held[i] = Absent <=> i > size
                               /\ i \in Place => Holding(i) = ByteAt(chunks, i)
  <2> SUFFICES ASSUME NEW i \in 0 .. MaxSize
               PROVE  /\ held[i] \in Content /\ (held[i] = Absent <=> i > size)
                      /\ i \in Place => Holding(i) = ByteAt(chunks, i)
    BY Zenon
  <2>1. held[i] = IF i > size THEN Absent ELSE IF i = 0 THEN 1 ELSE ByteAt(chunks, i)
    BY Zenon, <1>9
  <2>2. i # 0 => i \in Place
    BY <1>2 DEF Place
  <2>3. 0 \in Content /\ 1 \in Content /\ Absent \in Content /\ 0 # Absent /\ 1 # Absent
    BY <1>1 DEF Content, Byte, Absent
  <2>4. i \in Place => i # 0
    BY DEF Place
  <2> QED
    BY <1>3, <2>1, <2>2, <2>3, <2>4, Zenon DEF Holding
<1>11. Inode \in InodeType /\ sealed = Inode /\ committed = Inode
  BY Zenon, <1>2, <1>3 DEF Init, Inode, InodeType
<1>12. \A k \in DOMAIN chunks : chunks[k].data \in bucket /\ chunks[k].data \in Chunk
  BY <1>1, <1>3, RefIs DEF Init
<1>13. DataTypes
  <2>1. bucket \subseteq Chunk
    BY Zenon, <1>12 DEF Init
  <2>2. held \in [0 .. MaxSize -> Content]
    BY Zenon, <1>9, <1>10
  <2>3. sinceCut \in [0 .. MaxSize -> SUBSET Content]
    BY Zenon, <1>10 DEF Init
  <2>4. 0 \in Nat /\ FALSE \in BOOLEAN
    BY Zenon
  <2> QED
    BY <1>2, <1>3, <1>4, <1>11, <2>1, <2>2, <2>3, <2>4, Zenon DEF Init, DataTypes
<1>14. LockInv /\ GateInv /\ EntryInv /\ MarkInv
  BY NobodyFree DEF Init, LockInv, GateInv, EntryInv, MarkInv, Settling, Holds,
     Flushing, OpenFile
<1>15. FreshInv
  BY DEF Init, FreshInv, Untouched, OpenFile
<1>16. CallInv
  BY Zenon DEF Init, CallInv, Called
<1>17. ChargeInv
  BY <1>4, <1>5 DEF Init, ChargeInv, OpenFile
<1>18. StoredInv
  <2>1. sealed.chunks = chunks /\ committed.chunks = chunks
    BY Zenon, <1>11 DEF Inode
  <2>2. DOMAIN pendingTrim[1] = {}
    BY <1>4 DEF Init, OpenFile
  <2> QED
    BY Zenon, <1>12, <2>1, <2>2 DEF Init, StoredInv, Kept
<1>19. TrimInv
  BY <1>4 DEF Init, TrimInv, OpenFile
<1>20. HeldInv
  <2>1. linked /\ held[0] = 1
    BY <1>2, <1>9 DEF Init
  <2>2. dirty[1] = NoFun /\ pendingTrim[1] = NoFun
    BY DEF Init, OpenFile
  <2>3. ASSUME NEW i \in Place
        PROVE  Shown(dirty[1], pendingTrim[1], chunks, i) = Holding(i)
    <3>1. Shown(dirty[1], pendingTrim[1], chunks, i) = ByteAt(chunks, i)
      BY <1>4, <1>13, <2>2, ListShown, Zenon
    <3>2. i \in 0 .. MaxSize
      BY <1>2 DEF Place
    <3> QED
      BY Zenon, <1>10, <3>1, <3>2
  <2> QED
    BY Zenon, <1>5, <1>10, <2>1, <2>3 DEF HeldInv
<1>21. CutInv
  <2>1. \A i \in 0 .. MaxSize : sinceCut[i] = {held[i]}
    BY Zenon DEF Init
  <2>2. ASSUME NEW i \in Place
        PROVE  ByteAt(chunks, i) \in (IF i > size THEN {0} ELSE sinceCut[i])
    <3>1. i \in 0 .. MaxSize
      BY <1>2 DEF Place
    <3>2. Holding(i) = ByteAt(chunks, i) /\ sinceCut[i] = {held[i]}
      BY Zenon, <1>10, <2>1, <3>1
    <3> QED
      BY Zenon, <3>2 DEF Holding
  <2> QED
    BY Zenon, <2>1, <2>2 DEF CutInv
<1>22. CoverInv
  BY Zenon DEF Init, CoverInv, Cover, Active, Flushed, Settling, Flushing
<1>23. CleanInv
  BY Zenon, <1>11 DEF Init, CleanInv
<1> QED
  BY Zenon, <1>6, <1>7, <1>8, <1>13, <1>14, <1>15, <1>16, <1>17, <1>18, <1>19, <1>20,
     <1>21, <1>22, <1>23 DEF Inv

\* Every step of the data path keeps the invariant.
LEMMA NextInv == Inv /\ [Next]_vars => Inv'
<1> SUFFICES ASSUME Inv, [Next]_vars PROVE Inv'
  BY Zenon
<1>1. ASSUME NEW p \in Proc, Call(p) \/ Step(p) \/ StoreFails(p)
      PROVE  Inv'
  <2>1. Control' /\ ThreadTypes' /\ AskTypes' /\ LocalTypes'
    BY Zenon, <1>1, ControlStep, ThreadTypesStep, AskTypesStep, LocalTypesStep
  <2>2. FileInv' /\ CallInv' /\ CoverInv'
    BY <1>1, FileStep, CallStep, CoverStep, Zenon
  <2> QED
    BY Zenon, <2>1, <2>2 DEF Inv, Control, FileInv
<1>2. CASE UNCHANGED vars
  BY <1>2, StutterInv, Zenon
<1> QED
  BY <1>1, <1>2, Zenon DEF Next, Idle

\* The invariant holds in every reachable state of the data path, whatever
\* the sizes, the calls and the threads (Write, SetAttr, Commit, Sync,
\* Remove, flushOpen).
THEOREM InvAlways == Spec => []Inv
  BY InitInv, NextInv, PTL DEF Spec

-----------------------------------------------------------------------------
(* The properties *)

\* seal never finds a marked file, so its refusal never happens (commitGate,
\* settleAll, seal).
THEOREM SealSettledAlways == Spec => []SealSettled
<1>1. Inv => SealSettled
  BY Zenon DEF Inv, MarkInv, SealSettled
<1> QED
  BY <1>1, InvAlways, PTL

\* A Commit, a stable Write or a Sync that returns nil finds in the bucket
\* what the file held at some time since the call, place by place, whichever
\* commit stored it (Commit, Sync, flushAll, commitSealed).
THEOREM CommitCoversAlways == Spec => []CommitCovers
<1>1. Inv => CommitCovers
  BY Zenon DEF Inv, CoverInv, Cover, CoveredBy, CommitCovers
<1> QED
  BY <1>1, InvAlways, PTL

\* The entry FS.open has of a linked file is the first, or none and the first
\* is as it was made.
LEMMA EntryIs ==
  ASSUME Inv, linked, open = 0 \/ ofmu[open] = Nobody
  PROVE  /\ Dirty = dirty[1] /\ Trims = pendingTrim[1] /\ Phase = "free"
         /\ open \in {0, 1}
         /\ open = 0 => Untouched(1)
<1>1. open \in {0, 1} /\ (open = 0 => Untouched(1))
  BY DEF Inv, ThreadTypes, EntryInv, FreshInv, OpenFile
<1>2. Dirty = dirty[1] /\ Trims = pendingTrim[1]
  BY <1>1, Zenon DEF Dirty, Trims, Untouched
<1>3. ofmu[1] = Nobody
  <2>1. CASE open = 1
    BY <2>1
  <2>2. CASE open = 0
    BY <2>2 DEF Inv, ThreadTypes, LockInv, EntryInv, OpenFile
  <2> QED
    BY Zenon, <1>1, <2>1, <2>2
<1> QED
  BY Zenon, <1>1, <1>2, <1>3 DEF Phase

\* The budget counts exactly the buffers FS.open holds when no buffer is
\* being changed, also after writes and flushes that met an unlink
\* (bufferWrite, truncate, flushOpen, dropIfGone, dropOpen).
THEOREM ChargeExactAlways == Spec => []ChargeExact
<1>1. Inv => ChargeExact
  <2> SUFFICES ASSUME Inv, \A o \in OpenFile : ofmu[o] = Nobody
               PROVE  used = (IF open = 0 THEN 0 ELSE Cardinality(DOMAIN dirty[open]))
    BY Zenon DEF ChargeExact
  <2>1. Cardinality(DOMAIN NoFun) = 0
    BY FS_EmptySet, Zenon DEF NoFun
  <2>2. /\ used = bytes[1] /\ (linked => bytes[1] = Cardinality(DOMAIN dirty[1]))
        /\ (~linked => bytes[1] = 0)
    BY DEF Inv, ChargeInv, Charging, Phase, OpenFile, DataTypes
  <2>3. CASE linked
    <3>1. open \in {0, 1} /\ (open = 0 => Untouched(1))
      BY <2>3 DEF Inv, ThreadTypes, EntryInv, FreshInv, OpenFile
    <3> QED
      BY <2>1, <2>2, <2>3, <3>1, Zenon DEF Untouched
  <2>4. CASE ~linked
    <3>1. open \in {0, 2} /\ Untouched(2)
      BY <2>4 DEF Inv, ThreadTypes, EntryInv, FreshInv, OpenFile
    <3> QED
      BY <2>1, <2>2, <2>4, <3>1, Zenon DEF Untouched
  <2> QED
    BY Zenon, <2>3, <2>4
<1> QED
  BY <1>1, InvAlways, PTL

\* Every chunk that the namespace, a sealed or a committed inode or a pending
\* trim names is under chunks/ (flushOpen uploads before it repoints).
THEOREM RefsStoredAlways == Spec => []RefsStored
<1>1. Inv => RefsStored
  <2> SUFFICES ASSUME Inv, NEW r,
                      \/ r \in Range(chunks)
                      \/ r \in Range(sealed.chunks)
                      \/ r \in Range(committed.chunks)
                      \/ \E o \in OpenFile : \E t \in Range(pendingTrim[o]) : r = t.ref
               PROVE  Kept(r)
    BY Zenon DEF RefsStored, Kept
  <2>1. StoredInv /\ DOMAIN pendingTrim[2] = {}
    BY Zenon DEF Inv, FreshInv, Untouched, NoFun
  <2>2. ASSUME NEW o \in OpenFile, NEW t \in Range(pendingTrim[o]), r = t.ref
        PROVE  Kept(r)
    <3>1. PICK idx \in DOMAIN pendingTrim[o] : t = pendingTrim[o][idx]
      BY Zenon DEF Range
    <3>2. o = 1
      BY <2>1, <3>1 DEF OpenFile
    <3> QED
      BY <2>1, <2>2, <3>1, <3>2, Zenon DEF StoredInv
  <2> QED
    BY <2>1, <2>2, Zenon DEF StoredInv, Range
<1> QED
  BY <1>1, InvAlways, PTL

\* A pending trim stands for the chunk of the list at its index, which is not
\* buffered; there is one at most, and its file is marked (truncate,
\* bufferWrite, flushOpen).
THEOREM TrimsSoundAlways == Spec => []TrimsSound
<1>1. Inv => TrimsSound
  <2> SUFFICES ASSUME Inv, linked, open = 0 \/ ofmu[open] = Nobody
               PROVE  /\ Cardinality(DOMAIN Trims) <= 1
                      /\ \A idx \in DOMAIN Trims :
                           /\ idx \notin DOMAIN Dirty
                           /\ idx < Len(chunks) /\ Trims[idx].ref = chunks[idx + 1]
                           /\ unsettled[open]
    BY Zenon DEF TrimsSound
  <2>1. /\ Dirty = dirty[1] /\ Trims = pendingTrim[1] /\ Phase = "free" /\ open \in {0, 1}
        /\ open = 0 => Untouched(1)
    BY EntryIs, Zenon
  <2>2. \A idx \in DOMAIN pendingTrim[1] : TrimOf(idx) /\ unsettled[1]
    BY Zenon, <2>1 DEF Inv, TrimInv
  <2>3. DOMAIN pendingTrim[1] \subseteq Nat
    <3>1. DOMAIN pendingTrim[1] \subseteq Index
      BY DEF Inv, DataTypes, TrimMaps, OpenFile
    <3> QED
      BY Zenon, <3>1, IndexNat
  <2>4. chunks \in Seq(Ref)
    BY Zenon DEF Inv, DataTypes
  <2>5. \A a, b \in DOMAIN pendingTrim[1] : ~(a < b)
    <3> SUFFICES ASSUME NEW a \in DOMAIN pendingTrim[1], NEW b \in DOMAIN pendingTrim[1], a < b
                 PROVE  FALSE
      BY Zenon
    <3>1. a \in Nat /\ b \in Nat /\ b < Len(chunks) /\ b + 1 \in DOMAIN chunks /\ b + 1 > a + 1
      BY <2>2, <2>3, <2>4 DEF TrimOf
    <3> QED
      BY <2>2, <3>1, Zenon DEF TrimOf
  <2>6. \A a, b \in DOMAIN pendingTrim[1] : a = b
    BY <2>3, <2>5
  <2>7. Cardinality(DOMAIN pendingTrim[1]) <= 1
    <3>1. CASE DOMAIN pendingTrim[1] = {}
      BY <3>1, FS_EmptySet
    <3>2. CASE DOMAIN pendingTrim[1] # {}
      <4>1. PICK a : DOMAIN pendingTrim[1] = {a}
        BY <2>6, <3>2, Zenon
      <4>2. Cardinality({a}) = 1
        BY FS_Singleton, Zenon
      <4> QED
        BY <4>1, <4>2
    <3> QED
      BY Zenon, <3>1, <3>2
  <2>8. open = 0 => DOMAIN pendingTrim[1] = {}
    BY Zenon, <2>1 DEF Untouched, NoFun
  <2> QED
    BY <2>1, <2>2, <2>7, <2>8, Zenon DEF TrimOf
<1> QED
  BY <1>1, InvAlways, PTL

\* The variables keep their types, and the budget and the charge stay within
\* the number of chunks a file has.
THEOREM TypesAlways == Spec => []TypeOK
<1>1. Inv => TypeOK
  <2> SUFFICES ASSUME Inv PROVE TypeOK
    BY Zenon
  <2>1. ThreadTypes /\ LocalTypes /\ DataTypes
    BY Zenon DEF Inv
  <2>2. Inode \in InodeType
    BY Zenon, <2>1 DEF ThreadTypes, DataTypes, Inode, InodeType
  <2>3. ASSUME NEW o \in OpenFile
        PROVE  /\ \A idx \in DOMAIN dirty[o] : idx \in Index /\ dirty[o][idx] \in Chunk
               /\ \A idx \in DOMAIN pendingTrim[o] :
                    idx \in Index /\ pendingTrim[o][idx] \in [to : 1 .. ChunkSize - 1, ref : Ref]
    <3>1. dirty[o] \in Buffers /\ pendingTrim[o] \in TrimMaps
      BY Zenon, <2>1 DEF DataTypes
    <3> QED
      BY <3>1 DEF Buffers, TrimMaps, TrimType
  <2>4. /\ Cardinality(Index) \in Nat /\ Cardinality(DOMAIN dirty[1]) \in Nat
        /\ Cardinality(DOMAIN dirty[1]) <= Cardinality(Index)
    <3>1. DOMAIN dirty[1] \subseteq Index
      BY <2>3 DEF OpenFile
    <3> QED
      BY <3>1, Indices, Zenon
  <2>5. Charging \in Nat
    BY <2>1, NobodyFree DEF Charging, Phase, ThreadTypes, LocalTypes, OpenFile
  <2>6. /\ bytes \in [OpenFile -> Nat] /\ used = bytes[1] + Charging /\ bytes[2] = 0
        /\ bytes[1] + Charging <= Cardinality(DOMAIN dirty[1])
    BY Zenon, <2>1 DEF Inv, DataTypes, ChargeInv, FreshInv, Untouched
  <2>7. bytes[1] \in Nat
    BY <2>6 DEF OpenFile
  <2>8. bytes[1] \in 0 .. Cardinality(Index) /\ used \in 0 .. 2 * Cardinality(Index)
    BY <2>4, <2>5, <2>6, <2>7
  <2>9. bytes \in [OpenFile -> 0 .. Cardinality(Index)]
    BY <2>4, <2>6, <2>8 DEF OpenFile
  <2> QED
    BY <2>1, <2>2, <2>3, <2>8, <2>9, Zenon DEF TypeOK, ThreadTypes, LocalTypes, DataTypes
<1> QED
  BY <1>1, InvAlways, PTL

\* Only seal changes the sealed inode.
LEMMA SealedBy ==
  ASSUME NEW p \in Proc, Call(p) \/ Step(p) \/ StoreFails(p), sealed' # sealed
  PROVE  seal(p)
<1>1. CASE Call(p)
  BY ZenonT(60), <1>1 DEF Call, StartWrite, StartTruncate, StartCommit, StartSync,
     unlink, Start, commitVars
<1>2. CASE Step(p) /\ ~seal(p)
  BY <1>2, Zenon DEF Step, getOpen, bufferLock, bufferFill, bufferCharge, bufferExtend,
     gateRLock,
     truncate, flushNothing, flushUpload, flushRepoint, flushReset, commitFile, flushAll,
     syncClean, syncDirty, settleAll, flight, reply, commitVars
<1>3. CASE StoreFails(p)
  BY <1>3, Zenon DEF StoreFails, bufferFillFails, flushFails, flightFails, commitVars
<1> QED
  BY Zenon, <1>1, <1>2, <1>3

\* The inode that seal copies names no byte that was cut off.
LEMMA SealedShows ==
  ASSUME Inv, NEW p \in Proc, pc[p] = "seal", NEW i \in 0 .. MaxSize
  PROVE  Image(Inode)[i] \in sinceCut[i]
<1>1. Image(Inode)[i] = IF ~linked \/ i > size THEN Absent
                        ELSE IF i = 0 THEN 1 ELSE ByteAt(chunks, i)
  BY Zenon DEF Image, Inode
<1>2. held[i] \in sinceCut[i]
  BY Zenon DEF Inv, CutInv
<1>3. CASE ~linked
  BY Zenon, <1>1, <1>2, <1>3 DEF Inv, HeldInv
<1>4. CASE linked
  <2>1. ~unsettled[1]
    BY <1>4 DEF Inv, ThreadTypes, EntryInv, FreshInv, Untouched, MarkInv, OpenFile
  <2>2. (held[i] = Absent <=> i > size) /\ held[0] = 1
    BY Zenon, <1>4 DEF Inv, HeldInv
  <2>3. i # 0 => i \in Place
    BY ConstantsAssumption DEF Place
  <2>4. i \in Place => ByteAt(chunks, i) \in (IF i > size THEN {0} ELSE sinceCut[i])
    BY Zenon, <1>4, <2>1 DEF Inv, CutInv
  <2> QED
    BY <1>1, <1>2, <1>4, <2>2, <2>3, <2>4, Zenon
<1> QED
  BY Zenon, <1>3, <1>4

\* No commit names a byte that a truncate removed, though the chunk it was in
\* may still hold it (truncate, settleAll, seal).
THEOREM NoCutByteIsSealed == Spec => NoCutByteSealed
<1>1. Inv /\ [Next]_vars => [sealed' # sealed =>
                               \A i \in 0 .. MaxSize : Image(sealed')[i] \in sinceCut[i]]_vars
  <2> SUFFICES ASSUME Inv, Next, sealed' # sealed, NEW i \in 0 .. MaxSize
               PROVE  Image(sealed')[i] \in sinceCut[i]
    BY Zenon DEF vars
  <2>1. PICK p \in Proc : Call(p) \/ Step(p) \/ StoreFails(p)
    BY Zenon DEF Next, Idle, vars, commitVars
  <2>2. pc[p] = "seal" /\ sealed' = Inode
    BY <2>1, SealedBy, Zenon DEF seal
  <2> QED
    BY <2>2, SealedShows, Zenon
<1> QED
  BY <1>1, InvAlways, PTL DEF Spec, NoCutByteSealed

\* A Read whose view nobody is changing shows, byte by byte, what the buffers
\* and the list do.
LEMMA ReadIs ==
  ASSUME Inv, linked, open = 0 \/ ofmu[open] = Nobody, NEW off \in 0 .. MaxSize, off < size,
         NEW count \in 0 .. MaxSize
  PROVE  \E n \in Nat : /\ off + n <= size
                        /\ Read(off, count) = [k \in 1 .. n |-> held[off + k]]
<1> DEFINE end == ReadEnd(off, count)
           n == end - off
           from == ReadRefs(off, end)
           at(i) == LET idx == i \div ChunkSize
                        j == (i % ChunkSize) + 1
                        data == IF idx \in DOMAIN Dirty THEN Dirty[idx]
                                ELSE IF idx \in DOMAIN from THEN from[idx] ELSE <<>>
                    IN IF j <= Len(data) THEN data[j] ELSE 0
<1>1. /\ size \in 0 .. MaxSize /\ MaxSize \in Nat /\ ChunkSize \in Nat /\ chunks \in Seq(Ref)
      /\ AskTypes /\ DataTypes
  BY Zenon, ConstantsAssumption DEF Inv, DataTypes
<1>2. end \in Nat /\ n \in Nat /\ end <= size /\ end = off + n
  BY <1>1 DEF ReadEnd
<1>3. Read(off, count) = [k \in 1 .. n |-> at(off + k - 1)]
  <2>1. ~(off >= size)
    BY <1>1
  <2> QED
    BY <2>1, Zenon DEF Read
<1>4. /\ Dirty = dirty[1] /\ Trims = pendingTrim[1] /\ Phase = "free"
  BY Zenon, EntryIs
<1> HIDE DEF end
<1>5. ASSUME NEW k \in 1 .. n
      PROVE  at(off + k - 1) = held[off + k]
  <2> DEFINE i == off + k
             idx == Idx(i)
             j == Pos(i)
             data == IF idx \in DOMAIN Dirty THEN Dirty[idx]
                     ELSE IF idx \in DOMAIN from THEN from[idx] ELSE <<>>
             buf == Buf(dirty[1], pendingTrim[1], chunks, idx)
  <2>1. i \in Place /\ i \in Nat \ {0} /\ i <= size /\ off + k - 1 = i - 1 /\ off < i /\ i <= off + n
    BY <1>1, <1>2 DEF Place
  <2>2. at(off + k - 1) = IF j <= Len(data) THEN data[j] ELSE 0
    BY <2>1, Zenon DEF Idx, Pos
  <2>3. /\ idx \in Nat /\ j \in 1 .. ChunkSize /\ idx * ChunkSize \in Nat
        /\ i = idx * ChunkSize + j
    BY Zenon, <2>1, PlaceIs
  <2> HIDE DEF i, idx, j
  <2>4. idx * ChunkSize < off + n /\ off < idx * ChunkSize + ChunkSize
    BY <1>1, <1>2, <2>1, <2>3
  <2>5. n \in Nat \ {0} /\ off \in Nat
    BY <1>1, <1>2
  <2>6. idx \in off \div ChunkSize .. (end - 1) \div ChunkSize
    <3>1. idx \in off \div ChunkSize .. (off + n - 1) \div ChunkSize
      BY <2>3, <2>4, <2>5, Touched, Zenon
    <3>2. end - 1 = off + n - 1
      BY <1>2
    <3> QED
      BY <3>1, <3>2, Zenon
  <2>7. idx \in DOMAIN from <=> idx < Len(chunks) /\ idx \notin DOMAIN Dirty /\ ~chunks[idx + 1].hole
    BY <2>6, Zenon DEF ReadRefs
  <2>8. idx \in DOMAIN from =>
          from[idx] = IF idx \in DOMAIN Trims
                      THEN SubSeq(chunks[idx + 1].data, 1,
                                  Smaller(Trims[idx].to, Len(chunks[idx + 1].data)))
                      ELSE chunks[idx + 1].data
    BY Zenon DEF ReadRefs
  <2> HIDE DEF from
  <2>9. buf \in Chunk /\ Len(buf) \in 0 .. ChunkSize
    BY <1>1, <2>3, BufIs, ChunkIs, Zenon
  <2>10. (IF j <= Len(data) THEN data[j] ELSE 0) = At(buf, j)
    <3>1. Len(chunks) \in Nat /\ (idx < Len(chunks) => idx + 1 \in DOMAIN chunks)
      BY <1>1, <2>3
    <3>2. CASE idx \in DOMAIN dirty[1] \/ idx \in DOMAIN from
      <4>1. data = buf
        BY <1>4, <2>3, <2>7, <2>8, <3>1, <3>2 DEF Buf
      <4> HIDE DEF data, buf
      <4> QED
        BY <2>3, <2>9, <4>1 DEF At
    <3>3. CASE idx \notin DOMAIN dirty[1] /\ idx \notin DOMAIN from
      <4>1. data = <<>>
        BY Zenon, <1>4, <3>3
      <4>2. ~(j <= Len(data))
        BY <2>3, <4>1
      <4>3. At(buf, j) = 0
        <5>1. CASE idx >= Len(chunks)
          BY <2>3, <3>3, <5>1 DEF Buf, At
        <5>2. CASE ~(idx >= Len(chunks))
          <6>1. idx < Len(chunks) /\ chunks[idx + 1].hole /\ chunks[idx + 1] \in Ref
            BY <1>1, <1>4, <2>3, <2>7, <3>1, <3>3, <5>2
          <6>2. idx \notin DOMAIN pendingTrim[1]
            BY Zenon, <1>4, <6>1 DEF Inv, TrimInv, TrimOf
          <6>3. buf = chunks[idx + 1].data
            BY <3>3, <5>2, <6>2, Zenon DEF Buf
          <6>4. buf = Hole.data /\ Len(Hole.data) = ChunkSize /\ Hole.data[j] = 0
            BY Zenon, <1>1, <2>3, <6>1, <6>3, RefIs DEF AskTypes
          <6> HIDE DEF buf
          <6> QED
            BY Zenon, <1>1, <2>3, <6>4 DEF At
        <5> QED
          BY Zenon, <5>1, <5>2
      <4> QED
        BY <4>2, <4>3, Zenon
    <3> QED
      BY Zenon, <3>2, <3>3
  <2>11. At(buf, j) = held[i]
    <3>1. Shown(dirty[1], pendingTrim[1], chunks, i) = Holding(i)
      BY Zenon, <1>4, <2>1 DEF Inv, HeldInv
    <3>2. Holding(i) = held[i]
      BY <1>1, <2>1 DEF Holding
    <3> QED
      BY <3>1, <3>2, Zenon DEF Shown, idx, j
  <2> QED
    BY Zenon, <2>2, <2>10, <2>11 DEF i
<1> HIDE DEF at, n
<1>6. [k \in 1 .. n |-> at(off + k - 1)] = [k \in 1 .. n |-> held[off + k]]
  BY <1>5, Zenon
<1>7. Read(off, count) = [k \in 1 .. n |-> held[off + k]]
  BY <1>3, <1>6, Zenon
<1>8. n \in Nat /\ off + n <= size
  BY Zenon, <1>2
<1> QED
  BY <1>7, <1>8, Zenon

\* A Read returns, for every offset and count, exactly the bytes that the
\* writes and truncates before it left (Read, readBuffered, bufferWrite,
\* truncate, flushOpen).
THEOREM ReadsHeldAlways == Spec => []ReadsHeld
<1>1. Inv => ReadsHeld
  <2> SUFFICES ASSUME Inv, linked, open = 0 \/ ofmu[open] = Nobody
               PROVE  /\ \A off \in 0 .. MaxSize, count \in 0 .. MaxSize :
                           Read(off, count) = [k \in 1 .. Len(Read(off, count)) |-> held[off + k]]
                      /\ \A off \in 0 .. MaxSize : (held[off] = Absent) <=> off > size
    BY Zenon DEF ReadsHeld
  <2>1. ASSUME NEW off \in 0 .. MaxSize, NEW count \in 0 .. MaxSize
        PROVE  Read(off, count) = [k \in 1 .. Len(Read(off, count)) |-> held[off + k]]
    <3>1. CASE off >= size
      <4>1. Read(off, count) = <<>>
        BY <3>1, Zenon DEF Read
      <4> QED
        BY <4>1
    <3>2. CASE ~(off >= size)
      <4>1. off < size
        BY <3>2 DEF Inv, DataTypes
      <4>2. PICK n \in Nat : Read(off, count) = [k \in 1 .. n |-> held[off + k]]
        BY <4>1, ReadIs, Zenon
      <4>3. Len([k \in 1 .. n |-> held[off + k]]) = n
        OBVIOUS
      <4> QED
        BY <4>2, <4>3, Zenon
    <3> QED
      BY Zenon, <3>1, <3>2
  <2> QED
    BY <2>1, Zenon DEF Inv, HeldInv
<1> QED
  BY <1>1, InvAlways, PTL
=============================================================================
