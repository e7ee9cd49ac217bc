---------------------------- MODULE FileDataInv -----------------------------
(***************************************************************************)
(* The inductive invariant of FileData. What the data path promises (a     *)
(* Read returns what was written, a commit stores it, the budget counts    *)
(* it) is not inductive: it holds because of who holds openFile.mu,        *)
(* commitMu and the gate at each label, what a thread between two labels   *)
(* still has to do to the buffers, the chunk list and the budget, and what *)
(* each call in progress can rely on.                                      *)
(***************************************************************************)
EXTENDS FileData

-----------------------------------------------------------------------------
(* Arithmetic of chunks.  Place i of a file is position Pos(i) of the index  *)
(* Idx(i).                                                                   *)

Idx(i) == (i - 1) \div ChunkSize
Pos(i) == ((i - 1) % ChunkSize) + 1

-----------------------------------------------------------------------------
(* The invariant *)

Kinds == {"write", "stableWrite", "truncate", "commit", "sync", "unlink"}
LoadType == [kinds : SUBSET Kinds, ranges : SUBSET ((0 .. MaxSize - 1) \X (Nat \ {0})),
             sizes : SUBSET (0 .. MaxSize), threads : Nat, calls : Nat]
CallType == [kind : Kinds \cup {"none"}, off : 0 .. MaxSize, len : Nat, val : Byte]
Buffers == UNION {[S -> Chunk] : S \in SUBSET Index}
TrimType == [to : 1 .. ChunkSize - 1, ref : Ref]
TrimMaps == UNION {[S -> TrimType] : S \in SUBSET Index}
Content == Byte \cup {Absent}

\* The types of a thread's own variables and of the locks.
ThreadTypes ==
  /\ pc \in [Proc -> Label]
  /\ of \in [Proc -> {0} \cup OpenFile]
  /\ next \in [Proc -> {"idle", "flushAll", "commitMu", "seal"}]
  /\ ofmu \in [OpenFile -> Proc \cup {Nobody}]
  /\ commitMu \in Proc \cup {Nobody}
  /\ gateWriter \in {"free", "waiting", "held"}
  /\ gateReaders \subseteq Proc
  /\ linked \in BOOLEAN
  /\ open \in {0} \cup OpenFile
  /\ unsettled \in [OpenFile -> BOOLEAN]

\* The types of what clients ask for.
AskTypes ==
  /\ call \in [Proc -> CallType]
  /\ load \in LoadType
  /\ MaxCalls \in Nat /\ load.calls <= MaxCalls

\* The types of what a thread carries from one hold to the next.
LocalTypes ==
  /\ refs \in [Proc -> Seq(Ref)]
  /\ charge \in [Proc -> Nat]
  /\ taken \in [Proc -> Nat]
  /\ sinceCall \in [Proc -> [0 .. MaxSize -> SUBSET Content]]

\* The types of the file's data.
DataTypes ==
  /\ size \in 0 .. MaxSize
  /\ chunks \in Seq(Ref)
  /\ dirty \in [OpenFile -> Buffers]
  /\ pendingTrim \in [OpenFile -> TrimMaps]
  /\ bytes \in [OpenFile -> Nat]
  /\ used \in Nat
  /\ nsDirty \in BOOLEAN /\ changes \in Nat /\ sealedChanges \in Nat
  /\ sealed \in InodeType /\ committed \in InodeType
  /\ bucket \subseteq Chunk
  /\ held \in [0 .. MaxSize -> Content]
  /\ sinceCut \in [0 .. MaxSize -> SUBSET Content]

Writes == {"write", "stableWrite"}
Holds == {"fill", "charge", "extend", "repoint", "reset"}
Flushing == {"flush", "repoint", "reset"}
Settling(p) == pc[p] \in Flushing /\ next[p] = "seal"

\* Who holds an openFile's lock, and what each label is reached with.
LockInv ==
  \A p \in Proc :
    /\ pc[p] \in Holds => of[p] \in OpenFile /\ ofmu[of[p]] = p
    /\ pc[p] \in {"lock", "flush"} => of[p] \in OpenFile
    /\ \A o \in OpenFile : ofmu[o] = p => pc[p] \in Holds /\ of[p] = o
    /\ pc[p] \in {"getOpen", "lock"} => call[p].kind \in Writes \cup {"truncate"}
    /\ pc[p] = "gate" => call[p].kind = "truncate"
    /\ pc[p] \in {"fill", "charge", "extend"} => call[p].kind \in Writes
    /\ pc[p] \in {"fill", "charge"} => of[p] = 1
    /\ pc[p] \in Flushing => next[p] \in {"flushAll", "commitMu", "seal"}

\* Who holds commitMu and the gate: a Sync from its gateLock on, and the
\* truncates that passed it.
GateInv ==
  /\ \A p \in Proc :
       /\ p \in gateReaders <=> pc[p] \in {"getOpen", "lock"} /\ call[p].kind = "truncate"
       /\ commitMu = p <=> pc[p] \in {"gateLock", "seal", "flight"} \/ Settling(p)
       /\ pc[p] = "gateLock" => gateWriter = "waiting"
       /\ pc[p] = "flight" => gateWriter = "free"
       /\ pc[p] = "seal" \/ Settling(p) => gateWriter = "held"
  /\ commitMu = Nobody => gateWriter = "free"
  /\ gateWriter = "held" => gateReaders = {}

\* The entry of the file is made while it is linked and goes with it; the one
\* of a getOpen after the unlink is the second.
EntryInv ==
  /\ open = 1 => linked
  /\ open = 2 => ~linked
  /\ \A p \in Proc : (of[p] = 1 => open = 1 \/ ~linked) /\ (of[p] = 2 => open = 2)

Untouched(o) ==
  dirty[o] = NoFun /\ pendingTrim[o] = NoFun /\ unsettled[o] = FALSE /\ bytes[o] = 0

\* The second entry is never filled, and the first not before it is made.
FreshInv ==
  /\ Untouched(2)
  /\ linked /\ open = 0 => Untouched(1)

\* Between the settle pass's flush and the seal no file is marked.
MarkInv ==
  \A p \in Proc :
    /\ pc[p] = "seal" \/ (pc[p] = "reset" /\ Settling(p)) => ~(open # 0 /\ unsettled[open])
    /\ Settling(p) /\ open # 0 /\ unsettled[open] => of[p] = open

\* A write lies in the file's limits, its list is the inode's, and what it has
\* taken is a part of it.
Called(p) ==
  /\ pc[p] = "fill" => refs[p] = chunks
  /\ pc[p] \in {"getOpen", "lock", "fill", "charge", "extend"} /\ call[p].kind \in Writes =>
       call[p].len \in Nat \ {0} /\ call[p].off + call[p].len <= MaxSize
  /\ pc[p] \in {"charge", "extend"} => taken[p] \in 1 .. call[p].len
CallInv == \A p \in Proc : Called(p)

\* The label of the holder of the file's openFile.mu.
Phase == IF ofmu[1] = Nobody THEN "free" ELSE pc[ofmu[1]]

\* What is charged to the budget and not yet to the file.
Charging == IF Phase = "charge" THEN charge[ofmu[1]] ELSE 0

\* The budget counts the file's charge and the one on its way, which count
\* its buffers; an unlinked file has none left but under a late write.
ChargeInv ==
  /\ used = bytes[1] + Charging
  /\ bytes[1] + Charging <= Cardinality(DOMAIN dirty[1])
  /\ linked => bytes[1] + Charging = Cardinality(DOMAIN dirty[1])
  /\ ~linked /\ Phase # "extend" => bytes[1] = 0

\* A reference's contents are under chunks/.
Kept(r) == r.hole \/ r.data \in bucket

\* Every reference is kept, and what a flush is about to point at is too.
StoredInv ==
  /\ \A k \in DOMAIN chunks : Kept(chunks[k])
  /\ \A k \in DOMAIN sealed.chunks : Kept(sealed.chunks[k])
  /\ \A k \in DOMAIN committed.chunks : Kept(committed.chunks[k])
  /\ \A idx \in DOMAIN pendingTrim[1] : Kept(pendingTrim[1][idx].ref)
  /\ \A p \in Proc : pc[p] = "repoint" => Uploads(of[p]) \subseteq bucket

\* A trim stands for a stored chunk of the list that is not buffered and has
\* only holes after it.
TrimOf(idx) ==
  /\ idx \notin DOMAIN dirty[1]
  /\ idx < Len(chunks)
  /\ pendingTrim[1][idx].ref = chunks[idx + 1]
  /\ ~chunks[idx + 1].hole
  /\ \A k \in DOMAIN chunks : k > idx + 1 => chunks[k].hole
TrimInv ==
  linked /\ Phase # "reset" =>
    /\ \A idx \in DOMAIN pendingTrim[1] : TrimOf(idx)
    /\ DOMAIN pendingTrim[1] # {} => unsettled[1]

\* The contents of index idx behind the buffers d and the trims t of a list.
Buf(d, t, cs, idx) ==
  IF idx \in DOMAIN d THEN d[idx]
  ELSE IF idx >= Len(cs) THEN <<>>
  ELSE IF idx \in DOMAIN t
       THEN SubSeq(cs[idx + 1].data, 1, Smaller(t[idx].to, Len(cs[idx + 1].data)))
  ELSE cs[idx + 1].data
At(s, j) == IF j > Len(s) THEN 0 ELSE s[j]
Shown(d, t, cs, i) == At(Buf(d, t, cs, Idx(i)), Pos(i))

\* What the file shows at place i once nobody holds its lock.
Holding(i) == IF i > size THEN 0 ELSE held[i]
Written(p, i) == call[p].off < i /\ i <= call[p].off + taken[p]
Place == 1 .. MaxSize

\* The first n bytes of thread p's write end it, or end at a chunk.
Whole(p, n) ==
  /\ n \in 1 .. call[p].len
  /\ n = call[p].len \/ \E k \in Nat : call[p].off + n = k * ChunkSize

\* The buffers, the trims and the list show what the file holds, and zeros
\* past its end, a write in its hold also its own bytes; once a flush has
\* repointed, the list alone does.
HeldInv ==
  /\ ~linked => \A i \in 0 .. MaxSize : held[i] = Absent
  /\ linked =>
       /\ \A i \in 0 .. MaxSize : held[i] = Absent <=> i > size
       /\ held[0] = 1
       /\ Phase \in {"free", "fill", "repoint"} =>
            \A i \in Place : Shown(dirty[1], pendingTrim[1], chunks, i) = Holding(i)
       /\ Phase \in {"charge", "extend"} =>
            \A i \in Place : Shown(dirty[1], pendingTrim[1], chunks, i) =
              IF Written(ofmu[1], i) THEN call[ofmu[1]].val ELSE Holding(i)
       /\ Phase = "reset" => \A i \in Place : ByteAt(chunks, i) = Holding(i)

\* Place i of the list shows something place i may.
Within(i, may) == ByteAt(chunks, i) \in may \cup (IF i > size THEN {0} ELSE {})

\* Unless a file is marked, its list names no byte that was cut off.
CutInv ==
  /\ \A i \in 0 .. MaxSize : held[i] \in sinceCut[i]
  /\ linked /\ ~unsettled[1] =>
       \A i \in Place : ByteAt(chunks, i) \in (IF i > size THEN {0} ELSE sinceCut[i])

\* A thread on its way to commit.
Active(p) == pc[p] \in {"commitFile", "flushAll", "commitMu", "gateLock", "seal",
                        "flight", "acked"} \cup Flushing

\* It has flushed the file.
Flushed(p) ==
  pc[p] \in {"commitMu", "gateLock", "seal", "flight", "acked", "reset"} \/ Settling(p)

CoveredBy(f, p) == \A i \in 0 .. MaxSize : Image(f)[i] \in sinceCall[p][i]

\* What a commit covers: the file's contents since the call, the list once it
\* is flushed, the sealed inode in flight and the committed one at its end,
\* which a later flight may replace.
Cover(p) ==
  /\ Active(p) => \A i \in 0 .. MaxSize : held[i] \in sinceCall[p][i]
  /\ Flushed(p) /\ linked => \A i \in Place : Within(i, sinceCall[p][i])
  /\ pc[p] = "flight" => CoveredBy(sealed, p)
  /\ pc[p] = "acked" =>
       /\ CoveredBy(committed, p)
       /\ (\E q \in Proc : pc[q] = "flight") => CoveredBy(sealed, p)
CoverInv == \A p \in Proc : Cover(p)

\* A namespace that is clean is the committed one, and one that has not changed
\* since the seal is the sealed one.
CleanInv ==
  /\ ~nsDirty => committed = Inode
  /\ (\E q \in Proc : pc[q] = "flight") =>
       sealedChanges <= changes /\ (sealedChanges = changes => sealed = Inode)

Control == LockInv /\ GateInv /\ EntryInv /\ MarkInv

Inv ==
  /\ ThreadTypes /\ AskTypes /\ LocalTypes /\ DataTypes
  /\ LockInv /\ GateInv /\ EntryInv /\ FreshInv /\ MarkInv /\ CallInv
  /\ ChargeInv /\ StoredInv /\ TrimInv /\ HeldInv /\ CutInv
  /\ CoverInv /\ CleanInv

=============================================================================
