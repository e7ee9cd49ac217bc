--------------------------- MODULE ChunkStoreProofs ---------------------------
(***************************************************************************)
(* CachedAsNamed, LoadsRight and KnownStored (module ChunkStore) hold for  *)
(* every set of chunks, files and goroutines, every size of the cache and  *)
(* every number of faults, as long as what is fetched is verified.  That   *)
(* the cache's charge is exact rests on a fold over its entries and is     *)
(* left to TLC.                                                            *)
(***************************************************************************)
EXTENDS ChunkStore, FiniteSetTheorems, TLAPS

\* The entries the cache may hold: a copy of the contents the key names.
Entries == {Entry(c, Slice(c, Own)) : c \in Chunk}

Slices == [bytes : Chunk \cup {None, Rot}, array : {Own}]
Ops == [kind : {"none", "read", "write", "flush"}, file : File \cup {None},
        want : Chunk \cup {None}, new : Chunk \cup {None}, got : Slices, tries : Nat]
Loading == {"get", "Get", "verify", "loaded"}
Storing == {"isKnown", "Head", "found", "Put", "stored"}

Types ==
  /\ objects \in [Chunk -> Chunk \cup {Absent, Rot}]
  /\ late \subseteq Chunk
  /\ knownChunks \subseteq Chunk
  /\ cache = [maxBytes |-> cache.maxBytes, ll |-> cache.ll, curBytes |-> cache.curBytes]
  /\ cache.ll \in Seq(Entries)
  /\ ref \in [File -> Chunk \cup {None}]
  /\ dirty \in [File -> Chunk \cup {None}]
  /\ mu \in [File -> Proc \cup {Nobody}]
  /\ pc \in [Proc -> {"idle"} \cup Loading \cup Storing]
  /\ op \in [Proc -> Ops]

\* A load knows what it wants; a write or a flush holds its file, and so the
\* buffer that a flush uploads stays what its hash was taken of.
Calls ==
  \A p \in Proc :
    /\ pc[p] \in Loading =>
         /\ op[p].kind \in {"read", "write"} /\ op[p].want \in Chunk
         /\ op[p].kind = "write" =>
              op[p].file \in File /\ op[p].new \in Chunk /\ mu[op[p].file] = p
    /\ pc[p] \in Storing =>
         /\ op[p].file \in File /\ mu[op[p].file] = p
         /\ op[p].want \in Chunk /\ op[p].want = dirty[op[p].file]

\* What a goroutine has read of the bucket still is there.
Stored ==
  /\ \A c \in knownChunks : objects[c] # Absent
  /\ \A f \in File : ref[f] # None => objects[ref[f]] # Absent
  /\ \A p \in Proc : pc[p] \in {"verify", "found", "stored"} => objects[op[p].want] # Absent

IInv == Types /\ Calls /\ LoadsRight /\ Stored

-----------------------------------------------------------------------------
USE ConstantsAssumption
USE DEF fileVars, Goto

\* Moving an entry leaves the cache a sequence of entries that hold what they
\* name.
LEMMA MovedEntries ==
  ASSUME Types, NEW i \in DOMAIN cache.ll
  PROVE MoveToFront(i) \in Seq(Entries)
<1>1. RemoveAt(cache.ll, i) \in Seq(Entries)
  BY DEF Types, RemoveAt
<1>2. cache.ll[i] \in Entries
  BY DEF Types
<1> QED
  BY <1>1, <1>2 DEF MoveToFront

\* Dropping entries at the back keeps the others.
LEMMA KeptEntries ==
  ASSUME NEW entries \in Seq(Entries), NEW bytes
  PROVE Kept(entries, bytes) \in Seq(Entries)
<1> DEFINE Fitting == {n \in DOMAIN entries :
      bytes - TotalSize(SubSeq(entries, n + 1, Len(entries))) <= cache.maxBytes}
<1>1. DOMAIN entries = 1 .. Len(entries) /\ Len(entries) \in Nat
  OBVIOUS
<1>2. /\ IsFiniteSet(1 .. Len(entries))
      /\ Cardinality(1 .. Len(entries)) = IF 1 > Len(entries) THEN 0 ELSE Len(entries) - 1 + 1
  <2> HIDE DEF Fitting
  <2> QED
    BY SMTT(60), <1>1, FS_Interval
<1>3. Fitting \in SUBSET (1 .. Len(entries))
  BY <1>1
<1> HIDE DEF Fitting
<1>4. IsFiniteSet(Fitting) /\ Cardinality(Fitting) <= Cardinality(1 .. Len(entries))
  BY Zenon, <1>2, <1>3, FS_Subset
<1>5. Cardinality(Fitting) \in Nat
  BY <1>4, FS_CardinalityType
<1>6. Cardinality(Fitting) \in 0 .. Len(entries)
  BY <1>1, <1>2, <1>4, <1>5
<1>7. SubSeq(entries, 1, Cardinality(Fitting)) \in Seq(Entries)
  BY <1>6
<1> QED
  BY <1>7 DEF Fitting, Kept

\* put leaves such a cache if the slice holds what the hash names.
LEMMA PutEntries ==
  ASSUME Types, NEW hash \in Chunk, NEW data, data.bytes = hash, put(hash, data)
  PROVE /\ cache'.ll \in Seq(Entries)
        /\ cache' = [maxBytes |-> cache'.maxBytes, ll |-> cache'.ll,
                     curBytes |-> cache'.curBytes]
<1>1. CASE Size[hash] > cache.maxBytes
  BY <1>1 DEF put, Types
<1>2. CASE ~(Size[hash] > cache.maxBytes) /\ Cached(hash) # {}
  <2>1. PICK i \in DOMAIN cache.ll : get(hash, i)
    BY <1>2 DEF put
  <2>2. MoveToFront(i) \in Seq(Entries)
    BY MovedEntries
  <2> QED
    BY Zenon, <2>1, <2>2 DEF get, Types
<1>3. CASE ~(Size[hash] > cache.maxBytes) /\ Cached(hash) = {}
  <2> DEFINE entry == Entry(hash, Slice(data.bytes, Own))
             entries == <<entry>> \o cache.ll
             bytes == cache.curBytes + Size[entry.hash]
             kept == Kept(entries, bytes)
  <2>1. entry \in Entries
    BY DEF Entries
  <2>2. entries \in Seq(Entries)
    BY <2>1 DEF Types
  <2>3. kept \in Seq(Entries)
    BY Zenon, <2>2, KeptEntries
  <2>4. cache' = [cache EXCEPT !.ll = kept,
                    !.curBytes = bytes - (TotalSize(entries) - TotalSize(kept))]
    BY <1>3 DEF put, Insert
  <2> HIDE DEF entry, entries, bytes, kept
  <2> QED
    BY Zenon, <2>3, <2>4 DEF Types
<1> QED
  BY <1>1, <1>2, <1>3

\* An entry is in an array of its own.
LEMMA EntryIsOwn ==
  ASSUME NEW e \in Entries
  PROVE e.data.array = Own /\ Entry(e.hash, e.data) = e
<1>1. PICK c \in Chunk : e = Entry(c, Slice(c, Own))
  BY DEF Entries
<1> QED
  BY <1>1 DEF Entry, Slice

\* Only the fields that loads and retries change are written.
LEMMA GotTypes ==
  ASSUME op \in [Proc -> Ops], NEW p \in Proc, NEW s \in Slices
  PROVE [op EXCEPT ![p].got = s] \in [Proc -> Ops]
  BY DEF Ops

\* The same for the count of attempts.
LEMMA TriesTypes ==
  ASSUME op \in [Proc -> Ops], NEW p \in Proc, NEW n \in Nat
  PROVE [op EXCEPT ![p].tries = n] \in [Proc -> Ops]
  BY DEF Ops

\* A call that fails leaves well-typed state.
LEMMA FailsTypes ==
  ASSUME Types, NEW p \in Proc, Fails(p),
         objects' \in [Chunk -> Chunk \cup {Absent, Rot}], late' \subseteq Chunk
  PROVE Types'
<1>1. NoOp \in Ops
  BY DEF NoOp, Op, Ops, NoSlice, Slice, Slices
<1> QED
  BY <1>1 DEF Types, Fails, End, Unlock

\* A Read asks for a chunk that a file names.
LEMMA ReadPreserves ==
  ASSUME IInv, NEW p \in Proc, NEW f \in File, Read(p, f)
  PROVE IInv'
<1>1. Types'
  BY DEF IInv, Types, Calls, Ops, Slices, Slice, NoSlice, Loading, Storing, Read,
         Begin, Op
<1>2. Calls'
  BY DEF IInv, Types, Calls, Loading, Storing, Read, Begin, Op
<1>3. LoadsRight'
  BY DEF IInv, Types, LoadsRight, Read, Begin, Op
<1>4. Stored'
  BY DEF IInv, Types, Stored, Read, Begin, Op
<1> QED
  BY <1>1, <1>2, <1>3, <1>4 DEF IInv

\* A write makes a buffer, or takes the file and loads its chunk.
LEMMA BufferWriteNewPreserves ==
  ASSUME IInv, NEW p \in Proc, NEW f \in File, NEW new \in Chunk, bufferWriteNew(p, f, new)
  PROVE IInv'
<1>1. Types'
  <2>1. dirty' \in [File -> Chunk \cup {None}] /\ mu' \in [File -> Proc \cup {Nobody}]
    BY DEF IInv, Types, bufferWriteNew
  <2>2. pc' \in [Proc -> {"idle"} \cup Loading \cup Storing]
    BY SMTT(60) DEF IInv, Types, Loading, bufferWriteNew, Begin
  <2>3. op' \in [Proc -> Ops]
    <3>1. Op("write", f, ref[f], new) \in Ops
      BY DEF IInv, Types, Op, Ops, NoSlice, Slice, Slices
    <3> QED
      BY Zenon, <3>1 DEF IInv, Types, bufferWriteNew, Begin
  <2> QED
    BY <2>1, <2>2, <2>3 DEF IInv, Types, bufferWriteNew
<1>2. Calls'
  BY DEF IInv, Types, Calls, Loading, Storing, bufferWriteNew, Begin, Op
<1>3. LoadsRight'
  BY DEF IInv, Types, LoadsRight, bufferWriteNew, Begin, Op
<1>4. Stored'
  BY DEF IInv, Types, Stored, bufferWriteNew, Begin, Op
<1> QED
  BY SMTT(60), <1>1, <1>2, <1>3, <1>4 DEF IInv

\* A flush takes the file, and with it the buffer.
LEMMA FlushOpenPreserves ==
  ASSUME IInv, NEW p \in Proc, NEW f \in File, flushOpen(p, f)
  PROVE IInv'
<1>1. Types'
  BY DEF IInv, Types, Calls, Ops, Slices, Slice, NoSlice, Loading, Storing,
         flushOpen, Begin, Op
<1>2. Calls'
  BY DEF IInv, Types, Calls, Loading, Storing, flushOpen, Begin, Op
<1>3. LoadsRight'
  BY DEF IInv, Types, LoadsRight, flushOpen, Begin, Op
<1>4. Stored'
  BY DEF IInv, Types, Stored, flushOpen, Begin, Op
<1> QED
  BY <1>1, <1>2, <1>3, <1>4 DEF IInv

\* A hit returns an entry, which holds what was asked for.
LEMMA LoadHitPreserves ==
  ASSUME IInv, NEW p \in Proc, loadHit(p)
  PROVE IInv'
<1>1. Types'
  <2>1. PICK i \in DOMAIN cache.ll :
          get(op[p].want, i) /\ op' = [op EXCEPT ![p].got = cache.ll[i].data]
    BY Zenon DEF loadHit
  <2>2. MoveToFront(i) \in Seq(Entries)
    BY MovedEntries DEF IInv
  <2>3. cache.ll[i].data \in Slices
    <3>1. cache.ll[i] \in Entries
      BY DEF IInv, Types
    <3> QED
      BY <3>1 DEF Entries, Entry, Slice, Slices
  <2>4. op' \in [Proc -> Ops]
    BY <2>1, <2>3, GotTypes DEF IInv, Types
  <2>5. pc' \in [Proc -> {"idle"} \cup Loading \cup Storing]
    BY DEF IInv, Types, Loading, loadHit
  <2>6. /\ cache'.ll \in Seq(Entries)
        /\ cache' = [maxBytes |-> cache'.maxBytes, ll |-> cache'.ll,
                     curBytes |-> cache'.curBytes]
    BY <2>1, <2>2 DEF IInv, Types, get
  <2> QED
    BY <2>4, <2>5, <2>6 DEF IInv, Types, loadHit
<1>2. Calls'
  BY DEF IInv, Types, Calls, Loading, Storing, loadHit, get, Cached
<1>3. LoadsRight'
  BY DEF IInv, Types, Calls, LoadsRight, Ops, Entries, Entry, Slice, loadHit, get,
         Cached
<1>4. Stored'
  BY SMTT(60) DEF IInv, Types, Stored, loadHit, get, Cached
<1> QED
  BY SMTT(60), <1>1, <1>2, <1>3, <1>4 DEF IInv

\* A miss changes nothing.
LEMMA LoadMissPreserves ==
  ASSUME IInv, NEW p \in Proc, loadMiss(p)
  PROVE IInv'
<1>1. Types'
  BY DEF IInv, Types, Loading, Storing, loadMiss
<1>2. Calls'
  BY DEF IInv, Types, Calls, Loading, Storing, loadMiss
<1>3. LoadsRight'
  BY DEF IInv, Types, LoadsRight, loadMiss
<1>4. Stored'
  BY SMTT(60) DEF IInv, Types, Stored, loadMiss
<1> QED
  BY <1>1, <1>2, <1>3, <1>4 DEF IInv

\* A fetch returns what the bucket holds.
LEMMA GetPreserves ==
  ASSUME IInv, NEW p \in Proc, Get(p)
  PROVE IInv'
<1>1. Types'
  <2>1. Slice(objects[op[p].want], Own) \in Slices
    BY DEF IInv, Types, Calls, Loading, Get, Slice, Slices
  <2>2. op' \in [Proc -> Ops]
    BY <2>1, GotTypes DEF IInv, Types, Get
  <2> QED
    BY <2>2 DEF IInv, Types, Loading, Get
<1>2. Calls'
  BY DEF IInv, Types, Calls, Loading, Storing, Get
<1>3. LoadsRight'
  BY DEF IInv, Types, LoadsRight, Get
<1>4. Stored'
  BY SMTT(60) DEF IInv, Types, Stored, Get
<1> QED
  BY <1>1, <1>2, <1>3, <1>4 DEF IInv

\* A fetch that fails ends its call.
LEMMA GetFailsPreserves ==
  ASSUME IInv, NEW p \in Proc, GetFails(p)
  PROVE IInv'
<1>1. Types'
  BY DEF IInv, Types, Calls, Ops, Slices, Slice, NoSlice, Loading, Storing,
         GetFails, Fails, End, Unlock, NoOp, Op
<1>2. Calls'
  BY DEF IInv, Types, Calls, Loading, Storing, GetFails, Fails, End, Unlock, NoOp,
         Op
<1>3. LoadsRight'
  BY DEF IInv, Types, LoadsRight, GetFails, Fails, End, Unlock, NoOp, Op
<1>4. Stored'
  BY DEF IInv, Types, Stored, GetFails, Fails, End, Unlock, NoOp, Op
<1> QED
  BY <1>1, <1>2, <1>3, <1>4 DEF IInv

\* What is fetched is cached and known once it is verified.
LEMMA LoadFetchedPreserves ==
  ASSUME IInv, Verify, NEW p \in Proc, loadFetched(p)
  PROVE IInv'
<1>1. Types'
  <2>1. op[p].want \in Chunk /\ op[p].got.bytes = op[p].want
    BY DEF IInv, Calls, Loading, loadFetched, Verifies
  <2>2. /\ cache'.ll \in Seq(Entries)
        /\ cache' = [maxBytes |-> cache'.maxBytes, ll |-> cache'.ll,
                     curBytes |-> cache'.curBytes]
    BY SMTT(60), <2>1, PutEntries DEF IInv, loadFetched
  <2> QED
    BY SMTT(60), <2>1, <2>2 DEF IInv, Types, Loading, loadFetched, markKnown
<1>2. Calls'
  BY DEF IInv, Types, Calls, Loading, Storing, loadFetched, Verifies, markKnown
<1>3. LoadsRight'
  BY DEF IInv, Types, LoadsRight, loadFetched, Verifies, markKnown
<1>4. Stored'
  BY SMTT(60) DEF IInv, Types, Stored, loadFetched, Verifies, markKnown
<1> QED
  BY SMTT(60), <1>1, <1>2, <1>3, <1>4 DEF IInv

\* What does not verify ends its call.
LEMMA LoadRefusedPreserves ==
  ASSUME IInv, NEW p \in Proc, loadRefused(p)
  PROVE IInv'
<1>1. Types'
  BY DEF IInv, Types, Calls, Ops, Slices, Slice, NoSlice, Loading, Storing,
         loadRefused, Fails, End, Unlock, NoOp, Op
<1>2. Calls'
  BY DEF IInv, Types, Calls, Loading, Storing, loadRefused, Fails, End, Unlock,
         NoOp, Op
<1>3. LoadsRight'
  BY DEF IInv, Types, LoadsRight, loadRefused, Fails, End, Unlock, NoOp, Op
<1>4. Stored'
  BY SMTT(60) DEF IInv, Types, Stored, loadRefused, Fails, End, Unlock, NoOp, Op
<1> QED
  BY <1>1, <1>2, <1>3, <1>4 DEF IInv

\* The caller of loadChunk copies what it was given.
LEMMA LoadedPreserves ==
  ASSUME IInv, NEW p \in Proc, Loaded(p)
  PROVE IInv'
<1>1. Types'
  BY DEF IInv, Types, Calls, Ops, Slices, Slice, NoSlice, Loading, Storing, Loaded,
         End, Unlock, NoOp, Op
<1>2. Calls'
  BY DEF IInv, Types, Calls, Loading, Storing, Loaded, End, Unlock, NoOp, Op
<1>3. LoadsRight'
  BY DEF IInv, Types, LoadsRight, Loaded, End, Unlock, NoOp, Op
<1>4. Stored'
  BY SMTT(60) DEF IInv, Types, Stored, Loaded, End, Unlock, NoOp, Op
<1> QED
  BY <1>1, <1>2, <1>3, <1>4 DEF IInv

\* A known chunk is in the bucket.
LEMMA IsKnownPreserves ==
  ASSUME IInv, NEW p \in Proc, isKnown(p)
  PROVE IInv'
<1>1. Types'
  BY DEF IInv, Types, Loading, Storing, isKnown
<1>2. Calls'
  BY DEF IInv, Types, Calls, Loading, Storing, isKnown
<1>3. LoadsRight'
  BY DEF IInv, Types, LoadsRight, isKnown
<1>4. Stored'
  BY SMTT(60) DEF IInv, Types, Stored, isKnown
<1> QED
  BY <1>1, <1>2, <1>3, <1>4 DEF IInv

\* A probe that finds an object leaves it there.
LEMMA ProbePreserves ==
  ASSUME IInv, NEW p \in Proc, Probe(p)
  PROVE IInv'
<1>1. Types'
  BY DEF IInv, Types, Loading, Storing, Probe
<1>2. Calls'
  BY DEF IInv, Types, Calls, Loading, Storing, Probe
<1>3. LoadsRight'
  BY DEF IInv, Types, LoadsRight, Probe
<1>4. Stored'
  BY SMTT(60) DEF IInv, Types, Stored, Probe
<1> QED
  BY <1>1, <1>2, <1>3, <1>4 DEF IInv

\* A chunk that was found is known.
LEMMA FoundPreserves ==
  ASSUME IInv, NEW p \in Proc, Found(p)
  PROVE IInv'
<1>1. Types'
  BY DEF IInv, Types, Calls, Ops, Slices, Slice, NoSlice, Loading, Storing, Found,
         markKnown
<1>2. Calls'
  BY DEF IInv, Types, Calls, Loading, Storing, Found, markKnown
<1>3. LoadsRight'
  BY DEF IInv, Types, LoadsRight, Found, markKnown
<1>4. Stored'
  BY SMTT(60) DEF IInv, Types, Calls, Stored, Ops, Loading, Storing, Slice, NoSlice,
     Found,
         markKnown
<1> QED
  BY <1>1, <1>2, <1>3, <1>4 DEF IInv

\* A chunk that was stored is known, and the cache has a copy of it.
LEMMA PutPreserves ==
  ASSUME IInv, NEW p \in Proc, Put(p)
  PROVE IInv'
<1>1. Types'
  <2> DEFINE data == Slice(dirty[op[p].file], op[p].file)
  <2>1. op[p].want \in Chunk /\ data.bytes = op[p].want
    BY DEF IInv, Calls, Storing, Put, Slice
  <2>2. put(op[p].want, data)
    BY DEF Put
  <2> HIDE DEF data
  <2>3. /\ cache'.ll \in Seq(Entries)
        /\ cache' = [maxBytes |-> cache'.maxBytes, ll |-> cache'.ll,
                     curBytes |-> cache'.curBytes]
    BY SMTT(60), <2>1, <2>2, PutEntries DEF IInv
  <2> QED
    BY SMTT(60), <2>1, <2>3 DEF IInv, Types, Storing, Put, markKnown
<1>2. Calls'
  BY DEF IInv, Types, Calls, Loading, Storing, Put, markKnown
<1>3. LoadsRight'
  BY DEF IInv, Types, Calls, LoadsRight, Ops, Entries, Entry, Slice, Put, markKnown
<1>4. Stored'
  BY SMTT(60) DEF IInv, Types, Calls, Stored, Ops, Loading, Storing, Slice, NoSlice, Put,
         markKnown
<1> QED
  BY <1>1, <1>2, <1>3, <1>4 DEF IInv

\* An attempt that fails removes nothing.
LEMMA DoFailsPreserves ==
  ASSUME IInv, NEW p \in Proc, doFails(p)
  PROVE IInv'
<1>1. Types'
  <2>1. op[p].want \in Chunk
    BY DEF IInv, Calls, Storing, doFails
  <2>2. objects' \in [Chunk -> Chunk \cup {Absent, Rot}] /\ late' \subseteq Chunk
    BY Zenon, <2>1 DEF IInv, Types, doFails
  <2>3. CASE Fails(p)
    BY <2>2, <2>3, FailsTypes DEF IInv
  <2>4. CASE ~Fails(p)
    <3>1. op' = [op EXCEPT ![p].tries = op[p].tries + 1]
      BY <2>4 DEF doFails
    <3>2. op[p].tries + 1 \in Nat
      BY DEF IInv, Types, Ops
    <3>3. op' \in [Proc -> Ops]
      BY <3>1, <3>2, TriesTypes DEF IInv, Types
    <3> QED
      BY <2>2, <2>4, <3>3 DEF IInv, Types, doFails
  <2> QED
    BY <2>3, <2>4
<1>2. Calls'
  <2>1. CASE Fails(p)
    BY <2>1 DEF IInv, Types, Calls, Loading, Storing, Fails, End, Unlock
  <2>2. CASE ~Fails(p)
    <3>1. op' = [op EXCEPT ![p].tries = op[p].tries + 1] /\ UNCHANGED <<pc, mu, dirty>>
      BY <2>2 DEF doFails
    <3>2. \A q \in Proc : /\ op'[q].kind = op[q].kind /\ op'[q].file = op[q].file
                          /\ op'[q].want = op[q].want /\ op'[q].new = op[q].new
      BY <3>1 DEF IInv, Types, Ops
    <3> QED
      BY <3>1, <3>2 DEF IInv, Calls
  <2> QED
    BY <2>1, <2>2
<1>3. LoadsRight'
  BY SMTT(60) DEF IInv, Types, LoadsRight, doFails, Fails, End, Unlock, NoOp, Op
<1>4. Stored'
  <2>1. op[p].want \in Chunk
    BY DEF IInv, Calls, Storing, doFails
  <2>2. /\ \A c \in Chunk : objects[c] # Absent => objects'[c] # Absent
        /\ UNCHANGED <<knownChunks, ref>>
    BY <2>1 DEF IInv, Types, doFails, Fails
  <2>3. \A q \in Proc : pc'[q] \in {"verify", "found", "stored"} =>
          pc[q] = pc'[q] /\ op'[q].want = op[q].want /\ op[q].want \in Chunk
    <3>1. CASE Fails(p)
      BY <3>1 DEF IInv, Types, Calls, Loading, Storing, Fails, End
    <3>2. CASE ~Fails(p)
      BY ZenonT(60), <3>2 DEF IInv, Types, Ops, Calls, Loading, Storing, doFails
    <3> QED
      BY <3>1, <3>2
  <2>4. \A c \in knownChunks' : objects'[c] # Absent
    BY <2>2 DEF IInv, Types, Stored
  <2>5. \A f \in File : ref'[f] # None => objects'[ref'[f]] # Absent
    BY <2>2 DEF IInv, Types, Stored
  <2>6. \A q \in Proc : pc'[q] \in {"verify", "found", "stored"} =>
          objects'[op'[q].want] # Absent
    BY <2>2, <2>3 DEF IInv, Stored
  <2> QED
    BY <2>4, <2>5, <2>6 DEF Stored
<1> QED
  BY <1>1, <1>2, <1>3, <1>4 DEF IInv

\* A PUT that is late stores what its key names.
LEMMA ArrivesPreserves ==
  ASSUME IInv, NEW c \in Chunk, Arrives(c)
  PROVE IInv'
<1>1. Types'
  BY DEF IInv, Types, Loading, Storing, Arrives
<1>2. Calls'
  BY DEF IInv, Types, Calls, Loading, Storing, Arrives
<1>3. LoadsRight'
  BY DEF IInv, Types, LoadsRight, Arrives
<1>4. Stored'
  BY DEF IInv, Types, Stored, Arrives
<1> QED
  BY <1>1, <1>2, <1>3, <1>4 DEF IInv

\* An object that rots is still there.
LEMMA RotsPreserves ==
  ASSUME IInv, NEW c \in Chunk, Rots(c)
  PROVE IInv'
<1>1. Types'
  BY DEF IInv, Types, Loading, Storing, Rots
<1>2. Calls'
  BY DEF IInv, Types, Calls, Loading, Storing, Rots
<1>3. LoadsRight'
  BY DEF IInv, Types, LoadsRight, Rots
<1>4. Stored'
  BY DEF IInv, Types, Stored, Rots
<1> QED
  BY <1>1, <1>2, <1>3, <1>4 DEF IInv

\* A write through a buffer changes that buffer alone: no slice shares its
\* array.
LEMMA BufferWritePreserves ==
  ASSUME IInv, NEW p \in Proc, NEW f \in File, NEW new \in Chunk, bufferWrite(p, f, new)
  PROVE IInv'
<1> DEFINE Through(slice) == IF slice.array = f THEN Slice(new, f) ELSE slice
<1>1. cache' = cache
  <2>1. \A i \in DOMAIN cache.ll : cache.ll[i] \in Entries
    BY DEF IInv, Types
  <2>2. \A i \in DOMAIN cache.ll : Through(cache.ll[i].data) = cache.ll[i].data
    BY SMTT(60), <2>1, EntryIsOwn
  <2>3. \A i \in DOMAIN cache.ll : Entry(cache.ll[i].hash, Through(cache.ll[i].data)) = cache.ll[i]
    BY SMTT(60), <2>1, <2>2, EntryIsOwn
  <2>4. [i \in DOMAIN cache.ll |-> Entry(cache.ll[i].hash, Through(cache.ll[i].data))] = cache.ll
    BY <2>3 DEF IInv, Types
  <2>5. cache' = [cache EXCEPT !.ll =
          [i \in DOMAIN cache.ll |-> Entry(cache.ll[i].hash, Through(cache.ll[i].data))]]
    BY DEF bufferWrite
  <2> QED
    BY <2>4, <2>5 DEF IInv, Types
<1>2. op' = op
  <2>1. \A q \in Proc : [op[q] EXCEPT !.got = Through(@)] = op[q]
    BY DEF IInv, Types, Ops, Slices
  <2> QED
    BY <2>1 DEF IInv, Types, bufferWrite
<1>3. Types'
  BY Zenon, <1>1, <1>2 DEF IInv, Types, bufferWrite
<1>4. Calls'
  BY <1>2 DEF IInv, Types, Calls, bufferWrite
<1>5. LoadsRight' /\ Stored'
  BY <1>2 DEF IInv, LoadsRight, Stored, bufferWrite
<1> QED
  BY <1>3, <1>4, <1>5 DEF IInv

\* A flush that succeeds drops a buffer whose array no slice shares, and
\* names a chunk that is in the bucket.
LEMMA FlushedPreserves ==
  ASSUME IInv, NEW p \in Proc, Flushed(p)
  PROVE IInv'
<1> DEFINE f == op[p].file
           Unshare(slice) == IF slice.array = f THEN Slice(slice.bytes, Own) ELSE slice
<1>0. f \in File /\ mu[f] = p /\ op[p].want \in Chunk
  BY DEF IInv, Calls, Storing, Flushed
<1>1. cache' = cache
  <2>1. \A i \in DOMAIN cache.ll : cache.ll[i] \in Entries
    BY DEF IInv, Types
  <2>2. \A i \in DOMAIN cache.ll : Unshare(cache.ll[i].data) = cache.ll[i].data
    BY SMTT(60), <1>0, <2>1, EntryIsOwn
  <2>3. \A i \in DOMAIN cache.ll : Entry(cache.ll[i].hash, Unshare(cache.ll[i].data)) = cache.ll[i]
    BY SMTT(60), <2>1, <2>2, EntryIsOwn
  <2>4. [i \in DOMAIN cache.ll |-> Entry(cache.ll[i].hash, Unshare(cache.ll[i].data))] = cache.ll
    BY <2>3 DEF IInv, Types
  <2>5. cache' = [cache EXCEPT !.ll =
          [i \in DOMAIN cache.ll |-> Entry(cache.ll[i].hash, Unshare(cache.ll[i].data))]]
    BY DEF Flushed
  <2> QED
    BY <2>4, <2>5 DEF IInv, Types
<1>2. op' = [op EXCEPT ![p] = NoOp]
  <2>1. \A q \in Proc : [op[q] EXCEPT !.got = Unshare(@)] = op[q]
    BY <1>0 DEF IInv, Types, Ops, Slices
  <2> QED
    BY Zenon, <2>1 DEF IInv, Types, Flushed
<1>3. NoOp \in Ops
  BY DEF NoOp, Op, Ops, NoSlice, Slice, Slices
<1>4. Types'
  <2>1. ref' \in [File -> Chunk \cup {None}] /\ dirty' \in [File -> Chunk \cup {None}]
    BY <1>0 DEF IInv, Types, Flushed
  <2>2. mu' \in [File -> Proc \cup {Nobody}]
    BY DEF IInv, Types, Flushed, Unlock
  <2>3. pc' \in [Proc -> {"idle"} \cup Loading \cup Storing] /\ op' \in [Proc -> Ops]
    BY ZenonT(60), <1>2, <1>3 DEF IInv, Types, Flushed
  <2> QED
    BY <1>1, <2>1, <2>2, <2>3 DEF IInv, Types, Flushed
<1>5. Calls'
  BY <1>0, <1>2 DEF IInv, Types, Calls, Loading, Storing, Flushed, Unlock
<1>6. LoadsRight'
  BY Zenon, <1>2 DEF IInv, Types, LoadsRight, Flushed
<1>7. Stored'
  BY SMTT(60), <1>0, <1>2 DEF IInv, Types, Stored, Flushed
<1> QED
  BY <1>4, <1>5, <1>6, <1>7 DEF IInv

\* A flush that fails late keeps its buffer and releases the file.
LEMMA FlushFailsPreserves ==
  ASSUME IInv, NEW p \in Proc, FlushFails(p)
  PROVE IInv'
<1>1. Types'
  BY DEF IInv, Types, Calls, Ops, Slices, Slice, NoSlice, Loading, Storing,
         FlushFails, Fails, End, Unlock, NoOp, Op
<1>2. Calls'
  BY DEF IInv, Types, Calls, Loading, Storing, FlushFails, Fails, End, Unlock, NoOp,
         Op
<1>3. LoadsRight'
  BY DEF IInv, Types, LoadsRight, FlushFails, Fails, End, Unlock, NoOp, Op
<1>4. Stored'
  BY DEF IInv, Types, Stored, FlushFails, Fails, End, Unlock, NoOp, Op
<1> QED
  BY <1>1, <1>2, <1>3, <1>4 DEF IInv

-----------------------------------------------------------------------------
\* The invariant holds of a mount.
LEMMA InitInv == Init => IInv
<1> SUFFICES ASSUME Init PROVE IInv
  OBVIOUS
<1>1. NoOp \in Ops
  BY DEF NoOp, Op, Ops, NoSlice, Slice, Slices
<1>2. Types
  <2>1. /\ cache = [maxBytes |-> cache.maxBytes, ll |-> cache.ll, curBytes |-> cache.curBytes]
        /\ cache.ll = <<>>
    BY DEF Init
  <2> QED
    BY <1>1, <2>1 DEF Init, Types
<1>3. Calls /\ LoadsRight /\ Stored
  BY DEF Init, Calls, Loading, Storing, LoadsRight, Stored
<1> QED
  BY <1>2, <1>3 DEF IInv

\* Every step preserves it.
LEMMA NextPreserves ==
  ASSUME Verify, IInv, [Next]_vars
  PROVE IInv'
<1>1. CASE \E p \in Proc : Call(p)
  BY SMTT(60), <1>1, ReadPreserves, FlushOpenPreserves, BufferWritePreserves,
     BufferWriteNewPreserves
     DEF Call
<1>2. CASE \E p \in Proc : loadChunk(p)
  BY SMTT(60), <1>2, LoadHitPreserves, LoadMissPreserves, GetPreserves, GetFailsPreserves,
     LoadFetchedPreserves, LoadRefusedPreserves DEF loadChunk
<1>3. CASE \E p \in Proc : putChunk(p)
  BY SMTT(60), <1>3, IsKnownPreserves, ProbePreserves, FoundPreserves, PutPreserves,
     DoFailsPreserves
     DEF putChunk
<1>4. CASE \E p \in Proc : Loaded(p) \/ Flushed(p) \/ FlushFails(p)
  BY SMTT(60), <1>4, LoadedPreserves, FlushedPreserves, FlushFailsPreserves
<1>5. CASE \E c \in Chunk : Arrives(c) \/ Rots(c)
  BY SMTT(60), <1>5, ArrivesPreserves, RotsPreserves
<1>6. CASE UNCHANGED vars
  BY <1>6 DEF vars, IInv, Types, Calls, LoadsRight, Stored
<1> QED
  BY SMTT(60), <1>1, <1>2, <1>3, <1>4, <1>5, <1>6 DEF Next

\* Whatever is fetched being verified, IInv holds in every reachable state.
LEMMA Invariance == Verify => (Spec => []IInv)
<1> SUFFICES ASSUME Verify PROVE Spec => []IInv
  OBVIOUS
<1>1. Init => IInv
  BY InitInv
<1>2. IInv /\ [Next]_vars => IInv'
  BY NextPreserves
<1> QED
  BY <1>1, <1>2, PTL DEF Spec

\* The cache serves bytes that hash to their key (loadChunk's verification
\* and chunkCache.put's copy).
THEOREM CacheIsRight == Verify => (Spec => []CachedAsNamed)
<1>1. IInv => CachedAsNamed
  BY SMTT(60) DEF IInv, Types, Entries, Entry, Slice, CachedAsNamed
<1> QED
  BY <1>1, Invariance, PTL

\* A slice that loadChunk returned holds what was asked for as long as its
\* caller holds it (Read, bufferWrite).
THEOREM LoadsAreRight == Verify => (Spec => []LoadsRight)
<1>1. IInv => LoadsRight
  BY SMTT(60) DEF IInv
<1> QED
  BY <1>1, Invariance, PTL

\* What is known or named is in the bucket (putChunk, flushOpen).
THEOREM KnownIsStored == Verify => (Spec => []KnownStored)
<1>1. IInv => KnownStored
  BY DEF IInv, Stored, KnownStored
<1> QED
  BY <1>1, Invariance, PTL
=============================================================================
