------------------------------ MODULE ChunkStore ------------------------------
(***************************************************************************)
(* How chunks move between the bucket, the chunk cache and the buffers of  *)
(* files: loadChunk, putChunk and the set of known chunks                  *)
(* (internal/blobfs/fs.go), the LRU cache (internal/blobfs/cache.go) and   *)
(* the retried PUT of internal/store/s3.go.  A failed PUT may have stored  *)
(* its object or may store it later, a flush may fail once some of its     *)
(* chunks are stored, and objects may rot in the bucket.                   *)
(*                                                                         *)
(* What is abstracted.                                                     *)
(*  - A chunk is its contents, and its hash is the same value: SHA-256 is  *)
(*    taken to be injective.  An object that rotted hashes to nothing the  *)
(*    filesystem names.                                                    *)
(*  - A file is one chunk, stored, buffered, or both.  Which bytes a write *)
(*    changes is module FileData's; here it changes the buffer as a whole. *)
(*  - A slice is its bytes and the array they are in: the array of a       *)
(*    file's buffer, which writes change in place, or one of its own.      *)
(*  - A retried GET or HEAD is one call; only its last reply matters.      *)
(*  - The reply to a PUT, or the check of a GET, and the entries it makes  *)
(*    in the known set and the cache are one step.                         *)
(***************************************************************************)
EXTENDS Integers, Sequences, SequencesExt

CONSTANTS
  Chunk,        \* contents of chunks
  Size,         \* their lengths
  File,
  Proc,         \* goroutines
  Nobody,       \* the holder of a free lock
  None,         \* no reference, no buffer
  Own,          \* an array that nothing else holds
  Absent, Rot,  \* what the bucket may hold for a hash that is not its contents
  Limits,       \* values of chunkCache.maxBytes
  Attempts,     \* maxRetries + 1
  Verify,       \* ~skipVerify
  RottenAtMount,\* whether objects may have rotted before the mount
  MaxFaults     \* how many store calls fail and objects rot in all

ASSUME ConstantsAssumption ==
  /\ Size \in [Chunk -> Nat \ {0}]
  /\ Nobody \notin Proc /\ Own \notin File
  /\ None \notin Chunk /\ Absent \notin Chunk /\ Rot \notin Chunk
  /\ Absent # Rot
  /\ Limits \subseteq Nat /\ Attempts \in Nat \ {0}
  /\ Verify \in BOOLEAN /\ RottenAtMount \in BOOLEAN
  /\ MaxFaults \in Nat

Slice(bytes, array) == [bytes |-> bytes, array |-> array]
NoSlice == Slice(None, Own)
Op(kind, f, want, new) ==
  [kind |-> kind, file |-> f, want |-> want, new |-> new, got |-> NoSlice, tries |-> 0]
NoOp == Op("none", None, None, None)

VARIABLES
  objects,        \* the chunk objects of the bucket
  late,           \* hashes of PUTs that failed here and may still be executed
  knownChunks,
  cache,          \* its limit, its entries, the most recently used first, and
                  \* their charge
  ref,            \* each file's reference in the namespace
  dirty,          \* each file's buffer
  mu,             \* each openFile.mu
  pc, op,         \* of each goroutine: where it is, and in what call
  faults

fileVars == <<ref, dirty, mu>>
vars == <<objects, late, knownChunks, cache, fileVars, pc, op, faults>>

\* A mount of a bucket that holds some chunks, some of them named by files.
Init ==
  /\ objects \in [Chunk -> Chunk \cup {Absent, Rot}]
  /\ \A c \in Chunk : objects[c] \in {c, Absent, Rot}
  /\ RottenAtMount \/ \A c \in Chunk : objects[c] # Rot
  /\ late = {}
  /\ knownChunks = {}
  /\ cache \in [maxBytes : Limits, ll : {<<>>}, curBytes : {0}]
  /\ ref \in [File -> Chunk \cup {None}]
  /\ \A f \in File : ref[f] # None => objects[ref[f]] # Absent
  /\ dirty = [f \in File |-> None]
  /\ mu = [f \in File |-> Nobody]
  /\ pc = [p \in Proc |-> "idle"]
  /\ op = [p \in Proc |-> NoOp]
  /\ faults = 0

Fault == faults < MaxFaults /\ faults' = faults + 1
Goto(p, label) == pc' = [pc EXCEPT ![p] = label]
markKnown(hash) == knownChunks' = knownChunks \cup {hash}

-----------------------------------------------------------------------------
(* chunkCache                                                                 *)

Entry(hash, data) == [hash |-> hash, data |-> data]
Cached(hash) == {i \in DOMAIN cache.ll : cache.ll[i].hash = hash}
MoveToFront(i) == <<cache.ll[i]>> \o RemoveAt(cache.ll, i)

TotalSize(entries) == FoldSeq(LAMBDA e, n : Size[e.hash] + n, 0, entries)

\* The entries that stay, of entries that are charged bytes: those at the
\* back go one by one while the charge is over the limit, so that as many
\* stay as there are lengths that fit.
Kept(entries, bytes) ==
  LET Fits(n) == bytes - TotalSize(SubSeq(entries, n + 1, Len(entries))) <= cache.maxBytes
  IN  SubSeq(entries, 1, Cardinality({n \in DOMAIN entries : Fits(n)}))

get(hash, i) == i \in Cached(hash) /\ cache' = [cache EXCEPT !.ll = MoveToFront(i)]

Insert(entry) ==
  LET entries == <<entry>> \o cache.ll
      bytes == cache.curBytes + Size[entry.hash]
      kept == Kept(entries, bytes)
  IN  cache' = [cache EXCEPT !.ll = kept,
                             !.curBytes = bytes - (TotalSize(entries) - TotalSize(kept))]

\* Mutant: the entry is the caller's slice.
putShares(hash, data) ==
  IF Size[hash] > cache.maxBytes THEN UNCHANGED cache
  ELSE IF Cached(hash) # {} THEN \E i \in DOMAIN cache.ll : get(hash, i)
  ELSE Insert(Entry(hash, data))

\* Mutant: two loads of one chunk enter it twice.
putTwice(hash, data) ==
  IF Size[hash] > cache.maxBytes THEN UNCHANGED cache
  ELSE Insert(Entry(hash, Slice(data.bytes, Own)))

\* A chunk larger than the cache is not kept; one that is there already only
\* moves; otherwise the entry holds a copy.
put(hash, data) ==
  IF Size[hash] > cache.maxBytes THEN UNCHANGED cache
  ELSE IF Cached(hash) # {} THEN \E i \in DOMAIN cache.ll : get(hash, i)
  ELSE Insert(Entry(hash, Slice(data.bytes, Own)))

-----------------------------------------------------------------------------
(* Calls                                                                      *)

Begin(p, call, label) == op' = [op EXCEPT ![p] = call] /\ Goto(p, label)
End(p) == op' = [op EXCEPT ![p] = NoOp] /\ Goto(p, "idle")

\* A call that holds the file's lock returns, whatever it is.
Unlock(p) == mu' = [f \in File |-> IF mu[f] = p THEN Nobody ELSE mu[f]]

\* A Read takes the reference of an index that is not dirty, and fetches it
\* holding no lock.
Read(p, f) ==
  /\ pc[p] = "idle"
  /\ mu[f] = Nobody
  /\ dirty[f] = None
  /\ ref[f] # None
  /\ Begin(p, Op("read", f, ref[f], None), "get")
  /\ UNCHANGED <<objects, late, knownChunks, cache, fileVars, faults>>

\* The index is dirty: the write changes the buffer in place, and with it
\* every slice of the same array.
bufferWrite(p, f, new) ==
  LET Through(slice) == IF slice.array = f THEN Slice(new, f) ELSE slice
  IN  /\ pc[p] = "idle"
      /\ mu[f] = Nobody
      /\ dirty[f] # None
      /\ dirty' = [dirty EXCEPT ![f] = new]
      /\ cache' = [cache EXCEPT !.ll =
                     [i \in DOMAIN cache.ll |-> Entry(cache.ll[i].hash, Through(cache.ll[i].data))]]
      /\ op' = [q \in Proc |-> [op[q] EXCEPT !.got = Through(@)]]
      /\ UNCHANGED <<objects, late, knownChunks, ref, mu, pc, faults>>

\* The index is not dirty: a write of the whole chunk makes a buffer, and
\* another one first loads the chunk that it changes.
bufferWriteNew(p, f, new) ==
  /\ pc[p] = "idle"
  /\ mu[f] = Nobody
  /\ dirty[f] = None
  /\ \/ /\ dirty' = [dirty EXCEPT ![f] = new]
        /\ UNCHANGED <<mu, op, pc>>
     \/ /\ ref[f] # None
        /\ mu' = [mu EXCEPT ![f] = p]
        /\ Begin(p, Op("write", f, ref[f], new), "get")
        /\ UNCHANGED dirty
  /\ UNCHANGED <<objects, late, knownChunks, cache, ref, faults>>

flushOpen(p, f) ==
  /\ pc[p] = "idle"
  /\ mu[f] = Nobody
  /\ dirty[f] # None
  /\ mu' = [mu EXCEPT ![f] = p]
  /\ Begin(p, Op("flush", f, dirty[f], None), "isKnown")
  /\ UNCHANGED <<objects, late, knownChunks, cache, ref, dirty, faults>>

\* The call fails: its buffer, if any, is as it was.
Fails(p) ==
  /\ End(p)
  /\ Unlock(p)
  /\ UNCHANGED <<knownChunks, cache, ref, dirty>>

-----------------------------------------------------------------------------
(* loadChunk                                                                  *)

loadHit(p) ==
  /\ pc[p] = "get"
  /\ \E i \in DOMAIN cache.ll :
       /\ get(op[p].want, i)
       /\ op' = [op EXCEPT ![p].got = cache.ll[i].data]
  /\ Goto(p, "loaded")
  /\ UNCHANGED <<objects, late, knownChunks, fileVars, faults>>

loadMiss(p) ==
  /\ pc[p] = "get"
  /\ Cached(op[p].want) = {}
  /\ Goto(p, "Get")
  /\ UNCHANGED <<objects, late, knownChunks, cache, fileVars, op, faults>>

Get(p) ==
  /\ pc[p] = "Get"
  /\ objects[op[p].want] # Absent
  /\ op' = [op EXCEPT ![p].got = Slice(objects[op[p].want], Own)]
  /\ Goto(p, "verify")
  /\ UNCHANGED <<objects, late, knownChunks, cache, fileVars, faults>>

GetFails(p) ==
  /\ pc[p] = "Get"
  /\ IF objects[op[p].want] = Absent THEN UNCHANGED faults ELSE Fault
  /\ Fails(p)
  /\ UNCHANGED <<objects, late>>

Verifies(p) == Verify => op[p].got.bytes = op[p].want

\* Mutant: what is fetched is cached before it is verified.
loadFetchedUnverified(p) ==
  /\ pc[p] = "verify"
  /\ put(op[p].want, op[p].got)
  /\ markKnown(op[p].want)
  /\ IF Verifies(p) THEN Goto(p, "loaded") /\ UNCHANGED <<op, mu>> ELSE End(p) /\ Unlock(p)
  /\ UNCHANGED <<objects, late, ref, dirty, faults>>

loadFetched(p) ==
  /\ pc[p] = "verify"
  /\ Verifies(p)
  /\ put(op[p].want, op[p].got)
  /\ markKnown(op[p].want)
  /\ Goto(p, "loaded")
  /\ UNCHANGED <<objects, late, fileVars, op, faults>>

loadRefused(p) ==
  /\ pc[p] = "verify"
  /\ ~Verifies(p)
  /\ Fails(p)
  /\ UNCHANGED <<objects, late, faults>>

\* Read copies from the slice; a write copies it and changes the copy.
Loaded(p) ==
  /\ pc[p] = "loaded"
  /\ dirty' = IF op[p].kind = "write" THEN [dirty EXCEPT ![op[p].file] = op[p].new]
              ELSE dirty
  /\ Unlock(p)
  /\ End(p)
  /\ UNCHANGED <<objects, late, knownChunks, cache, ref, faults>>

-----------------------------------------------------------------------------
(* putChunk, in a flush, and the PUT of S3.do                                 *)

isKnown(p) ==
  /\ pc[p] = "isKnown"
  /\ Goto(p, IF op[p].want \in knownChunks THEN "stored" ELSE "Head")
  /\ UNCHANGED <<objects, late, knownChunks, cache, fileVars, op, faults>>

\* A probe that fails only means an upload.
Probe(p) ==
  /\ pc[p] = "Head"
  /\ \/ objects[op[p].want] # Absent /\ Goto(p, "found") /\ UNCHANGED faults
     \/ objects[op[p].want] = Absent /\ Goto(p, "Put") /\ UNCHANGED faults
     \/ Fault /\ Goto(p, "Put")
  /\ UNCHANGED <<objects, late, knownChunks, cache, fileVars, op>>

Found(p) ==
  /\ pc[p] = "found"
  /\ markKnown(op[p].want)
  /\ Goto(p, "stored")
  /\ UNCHANGED <<objects, late, cache, fileVars, op, faults>>

\* An attempt is answered.
Put(p) ==
  /\ pc[p] = "Put"
  /\ objects' = [objects EXCEPT ![op[p].want] = op[p].want]
  /\ markKnown(op[p].want)
  /\ put(op[p].want, Slice(dirty[op[p].file], op[p].file))
  /\ Goto(p, "stored")
  /\ UNCHANGED <<late, fileVars, op, faults>>

\* Mutant: the hash is known once its upload has been tried.
doFailsKnown(p) ==
  /\ pc[p] = "Put"
  /\ Fault
  /\ objects' \in {objects, [objects EXCEPT ![op[p].want] = op[p].want]}
  /\ late' \in {late, late \cup {op[p].want}}
  /\ markKnown(op[p].want)
  /\ \/ /\ op[p].tries + 1 < Attempts
        /\ op' = [op EXCEPT ![p].tries = @ + 1]
        /\ UNCHANGED <<cache, fileVars, pc>>
     \/ End(p) /\ Unlock(p) /\ UNCHANGED <<cache, ref, dirty>>

\* An attempt fails, and has stored the object, will store it, or neither.
\* It is made again, unless it was the last or the context is done.
doFails(p) ==
  /\ pc[p] = "Put"
  /\ Fault
  /\ objects' \in {objects, [objects EXCEPT ![op[p].want] = op[p].want]}
  /\ late' \in {late, late \cup {op[p].want}}
  /\ \/ /\ op[p].tries + 1 < Attempts
        /\ op' = [op EXCEPT ![p].tries = @ + 1]
        /\ UNCHANGED <<knownChunks, cache, fileVars, pc>>
     \/ Fails(p)

\* A PUT that was given up is executed.
Arrives(hash) ==
  /\ hash \in late
  /\ objects' = [objects EXCEPT ![hash] = hash]
  /\ late' = late \ {hash}
  /\ UNCHANGED <<knownChunks, cache, fileVars, pc, op, faults>>

Rots(hash) ==
  /\ objects[hash] = hash
  /\ Fault
  /\ objects' = [objects EXCEPT ![hash] = Rot]
  /\ UNCHANGED <<late, knownChunks, cache, fileVars, pc, op>>

\* The flush repoints the file and drops the buffer, whose array nothing
\* writes any more.
Flushed(p) ==
  LET f == op[p].file
      Unshare(slice) == IF slice.array = f THEN Slice(slice.bytes, Own) ELSE slice
  IN  /\ pc[p] = "stored"
      /\ ref' = [ref EXCEPT ![f] = op[p].want]
      /\ dirty' = [dirty EXCEPT ![f] = None]
      /\ cache' = [cache EXCEPT !.ll =
                     [i \in DOMAIN cache.ll |-> Entry(cache.ll[i].hash, Unshare(cache.ll[i].data))]]
      /\ op' = [q \in Proc |-> IF q = p THEN NoOp ELSE [op[q] EXCEPT !.got = Unshare(@)]]
      /\ Unlock(p)
      /\ Goto(p, "idle")
      /\ UNCHANGED <<objects, late, knownChunks, faults>>

\* Another chunk of the flush fails: the buffer stays dirty.
FlushFails(p) ==
  /\ pc[p] = "stored"
  /\ Fault
  /\ Fails(p)
  /\ UNCHANGED <<objects, late>>

-----------------------------------------------------------------------------
Call(p) ==
  \E f \in File :
    \/ Read(p, f) \/ flushOpen(p, f)
    \/ \E new \in Chunk : bufferWrite(p, f, new) \/ bufferWriteNew(p, f, new)

loadChunk(p) ==
  loadHit(p) \/ loadMiss(p) \/ Get(p) \/ GetFails(p) \/ loadFetched(p) \/ loadRefused(p)

putChunk(p) == isKnown(p) \/ Probe(p) \/ Found(p) \/ Put(p) \/ doFails(p)

Next ==
  \/ \E p \in Proc : Call(p) \/ loadChunk(p) \/ Loaded(p) \/ putChunk(p) \/ Flushed(p)
                    \/ FlushFails(p)
  \/ \E c \in Chunk : Arrives(c) \/ Rots(c)

Spec == Init /\ [][Next]_vars

-----------------------------------------------------------------------------
(* Properties                                                                 *)

\* The cache serves bytes that hash to their key, whatever rots in the
\* bucket and whatever is written to a buffer whose upload succeeded in a
\* flush that failed (loadChunk's verification; the copy put makes).
CachedAsNamed == \A i \in DOMAIN cache.ll : cache.ll[i].data.bytes = cache.ll[i].hash

\* What loadChunk returned stays what its caller asked for until the caller
\* has copied from it, though the caller holds no lock and the entry may be
\* evicted or its source be written meanwhile (Read's third step).
LoadsRight == \A p \in Proc : pc[p] = "loaded" => op[p].got.bytes = op[p].want

\* The cache's charge is the size of its entries and within the limit, and
\* no hash has two entries, though goroutines that missed together all put
\* what they fetched (chunkCache.put).
CacheAccounts ==
  /\ cache.curBytes = TotalSize(cache.ll)
  /\ cache.curBytes <= cache.maxBytes
  /\ \A i, j \in DOMAIN cache.ll : cache.ll[i].hash = cache.ll[j].hash => i = j

\* A hash that a file names, or that an upload of its contents may skip, has
\* an object in the bucket, through retried, lost and late PUTs (putChunk).
KnownStored ==
  \A c \in knownChunks \cup {ref[f] : f \in File} : c # None => objects[c] # Absent

\* A probe that finds an object finds the contents its key names (putChunk:
\* "Because the key is the hash of the contents, an object that exists is
\* necessarily the right one.").
ExistsIsRight == \A p \in Proc : pc[p] = "found" => objects[op[p].want] = op[p].want
=============================================================================
