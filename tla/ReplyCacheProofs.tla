--------------------------- MODULE ReplyCacheProofs ---------------------------
(***************************************************************************)
(* Proofs about ReplyCache, for any sets of goroutines and xids, any       *)
(* limits of the cache and any number of connections, calls and ticks.     *)
(*                                                                         *)
(* The argument: purge and eviction remove a prefix of the queue, and      *)
(* taking any prefix away keeps the queue equal to the done entries        *)
(* (CutKept).  The prefix that purge removes holds expired entries only,   *)
(* because the queue is in order of age (ExpiredIsPrefix), so a call that  *)
(* ran and has left the cache is past its age or in evicted (Accounted).   *)
(***************************************************************************)
EXTENDS ReplyCache, FiniteSetTheorems, TLAPS

DoneEntry == [key : Key, at : Nat]

Types ==
  /\ TypeOK
  /\ connSerial \in Nat /\ now \in Nat /\ executions \in Nat
  /\ entries \in [DOMAIN entries -> 0 .. executions]
  /\ IsFiniteSet(DOMAIN entries)
  /\ done \in Seq(DoneEntry)
  /\ ranFor \in Seq(Key)
  /\ storedAt \in [Key -> Nat]

\* QueueIsDone, of entries es and queue q.
Queue(es, q) ==
  /\ {q[i].key : i \in DOMAIN q} = {k \in DOMAIN es : es[k] # InFlight}
  /\ \A i, j \in DOMAIN q : i < j => q[i].key # q[j].key /\ q[i].at <= q[j].at

\* Every reply, stored or on its way, was produced for the call it answers.
Owned ==
  /\ \A k \in DOMAIN entries : entries[k] # InFlight => ranFor[entries[k]] = k
  /\ \A t \in Thread :
       /\ pc[t] \in {"handler", "done"} => call[t] \in Key
       /\ pc[t] \in {"done", "reply"} =>
            reply[t] \in 1 .. executions /\ ranFor[reply[t]] = call[t]

\* The queue records when the replies it holds were stored.
Stamped == \A i \in DOMAIN done : storedAt[done[i].key] = done[i].at

\* A call that runs or has run is in the cache, past its age or let go.
Accounted ==
  \A c \in Key : Ran(c) =>
    c \in DOMAIN entries \/ c \in evicted \/ now - storedAt[c] > maxAge

IInv ==
  Types /\ QueueIsDone /\ Owned /\ InFlightExecutes /\ Stamped /\ Accounted

-----------------------------------------------------------------------------
(* Taking a prefix of the queue away *)

\* popDone of the first n entries: what is left of the cache is in order.
LEMMA CutKept ==
  ASSUME Types, QueueIsDone, NEW n \in 0 .. Len(done)
  PROVE  /\ Popped(n) \in Seq(DoneEntry)
         /\ DOMAIN Popped(n) = 1 .. Len(done) - n
         /\ \A i \in 1 .. Len(done) - n : Popped(n)[i] = done[i + n]
         /\ EntriesWithout(n) \in [DOMAIN EntriesWithout(n) -> 0 .. executions]
         /\ DOMAIN EntriesWithout(n) = DOMAIN entries \ {done[i].key : i \in 1 .. n}
         /\ \A k \in DOMAIN EntriesWithout(n) : EntriesWithout(n)[k] = entries[k]
         /\ IsFiniteSet(DOMAIN EntriesWithout(n))
         /\ Cardinality(DOMAIN EntriesWithout(n)) \in Nat
         /\ Cardinality(DOMAIN EntriesWithout(n)) <= maxEntries
         /\ Queue(EntriesWithout(n), Popped(n))
<1> DEFINE es == EntriesWithout(n)
           q == Popped(n)
<1>0. done \in Seq(DoneEntry) /\ Len(done) \in Nat /\ DOMAIN done = 1 .. Len(done)
  BY DEF Types
<1>1. /\ q \in Seq(DoneEntry) /\ DOMAIN q = 1 .. Len(done) - n
      /\ \A i \in 1 .. Len(done) - n : q[i] = done[i + n]
  BY SMTT(60), <1>0 DEF Popped
<1>2. /\ DOMAIN es = DOMAIN entries \ {done[i].key : i \in 1 .. n}
      /\ \A k \in DOMAIN es : es[k] = entries[k]
      /\ es \in [DOMAIN es -> 0 .. executions]
  BY DEF EntriesWithout, Restrict, Types
<1>3. /\ IsFiniteSet(DOMAIN es) /\ Cardinality(DOMAIN es) \in Nat
      /\ Cardinality(DOMAIN es) <= maxEntries
  <2>1. DOMAIN es \subseteq DOMAIN entries
    BY <1>2
  <2>2. /\ IsFiniteSet(DOMAIN entries) /\ Cardinality(DOMAIN entries) <= maxEntries
    BY DEF Types, TypeOK
  <2> HIDE DEF es
  <2>3. IsFiniteSet(DOMAIN es) /\ Cardinality(DOMAIN es) <= Cardinality(DOMAIN entries)
    BY <2>1, <2>2, FS_Subset
  <2>4. Cardinality(DOMAIN es) \in Nat /\ Cardinality(DOMAIN entries) \in Nat
    BY <2>2, <2>3, FS_CardinalityType
  <2> QED
    BY <2>2, <2>3, <2>4, ConstantsAssumption
<1>4. Queue(es, q)
  <2> HIDE DEF es, q
  <2>1. \A i \in DOMAIN q : q[i].key \in DOMAIN es /\ es[q[i].key] # InFlight
    <3> SUFFICES ASSUME NEW i \in 1 .. Len(done) - n
                 PROVE  q[i].key \in DOMAIN es /\ es[q[i].key] # InFlight
      BY <1>1
    <3>1. i + n \in DOMAIN done /\ q[i] = done[i + n]
      BY <1>0, <1>1
    <3>2. done[i + n].key \in DOMAIN entries /\ entries[done[i + n].key] # InFlight
      BY <3>1 DEF QueueIsDone
    <3>3. \A j \in 1 .. n : j \in DOMAIN done /\ j < i + n
      BY <1>0
    <3>4. \A j \in 1 .. n : done[j].key # done[i + n].key
      BY <3>1, <3>3 DEF QueueIsDone
    <3> QED
      BY SMTT(60), <1>2, <3>1, <3>2, <3>4
  <2>2. ASSUME NEW k \in DOMAIN es, es[k] # InFlight
        PROVE  \E i \in DOMAIN q : q[i].key = k
    <3>1. k \in DOMAIN entries /\ entries[k] # InFlight /\ ~\E j \in 1 .. n : done[j].key = k
      BY <1>2, <2>2
    <3>2. PICK j \in DOMAIN done : done[j].key = k
      BY <3>1 DEF QueueIsDone
    <3>3. j - n \in 1 .. Len(done) - n /\ (j - n) + n = j
      BY <1>0, <3>1, <3>2
    <3> QED
      BY <1>1, <3>2, <3>3
  <2>3. ASSUME NEW i \in DOMAIN q, NEW j \in DOMAIN q, i < j
        PROVE  q[i].key # q[j].key /\ q[i].at <= q[j].at
    <3>1. i + n \in DOMAIN done /\ j + n \in DOMAIN done /\ i + n < j + n
      BY <1>0, <1>1, <2>3
    <3>2. q[i] = done[i + n] /\ q[j] = done[j + n]
      BY <1>1
    <3> QED
      BY <3>1, <3>2 DEF QueueIsDone
  <2> QED
    BY <2>1, <2>2, <2>3 DEF Queue
<1> QED
  BY <1>1, <1>2, <1>3, <1>4

\* The entries purge removes are the expired ones, and no others: the queue
\* is in order of age.
LEMMA ExpiredIsPrefix ==
  ASSUME Types, QueueIsDone
  PROVE  /\ Cardinality(Expired) \in 0 .. Len(done)
         /\ \A i \in 1 .. Cardinality(Expired) : i \in Expired
<1>0. Len(done) \in Nat /\ DOMAIN done = 1 .. Len(done) /\ now \in Nat /\ maxAge \in Nat
  BY ConstantsAssumption DEF Types
<1>1. \A i \in DOMAIN done : done[i].at \in Nat
  <2>1. \A i \in DOMAIN done : done[i] \in DoneEntry
    BY DEF Types
  <2> QED
    BY <2>1 DEF DoneEntry
<1>2. ASSUME NEW n \in Nat, Expired \subseteq 1 .. n
      PROVE  IsFiniteSet(Expired) /\ Cardinality(Expired) \in 0 .. n
  <2>1. IsFiniteSet(1 .. n) /\ Cardinality(1 .. n) = n
    BY FS_Interval
  <2>2. IsFiniteSet(Expired) /\ Cardinality(Expired) <= Cardinality(1 .. n)
    BY Zenon, <1>2, <2>1, FS_Subset
  <2>3. Cardinality(Expired) \in Nat
    BY <2>2, FS_CardinalityType
  <2> QED
    BY <2>1, <2>2, <2>3
<1>3. Expired \subseteq 1 .. Len(done)
  BY <1>0 DEF Expired
<1>4. Cardinality(Expired) \in 0 .. Len(done)
  BY <1>0, <1>2, <1>3
<1>5. ASSUME NEW i \in 1 .. Cardinality(Expired), i \notin Expired
      PROVE  FALSE
  <2>1. i \in DOMAIN done
    BY <1>0, <1>4
  <2>2. ASSUME NEW j \in Expired, ~(j < i) PROVE FALSE
    <3>1. j \in DOMAIN done /\ i < j /\ now - done[j].at > maxAge
      BY <1>0, <1>3, <1>4, <1>5, <2>2 DEF Expired
    <3>2. done[i].at <= done[j].at
      BY <2>1, <3>1 DEF QueueIsDone
    <3> QED
      BY <1>0, <1>1, <1>5, <2>1, <3>1, <3>2 DEF Expired
  <2>3. i - 1 \in Nat /\ Expired \subseteq 1 .. i - 1
    BY <1>0, <1>3, <1>4, <2>2
  <2>4. Cardinality(Expired) \in 0 .. i - 1
    BY <1>2, <2>3
  <2> QED
    BY <1>0, <1>4, <2>4
<1> QED
  BY <1>4, <1>5

\* The rest of the queue keeps its stamps, and a call that ran and is no
\* longer in the cache is past its age or among those evicted for room.
LEMMA CutAccounted ==
  ASSUME Types, QueueIsDone, Stamped, Accounted,
         NEW n \in Cardinality(Expired) .. Len(done)
  PROVE  /\ \A i \in DOMAIN Popped(n) :
              /\ Popped(n)[i].key \in Key /\ Popped(n)[i].at \in 0 .. now
              /\ storedAt[Popped(n)[i].key] = Popped(n)[i].at
         /\ \A c \in Key : Ran(c) =>
              \/ c \in DOMAIN EntriesWithout(n)
              \/ c \in evicted
              \/ c \in {done[i].key : i \in Cardinality(Expired) + 1 .. n}
              \/ now - storedAt[c] > maxAge
<1>0. /\ Len(done) \in Nat /\ DOMAIN done = 1 .. Len(done)
      /\ Cardinality(Expired) \in 0 .. Len(done) /\ n \in 0 .. Len(done)
  BY ExpiredIsPrefix DEF Types
<1>a. /\ DOMAIN Popped(n) = 1 .. Len(done) - n
      /\ \A i \in 1 .. Len(done) - n : Popped(n)[i] = done[i + n]
      /\ DOMAIN EntriesWithout(n) = DOMAIN entries \ {done[i].key : i \in 1 .. n}
  BY Zenon, <1>0, CutKept
<1>1. ASSUME NEW i \in DOMAIN Popped(n)
      PROVE  /\ Popped(n)[i].key \in Key /\ Popped(n)[i].at \in 0 .. now
             /\ storedAt[Popped(n)[i].key] = Popped(n)[i].at
  <2>1. i + n \in DOMAIN done /\ Popped(n)[i] = done[i + n]
    BY <1>0, <1>a, <1>1
  <2> QED
    BY <2>1 DEF Stamped, Types, TypeOK
<1>2. ASSUME NEW c \in Key, Ran(c), c \notin DOMAIN EntriesWithout(n), c \notin evicted,
             c \notin {done[i].key : i \in Cardinality(Expired) + 1 .. n}
      PROVE  now - storedAt[c] > maxAge
  <2>1. CASE c \notin DOMAIN entries
    BY <1>2, <2>1 DEF Accounted
  <2>2. CASE c \in DOMAIN entries
    <3>1. PICK i \in 1 .. n : done[i].key = c
      BY <1>a, <1>2, <2>2
    <3>2. i \in 1 .. Cardinality(Expired)
      BY <1>0, <1>2, <3>1
    <3>3. i \in Expired
      BY <3>2, ExpiredIsPrefix
    <3>4. i \in DOMAIN done /\ now - done[i].at > maxAge
      BY <3>3 DEF Expired
    <3> QED
      BY <3>1, <3>4 DEF Stamped
  <2> QED
    BY <2>1, <2>2
<1> QED
  BY <1>1, <1>2

\* begin installs the marker of a call that misses, unless the cache is full.
LEMMA InstalledKept ==
  ASSUME NEW k \in Key, NEW es, NEW q, es \in [DOMAIN es -> 0 .. executions],
         executions \in Nat,
         IsFiniteSet(DOMAIN es), Cardinality(DOMAIN es) <= maxEntries, k \notin DOMAIN es,
         Queue(es, q)
  PROVE  /\ DOMAIN Installed(k, es) \in {DOMAIN es, DOMAIN es \cup {k}}
         /\ Installed(k, es) \in [DOMAIN Installed(k, es) -> 0 .. executions]
         /\ \A x \in DOMAIN es : x \in DOMAIN Installed(k, es) /\ Installed(k, es)[x] = es[x]
         /\ k \in DOMAIN Installed(k, es) => Installed(k, es)[k] = InFlight
         /\ IsFiniteSet(DOMAIN Installed(k, es))
         /\ Cardinality(DOMAIN Installed(k, es)) <= maxEntries
         /\ Queue(Installed(k, es), q)
<1>1. CASE ~(Cardinality(DOMAIN es) < maxEntries)
  BY <1>1 DEF Installed
<1>2. CASE Cardinality(DOMAIN es) < maxEntries
  <2> DEFINE new == [x \in DOMAIN es \cup {k} |-> IF x = k THEN InFlight ELSE es[x]]
  <2>1. Installed(k, es) = new
    BY <1>2 DEF Installed
  <2>2. /\ DOMAIN new = DOMAIN es \cup {k} /\ new[k] = InFlight
        /\ \A x \in DOMAIN es : new[x] = es[x]
        /\ new \in [DOMAIN new -> 0 .. executions]
    BY DEF InFlight
  <2> HIDE DEF new
  <2>3. /\ IsFiniteSet(DOMAIN new) /\ Cardinality(DOMAIN new) = Cardinality(DOMAIN es) + 1
        /\ Cardinality(DOMAIN es) \in Nat
    BY <2>2, FS_AddElement, FS_CardinalityType
  <2>4. {x \in DOMAIN new : new[x] # InFlight} = {x \in DOMAIN es : es[x] # InFlight}
    BY <2>2
  <2>5. Queue(new, q)
    BY <2>4 DEF Queue
  <2>6. Cardinality(DOMAIN new) <= maxEntries
    BY <1>2, <2>3, ConstantsAssumption
  <2> QED
    BY <2>1, <2>2, <2>3, <2>5, <2>6
<1> QED
  BY <1>1, <1>2

-----------------------------------------------------------------------------
(* The steps *)

\* begin finds the key: a stored reply or a call in flight.
LEMMA KnownStep ==
  ASSUME IInv, NEW t \in Thread, NEW c \in Key, dispatchHit(t, c) \/ dispatchInFlight(t, c)
  PROVE  IInv'
<1> USE DEF IInv, replyKey
<1> DEFINE d == Cardinality(Expired)
<1>0. d \in 0 .. Len(done) /\ d \in d .. Len(done)
  BY ExpiredIsPrefix DEF Types
<1>1. /\ c \in DOMAIN Purged /\ entries' = EntriesWithout(d) /\ done' = Popped(d)
      /\ UNCHANGED <<evicted, now, connSerial, open, executions, ranFor, storedAt>>
      /\ pc[t] = "idle"
  BY DEF dispatchHit, dispatchInFlight, beginKnown, Purged, Receive
<1> HIDE DEF d
<1>2. /\ done' \in Seq(DoneEntry) /\ entries' \in [DOMAIN entries' -> 0 .. executions]
      /\ DOMAIN entries' \subseteq DOMAIN entries
      /\ \A k \in DOMAIN entries' : entries'[k] = entries[k]
      /\ IsFiniteSet(DOMAIN entries') /\ Cardinality(DOMAIN entries') <= maxEntries
      /\ Queue(entries', done')
  BY Zenon, <1>0, <1>1, CutKept
<1>3. \/ UNCHANGED threadVars
      \/ /\ call' = [call EXCEPT ![t] = c]
         /\ reply' = [reply EXCEPT ![t] = entries'[c]]
         /\ pc' = [pc EXCEPT ![t] = "reply"]
         /\ entries'[c] # InFlight /\ c \in DOMAIN entries'
  BY <1>1 DEF dispatchHit, dispatchInFlight, Purged, d
<1>4. Types'
  <2>1. \A i \in DOMAIN done' : done'[i].key \in Key /\ done'[i].at \in 0 .. now
    BY <1>0, <1>1, CutAccounted DEF d
  <2>2. pc' \in [Thread -> {"idle", "handler", "done", "reply"}]
        /\ call' \in [Thread -> Key \cup {NoCall}] /\ reply' \in [Thread -> 0 .. executions]
    BY Zenon, <1>2, <1>3 DEF Types, TypeOK, threadVars
  <2> QED
    BY <1>1, <1>2, <2>1, <2>2 DEF Types, TypeOK, Range
<1>5. QueueIsDone'
  BY <1>2 DEF QueueIsDone, Queue
<1>6. Owned'
  <2>1. \A k \in DOMAIN entries' : entries'[k] # InFlight => ranFor'[entries'[k]] = k
    BY <1>1, <1>2 DEF Owned
  <2> QED
    BY <1>1, <1>2, <1>3, <2>1 DEF Owned, Types, TypeOK, threadVars, InFlight
<1>7. InFlightExecutes'
  BY SMTT(60), <1>1, <1>2, <1>3 DEF InFlightExecutes, Types, TypeOK, threadVars
<1>8. Stamped'
  BY <1>0, <1>1, CutAccounted DEF Stamped, d
<1>9. Accounted'
  <2>1. \A k \in Key : Ran(k)' => Ran(k)
    BY <1>1, <1>3 DEF Ran, threadVars, Types, TypeOK
  <2>2. d + 1 .. d = {}
    BY <1>0
  <2> QED
    BY <1>0, <1>1, <2>1, <2>2, CutAccounted DEF Accounted, d
<1> QED
  BY <1>4, <1>5, <1>6, <1>7, <1>8, <1>9

\* begin does not find the key, makes room and installs its marker.
LEMMA MissStep ==
  ASSUME IInv, NEW t \in Thread, NEW c \in Key, dispatchMiss(t, c)
  PROVE  IInv'
<1> USE DEF IInv, replyKey
<1> DEFINE d == Cardinality(Expired)
           n == d + ToEvict(d, Cardinality(DOMAIN Purged))
           es == EntriesWithout(n)
           room == {done[i].key : i \in d + 1 .. n}
<1>0. d \in 0 .. Len(done) /\ Len(done) \in Nat
  BY ExpiredIsPrefix DEF Types
<1>1. Cardinality(DOMAIN Purged) \in Nat
  BY Zenon, <1>0, CutKept DEF Purged
<1>2. n \in d .. Len(done) /\ n \in 0 .. Len(done) /\ 1 .. d \subseteq 1 .. n
  BY <1>0, <1>1, ConstantsAssumption DEF ToEvict
<1>3. /\ c \notin DOMAIN Purged
      /\ entries' = Installed(c, es) /\ done' = Popped(n)
      /\ evicted' = IF c \in DOMAIN entries' THEN (evicted \cup room) \ {c}
                                             ELSE (evicted \cup room) \cup {c}
      /\ UNCHANGED <<now, connSerial, open, executions, ranFor, storedAt, reply>>
      /\ pc[t] = "idle"
      /\ call' = [call EXCEPT ![t] = c] /\ pc' = [pc EXCEPT ![t] = "handler"]
  BY DEF dispatchMiss, beginMiss, Receive
<1> HIDE DEF n
<1>4. /\ done' \in Seq(DoneEntry) /\ es \in [DOMAIN es -> 0 .. executions]
      /\ DOMAIN es = DOMAIN entries \ {done[i].key : i \in 1 .. n}
      /\ \A k \in DOMAIN es : es[k] = entries[k]
      /\ IsFiniteSet(DOMAIN es) /\ Cardinality(DOMAIN es) <= maxEntries
      /\ Queue(es, done')
  BY Zenon, <1>2, <1>3, CutKept
<1>5. DOMAIN Purged = DOMAIN entries \ {done[i].key : i \in 1 .. d}
  BY Zenon, <1>0, CutKept DEF Purged
<1>6. c \notin DOMAIN es
  BY <1>2, <1>3, <1>4, <1>5
<1>7. /\ \A i \in DOMAIN done' :
           /\ done'[i].key \in Key /\ done'[i].at \in 0 .. now
           /\ storedAt[done'[i].key] = done'[i].at
      /\ \A k \in Key : Ran(k) =>
           k \in DOMAIN es \/ k \in evicted \/ k \in room \/ now - storedAt[k] > maxAge
  BY <1>2, <1>3, CutAccounted
<1> HIDE DEF es, d, room
<1>8. /\ DOMAIN entries' \subseteq DOMAIN es \cup {c}
      /\ entries' \in [DOMAIN entries' -> 0 .. executions]
      /\ \A k \in DOMAIN es : k \in DOMAIN entries' /\ entries'[k] = es[k]
      /\ c \in DOMAIN entries' => entries'[c] = InFlight
      /\ IsFiniteSet(DOMAIN entries') /\ Cardinality(DOMAIN entries') <= maxEntries
      /\ Queue(entries', done')
  <2>1. executions \in Nat
    BY DEF Types
  <2>2. entries' = Installed(c, es)
    BY <1>3
  <2>3. /\ DOMAIN Installed(c, es) \in {DOMAIN es, DOMAIN es \cup {c}}
        /\ Installed(c, es) \in [DOMAIN Installed(c, es) -> 0 .. executions]
        /\ \A x \in DOMAIN es : x \in DOMAIN Installed(c, es) /\ Installed(c, es)[x] = es[x]
        /\ c \in DOMAIN Installed(c, es) => Installed(c, es)[c] = InFlight
        /\ IsFiniteSet(DOMAIN Installed(c, es))
        /\ Cardinality(DOMAIN Installed(c, es)) <= maxEntries
        /\ Queue(Installed(c, es), done')
    BY Zenon, <1>4, <1>6, <2>1, InstalledKept
  <2> QED
    BY <2>2, <2>3
<1>9. Types'
  <2>1. /\ pc' \in [Thread -> {"idle", "handler", "done", "reply"}]
        /\ call' \in [Thread -> Key \cup {NoCall}]
    BY <1>3 DEF Types, TypeOK
  <2>2. DOMAIN entries' \subseteq Key
    BY <1>4, <1>8 DEF Types, TypeOK
  <2> QED
    BY <1>3, <1>4, <1>7, <1>8, <2>1, <2>2 DEF Types, TypeOK, Range
<1>10. QueueIsDone'
  BY <1>8 DEF QueueIsDone, Queue
<1>11. Owned'
  <2>1. \A k \in DOMAIN entries' : entries'[k] # InFlight =>
          k \in DOMAIN entries /\ entries'[k] = entries[k]
    BY <1>4, <1>8
  <2> QED
    BY <1>3, <2>1 DEF Owned, Types, TypeOK
<1>12. InFlightExecutes'
  <2> SUFFICES ASSUME NEW k \in DOMAIN entries', entries'[k] = InFlight
               PROVE  \E u \in Thread : pc'[u] \in {"handler", "done"} /\ call'[u] = k
    BY DEF InFlightExecutes
  <2>1. CASE k = c
    BY <1>3, <2>1 DEF Types, TypeOK
  <2>2. CASE k # c
    <3>1. k \in DOMAIN entries /\ entries[k] = InFlight
      BY <1>4, <1>8, <2>2
    <3>2. PICK u \in Thread : pc[u] \in {"handler", "done"} /\ call[u] = k
      BY <3>1 DEF InFlightExecutes
    <3> QED
      BY <1>3, <3>2
  <2> QED
    BY <2>1, <2>2
<1>13. Stamped'
  BY <1>3, <1>7 DEF Stamped
<1>14. Accounted'
  <2> SUFFICES ASSUME NEW k \in Key, Ran(k)'
               PROVE  k \in DOMAIN entries' \/ k \in evicted' \/ now - storedAt[k] > maxAge
    BY <1>3 DEF Accounted
  <2>1. CASE k = c
    BY <1>3, <2>1
  <2>2. CASE k # c
    <3>1. Ran(k)
      BY <1>3, <2>2 DEF Ran, Types, TypeOK
    <3> QED
      BY <1>3, <1>7, <1>8, <2>2, <3>1
  <2> QED
    BY <2>1, <2>2
<1> QED
  BY <1>9, <1>10, <1>11, <1>12, <1>13, <1>14

\* The handler takes effect: its reply is the newest execution.
LEMMA HandlerStep ==
  ASSUME IInv, NEW t \in Thread, handlerCall(t)
  PROVE  IInv'
<1> USE DEF IInv
<1>1. /\ pc[t] = "handler" /\ executions' = executions + 1
      /\ ranFor' = Append(ranFor, call[t])
      /\ reply' = [reply EXCEPT ![t] = executions + 1]
      /\ pc' = [pc EXCEPT ![t] = "done"]
      /\ UNCHANGED <<cacheVars, now, connSerial, open, call, received, storedAt, evicted>>
  BY DEF handlerCall
<1>2. /\ executions \in Nat /\ ranFor \in Seq(Key) /\ Len(ranFor) = executions
      /\ call[t] \in Key
  BY <1>1 DEF Types, TypeOK, Owned
<1>3. /\ ranFor' \in Seq(Key) /\ Len(ranFor') = executions + 1
      /\ \A i \in 1 .. executions : ranFor'[i] = ranFor[i]
      /\ ranFor'[executions + 1] = call[t]
      /\ DOMAIN ranFor' = 1 .. executions + 1 /\ DOMAIN ranFor = 1 .. executions
  BY <1>1, <1>2
<1>4. 0 .. executions \subseteq 0 .. executions + 1
  BY <1>2
<1>5. Types'
  <2>1. /\ pc' \in [Thread -> {"idle", "handler", "done", "reply"}]
        /\ reply' \in [Thread -> 0 .. executions + 1]
    BY <1>1, <1>2, <1>4 DEF Types, TypeOK
  <2>2. entries \in [DOMAIN entries -> 0 .. executions + 1]
        /\ Range(entries) \subseteq 0 .. executions + 1
    BY <1>4 DEF Types, TypeOK
  <2> QED
    BY <1>1, <1>2, <1>3, <2>1, <2>2 DEF Types, TypeOK, cacheVars
<1>6. QueueIsDone' /\ Stamped'
  BY <1>1 DEF QueueIsDone, Stamped, cacheVars
<1>7. Owned'
  <2>1. \A k \in DOMAIN entries : entries[k] # InFlight => entries[k] \in 1 .. executions
    BY <1>2 DEF Types, InFlight
  <2>2. \A k \in DOMAIN entries' : entries'[k] # InFlight => ranFor'[entries'[k]] = k
    BY Zenon, <1>1, <1>3, <2>1 DEF Owned, cacheVars
  <2>3. ASSUME NEW u \in Thread
        PROVE  /\ pc'[u] \in {"handler", "done"} => call'[u] \in Key
               /\ pc'[u] \in {"done", "reply"} =>
                    reply'[u] \in 1 .. executions' /\ ranFor'[reply'[u]] = call'[u]
    BY <1>1, <1>2, <1>3 DEF Owned, Types, TypeOK
  <2> QED
    BY <2>2, <2>3 DEF Owned
<1>8. InFlightExecutes'
  BY Zenon, <1>1 DEF InFlightExecutes, cacheVars, Types, TypeOK
<1>9. Accounted'
  <2>1. \A k \in Key : Ran(k)' => Ran(k)
    BY <1>1, <1>3, <1>2 DEF Ran, Types, TypeOK
  <2> QED
    BY <1>1, <2>1 DEF Accounted, cacheVars
<1> QED
  BY <1>5, <1>6, <1>7, <1>8, <1>9

\* The reply is stored, if the key is still in flight.
LEMMA FinishStep ==
  ASSUME IInv, NEW t \in Thread, dispatchFinish(t)
  PROVE  IInv'
<1> USE DEF IInv, replyKey
<1> DEFINE k == call[t]
           r == reply[t]
<1>1. /\ pc[t] = "done" /\ pc' = [pc EXCEPT ![t] = "reply"]
      /\ UNCHANGED <<now, connSerial, open, call, reply, executions, ranFor, evicted>>
  BY DEF dispatchFinish
<1>2. k \in Key /\ r \in 1 .. executions /\ ranFor[r] = k
  BY <1>1 DEF Owned
<1>3. /\ pc' \in [Thread -> {"idle", "handler", "done", "reply"}]
      /\ \A c \in Key : Ran(c)' => Ran(c)
  BY SMTT(60), <1>1 DEF Ran, Types, TypeOK
<1>4. CASE k \in DOMAIN entries /\ entries[k] = InFlight
  <2> DEFINE e == [key |-> k, at |-> now]
  <2>1. /\ entries' = [entries EXCEPT ![k] = r] /\ done' = Append(done, e)
        /\ storedAt' = [storedAt EXCEPT ![k] = now]
    BY <1>4 DEF dispatchFinish, finish
  <2>2. e \in DoneEntry /\ now \in Nat /\ done \in Seq(DoneEntry)
    BY <1>2 DEF DoneEntry, Types
  <2>3. /\ done' \in Seq(DoneEntry) /\ DOMAIN done' = 1 .. Len(done) + 1
        /\ DOMAIN done = 1 .. Len(done) /\ Len(done) \in Nat
        /\ \A i \in 1 .. Len(done) : done'[i] = done[i]
        /\ done'[Len(done) + 1] = e
    BY <2>1, <2>2
  <2>4. /\ DOMAIN entries' = DOMAIN entries /\ entries'[k] = r
        /\ \A x \in DOMAIN entries : x # k => entries'[x] = entries[x]
        /\ entries' \in [DOMAIN entries -> 0 .. executions]
    BY <1>2, <1>4, <2>1 DEF Types
  <2>5. e.key = k /\ e.at = now
    OBVIOUS
  <2> HIDE DEF e
  <2>6. \A i \in DOMAIN done : done[i].key # k /\ done[i].at \in 0 .. now /\ done[i].key \in Key
    BY <1>4 DEF QueueIsDone, Types, TypeOK
  <2>7. Types'
    <3>1. \A i \in DOMAIN done' : done'[i].key \in Key /\ done'[i].at \in 0 .. now
      BY <1>2, <2>2, <2>3, <2>5, <2>6
    <3>2. storedAt' \in [Key -> Nat]
      BY <1>2, <2>1, <2>2 DEF Types
    <3> QED
      BY <1>1, <1>3, <2>3, <2>4, <3>1, <3>2 DEF Types, TypeOK, Range
  <2>8. QueueIsDone'
    <3>1. ASSUME NEW i \in DOMAIN done', NEW j \in DOMAIN done', i < j
          PROVE  done'[i].key # done'[j].key /\ done'[i].at <= done'[j].at
      <4>1. i \in DOMAIN done /\ done'[i] = done[i]
        BY <2>3, <3>1
      <4>2. CASE j \in DOMAIN done
        BY <2>3, <3>1, <4>1, <4>2 DEF QueueIsDone
      <4>3. CASE j = Len(done) + 1
        BY <2>2, <2>3, <2>5, <2>6, <4>1, <4>3
      <4> QED
        BY <2>3, <4>2, <4>3
    <3>2. ASSUME NEW i \in DOMAIN done'
          PROVE  done'[i].key \in DOMAIN entries' /\ entries'[done'[i].key] # InFlight
      <4>1. CASE i \in DOMAIN done
        BY <2>3, <2>4, <2>6, <4>1 DEF QueueIsDone
      <4>2. CASE i = Len(done) + 1
        BY <1>2, <1>4, <2>3, <2>4, <2>5, <4>2 DEF InFlight
      <4> QED
        BY <2>3, <4>1, <4>2
    <3>3. ASSUME NEW x \in DOMAIN entries', entries'[x] # InFlight
          PROVE  \E i \in DOMAIN done' : done'[i].key = x
      <4>1. CASE x = k
        <5>1. Len(done) + 1 \in DOMAIN done'
          BY <2>3
        <5> QED
          BY <2>3, <2>5, <4>1, <5>1
      <4>2. CASE x # k
        <5>1. PICK i \in DOMAIN done : done[i].key = x
          BY <2>4, <3>3, <4>2 DEF QueueIsDone
        <5> QED
          BY <2>3, <5>1
      <4> QED
        BY <4>1, <4>2
    <3> QED
      BY <3>1, <3>2, <3>3 DEF QueueIsDone
  <2>9. Owned'
    <3>1. \A x \in DOMAIN entries' : entries'[x] # InFlight => ranFor'[entries'[x]] = x
      BY <1>1, <1>2, <2>4 DEF Owned
    <3> QED
      BY <1>1, <3>1 DEF Owned, Types, TypeOK
  <2>10. InFlightExecutes'
    <3> SUFFICES ASSUME NEW x \in DOMAIN entries', entries'[x] = InFlight
                 PROVE  \E u \in Thread : pc'[u] \in {"handler", "done"} /\ call'[u] = x
      BY DEF InFlightExecutes
    <3>1. x # k /\ entries[x] = InFlight /\ x \in DOMAIN entries
      BY <1>2, <2>4 DEF InFlight
    <3>2. PICK u \in Thread : pc[u] \in {"handler", "done"} /\ call[u] = x
      BY <3>1 DEF InFlightExecutes
    <3> QED
      BY <1>1, <3>1, <3>2
  <2>11. Stamped'
    BY SMTT(60), <1>2, <2>1, <2>3, <2>5, <2>6 DEF Stamped, Types
  <2>12. Accounted'
    BY <1>1, <1>2, <1>3, <1>4, <2>1, <2>4 DEF Accounted, Types
  <2> QED
    BY <2>7, <2>8, <2>9, <2>10, <2>11, <2>12
<1>5. CASE ~(k \in DOMAIN entries /\ entries[k] = InFlight)
  <2>1. UNCHANGED <<entries, done, storedAt>>
    BY <1>5 DEF dispatchFinish, finish
  <2>2. Types' /\ QueueIsDone' /\ Stamped'
    BY <1>1, <1>3, <2>1 DEF Types, TypeOK, QueueIsDone, Stamped
  <2>3. Owned'
    BY <1>1, <2>1 DEF Owned, Types, TypeOK
  <2>4. InFlightExecutes'
    BY <1>1, <1>5, <2>1 DEF InFlightExecutes, Types, TypeOK
  <2>5. Accounted'
    BY <1>1, <1>3, <2>1 DEF Accounted
  <2> QED
    BY <2>2, <2>3, <2>4, <2>5
<1> QED
  BY <1>4, <1>5

\* The goroutine ends without a reply, and takes its marker with it.
LEMMA AbandonStep ==
  ASSUME IInv, NEW t \in Thread, dispatchAbandon(t)
  PROVE  IInv'
<1> USE DEF IInv, replyKey
<1> DEFINE k == call[t]
<1>1. /\ pc[t] \in {"handler", "done"} /\ pc' = [pc EXCEPT ![t] = "idle"]
      /\ call' = [call EXCEPT ![t] = NoCall] /\ reply' = [reply EXCEPT ![t] = InFlight]
      /\ evicted' = evicted \cup {k}
      /\ UNCHANGED <<done, now, connSerial, open, executions, ranFor, storedAt>>
  BY DEF dispatchAbandon, Exit
<1>2. /\ pc' \in [Thread -> {"idle", "handler", "done", "reply"}]
      /\ call' \in [Thread -> Key \cup {NoCall}] /\ reply' \in [Thread -> 0 .. executions]
      /\ \A c \in Key : Ran(c)' => Ran(c)
  BY <1>1 DEF Ran, Types, TypeOK, InFlight
<1>3. /\ DOMAIN entries' \subseteq DOMAIN entries
      /\ \A x \in DOMAIN entries' : entries'[x] = entries[x]
      /\ \A x \in DOMAIN entries : x # k \/ entries[x] # InFlight => x \in DOMAIN entries'
      /\ entries' \in [DOMAIN entries' -> 0 .. executions]
      /\ k \in DOMAIN entries' => entries'[k] # InFlight
  BY <1>1 DEF dispatchAbandon, abandon, Restrict, Types
<1>4. IsFiniteSet(DOMAIN entries') /\ Cardinality(DOMAIN entries') <= maxEntries
  <2>1. IsFiniteSet(DOMAIN entries) /\ Cardinality(DOMAIN entries) <= maxEntries
    BY DEF Types, TypeOK
  <2>2. /\ IsFiniteSet(DOMAIN entries')
        /\ Cardinality(DOMAIN entries') <= Cardinality(DOMAIN entries)
    BY <1>3, <2>1, FS_Subset
  <2>3. Cardinality(DOMAIN entries') \in Nat /\ Cardinality(DOMAIN entries) \in Nat
    BY <2>1, <2>2, FS_CardinalityType
  <2> QED
    BY <2>1, <2>2, <2>3, ConstantsAssumption
<1>5. Types'
  BY <1>1, <1>2, <1>3, <1>4 DEF Types, TypeOK, Range
<1>6. QueueIsDone' /\ Stamped'
  <2>1. {x \in DOMAIN entries' : entries'[x] # InFlight}
          = {x \in DOMAIN entries : entries[x] # InFlight}
    BY <1>3
  <2> QED
    BY <1>1, <2>1 DEF QueueIsDone, Stamped
<1>7. Owned'
  <2>1. \A x \in DOMAIN entries' : entries'[x] # InFlight => ranFor'[entries'[x]] = x
    BY <1>1, <1>3 DEF Owned
  <2> QED
    BY <1>1, <2>1 DEF Owned, Types, TypeOK
<1>8. InFlightExecutes'
  <2> SUFFICES ASSUME NEW x \in DOMAIN entries', entries'[x] = InFlight
               PROVE  \E u \in Thread : pc'[u] \in {"handler", "done"} /\ call'[u] = x
    BY DEF InFlightExecutes
  <2>1. x # k /\ entries[x] = InFlight /\ x \in DOMAIN entries
    BY <1>3
  <2>2. PICK u \in Thread : pc[u] \in {"handler", "done"} /\ call[u] = x
    BY <2>1 DEF InFlightExecutes
  <2> QED
    BY <1>1, <2>1, <2>2
<1>9. Accounted'
  BY <1>1, <1>2, <1>3 DEF Accounted
<1> QED
  BY <1>5, <1>6, <1>7, <1>8, <1>9

\* A reply is written, a connection comes or goes, and time passes.
LEMMA OtherSteps ==
  ASSUME IInv,
         \/ \E t \in Thread : writeRecord(t)
         \/ Accept \/ (\E c \in Conn : Close(c)) \/ Tick \/ Done \/ UNCHANGED vars
  PROVE  IInv'
<1> USE DEF IInv
<1>1. ASSUME NEW t \in Thread, writeRecord(t) PROVE IInv'
  <2>1. /\ pc[t] = "reply" /\ pc' = [pc EXCEPT ![t] = "idle"]
        /\ call' = [call EXCEPT ![t] = NoCall] /\ reply' = [reply EXCEPT ![t] = InFlight]
        /\ UNCHANGED <<entries, done, now, connSerial, open, executions, ranFor, storedAt,
                       evicted>>
    BY <1>1 DEF writeRecord, Exit, cacheVars, histVars
  <2>2. /\ pc' \in [Thread -> {"idle", "handler", "done", "reply"}]
        /\ call' \in [Thread -> Key \cup {NoCall}] /\ reply' \in [Thread -> 0 .. executions]
        /\ \A c \in Key : Ran(c)' => Ran(c)
    BY <2>1 DEF Ran, Types, TypeOK, InFlight
  <2>3. Types' /\ QueueIsDone' /\ Stamped'
    BY SMTT(60), <2>1, <2>2 DEF Types, TypeOK, QueueIsDone, Stamped
  <2>4. Owned'
    BY <2>1 DEF Owned, Types, TypeOK
  <2>5. InFlightExecutes'
    BY ZenonT(60), <2>1 DEF InFlightExecutes, Types, TypeOK, replyKey
  <2>6. Accounted'
    BY <2>1, <2>2 DEF Accounted
  <2> QED
    BY <2>3, <2>4, <2>5, <2>6
<1>2. ASSUME \/ Accept \/ (\E c \in Conn : Close(c)) \/ Tick \/ Done \/ UNCHANGED vars
      PROVE  IInv'
  <2>1. /\ UNCHANGED <<entries, done, pc, call, reply, executions, ranFor, storedAt, evicted>>
        /\ connSerial' \in Nat /\ open' \subseteq 1 .. connSerial'
        /\ now' \in Nat /\ now <= now'
    BY <1>2 DEF Accept, Close, Tick, Done, vars, cacheVars, threadVars, histVars, Types,
       TypeOK
  <2>2. Types'
    <3>1. 0 .. now \subseteq 0 .. now'
      BY <2>1 DEF Types
    <3> QED
      BY <2>1, <3>1 DEF Types, TypeOK
  <2>3. QueueIsDone' /\ Stamped' /\ Owned'
    BY <2>1 DEF QueueIsDone, Stamped, Owned
  <2>4. InFlightExecutes'
    BY <2>1 DEF InFlightExecutes, replyKey
  <2>5. Accounted'
    <3>1. \A c \in Key : Ran(c)' => Ran(c)
      BY <2>1 DEF Ran
    <3>2. \A c \in Key : now - storedAt[c] > maxAge => now' - storedAt'[c] > maxAge
      BY SMTT(60), <2>1, ConstantsAssumption DEF Types
    <3> QED
      BY <2>1, <3>1, <3>2 DEF Accounted
  <2> QED
    BY <2>2, <2>3, <2>4, <2>5
<1> QED
  BY <1>1, <1>2

\* The cache starts empty.
LEMMA InitHolds == Init => IInv
<1> SUFFICES ASSUME Init PROVE IInv
  OBVIOUS
<1>1. DOMAIN entries = {} /\ IsFiniteSet({}) /\ Cardinality({}) = 0
  BY FS_EmptySet DEF Init, Empty
<1>2. Types
  <2>1. /\ entries \in [DOMAIN entries -> 0 .. executions] /\ Range(entries) = {}
        /\ done \in Seq(DoneEntry) /\ ranFor \in Seq(Key) /\ DOMAIN done = {}
        /\ Len(ranFor) = 0
    BY <1>1 DEF Init, Empty, Range
  <2> QED
    BY <1>1, <2>1, ConstantsAssumption DEF Init, Types, TypeOK, InFlight
<1>3. QueueIsDone /\ Stamped /\ Owned /\ InFlightExecutes
  BY <1>1 DEF Init, QueueIsDone, Stamped, Owned, InFlightExecutes
<1>4. Accounted
  BY DEF Init, Accounted, Ran
<1> QED
  BY <1>2, <1>3, <1>4 DEF IInv

\* Every step keeps the inductive invariant.
LEMMA StepHolds == IInv /\ [Next]_vars => IInv'
<1> SUFFICES ASSUME IInv, [Next]_vars PROVE IInv'
  OBVIOUS
<1>1. ASSUME NEW t \in Thread, NEW c \in Key,
             dispatchHit(t, c) \/ dispatchInFlight(t, c) \/ dispatchMiss(t, c)
      PROVE  IInv'
  BY <1>1, KnownStep, MissStep
<1>2. ASSUME NEW t \in Thread,
             handlerCall(t) \/ dispatchFinish(t) \/ dispatchAbandon(t) \/ writeRecord(t)
      PROVE  IInv'
  BY <1>2, HandlerStep, FinishStep, AbandonStep, OtherSteps
<1>3. ASSUME Accept \/ (\E c \in Conn : Close(c)) \/ Tick \/ Done \/ UNCHANGED vars
      PROVE  IInv'
  BY <1>3, OtherSteps
<1> QED
  BY <1>1, <1>2, <1>3 DEF Next

\* The inductive invariant holds throughout.
LEMMA Always == Spec => []IInv
BY InitHolds, StepHolds, PTL DEF Spec

-----------------------------------------------------------------------------
(* The theorems *)

\* The cache never holds more than maxEntries keys: with no done entry to
\* evict, begin lets a call run uncached.
THEOREM CacheIsBounded == Spec => []TypeOK
<1>1. IInv => TypeOK
  BY DEF IInv, Types
<1> QED
  BY <1>1, Always, PTL

\* replyCache.done holds every done entry once, oldest first.
THEOREM QueueHoldsDone == Spec => []QueueIsDone
<1>1. IInv => QueueIsDone
  BY DEF IInv
<1> QED
  BY <1>1, Always, PTL

\* A reply, stored or fresh, goes only to the call it was produced for.
THEOREM RepliesGoToTheirCall == Spec => []RepliesAreOwn
<1>1. IInv => RepliesAreOwn
  BY DEF IInv, Owned, RepliesAreOwn
<1> QED
  BY <1>1, Always, PTL

\* A key is in flight only while a goroutine executes its call.
THEOREM InFlightIsExecuting == Spec => []InFlightExecutes
<1>1. IInv => InFlightExecutes
  BY DEF IInv
<1> QED
  BY <1>1, Always, PTL

\* A retransmission runs again only if the original's reply is past its age,
\* or the cache had no room for the call, or the original left no reply.
THEOREM RunsOnce == Spec => ExecutedOnce
<1> DEFINE Once ==
      \A t \in Thread :
        pc[t] = "idle" /\ pc'[t] = "handler" /\ Ran(call'[t]) =>
          call'[t] \in evicted \/ now - storedAt[call'[t]] > maxAge
<1>1. IInv /\ [Next]_vars => [Once]_vars
  <2> SUFFICES ASSUME IInv, Next, NEW t \in Thread, pc[t] = "idle", pc'[t] = "handler",
                      Ran(call'[t])
               PROVE  call'[t] \in evicted \/ now - storedAt[call'[t]] > maxAge
    OBVIOUS
  <2>0. /\ Types /\ QueueIsDone /\ Stamped /\ Accounted
        /\ pc \in [Thread -> {"idle", "handler", "done", "reply"}]
    BY DEF IInv, Types, TypeOK
  <2>1. PICK c \in Key : dispatchMiss(t, c)
    <3>1. ASSUME NEW u \in Thread, NEW c \in Key,
                 dispatchHit(u, c) \/ dispatchInFlight(u, c) PROVE FALSE
      BY <2>0, <3>1 DEF dispatchHit, dispatchInFlight, threadVars
    <3>2. ASSUME NEW u \in Thread,
                 handlerCall(u) \/ dispatchFinish(u) \/ dispatchAbandon(u) \/ writeRecord(u)
          PROVE  FALSE
      BY SMTT(60), <2>0, <3>2 DEF handlerCall, dispatchFinish, dispatchAbandon,
         writeRecord, Exit
    <3>3. ASSUME Accept \/ (\E c \in Conn : Close(c)) \/ Tick \/ Done PROVE FALSE
      BY <3>3 DEF Accept, Close, Tick, Done, vars, threadVars
    <3>4. PICK u \in Thread, c \in Key : dispatchMiss(u, c)
      BY <3>1, <3>2, <3>3 DEF Next
    <3>5. u = t
      BY <2>0, <3>4 DEF dispatchMiss
    <3> QED
      BY <3>4, <3>5
  <2>2. call'[t] = c /\ c \notin DOMAIN Purged
    BY <2>1 DEF dispatchMiss, beginMiss, replyKey, IInv, Types, TypeOK
  <2> DEFINE d == Cardinality(Expired)
  <2>3. d \in 0 .. Len(done) /\ d \in d .. Len(done) /\ d + 1 .. d = {}
    BY <2>0, ExpiredIsPrefix DEF Types
  <2> QED
    BY <2>0, <2>2, <2>3, CutAccounted DEF Purged
<1> QED
  BY <1>1, Always, PTL DEF Spec, ExecutedOnce
=============================================================================
