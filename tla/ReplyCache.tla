------------------------------ MODULE ReplyCache ------------------------------
(***************************************************************************)
(* The duplicate request cache of internal/sunrpc/cache.go, and the part   *)
(* of serveConn and dispatch (rpc.go) that uses it: a retransmission of a  *)
(* non-idempotent call is answered with the bytes of the original instead  *)
(* of being executed again.                                                *)
(*                                                                         *)
(* What is abstracted.                                                     *)
(*  - A reply is the number of the execution that produced it.             *)
(*  - Calls differ in their connection and xid: program, version and       *)
(*    procedure are the same for a call and its retransmission.            *)
(*  - Only non-idempotent calls that reach a handler are received.  The    *)
(*    answers dispatch gives before it asks the cache touch nothing.       *)
(*  - A hold of replyCache.mu is one step, and time passes between steps.  *)
(***************************************************************************)
EXTENDS Integers, Sequences, FiniteSets, Functions

CONSTANTS
  Thread,       \* goroutines that serve requests
  Xid,          \* the xids clients use
  MaxConns,     \* how many connections are made in all
  maxEntries,   \* replyCache.maxEntries
  maxAge,       \* replyCache.maxAge
  maxInFlight,  \* Server.maxInFlight, requests served at once per connection
  MaxCalls,     \* how many records clients send in all
  MaxTime       \* how long the clock runs

ASSUME ConstantsAssumption ==
  /\ MaxConns \in Nat /\ MaxCalls \in Nat /\ MaxTime \in Nat
  /\ maxEntries \in Nat /\ maxAge \in Nat
  /\ maxInFlight \in Nat \ {0}

Conn == 1 .. MaxConns
Key == Conn \X Xid
InFlight == 0         \* the nil a key maps to while its call executes
NoCall == <<0, 0>>
Empty == [k \in {} |-> InFlight]

VARIABLES
  entries,     \* replyCache.entries
  done,        \* replyCache.done
  now,
  connSerial,  \* Server.connSerial
  open,        \* the connections that are not closed
  pc, call, reply,   \* of each goroutine: where it is, <<conn, xid>>, result
  executions,  \* how many calls have been executed
  received,
  \* history
  ranFor,      \* the call each execution was for
  storedAt,    \* when a reply for the key was last stored
  evicted      \* calls the cache holds nothing of, because it let go of them
               \* or never held them for want of room, or because their
               \* handler ended without a reply

cacheVars == <<entries, done>>
threadVars == <<pc, call, reply>>
histVars == <<ranFor, storedAt, evicted>>
vars == <<cacheVars, now, connSerial, open, threadVars, executions, received, histVars>>

Init ==
  /\ entries = Empty
  /\ done = <<>>
  /\ now = 0
  /\ connSerial = 0
  /\ open = {}
  /\ pc = [t \in Thread |-> "idle"]
  /\ call = [t \in Thread |-> NoCall]
  /\ reply = [t \in Thread |-> InFlight]
  /\ executions = 0
  /\ received = 0
  /\ ranFor = <<>>
  /\ storedAt = [k \in Key |-> MaxTime]
  /\ evicted = {}

-----------------------------------------------------------------------------
(* The cache                                                                 *)

\* Mutant: a key without its connection's serial.
replyKeyOfXid(c) == <<1, c[2]>>

replyKey(c) == c

\* Mutant: an entry lives for less than its age.
ExpiredEarly == {i \in DOMAIN done : now - done[i].at >= maxAge}

\* The done entries whose age is past the limit: a prefix of the queue.
Expired == {i \in DOMAIN done : now - done[i].at > maxAge}

\* entries and done after popDone has removed the first n.
Popped(n) == SubSeq(done, n + 1, Len(done))
EntriesWithout(n) == Restrict(entries, DOMAIN entries \ {done[i].key : i \in 1 .. n})

\* How many done entries go to make room for one more, of the e that remain
\* when the d first have expired.
ToEvict(d, e) ==
  LET over == e - maxEntries + 1
      left == Len(done) - d
  IN IF over <= 0 THEN 0 ELSE IF over < left THEN over ELSE left

\* Mutant: with no done entry left, the call's marker breaks the bound.
InstalledAlways(k, es) == [x \in DOMAIN es \cup {k} |-> IF x = k THEN InFlight ELSE es[x]]

Installed(k, es) ==
  IF Cardinality(DOMAIN es) < maxEntries
    THEN [x \in DOMAIN es \cup {k} |-> IF x = k THEN InFlight ELSE es[x]]
    ELSE es

\* The purge that begins every begin, and what it finds of k.
Purged == EntriesWithout(Cardinality(Expired))

beginKnown(k) ==
  /\ k \in DOMAIN Purged
  /\ entries' = Purged
  /\ done' = Popped(Cardinality(Expired))
  /\ UNCHANGED evicted

beginMiss(k) ==
  LET d == Cardinality(Expired)
      n == d + ToEvict(d, Cardinality(DOMAIN Purged))
  IN /\ k \notin DOMAIN Purged
     /\ entries' = Installed(k, EntriesWithout(n))
     /\ done' = Popped(n)
     /\ evicted' = LET gone == evicted \cup {done[i].key : i \in d + 1 .. n}
                   IN IF k \in DOMAIN entries' THEN gone \ {k} ELSE gone \cup {k}

\* Mutant: a reply stored again goes to the end of the queue.
finishAgain(k, r) ==
  /\ entries' = IF k \in DOMAIN entries THEN [entries EXCEPT ![k] = r] ELSE entries
  /\ done' = IF k \in DOMAIN entries THEN Append(done, [key |-> k, at |-> now]) ELSE done
  /\ storedAt' = [storedAt EXCEPT ![k] = now]

finish(k, r) ==
  IF k \in DOMAIN entries /\ entries[k] = InFlight
    THEN /\ entries' = [entries EXCEPT ![k] = r]
         /\ done' = Append(done, [key |-> k, at |-> now])
         /\ storedAt' = [storedAt EXCEPT ![k] = now]
    ELSE UNCHANGED <<entries, done, storedAt>>

\* Mutant: the marker of a call that ends without a reply is kept.
abandonNot(k) == UNCHANGED entries

abandon(k) ==
  entries' = IF k \in DOMAIN entries /\ entries[k] = InFlight
               THEN Restrict(entries, DOMAIN entries \ {k})
               ELSE entries

-----------------------------------------------------------------------------
(* serveConn and dispatch                                                    *)

\* The goroutine that served t's call ends.
Exit(t) ==
  /\ pc' = [pc EXCEPT ![t] = "idle"]
  /\ call' = [call EXCEPT ![t] = NoCall]
  /\ reply' = [reply EXCEPT ![t] = InFlight]

Accept ==
  /\ connSerial < MaxConns
  /\ connSerial' = connSerial + 1
  /\ open' = open \cup {connSerial'}
  /\ UNCHANGED <<cacheVars, now, threadVars, executions, received, histVars>>

Serving(c) == {t \in Thread : pc[t] # "idle" /\ call[t][1] = c}

\* A record is read, and a goroutine starts to dispatch it.
Receive(t, c) ==
  /\ pc[t] = "idle"
  /\ c[1] \in open
  /\ Cardinality(Serving(c[1])) < maxInFlight
  /\ received < MaxCalls
  /\ received' = received + 1
  /\ UNCHANGED <<now, connSerial, open, executions, ranFor, storedAt>>

\* cacheHit: the stored reply is sent.
dispatchHit(t, c) ==
  /\ Receive(t, c)
  /\ beginKnown(replyKey(c))
  /\ Purged[replyKey(c)] # InFlight
  /\ call' = [call EXCEPT ![t] = c]
  /\ reply' = [reply EXCEPT ![t] = Purged[replyKey(c)]]
  /\ pc' = [pc EXCEPT ![t] = "reply"]

\* cacheInFlight: nothing is sent.
dispatchInFlight(t, c) ==
  /\ Receive(t, c)
  /\ beginKnown(replyKey(c))
  /\ Purged[replyKey(c)] = InFlight
  /\ UNCHANGED threadVars

\* cacheMiss: the handler is called.
dispatchMiss(t, c) ==
  /\ Receive(t, c)
  /\ beginMiss(replyKey(c))
  /\ call' = [call EXCEPT ![t] = c]
  /\ pc' = [pc EXCEPT ![t] = "handler"]
  /\ UNCHANGED reply

\* The handler takes effect, and the reply is encoded: of a success, of
\* garbage arguments, of an error or of a panic, it is never empty.
handlerCall(t) ==
  /\ pc[t] = "handler"
  /\ executions' = executions + 1
  /\ ranFor' = Append(ranFor, call[t])
  /\ reply' = [reply EXCEPT ![t] = executions']
  /\ pc' = [pc EXCEPT ![t] = "done"]
  /\ UNCHANGED <<cacheVars, now, connSerial, open, call, received, storedAt, evicted>>

\* The deferred resolution of the key.
dispatchFinish(t) ==
  /\ pc[t] = "done"
  /\ finish(replyKey(call[t]), reply[t])
  /\ pc' = [pc EXCEPT ![t] = "reply"]
  /\ UNCHANGED <<now, connSerial, open, call, reply, executions, received, ranFor, evicted>>

\* The goroutine ends with no reply, as runtime.Goexit in a handler ends it.
dispatchAbandon(t) ==
  /\ pc[t] \in {"handler", "done"}
  /\ abandon(replyKey(call[t]))
  /\ evicted' = evicted \cup {replyKey(call[t])}
  /\ Exit(t)
  /\ UNCHANGED <<done, now, connSerial, open, executions, received, ranFor, storedAt>>

\* writeRecord, of a record the client may never see.
writeRecord(t) ==
  /\ pc[t] = "reply"
  /\ Exit(t)
  /\ UNCHANGED <<cacheVars, now, connSerial, open, executions, received, histVars>>

\* The write fails, or the client goes away; calls in flight run on.
Close(c) ==
  /\ c \in open
  /\ open' = open \ {c}
  /\ UNCHANGED <<cacheVars, now, connSerial, threadVars, executions, received, histVars>>

Tick ==
  /\ now < MaxTime
  /\ now' = now + 1
  /\ UNCHANGED <<cacheVars, connSerial, open, threadVars, executions, received, histVars>>

Done ==
  /\ connSerial = MaxConns /\ now = MaxTime
  /\ received = MaxCalls \/ open = {}
  /\ \A t \in Thread : pc[t] = "idle"
  /\ UNCHANGED vars

Next ==
  \/ Accept
  \/ \E t \in Thread, c \in Key :
       dispatchHit(t, c) \/ dispatchInFlight(t, c) \/ dispatchMiss(t, c)
  \/ \E t \in Thread :
       handlerCall(t) \/ dispatchFinish(t) \/ dispatchAbandon(t) \/ writeRecord(t)
  \/ \E c \in Conn : Close(c)
  \/ Tick
  \/ Done

Spec == Init /\ [][Next]_vars

-----------------------------------------------------------------------------
(* Properties                                                                *)

\* Types, and the bound on the cache: a full one runs calls uncached.
TypeOK ==
  /\ DOMAIN entries \subseteq Key
  /\ Range(entries) \subseteq 0 .. executions
  /\ Cardinality(DOMAIN entries) <= maxEntries
  /\ \A i \in DOMAIN done : done[i].key \in Key /\ done[i].at \in 0 .. now
  /\ open \subseteq 1 .. connSerial
  /\ pc \in [Thread -> {"idle", "handler", "done", "reply"}]
  /\ call \in [Thread -> Key \cup {NoCall}]
  /\ reply \in [Thread -> 0 .. executions]
  /\ Len(ranFor) = executions

\* The queue that purge and eviction walk holds every done entry and nothing
\* else, once each, oldest first: what makes popping its head enough.
QueueIsDone ==
  /\ {done[i].key : i \in DOMAIN done} = {k \in DOMAIN entries : entries[k] # InFlight}
  /\ \A i, j \in DOMAIN done : i < j => done[i].key # done[j].key /\ done[i].at <= done[j].at

\* A call is in a handler, or has run in one, at or since the moment its
\* reply was last stored.
Ran(c) ==
  \/ \E t \in Thread : call[t] = c /\ pc[t] \in {"handler", "done"}
  \/ \E i \in DOMAIN ranFor : ranFor[i] = c

\* No call is given to its handler twice while the cache can tell: a
\* retransmission runs only if the original's reply is past its age, or the
\* cache had no room for the call, or the original ended without a reply.
ExecutedOnce ==
  [][\A t \in Thread :
       pc[t] = "idle" /\ pc'[t] = "handler" /\ Ran(call'[t]) =>
         call'[t] \in evicted \/ now - storedAt[call'[t]] > maxAge]_vars

\* A reply goes only to the connection, and answers only the xid, of the call
\* it was produced for.
RepliesAreOwn ==
  \A t \in Thread : pc[t] = "reply" => ranFor[reply[t]] = call[t]

\* A key is in flight only while a goroutine executes its call: otherwise
\* every retransmission would be dropped in silence, for good.
InFlightExecutes ==
  \A k \in DOMAIN entries : entries[k] = InFlight =>
    \E t \in Thread : pc[t] \in {"handler", "done"} /\ replyKey(call[t]) = k
=============================================================================
