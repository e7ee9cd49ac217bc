# StrataFS in TLA+

Strata serves a file system over loopback NFSv3 and keeps it in an object
store. A bucket holds content-addressed chunks (`chunks/<sha256>`), complete
snapshots of the inode table (`snapshots/<epoch>-<nonce>.json.gz`) and one
mutable object, `root`, which names the current snapshot and is replaced by a
conditional write (`If-Match`). This directory models the parts of strata that
keep state, checks them with TLC and proves the most important results with
TLAPS. `PROJECT.json` maps every definition to the lines it translates.

The repository has a specification of its own, `docs/tla/CommitProtocol.tla`.
The modules here are written from the Go code, not from that specification.

## Inventory

| Part | State | Operations that change it | What is hard about it |
| --- | --- | --- | --- |
| Commit protocol (`blobfs/commit.go`) | root pointer, snapshots; per mount: epoch, ETag and key it descends from, dirty flag, change count, mode, root knowledge | load, seal, snapshot Put, swap, fallback Put and Head, reclaim, probe, apply | several mounts on one bucket; crashes; lost, refused, unsupported and late writes; changes made during the flight |
| Snapshot pruning (`commit.go`) | the pruning flag, the pass's list | schedule, list, delete, end | a list taken once, used while everybody commits |
| File data (`blobfs/fs.go`) | inode size and chunk list; `openFile`: buffers, pending trims, unsettled mark, charge | Write, truncate, flush, settle, seal, unlink, Commit, Sync | four locks, store calls under some of them, unlink racing all of it |
| Budget (`blobfs/budget.go`) | charge, draining, failure, ended | add, release, await, settle | a condition variable, election, cancellation, panics |
| Duplicate request cache (`sunrpc/cache.go`, `rpc.go`) | entries, the queue of done entries, connections, requests in flight | begin, finish, abandon, accept, receive, close | retransmissions at any moment, age, a full cache |
| Namespace (`fs.go`, `inode.go`) | the inode table, handles at the clients, listings in progress | Create, Mkdir, Symlink, Remove, Rmdir, Rename, ReadDir, commit, remount | renames across directories, reuse of numbers after a crash, pages of a changing directory |
| Attributes and policy (`fs.go`, `policy/policy.go`) | mode, owner, group, size | SetAttr, Read, unlink | check, wait for a lock, check again |
| Chunks (`blobfs/cache.go`, `loadChunk`, `putChunk` and the known set in `fs.go`) | the LRU list, its byte count and limit; the hashes known to be stored | get, put, load, upload, mark known | slices that share an array with a buffer still written to; failed and late uploads; objects that rot |
| Stores (`store/`) | the bucket | Put, PutIfMatch, Delete, Get, Head, List | retries of an attempt whose fate is unknown |
| NFS WRITE and COMMIT, and the process (`nfs/nfs3.go`, `cmd/strata/main.go`) | the write verifier; the client's pages | WRITE, COMMIT, the committer, shutdown, crash, restart | when a client may forget a page; retransmissions; the final commit racing the handlers |
| The other NFS procedures, MOUNT, XDR (`nfs/`, `xdr/`) | none | handlers around `vfs.FS` | not modelled |
| `fsm/`, `vfs/`, the bucket self-test, scripts | none of their own | | not modelled |

They interact as follows. A WRITE goes through RPC dispatch, waits for the
budget, buffers its bytes in an `openFile` and charges the budget. A COMMIT, a
stable WRITE, the committer's ticker or a budget drain runs `Sync`. That flushes
buffers to chunks, closes the commit gate, settles truncated files, seals the
inode table and then, without the gate, uploads the snapshot and swaps the root
pointer. A successful swap may start a prune pass.

## Modules

| Module | Models |
| --- | --- |
| `DurableNamespace` | what a bucket promises its mounts: the abstract specification |
| `RootCommit` | the commit protocol, pruning, load, the mode and knowledge machines |
| `RootCommitInv` | the inductive invariant of `RootCommit` |
| `RootCommitProofs` | its proofs |
| `FileData` | the data path of one file |
| `FileDataInv` | the inductive invariant of `FileData` |
| `FileDataSteps`, `FileDataProofs` | its proofs: the lemmas for each kind of step, and the theorems |
| `ChunkStore`, `ChunkStoreProofs` | chunks between the bucket, the cache and the buffers, and its proofs |
| `NfsWrites`, `NfsWritesProofs` | a WRITE from the client's page to the bucket, through the life of the process, and its proofs |
| `Budget`, `BudgetProofs` | write backpressure, and its proofs |
| `ReplyCache`, `ReplyCacheProofs` | the duplicate request cache, and its proofs |
| `Namespace`, `NamespaceProofs` | the inode table, handles and listings, and its proofs |
| `Attributes` | permission checks of SetAttr and Read |
| `MC*` | bounds, model values and symmetry for TLC |

How state and actions correspond to the code:

- **RootCommit.** The bucket is `root`, `stored` and `body`; an ETag is the key
  of the root pointer it belongs to. Each mount has a program counter that
  stands between two store calls, so each call of `loadOrInit`, `Sync`,
  `commitSealed`, `resolveRoot` and `pruneSnapshots` is one step. Everything
  done in a hold of `FS.mu` belongs to the step that makes it. A namespace is
  the set of changes it holds. Faults are actions: `SwapUnknown` (the reply is
  lost, with the write applied or not), `SwapDelayed` (the write joins `late`
  and `ApplyLate` may apply it at any time), `SwapUnsupported`, `SwapNoETag`,
  failed reads, puts, lists and deletes, and `Crash`.
- **FileData.** A byte is the number of the write that stored it. `ofmu`,
  `gateWriter`/`gateReaders` and `commitMu` are the locks held across store
  calls; a hold of `FS.mu` is one step. The history variables `held`,
  `sinceCut` and `sinceCall` record what each place held, and when. The flight
  of a commit is one step that succeeds or fails.
- **ChunkStore.** A file is one chunk, stored, buffered or both. A slice is its
  bytes and the array they are in, so that a write to a buffer reaches every
  slice of its array: what the cache keeps and what a load has returned. Each
  store call is a step, and so is each attempt of a retried PUT. A failed
  attempt has stored the object, will store it later (`Arrives`), or neither.
  `Rots` damages an object.
- **NfsWrites.** The client is external: it has a page for each block, which is
  `dirty`, `sent`, `unstable`, `committing`, `clean` (forgotten) or `failed`
  (the application was told). The verifier is `boot`, the number of the
  process. The handlers of WRITE and COMMIT, the committer and the final commit
  of `run` are goroutines that share one `Sync`: a flush, a seal under
  `commitMu`, and a flight that succeeds or fails with the root pointer replaced
  or not. `phase` is the process: down, serving, or stopping once serving has
  ended and the final commit runs.
- **Budget.** A hold of `budget.mu` is a step, except in the loop of `await`.
  `sync.Cond` is a set of parked threads that a broadcast wakes.
- **ReplyCache.** A reply is the number of the execution that made it; time is
  a bounded counter.
- **Namespace.** Every operation is one hold of `FS.mu`. The refusals of an
  operation are its guards, and a refused one changes nothing.
- **Attributes.** One inode; a thread that waits for a lock is one that has not
  taken its next step.

The modules compose by assumption. `Budget` takes from `FileData` and
`RootCommit` that a drain ends, `FileData` takes from `RootCommit` that a flight
either stores the sealed namespace or fails, and `Namespace` takes a commit as
one step. `NfsWrites` composes the handlers, the buffers, `Sync`, the committer
and the process; it takes from `RootCommit` that a failed flight may have
replaced the root pointer, and from `FileData` what a flush does. `ChunkStore`
opens the store calls that are one step of a flush there. Only `RootCommit` is
tied to its abstract specification formally.

## Runs

| Run | Checks | Distinct states |
| --- | --- | --- |
| `commit_mounts` | two writers on one bucket and a fault of any kind, a late write included, or certain pairs: the root pointer's snapshot exists, no acknowledged change is lost, prune passes stay below the root, the root only advances, and together they implement `DurableNamespace` | 0.4 M |
| `commit_single` | one writer with `-allow-unconditional-root` and up to two faults: no acknowledged change is lost, it never diverges on its own commit, changes are committed, doubts settled, prune passes ended | 0.16 M |
| `commit_late_put` | violated: see Findings | |
| `file_data` | writes, truncates and COMMITs of two threads, and three with an unlink: reads return what was written, no removed byte is committed, a COMMIT covers its writes, every named chunk is stored, trims are sound, the seal never refuses, the charge is exact | 0.6 M |
| `chunk_store` | the cache serves only what its keys name, a loaded slice does not change under its reader, the charge is the sum of the entries and within the limit, and what is named or known is in the bucket | 2.3 M |
| `chunk_rot` | violated: see Findings | |
| `nfs_writes` | a page the client has forgotten is durable, a clean exit has committed all that was written before serving ended, and every write comes to rest | 0.1 M |
| `nfs_rewrite` | violated: see Findings | |
| `budget` | no lost wake-up, the bound, whose failure or cancellation a call returns, and that every call returns | 0.1 M |
| `reply_cache` | a call is executed once while the cache can tell, replies go to their calls, nothing stays in flight for good | 1.5 M |
| `namespace` | the table is a tree, link counts, handles go stale rather than change their object, listings are exact | 0.5 M |
| `attributes` | every change and every read is allowed by the inode as it stands at that moment | 1.4 M |

### Bounds

- `RootCommit`: two mounts are enough for every race between writers, since a
  swap is between one mount and whatever the root pointer has become. Retention
  is 1, so a pass deletes as soon as two snapshots are superseded. Epochs leave
  room for a commit, a lost one, and commits on top. With two mounts a nonce
  allows two attempts at an epoch: of the two mounts, or an attempt and its
  repeat. Faults have weights: with two mounts there is one of any kind, or a pair of failed
  reads and Deletes, or one of these with an unsupported swap, whose reclaim
  reads and deletes; with one mount there are any two. No run has a read-only mount,
  whose steps are a part of a writer's. The proofs need none of these bounds and
  cover any set of read-only mounts.
- `FileData`: two chunks, writes that cross a chunk, cover one, and run past
  the size limit; truncates inside either chunk. Three loads (`MCLoads`): two
  threads and four calls, so that the shortest bad sequences (truncate,
  truncate, write, commit) fit; two threads with stable writes and an unlink;
  three threads with an unlink. One store call fails. The proofs need none of
  these bounds.
- `ChunkStore`: chunks of two sizes and limits with room for both, for either or
  only for the smaller, so that a chunk is evicted, or too large to keep. Two
  files share chunks between two goroutines. A PUT is tried twice, and two
  faults let both attempts fail, or one fail and an object rot.
- `NfsWrites`: one block that is written twice, two handlers beside the
  committer and the final commit. There is one fault: a crash, a shutdown, a
  failed store call or a lost reply. No request is received again while it executes; the run
  `nfs_rewrite` shows what happens then. The proofs cover any number of blocks,
  handlers and faults.
- `Budget`: a limit of two chunks and writes of up to two, with a third thread
  so that one drains while two wait. Four calls let one come back.
- `ReplyCache`: two entries and three goroutines fill the cache; two xids and
  two connections collide. A tick of the clock is longer than the age
  (`maxAge` is 0), so that the queue may hold an expired entry before a fresh one.
- `Namespace`: three kinds of behaviour have bounds of their own (`MCBounds`):
  deep trees with crashes, listings of three names, and listings across a
  restart. The proofs need none of them.
- `Attributes`: root and two users who share a group; a mode that gives the
  owner less than the others.

Symmetry is used over changes, mounts that all write, threads, files and xids,
in runs of safety properties only. Deadlock is checked in every run: when the
bounds are used up only idle steps are left (a Sync of a clean or diverged mount,
a commit of what is committed, `Idle` or `Done` once every call has returned), so
a thread stuck in a call would be reported. In `NfsWrites` the committer goes on
for ever and in `ChunkStore` calls do, so there a stuck thread is a matter of
`WritesSettle`, and of no property for the chunks, whose calls wait for nothing
but the file's lock.

### Fairness

`commit_single` assumes weak fairness of a mount's commit steps and prune steps:
the committer's ticker (`commit.go`, `committer`) calls `Sync` again for as long
as the mount lives, and a store call returns or fails in the end. Clients, loads
and faults are not assumed to happen; the number of faults is bounded.
`budget` assumes weak fairness of the threads in `await` and of the callbacks
that `context.AfterFunc` starts, which is Go's scheduler, and that a drain
returns. `nfs_writes` assumes weak fairness of the client's write-back, of the
handlers, of a restart and of an exit, and strong fairness of `Sync`: a goroutine
waits for `commitMu`, which `sync.Mutex` passes on to a waiter it has starved,
while the committer takes it again and again. Every other run is safety only.

## Findings

- `commit_late_put`. The comment of `pruneSnapshots` (`commit.go:770`) says the
  pass cannot delete the snapshot the root pointer names, and that on the
  unconditional fallback this is a single writer's guarantee. An unconditional
  Put that applies late moves the root pointer back to a key which a later pass
  of the same writer has deleted.
- `nfs_rewrite`. `docs/adr/0002-duplicate-request-cache.md:180` says of a second
  execution "For idempotent procedures that is harmless", and the comment of
  `Idempotent` (`nfs3.go:39`) that a replayed write puts the same bytes at the
  same offset. A WRITE that arrives again while it executes gets a goroutine of
  its own. Once the first one has replied the client may write the same range
  again, and the second execution then puts the old bytes over the new ones. If
  no copy arrives during an execution, replays are harmless (`ReplaysAreHarmless`).
- `chunk_rot`. The comment of `putChunk` (`fs.go:1261`) says that an object that
  exists is necessarily the right one. A HEAD that finds a rotted object lets a
  flush name it and drop the buffer that held the right bytes.

A fourth case is recorded by the repository itself and has no run: a conditional
write that applies after the read that settled its doubt makes a mount diverge
on its own commit (ADR 0022, section 3, Assumption 30). It is why
`DivergesOnAnother` assumes that no write applies late; `commit_mounts` includes
such writes and shows that no acknowledged change is lost by them.

## Proofs

`RootCommit`, for every set of mounts, changes, retention, bound and mix of
faults, from `ConstantsAssumption`:

- `TypeCorrect`: `TypeOK`. Strengthened by `SealedTyped`: a commit in flight has
  a key.
- `RootIsLoadable`, `AcksAreKept`, `PruneStaysBelowRoot`, `RootOnlyAdvances`,
  assuming `~AllowUnconditionalRoot`. None of the four is inductive: each rests
  on what a mount remembers of a root pointer that may have moved on since. The
  invariant `Inductive` (`RootCommitInv`) says of every key that a mount, a late
  write or a prune pass holds that it is `Past`: the root pointer names it, or
  named it at an earlier epoch and has kept what it holds. A write in flight
  `Descends` from the key it is conditioned on, and while the root pointer is
  still that key its snapshot is in the bucket. Hence a swap that takes effect
  moves the root pointer one epoch up to a snapshot that exists, and a pass
  deletes only below it. The module begins with lemmas for what a step leaves
  alone and for the steps that do not write the root pointer; the other steps
  and the theorems follow.
- `DivergesOnAnother`, assuming also that no write applies late. `OwnInv` adds
  that a running mount still knows the root pointer it wrote to be its own: as
  the key it descends from, the attempt in doubt or the one in flight.
- `Refinement`: `Spec => ImplementsDurableNamespace`, with `durable` the
  contents of the snapshot the root pointer names, and a mount's view taking
  effect when the root pointer is read. `MadeInv` adds that nothing is stored
  that no client asked for. Late writes are included.

`Budget`, for every finite set of threads, limit and number of calls:

- `TypeCorrect`, `NoLostWakeup`, `ChargeIsBounded`, `FailuresReachParked`,
  `CancellationsAreOwn`. The invariant adds that one call goes round the loop
  and one drains (`OneHolder`), that a call owed a failure is about to find it
  (`OwedFails`), and that what admitted calls have yet to charge is in the bound
  already (`RoomReserved`).

`ReplyCache`, for every set of goroutines and xids, limit, age and number of
calls:

- `CacheIsBounded`, `QueueHoldsDone`, `RepliesGoToTheirCall`,
  `InFlightIsExecuting`, `RunsOnce`. The cache changes in two ways: `begin` and
  `finish` change one key, and `purge` and eviction remove a prefix of the
  queue of done entries. Taking away any prefix leaves the queue exact
  (`CutKept`). The prefix that `purge` removes holds only expired entries,
  because the queue is in the order of age (`ExpiredIsPrefix`). So a call that ran and
  is no longer in the cache is past its age or was let go for room
  (`Accounted`), which is what `RunsOnce` needs.

`ChunkStore`, for every set of chunks, files and goroutines, sizes, limits,
attempts and faults, assuming `Verify` (the mount does not skip verification):

- `CacheIsRight`, `LoadsAreRight`, `KnownIsStored`. The invariant adds that every
  entry of the cache has an array of its own, that a flush holds its file's
  lock, so that the buffer it uploads stays what its hash was taken of
  (`Calls`), and that what a goroutine found in the bucket is still there
  (`Stored`), since nothing deletes chunks.

`NfsWrites`, for every set of blocks and goroutines and every number of writes
and faults, assuming `NoOverlaps` (a request is received again only once its
execution has ended):

- `ForgottenIsDurable`, `CleanExitIsComplete`, `ReplaysAreHarmless`. The versions
  of a block only grow on their way from the bucket to the client (`Ordered`). A
  clean mount holds what is durable, and an unchanged count since the seal means
  that the seal holds all (`Sealing`). `Covered` follows a version through the
  places of `Sync`: in memory before the flush, in the chunk list after it, in
  the seal, and then in the bucket. `Pages` says what the client may conclude:
  an unstable page whose verifier is the process's is still in its memory.

`FileData`, for every set of threads, chunk size, size limit, initial size and
number of faults, and every finite set of loads, from `ConstantsAssumption` (a
range a client writes begins below the size limit and is not empty, a size it
truncates to is within the limit):

- `TypesAlways`, `ReadsHeldAlways`, `NoCutByteIsSealed`, `SealSettledAlways`,
  `CommitCoversAlways`, `RefsStoredAlways`, `TrimsSoundAlways`,
  `ChargeExactAlways`: every property of the run. The invariant `Inv`
  (`FileDataInv`) has four layers.
  - Control: who holds `openFile.mu`, `commitMu` and the gate at each label
    (`LockInv`, `GateInv`), which entry of `FS.open` a thread works on
    (`EntryInv`, `FreshInv`), and that between the settle pass and the seal no
    file is marked (`MarkInv`), because truncates wait at the gate.
  - Accounts: the budget is the file's charge and the one on its way
    (`ChargeInv`), every reference is stored, those a flush is about to set
    included (`StoredInv`), and a trim stands for the last stored chunk of the
    list, which is not buffered (`TrimInv`).
  - Contents: buffers, trims and chunk list together show what the file holds
    and zeros past its end, also halfway through a write or a flush (`HeldInv`).
    Zeros past the end are what makes a later extension sound. A list whose file
    is not marked shows no byte cut off (`CutInv`).
  - Commits: at each label of a commit, what it has yet to store is the file,
    then the flushed list, then the seal, then what is in the bucket, and each
    shows only what a place held since the call (`CoverInv`). A clean namespace
    is the committed one, and an unchanged count since the seal means that the
    seal is the file (`CleanInv`).

  `FileDataSteps` has the arithmetic of places and chunks, the control layer, the
  steps that leave the buffers alone and what a commit covers. `FileDataProofs`
  has the steps that fill, cut, store and drop buffers, and the theorems.

`Namespace`, for every number of names and inodes and every kind of behaviour,
from `ConstantsAssumption`:

- `TreeKept`, `LinksKept`, `HandlesSafe`, `ListingsExact`. The invariant `Inv`
  states of the table in memory and of the committed one, since a crash
  exchanges them, that it is a tree with exact link counts. A tree has no set of
  inodes other than the root that is closed under parents; a rename keeps this
  because `isAncestor` refuses a move below what is moved. Of handles it states
  that two handles with one number and one generation are of one object. That
  holds because a number is used again only by a later mount, at a later time.
  For listings it adds that while the verifier is still the directory's, what a
  client has read is a prefix of the directory's order.

Only model-checked:

- liveness, which is out of the prover's reach (`ChangesCommitted`,
  `DoubtSettled`, `PruneEnds`, `AwaitReturns`, `WritesSettle`);
- the safety of the unconditional fallback (`commit_single`), which holds only
  without late writes and for one mount;
- `CacheAccounts`, a sum over a sequence, whose proof needs induction over data;
- `DoneAsAllowed` of `Attributes`.

## Not modelled

- Times, the text of errors, log records and statistics: nothing depends on
  them but the generation of an inode, which `Namespace` has.
- Request signing, XDR and the wire formats: pure conversions.
- The NFS procedures but WRITE and COMMIT: they translate arguments around one
  call of `vfs.FS`. UNCHECKED CREATE with a size is the exception: it
  makes a second one, a SetAttr of the size.
- Flags, the bucket self-test and the scripts: sequential I/O.
- The pages of a listing of the bucket and the temporary files of the local
  store: a listing and a Put are one step.
- The compare-and-swap loop of `fsm.Atomic` is one step: only `resolveRoot`
  fires the mount's mode, with `commitMu` held.
- A wall clock set back across a restart, which could repeat a generation.
- The policy's rows for times and directory entries, and the attributes given
  at creation.

## Plan

The order followed is by what a fault would cost: first the commit protocol with
its abstract specification and proofs, then the data path of a file,
backpressure, the reply cache, the namespace and the permissions; then the path
of a WRITE from the client to the bucket, and the chunks.

What would come next:

1. A proof of `DoneAsAllowed`, and a refinement that ties the flight of `FileData`
   to `RootCommit`.
2. The pages of List under a prune pass.
3. The remaining rows of the policy, the attributes given at creation, and the
   CREATE handler.
