------------------------------- MODULE Namespace ------------------------------
(***************************************************************************)
(* The inode table of internal/blobfs/fs.go: creating, removing and        *)
(* renaming entries, the handles clients keep across all of it and across  *)
(* a crash, and the directory listings they read a page at a time.         *)
(*                                                                         *)
(* What is abstracted.                                                     *)
(*  - Every operation is one hold of FS.mu, so one step.  An operation     *)
(*    that fails changes nothing: only the ones that succeed are steps,    *)
(*    with the refusals as their guards.  Permissions: module Attributes.  *)
(*  - Names are numbers, so that they sort; times but the generation are   *)
(*    left out, and the contents of files are module FileData's.           *)
(*  - A commit is one step, of module RootCommit's many.                   *)
(*  - An inode's generation is the time of its creation.  The clock moves  *)
(*    on across a restart; within a mount numbers are not used twice.      *)
(*  - dirVerifier's hash tells listings apart.                             *)
(***************************************************************************)
EXTENDS Integers, Sequences, FiniteSets, SequencesExt

CONSTANTS
  MaxName,  \* the names in a directory are 1 .. MaxName
  MaxIno,   \* the highest inode number
  Bounds    \* how many of these there are in all, one record for each kind
            \* of behaviour: inodes created, changes to the namespace,
            \* crashes of the mount and pages of listings

ASSUME ConstantsAssumption ==
  /\ MaxName \in Nat /\ MaxIno \in Nat
  /\ Bounds \subseteq [names : 1 .. MaxName, objects : Nat, changes : Nat, crashes : Nat,
                       pages : Nat]

rootInodeID == 1
NoIno == 0
Name == 1 .. MaxName
Dot == -1
DotDot == 0
NoListing == [dir |-> <<>>, cookie |-> 0, verf |-> {}, got |-> <<>>, eof |-> FALSE]

VARIABLES
  inodes,      \* FS.inodes: of each number in use, its fields
  nextIno,     \* FS.nextIno
  committed,   \* the inodes and next_ino of the root pointer's snapshot
  clock,
  changes,
  listing,     \* a client's reading of a directory, page by page
  pages,
  bound,       \* the member of Bounds the behaviour keeps to
  \* history
  objects,     \* how many inodes have been created
  handles      \* each handle given out, with the object it was given out for

vars == <<inodes, nextIno, committed, clock, changes, listing, pages, bound, objects,
          handles>>

encodeHandle(id, gen) == <<id, gen>>

Root == [gen |-> 1, dir |-> TRUE, nlink |-> 2, parent |-> NoIno, entries |-> <<>>, obj |-> 0]

\* initEmpty, and the commit that ends it.
Init ==
  /\ inodes = [i \in {rootInodeID} |-> Root]
  /\ nextIno = rootInodeID + 1
  /\ committed = [inodes |-> inodes, nextIno |-> nextIno]
  /\ clock = 2
  /\ changes = 0
  /\ listing = NoListing
  /\ pages = 0
  /\ bound \in Bounds
  /\ objects = 0
  /\ handles = {[handle |-> encodeHandle(rootInodeID, 1), obj |-> 0]}

-----------------------------------------------------------------------------
\* Mutant: the generation is not compared.
resolvesById(h) == h[1] \in DOMAIN inodes

resolves(h) == h[1] \in DOMAIN inodes /\ inodes[h[1]].gen = h[2]

\* A handle a client has, of a directory.
DirHandle(h) == resolves(h) /\ inodes[h[1]].dir
Handles == {x.handle : x \in handles}

markDirty == changes < bound.changes /\ changes' = changes + 1

WithEntry(es, name, id) == [x \in DOMAIN es \cup {name} |-> IF x = name THEN id ELSE es[x]]
WithoutEntry(es, name) == [x \in DOMAIN es \ {name} |-> es[x]]
Without(ids) == [i \in DOMAIN inodes \ ids |-> inodes[i]]

\* createEntry and allocInode: of a new name, with no inode to share.
createEntry(h, name, dir) ==
  LET d == h[1]
      new == [gen |-> clock, dir |-> dir, nlink |-> IF dir THEN 2 ELSE 1, parent |-> d,
              entries |-> <<>>, obj |-> objects + 1]
      grown == [inodes[d] EXCEPT !.entries = WithEntry(@, name, nextIno),
                                 !.nlink = @ + (IF dir THEN 1 ELSE 0)]
  IN /\ DirHandle(h)
     /\ name \notin DOMAIN inodes[d].entries
     /\ nextIno <= MaxIno /\ objects < bound.objects
     /\ markDirty
     /\ inodes' = [i \in DOMAIN inodes \cup {nextIno} |->
                     IF i = nextIno THEN new ELSE IF i = d THEN grown ELSE inodes[i]]
     /\ nextIno' = nextIno + 1
     /\ objects' = objects + 1
     /\ handles' = handles \cup {[handle |-> encodeHandle(nextIno, clock), obj |-> objects']}
     /\ UNCHANGED <<committed, clock, listing, pages, bound>>

\* What relink takes from a directory's count when n leaves it.
LinkOf(n) == IF n.dir THEN 1 ELSE 0

\* Remove and Rmdir.  A file has one link, so its inode goes with its name.
unlink(h, name) ==
  LET d == h[1]
      id == inodes[d].entries[name]
  IN /\ DirHandle(h)
     /\ name \in DOMAIN inodes[d].entries
     /\ inodes[id].entries = <<>>
     /\ markDirty
     /\ inodes' = [Without({id}) EXCEPT ![d].entries = WithoutEntry(@, name),
                                        ![d].nlink = @ - LinkOf(inodes[id])]
     /\ UNCHANGED <<nextIno, committed, clock, listing, pages, bound, objects, handles>>

\* Mutant: only the directory itself is looked at, not what is above it.
isAncestorOnly(a, node) == a = node

\* a is at or above node: the climb from node by parents, which ends at the
\* root, goes through it.  It is then in every set that holds node and, with
\* each inode but the root, that inode's parent.  The loop's ways out of
\* a table that is no tree are never taken: IsTree.
isAncestor(a, node) ==
  \A s \in SUBSET DOMAIN inodes :
    node \in s /\ (\A i \in s \ {rootInodeID} : inodes[i].parent \in s) => a \in s

\* The victim may be replaced: there is none, or it is like what is moved,
\* and empty.
Replaceable(dst, name, moving) ==
  name \in DOMAIN inodes[dst].entries =>
    LET victim == inodes[inodes[dst].entries[name]]
    IN victim.dir = inodes[moving].dir /\ victim.entries = <<>>

Victims(dst, name) ==
  IF name \in DOMAIN inodes[dst].entries THEN {inodes[dst].entries[name]} ELSE {}

\* Mutant: a directory that is replaced keeps its link to its parent.
LinksAfterKeepsVictim(d, src, dst, moving, victims) ==
  inodes[d].nlink
    - (IF d = src /\ src # dst THEN LinkOf(inodes[moving]) ELSE 0)
    + (IF d = dst /\ src # dst THEN LinkOf(inodes[moving]) ELSE 0)

\* The link count of directory d after both relinks of a rename.
LinksAfter(d, src, dst, moving, victims) ==
  inodes[d].nlink
    - (IF d = dst /\ \E v \in victims : inodes[v].dir THEN 1 ELSE 0)
    - (IF d = src /\ src # dst THEN LinkOf(inodes[moving]) ELSE 0)
    + (IF d = dst /\ src # dst THEN LinkOf(inodes[moving]) ELSE 0)

Rename(from, fromName, to, toName) ==
  LET src == from[1]
      dst == to[1]
      moving == inodes[src].entries[fromName]
      victims == Victims(dst, toName)
      entriesOf(d) ==
        LET left == IF d = src THEN WithoutEntry(inodes[d].entries, fromName)
                               ELSE inodes[d].entries
        IN IF d = dst THEN WithEntry(left, toName, moving) ELSE left
  IN /\ DirHandle(from) /\ DirHandle(to)
     /\ fromName \in DOMAIN inodes[src].entries
     /\ ~(inodes[moving].dir /\ isAncestor(moving, dst))
     /\ victims # {moving}
     /\ Replaceable(dst, toName, moving)
     /\ markDirty
     /\ inodes' = [i \in DOMAIN inodes \ victims |->
                     IF i = moving THEN [inodes[i] EXCEPT !.parent = dst]
                     ELSE IF i \in {src, dst}
                     THEN [inodes[i] EXCEPT !.entries = entriesOf(i),
                             !.nlink = LinksAfter(i, src, dst, moving, victims)]
                     ELSE inodes[i]]
     /\ UNCHANGED <<nextIno, committed, clock, listing, pages, bound, objects, handles>>

-----------------------------------------------------------------------------
\* What is committed shows after a crash: it is not recorded once none can follow.
Commit ==
  /\ committed' = IF clock < bound.crashes + 2 THEN [inodes |-> inodes, nextIno |-> nextIno]
                  ELSE committed
  /\ UNCHANGED <<inodes, nextIno, clock, changes, listing, pages, bound, objects, handles>>

\* A crash, and the mount that loads what was committed (loadOrInit).
Remount ==
  /\ clock < bound.crashes + 2
  /\ inodes' = committed.inodes
  /\ nextIno' = committed.nextIno
  /\ clock' = clock + 1
  /\ UNCHANGED <<committed, changes, listing, pages, bound, objects, handles>>

-----------------------------------------------------------------------------
(* ReadDir                                                                   *)

Names(d) == DOMAIN inodes[d].entries

\* Mutant: the verifier is the number of names.
dirVerifierCounts(d) == {Cardinality(Names(d))}

dirVerifier(d) == Names(d)

\* The names in cookie order, sorted: "." and ".." come first.
Sorted(names) ==
  LET s == names \cup {Dot, DotDot}
  IN [i \in 1 .. Cardinality(s) |-> CHOOSE x \in s : Cardinality({y \in s : y <= x}) = i]

All(d) == Sorted(Names(d))

\* The client asks for the page after its cookie, and gets n entries of it:
\* as many as fit, one at least.
ReadDir(h, n) ==
  LET d == h[1]
      l == IF listing.eof \/ listing.dir # h THEN NoListing ELSE listing
      last == l.cookie + n
  IN /\ DirHandle(h)
     /\ pages < bound.pages
     /\ l.cookie # 0 => l.verf = dirVerifier(d)
     /\ last <= Len(All(d))
     /\ listing' = [dir |-> h, cookie |-> last, verf |-> dirVerifier(d),
                    got |-> l.got \o SubSeq(All(d), l.cookie + 1, last),
                    eof |-> last = Len(All(d))]
     /\ pages' = pages + 1
     /\ UNCHANGED <<inodes, nextIno, committed, clock, changes, bound, objects, handles>>

\* NFS3ERR_BAD_COOKIE, or a stale handle: the client gives the listing up.
ReadDirFails ==
  /\ listing # NoListing /\ ~listing.eof
  /\ \/ ~resolves(listing.dir)
     \/ resolves(listing.dir) /\ listing.verf # dirVerifier(listing.dir[1])
  /\ listing' = NoListing
  /\ UNCHANGED <<inodes, nextIno, committed, clock, changes, pages, bound, objects, handles>>

Next ==
  \/ \E h \in Handles, name \in 1 .. bound.names :
       (\E dir \in BOOLEAN : createEntry(h, name, dir)) \/ unlink(h, name)
  \/ \E from, to \in Handles, a, b \in 1 .. bound.names : Rename(from, a, to, b)
  \/ Commit
  \/ Remount
  \/ \E h \in Handles, n \in 1 .. MaxName + 2 : ReadDir(h, n)
  \/ ReadDirFails

Spec == Init /\ [][Next]_vars

-----------------------------------------------------------------------------
(* Properties                                                                *)

\* The inodes a directory's entries name.
Children(i) == {inodes[i].entries[x] : x \in Names(i)}

\* The table is a tree: an entry always names an inode that knows the
\* directory it is in, an inode has one name only, and every inode can be
\* reached from the root, since no set of inodes is closed under parents: no
\* rename has cut a subtree off.
IsTree ==
  /\ \A i \in DOMAIN inodes : \A x \in Names(i) :
       LET id == inodes[i].entries[x]
       IN id \in DOMAIN inodes /\ inodes[id].parent = i
  /\ \A i \in DOMAIN inodes : Cardinality(Children(i)) = Cardinality(Names(i))
  /\ \A i \in DOMAIN inodes \ {rootInodeID} : i \in Children(inodes[i].parent)
  /\ \A s \in (SUBSET (DOMAIN inodes \ {rootInodeID})) \ {{}} :
       \E i \in s : inodes[i].parent \notin s

\* The counts clients are shown are right: a directory's is two and one for
\* each directory in it.
LinksCounted ==
  \A i \in DOMAIN inodes :
    inodes[i].nlink = IF inodes[i].dir
                        THEN 2 + Cardinality({c \in Children(i) : inodes[c].dir}) ELSE 1

\* A handle never comes to name another object than the one it was given out
\* for, although a number is used again when the mount that gave it out
\* crashed before it committed: it goes stale instead.
HandlesKeepTheirObject ==
  \A x \in handles : resolves(x.handle) => inodes[x.handle[1]].obj = x.obj

\* A listing read to its end holds every name once, and they are the names
\* the directory has: entries made, removed and renamed between two pages,
\* and restarts, make the client begin again and are never skipped over.
ListingsAreExact ==
  [][pages' # pages /\ listing'.eof =>
       /\ ToSet(listing'.got) = Names(listing'.dir[1]) \cup {Dot, DotDot}
       /\ IsInjective(listing'.got)]_vars
=============================================================================
