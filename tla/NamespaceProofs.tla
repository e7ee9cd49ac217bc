--------------------------- MODULE NamespaceProofs ----------------------------
(***************************************************************************)
(* Proofs that the inode table stays a tree whose link counts are right,   *)
(* and that a handle keeps its object, for every number of names, inodes,  *)
(* changes and crashes.                                                    *)
(*                                                                         *)
(* The argument: a crash brings the committed table back, so the invariant *)
(* holds of both tables (Sound).  What each operation does to a table is   *)
(* a lemma about any table (Created, Removed, Moved).  A rename makes no   *)
(* cycle since a set that is closed under the new parents and holds what   *)
(* is moved has, with the set that shows isAncestor false, an intersection *)
(* that was closed before.                                                 *)
(***************************************************************************)
EXTENDS Namespace, FiniteSetTheorems, SequenceTheorems, TLAPS

Entries == UNION {[s -> Nat] : s \in SUBSET Name}
Inode == [gen : Nat, dir : BOOLEAN, nlink : Int, parent : Nat, entries : Entries, obj : Nat]

\* Table t is one of inodes with numbers below next, and it has a root.
Table(t, next) ==
  /\ next \in Nat
  /\ DOMAIN t \subseteq 1 .. next - 1
  /\ t \in [DOMAIN t -> Inode]
  /\ rootInodeID \in DOMAIN t /\ t[rootInodeID].dir /\ t[rootInodeID].parent = NoIno

\* Inode p of table t has an entry for i.
HasEntryFor(t, p, i) == \E x \in DOMAIN t[p].entries : t[p].entries[x] = i

\* IsTree of table t, with the cardinalities spelt out.
Tree(t) ==
  /\ \A i \in DOMAIN t : \A x \in DOMAIN t[i].entries :
       t[i].dir /\ t[i].entries[x] \in DOMAIN t /\ t[t[i].entries[x]].parent = i
  /\ \A i \in DOMAIN t : \A x, y \in DOMAIN t[i].entries :
       t[i].entries[x] = t[i].entries[y] => x = y
  /\ \A i \in DOMAIN t \ {rootInodeID} :
       t[i].parent \in DOMAIN t /\ HasEntryFor(t, t[i].parent, i)
  /\ \A s \in SUBSET (DOMAIN t \ {rootInodeID}) :
       s # {} => \E i \in s : t[i].parent \notin s

Subdirs(t, i) == {c \in DOMAIN t : t[c].parent = i /\ t[c].dir}

\* LinksCounted of table t, with a directory's children found by parent.
Links(t) ==
  \A i \in DOMAIN t :
    t[i].nlink = IF t[i].dir THEN 2 + Cardinality(Subdirs(t, i)) ELSE 1

Sound(t, next) == Table(t, next) /\ Tree(t) /\ Links(t)

TablesSound == Sound(inodes, nextIno) /\ Sound(committed.inodes, committed.nextIno)

\* Every inode of t was given out with a handle.
Given(t) == \A i \in DOMAIN t : [handle |-> <<i, t[i].gen>>, obj |-> t[i].obj] \in handles

\* The handles are told apart by number and generation: a new one is of this
\* mount's generation, and of a number that no other of its is.
HandlesInv ==
  /\ clock \in Nat /\ objects \in Nat
  /\ handles \subseteq [handle : Nat \X Nat, obj : Nat]
  /\ \A x, y \in handles : x.handle = y.handle => x.obj = y.obj
  /\ \A x \in handles : x.handle[2] <= clock /\ (x.handle[2] = clock => x.handle[1] < nextIno)
  /\ Given(inodes) /\ Given(committed.inodes)

BoundInv == bound \in Bounds /\ changes \in Nat /\ pages \in Nat

Inv == TablesSound /\ HandlesInv /\ BoundInv

-----------------------------------------------------------------------------
(* Entries of a directory *)

\* An entry map is a function from names to numbers (inode.Entries).
LEMMA EntryMap ==
  ASSUME NEW e \in Entries
  PROVE  DOMAIN e \subseteq Name /\ e \in [DOMAIN e -> Nat]
<1>1. PICK s \in SUBSET Name : e \in [s -> Nat]
  BY Zenon DEF Entries
<1> QED
  BY Zenon, <1>1

\* A name put in it names what it was put in for, and the others stay.
LEMMA EntryPut ==
  ASSUME NEW e \in Entries, NEW n \in Name, NEW id \in Nat
  PROVE  /\ WithEntry(e, n, id) \in Entries
         /\ DOMAIN WithEntry(e, n, id) = DOMAIN e \cup {n}
         /\ WithEntry(e, n, id)[n] = id
         /\ \A x \in DOMAIN e : x # n => WithEntry(e, n, id)[x] = e[x]
<1>1. WithEntry(e, n, id) \in [DOMAIN e \cup {n} -> Nat]
  BY EntryMap DEF WithEntry
<1>2. DOMAIN e \cup {n} \in SUBSET Name
  BY Zenon, EntryMap
<1>3. WithEntry(e, n, id) \in Entries
  BY Zenon, <1>1, <1>2 DEF Entries
<1> QED
  BY Zenon, <1>3 DEF WithEntry

\* A name taken from it is gone, and the others stay.
LEMMA EntryTaken ==
  ASSUME NEW e \in Entries, NEW n \in Name
  PROVE  /\ WithoutEntry(e, n) \in Entries
         /\ DOMAIN WithoutEntry(e, n) = DOMAIN e \ {n}
         /\ \A x \in DOMAIN e : x # n => WithoutEntry(e, n)[x] = e[x]
<1>1. WithoutEntry(e, n) \in [DOMAIN e \ {n} -> Nat]
  BY Zenon, EntryMap DEF WithoutEntry
<1>2. DOMAIN e \ {n} \in SUBSET Name
  BY Zenon, EntryMap
<1>3. WithoutEntry(e, n) \in Entries
  BY Zenon, <1>1, <1>2 DEF Entries
<1> QED
  BY Zenon, <1>3 DEF WithoutEntry

\* A new inode has no entries.
LEMMA NoEntries ==
  /\ <<>> \in Entries
  /\ DOMAIN <<>> = {}
<1>1. <<>> \in [{} -> Nat] /\ {} \in SUBSET Name /\ DOMAIN <<>> = {}
  OBVIOUS
<1> QED
  BY Zenon, <1>1 DEF Entries

\* The names of a directory are finite in number, and so are the inodes.
LEMMA TableFinite ==
  ASSUME NEW t, NEW next, Table(t, next)
  PROVE  /\ IsFiniteSet(DOMAIN t)
         /\ \A i \in DOMAIN t : IsFiniteSet(DOMAIN t[i].entries) /\ IsFiniteSet(Subdirs(t, i))
<1>1. next - 1 \in Int /\ DOMAIN t \in SUBSET (1 .. next - 1)
  BY DEF Table
<1>2. IsFiniteSet(DOMAIN t)
  <2>1. IsFiniteSet(1 .. next - 1)
    BY <1>1, FS_Interval, SMT
  <2> QED
    BY <1>1, <2>1, FS_Subset, Zenon
<1>3. IsFiniteSet(Name)
  BY FS_Interval, ConstantsAssumption, SMT DEF Name
<1>4. ASSUME NEW i \in DOMAIN t
      PROVE  IsFiniteSet(DOMAIN t[i].entries) /\ IsFiniteSet(Subdirs(t, i))
  <2>1. t[i].entries \in Entries
    BY Zenon DEF Table, Inode
  <2>2. DOMAIN t[i].entries \in SUBSET Name
    BY <2>1, Zenon DEF Entries
  <2>3. Subdirs(t, i) \in SUBSET DOMAIN t
    BY Zenon DEF Subdirs
  <2> QED
    BY <1>2, <1>3, <2>2, <2>3, FS_Subset, Zenon
<1> QED
  BY Zenon, <1>2, <1>4

\* A directory is not in itself, the root is in none, and a parent is a
\* directory.
LEMMA TreeFacts ==
  ASSUME NEW t, NEW next, Table(t, next), Tree(t), NEW i \in DOMAIN t
  PROVE  /\ i \in Nat \ {0} /\ t[i] \in Inode /\ t[i].entries \in Entries
         /\ t[i].parent # i
         /\ i # rootInodeID => t[i].parent \in DOMAIN t /\ t[t[i].parent].dir
         /\ t[i].parent \in DOMAIN t => i # rootInodeID
         /\ \A x \in DOMAIN t[i].entries : t[i].entries[x] \in DOMAIN t \ {rootInodeID, i}
<1>1. i \in Nat \ {0} /\ t[i] \in Inode /\ NoIno \notin DOMAIN t
  BY DEF Table, NoIno
<1>2. t[i].entries \in Entries /\ t[i].parent \in Nat
  BY Zenon, <1>1 DEF Inode
<1>3. t[i].parent # i
  <2>1. CASE i = rootInodeID
    BY <2>1 DEF Table, rootInodeID, NoIno
  <2>2. CASE i # rootInodeID
    <3>1. {i} \in SUBSET (DOMAIN t \ {rootInodeID}) /\ {i} # {}
      BY Zenon, <2>2
    <3>2. \E j \in {i} : t[j].parent \notin {i}
      BY <3>1, Zenon DEF Tree
    <3> QED
      BY Zenon, <3>2
  <2> QED
    BY Zenon, <2>1, <2>2
<1>4. i # rootInodeID => t[i].parent \in DOMAIN t /\ t[t[i].parent].dir
  BY Zenon DEF Tree, HasEntryFor
<1>5. t[i].parent \in DOMAIN t => i # rootInodeID
  BY Zenon, <1>1 DEF Table
<1>6. ASSUME NEW x \in DOMAIN t[i].entries
      PROVE  t[i].entries[x] \in DOMAIN t \ {rootInodeID, i}
  <2>1. t[i].entries[x] \in DOMAIN t /\ t[t[i].entries[x]].parent = i
    BY Zenon DEF Tree
  <2>2. t[i].entries[x] # rootInodeID
    BY Zenon, <1>1, <2>1 DEF Table
  <2>3. t[i].entries[x] # i
    BY <2>1, <1>3, Zenon
  <2> QED
    BY Zenon, <2>1, <2>2, <2>3
<1> QED
  BY Zenon, <1>1, <1>2, <1>3, <1>4, <1>5, <1>6

-----------------------------------------------------------------------------
(* What the operations do to a table *)

Grown(t, n, d, name, new) ==
  [i \in DOMAIN t \cup {n} |->
     IF i = n THEN new
     ELSE IF i = d
     THEN [t[d] EXCEPT !.entries = WithEntry(@, name, n), !.nlink = @ + LinkOf(new)]
     ELSE t[i]]

\* A new inode n in directory d, under a name d did not have (createEntry).
LEMMA Created ==
  ASSUME NEW t, NEW u, NEW n, Sound(t, n),
         NEW d \in DOMAIN t, t[d].dir,
         NEW name \in Name, name \notin DOMAIN t[d].entries,
         NEW new \in Inode, new.entries = <<>>, new.parent = d,
         new.nlink = (IF new.dir THEN 2 ELSE 1),
         u = Grown(t, n, d, name, new)
  PROVE  Sound(u, n + 1)
<1> DEFINE es == WithEntry(t[d].entries, name, n)
<1>1. /\ n \in Nat /\ n \notin DOMAIN t /\ DOMAIN t \subseteq 1 .. n - 1 /\ t[d] \in Inode
      /\ t \in [DOMAIN t -> Inode]
      /\ rootInodeID \in DOMAIN t /\ t[rootInodeID].dir /\ t[rootInodeID].parent = NoIno
  BY DEF Sound, Table
<1>2. t[d].entries \in Entries /\ t[d].nlink \in Int
  BY Zenon, <1>1 DEF Inode
<1>3. /\ es \in Entries /\ DOMAIN es = DOMAIN t[d].entries \cup {name} /\ es[name] = n
      /\ \A x \in DOMAIN t[d].entries : es[x] = t[d].entries[x]
  <2>1. n \in Nat /\ t[d].entries \in Entries
    BY Zenon, <1>1, <1>2
  <2>2. /\ es \in Entries /\ DOMAIN es = DOMAIN t[d].entries \cup {name} /\ es[name] = n
        /\ \A x \in DOMAIN t[d].entries : x # name => es[x] = t[d].entries[x]
    BY ONLY <2>1, EntryPut, name \in Name, SMTT(60)
  <2> QED
    BY <2>2, Zenon
<1>4. DOMAIN new.entries = {} /\ new.entries \in Entries /\ LinkOf(new) \in 0 .. 1
  BY NoEntries DEF LinkOf
<1> HIDE DEF es
<1>5. DOMAIN u = DOMAIN t \cup {n} /\ u[n] = new
  BY Zenon, <1>1 DEF Grown
<1>6. ASSUME NEW i \in DOMAIN t
      PROVE  /\ u[i] \in Inode
             /\ u[i].dir = t[i].dir /\ u[i].parent = t[i].parent
             /\ u[i].entries = (IF i = d THEN es ELSE t[i].entries)
             /\ u[i].nlink = t[i].nlink + (IF i = d THEN LinkOf(new) ELSE 0)
  <2>1. CASE i = d
    <3>1. u[d] = [t[d] EXCEPT !.entries = es, !.nlink = @ + LinkOf(new)]
      BY Zenon, <1>1 DEF Grown, es
    <3>2. t[d].nlink + LinkOf(new) \in Int
      BY <1>2, <1>4
    <3>3. /\ u[d] \in Inode
          /\ u[d].dir = t[d].dir /\ u[d].parent = t[d].parent
          /\ u[d].entries = es /\ u[d].nlink = t[d].nlink + LinkOf(new)
      BY Zenon, <1>1, <1>3, <3>1, <3>2 DEF Inode
    <3> QED
      BY <2>1, <3>3, Zenon
  <2>2. CASE i # d
    <3>1. u[i] = t[i] /\ t[i] \in Inode
      BY Zenon, <1>1, <2>2 DEF Grown
    <3> QED
      BY <2>2, <3>1 DEF Inode
  <2> QED
    BY Zenon, <2>1, <2>2
<1>7. Table(u, n + 1)
  <2>1. u \in [DOMAIN u -> Inode]
    <3>1. u = [i \in DOMAIN u |-> u[i]]
      BY Zenon DEF Grown
    <3>2. \A i \in DOMAIN u : u[i] \in Inode
      BY <1>5, <1>6
    <3> QED
      BY Zenon, <3>1, <3>2
  <2>2. DOMAIN u \subseteq 1 .. n
    BY <1>1, <1>5 DEF rootInodeID
  <2> QED
    BY <1>1, <1>5, <1>6, <2>1, <2>2 DEF Table
<1>8. Tree(u)
  <2>1. ASSUME NEW i \in DOMAIN u, NEW x \in DOMAIN u[i].entries
        PROVE  u[i].dir /\ u[i].entries[x] \in DOMAIN u /\ u[u[i].entries[x]].parent = i
    <3>1. CASE i = d /\ x = name
      BY SMTT(60), <1>1, <1>3, <1>5, <1>6, <3>1
    <3>2. CASE i # n /\ x \in DOMAIN t[i].entries
      <4>1. i \in DOMAIN t /\ u[i].entries[x] = t[i].entries[x]
        BY SMTT(60), <1>3, <1>5, <1>6, <3>2
      <4>2. t[i].dir /\ t[i].entries[x] \in DOMAIN t /\ t[t[i].entries[x]].parent = i
        BY <4>1, <3>2, Zenon DEF Sound, Tree
      <4> QED
        BY SMTT(60), <1>5, <1>6, <4>1, <4>2
    <3> QED
      BY SMTT(60), <1>3, <1>4, <1>5, <1>6, <3>1, <3>2
  <2>2. ASSUME NEW i \in DOMAIN u, NEW x \in DOMAIN u[i].entries, NEW y \in DOMAIN u[i].entries,
               u[i].entries[x] = u[i].entries[y]
        PROVE  x = y
    <3>1. i \in DOMAIN t
      BY <1>4, <1>5, Zenon
    <3>2. \A z \in DOMAIN t[i].entries : t[i].entries[z] \in DOMAIN t /\ t[i].entries[z] # n
      BY <1>1, <3>1 DEF Sound, Tree
    <3>3. CASE i = d
      <4>1. u[i].entries = es
        BY <1>6, <3>1, <3>3, Zenon
      <4>2. x \in DOMAIN t[d].entries /\ y \in DOMAIN t[d].entries => x = y
        BY SMTT(60), <1>3, <2>2, <4>1 DEF Sound, Tree
      <4> QED
        BY SMTT(60), <1>3, <2>2, <3>2, <3>3, <4>1, <4>2
    <3>4. CASE i # d
      BY SMTT(60), <1>6, <2>2, <3>1, <3>4 DEF Sound, Tree
    <3> QED
      BY Zenon, <3>3, <3>4
  <2>3. ASSUME NEW i \in DOMAIN u \ {rootInodeID}
        PROVE  u[i].parent \in DOMAIN u /\ HasEntryFor(u, u[i].parent, i)
    <3>1. CASE i = n
      BY SMTT(60), <1>3, <1>5, <1>6, <3>1 DEF HasEntryFor
    <3>2. CASE i # n
      <4>1. i \in DOMAIN t /\ t[i].parent \in DOMAIN t /\ HasEntryFor(t, t[i].parent, i)
        BY <1>5, <3>2, Zenon DEF Sound, Tree
      <4>2. PICK x \in DOMAIN t[t[i].parent].entries : t[t[i].parent].entries[x] = i
        BY <4>1, Zenon DEF HasEntryFor
      <4>3. x \in DOMAIN u[t[i].parent].entries /\ u[t[i].parent].entries[x] = i
        BY SMTT(60), <1>3, <1>6, <4>1, <4>2
      <4> QED
        BY SMTT(60), <1>5, <1>6, <4>1, <4>3 DEF HasEntryFor
    <3> QED
      BY Zenon, <3>1, <3>2
  <2>4. ASSUME NEW s \in SUBSET (DOMAIN u \ {rootInodeID}), s # {},
               \A i \in s : u[i].parent \in s
        PROVE  FALSE
    <3>1. \A i \in s \ {n} : t[i].parent \in s \ {n}
      <4> SUFFICES ASSUME NEW i \in s \ {n} PROVE t[i].parent \in s \ {n}
        BY Zenon
      <4>1. i \in DOMAIN t \ {rootInodeID}
        BY Zenon, <1>5
      <4>2. t[i].parent \in DOMAIN t
        BY <4>1, Zenon DEF Sound, Tree
      <4>3. u[i].parent = t[i].parent
        BY Zenon, <4>1, <1>6
      <4> QED
        BY Zenon, <4>2, <4>3, <2>4, <1>1
    <3>2. s \ {n} \in SUBSET (DOMAIN t \ {rootInodeID})
      BY Zenon, <1>5
    <3>3. s \ {n} = {}
      BY <3>1, <3>2, Zenon DEF Sound, Tree
    <3> QED
      BY SMTT(60), <3>3, <2>4, <1>1, <1>5
  <2> QED
    BY <2>1, <2>2, <2>3, <2>4, Zenon DEF Tree
<1>9. Links(u)
  <2> SUFFICES ASSUME NEW i \in DOMAIN u
               PROVE  u[i].nlink = IF u[i].dir THEN 2 + Cardinality(Subdirs(u, i)) ELSE 1
    BY Zenon DEF Links
  <2>1. CASE i = n
    <3>1. Subdirs(u, n) = {}
      <4> SUFFICES ASSUME NEW c \in DOMAIN u, u[c].parent = n PROVE FALSE
        BY Zenon DEF Subdirs
      <4>1. c \in DOMAIN t /\ t[c].parent = n
        BY SMTT(60), <1>1, <1>5, <1>6
      <4>2. t[c].parent \in DOMAIN t \/ t[c].parent = NoIno
        BY Zenon, <4>1, <1>1 DEF Sound, Tree
      <4> QED
        BY SMTT(60), <4>1, <4>2, <1>1 DEF NoIno, rootInodeID
    <3> QED
      BY SMTT(60), <2>1, <3>1, <1>5, FS_EmptySet
  <2>2. CASE i # n
    <3>1. i \in DOMAIN t /\ IsFiniteSet(Subdirs(t, i)) /\ n \notin Subdirs(t, i)
      BY <1>1, <1>5, <2>2, TableFinite, Zenon DEF Sound, Subdirs
    <3>2. Subdirs(u, i) = IF i = d /\ new.dir THEN Subdirs(t, i) \cup {n} ELSE Subdirs(t, i)
      BY SMTT(60), <1>1, <1>5, <1>6 DEF Subdirs
    <3>3. Cardinality(Subdirs(u, i)) =
            Cardinality(Subdirs(t, i)) + (IF i = d /\ new.dir THEN 1 ELSE 0)
      <4>1. Cardinality(Subdirs(t, i)) \in Nat
        BY <3>1, FS_CardinalityType, Zenon
      <4>2. Cardinality(Subdirs(t, i) \cup {n}) = Cardinality(Subdirs(t, i)) + 1
        BY <3>1, FS_AddElement, Zenon
      <4> QED
        BY <3>2, <4>1, <4>2
    <3>4. t[i].nlink = IF t[i].dir THEN 2 + Cardinality(Subdirs(t, i)) ELSE 1
      BY <3>1, Zenon DEF Sound, Links
    <3>5. Cardinality(Subdirs(t, i)) \in Nat
      BY <3>1, FS_CardinalityType, Zenon
    <3> QED
      BY SMTT(60), <1>6, <3>1, <3>3, <3>4, <3>5 DEF LinkOf
  <2> QED
    BY <2>1, <2>2
<1> QED
  BY <1>7, <1>8, <1>9 DEF Sound

Cut(t, d, name) ==
  LET id == t[d].entries[name]
  IN [[i \in DOMAIN t \ {id} |-> t[i]] EXCEPT
        ![d].entries = WithoutEntry(@, name), ![d].nlink = @ - LinkOf(t[id])]

\* An inode without entries goes with its name (unlink).
LEMMA Removed ==
  ASSUME NEW t, NEW u, NEW n, Sound(t, n),
         NEW d \in DOMAIN t, NEW name \in DOMAIN t[d].entries,
         NEW id, id = t[d].entries[name], t[id].entries = <<>>,
         u = Cut(t, d, name)
  PROVE  Sound(u, n)
<1> DEFINE es == WithoutEntry(t[d].entries, name)
<1>1. /\ n \in Nat /\ DOMAIN t \subseteq 1 .. n - 1 /\ t \in [DOMAIN t -> Inode]
      /\ rootInodeID \in DOMAIN t /\ t[rootInodeID].dir /\ t[rootInodeID].parent = NoIno
      /\ Table(t, n) /\ Tree(t)
  BY Zenon DEF Sound, Table
<1>2. /\ t[d] \in Inode /\ t[d].entries \in Entries /\ id \in DOMAIN t \ {rootInodeID, d}
      /\ t[id] \in Inode /\ DOMAIN t[id].entries = {}
  BY Zenon, <1>1, TreeFacts, NoEntries
<1>3. t[d].dir /\ t[id].parent = d /\ t[d].nlink \in Int
  BY SMTT(60), <1>1, <1>2 DEF Tree, Inode
<1>4. /\ es \in Entries /\ DOMAIN es = DOMAIN t[d].entries \ {name}
      /\ \A x \in DOMAIN t[d].entries : x # name => es[x] = t[d].entries[x]
  <2>1. t[d].entries \in Entries /\ name \in Name
    BY Zenon, <1>2, EntryMap
  <2> QED
    BY ONLY <2>1, EntryTaken, SMTT(60)
<1>5. LinkOf(t[id]) \in 0 .. 1
  BY DEF LinkOf
<1> HIDE DEF es
<1>6. DOMAIN u = DOMAIN t \ {id} /\ d \in DOMAIN u
  BY Zenon, <1>2 DEF Cut
<1>7. ASSUME NEW i \in DOMAIN u
      PROVE  /\ u[i] \in Inode
             /\ u[i].dir = t[i].dir /\ u[i].parent = t[i].parent
             /\ u[i].entries = (IF i = d THEN es ELSE t[i].entries)
             /\ u[i].nlink = t[i].nlink - (IF i = d THEN LinkOf(t[id]) ELSE 0)
  <2>1. CASE i = d
    <3>1. u[d] = [t[d] EXCEPT !.entries = es, !.nlink = @ - LinkOf(t[id])]
      BY Zenon, <1>2, <1>6 DEF Cut, es, Inode
    <3>2. t[d].nlink - LinkOf(t[id]) \in Int
      BY <1>3, <1>5
    <3>3. /\ u[d] \in Inode
          /\ u[d].dir = t[d].dir /\ u[d].parent = t[d].parent
          /\ u[d].entries = es /\ u[d].nlink = t[d].nlink - LinkOf(t[id])
      BY Zenon, <1>2, <1>4, <3>1, <3>2 DEF Inode
    <3> QED
      BY <2>1, <3>3, Zenon
  <2>2. CASE i # d
    <3>1. u[i] = t[i] /\ t[i] \in Inode
      BY ZenonT(60), <1>1, <1>6, <2>2 DEF Cut
    <3> QED
      BY <2>2, <3>1 DEF Inode
  <2> QED
    BY Zenon, <2>1, <2>2
<1>8. Table(u, n)
  <2>1. u \in [DOMAIN u -> Inode]
    <3>1. u = [i \in DOMAIN u |-> u[i]]
      BY Zenon DEF Cut
    <3> QED
      BY Zenon, <1>7, <3>1
  <2> QED
    BY <1>1, <1>2, <1>6, <1>7, <2>1 DEF Table
<1>9. ASSUME NEW i \in DOMAIN u, NEW x \in DOMAIN u[i].entries
      PROVE  /\ x \in DOMAIN t[i].entries /\ u[i].entries[x] = t[i].entries[x]
             /\ i \in DOMAIN t /\ t[i].entries[x] # id
  <2>1. x \in DOMAIN t[i].entries /\ u[i].entries[x] = t[i].entries[x] /\ (i = d => x # name)
    BY Zenon, <1>4, <1>7
  <2>2. i \in DOMAIN t /\ t[t[i].entries[x]].parent = i
    BY Zenon, <1>1, <1>6, <2>1 DEF Tree
  <2>3. t[i].entries[x] = id => i = d
    BY <1>3, <2>2
  <2>4. i = d => t[i].entries[x] # t[d].entries[name]
    BY <1>1, <2>1 DEF Tree
  <2> QED
    BY <2>1, <2>2, <2>3, <2>4
<1>10. Tree(u)
  <2>1. ASSUME NEW i \in DOMAIN u, NEW x \in DOMAIN u[i].entries
        PROVE  u[i].dir /\ u[i].entries[x] \in DOMAIN u /\ u[u[i].entries[x]].parent = i
    <3>1. t[i].dir /\ t[i].entries[x] \in DOMAIN t /\ t[t[i].entries[x]].parent = i
      BY SMTT(60), <1>1, <1>9 DEF Tree
    <3> QED
      BY SMTT(60), <1>6, <1>7, <1>9, <3>1
  <2>2. ASSUME NEW i \in DOMAIN u, NEW x \in DOMAIN u[i].entries, NEW y \in DOMAIN u[i].entries,
               u[i].entries[x] = u[i].entries[y]
        PROVE  x = y
    BY SMTT(60), <1>1, <1>9, <2>2 DEF Tree
  <2>3. ASSUME NEW i \in DOMAIN u \ {rootInodeID}
        PROVE  u[i].parent \in DOMAIN u /\ HasEntryFor(u, u[i].parent, i)
    <3>1. t[i].parent \in DOMAIN t /\ HasEntryFor(t, t[i].parent, i) /\ i # id
      BY Zenon, <1>1, <1>6 DEF Tree
    <3>2. PICK x \in DOMAIN t[t[i].parent].entries : t[t[i].parent].entries[x] = i
      BY <3>1, Zenon DEF HasEntryFor
    <3>3. t[i].parent \in DOMAIN u
      BY Zenon, <1>2, <1>6, <3>1, <3>2
    <3>4. x \in DOMAIN u[t[i].parent].entries /\ u[t[i].parent].entries[x] = i
      BY SMTT(60), <1>4, <1>7, <3>1, <3>2, <3>3
    <3> QED
      BY Zenon, <1>7, <3>3, <3>4 DEF HasEntryFor
  <2>4. ASSUME NEW s \in SUBSET (DOMAIN u \ {rootInodeID}), s # {},
               \A i \in s : u[i].parent \in s
        PROVE  FALSE
    <3>1. s \in SUBSET (DOMAIN t \ {rootInodeID}) /\ \A i \in s : t[i].parent \in s
      BY Zenon, <1>6, <1>7, <2>4
    <3> QED
      BY <1>1, <2>4, <3>1, Zenon DEF Tree
  <2> QED
    BY <2>1, <2>2, <2>3, <2>4, Zenon DEF Tree
<1>11. Links(u)
  <2> SUFFICES ASSUME NEW i \in DOMAIN u
               PROVE  u[i].nlink = IF u[i].dir THEN 2 + Cardinality(Subdirs(u, i)) ELSE 1
    BY Zenon DEF Links
  <2>1. i \in DOMAIN t /\ IsFiniteSet(Subdirs(t, i))
    BY <1>1, <1>6, TableFinite, Zenon
  <2>2. Subdirs(u, i) = Subdirs(t, i) \ {id}
    BY Zenon, <1>6, <1>7 DEF Subdirs
  <2>3. id \in Subdirs(t, i) <=> i = d /\ t[id].dir
    BY Zenon, <1>2, <1>3 DEF Subdirs
  <2>4. Cardinality(Subdirs(t, i)) \in Nat
    BY <2>1, FS_CardinalityType, Zenon
  <2>5. Cardinality(Subdirs(u, i)) =
          IF id \in Subdirs(t, i) THEN Cardinality(Subdirs(t, i)) - 1
          ELSE Cardinality(Subdirs(t, i))
    <3>1. Cardinality(Subdirs(t, i) \ {id}) =
            IF id \in Subdirs(t, i) THEN Cardinality(Subdirs(t, i)) - 1
            ELSE Cardinality(Subdirs(t, i))
      BY <2>1, FS_RemoveElement, Zenon
    <3> QED
      BY <2>2, <3>1, Zenon
  <2>6. t[i].nlink = IF t[i].dir THEN 2 + Cardinality(Subdirs(t, i)) ELSE 1
    BY <2>1, Zenon DEF Sound, Links
  <2> QED
    BY SMTT(60), <1>3, <1>7, <2>3, <2>4, <2>5, <2>6 DEF LinkOf
<1> QED
  BY Zenon, <1>8, <1>10, <1>11 DEF Sound

\* The entries and the link count of inode i of t once name a of src is name
\* b of dst: m is what is moved, and vs is the set of what it replaces.
EntriesAfter(t, i, src, a, dst, b, m) ==
  LET left == IF i = src THEN WithoutEntry(t[i].entries, a) ELSE t[i].entries
  IN IF i = dst THEN WithEntry(left, b, m) ELSE left

CountAfter(t, i, src, dst, m, vs) ==
  t[i].nlink
    - (IF i = dst /\ \E v \in vs : t[v].dir THEN 1 ELSE 0)
    - (IF i = src /\ src # dst THEN LinkOf(t[m]) ELSE 0)
    + (IF i = dst /\ src # dst THEN LinkOf(t[m]) ELSE 0)

MovedTable(t, src, a, dst, b, m, vs) ==
  [i \in DOMAIN t \ vs |->
     IF i = m THEN [t[i] EXCEPT !.parent = dst]
     ELSE IF i \in {src, dst}
     THEN [t[i] EXCEPT !.entries = EntriesAfter(t, i, src, a, dst, b, m),
                       !.nlink = CountAfter(t, i, src, dst, m, vs)]
     ELSE t[i]]

\* A set that shows that m is not above node.
Avoids(t, m, node, r) ==
  /\ r \subseteq DOMAIN t /\ node \in r /\ m \notin r
  /\ \A i \in r \ {rootInodeID} : t[i].parent \in r

\* What is moved is not moved below itself, and what it replaces is like it
\* and empty (Rename).
MoveAllowed(t, src, a, dst, b, m, vs) ==
  /\ src \in DOMAIN t /\ dst \in DOMAIN t /\ t[src].dir /\ t[dst].dir
  /\ a \in DOMAIN t[src].entries /\ m = t[src].entries[a]
  /\ b \in Name
  /\ vs = IF b \in DOMAIN t[dst].entries THEN {t[dst].entries[b]} ELSE {}
  /\ vs # {m}
  /\ t[m].dir => \E r : Avoids(t, m, dst, r)
  /\ \A v \in vs : t[v].dir = t[m].dir /\ t[v].entries = <<>>

\* The inodes a rename names are different ones, but that src may be dst.
LEMMA MoveFacts ==
  ASSUME NEW t, NEW n, Table(t, n), Tree(t),
         NEW src, NEW a, NEW dst, NEW b, NEW m, NEW vs,
         MoveAllowed(t, src, a, dst, b, m, vs)
  PROVE  /\ m \in DOMAIN t \ {rootInodeID, src, dst} /\ t[m].parent = src
         /\ src \notin vs /\ dst \notin vs /\ m \notin vs
         /\ vs \subseteq DOMAIN t \ {rootInodeID}
         /\ \A v \in vs : t[v].parent = dst /\ DOMAIN t[v].entries = {}
         /\ a \in Name
<1>1. /\ m \in DOMAIN t \ {rootInodeID, src} /\ t[m].parent = src
      /\ t[src].entries \in Entries
  BY Zenon, TreeFacts DEF MoveAllowed, Tree
<1>2. a \in Name
  BY Zenon, <1>1, EntryMap DEF MoveAllowed
<1>3. m # dst
  BY Zenon DEF MoveAllowed, Avoids
<1>4. ASSUME NEW v \in vs
      PROVE  /\ v \in DOMAIN t \ {rootInodeID, dst} /\ t[v].parent = dst
             /\ DOMAIN t[v].entries = {} /\ v # src /\ v # m
  <2>1. v = t[dst].entries[b] /\ b \in DOMAIN t[dst].entries /\ vs = {v}
    BY Zenon DEF MoveAllowed
  <2>2. v \in DOMAIN t \ {rootInodeID, dst} /\ t[v].parent = dst
    BY SMTT(60), <2>1, TreeFacts DEF MoveAllowed, Tree
  <2>3. DOMAIN t[v].entries = {}
    BY Zenon, NoEntries DEF MoveAllowed
  <2> QED
    BY Zenon, <2>1, <2>2, <2>3 DEF MoveAllowed
<1> QED
  BY SMTT(60), <1>1, <1>2, <1>3, <1>4

\* A renamed inode, with what is below it (Rename).
LEMMA Moved ==
  ASSUME NEW t, NEW u, NEW n, Sound(t, n),
         NEW src, NEW a, NEW dst, NEW b, NEW m, NEW vs,
         MoveAllowed(t, src, a, dst, b, m, vs),
         u = MovedTable(t, src, a, dst, b, m, vs)
  PROVE  Sound(u, n)
<1> DEFINE es(i) == EntriesAfter(t, i, src, a, dst, b, m)
           ct(i) == CountAfter(t, i, src, dst, m, vs)
<1>1. /\ n \in Nat /\ DOMAIN t \subseteq 1 .. n - 1 /\ t \in [DOMAIN t -> Inode]
      /\ rootInodeID \in DOMAIN t /\ t[rootInodeID].dir /\ t[rootInodeID].parent = NoIno
      /\ Table(t, n) /\ Tree(t) /\ Links(t)
  BY Zenon DEF Sound, Table
<1>2. /\ m \in DOMAIN t \ {rootInodeID, src, dst} /\ t[m].parent = src
      /\ src \notin vs /\ dst \notin vs /\ m \notin vs
      /\ vs \subseteq DOMAIN t \ {rootInodeID}
      /\ \A v \in vs : t[v].parent = dst /\ DOMAIN t[v].entries = {}
      /\ a \in Name
  BY <1>1, MoveFacts, Zenon
<1>3. /\ src \in DOMAIN t /\ dst \in DOMAIN t /\ t[src].dir /\ t[dst].dir
      /\ a \in DOMAIN t[src].entries /\ m = t[src].entries[a] /\ b \in Name
      /\ vs = IF b \in DOMAIN t[dst].entries THEN {t[dst].entries[b]} ELSE {}
      /\ \A v \in vs : t[v].dir = t[m].dir
      /\ t[m].dir => \E r : Avoids(t, m, dst, r)
  BY Zenon DEF MoveAllowed
<1>4. \A i \in DOMAIN t : t[i] \in Inode /\ t[i].entries \in Entries /\ t[i].nlink \in Int
  BY Zenon, <1>1 DEF Inode
<1>5. ASSUME NEW i \in DOMAIN t
      PROVE  /\ es(i) \in Entries
             /\ i = dst => b \in DOMAIN es(i) /\ es(i)[b] = m
             /\ \A x : ~(i = dst /\ x = b) =>
                  /\ x \in DOMAIN es(i) <=> x \in DOMAIN t[i].entries /\ ~(i = src /\ x = a)
                  /\ x \in DOMAIN es(i) => es(i)[x] = t[i].entries[x]
  <2> DEFINE left == IF i = src THEN WithoutEntry(t[i].entries, a) ELSE t[i].entries
  <2>0. t[i].entries \in Entries /\ a \in Name /\ b \in Name /\ m \in Nat
    BY SMTT(60), <1>1, <1>2, <1>3, <1>4
  <2>1. /\ left \in Entries
        /\ DOMAIN left = IF i = src THEN DOMAIN t[i].entries \ {a} ELSE DOMAIN t[i].entries
        /\ \A x \in DOMAIN left : left[x] = t[i].entries[x]
    <3>1. /\ WithoutEntry(t[i].entries, a) \in Entries
          /\ DOMAIN WithoutEntry(t[i].entries, a) = DOMAIN t[i].entries \ {a}
          /\ \A x \in DOMAIN t[i].entries : x # a =>
               WithoutEntry(t[i].entries, a)[x] = t[i].entries[x]
      BY ONLY <2>0, EntryTaken, SMTT(60)
    <3> QED
      BY Zenon, <2>0, <3>1
  <2> HIDE DEF left
  <2>2. es(i) = IF i = dst THEN WithEntry(left, b, m) ELSE left
    BY Zenon DEF EntriesAfter, left
  <2>3. /\ WithEntry(left, b, m) \in Entries
        /\ DOMAIN WithEntry(left, b, m) = DOMAIN left \cup {b}
        /\ WithEntry(left, b, m)[b] = m
        /\ \A x \in DOMAIN left : x # b => WithEntry(left, b, m)[x] = left[x]
    <3>1. left \in Entries /\ b \in Name /\ m \in Nat
      BY Zenon, <2>0, <2>1
    <3>2. WithEntry(left, b, m) \in Entries
      BY ONLY <3>1, EntryPut, Zenon
    <3> QED
      BY Zenon, <3>2 DEF WithEntry
  <2> QED
    BY Zenon, <2>1, <2>2, <2>3
<1>6. \A i \in DOMAIN t : i \notin {src, dst} => es(i) = t[i].entries /\ ct(i) = t[i].nlink
  BY <1>4 DEF EntriesAfter, CountAfter
<1>7. \A i \in DOMAIN t : ct(i) \in Int
  BY SMTT(60), <1>4 DEF CountAfter, LinkOf
<1> HIDE DEF es, ct
<1>8. DOMAIN u = DOMAIN t \ vs
  BY Zenon DEF MovedTable
<1>9. ASSUME NEW i \in DOMAIN u
      PROVE  /\ u[i] \in Inode /\ u[i].dir = t[i].dir
             /\ u[i].parent = (IF i = m THEN dst ELSE t[i].parent)
             /\ u[i].entries = es(i) /\ u[i].nlink = ct(i)
  <2>0. i \in DOMAIN t /\ t[i] \in Inode
    BY Zenon, <1>4, <1>8
  <2>1. CASE i = m
    <3>1. u[i] = [t[i] EXCEPT !.parent = dst]
      BY Zenon, <1>8, <2>1 DEF MovedTable
    <3>2. dst \in Nat /\ es(i) = t[i].entries /\ ct(i) = t[i].nlink
      BY SMTT(60), <1>1, <1>2, <1>3, <1>6, <2>0, <2>1
    <3> QED
      BY SMTT(60), <2>0, <2>1, <3>1, <3>2 DEF Inode
  <2>2. CASE i # m /\ i \in {src, dst}
    <3>1. u[i] = [t[i] EXCEPT !.entries = es(i), !.nlink = ct(i)]
      BY Zenon, <1>8, <2>2 DEF MovedTable, es, ct
    <3>2. es(i) \in Entries /\ ct(i) \in Int
      BY Zenon, <1>5, <1>7, <2>0
    <3> QED
      BY Zenon, <2>0, <2>2, <3>1, <3>2 DEF Inode
  <2>3. CASE i # m /\ i \notin {src, dst}
    <3>1. u[i] = t[i]
      BY Zenon, <1>8, <2>3 DEF MovedTable
    <3> QED
      BY SMTT(60), <1>6, <2>0, <2>3, <3>1
  <2> QED
    BY SMTT(60), <2>1, <2>2, <2>3
<1>10. Table(u, n)
  <2>1. u \in [DOMAIN u -> Inode]
    <3>1. u = [i \in DOMAIN u |-> u[i]]
      BY Zenon DEF MovedTable
    <3> QED
      BY SMTT(60), <1>9, <3>1
  <2> QED
    BY Zenon, <1>1, <1>2, <1>8, <1>9, <2>1 DEF Table
<1>0. /\ dst \in DOMAIN u /\ m \in DOMAIN u /\ u[dst].dir /\ u[m].parent = dst
      /\ b \in DOMAIN u[dst].entries /\ u[dst].entries[b] = m
  <2>1. dst \in DOMAIN u /\ m \in DOMAIN u
    BY <1>2, <1>3, <1>8
  <2>2. b \in DOMAIN es(dst) /\ es(dst)[b] = m
    BY <1>3, <1>5
  <2>3. u[dst].entries = es(dst) /\ u[dst].dir = t[dst].dir /\ u[m].parent = dst
    BY Zenon, <1>9, <2>1
  <2> QED
    BY Zenon, <1>3, <2>1, <2>2, <2>3
<1>11. ASSUME NEW i \in DOMAIN u, NEW x \in DOMAIN u[i].entries, ~(i = dst /\ x = b)
       PROVE  /\ i \in DOMAIN t /\ x \in DOMAIN t[i].entries
              /\ u[i].entries[x] = t[i].entries[x] /\ t[i].dir
              /\ t[i].entries[x] \in DOMAIN u \ {m} /\ t[t[i].entries[x]].parent = i
  <2>1. /\ i \in DOMAIN t /\ x \in DOMAIN t[i].entries /\ ~(i = src /\ x = a)
        /\ u[i].entries[x] = t[i].entries[x]
    BY SMTT(60), <1>5, <1>8, <1>9, <1>11
  <2>2. t[i].dir /\ t[i].entries[x] \in DOMAIN t /\ t[t[i].entries[x]].parent = i
    BY Zenon, <1>1, <2>1 DEF Tree
  <2>3. t[i].entries[x] # m
    BY SMTT(60), <1>1, <1>2, <1>3, <2>1, <2>2 DEF Tree
  <2>4. t[i].entries[x] \notin vs
    <3> SUFFICES ASSUME t[i].entries[x] \in vs PROVE FALSE
      BY Zenon
    <3>1. b \in DOMAIN t[dst].entries /\ t[i].entries[x] = t[dst].entries[b] /\ i = dst
      BY Zenon, <1>2, <1>3, <2>2
    <3>2. x = b
      BY SMTT(60), <1>1, <2>1, <3>1 DEF Tree
    <3> QED
      BY Zenon, <1>11, <3>1, <3>2
  <2> QED
    BY SMTT(60), <1>8, <2>1, <2>2, <2>3, <2>4
<1>12. Tree(u)
  <2>1. ASSUME NEW i \in DOMAIN u, NEW x \in DOMAIN u[i].entries
        PROVE  u[i].dir /\ u[i].entries[x] \in DOMAIN u /\ u[u[i].entries[x]].parent = i
    <3>1. CASE i = dst /\ x = b
      BY <1>0, <3>1, Zenon
    <3>2. CASE ~(i = dst /\ x = b)
      BY SMTT(60), <1>9, <1>11, <3>2
    <3> QED
      BY Zenon, <3>1, <3>2
  <2>2. ASSUME NEW i \in DOMAIN u, NEW x \in DOMAIN u[i].entries, NEW y \in DOMAIN u[i].entries,
               u[i].entries[x] = u[i].entries[y]
        PROVE  x = y
    <3>1. i = dst => u[i].entries[b] = m
      BY <1>0, Zenon
    <3>2. ASSUME ~(i = dst /\ x = b), ~(i = dst /\ y = b)
          PROVE  x = y
      <4>1. /\ i \in DOMAIN t /\ x \in DOMAIN t[i].entries /\ y \in DOMAIN t[i].entries
            /\ t[i].entries[x] = t[i].entries[y]
        BY SMTT(60), <1>11, <2>2, <3>2
      <4> QED
        BY <1>1, <4>1, Zenon DEF Tree
    <3>3. ASSUME ~(i = dst /\ x = b) PROVE u[i].entries[x] # m
      BY SMTT(60), <1>11, <3>3
    <3>4. ASSUME ~(i = dst /\ y = b) PROVE u[i].entries[y] # m
      BY SMTT(60), <1>11, <3>4
    <3> QED
      BY Zenon, <2>2, <3>1, <3>2, <3>3, <3>4
  <2>3. ASSUME NEW i \in DOMAIN u \ {rootInodeID}
        PROVE  u[i].parent \in DOMAIN u /\ HasEntryFor(u, u[i].parent, i)
    <3>1. CASE i = m
      BY <1>0, <3>1, Zenon DEF HasEntryFor
    <3>2. CASE i # m
      <4> DEFINE p == t[i].parent
      <4>1. i \in DOMAIN t /\ i \notin vs /\ p \in DOMAIN t /\ HasEntryFor(t, p, i)
        BY <1>1, <1>8 DEF Tree
      <4>2. PICK x \in DOMAIN t[p].entries : t[p].entries[x] = i
        BY <4>1, Zenon DEF HasEntryFor
      <4>3. p \in DOMAIN u /\ u[i].parent = p
        BY SMTT(60), <1>2, <1>8, <1>9, <3>2, <4>1, <4>2
      <4>4. ~(p = src /\ x = a) /\ ~(p = dst /\ x = b)
        BY SMTT(60), <1>3, <3>2, <4>1, <4>2
      <4>5. x \in DOMAIN u[p].entries /\ u[p].entries[x] = i
        BY SMTT(60), <1>5, <1>9, <4>1, <4>2, <4>3, <4>4
      <4> QED
        BY <4>3, <4>5, Zenon DEF HasEntryFor
    <3> QED
      BY Zenon, <3>1, <3>2
  <2>4. ASSUME NEW s \in SUBSET (DOMAIN u \ {rootInodeID}), s # {},
               \A i \in s : u[i].parent \in s
        PROVE  FALSE
    <3>0. ASSUME NEW r \in SUBSET (DOMAIN t \ {rootInodeID}), r # {},
                 \A i \in r : t[i].parent \in r
          PROVE  FALSE
      BY <1>1, <3>0, Zenon DEF Tree
    <3>1. s \subseteq DOMAIN t \ {rootInodeID} /\ \A i \in s : i # m => t[i].parent \in s
      BY Zenon, <1>8, <1>9, <2>4
    <3>2. CASE m \notin s
      <4>1. \A i \in s : t[i].parent \in s
        BY <3>1, <3>2
      <4> QED
        BY <2>4, <3>0, <3>1, <4>1, Zenon
    <3>3. CASE m \in s /\ t[m].dir
      <4>1. PICK r : Avoids(t, m, dst, r)
        BY <1>3, <3>3, Zenon
      <4>2. dst \in s \cap r
        BY Zenon, <1>9, <2>4, <3>3, <4>1 DEF Avoids
      <4>3. s \cap r \in SUBSET (DOMAIN t \ {rootInodeID})
        BY Zenon, <3>1
      <4>4. \A i \in s \cap r : t[i].parent \in s \cap r
        BY SMTT(60), <3>1, <4>1 DEF Avoids
      <4> QED
        BY <3>0, <4>2, <4>3, <4>4, Zenon
    <3>4. CASE m \in s /\ ~t[m].dir
      <4>1. dst \in s \ {m}
        BY Zenon, <1>2, <1>9, <2>4, <3>4
      <4>2. s \ {m} \in SUBSET (DOMAIN t \ {rootInodeID})
        BY SMTT(60), <3>1
      <4>3. ASSUME NEW i \in s \ {m} PROVE t[i].parent \in s \ {m}
        <5>1. i \in DOMAIN t /\ i # rootInodeID
          BY Zenon, <4>2
        <5>2. t[t[i].parent].dir
          BY SMTT(60), <1>1, <5>1, TreeFacts
        <5> QED
          BY Zenon, <3>1, <3>4, <5>2
      <4> QED
        BY <3>0, <4>1, <4>2, <4>3, Zenon
    <3> QED
      BY Zenon, <3>2, <3>3, <3>4
  <2> QED
    BY <2>1, <2>2, <2>3, <2>4, Zenon DEF Tree
<1>13. Links(u)
  <2> SUFFICES ASSUME NEW i \in DOMAIN u
               PROVE  u[i].nlink = IF u[i].dir THEN 2 + Cardinality(Subdirs(u, i)) ELSE 1
    BY Zenon DEF Links
  <2> DEFINE S == Subdirs(t, i)
             lost == i = dst /\ \E v \in vs : t[v].dir
  <2>1. i \in DOMAIN t /\ IsFiniteSet(S)
    BY <1>1, <1>8, TableFinite, Zenon
  <2>2. t[i].nlink = IF t[i].dir THEN 2 + Cardinality(S) ELSE 1
    BY <1>1, <2>1, Zenon DEF Links
  <2>3. Cardinality(S) \in Nat
    BY <2>1, FS_CardinalityType, Zenon
  <2>4. IsFiniteSet(S \ vs) /\ Cardinality(S \ vs) = Cardinality(S) - (IF lost THEN 1 ELSE 0)
    <3>1. CASE lost
      <4>1. PICK v \in vs : t[v].dir
        BY Zenon, <3>1
      <4>2. vs = {v} /\ v \in S
        BY SMTT(60), <1>2, <1>3, <3>1, <4>1 DEF Subdirs
      <4>3. IsFiniteSet(S \ {v}) /\ Cardinality(S \ {v}) = Cardinality(S) - 1
        BY <2>1, <4>2, FS_RemoveElement, Zenon
      <4> QED
        BY Zenon, <3>1, <4>2, <4>3
    <3>2. CASE ~lost
      <4>1. S \ vs = S
        BY Zenon, <1>2, <3>2 DEF Subdirs
      <4> QED
        BY SMTT(60), <2>1, <2>3, <3>2, <4>1
    <3> QED
      BY SMTT(60), <3>1, <3>2
  <2>5. m \in S \ vs <=> i = src /\ t[m].dir
    BY Zenon, <1>2 DEF Subdirs
  <2>6. Subdirs(u, i) = IF i = dst /\ t[m].dir THEN (S \ vs) \cup {m} ELSE (S \ vs) \ {m}
    BY SMTT(60), <1>2, <1>8, <1>9 DEF Subdirs
  <2>7. /\ Cardinality((S \ vs) \cup {m}) =
             IF m \in S \ vs THEN Cardinality(S \ vs) ELSE Cardinality(S \ vs) + 1
        /\ Cardinality((S \ vs) \ {m}) =
             IF m \in S \ vs THEN Cardinality(S \ vs) - 1 ELSE Cardinality(S \ vs)
    BY <2>4, FS_AddElement, FS_RemoveElement, Zenon
  <2>8. i \notin {src, dst} => ct(i) = t[i].nlink
    BY Zenon, <1>6, <2>1
  <2>9. i \in {src, dst} => t[i].dir
    BY Zenon, <1>3
  <2>10. ct(i) = t[i].nlink - (IF lost THEN 1 ELSE 0)
           - (IF i = src /\ src # dst THEN LinkOf(t[m]) ELSE 0)
           + (IF i = dst /\ src # dst THEN LinkOf(t[m]) ELSE 0)
    BY Zenon DEF ct, CountAfter
  <2>11. t[i].dir => ct(i) = 2 + Cardinality(Subdirs(u, i))
    <3> HIDE DEF S, lost
    <3> QED
      BY SMTT(60), <2>2, <2>3, <2>4, <2>5, <2>6, <2>7, <2>10 DEF LinkOf
  <2> QED
    BY Zenon, <1>9, <2>2, <2>8, <2>9, <2>11
<1> QED
  BY Zenon, <1>10, <1>12, <1>13 DEF Sound

-----------------------------------------------------------------------------
(* The invariant *)

\* The names an operation is given are names a directory may have.
LEMMA NamesInBounds ==
  ASSUME BoundInv, NEW x \in 1 .. bound.names
  PROVE  x \in Name
<1>1. bound.names \in 1 .. MaxName
  BY Zenon, ConstantsAssumption DEF BoundInv
<1> QED
  BY <1>1, ConstantsAssumption DEF Name

\* A new namespace has the root alone, which satisfies the invariant
\* (loadOrInit).
LEMMA InitInv == Init => Inv
<1> SUFFICES ASSUME Init PROVE Inv
  BY Zenon
<1>1. Root \in Inode /\ DOMAIN Root.entries = {} /\ Root.dir /\ Root.parent = NoIno
  BY NoEntries DEF Root, Inode, NoIno
<1>2. DOMAIN inodes = {rootInodeID} /\ inodes[rootInodeID] = Root /\ nextIno = 2
  BY DEF Init, rootInodeID
<1>3. Table(inodes, nextIno)
  BY <1>1, <1>2 DEF Init, Table, rootInodeID
<1>4. Tree(inodes)
  <2>1. DOMAIN inodes \ {rootInodeID} = {}
    BY Zenon, <1>2
  <2>2. \A i \in DOMAIN inodes : DOMAIN inodes[i].entries = {}
    BY Zenon, <1>1, <1>2
  <2>3. \A s \in SUBSET (DOMAIN inodes \ {rootInodeID}) : s = {}
    BY Zenon, <2>1
  <2> QED
    BY <2>1, <2>2, <2>3, Zenon DEF Tree
<1>5. Links(inodes)
  <2>1. Subdirs(inodes, rootInodeID) = {}
    BY <1>1, <1>2 DEF Subdirs, NoIno, rootInodeID
  <2>2. Cardinality(Subdirs(inodes, rootInodeID)) = 0
    BY Zenon, <2>1, FS_EmptySet
  <2> QED
    BY <1>2, <2>2 DEF Links, Root
<1>6. TablesSound
  BY Zenon, <1>3, <1>4, <1>5 DEF TablesSound, Sound, Init
<1>7. HandlesInv
  BY <1>2 DEF Init, HandlesInv, Given, Root, encodeHandle, rootInodeID
<1>8. BoundInv
  BY Zenon DEF BoundInv, Init
<1> QED
  BY Zenon, <1>6, <1>7, <1>8 DEF Inv

\* createEntry keeps the invariant: the number it gives out is new, and with
\* it the handle.
LEMMA CreateInv ==
  ASSUME Inv, NEW h \in Handles, NEW name \in 1 .. bound.names, NEW dir \in BOOLEAN,
         createEntry(h, name, dir)
  PROVE  Inv'
<1> DEFINE d == h[1]
           new == [gen |-> clock, dir |-> dir, nlink |-> IF dir THEN 2 ELSE 1, parent |-> d,
                   entries |-> <<>>, obj |-> objects + 1]
<1>1. /\ d \in DOMAIN inodes /\ inodes[d].dir /\ name \notin DOMAIN inodes[d].entries
      /\ name \in Name /\ clock \in Nat /\ objects \in Nat /\ nextIno \in Nat
      /\ DOMAIN inodes \subseteq 1 .. nextIno - 1
  BY Zenon, NamesInBounds
     DEF Inv, HandlesInv, TablesSound, Sound, Table, createEntry, DirHandle, resolves
<1>2. new \in Inode /\ new.entries = <<>> /\ new.parent = d /\ new.dir = dir
  BY <1>1, NoEntries DEF Inode
<1>3. inodes' = Grown(inodes, nextIno, d, name, new)
  BY Zenon DEF createEntry, Grown, LinkOf
<1>4. /\ nextIno' = nextIno + 1 /\ objects' = objects + 1
      /\ handles' = handles \cup {[handle |-> <<nextIno, clock>>, obj |-> objects + 1]}
      /\ changes' = changes + 1
      /\ UNCHANGED <<committed, clock, listing, pages, bound>>
  BY Zenon DEF createEntry, encodeHandle, markDirty
<1>5. new.nlink = (IF new.dir THEN 2 ELSE 1) /\ new.gen = clock /\ new.obj = objects + 1
  BY Zenon
<1>6. TablesSound'
  <2>1. Sound(inodes, nextIno) /\ Sound(committed.inodes, committed.nextIno)
    BY Zenon DEF Inv, TablesSound
  <2> HIDE DEF new, d
  <2>2. Sound(inodes', nextIno + 1)
    BY Zenon, <1>1, <1>2, <1>3, <1>5, <2>1, Created
  <2> QED
    BY Zenon, <1>4, <2>1, <2>2 DEF TablesSound
<1>7. HandlesInv'
  <2> DEFINE x0 == [handle |-> <<nextIno, clock>>, obj |-> objects + 1]
  <2>1. clock' \in Nat /\ objects' \in Nat
    BY <1>1, <1>4
  <2>2. handles' \subseteq [handle : Nat \X Nat, obj : Nat]
    BY SMTT(60), <1>1, <1>4 DEF Inv, HandlesInv
  <2>3. \A x \in handles : x.handle # x0.handle
    BY <1>1 DEF Inv, HandlesInv
  <2>4. \A x, y \in handles' : x.handle = y.handle => x.obj = y.obj
    BY Zenon, <1>4, <2>3 DEF Inv, HandlesInv
  <2>5. \A x \in handles' :
          x.handle[2] <= clock' /\ (x.handle[2] = clock' => x.handle[1] < nextIno')
    BY SMTT(60), <1>1, <1>4 DEF Inv, HandlesInv
  <2>6. Given(inodes)'
    <3> SUFFICES ASSUME NEW i \in DOMAIN inodes'
                 PROVE  [handle |-> <<i, inodes'[i].gen>>, obj |-> inodes'[i].obj] \in handles'
      BY Zenon DEF Given
    <3>1. CASE i = nextIno
      BY Zenon, <1>3, <1>4, <1>5, <3>1 DEF Grown
    <3>2. CASE i # nextIno
      <4>1. i \in DOMAIN inodes /\ inodes[i] \in Inode
        BY Zenon, <1>3, <3>2 DEF Grown, Inv, TablesSound, Sound, Table
      <4>2. inodes'[i].gen = inodes[i].gen /\ inodes'[i].obj = inodes[i].obj
        BY SMTT(60), <1>3, <3>2, <4>1 DEF Grown, Inode
      <4> QED
        BY Zenon, <1>4, <4>1, <4>2 DEF Inv, HandlesInv, Given
    <3> QED
      BY Zenon, <3>1, <3>2
  <2>7. Given(committed.inodes)'
    BY Zenon, <1>4 DEF Inv, HandlesInv, Given
  <2> QED
    BY Zenon, <2>1, <2>2, <2>4, <2>5, <2>6, <2>7 DEF HandlesInv
<1>8. BoundInv'
  BY <1>4 DEF Inv, BoundInv
<1> QED
  BY Zenon, <1>6, <1>7, <1>8 DEF Inv

\* A step that gives out no handle, and whose table has an inode's number,
\* generation and object from before, keeps HandlesInv.
LEMMA HandlesKept ==
  ASSUME HandlesInv, UNCHANGED <<nextIno, committed, clock, objects, handles>>,
         DOMAIN inodes' \subseteq DOMAIN inodes,
         \A i \in DOMAIN inodes' :
           inodes'[i].gen = inodes[i].gen /\ inodes'[i].obj = inodes[i].obj
  PROVE  HandlesInv'
<1>1. Given(inodes)' /\ Given(committed.inodes)'
  BY Zenon DEF HandlesInv, Given
<1> QED
  BY Zenon, <1>1 DEF HandlesInv

\* unlink keeps the invariant.
LEMMA UnlinkInv ==
  ASSUME Inv, NEW h \in Handles, NEW name \in 1 .. bound.names, unlink(h, name)
  PROVE  Inv'
<1> DEFINE d == h[1]
           id == inodes[d].entries[name]
<1>1. /\ d \in DOMAIN inodes /\ name \in DOMAIN inodes[d].entries
      /\ inodes[id].entries = <<>>
      /\ Sound(inodes, nextIno) /\ Sound(committed.inodes, committed.nextIno)
  BY Zenon DEF Inv, TablesSound, unlink, DirHandle, resolves
<1>2. inodes' = Cut(inodes, d, name)
  BY ZenonT(60) DEF unlink, Cut, Without
<1>3. /\ changes' = changes + 1
      /\ UNCHANGED <<nextIno, committed, clock, pages, bound, objects, handles>>
  BY Zenon DEF unlink, markDirty
<1>4. id \in DOMAIN inodes \ {d} /\ inodes[d] \in Inode
  BY Zenon, <1>1, TreeFacts DEF Sound
<1> HIDE DEF d
<1>5. Sound(inodes', nextIno)
  BY Zenon, <1>1, <1>2, Removed
<1>6. TablesSound'
  BY SMTT(60), <1>1, <1>3, <1>5 DEF TablesSound
<1>7. DOMAIN inodes' = DOMAIN inodes \ {id}
  BY SMTT(60), <1>2 DEF Cut
<1>8. \A i \in DOMAIN inodes' : inodes'[i].gen = inodes[i].gen /\ inodes'[i].obj = inodes[i].obj
  BY Zenon, <1>1, <1>2, <1>4, <1>7 DEF Cut, Inode
<1>9. HandlesInv'
  BY <1>3, <1>7, <1>8, HandlesKept DEF Inv
<1>10. BoundInv'
  BY <1>3 DEF Inv, BoundInv
<1> QED
  BY Zenon, <1>6, <1>9, <1>10 DEF Inv

\* Rename keeps the invariant.
LEMMA RenameInv ==
  ASSUME Inv, NEW from \in Handles, NEW to \in Handles,
         NEW a \in 1 .. bound.names, NEW b \in 1 .. bound.names,
         Rename(from, a, to, b)
  PROVE  Inv'
<1> DEFINE src == from[1]
           dst == to[1]
           m == inodes[src].entries[a]
           vs == Victims(dst, b)
<1>1. Sound(inodes, nextIno) /\ Sound(committed.inodes, committed.nextIno)
  BY Zenon DEF Inv, TablesSound
<1>2. /\ changes' = changes + 1
      /\ UNCHANGED <<nextIno, committed, clock, pages, bound, objects, handles>>
  BY ZenonT(60) DEF Rename, markDirty
<1>3. MoveAllowed(inodes, src, a, dst, b, m, vs)
  <2>1. /\ src \in DOMAIN inodes /\ dst \in DOMAIN inodes /\ inodes[src].dir /\ inodes[dst].dir
        /\ a \in DOMAIN inodes[src].entries /\ vs # {m}
    BY Zenon DEF Rename, DirHandle, resolves
  <2>2. b \in Name
    BY Zenon, NamesInBounds DEF Inv
  <2>3. \A v \in vs : inodes[v].dir = inodes[m].dir /\ inodes[v].entries = <<>>
    BY Zenon DEF Rename, Replaceable, Victims
  <2>4. inodes[m].dir => \E r : Avoids(inodes, m, dst, r)
    <3> SUFFICES ASSUME inodes[m].dir PROVE \E r : Avoids(inodes, m, dst, r)
      BY Zenon
    <3>1. ~isAncestor(m, dst)
      BY ZenonT(60) DEF Rename
    <3> QED
      BY Zenon, <3>1 DEF isAncestor, Avoids
  <2> QED
    BY Zenon, <2>1, <2>2, <2>3, <2>4 DEF MoveAllowed, Victims
<1>4. inodes' = MovedTable(inodes, src, a, dst, b, m, vs)
  <2>1. \A i \in {src, dst} :
          LinksAfter(i, src, dst, m, vs) = CountAfter(inodes, i, src, dst, m, vs)
    BY Zenon DEF LinksAfter, CountAfter
  <2> QED
    BY Zenon, <2>1 DEF Rename, MovedTable, EntriesAfter
<1> HIDE DEF src, dst, m, vs
<1>5. Sound(inodes', nextIno)
  BY SMTT(60), <1>1, <1>3, <1>4, Moved
<1>6. TablesSound'
  BY Zenon, <1>1, <1>2, <1>5 DEF TablesSound
<1>7. DOMAIN inodes' = DOMAIN inodes \ vs
  BY ZenonT(60), <1>4 DEF MovedTable
<1>8. \A i \in DOMAIN inodes' : inodes'[i].gen = inodes[i].gen /\ inodes'[i].obj = inodes[i].obj
  <2> SUFFICES ASSUME NEW i \in DOMAIN inodes'
               PROVE  inodes'[i].gen = inodes[i].gen /\ inodes'[i].obj = inodes[i].obj
    BY Zenon
  <2>1. inodes[i] \in Inode /\ i \in DOMAIN inodes \ vs
    BY Zenon, <1>1, <1>7 DEF Sound, Table
  <2> QED
    BY Zenon, <1>4, <2>1 DEF MovedTable, Inode
<1>9. HandlesInv'
  BY SMTT(60), <1>2, <1>7, <1>8, HandlesKept DEF Inv
<1>10. BoundInv'
  BY <1>2 DEF Inv, BoundInv
<1> QED
  BY Zenon, <1>6, <1>9, <1>10 DEF Inv

\* A commit and a crash trade the two tables, and what follows a crash has a
\* generation of its own; a listing changes neither.
LEMMA OtherInv ==
  ASSUME Inv,
         \/ Commit \/ Remount \/ ReadDirFails \/ UNCHANGED vars
         \/ \E h \in Handles, n \in 1 .. MaxName + 2 : ReadDir(h, n)
  PROVE  Inv'
<1>1. CASE Commit
  <2>1. \/ committed' = committed
        \/ committed'.inodes = inodes /\ committed'.nextIno = nextIno
    BY Zenon, <1>1 DEF Commit
  <2>2. UNCHANGED <<inodes, nextIno, clock, changes, pages, bound, objects, handles>>
    BY <1>1 DEF Commit
  <2>3. TablesSound'
    BY Zenon, <2>1, <2>2 DEF Inv, TablesSound
  <2>4. HandlesInv'
    BY Zenon, <2>1, <2>2 DEF Inv, HandlesInv, Given
  <2> QED
    BY Zenon, <2>2, <2>3, <2>4 DEF Inv, BoundInv
<1>2. CASE Remount
  <2>1. /\ inodes' = committed.inodes /\ nextIno' = committed.nextIno /\ clock' = clock + 1
        /\ UNCHANGED <<committed, changes, pages, bound, objects, handles>>
    BY Zenon, <1>2 DEF Remount
  <2>2. TablesSound'
    BY Zenon, <2>1 DEF Inv, TablesSound
  <2>3. HandlesInv'
    <3>1. clock \in Nat /\ handles \subseteq [handle : Nat \X Nat, obj : Nat]
      BY Zenon DEF Inv, HandlesInv
    <3>2. \A x \in handles : x.handle[2] <= clock /\ x.handle[2] \in Nat
      BY Zenon, <3>1 DEF Inv, HandlesInv
    <3>3. \A x \in handles' :
            x.handle[2] <= clock' /\ (x.handle[2] = clock' => x.handle[1] < nextIno')
      BY SMTT(60), <2>1, <3>1, <3>2
    <3>4. Given(inodes)' /\ Given(committed.inodes)'
      BY Zenon, <2>1 DEF Inv, HandlesInv, Given
    <3> QED
      BY SMTT(60), <2>1, <3>1, <3>3, <3>4 DEF Inv, HandlesInv
  <2> QED
    BY SMTT(60), <2>1, <2>2, <2>3 DEF Inv, BoundInv
<1>3. CASE ReadDirFails \/ UNCHANGED vars
           \/ \E h \in Handles, n \in 1 .. MaxName + 2 : ReadDir(h, n)
  <2>1. UNCHANGED <<inodes, nextIno, committed, clock, changes, bound, objects, handles>>
    BY Zenon, <1>3 DEF ReadDirFails, vars, ReadDir
  <2>2. pages' = pages \/ pages' = pages + 1
    BY <1>3, Zenon DEF ReadDirFails, vars, ReadDir
  <2> QED
    BY SMTT(60), <2>1, <2>2 DEF Inv, TablesSound, HandlesInv, Given, BoundInv
<1> QED
  BY Zenon, <1>1, <1>2, <1>3

\* Every operation, commit and crash keeps the invariant.
LEMMA StepInv == Inv /\ [Next]_vars => Inv'
<1> SUFFICES ASSUME Inv, [Next]_vars PROVE Inv'
  BY Zenon
<1>1. ASSUME NEW h \in Handles, NEW name \in 1 .. bound.names, NEW dir \in BOOLEAN,
             createEntry(h, name, dir)
      PROVE  Inv'
  BY Zenon, <1>1, CreateInv
<1>2. ASSUME NEW h \in Handles, NEW name \in 1 .. bound.names, unlink(h, name)
      PROVE  Inv'
  BY Zenon, <1>2, UnlinkInv
<1>3. ASSUME NEW from \in Handles, NEW to \in Handles,
             NEW a \in 1 .. bound.names, NEW b \in 1 .. bound.names,
             Rename(from, a, to, b)
      PROVE  Inv'
  BY <1>3, RenameInv
<1> QED
  BY Zenon, <1>1, <1>2, <1>3, OtherInv DEF Next

\* Both tables, the one in memory and the committed one, are trees with the
\* right link counts, and every handle was given out for one object, in every
\* reachable state (createEntry, Remove, Rmdir, Rename, Sync, loadOrInit).
THEOREM InvAlways == Spec => []Inv
  BY InitInv, StepInv, PTL DEF Spec

-----------------------------------------------------------------------------
(* What it shows *)

\* A directory that names different inodes has as many children as names.
LEMMA NamesCount ==
  ASSUME Sound(inodes, nextIno), NEW i \in DOMAIN inodes
  PROVE  Cardinality(Children(i)) = Cardinality(Names(i))
<1> DEFINE e == inodes[i].entries
<1>1. Table(inodes, nextIno) /\ Tree(inodes)
  BY SMTT(60) DEF Sound
<1>2. e \in Entries /\ IsFiniteSet(DOMAIN e)
  BY Zenon, <1>1, TableFinite, TreeFacts
<1>3. e \in [DOMAIN e -> Nat]
  BY Zenon, <1>2, EntryMap
<1>4. \A x, y \in DOMAIN e : e[x] = e[y] => x = y
  BY Zenon, <1>1 DEF Tree
<1>5. Children(i) = {e[x] : x \in DOMAIN e} /\ Names(i) = DOMAIN e
  BY Zenon DEF Children, Names
<1>6. e \in [DOMAIN e -> Children(i)]
  BY Zenon, <1>3, <1>5
<1> HIDE DEF e
<1>7. e \in Bijection(DOMAIN e, Children(i))
  BY SMTT(60), <1>4, <1>5, <1>6 DEF Bijection, Injection, Surjection, IsInjective
<1>8. ExistsBijection(DOMAIN e, Children(i))
  BY Zenon, <1>7 DEF ExistsBijection
<1> QED
  BY <1>2, <1>5, <1>8, FS_Bijection, Zenon

\* The tree and the counts of Sound are those of the properties.
LEMMA SoundShows == Sound(inodes, nextIno) => IsTree /\ LinksCounted
<1> SUFFICES ASSUME Sound(inodes, nextIno) PROVE IsTree /\ LinksCounted
  BY Zenon
<1>1. Table(inodes, nextIno) /\ Tree(inodes) /\ Links(inodes)
  BY Zenon DEF Sound
<1>2. \A i \in DOMAIN inodes : \A x \in Names(i) :
        inodes[i].entries[x] \in DOMAIN inodes /\ inodes[inodes[i].entries[x]].parent = i
  BY <1>1, Zenon DEF Tree, Names
<1>3. \A i \in DOMAIN inodes : Cardinality(Children(i)) = Cardinality(Names(i))
  BY SMTT(60), NamesCount
<1>4. \A i \in DOMAIN inodes \ {rootInodeID} : i \in Children(inodes[i].parent)
  BY <1>1 DEF Tree, HasEntryFor, Children, Names
<1>5. ASSUME NEW s \in (SUBSET (DOMAIN inodes \ {rootInodeID})) \ {{}}
      PROVE  \E i \in s : inodes[i].parent \notin s
  <2>1. s \in SUBSET (DOMAIN inodes \ {rootInodeID}) /\ s # {}
    OBVIOUS
  <2> QED
    BY <1>1, <2>1, Zenon DEF Tree
<1>6. IsTree
  BY <1>2, <1>3, <1>4, <1>5, Zenon DEF IsTree
<1>7. ASSUME NEW i \in DOMAIN inodes
      PROVE  Subdirs(inodes, i) = {c \in Children(i) : inodes[c].dir}
  <2>1. ASSUME NEW c \in Subdirs(inodes, i) PROVE c \in Children(i)
    <3>1. c \in DOMAIN inodes /\ inodes[c].parent = i
      BY SMTT(60) DEF Subdirs
    <3>2. c # rootInodeID
      BY Zenon, <1>1, <3>1, TreeFacts
    <3> QED
      BY Zenon, <1>4, <3>1, <3>2
  <2>2. ASSUME NEW c \in Children(i) PROVE c \in DOMAIN inodes /\ inodes[c].parent = i
    BY SMTT(60), <1>2 DEF Children
  <2> QED
    BY Zenon, <2>1, <2>2 DEF Subdirs
<1>8. LinksCounted
  BY Zenon, <1>1, <1>7 DEF LinksCounted, Links
<1> QED
  BY Zenon, <1>6, <1>8

\* The inode table is a tree after any creations, removals and renames, and
\* after a crash (createEntry, Remove, Rmdir, Rename, loadOrInit).
THEOREM TreeKept == Spec => []IsTree
<1>1. Inv => IsTree
  BY Zenon, SoundShows DEF Inv, TablesSound
<1> QED
  BY <1>1, InvAlways, PTL

\* A directory's link count is two and one for each directory in it
\* (relink, createEntry).
THEOREM LinksKept == Spec => []LinksCounted
<1>1. Inv => LinksCounted
  BY Zenon, SoundShows DEF Inv, TablesSound
<1> QED
  BY <1>1, InvAlways, PTL

\* A handle names the object it was given out for, or is stale, however often
\* the mount crashed and used numbers again (encodeHandle, resolve).
THEOREM HandlesSafe == Spec => []HandlesKeepTheirObject
<1>1. Inv => HandlesKeepTheirObject
  <2> SUFFICES ASSUME Inv, NEW x \in handles, resolves(x.handle)
               PROVE  inodes[x.handle[1]].obj = x.obj
    BY Zenon DEF HandlesKeepTheirObject
  <2> DEFINE i == x.handle[1]
  <2>1. i \in DOMAIN inodes /\ inodes[i].gen = x.handle[2] /\ x.handle \in Nat \X Nat
    BY Zenon DEF resolves, Inv, HandlesInv
  <2>2. [handle |-> <<i, inodes[i].gen>>, obj |-> inodes[i].obj] \in handles
    BY Zenon, <2>1 DEF Inv, HandlesInv, Given
  <2>3. x.handle = <<i, inodes[i].gen>>
    BY <2>1
  <2> QED
    BY Zenon, <2>2, <2>3 DEF Inv, HandlesInv
<1> QED
  BY <1>1, InvAlways, PTL

-----------------------------------------------------------------------------
(* Listings *)

\* The place of a name in a sorted listing tells it from the others: two
\* names do not have as many below them.
LEMMA Ranks ==
  ASSUME NEW s \in SUBSET Int, IsFiniteSet(s),
         NEW r, r = [x \in s |-> Cardinality({y \in s : y <= x})]
  PROVE  r \in Bijection(s, 1 .. Cardinality(s))
<1> DEFINE below(x) == {y \in s : y <= x}
           n == Cardinality(s)
<1>1. n \in Nat
  BY FS_CardinalityType, Zenon
<1>2. ASSUME NEW x \in s
      PROVE  IsFiniteSet(below(x)) /\ Cardinality(below(x)) \in 1 .. n
  <2>1. below(x) \in SUBSET s /\ x \in below(x)
    OBVIOUS
  <2>2. IsFiniteSet(below(x)) /\ Cardinality(below(x)) <= n
    BY <2>1, FS_Subset, Zenon
  <2>3. Cardinality(below(x)) \in Nat /\ Cardinality(below(x)) # 0
    BY <2>1, <2>2, FS_CardinalityType, FS_EmptySet, Zenon
  <2> QED
    BY SMTT(60), <1>1, <2>2, <2>3
<1>3. ASSUME NEW x \in s, NEW y \in s, x < y
      PROVE  Cardinality(below(x)) # Cardinality(below(y))
  <2>0. x \in Int /\ y \in Int /\ \A z \in s : z \in Int
    BY Zenon
  <2>1. below(x) \in SUBSET below(y) /\ y \in below(y) /\ y \notin below(x)
    <3>1. \A z \in s : z <= x => z <= y
      BY SMTT(60), <1>3, <2>0
    <3>2. y <= y /\ ~(y <= x)
      BY <1>3, <2>0
    <3> QED
      BY <3>1, <3>2, Zenon
  <2>2. IsFiniteSet(below(y))
    BY <1>2, Zenon
  <2> QED
    BY <2>1, <2>2, FS_Subset, Zenon
<1>4. \A x \in s : r[x] = Cardinality(below(x))
  BY Zenon
<1> HIDE DEF below
<1>5. r \in [s -> 1 .. n]
  BY SMTT(60), <1>2, <1>4
<1>6. \A x, y \in s : r[x] = r[y] => x = y
  <2> SUFFICES ASSUME NEW x \in s, NEW y \in s, x # y PROVE r[x] # r[y]
    BY Zenon
  <2>1. x < y \/ y < x
    OBVIOUS
  <2> QED
    BY Zenon, <1>3, <1>4, <2>1
<1>7. r \in Injection(s, 1 .. n)
  BY Zenon, <1>5, <1>6 DEF Injection, IsInjective
<1>8. IsFiniteSet(1 .. n) /\ Cardinality(1 .. n) = n
  BY <1>1, FS_Interval, SMT
<1>9. r \in Surjection(s, 1 .. n)
  BY <1>7, <1>8, FS_Injection, Zenon
<1> QED
  BY Zenon, <1>7, <1>9 DEF Bijection

\* A sorted listing holds each of its names once.
LEMMA SortedHolds ==
  ASSUME NEW names \in SUBSET Name
  PROVE  /\ Sorted(names) \in Seq(Int)
         /\ ToSet(Sorted(names)) = names \cup {Dot, DotDot}
         /\ IsInjective(Sorted(names))
<1> DEFINE s == names \cup {Dot, DotDot}
           n == Cardinality(s)
           rank(x) == Cardinality({y \in s : y <= x})
           r == [x \in s |-> rank(x)]
           l == Sorted(names)
<1>1. s \in SUBSET Int /\ IsFiniteSet(s)
  <2>1. IsFiniteSet(Name)
    BY FS_Interval, ConstantsAssumption, SMT DEF Name
  <2>2. IsFiniteSet(names)
    BY <2>1, FS_Subset, Zenon
  <2>3. IsFiniteSet(names \cup {Dot}) /\ IsFiniteSet((names \cup {Dot}) \cup {DotDot})
    BY <2>2, FS_AddElement, Zenon
  <2>4. s = (names \cup {Dot}) \cup {DotDot}
    BY Zenon
  <2>5. s \in SUBSET Int
    BY DEF Name, Dot, DotDot
  <2> QED
    BY <2>3, <2>4, <2>5, Zenon
<1>2. n \in Nat
  BY <1>1, FS_CardinalityType, Zenon
<1>3. r \in Bijection(s, 1 .. n)
  BY <1>1, Ranks, Zenon
<1>4. /\ r \in [s -> 1 .. n] /\ \A x, y \in s : r[x] = r[y] => x = y
      /\ \A i \in 1 .. n : \E x \in s : r[x] = i
  BY Zenon, <1>3 DEF Bijection, Injection, Surjection, IsInjective
<1>5. l = [i \in 1 .. n |-> CHOOSE x \in s : rank(x) = i] /\ \A x \in s : r[x] = rank(x)
  BY Zenon DEF Sorted
<1> HIDE DEF s, n, r, l, rank
<1>6. \A i \in 1 .. n : l[i] \in s /\ r[l[i]] = i
  <2> SUFFICES ASSUME NEW i \in 1 .. n PROVE l[i] \in s /\ r[l[i]] = i
    BY Zenon
  <2>1. \E x \in s : rank(x) = i
    BY <1>4, <1>5, Zenon
  <2>2. l[i] = CHOOSE x \in s : rank(x) = i
    BY Zenon, <1>5
  <2>3. l[i] \in s /\ rank(l[i]) = i
    BY <2>1, <2>2, Zenon
  <2> QED
    BY <1>5, <2>3, Zenon
<1>7. l \in [1 .. n -> s] /\ DOMAIN l = 1 .. n
  BY <1>5, <1>6
<1>8. l \in [1 .. n -> Int]
  BY Zenon, <1>1, <1>7
<1>9. l \in Seq(Int)
  BY <1>2, <1>8
<1>10. \A x \in s : r[x] \in 1 .. n /\ l[r[x]] = x
  BY <1>4, <1>6
<1>11. ToSet(l) = s
  BY <1>6, <1>7, <1>10 DEF ToSet
<1>12. IsInjective(l)
  BY <1>6, <1>7 DEF IsInjective
<1> QED
  BY Zenon, <1>9, <1>11, <1>12 DEF s, l

\* What a client has of a listing is the beginning of the sorted names that
\* its verifier stands for.
ListingInv ==
  /\ listing.verf \in SUBSET Name
  /\ listing.cookie \in 0 .. Len(Sorted(listing.verf))
  /\ listing.got = SubSeq(Sorted(listing.verf), 1, listing.cookie)

\* A listing that has not begun is the beginning of any (ReadDir's cookie 0).
LEMMA NothingListed ==
  /\ NoListing.verf \in SUBSET Name /\ NoListing.cookie = 0 /\ NoListing.got = <<>>
  /\ NoListing.eof = FALSE
  /\ 0 \in 0 .. Len(Sorted(NoListing.verf))
  /\ NoListing.got = SubSeq(Sorted(NoListing.verf), 1, NoListing.cookie)
<1>1. /\ NoListing.verf = {} /\ NoListing.cookie = 0 /\ NoListing.got = <<>>
      /\ NoListing.eof = FALSE
  BY Zenon DEF NoListing
<1>2. Len(Sorted({})) \in Nat
  BY SortedHolds
<1>3. SubSeq(Sorted({}), 1, 0) = <<>>
  BY SubSeqEmpty, SMT
<1> QED
  BY SMTT(60), <1>1, <1>2, <1>3

\* The page that is read goes on where the client's beginning ends: what it
\* has is then the beginning of what the directory lists.
LEMMA PageRead ==
  ASSUME Inv, ListingInv, NEW h \in Handles, NEW n \in 1 .. MaxName + 2, ReadDir(h, n)
  PROVE  /\ ListingInv'
         /\ listing'.dir = h /\ listing'.verf = Names(h[1])
         /\ listing'.eof => listing'.cookie = Len(Sorted(listing'.verf))
<1> DEFINE d == h[1]
           l == IF listing.eof \/ listing.dir # h THEN NoListing ELSE listing
           last == l.cookie + n
           A == Sorted(Names(d))
<1>1. /\ d \in DOMAIN inodes
      /\ l.cookie # 0 => l.verf = Names(d)
      /\ last <= Len(A)
      /\ listing' = [dir |-> h, cookie |-> last, verf |-> Names(d),
                     got |-> l.got \o SubSeq(A, l.cookie + 1, last), eof |-> last = Len(A)]
  BY Zenon DEF ReadDir, DirHandle, resolves, dirVerifier, All
<1>2. /\ l.cookie \in Nat /\ l.got = SubSeq(Sorted(l.verf), 1, l.cookie)
  BY NothingListed DEF ListingInv
<1>3. Names(d) \in SUBSET Name
  <2>1. inodes[d].entries \in Entries
    BY Zenon, <1>1, TreeFacts DEF Inv, TablesSound, Sound
  <2> QED
    BY Zenon, <2>1, EntryMap DEF Names
<1>4. A \in Seq(Int) /\ Len(A) \in Nat
  BY SMTT(60), <1>3, SortedHolds
<1> HIDE DEF l
<1>5. l.got = SubSeq(A, 1, l.cookie)
  <2>1. CASE l.cookie = 0
    <3>1. \A s : SubSeq(s, 1, 0) = <<>>
      BY SubSeqEmpty, SMT
    <3> QED
      BY <1>2, <2>1, <3>1, Zenon
  <2>2. CASE l.cookie # 0
    BY Zenon, <1>1, <1>2, <2>2
  <2> QED
    BY Zenon, <2>1, <2>2
<1>6. n \in Nat /\ n >= 1 /\ last \in Nat /\ l.cookie <= last
  BY <1>2, ConstantsAssumption
<1>7. SubSeq(A, 1, l.cookie) \o SubSeq(A, l.cookie + 1, last) = SubSeq(A, 1, last)
  <2>1. 1 \in 1 .. Len(A) + 1 /\ l.cookie \in 1 - 1 .. Len(A) /\ last \in l.cookie .. Len(A)
    BY SMTT(60), <1>1, <1>2, <1>4, <1>6
  <2> QED
    BY <1>4, <2>1, ConcatAdjacentSubSeq, Zenon
<1> HIDE DEF last, A
<1>8. /\ listing'.dir = h /\ listing'.verf = Names(d) /\ listing'.cookie = last
      /\ listing'.got = SubSeq(A, 1, last) /\ listing'.eof = (last = Len(A))
  BY Zenon, <1>1, <1>5, <1>7
<1>9. A = Sorted(listing'.verf) /\ last \in 0 .. Len(A)
  BY <1>1, <1>4, <1>6, <1>8 DEF A
<1>10. ListingInv'
  BY <1>3, <1>8, <1>9, Zenon DEF ListingInv
<1> QED
  BY <1>8, <1>9, <1>10, Zenon

\* Only reading a page and giving a listing up touch it.
LEMMA ListingTouched ==
  ASSUME [Next]_vars
  PROVE  \/ UNCHANGED <<listing, pages>> \/ ReadDirFails
         \/ \E h \in Handles, n \in 1 .. MaxName + 2 : ReadDir(h, n)
<1>1. ASSUME NEW h, NEW name, NEW dir, createEntry(h, name, dir)
      PROVE  UNCHANGED <<listing, pages>>
  BY <1>1, Zenon DEF createEntry
<1>2. ASSUME NEW h, NEW name, unlink(h, name) PROVE UNCHANGED <<listing, pages>>
  BY <1>2, Zenon DEF unlink
<1>3. ASSUME NEW from, NEW a, NEW to, NEW b, Rename(from, a, to, b)
      PROVE  UNCHANGED <<listing, pages>>
  BY <1>3, Zenon DEF Rename
<1>4. ASSUME Commit \/ Remount \/ UNCHANGED vars PROVE UNCHANGED <<listing, pages>>
  BY <1>4, Zenon DEF Commit, Remount, vars
<1> QED
  BY <1>1, <1>2, <1>3, <1>4, Zenon DEF Next

\* No step breaks off what a client has but where it begins again.
LEMMA ListingStep == Inv /\ ListingInv /\ [Next]_vars => ListingInv'
<1> SUFFICES ASSUME Inv, ListingInv, [Next]_vars PROVE ListingInv'
  OBVIOUS
<1>1. CASE \E h \in Handles, n \in 1 .. MaxName + 2 : ReadDir(h, n)
  BY Zenon, <1>1, PageRead
<1>2. CASE ReadDirFails
  <2>1. listing' = NoListing
    BY <1>2 DEF ReadDirFails
  <2> QED
    BY <2>1, NothingListed, Zenon DEF ListingInv
<1>3. CASE listing' = listing
  BY Zenon, <1>3 DEF ListingInv
<1> QED
  BY <1>1, <1>2, <1>3, ListingTouched, Zenon

\* A listing read to its end holds the names the directory then has, each
\* once: the verifier notices any change between two pages (ReadDir,
\* dirVerifier).
THEOREM ListingsExact == Spec => ListingsAreExact
<1>1. Init => ListingInv
  BY NothingListed, Zenon DEF Init, ListingInv
<1>2. ASSUME Inv, ListingInv, [Next]_vars, pages' # pages, listing'.eof
      PROVE  /\ ToSet(listing'.got) = Names(listing'.dir[1]) \cup {Dot, DotDot}
             /\ IsInjective(listing'.got)
  <2>1. PICK h \in Handles, n \in 1 .. MaxName + 2 : ReadDir(h, n)
    BY <1>2, ListingTouched, Zenon DEF ReadDirFails
  <2>2. /\ ListingInv' /\ listing'.dir = h /\ listing'.verf = Names(h[1])
        /\ listing'.cookie = Len(Sorted(listing'.verf))
    BY <1>2, <2>1, PageRead, Zenon
  <2>3. listing'.verf \in SUBSET Name
    BY Zenon, <2>2 DEF ListingInv
  <2>4. Sorted(listing'.verf) \in Seq(Int)
    BY <2>3, SortedHolds, Zenon
  <2>5. listing'.got = SubSeq(Sorted(listing'.verf), 1, Len(Sorted(listing'.verf)))
    BY <2>2, Zenon DEF ListingInv
  <2>6. listing'.got = Sorted(listing'.verf)
    BY <2>4, <2>5, SubSeqFull, Zenon
  <2> QED
    BY <2>2, <2>3, <2>6, SortedHolds, Zenon
<1>3. Inv /\ ListingInv /\ [Next]_vars =>
        (pages' # pages /\ listing'.eof =>
           /\ ToSet(listing'.got) = Names(listing'.dir[1]) \cup {Dot, DotDot}
           /\ IsInjective(listing'.got))
  BY <1>2, Zenon
<1>4. Spec => []ListingInv
  BY <1>1, ListingStep, InvAlways, PTL DEF Spec
<1> QED
  BY <1>3, <1>4, InvAlways, PTL DEF Spec, ListingsAreExact

=============================================================================
