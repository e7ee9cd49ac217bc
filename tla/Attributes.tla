------------------------------ MODULE Attributes -------------------------------
(***************************************************************************)
(* Who may change and read one inode: the rules of internal/policy, and    *)
(* the calls of internal/blobfs/fs.go that ask them twice because they     *)
(* wait for a lock in between.  SetAttr of a size asks, waits for the      *)
(* commit gate and the file's lock, and asks again in the hold that makes  *)
(* the change; Read of a file with buffered writes does the same.          *)
(*                                                                         *)
(* What is abstracted.                                                     *)
(*  - A mode is the set of its nine permission bits, each a class and a    *)
(*    permission; the set-id bits decide nothing.                          *)
(*  - Which refusal is answered is left out of the calls: a refused call   *)
(*    returns and changes nothing.  Check keeps them.                      *)
(*  - Contents, buffers and the locks themselves are module FileData's:    *)
(*    here a thread that waits is one that has not taken its next step.    *)
(***************************************************************************)
EXTENDS Integers, FiniteSets

CONSTANTS
  Proc,      \* threads serving calls
  Callers,   \* vfs.Caller: [uid, gid, gids]
  Modes,     \* the modes an inode is given
  Gids,      \* the groups it is given
  Sizes,     \* the sizes it is given
  MaxCalls   \* how many calls are made in all

Class == {"owner", "group", "other"}
Perm == {"read", "write", "exec"}
Keep == -1                        \* an attribute a SetAttr does not set
Uids == {c.uid : c \in Callers}

ASSUME ConstantsAssumption ==
  /\ Callers \subseteq [uid : Nat, gid : Nat, gids : SUBSET Nat]
  /\ Modes \subseteq SUBSET (Class \X Perm)
  /\ Gids \subseteq Nat /\ Sizes \subseteq Nat /\ MaxCalls \in Nat

VARIABLES
  linked,     \* the handle of the inode resolves
  buffered,   \* FS.open has an entry for it
  inode,      \* [dir, mode, uid, gid, size]
  pc, call,   \* each thread's place, and the call it serves
  calls

vars == <<linked, buffered, inode, pc, call, calls>>

-----------------------------------------------------------------------------
(* The rules *)

InGroup(c, gid) == c.gid = gid \/ gid \in c.gids

\* The one class that judges a caller other than root.
ClassOf(c, o) ==
  IF c.uid = o.uid THEN "owner" ELSE IF InGroup(c, o.gid) THEN "group" ELSE "other"

Permits(c, o, want) ==
  IF c.uid = 0
  THEN "exec" \in want => o.dir \/ \E class \in Class : <<class, "exec">> \in o.mode
  ELSE \A p \in want : <<ClassOf(c, o), p>> \in o.mode

fileAccess(c, o, want) ==
  IF o.dir THEN "IsDir" ELSE IF Permits(c, o, want) THEN "OK" ELSE "Acces"
rootOrOwner(c, o) == c.uid = 0 \/ c.uid = o.uid

\* The rows of the calls below; arg is the owner or the group asked for.
Check(op, c, o, arg) ==
  LET orPerm(ok) == IF ok THEN "OK" ELSE "Perm"
  IN CASE op = "read" -> fileAccess(c, o, {"read"})
       [] op = "truncate" -> fileAccess(c, o, {"write"})
       [] op = "chmod" -> orPerm(rootOrOwner(c, o))
       [] op = "chown" -> orPerm(rootOrOwner(c, o) /\ (c.uid = 0 \/ arg = o.uid))
       [] op = "chgrp" -> orPerm(rootOrOwner(c, o) /\ (c.uid = 0 \/ InGroup(c, arg)))

AccessBits(c, o) ==
  {b \in {"read", "lookup", "modify", "extend", "delete", "execute"} :
     CASE b = "read" -> Permits(c, o, {"read"})
       [] b = "lookup" -> o.dir /\ (Permits(c, o, {"read"}) \/ Permits(c, o, {"exec"}))
       [] b \in {"modify", "extend"} -> Permits(c, o, {"write"})
       [] b = "delete" -> o.dir /\ Permits(c, o, {"write"})
       [] b = "execute" -> /\ ~o.dir
                           /\ \E class \in Class : <<class, "exec">> \in o.mode
                           /\ Permits(c, o, {"exec"})}

-----------------------------------------------------------------------------
(* The calls *)

NoCall == [kind |-> "none", caller |-> [uid |-> Keep, gid |-> Keep, gids |-> {}],
           size |-> Keep, mode |-> {}, uid |-> Keep, gid |-> Keep]

Init ==
  /\ linked = TRUE
  /\ buffered \in BOOLEAN
  /\ inode \in [dir : BOOLEAN, mode : Modes, uid : Uids, gid : Gids, size : {0}]
  /\ inode.dir => ~buffered
  /\ pc = [p \in Proc |-> "idle"]
  /\ call = [p \in Proc |-> NoCall]
  /\ calls = 0

\* setAttrRequests: every request reads the inode as it stands.
setAttrRequests(c, sa) ==
  /\ sa.size # Keep => Check("truncate", c, inode, 0) = "OK"
  /\ sa.mode # {} => Check("chmod", c, inode, 0) = "OK"
  /\ sa.uid # Keep => Check("chown", c, inode, sa.uid) = "OK"
  /\ sa.gid # Keep => Check("chgrp", c, inode, sa.gid) = "OK"

\* The inode with the size and the rest of sa applied.
Applied(sa) ==
  [inode EXCEPT !.size = IF sa.size = Keep THEN @ ELSE sa.size,
                !.mode = IF sa.mode = {} THEN @ ELSE sa.mode,
                !.uid = IF sa.uid = Keep THEN @ ELSE sa.uid,
                !.gid = IF sa.gid = Keep THEN @ ELSE sa.gid]

Goto(p, label) == pc' = [pc EXCEPT ![p] = label]

Return(p) == Goto(p, "idle") /\ call' = [call EXCEPT ![p] = NoCall]

\* A call passes the checks that take no lock.  One made once the file has
\* gone is refused as one that finds it gone is, and left out.
Start(p, new) ==
  /\ pc[p] = "idle"
  /\ linked
  /\ calls < MaxCalls
  /\ calls' = calls + 1
  /\ call' = [call EXCEPT ![p] = new]
  /\ Goto(p, IF new.kind = "read" \/ new.size # Keep THEN "check" ELSE "hold")
  /\ UNCHANGED <<linked, buffered, inode>>

\* The attributes set are a size, and a mode or the owner and the group.
StartSetAttr(p) ==
  \E c \in Callers, n \in Sizes \cup {Keep} :
    LET sa == [NoCall EXCEPT !.kind = "setattr", !.caller = c, !.size = n]
    IN \/ \E m \in Modes : Start(p, [sa EXCEPT !.mode = m])
       \/ \E u \in Uids \cup {Keep}, g \in Gids \cup {Keep} :
            Start(p, [sa EXCEPT !.uid = u, !.gid = g])

StartRead(p) ==
  \E c \in Callers : Start(p, [NoCall EXCEPT !.kind = "read", !.caller = c])

\* The checks of truncate in a hold of FS.mu for reading: a call they refuse
\* returns having waited for nothing.
truncateCheck(p) ==
  /\ pc[p] = "check"
  /\ call[p].kind = "setattr"
  /\ IF linked /\ setAttrRequests(call[p].caller, call[p])
     THEN Goto(p, "hold") /\ UNCHANGED call ELSE Return(p)
  /\ UNCHANGED <<linked, buffered, inode, calls>>

\* Mutant: the hold that applies a size relies on the check made before it.
SetAttrUnchecked(p) ==
  /\ pc[p] = "hold"
  /\ call[p].kind = "setattr"
  /\ LET sa == call[p]
     IN /\ inode' = IF linked /\ (sa.size # Keep \/ setAttrRequests(sa.caller, sa))
                    THEN Applied(sa) ELSE inode
        /\ buffered' = (buffered \/ (sa.size # Keep /\ linked))
  /\ Return(p)
  /\ UNCHANGED <<linked, calls>>

\* The hold of FS.mu for writing that asks again and applies all of sa, or
\* refuses and applies none.  A size's hold comes after getOpen.
SetAttr(p) ==
  /\ pc[p] = "hold"
  /\ call[p].kind = "setattr"
  /\ LET sa == call[p]
     IN /\ inode' = IF linked /\ setAttrRequests(sa.caller, sa) THEN Applied(sa) ELSE inode
        /\ buffered' = (buffered \/ (sa.size # Keep /\ linked))
  /\ Return(p)
  /\ UNCHANGED <<linked, calls>>

\* Read's first hold.  With no buffered write it takes its view here.
readable(p) ==
  /\ pc[p] = "check"
  /\ call[p].kind = "read"
  /\ IF linked /\ Check("read", call[p].caller, inode, 0) = "OK"
     THEN Goto(p, IF buffered THEN "hold" ELSE "view") /\ UNCHANGED call ELSE Return(p)
  /\ UNCHANGED <<linked, buffered, inode, calls>>

\* The second, under the file's lock: it asks again and takes the view there.
readBuffered(p) ==
  /\ pc[p] = "hold"
  /\ call[p].kind = "read"
  /\ IF linked /\ Check("read", call[p].caller, inode, 0) = "OK"
     THEN Goto(p, "view") /\ UNCHANGED call ELSE Return(p)
  /\ UNCHANGED <<linked, buffered, inode, calls>>

Reply(p) ==
  /\ pc[p] = "view"
  /\ Return(p)
  /\ UNCHANGED <<linked, buffered, inode, calls>>

\* Someone removes the file's name, or writes to it.
unlink ==
  /\ linked
  /\ linked' = FALSE
  /\ buffered' = FALSE
  /\ UNCHANGED <<inode, pc, call, calls>>

getOpen ==
  /\ linked /\ ~inode.dir /\ ~buffered
  /\ buffered' = TRUE
  /\ UNCHANGED <<linked, inode, pc, call, calls>>

Idle == (\A p \in Proc : pc[p] = "idle") /\ UNCHANGED vars

Next ==
  \/ \E p \in Proc : \/ StartSetAttr(p) \/ truncateCheck(p) \/ SetAttr(p)
                     \/ StartRead(p) \/ readable(p) \/ readBuffered(p) \/ Reply(p)
  \/ unlink \/ getOpen \/ Idle

Spec == Init /\ [][Next]_vars

-----------------------------------------------------------------------------
(* Properties *)

\* A change is made whole or not at all, by a caller the inode admits as it
\* stands at that moment and not as it stood when the call was first checked:
\* only root gives it away, only root and the owner change its mode or group,
\* and only a caller ACCESS would answer MODIFY to changes its size.  Bytes
\* are shown only to a caller ACCESS would then answer READ to (SetAttr,
\* truncate, Read, Check, AccessBits).
DoneAsAllowed ==
  [][\A p \in Proc :
       LET c == call[p].caller
       IN /\ pc[p] # "idle" /\ inode' # inode /\ pc'[p] = "idle" =>
               /\ inode'.uid # inode.uid => c.uid = 0
               /\ inode'.mode # inode.mode => c.uid \in {0, inode.uid}
               /\ inode'.gid # inode.gid =>
                    c.uid = 0 \/ (c.uid = inode.uid /\ InGroup(c, inode'.gid))
               /\ inode'.size # inode.size => "modify" \in AccessBits(c, inode)
               /\ inode' = Applied(call[p])
          /\ pc[p] # "view" /\ pc'[p] = "view" =>
               linked /\ ~inode.dir /\ "read" \in AccessBits(c, inode)]_vars
=============================================================================
