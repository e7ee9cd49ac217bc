----------------------------- MODULE MCNamespace ------------------------------
(* Instances of Namespace for TLC. *)
EXTENDS Namespace

\* Trees of any shape that crashes cut back to what was committed, and
\* listings of a directory that changes between pages.
MCBounds ==
  {[names |-> 2, objects |-> 3, changes |-> 6, crashes |-> 2, pages |-> 0],
   [names |-> 3, objects |-> 3, changes |-> 5, crashes |-> 0, pages |-> 2],
   [names |-> 2, objects |-> 2, changes |-> 3, crashes |-> 1, pages |-> 2]}
=============================================================================
