------------------------------ MODULE LogCopy ------------------------------
(***************************************************************************)
(* What sumdb-explorer promises of its database: the tree it trusts is     *)
(* replaced by its extensions only, and its rows are entries of that tree, *)
(* added behind all others.                                                *)
(***************************************************************************)

EXTENDS Integers

CONSTANTS
  MaxSize,     \* bound: the largest size of a log
  Logs,        \* the histories a tree may belong to
  None         \* no tree, no row

Indexes == 0 .. MaxSize - 1
Trees   == [log : Logs, n : 0 .. MaxSize]

VARIABLES
  tree,        \* the tree that is trusted, or None
  rows         \* the entry at each index, or None

Extends(new, old) ==
  old.n <= new.n /\ \A i \in Indexes : i < old.n => new.log[i] = old.log[i]

Init == tree = None /\ rows = [i \in Indexes |-> None]

Trust ==
  /\ \E t \in Trees : (tree # None => Extends(t, tree)) /\ tree' = t
  /\ UNCHANGED rows

Copy ==
  /\ \E i \in Indexes :
       /\ tree # None /\ i < tree.n
       /\ \A j \in Indexes : rows[j] # None => j < i
       /\ rows' = [rows EXCEPT ![i] = tree.log[i]]
  /\ UNCHANGED tree

Next == Trust \/ Copy

Spec == Init /\ [][Next]_<<tree, rows>>

=============================================================================
