------------------------------- MODULE MptTree -------------------------------
(***************************************************************************)
(* Common/mpt_tree as a value.  The tree never grows a branch: an insert   *)
(* frees the root and puts a single leaf in its place, so only the key     *)
(* inserted last can be read.  leaf holds that leaf, or nothing; size is   *)
(* the C counter, which every insert increments.                           *)
(***************************************************************************)
EXTENDS Integers

\* mpt_tree_init
EmptyTree == [leaf |-> {}, size |-> 0]

\* mpt_tree_insert, with memory for the leaf: the previous one is gone, whatever its key was.
TreeInsert(t, key, value) ==
  [leaf |-> {[key |-> key, value |-> value]}, size |-> t.size + 1]

\* mpt_tree_get succeeds on the key of the one leaf only.
TreeHas(t, key) == \E l \in t.leaf : l.key = key
TreeGet(t, key) == (CHOOSE l \in t.leaf : l.key = key).value
=============================================================================
