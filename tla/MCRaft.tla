------------------------------- MODULE MCRaft -------------------------------
(***************************************************************************)
(* Raft for the safety run: the nodes differ in nothing but their name.    *)
(***************************************************************************)
EXTENDS Raft, TLC

AnyNode == Permutations(Nodes)
=============================================================================
