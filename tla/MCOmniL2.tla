------------------------------ MODULE MCOmniL2 ------------------------------
(***************************************************************************)
(* One chain.  The first root proves one verdict of each transaction, the  *)
(* second the opposite ones, as a later epoch may.                         *)
(***************************************************************************)
EXTENDS OmniL2

CONSTANTS r1, r2, x1, x2

MCRoots == {r1, r2}
MCTxs == {x1, x2}
MCProves(root, leaf) ==
  leaf \in Claims \cup (IF root = r1 THEN {<<x1, TRUE>>, <<x2, FALSE>>}
                                     ELSE {<<x1, FALSE>>, <<x2, TRUE>>})
=============================================================================
