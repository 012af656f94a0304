---------------------------- MODULE MCL2FullNode ----------------------------
(***************************************************************************)
(* One transaction with two logs, one with a wrong proof, and one of       *)
(* another transaction; two chains, four block numbers.                    *)
(***************************************************************************)
EXTENDS L2FullNode

CONSTANTS x1, x2, c1, c2

L(tx, chain, block, proves) == [tx |-> tx, chain |-> chain, block |-> block, proves |-> proves]

MCLogs == {L(x1, c1, 1, 1), L(x1, c2, 2, 1), L(x2, c2, 3, 3)}
MCBatches ==
  {<<l>> : l \in MCLogs} \cup {p \in MCLogs \X MCLogs : p[1] # p[2]}
    \cup {<<L(x1, c2, 2, 1), L(x2, c2, 3, 3), L(x1, c1, 1, 1)>>}
MCChains == {c1, c2}
=============================================================================
