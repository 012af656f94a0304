---------------------------- MODULE MCMerkleChain ----------------------------
(***************************************************************************)
(* Transfers between two accounts, as l2_simulator makes them: a "sub" of  *)
(* the sender (even id) and an "add" of the receiver (odd id) share the    *)
(* transaction's id.  A third account only receives.                       *)
(***************************************************************************)
EXTENDS MerkleChain

CONSTANTS a1, a2, a3, t1

Transfer(tx, from, to, amount) ==
  {[id |-> 2 * tx, tx |-> tx, type |-> "sub", token |-> t1,
    account |-> from, amount |-> amount, valid |-> TRUE],
   [id |-> 2 * tx + 1, tx |-> tx, type |-> "add", token |-> t1,
    account |-> to, amount |-> amount, valid |-> TRUE]}

MCSubmitted == Transfer(1, a2, a1, 2) \cup Transfer(2, a1, a2, 1) \cup Transfer(3, a1, a3, 1)
                 \cup Transfer(4, a2, a1, 1)

MCOperations == MCSubmitted \cup {[o EXCEPT !.valid = FALSE] : o \in MCSubmitted}
MCBucket(account, token) == account
=============================================================================
