----------------------------- MODULE MerkleState -----------------------------
(***************************************************************************)
(* How the operations of a DAG reach a token's balance tree, and how a     *)
(* transaction is validated against it (Common/merkle_crdt).  Operators    *)
(* on values only; MerkleCrdt and TeeCluster make them actions.            *)
(*                                                                         *)
(* Balances are 256-bit numbers added and subtracted byte by byte without  *)
(* a final carry: arithmetic modulo AmountMod.  Every balance key is a     *)
(* 64-byte buffer of which 62 bytes are written, so two lookups of one     *)
(* account can disagree in the last two; tail is what they happen to hold  *)
(* during one call (the buffers of a call's loops share their place on the *)
(* stack), and a build that always leaves the same bytes there is the      *)
(* model with a single tail.                                               *)
(***************************************************************************)
EXTENDS MerkleDag, MptTree, SequencesExt

CONSTANTS
  AmountMod,   \* 2^256
  MaxTxOps     \* 100: the size of the tx_operations buffers

ASSUME MerkleStateAssumption ==
  /\ AmountMod \in Nat \ {0} /\ MaxTxOps \in Nat
  /\ \A o \in Operations : o.amount \in 0..AmountMod-1

BalanceKey(o, tail) == <<o.account, o.token, tail>>

\* The balance an operation leaves behind: a subtraction never fails here.
NewBalance(t, o, key) ==
  LET old == TreeGet(t, key) IN
  CASE o.type = "set" -> o.amount
    [] o.type = "add" -> IF TreeHas(t, key) THEN (old + o.amount) % AmountMod ELSE o.amount
    [] o.type = "sub" -> IF TreeHas(t, key) THEN (old - o.amount) % AmountMod ELSE 0

\* One iteration of update_parent_states or update_state.
ApplyOp(t, o, tail) ==
  TreeInsert(t, BalanceKey(o, tail), NewBalance(t, o, BalanceKey(o, tail)))

\* A loop over the nodes visit[1], visit[2], ... that applies those in S.
ApplyAll(d, t, S, visit, tail) ==
  LET tree[i \in 0..d.count] ==
        IF i = 0 THEN t
        ELSE IF visit[i] \in S THEN ApplyOp(tree[i - 1], d.nodes[visit[i]].op, tail)
        ELSE tree[i - 1]
  IN  tree[d.count]

\* Mutant of Unapplied: is_applied is not looked at.
UnappliedAll(d, S) == S
Unapplied(d, S) == {e \in S : ~ d.nodes[e].applied}

(***************************************************************************)
(* The parents array of c holds the parents found when c was inserted,     *)
(* newest first, then those that arrived later, in their order of arrival. *)
(***************************************************************************)
ParentsInOrder(d, c) == [i \in 1..d.count |-> IF i < c THEN c - i ELSE i]

MarkApplied(d, S, processed) ==
  [d EXCEPT !.nodes = [e \in 1..d.count |->
     IF e \in S THEN [d.nodes[e] EXCEPT !.applied = TRUE, !.processed = @ \/ processed]
                ELSE d.nodes[e]]]

\* Mutant of UpdateParentStates: the parents are not marked.
UpdateParentStatesUnmarked(d, c, t, tail) ==
  [dag |-> d,
   tree |-> ApplyAll(d, t, Unapplied(d, d.nodes[c].parents), ParentsInOrder(d, c), tail)]

\* merkle_crdt_update_parent_states: the DAG and the tree it leaves.
UpdateParentStates(d, c, t, tail) ==
  LET todo == Unapplied(d, d.nodes[c].parents) IN
  [dag  |-> MarkApplied(d, todo, FALSE),
   tree |-> ApplyAll(d, t, todo, ParentsInOrder(d, c), tail)]

\* merkle_crdt_update_state: every head child not applied yet goes to t.
UpdateState(d, t, tail) ==
  LET todo == Unapplied(d, d.head) IN
  [dag  |-> MarkApplied(d, todo, TRUE),
   tree |-> ApplyAll(d, t, todo, [i \in 1..d.count |-> i], tail)]

-----------------------------------------------------------------------------
TxOps(d, tx) ==
  SelectSeq([e \in 1..d.count |-> d.nodes[e].op], LAMBDA o : o.tx = tx)

(***************************************************************************)
(* The trial execution of a transaction: temporary balances start from the *)
(* tree, a subtraction needs an account that existed before the            *)
(* transaction and enough balance, and an operation whose type is in       *)
(* zeroChecked may not leave a zero balance.                               *)
(***************************************************************************)
Passes(ops, t, tail, zeroChecked) ==
  LET key(o)  == BalanceKey(o, tail)
      start   == [k \in {key(ops[i]) : i \in DOMAIN ops} |->
                    IF TreeHas(t, k) THEN TreeGet(t, k) ELSE 0]
      value(s, o) == CASE o.type = "set" -> o.amount
                       [] o.type = "add" -> (s[key(o)] + o.amount) % AmountMod
                       [] o.type = "sub" -> (s[key(o)] - o.amount) % AmountMod
      refused(s, o) == \/ o.type = "sub" /\ ~ TreeHas(t, key(o))
                       \/ o.type = "sub" /\ s[key(o)] < o.amount
                       \/ o.type \in zeroChecked /\ value(s, o) = 0
      step(acc, o) == IF ~ acc.ok \/ refused(acc.bal, o)
                        THEN [acc EXCEPT !.ok = FALSE]
                        ELSE [acc EXCEPT !.bal[key(o)] = value(acc.bal, o)]
  IN  FoldLeft(step, [ok |-> TRUE, bal |-> start], ops).ok

\* merkle_crdt_validate_tx: false on an empty list too.
ValidateTx(ops, t, tail) == ops # << >> /\ Passes(ops, t, tail, {"sub"})

(***************************************************************************)
(* merkle_crdt_check_operation_failed: the whole transaction of the node   *)
(* is tried again, now refusing a zero balance after any operation; a      *)
(* transaction too long for the buffer counts as not failed.               *)
(***************************************************************************)
CheckOperationFailed(d, e, t, tail, nestedTail) ==
  LET tx == d.nodes[e].op.tx IN
  /\ Cardinality(TxNodes(d, tx)) \in 1..MaxTxOps
  /\ \/ ~ ValidateTx(TxOps(d, tx), t, nestedTail)
     \/ ~ Passes(TxOps(d, tx), t, tail, OpTypes)
=============================================================================
