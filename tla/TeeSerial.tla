------------------------------ MODULE TeeSerial ------------------------------
(***************************************************************************)
(* The second way operations reach the balance trees of a TEE node: the    *)
(* two serial functions of Common/tee_cluster, which bypass the DAG, beside *)
(* everything TeeCluster does.  A batch is cut into runs of one tx_id; a   *)
(* run of two or more is tried out first, and is then applied operation by *)
(* operation until a subtraction is refused.                               *)
(***************************************************************************)
EXTENDS TeeCluster, Totals

CONSTANTS
  Batches,    \* sequences of operations that callers may pass
  SerialOps,  \* single operations that callers may pass
  MaxSerial   \* bounds the serial calls of a model run, per node

ASSUME TeeSerialAssumption ==
  /\ \A batch \in Batches : batch \in Seq(Operations) /\ batch # << >>
  /\ SerialOps \subseteq Operations /\ MaxSerial \in Nat

VARIABLES
  serialCalls,  \* serialCalls[n]: serial calls made so far
  runs          \* history: [ops, written] of every run, written the positions applied

serialVars == <<vars, serialCalls, runs>>

SerialInit ==
  /\ Init
  /\ serialCalls = [n \in Tees |-> 0]
  /\ runs = [n \in Tees |-> << >>]

-----------------------------------------------------------------------------
\* A subtraction needs an account and enough balance; both functions agree.
Refused(t, o, tail) ==
  LET key == BalanceKey(o, tail)
  IN  o.type = "sub" /\ (~ TreeHas(t, key) \/ TreeGet(t, key) < o.amount)

\* Mutant of SerialStep: a refused subtraction is passed over.
SerialStepOn(acc, o, i, tail) ==
  IF Refused(acc.tree, o, tail) THEN acc
  ELSE [acc EXCEPT !.tree = ApplyOp(@, o, tail), !.written = @ \cup {i}]

\* One operation of a run: the first refused subtraction ends the loop.
SerialStep(acc, o, i, tail) ==
  IF acc.stopped \/ Refused(acc.tree, o, tail)
    THEN [tree |-> acc.tree, written |-> acc.written, stopped |-> TRUE]
    ELSE [tree |-> ApplyOp(acc.tree, o, tail), written |-> acc.written \cup {i},
          stopped |-> FALSE]

\* The loop over one run.
Serially(t, ops, tail) ==
  LET acc[i \in 0..Len(ops)] ==
        IF i = 0 THEN [tree |-> t, written |-> {}, stopped |-> FALSE]
        ELSE SerialStep(acc[i - 1], ops[i], i, tail)
  IN  acc[Len(ops)]

(***************************************************************************)
(* One run on the token slots s = [tokens, trees, runs].  All of it goes   *)
(* to the tree of its first operation's token; without a slot for it, or   *)
(* when the trial of two or more operations fails, the run is skipped.     *)
(***************************************************************************)
SerialRun(s, ops, tail) ==
  LET token == ops[1].token
      list  == IF Known(s.tokens, token) THEN s.tokens ELSE Append(s.tokens, token)
      slot  == Slot(list, token)
      after == Serially(s.trees[slot], ops, tail["update"])
  IN  IF Len(list) > MaxTokens THEN s
      ELSE IF Len(ops) >= 2 /\ ~ ValidateTx(ops, s.trees[slot], tail["validate"])
        THEN [tokens |-> list, trees |-> s.trees, runs |-> s.runs]
      ELSE [tokens |-> list, trees |-> [s.trees EXCEPT ![slot] = after.tree],
            runs |-> Append(s.runs, [ops |-> ops, written |-> after.written])]

\* Where each operation's run begins: a new tx_id, or MaxTxOps operations on.
RunStart(batch) ==
  LET start[i \in 1..Len(batch)] ==
        IF i = 1 THEN 1
        ELSE LET s == start[i - 1]
             IN  IF batch[i].tx = batch[s].tx /\ i - s < MaxTxOps THEN s ELSE i
  IN  start

\* The runs of a batch one after the other; a run is over when the next begins.
SerialRuns(before, batch, tail) ==
  LET start == RunStart(batch)
      s[i \in 0..Len(batch)] ==
        IF i = 0 THEN before
        ELSE IF i < Len(batch) /\ start[i + 1] = start[i] THEN s[i - 1]
        ELSE SerialRun(s[i - 1], SubSeq(batch, start[i], i), tail)
  IN  s[Len(batch)]

SerialCall(n, batch, tail) ==
  LET before == [tokens |-> tokens[n], trees |-> trees[n], runs |-> runs[n]]
      after  == SerialRuns(before, batch, tail)
  IN  /\ serialCalls[n] < MaxSerial
      /\ serialCalls' = [serialCalls EXCEPT ![n] = @ + 1]
      /\ tokens' = [tokens EXCEPT ![n] = after.tokens]
      /\ trees' = [trees EXCEPT ![n] = after.trees]
      /\ runs' = [runs EXCEPT ![n] = after.runs]
      /\ UNCHANGED <<dag, sortMap>>

\* process_operations_serial_with_validation.
ProcessSerialBatch(n, batch, tail) == SerialCall(n, batch, tail)

\* process_operation_serial: a run of one.
ProcessOperationSerial(n, o, tail) == SerialCall(n, <<o>>, tail)

SerialNext ==
  \/ Next /\ UNCHANGED <<serialCalls, runs>>
  \/ \E n \in Tees, tail \in [{"update", "validate"} -> Tails] :
        \/ \E batch \in Batches : ProcessSerialBatch(n, batch, tail)
        \/ \E o \in SerialOps : ProcessOperationSerial(n, o, tail)

SerialSpec == SerialInit /\ [][SerialNext]_serialVars

-----------------------------------------------------------------------------
Sizes(node) == [i \in 1..MaxTokens |-> node[i].size]
Written(done) == [k \in 1..Len(done) |-> Cardinality(done[k].written)]

(***************************************************************************)
(* No operation is written to the balance trees twice, over all the trees  *)
(* of a node: not by both of the functions that apply operations, not      *)
(* after its token was registered again, not after a sync; a serial call   *)
(* writes what it was given and nothing of the DAG's.                      *)
(***************************************************************************)
NoDoubleApply ==
  \A n \in Tees :
     Total(Sizes(trees[n]), MaxTokens)
       <= Cardinality({e \in 1..dag[n].count : dag[n].nodes[e].applied})
            + Total(Written(runs[n]), Len(runs[n]))

(***************************************************************************)
(* A transfer whose two operations are next to each other, sender first,   *)
(* is applied whole or not at all, whatever the balances are and whatever  *)
(* the unwritten key bytes make of the trial and of the run.  (The         *)
(* receiver first, or a third operation, and it may be cut in half: the    *)
(* trial reads balances that the writes before have replaced.)             *)
(***************************************************************************)
SenderFirst(ops) == Len(ops) = 2 /\ ops[1].type = "sub" /\ ops[2].type # "sub"

SerialTransfersWhole ==
  \A n \in Tees : \A k \in DOMAIN runs[n] :
     SenderFirst(runs[n][k].ops) => runs[n][k].written \in {{}, 1..2}
=============================================================================
