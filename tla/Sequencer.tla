------------------------------ MODULE Sequencer ------------------------------
(***************************************************************************)
(* Common/sequencer: logs queue up as they arrive and are processed in     *)
(* batches, by timestamp.  The balances it keeps are placeholders in the   *)
(* code (a transfer credits the receiver only when the tree cannot read    *)
(* him, and debits nobody); they are modelled as they are.  A balance key  *)
(* is the account, within the tree of the log's token.                     *)
(***************************************************************************)
EXTENDS MptTree, Totals, SequencesExt

CONSTANTS
  Logs,         \* log_entry_t values as submitted, with a flag for the signature
  LogTokens,    \* token addresses, those that are only asked about included
  MaxTokens,    \* MAX_NODES, 10: token slots
  MaxLogs       \* MAX_LOG_ENTRIES, 10000: the queue never shrinks

LogTypes == {"transfer", "approve", "mint", "burn"}

ASSUME SequencerAssumption ==
  /\ MaxTokens \in Nat /\ MaxLogs \in Nat
  /\ \A log \in Logs :
        /\ DOMAIN log = {"timestamp", "type", "token", "from", "to", "amount", "signed"}
        /\ log.type \in LogTypes /\ log.token \in LogTokens /\ log.timestamp \in Nat

VARIABLES
  tokens,   \* token_addresses[0..token_count-1]
  trees,    \* token_trees, one per slot
  queue     \* log_queue; the place in the queue is the sequence_id

sequencerVars == <<tokens, trees, queue>>

SequencerInit ==
  /\ tokens = << >> /\ queue = << >>
  /\ trees = [i \in 1..MaxTokens |-> EmptyTree]

AddLog(log) ==
  /\ Len(queue) < MaxLogs
  /\ queue' = Append(queue, [log |-> log, processed |-> FALSE])
  /\ UNCHANGED <<tokens, trees>>

\* get_or_create_token_tree: the slots after asking for a token.
WithToken(list, token) ==
  IF token \in ToSet(list) \/ Len(list) >= MaxTokens THEN list ELSE Append(list, token)

Credit(t, account, amount) ==
  IF TreeHas(t, account) THEN t ELSE TreeInsert(t, account, amount)

\* The switch of sequencer_process_logs.
Effect(t, log) ==
  CASE log.type = "transfer" -> Credit(Credit(t, log.from, 0), log.to, log.amount)
    [] log.type = "mint"     -> Credit(t, log.to, log.amount)
    [] OTHER                 -> t

\* compare_logs: by timestamp, then by arrival.
Before(i, j) ==
  \/ queue[i].log.timestamp < queue[j].log.timestamp
  \/ queue[i].log.timestamp = queue[j].log.timestamp /\ i < j

\* Mutants of Unprocessed: processed logs again; only the end of the queue.
UnprocessedNewest ==
  {i \in DOMAIN queue : i = Len(queue) /\ ~ queue[i].processed /\ queue[i].log.signed}
UnprocessedAll == {i \in DOMAIN queue : queue[i].log.signed}

\* The logs a batch looks at; one without a signature is passed over and stays.
Unprocessed == {i \in DOMAIN queue : ~ queue[i].processed /\ queue[i].log.signed}

\* One log of a batch; without a slot for its token it stays in the queue.
ProcessLog(s, i) ==
  LET log  == s.queue[i].log
      list == WithToken(s.tokens, log.token)
      slot == CHOOSE k \in DOMAIN list : list[k] = log.token
  IN  IF log.token \notin ToSet(list) THEN s
      ELSE [tokens |-> list,
            trees  |-> [s.trees EXCEPT ![slot] = Effect(s.trees[slot], log)],
            queue  |-> [s.queue EXCEPT ![i] = [log |-> log, processed |-> TRUE]]]

\* The states (there is one) that s ends in when the logs of batch are processed.
Processed(s, batch) ==
  LET after[n \in 0..Len(batch)] ==
        IF n = 0 THEN {s} ELSE {ProcessLog(x, batch[n]) : x \in after[n - 1]}
  IN  after[Len(batch)]

\* The sorted arrays of unprocessed logs (there is one, as Before is strict).
Sorted ==
  LET n == Cardinality(Unprocessed)
  IN  {batch \in [1..n -> Unprocessed] : \A i, j \in 1..n : i < j => Before(batch[i], batch[j])}

\* sequencer_process_logs: the batch is taken before its first log is processed.
ProcessLogs ==
  \E batch \in Sorted :
     \E s \in Processed([tokens |-> tokens, trees |-> trees, queue |-> queue], batch) :
        tokens' = s.tokens /\ trees' = s.trees /\ queue' = s.queue

\* get_token_root and get_balance: asking about an unknown token takes a slot.
AskToken(token) ==
  /\ tokens' = WithToken(tokens, token)
  /\ UNCHANGED <<trees, queue>>

SequencerNext ==
  \/ \E log \in Logs : AddLog(log)
  \/ ProcessLogs
  \/ \E token \in LogTokens : AskToken(token)

(***************************************************************************)
(* Whoever adds logs goes on to process them; the calls are made one at a  *)
(* time through the guest.                                                 *)
(***************************************************************************)
SequencerSpec ==
  SequencerInit /\ [][SequencerNext]_sequencerVars /\ WF_sequencerVars(ProcessLogs)

-----------------------------------------------------------------------------
(***************************************************************************)
(* A log has its effect once, however often the queue is processed: the    *)
(* trees were not written more often than the processed logs allow.        *)
(***************************************************************************)
Writes(log) == CASE log.type = "transfer" -> 2 [] log.type = "mint" -> 1 [] OTHER -> 0

TreeSizes(slots) == [k \in 1..MaxTokens |-> slots[k].size]
Allowed(q) == [i \in 1..Len(q) |-> IF q[i].processed THEN Writes(q[i].log) ELSE 0]

EffectsOnce ==
  Total(TreeSizes(trees), MaxTokens) <= Total(Allowed(queue), Len(queue))

(***************************************************************************)
(* A signed log is processed in the end, unless its token came too late    *)
(* for a slot; neither logs that stay behind in the queue nor questions    *)
(* about other tokens keep it from that.                                   *)
(***************************************************************************)
SignedLogProcessed ==
  \A i \in 1..MaxLogs :
     (i \in DOMAIN queue /\ queue[i].log.signed)
       ~> (i \in DOMAIN queue /\ \/ queue[i].processed
                                 \/ /\ Len(tokens) = MaxTokens
                                    /\ queue[i].log.token \notin ToSet(tokens))
=============================================================================
