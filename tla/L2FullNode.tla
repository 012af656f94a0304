----------------------------- MODULE L2FullNode -----------------------------
(***************************************************************************)
(* Common/l2_full_node as the TEE cluster uses it: block headers of every  *)
(* chain are synced by ranges, and logs are verified against them, with a  *)
(* cache of earlier verdicts.                                              *)
(*                                                                         *)
(* All the hashes of a header are functions of its block number, so the    *)
(* number stands for the header.  What a proof proves is abstracted: the   *)
(* proof of a log leads to the receipts root of block proves, or to that   *)
(* of no block.  is_syncing is true only within a call.                    *)
(***************************************************************************)
EXTENDS Integers, SequencesExt

CONSTANTS
  FullChains,   \* chain ids below MAX_L2_CHAINS
  L2Logs,       \* the logs with their proofs: [tx, chain, block, proves]
  Batches,      \* the sequences of logs that may be verified in one call
  TeeCounts,    \* values of tee_node_count
  MaxHeaders,   \* MAX_BLOCK_HEADERS, 10000
  CacheSize,    \* 10000
  Word          \* 2^64: block numbers and their differences wrap around

ASSUME L2FullNodeAssumption ==
  /\ MaxHeaders \in Nat /\ CacheSize \in Nat /\ Word \in Nat \ {0}
  /\ \A log \in L2Logs : log.chain \in FullChains /\ log.block \in 0..Word-1
  /\ \A batch \in Batches : batch \in Seq(L2Logs) /\ batch # << >>
  /\ TeeCounts \subseteq Nat \ {0}

VARIABLES
  headers,   \* headers[c]: the block numbers of block_headers[c], in array order
  cache,     \* verification_cache: [tx, isVerified]
  verdicts   \* the last verification call: [log, tee, answer] in the order of its loops

vars == <<headers, cache, verdicts>>

Init ==
  /\ headers = [c \in FullChains |-> << >>]
  /\ cache = << >> /\ verdicts = << >>

\* Mutant of Stored: no check within the loop.
StoredUnchecked(count, from, to) ==
  [i \in 1..(IF to = Word - 1 THEN MaxHeaders - count + 1 ELSE to - from + 1) |->
     (from + i - 1) % Word]

(***************************************************************************)
(* The loop over from..to, which ends early when the array is full.  With  *)
(* to = 2^64 - 1 its condition always holds: it wraps around and ends only *)
(* when the array is full.                                                 *)
(***************************************************************************)
Stored(count, from, to) ==
  LET room == MaxHeaders - count
  IN  [i \in 1..(IF to = Word - 1 \/ to - from + 1 > room THEN room ELSE to - from + 1) |->
         (from + i - 1) % Word]

\* The sum of the check wraps too, so a range of nearly 2^64 blocks passes it.
SyncBlockHeaders(c, from, to) ==
  LET count == Len(headers[c]) IN
  /\ from <= to
  /\ (count + to - from + 1) % Word <= MaxHeaders
  /\ headers' = [headers EXCEPT ![c] = @ \o Stored(count, from, to)]
  /\ UNCHANGED <<cache, verdicts>>

\* Mutant of VerifyLogExistence: the block of the log is not looked up.
VerifyProofOnly(hs, log) == log.proves \in ToSet(hs[log.chain])

\* l2_full_node_verify_log_existence: the header of the block, then the proof.
VerifyLogExistence(hs, log) ==
  log.block \in ToSet(hs[log.chain]) /\ log.proves = log.block

\* Only a positive verdict is reused, and the transaction alone is compared.
Cached(entries, log) == \E i \in DOMAIN entries : entries[i].tx = log.tx /\ entries[i].isVerified

\* What the caller's results say of a log; "unwritten" is what they said before.
Answer(ok) == IF ok THEN "proved" ELSE "refused"

\* Mutant of VerifyOne: the first cached verdict is final.
VerifyOneSticky(acc, tee, log) ==
  LET known == SelectSeq(acc.cache, LAMBDA entry : entry.tx = log.tx)
      ok    == IF known # << >> THEN known[1].isVerified ELSE VerifyLogExistence(headers, log)
  IN  [cache |-> IF known = << >> /\ Len(acc.cache) < CacheSize
                   THEN Append(acc.cache, [tx |-> log.tx, isVerified |-> ok]) ELSE acc.cache,
       verdicts |-> Append(acc.verdicts, [log |-> log, tee |-> tee, answer |-> Answer(ok)])]

\* One log of l2_full_node_distributed_verify_logs; acc is what it changes.
VerifyOne(acc, tee, log) ==
  LET ok    == Cached(acc.cache, log) \/ VerifyLogExistence(headers, log)
      entry == [tx |-> log.tx, isVerified |-> ok]
  IN  [cache |-> IF ~ Cached(acc.cache, log) /\ Len(acc.cache) < CacheSize
                   THEN Append(acc.cache, entry) ELSE acc.cache,
       verdicts |-> Append(acc.verdicts, [log |-> log, tee |-> tee, answer |-> Answer(ok)])]

(***************************************************************************)
(* tee_cluster_distributed_verify_logs_merkle_crdt: the logs are dealt out *)
(* to tees in turn, but all are verified here, one tee's share after the   *)
(* other.  Visit q looks at one log for one tee.  A share whose buffers    *)
(* could not be allocated (the tees in starved) is skipped: its results    *)
(* stay unwritten, and the call succeeds all the same.                     *)
(***************************************************************************)
Visit(acc, batch, tees, starved, q) ==
  LET tee  == (q - 1) \div Len(batch)
      i    == ((q - 1) % Len(batch)) + 1
      none == [log |-> batch[i], tee |-> tee, answer |-> "unwritten"]
  IN  IF (i - 1) % tees # tee THEN acc
      ELSE IF tee \in starved THEN [acc EXCEPT !.verdicts = Append(@, none)]
      ELSE VerifyOne(acc, tee, batch[i])

VerifyLogs(batch, tees, starved) ==
  LET state[q \in 0..tees * Len(batch)] ==
        IF q = 0 THEN [cache |-> cache, verdicts |-> << >>]
        ELSE Visit(state[q - 1], batch, tees, starved, q)
      after == state[tees * Len(batch)]
  IN  cache' = after.cache /\ verdicts' = after.verdicts /\ UNCHANGED headers

Next ==
  \/ \E c \in FullChains, from, to \in 0..Word-1 : SyncBlockHeaders(c, from, to)
  \/ \E batch \in Batches, tees \in TeeCounts : \E starved \in SUBSET (0..tees-1) :
        VerifyLogs(batch, tees, starved)

Spec == Init /\ [][Next]_vars

-----------------------------------------------------------------------------
(***************************************************************************)
(* No array is written past its end, although the size of the range is     *)
(* computed modulo 2^64 and the loop over it may not end by itself.        *)
(***************************************************************************)
WithinArrays ==
  /\ \A c \in FullChains : Len(headers[c]) <= MaxHeaders
  /\ Len(cache) <= CacheSize

(***************************************************************************)
(* Every positive answer the call writes goes back to a log of that        *)
(* transaction whose block was synced and whose proof leads to that very   *)
(* block, however many cache entries, of failures too, lie in between.     *)
(* (A caller that cleared its results before may so trust all of them.)    *)
(***************************************************************************)
PositiveIsProved ==
  \A i \in DOMAIN verdicts : verdicts[i].answer = "proved" =>
     \E log \in L2Logs : /\ log.tx = verdicts[i].log.tx
                         /\ log.block \in ToSet(headers[log.chain])
                         /\ log.proves = log.block

(***************************************************************************)
(* A failure is not remembered: a log that can be proved now is accepted,  *)
(* although it may have been refused before its block was synced, or it    *)
(* has no answer, and then nor has any other log of the same tee.          *)
(***************************************************************************)
ProvableIsAccepted ==
  [][\A i \in DOMAIN verdicts' :
       LET log == verdicts'[i].log IN
       (verdicts' # verdicts /\ log.block \in ToSet(headers[log.chain]) /\ log.proves = log.block)
         => \/ verdicts'[i].answer = "proved"
            \/ \A j \in DOMAIN verdicts' :
                  verdicts'[j].tee = verdicts'[i].tee => verdicts'[j].answer = "unwritten"]_vars
=============================================================================
