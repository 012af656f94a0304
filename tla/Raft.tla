-------------------------------- MODULE Raft --------------------------------
(***************************************************************************)
(* Common/raft over Common/tee_network, as far as it runs: become_leader   *)
(* is never called, so nobody sends entries or responses, every log stays  *)
(* empty, and what is left are timeouts, candidacies and votes.            *)
(*                                                                         *)
(* Peers are added by the callers of raft_add_peer.  Sending ends after    *)
(* the signature and nothing in the repository fills pending_messages, so  *)
(* the transport is external: it may lose, repeat, delay and reorder.      *)
(*                                                                         *)
(* The clock counts its readings and the timeout is random, so any tick of *)
(* a follower or candidate may find the timeout expired.  Left out:        *)
(* leader_id, which stays 0, the log and the epoch flags.                  *)
(***************************************************************************)
EXTENDS Integers, SequencesExt

CONSTANTS
  Nodes,         \* node ids
  Nobody,        \* the 0 of voted_for, no node's id
  MaxPending,    \* MAX_PENDING_MESSAGES, 100
  MaxPeers,      \* MAX_RAFT_NODES, 16
  MaxTerm,       \* bounds the terms, uint64 in the code
  MaxDeliveries, \* bounds what the transport delivers
  MaxLives       \* bounds the lives; none begins once a node had that many

ASSUME RaftAssumption ==
  /\ Nobody \notin Nodes
  /\ MaxPending \in Nat /\ MaxPeers \in Nat /\ MaxTerm \in Nat
  /\ MaxDeliveries \in Nat /\ MaxLives \in Nat

VARIABLES
  raft,        \* raft[n]: current_term, voted_for, role and the peers' ids
  pending,     \* pending[n]: pending_messages, a FIFO array
  sent,        \* the vote requests given to the transport so far
  deliveries,  \* how many messages it has delivered
  life,        \* how often n was started
  votes        \* history: every vote given, with the life it was given in

vars == <<raft, pending, sent, deliveries, life, votes>>

Started == [term |-> 0, votedFor |-> Nobody, role |-> "follower", peers |-> {}]

Init ==
  /\ raft = [n \in Nodes |-> Started]
  /\ pending = [n \in Nodes |-> << >>]
  /\ sent = {} /\ deliveries = 0 /\ votes = {}
  /\ life = [n \in Nodes |-> 1]

BecomeFollower(r, term) == [r EXCEPT !.role = "follower", !.term = term, !.votedFor = Nobody]

BecomeCandidate(r, n) ==
  [r EXCEPT !.role = "candidate", !.term = @ + 1, !.votedFor = n]

-----------------------------------------------------------------------------
\* Mutants of HandleRequestVote: an earlier vote, or the term, is not looked at.
HandleRequestVoteAgain(r, m, logOk) ==
  LET s == IF m.term > r.term THEN BecomeFollower(r, m.term) ELSE r
  IN  IF m.term = s.term /\ logOk THEN [s EXCEPT !.votedFor = m.from] ELSE s

HandleRequestVoteLate(r, m, logOk) ==
  LET s == IF m.term > r.term THEN BecomeFollower(r, m.term) ELSE r
  IN  IF s.votedFor \in {Nobody, m.from} /\ logOk THEN [s EXCEPT !.votedFor = m.from] ELSE s

(***************************************************************************)
(* raft_process_message on a request.  With an empty log the comparison of *)
(* the logs reads log[-1], which is memory of the DAG before it: logOk is  *)
(* true when a zero happens to be there, and the same within one tick.     *)
(***************************************************************************)
HandleRequestVote(r, m, logOk) ==
  LET s == IF m.term > r.term THEN BecomeFollower(r, m.term) ELSE r
  IN  IF s.votedFor \in {Nobody, m.from} /\ m.term = s.term /\ logOk
        THEN [s EXCEPT !.votedFor = m.from] ELSE s

Foreign == [type |-> "other"]

(***************************************************************************)
(* How many messages the receive loop of one tick takes: it ends after the *)
(* first that is not of Raft or not signed, which is taken all the same.   *)
(***************************************************************************)
Read(queue) ==
  LET others == {i \in DOMAIN queue : queue[i] = Foreign}
  IN  IF others = {} THEN Len(queue) ELSE CHOOSE i \in others : \A j \in others : i <= j

\* Mutant of Left: the end of the loop empties the list.
LeftNothing(queue) == << >>

\* What is behind that message stays for the next tick.
Left(queue) == SubSeq(queue, Read(queue) + 1, Len(queue))

Vote(n, r) == [voter |-> n, life |-> life[n], term |-> r.term, candidate |-> r.votedFor]

\* A foreign message is taken from the list and has no effect.
ProcessMessage(r, m, logOk) == IF m = Foreign THEN r ELSE HandleRequestVote(r, m, logOk)

\* The states of the node in one tick: after the timeout, then after each message.
Heard(n, expired, logOk) ==
  LET state[i \in 0..Read(pending[n])] ==
        IF i > 0 THEN ProcessMessage(state[i - 1], pending[n][i], logOk)
        ELSE IF expired THEN BecomeCandidate(raft[n], n) ELSE raft[n]
  IN  state

\* raft_tick_with_network: timeout, messages, requests to all peers.
Tick(n, expired, logOk) ==
  LET state == Heard(n, expired, logOk)
      final == state[Read(pending[n])]
  IN  /\ expired => raft[n].term < MaxTerm
      /\ raft' = [raft EXCEPT ![n] = final]
      /\ pending' = [pending EXCEPT ![n] = Left(@)]
      /\ sent' = IF final.role = "candidate"
                   THEN sent \cup {[to |-> p, from |-> n, term |-> final.term] : p \in final.peers}
                   ELSE sent
      /\ votes' = votes \cup {Vote(n, state[i]) : i \in {j \in DOMAIN state : state[j].votedFor # Nobody}}
      /\ UNCHANGED <<deliveries, life>>

AddPeer(n, p) ==
  /\ Cardinality(raft[n].peers) < MaxPeers
  /\ raft' = [raft EXCEPT ![n].peers = @ \cup {p}]
  /\ UNCHANGED <<pending, sent, deliveries, life, votes>>

\* The transport puts a message into the array.
Deliver(n, m) ==
  /\ deliveries < MaxDeliveries /\ Len(pending[n]) < MaxPending
  /\ pending' = [pending EXCEPT ![n] = Append(@, m)]
  /\ deliveries' = deliveries + 1
  /\ UNCHANGED <<raft, sent, life, votes>>

DeliverRequest(n) ==
  \E m \in sent : m.to = n /\ Deliver(n, [type |-> "vote", from |-> m.from, term |-> m.term])

\* raft_init of a new process: term and vote were in memory only.
Restart(n) ==
  /\ \A m \in Nodes : life[m] < MaxLives
  /\ life' = [life EXCEPT ![n] = @ + 1]
  /\ raft' = [raft EXCEPT ![n] = Started]
  /\ pending' = [pending EXCEPT ![n] = << >>]
  /\ UNCHANGED <<sent, deliveries, votes>>

Ticks(n) == \E expired, logOk \in BOOLEAN : Tick(n, expired, logOk)

Next ==
  \/ \E n \in Nodes : Ticks(n) \/ DeliverRequest(n) \/ Deliver(n, Foreign) \/ Restart(n)
  \/ \E n, p \in Nodes : n # p /\ AddPeer(n, p)

Spec == Init /\ [][Next]_vars

-----------------------------------------------------------------------------
(***************************************************************************)
(* Within one life a node votes for one candidate per term, whatever is    *)
(* repeated or late, its own candidacy included.  (A restart forgets the   *)
(* vote: across lives nothing of the kind holds.)                          *)
(***************************************************************************)
OneVotePerLife ==
  \A v, w \in votes :
     (v.voter = w.voter /\ v.life = w.life /\ v.term = w.term) => v.candidate = w.candidate

(***************************************************************************)
(* A vote answers a candidacy of that very term: late requests of earlier  *)
(* terms earn no vote in a later one.                                      *)
(***************************************************************************)
VotesWereAsked ==
  \A v \in votes :
     \/ v.candidate = v.voter
     \/ [to |-> v.voter, from |-> v.candidate, term |-> v.term] \in sent

(***************************************************************************)
(* A foreign message, which ends the receive loop, only delays the         *)
(* requests behind it: a node that lives on drops no request from its list *)
(* before it has heard it, that is before its term is up with it.          *)
(***************************************************************************)
ForeignOnlyDelays ==
  [][\A n \in Nodes :
       life'[n] = life[n] =>
         \A i \in 1..Len(pending[n]) - Len(pending'[n]) :
            pending[n][i] # Foreign => raft'[n].term >= pending[n][i].term]_vars
=============================================================================
