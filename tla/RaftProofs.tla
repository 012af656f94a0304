----------------------------- MODULE RaftProofs -----------------------------
(***************************************************************************)
(* What holds of the votes for any number of nodes, terms, deliveries and  *)
(* lives, and lists of messages of any length.                             *)
(***************************************************************************)
EXTENDS Raft, SequenceLemmas

States ==
  [term : Nat, votedFor : Nodes \cup {Nobody}, role : {"follower", "candidate"},
   peers : SUBSET Nodes]

Requests == [type : {"vote"}, from : Nodes, term : Nat]

RaftTypeOK ==
  /\ raft \in [Nodes -> States]
  /\ pending \in [Nodes -> Seq(Requests \cup {Foreign})]
  /\ sent \subseteq [to : Nodes, from : Nodes, term : Nat]
  /\ life \in [Nodes -> Nat]
  /\ votes \subseteq [voter : Nodes, life : Nat, term : Nat, candidate : Nodes]

\* The transport delivers what somebody sent to that node.
PendingSent ==
  \A n \in Nodes : \A i \in DOMAIN pending[n] :
     pending[n][i] # Foreign =>
       [to |-> n, from |-> pending[n][i].from, term |-> pending[n][i].term] \in sent

\* A candidate votes for itself; anybody else was asked in that term.
Asked(voter, candidate, term) ==
  candidate = voter \/ [to |-> voter, from |-> candidate, term |-> term] \in sent

CurrentVoteAsked ==
  \A n \in Nodes : raft[n].votedFor # Nobody => Asked(n, raft[n].votedFor, raft[n].term)

\* A node remembers its vote of the current term, and forgot only earlier terms.
VotesKept ==
  \A v \in votes :
     /\ v.life <= life[v.voter]
     /\ v.life = life[v.voter] =>
          /\ v.term <= raft[v.voter].term
          /\ v.term = raft[v.voter].term => raft[v.voter].votedFor = v.candidate

\* The inductive invariant.
RaftInv ==
  /\ RaftTypeOK /\ PendingSent /\ CurrentVoteAsked /\ VotesKept
  /\ OneVotePerLife /\ VotesWereAsked

-----------------------------------------------------------------------------
\* A started node has no vote and no term.
LEMMA RaftInitOK == Init => RaftInv
<1> SUFFICES ASSUME Init PROVE RaftInv
  OBVIOUS
<1>1. RaftTypeOK
  BY DEF Init, RaftTypeOK, Started, States
<1>2. PendingSent /\ CurrentVoteAsked /\ VotesKept /\ OneVotePerLife /\ VotesWereAsked
  BY DEF Init, PendingSent, CurrentVoteAsked, VotesKept, OneVotePerLife, VotesWereAsked, Started
<1> QED BY <1>1, <1>2 DEF RaftInv

\* s is a later state than r of the same life: a vote of a term stands.
Follows(s, r) ==
  /\ r.term <= s.term
  /\ (r.term = s.term /\ r.votedFor # Nobody) => s.votedFor = r.votedFor

\* Following is reflexive and transitive.
LEMMA FollowsOrder ==
  /\ \A r \in States : Follows(r, r)
  /\ \A r, s, t \in States : Follows(s, r) /\ Follows(t, s) => Follows(t, r)
<1>1. \A r \in States : r.term \in Nat
  BY DEF States
<1> QED BY <1>1 DEF Follows

\* A candidacy begins a term.
LEMMA CandidateOK ==
  ASSUME NEW r \in States, NEW n \in Nodes
  PROVE  /\ BecomeCandidate(r, n) \in States
         /\ BecomeCandidate(r, n).votedFor = n
         /\ Follows(BecomeCandidate(r, n), r)
<1> DEFINE c == BecomeCandidate(r, n)
           next == r.term + 1
<1>1. next \in Nat /\ next > r.term /\ r.term \in Nat
  BY DEF States
<1>2. c = [r EXCEPT !.role = "candidate", !.term = next, !.votedFor = n]
  BY DEF BecomeCandidate
<1> HIDE DEF next, c
<1>3. c \in States /\ c.votedFor = n /\ c.term = next
  BY <1>1, <1>2 DEF States
<1> QED BY <1>1, <1>3 DEF Follows, c

\* What a vote request does: at most one vote per term, and only in its term.
LEMMA HandleOK ==
  ASSUME NEW r \in States, NEW m \in Requests, NEW logOk \in BOOLEAN
  PROVE  LET s == HandleRequestVote(r, m, logOk) IN
         /\ s \in States
         /\ Follows(s, r)
         /\ s.term >= m.term
         /\ s.votedFor # Nobody =>
              \/ s.votedFor = r.votedFor /\ s.term = r.term
              \/ s.votedFor = m.from /\ s.term = m.term
<1> DEFINE b == IF m.term > r.term THEN BecomeFollower(r, m.term) ELSE r
           s == HandleRequestVote(r, m, logOk)
<1>1. m.term \in Nat /\ m.from \in Nodes /\ r.term \in Nat
  BY DEF Requests, States
<1>2. b \in States
  BY <1>1 DEF BecomeFollower, States
<1>3. /\ m.term > r.term => b.term = m.term /\ b.votedFor = Nobody
      /\ ~ (m.term > r.term) => b = r
  BY DEF BecomeFollower, States
<1>4. s = IF b.votedFor \in {Nobody, m.from} /\ m.term = b.term /\ logOk
            THEN [b EXCEPT !.votedFor = m.from] ELSE b
  BY DEF HandleRequestVote
<1> HIDE DEF b, s
<1>5. CASE b.votedFor \in {Nobody, m.from} /\ m.term = b.term /\ logOk
  <2>1. s = [b EXCEPT !.votedFor = m.from]
    BY <1>4, <1>5
  <2>2. s \in States /\ s.term = b.term /\ s.votedFor = m.from
    BY <1>1, <1>2, <2>1 DEF States
  <2>3. Follows(s, r)
    BY <1>1, <1>3, <1>5, <2>2 DEF Follows
  <2>4. s.term = m.term /\ s.term >= m.term
    BY <1>1, <1>5, <2>2
  <2> QED BY <2>2, <2>3, <2>4 DEF s
<1>6. CASE ~ (b.votedFor \in {Nobody, m.from} /\ m.term = b.term /\ logOk)
  <2>1. s = b
    BY <1>4, <1>6
  <2>2. Follows(s, r) /\ s.term >= m.term
    BY <1>1, <1>3, <2>1 DEF Follows
  <2> QED BY <1>2, <1>3, <2>1, <2>2 DEF s
<1> QED BY <1>5, <1>6

\* The receive loop takes a part of the list.
LEMMA ReadOK ==
  ASSUME NEW queue \in Seq(Requests \cup {Foreign})
  PROVE  Read(queue) \in 0..Len(queue)
<1> DEFINE others == {i \in DOMAIN queue : queue[i] = Foreign}
<1>1. CASE others = {}
  BY <1>1 DEF Read
<1>2. CASE others # {}
  <2>1. others \in SUBSET Nat /\ others \subseteq 1..Len(queue)
    OBVIOUS
  <2>2. PICK i \in others : \A j \in others : i <= j
    BY <1>2, <2>1, Least
  <2>3. Read(queue) \in others
    BY <1>2, <2>2 DEF Read
  <2> QED BY <2>1, <2>3
<1> QED BY <1>1, <1>2

-----------------------------------------------------------------------------
\* The states a node may be in while n handles its messages.
Legal(n) == {r \in States : r.votedFor # Nobody => Asked(n, r.votedFor, r.term)}

\* One message from the list keeps the state legal and is heard.
LEMMA ProcessOK ==
  ASSUME RaftInv, NEW n \in Nodes, NEW r \in Legal(n), NEW i \in DOMAIN pending[n],
         NEW logOk \in BOOLEAN
  PROVE  LET s == ProcessMessage(r, pending[n][i], logOk) IN
         /\ s \in Legal(n)
         /\ Follows(s, r)
         /\ pending[n][i] # Foreign => s.term >= pending[n][i].term
<1> DEFINE m == pending[n][i]
           s == ProcessMessage(r, m, logOk)
<1>1. r \in States /\ m \in Requests \cup {Foreign}
  BY DEF Legal, RaftInv, RaftTypeOK
<1>2. CASE m = Foreign
  BY <1>1, <1>2, FollowsOrder DEF ProcessMessage
<1>3. CASE m # Foreign
  <2>1. m \in Requests /\ [to |-> n, from |-> m.from, term |-> m.term] \in sent
    BY <1>1, <1>3 DEF RaftInv, PendingSent
  <2>2. s = HandleRequestVote(r, m, logOk)
    BY <1>3 DEF ProcessMessage
  <2>3. /\ s \in States /\ Follows(s, r) /\ s.term >= m.term
        /\ s.votedFor # Nobody =>
             \/ s.votedFor = r.votedFor /\ s.term = r.term
             \/ s.votedFor = m.from /\ s.term = m.term
    BY <1>1, <2>1, <2>2, HandleOK
  <2> HIDE DEF s, m
  <2>4. s \in Legal(n)
    BY <2>1, <2>3 DEF Legal, Asked
  <2> QED BY <2>3, <2>4 DEF s, m
<1> QED BY <1>2, <1>3

\* The states of a tick: each is legal and follows the earlier ones, and
\* none is behind a request that was heard before it.
LEMMA HeardOK ==
  ASSUME RaftInv, NEW n \in Nodes, NEW expired \in BOOLEAN, NEW logOk \in BOOLEAN
  PROVE  LET state == Heard(n, expired, logOk)
             last  == Read(pending[n]) IN
         /\ last \in 0..Len(pending[n])
         /\ DOMAIN state = 0..last
         /\ \A i \in 0..last : state[i] \in Legal(n) /\ Follows(state[i], raft[n])
         /\ \A i \in 0..last : \A j \in i..last : Follows(state[j], state[i])
         /\ \A i \in 1..last :
               pending[n][i] # Foreign => state[i].term >= pending[n][i].term
<1> DEFINE last == Read(pending[n])
           base == IF expired THEN BecomeCandidate(raft[n], n) ELSE raft[n]
           next(r, i) == ProcessMessage(r, pending[n][i], logOk)
           solves(g) == g = [i \in 0..last |->
                               IF i > 0 THEN next(g[i - 1], i)
                               ELSE IF expired THEN BecomeCandidate(raft[n], n) ELSE raft[n]]
           state == CHOOSE g : solves(g)
<1>1. Heard(n, expired, logOk) = state
  BY DEF Heard
<1>2. last \in 0..Len(pending[n]) /\ last \in Nat /\ \A i \in 1..last : i \in DOMAIN pending[n]
  <2>1. pending[n] \in Seq(Requests \cup {Foreign})
    BY DEF RaftInv, RaftTypeOK
  <2> QED BY <2>1, ReadOK
<1>3. raft[n] \in Legal(n) /\ raft[n] \in States
  BY DEF RaftInv, RaftTypeOK, CurrentVoteAsked, Legal
<1>4. base \in Legal(n) /\ Follows(base, raft[n])
  <2>1. CASE expired
    BY <1>3, <2>1, CandidateOK DEF Legal, Asked
  <2>2. CASE ~ expired
    BY <1>3, <2>2, FollowsOrder
  <2> QED BY <2>1, <2>2
<1>5. \A i \in 1..last, r \in Legal(n) :
         /\ next(r, i) \in Legal(n)
         /\ Follows(next(r, i), r)
         /\ pending[n][i] # Foreign => next(r, i).term >= pending[n][i].term
  BY <1>2, ProcessOK
<1>6. solves(state)
  <2> DEFINE step == [i \in 1..last |-> [r \in Legal(n) |-> next(r, i)]]
  <2> HIDE DEF next, base, state, last
  <2>1. StepsIn(step, last, Legal(n))
    BY <1>5 DEF StepsIn
  <2>2. \A i \in 1..last, r \in Legal(n) : step[i][r] = next(r, i)
    OBVIOUS
  <2> HIDE DEF step
  <2>3. HasRun(step, last, Legal(n), base)
    BY <1>2, <1>4, <2>1, Recursion
  <2>4. PICK g \in [0..last -> Legal(n)] : g[0] = base /\ \A i \in 1..last : g[i] = step[i][g[i - 1]]
    BY <2>3 DEF HasRun
  <2>5. \A i \in 1..last : g[i] = next(g[i - 1], i)
    <3>1. \A i \in 1..last : g[i - 1] \in Legal(n)
      BY <1>2
    <3> QED BY <2>2, <2>4, <3>1
  <2>6. \A i \in 0..last : g[i] = IF i > 0 THEN next(g[i - 1], i) ELSE base
    <3>1. \A i \in 0..last : i > 0 => i \in 1..last
      BY <1>2
    <3>2. \A i \in 0..last : ~ (i > 0) => i = 0
      BY <1>2
    <3> QED BY <2>4, <2>5, <3>1, <3>2
  <2>7. g = [i \in 0..last |-> IF i > 0 THEN next(g[i - 1], i) ELSE base]
    BY <2>6
  <2>8. solves(g)
    BY <2>7 DEF base
  <2> QED BY <2>8 DEF state
<1> HIDE DEF state, next
<1>7. /\ DOMAIN state = 0..last /\ state[0] = base
      /\ \A i \in 1..last : state[i] = next(state[i - 1], i)
  BY <1>2, <1>6
<1> HIDE DEF last, base, solves
<1>8. \A i \in 0..last : state[i] \in Legal(n)
  <2>1. ASSUME NEW i \in (0 + 1)..last, state[i - 1] \in Legal(n) PROVE state[i] \in Legal(n)
    BY <1>5, <1>7, <2>1
  <2> QED BY <1>2, <1>4, <1>7, <2>1, Stays
<1>9. ASSUME NEW i \in 0..last PROVE \A j \in i..last : Follows(state[j], state[i])
  <2> DEFINE V == {r \in Legal(n) : Follows(r, state[i])}
  <2>1. \A r \in Legal(n) : r \in States
    BY DEF Legal
  <2>2. state[i] \in V
    BY <1>8, <2>1, FollowsOrder
  <2>3. ASSUME NEW j \in (i + 1)..last, state[j - 1] \in V PROVE state[j] \in V
    <3>1. j \in 1..last
      BY <1>2
    <3>2. state[j] \in Legal(n) /\ Follows(state[j], state[j - 1])
      BY <1>5, <1>7, <2>3, <3>1
    <3> QED BY <1>8, <2>1, <2>3, <3>2, FollowsOrder
  <2> HIDE DEF V
  <2>4. \A j \in i..last : state[j] \in V
    <3>1. i \in Nat /\ last \in Nat
      BY <1>2
    <3> QED BY <2>2, <2>3, <3>1, Stays
  <2> QED BY <2>4 DEF V
<1>10. \A i \in 0..last : Follows(state[i], raft[n])
  <2>1. \A i \in 0..last : Follows(state[i], state[0])
    BY <1>2, <1>9
  <2>2. \A r \in Legal(n) : r \in States
    BY DEF Legal
  <2> QED BY <1>2, <1>3, <1>4, <1>7, <1>8, <2>1, <2>2, FollowsOrder
<1>11. \A i \in 1..last : pending[n][i] # Foreign => state[i].term >= pending[n][i].term
  <2>1. \A i \in 1..last : state[i - 1] \in Legal(n)
    BY <1>2, <1>8
  <2> QED BY <1>5, <1>7, <2>1
<1> QED BY <1>1, <1>2, <1>7, <1>8, <1>9, <1>10, <1>11 DEF last

-----------------------------------------------------------------------------
\* A tick leaves the invariant: what it votes for was asked for, agrees with
\* the votes of this life and is remembered.
LEMMA TickOK ==
  ASSUME RaftInv, NEW n \in Nodes, NEW expired \in BOOLEAN, NEW logOk \in BOOLEAN,
         Tick(n, expired, logOk)
  PROVE  RaftInv'
<1> DEFINE last  == Read(pending[n])
           state == Heard(n, expired, logOk)
           final == state[last]
           old   == raft[n]
<1>1. /\ last \in 0..Len(pending[n]) /\ DOMAIN state = 0..last
      /\ \A i \in 0..last : state[i] \in Legal(n) /\ Follows(state[i], old)
      /\ \A i \in 0..last : \A j \in i..last : Follows(state[j], state[i])
  BY HeardOK
<1>2. /\ raft' = [raft EXCEPT ![n] = final]
      /\ pending' = [pending EXCEPT ![n] = Left(pending[n])]
      /\ life' = life
      /\ votes' = votes \cup {Vote(n, state[i]) : i \in {j \in DOMAIN state : state[j].votedFor # Nobody}}
  BY DEF Tick
<1>3. sent \subseteq sent' /\ (RaftTypeOK /\ final \in States => sent' \subseteq [to : Nodes, from : Nodes, term : Nat])
  BY DEF Tick, RaftTypeOK, States
<1> HIDE DEF state, last
<1>4. final \in Legal(n) /\ final \in States /\ old \in States /\ Follows(final, old)
  BY <1>1 DEF Legal, RaftInv, RaftTypeOK
<1>5. \A v \in votes' : v \in votes \/
         \E i \in 0..last : state[i].votedFor # Nobody /\ v = Vote(n, state[i])
  BY <1>1, <1>2
<1>6. \A i \in 0..last : /\ Follows(final, state[i]) /\ state[i] \in States
                         /\ state[i].term \in Nat /\ state[i].votedFor \in Nodes \cup {Nobody}
                         /\ state[i].votedFor # Nobody => Asked(n, state[i].votedFor, state[i].term)
  BY <1>1 DEF Legal, States
<1>7. \A v, c, t : Asked(v, c, t) => Asked(v, c, t)'
  BY <1>3 DEF Asked
<1>8. Left(pending[n]) \in Seq(Requests \cup {Foreign})
      /\ \A i \in DOMAIN Left(pending[n]) :
            i + last \in DOMAIN pending[n] /\ Left(pending[n])[i] = pending[n][i + last]
  <2>1. pending[n] \in Seq(Requests \cup {Foreign})
    BY DEF RaftInv, RaftTypeOK
  <2> QED BY <1>1, <2>1 DEF Left, last
<1>9. RaftTypeOK'
  <2>1. \A i \in 0..last : state[i].votedFor # Nobody =>
           Vote(n, state[i]) \in [voter : Nodes, life : Nat, term : Nat, candidate : Nodes]
    BY <1>6 DEF Vote, RaftInv, RaftTypeOK
  <2>2. votes' \subseteq [voter : Nodes, life : Nat, term : Nat, candidate : Nodes]
    BY <1>5, <2>1 DEF RaftInv, RaftTypeOK
  <2> QED BY <1>2, <1>3, <1>4, <1>8, <2>2 DEF RaftInv, RaftTypeOK
<1>10. PendingSent'
  <2> SUFFICES ASSUME NEW k \in Nodes, NEW i \in DOMAIN pending'[k], pending'[k][i] # Foreign
               PROVE  [to |-> k, from |-> pending'[k][i].from, term |-> pending'[k][i].term] \in sent
    BY <1>3 DEF PendingSent
  <2>1. CASE k # n
    BY <1>2, <2>1 DEF RaftInv, RaftTypeOK, PendingSent
  <2>2. CASE k = n
    <3>1. pending'[k] = Left(pending[n])
      BY <1>2, <2>2 DEF RaftInv, RaftTypeOK
    <3> QED BY <1>8, <2>2, <3>1 DEF RaftInv, PendingSent
  <2> QED BY <2>1, <2>2
<1>11. CurrentVoteAsked'
  BY <1>2, <1>4, <1>7 DEF RaftInv, RaftTypeOK, CurrentVoteAsked, Legal
<1>12. VotesWereAsked'
  <2>1. ASSUME NEW v \in votes' PROVE Asked(v.voter, v.candidate, v.term)
    <3>1. CASE v \in votes
      BY <3>1 DEF RaftInv, VotesWereAsked, Asked
    <3>2. ASSUME NEW i \in 0..last, state[i].votedFor # Nobody, v = Vote(n, state[i])
          PROVE  Asked(v.voter, v.candidate, v.term)
      BY <1>6, <3>2 DEF Vote
    <3> QED BY <1>5, <3>1, <3>2
  <2> QED BY <1>3, <2>1 DEF VotesWereAsked, Asked
\* The votes of this tick are of the current life.
<1>13. VotesKept'
  <2> SUFFICES ASSUME NEW v \in votes'
               PROVE  /\ v.life <= life'[v.voter]
                      /\ v.life = life'[v.voter] =>
                           /\ v.term <= raft'[v.voter].term
                           /\ v.term = raft'[v.voter].term => raft'[v.voter].votedFor = v.candidate
    BY DEF VotesKept
  <2>1. CASE v \in votes
    <3>1. v.voter \in Nodes /\ v.term \in Nat /\ v.candidate # Nobody
      BY <2>1, RaftAssumption DEF RaftInv, RaftTypeOK
    <3>2. CASE v.voter # n
      BY <1>2, <2>1, <3>1, <3>2 DEF RaftInv, RaftTypeOK, VotesKept
    <3>3. CASE v.voter = n
      <4>1. raft'[n] = final /\ life' = life
        BY <1>2 DEF RaftInv, RaftTypeOK
      <4>2. /\ v.life <= life[n]
            /\ v.life = life[n] => v.term <= old.term /\ (v.term = old.term => old.votedFor = v.candidate)
        BY <2>1, <3>3 DEF RaftInv, VotesKept
      <4>3. old.term \in Nat /\ final.term \in Nat
        BY <1>4 DEF States
      <4> QED BY <1>4, <3>1, <3>3, <4>1, <4>2, <4>3 DEF Follows
    <3> QED BY <3>2, <3>3
  <2>2. ASSUME NEW i \in 0..last, state[i].votedFor # Nobody, v = Vote(n, state[i])
        PROVE  v.voter = n /\ v.life = life[n] /\ v.term <= final.term
               /\ (v.term = final.term => final.votedFor = v.candidate)
    BY <1>6, <2>2 DEF Vote, Follows
  <2>3. raft'[n] = final /\ life' = life /\ life[n] \in Nat
    BY <1>2 DEF RaftInv, RaftTypeOK
  <2> QED BY <1>5, <2>1, <2>2, <2>3
<1>14. OneVotePerLife'
  <2> DEFINE same(v, w) == v.voter = w.voter /\ v.life = w.life /\ v.term = w.term
  <2>1. ASSUME NEW v \in votes, NEW w \in votes, same(v, w) PROVE v.candidate = w.candidate
    BY <2>1 DEF RaftInv, OneVotePerLife
  <2>2. ASSUME NEW v \in votes, NEW i \in 0..last, state[i].votedFor # Nobody, same(v, Vote(n, state[i]))
        PROVE  v.candidate = state[i].votedFor
    <3>1. v.voter = n /\ v.life = life[n] /\ v.term = state[i].term
      BY <2>2 DEF Vote
    <3>2. v.term <= old.term /\ (v.term = old.term => old.votedFor = v.candidate)
      BY <3>1 DEF RaftInv, VotesKept
    <3>3. v.term \in Nat /\ v.candidate # Nobody /\ old.term \in Nat
      BY <1>4, RaftAssumption DEF RaftInv, RaftTypeOK, States
    <3>4. Follows(state[i], old)
      BY <1>1
    <3> QED BY <3>1, <3>2, <3>3, <3>4 DEF Follows
  <2>3. ASSUME NEW i \in 0..last, NEW j \in i..last, state[i].votedFor # Nobody,
               state[i].term = state[j].term
        PROVE  state[i].votedFor = state[j].votedFor
    BY <1>1, <2>3 DEF Follows
  <2>4. ASSUME NEW i \in 0..last, NEW j \in 0..last,
               state[i].votedFor # Nobody, state[j].votedFor # Nobody,
               state[i].term = state[j].term
        PROVE  state[i].votedFor = state[j].votedFor
    <3>1. j \in i..last \/ i \in j..last
      BY <1>1
    <3> QED BY <2>3, <2>4, <3>1
  <2>5. \A i \in 0..last : Vote(n, state[i]).candidate = state[i].votedFor
                           /\ Vote(n, state[i]).term = state[i].term
    BY DEF Vote
  <2> SUFFICES ASSUME NEW v \in votes', NEW w \in votes', same(v, w)
               PROVE  v.candidate = w.candidate
    BY DEF OneVotePerLife
  <2>6. CASE v \in votes /\ w \in votes
    BY <2>1, <2>6
  <2>7. ASSUME NEW i \in 0..last, state[i].votedFor # Nobody, v = Vote(n, state[i]), w \in votes
        PROVE  v.candidate = w.candidate
    BY <2>2, <2>5, <2>7
  <2>8. ASSUME NEW i \in 0..last, state[i].votedFor # Nobody, w = Vote(n, state[i]), v \in votes
        PROVE  v.candidate = w.candidate
    BY <2>2, <2>5, <2>8
  <2>9. ASSUME NEW i \in 0..last, state[i].votedFor # Nobody, v = Vote(n, state[i]),
               NEW j \in 0..last, state[j].votedFor # Nobody, w = Vote(n, state[j])
        PROVE  v.candidate = w.candidate
    BY <2>4, <2>5, <2>9
  <2> HIDE DEF same
  <2> QED BY <1>5, <2>6, <2>7, <2>8, <2>9
<1> QED BY <1>9, <1>10, <1>11, <1>12, <1>13, <1>14 DEF RaftInv

\* What leaves the requests sent, the lives and the votes alone.
LEMMA OthersOK ==
  ASSUME RaftInv, RaftTypeOK', PendingSent', UNCHANGED <<sent, life, votes>>,
         \A n \in Nodes : raft'[n].votedFor = raft[n].votedFor /\ raft'[n].term = raft[n].term
  PROVE  RaftInv'
<1>1. CurrentVoteAsked' /\ VotesWereAsked' /\ OneVotePerLife'
  BY DEF RaftInv, CurrentVoteAsked, VotesWereAsked, OneVotePerLife, Asked
<1>2. VotesKept'
  BY DEF RaftInv, RaftTypeOK, VotesKept
<1> QED BY <1>1, <1>2 DEF RaftInv

\* The transport appends to the list of one node.
LEMMA DeliverTypeOK ==
  ASSUME RaftInv, NEW n \in Nodes, NEW m \in Requests \cup {Foreign}, Deliver(n, m)
  PROVE  /\ pending[n] \in Seq(Requests \cup {Foreign})
         /\ pending' = [pending EXCEPT ![n] = Append(pending[n], m)]
         /\ RaftTypeOK'
<1>1. pending[n] \in Seq(Requests \cup {Foreign})
  BY DEF RaftInv, RaftTypeOK
<1>2. pending' = [pending EXCEPT ![n] = Append(pending[n], m)]
  BY DEF Deliver
<1>3. Append(pending[n], m) \in Seq(Requests \cup {Foreign})
  BY <1>1
<1> QED BY <1>1, <1>2, <1>3 DEF RaftInv, RaftTypeOK, Deliver

\* A delivery adds a foreign message, or a request that was sent to n.
LEMMA DeliverOK ==
  ASSUME RaftInv, NEW n \in Nodes, NEW m \in Requests \cup {Foreign}, Deliver(n, m),
         m # Foreign => [to |-> n, from |-> m.from, term |-> m.term] \in sent
  PROVE  RaftInv'
<1>1. /\ pending[n] \in Seq(Requests \cup {Foreign})
      /\ pending' = [pending EXCEPT ![n] = Append(pending[n], m)]
      /\ RaftTypeOK'
  BY DeliverTypeOK
<1>2. PendingSent'
  <2> SUFFICES ASSUME NEW k \in Nodes, NEW i \in DOMAIN pending'[k], pending'[k][i] # Foreign
               PROVE  [to |-> k, from |-> pending'[k][i].from, term |-> pending'[k][i].term] \in sent
    BY DEF PendingSent, Deliver
  <2>1. CASE k # n
    BY <1>1, <2>1 DEF RaftInv, RaftTypeOK, PendingSent
  <2>2. CASE k = n
    <3>1. pending'[k] = Append(pending[n], m)
      BY <1>1, <2>2 DEF RaftInv, RaftTypeOK
    <3>2. \/ i \in DOMAIN pending[n] /\ pending'[k][i] = pending[n][i]
          \/ pending'[k][i] = m
      BY <1>1, <3>1
    <3> QED BY <2>2, <3>2 DEF RaftInv, PendingSent
  <2> QED BY <2>1, <2>2
<1> QED BY <1>1, <1>2, OthersOK DEF Deliver

\* A delivered request is one of those sent.
LEMMA DeliverRequestOK ==
  ASSUME RaftInv, NEW n \in Nodes, DeliverRequest(n)
  PROVE  RaftInv'
<1>1. PICK m \in sent : m.to = n /\ Deliver(n, [type |-> "vote", from |-> m.from, term |-> m.term])
  BY DEF DeliverRequest
<1>2. m \in [to : Nodes, from : Nodes, term : Nat]
  BY DEF RaftInv, RaftTypeOK
<1> DEFINE r == [type |-> "vote", from |-> m.from, term |-> m.term]
<1>3. r \in Requests /\ r.from = m.from /\ r.term = m.term
  BY <1>2 DEF Requests
<1>4. [to |-> n, from |-> m.from, term |-> m.term] = m
  BY <1>1, <1>2
<1> HIDE DEF r
<1> QED BY <1>1, <1>3, <1>4, DeliverOK DEF r

\* A new peer, or a new life, gives no vote and takes none back.
LEMMA AddPeerOK ==
  ASSUME RaftInv, NEW n \in Nodes, NEW p \in Nodes, AddPeer(n, p)
  PROVE  RaftInv'
<1>1. raft' = [raft EXCEPT ![n].peers = raft[n].peers \cup {p}]
  BY DEF AddPeer
<1>2. raft[n] \in States /\ raft \in [Nodes -> States]
  BY DEF RaftInv, RaftTypeOK
<1> DEFINE r == [raft[n] EXCEPT !.peers = raft[n].peers \cup {p}]
<1>3. r \in States /\ r.term = raft[n].term /\ r.votedFor = raft[n].votedFor
  BY <1>2 DEF States
<1>4. raft' = [raft EXCEPT ![n] = r]
  BY <1>1, <1>2
<1> HIDE DEF r
<1>5. RaftTypeOK'
  BY <1>2, <1>3, <1>4 DEF RaftInv, RaftTypeOK, AddPeer
<1>6. PendingSent'
  BY DEF RaftInv, PendingSent, AddPeer
<1>7. \A k \in Nodes : raft'[k].votedFor = raft[k].votedFor /\ raft'[k].term = raft[k].term
  BY <1>2, <1>3, <1>4
<1> QED BY <1>5, <1>6, <1>7, OthersOK DEF AddPeer

\* A restart forgets term, vote and messages and begins another life.
LEMMA RestartOK ==
  ASSUME RaftInv, NEW n \in Nodes, Restart(n)
  PROVE  RaftInv'
<1>1. /\ life' = [life EXCEPT ![n] = life[n] + 1]
      /\ raft' = [raft EXCEPT ![n] = Started]
      /\ pending' = [pending EXCEPT ![n] = << >>]
      /\ sent' = sent /\ votes' = votes
  BY DEF Restart
<1>2. Started \in States /\ Started.votedFor = Nobody
  BY DEF Started, States
<1>3. RaftTypeOK'
  BY <1>1, <1>2 DEF RaftInv, RaftTypeOK
<1>4. PendingSent' /\ CurrentVoteAsked'
  <2>1. /\ pending'[n] = << >> /\ \A k \in Nodes : k # n => pending'[k] = pending[k]
        /\ raft'[n] = Started /\ \A k \in Nodes : k # n => raft'[k] = raft[k]
    BY <1>1 DEF RaftInv, RaftTypeOK
  <2>2. PendingSent'
    BY <1>1, <2>1 DEF RaftInv, PendingSent
  <2>3. CurrentVoteAsked'
    BY <1>1, <1>2, <2>1 DEF RaftInv, CurrentVoteAsked, Asked
  <2>4. QED
    BY <2>2, <2>3
<1>5. OneVotePerLife' /\ VotesWereAsked'
  BY <1>1 DEF RaftInv, OneVotePerLife, VotesWereAsked
\* Whatever n voted for was in an earlier life.
<1>6. VotesKept'
  <2> SUFFICES ASSUME NEW v \in votes
               PROVE  /\ v.life <= life'[v.voter]
                      /\ v.life = life'[v.voter] =>
                           /\ v.term <= raft'[v.voter].term
                           /\ v.term = raft'[v.voter].term => raft'[v.voter].votedFor = v.candidate
    BY <1>1 DEF VotesKept
  <2>1. v.voter \in Nodes /\ v.life \in Nat /\ life \in [Nodes -> Nat] /\ v.life <= life[v.voter]
    BY DEF RaftInv, RaftTypeOK, VotesKept
  <2>2. CASE v.voter = n
    BY <1>1, <2>1, <2>2
  <2>3. CASE v.voter # n
    BY <1>1, <2>1, <2>3 DEF RaftInv, RaftTypeOK, VotesKept
  <2> QED BY <2>2, <2>3
<1> QED BY <1>3, <1>4, <1>5, <1>6 DEF RaftInv

\* Every step, and no step at all, leaves the invariant.
LEMMA RaftStepOK == RaftInv /\ [Next]_vars => RaftInv'
<1> SUFFICES ASSUME RaftInv, [Next]_vars PROVE RaftInv'
  OBVIOUS
<1>1. ASSUME NEW n \in Nodes, Ticks(n) PROVE RaftInv'
  BY <1>1, TickOK DEF Ticks
<1>2. ASSUME NEW n \in Nodes, Deliver(n, Foreign) PROVE RaftInv'
  BY <1>2, DeliverOK
<1>3. CASE UNCHANGED vars
  BY <1>3 DEF vars, RaftInv, RaftTypeOK, PendingSent, CurrentVoteAsked, VotesKept,
              OneVotePerLife, VotesWereAsked, Asked
<1> QED BY <1>1, <1>2, <1>3, DeliverRequestOK, AddPeerOK, RestartOK DEF Next

-----------------------------------------------------------------------------
\* Votes are remembered, requests come from a candidacy of their term.
THEOREM RaftInvariant == Spec => []RaftInv
<1> QED BY RaftInitOK, RaftStepOK, PTL DEF Spec

\* A node never votes for two candidates in one term of one life.
THEOREM RaftOneVotePerLife == Spec => []OneVotePerLife
<1>1. RaftInv => OneVotePerLife
  BY DEF RaftInv
<1> QED BY <1>1, RaftInvariant, PTL

\* Nobody gets a vote it did not ask for in that very term.
THEOREM RaftVotesWereAsked == Spec => []VotesWereAsked
<1>1. RaftInv => VotesWereAsked
  BY DEF RaftInv
<1> QED BY <1>1, RaftInvariant, PTL

\* A node that lives on hears every request it takes from its list.
THEOREM RaftForeignOnlyDelays == Spec => ForeignOnlyDelays
<1> DEFINE Delays ==
      \A n \in Nodes :
        life'[n] = life[n] =>
          \A i \in 1..Len(pending[n]) - Len(pending'[n]) :
             pending[n][i] # Foreign => raft'[n].term >= pending[n][i].term
<1>1. RaftInv /\ [Next]_vars => [Delays]_vars
  <2> SUFFICES ASSUME RaftInv, Next PROVE Delays
    BY DEF vars
  <2>1. \A n \in Nodes : pending[n] \in Seq(Requests \cup {Foreign}) /\ life[n] \in Nat
    BY DEF RaftInv, RaftTypeOK
  <2>2. ASSUME NEW n \in Nodes, NEW expired \in BOOLEAN, NEW logOk \in BOOLEAN,
               Tick(n, expired, logOk)
        PROVE  Delays
    <3> DEFINE last  == Read(pending[n])
               state == Heard(n, expired, logOk)
    <3>1. /\ last \in 0..Len(pending[n])
          /\ \A i \in 0..last : state[i] \in Legal(n)
          /\ \A i \in 0..last : \A j \in i..last : Follows(state[j], state[i])
          /\ \A i \in 1..last : pending[n][i] # Foreign => state[i].term >= pending[n][i].term
      BY HeardOK
    <3>2. raft' = [raft EXCEPT ![n] = state[last]] /\ pending' = [pending EXCEPT ![n] = Left(pending[n])]
      BY <2>2 DEF Tick
    <3>3. Len(pending[n]) - Len(Left(pending[n])) = last
      BY <2>1, <3>1 DEF Left
    <3> HIDE DEF last, state
    <3>4. \A i \in 1..last : state[last].term >= state[i].term
      BY <3>1 DEF Follows
    <3>5. \A i \in 0..last : state[i].term \in Nat
      BY <3>1 DEF Legal, States
    <3>6. ASSUME NEW i \in 1..last, pending[n][i] # Foreign
          PROVE  state[last].term >= pending[n][i].term
      <4>1. pending[n][i] \in Requests
        BY <2>1, <3>1, <3>6
      <4>2. pending[n][i].term \in Nat
        BY <4>1 DEF Requests
      <4> QED BY <3>1, <3>4, <3>5, <3>6, <4>2
    <3>7. raft'[n] = state[last] /\ pending'[n] = Left(pending[n])
      BY <3>2 DEF RaftInv, RaftTypeOK
    <3>8. \A k \in Nodes : k # n => pending'[k] = pending[k]
      BY <3>2 DEF RaftInv, RaftTypeOK
    <3>9. ASSUME NEW k \in Nodes, k # n PROVE Len(pending[k]) - Len(pending'[k]) = 0
      BY <2>1, <3>8, <3>9
    <3>10. \A i \in 1..Len(pending[n]) - Len(pending'[n]) :
              pending[n][i] # Foreign => raft'[n].term >= pending[n][i].term
      BY <3>3, <3>6, <3>7
    <3>11. ASSUME NEW k \in Nodes, k # n, NEW i \in 1..Len(pending[k]) - Len(pending'[k]) PROVE FALSE
      <4>1. Len(pending[k]) - Len(pending'[k]) = 0
        BY <3>9, <3>11
      <4> QED BY <3>11, <4>1
    <3> QED BY <3>10, <3>11
  <2>3. ASSUME NEW n \in Nodes, NEW m, m \in Requests \cup {Foreign}, Deliver(n, m) PROVE Delays
    <3>1. pending' = [pending EXCEPT ![n] = Append(pending[n], m)] /\ pending \in [Nodes -> Seq(Requests \cup {Foreign})]
      BY <2>3 DEF Deliver, RaftInv, RaftTypeOK
    <3>2. ASSUME NEW k \in Nodes PROVE Len(pending[k]) - Len(pending'[k]) <= 0
      <4>1. CASE k = n
        BY <2>1, <2>3, <3>1, <4>1
      <4>2. CASE k # n
        BY <2>1, <3>1, <4>2
      <4> QED BY <4>1, <4>2
    <3>3. \A k \in Nodes : Len(pending[k]) - Len(pending'[k]) \in Int
      <4>1. \A k \in Nodes : pending'[k] \in Seq(Requests \cup {Foreign})
        BY <2>3, <3>1, DeliverTypeOK DEF RaftTypeOK
      <4> QED BY <2>1, <4>1
    <3> QED BY <3>2, <3>3
  <2>4. ASSUME NEW n \in Nodes, DeliverRequest(n) PROVE Delays
    <3>1. PICK m \in sent : Deliver(n, [type |-> "vote", from |-> m.from, term |-> m.term])
      BY <2>4 DEF DeliverRequest
    <3>2. [type |-> "vote", from |-> m.from, term |-> m.term] \in Requests
      BY DEF RaftInv, RaftTypeOK, Requests
    <3> QED BY <2>3, <3>1, <3>2
  <2>5. ASSUME NEW n \in Nodes, Restart(n) PROVE Delays
    <3>1. /\ life' = [life EXCEPT ![n] = life[n] + 1] /\ life \in [Nodes -> Nat]
          /\ pending' = [pending EXCEPT ![n] = << >>]
      BY <2>5 DEF Restart, RaftInv, RaftTypeOK
    <3>2. life'[n] # life[n]
      BY <3>1
    <3>3. ASSUME NEW k \in Nodes, k # n PROVE Len(pending[k]) - Len(pending'[k]) = 0
      BY <2>1, <3>1, <3>3 DEF RaftInv, RaftTypeOK
    <3>4. \A k \in Nodes : life'[k] = life[k] => k # n
      BY <3>2
    <3>5. ASSUME NEW k \in Nodes, life'[k] = life[k],
                 NEW i \in 1..Len(pending[k]) - Len(pending'[k])
          PROVE  FALSE
      <4>1. Len(pending[k]) - Len(pending'[k]) = 0
        BY <3>3, <3>4, <3>5
      <4> QED BY <3>5, <4>1
    <3> QED BY <3>5
  <2>6. ASSUME UNCHANGED pending PROVE Delays
    <3>1. \A k \in Nodes : Len(pending[k]) - Len(pending'[k]) = 0
      BY <2>1, <2>6
    <3> QED BY <3>1
  <2> HIDE DEF Delays
  <2> QED BY <2>2, <2>3, <2>4, <2>5, <2>6 DEF Next, Ticks, AddPeer
<1> QED BY <1>1, RaftInvariant, PTL DEF Spec, ForeignOnlyDelays
=============================================================================
