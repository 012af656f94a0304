------------------------------ MODULE LogProofs ------------------------------
(***************************************************************************)
(* The two components that are handed logs, which share no state.  The     *)
(* sequencer queues them and counts their effects; the full node verifies  *)
(* them against the headers it has synced.  For any number of chains,      *)
(* logs, tokens and TEEs, batches of any length, every size of the arrays. *)
(***************************************************************************)
EXTENDS L2FullNode, Sequencer, SequenceLemmas, FiniteSetTheorems

-----------------------------------------------------------------------------
(***************************************************************************)
(* What the sequencer keeps: logs, token slots, and trees of balances.     *)
(***************************************************************************)
QueuedLogs == [log : Logs, processed : BOOLEAN]
Slots      == {list \in Seq(LogTokens) : Len(list) <= MaxTokens}
Balances   == [key : {log.from : log \in Logs} \cup {log.to : log \in Logs},
               value : {0} \cup {log.amount : log \in Logs}]
LogTrees   == [leaf : SUBSET Balances, size : Nat]

States == [tokens : Slots, trees : [1..MaxTokens -> LogTrees], queue : Seq(QueuedLogs)]

\* EffectsOnce, of any state.
Once(s) ==
  Total(TreeSizes(s.trees), MaxTokens) <= Total(Allowed(s.queue), Len(s.queue))

\* A batch has nothing more to do for a log: it is processed, or never will be.
Settled(s, i) ==
  \/ s.queue[i].processed
  \/ Len(s.tokens) = MaxTokens /\ s.queue[i].log.token \notin ToSet(s.tokens)

Now == [tokens |-> tokens, trees |-> trees, queue |-> queue]

\* The inductive invariant.
SequencerInv ==
  /\ tokens \in Slots /\ trees \in [1..MaxTokens -> LogTrees] /\ queue \in Seq(QueuedLogs)
  /\ EffectsOnce

\* A balance is written once or not at all.
LEMMA CreditEffect ==
  ASSUME NEW t \in LogTrees, NEW b \in Balances
  PROVE  /\ Credit(t, b.key, b.value) \in LogTrees
         /\ Credit(t, b.key, b.value).size <= t.size + 1
<1>1. CASE TreeHas(t, b.key)
  BY <1>1 DEF Credit, LogTrees
<1>2. CASE ~ TreeHas(t, b.key)
  <2>1. Credit(t, b.key, b.value) = [leaf |-> {[key |-> b.key, value |-> b.value]},
                                     size |-> t.size + 1]
    BY <1>2 DEF Credit, TreeInsert
  <2>2. [key |-> b.key, value |-> b.value] \in Balances /\ t.size + 1 \in Nat
    BY DEF Balances, LogTrees
  <2>3. QED
    BY <2>1, <2>2 DEF LogTrees
<1>3. QED
  BY <1>1, <1>2

\* The switch writes no more than its kind of log allows.
LEMMA EffectBound ==
  ASSUME NEW t \in LogTrees, NEW log \in Logs
  PROVE  /\ Effect(t, log) \in LogTrees /\ Writes(log) \in Nat
         /\ Effect(t, log).size <= t.size + Writes(log)
<1> DEFINE a == [key |-> log.from, value |-> 0]
           b == [key |-> log.to, value |-> log.amount]
           u == Credit(t, a.key, a.value)
<1>1. a \in Balances /\ b \in Balances
  BY DEF Balances
<1> HIDE DEF a, b
<1>2. u \in LogTrees /\ u.size <= t.size + 1
  BY <1>1, CreditEffect
<1>3. Credit(u, b.key, b.value) \in LogTrees /\ Credit(u, b.key, b.value).size <= u.size + 1
  BY <1>1, <1>2, CreditEffect
<1>4. Credit(t, b.key, b.value) \in LogTrees /\ Credit(t, b.key, b.value).size <= t.size + 1
  BY <1>1, CreditEffect
<1>5. a.key = log.from /\ a.value = 0 /\ b.key = log.to /\ b.value = log.amount
  BY DEF a, b
<1>6. \A x \in LogTrees : x.size \in Nat
  BY DEF LogTrees
<1>7. CASE log.type = "transfer"
  <2>1. Effect(t, log) = Credit(u, b.key, b.value) /\ Writes(log) = 2
    BY <1>5, <1>7 DEF Effect, Writes
  <2> HIDE DEF u
  <2>2. QED
    BY <1>2, <1>3, <1>6, <2>1
<1>8. CASE log.type = "mint"
  <2>1. Effect(t, log) = Credit(t, b.key, b.value) /\ Writes(log) = 1
    BY <1>5, <1>8 DEF Effect, Writes
  <2>2. QED
    BY <1>4, <1>6, <2>1
<1>9. CASE log.type # "transfer" /\ log.type # "mint"
  <2>1. Effect(t, log) = t /\ Writes(log) = 0
    BY <1>9 DEF Effect, Writes
  <2>2. QED
    BY <1>6, <2>1
<1>10. QED
  BY <1>7, <1>8, <1>9

\* Asking for a token takes a free slot or none.
LEMMA WithTokenTyped ==
  ASSUME NEW list \in Slots, NEW token \in LogTokens
  PROVE  WithToken(list, token) \in Slots
<1>1. list \in Seq(LogTokens) /\ Len(list) \in Nat /\ Len(list) <= MaxTokens /\ MaxTokens \in Nat
  BY SequencerAssumption DEF Slots
<1>2. CASE token \in ToSet(list) \/ Len(list) >= MaxTokens
  BY <1>2 DEF WithToken
<1>3. CASE token \notin ToSet(list) /\ ~ (Len(list) >= MaxTokens)
  <2>1. WithToken(list, token) = Append(list, token)
    BY <1>3 DEF WithToken
  <2>2. Append(list, token) \in Seq(LogTokens) /\ Len(Append(list, token)) = Len(list) + 1
    BY <1>1
  <2>3. QED
    BY <1>1, <1>3, <2>1, <2>2 DEF Slots
<1>4. QED
  BY <1>2, <1>3

\* All slots are taken when a token finds none, and then the slots stay as they are.
LEMMA WithTokenFull ==
  ASSUME NEW list \in Slots, NEW token \in LogTokens
  PROVE  /\ token \notin ToSet(WithToken(list, token)) =>
              Len(list) = MaxTokens /\ token \notin ToSet(list)
         /\ Len(list) = MaxTokens => WithToken(list, token) = list
<1>1. list \in Seq(LogTokens) /\ Len(list) \in Nat /\ Len(list) <= MaxTokens /\ MaxTokens \in Nat
  BY SequencerAssumption DEF Slots
<1>2. token \in ToSet(Append(list, token))
  BY <1>1, ToSetAppend
<1>3. QED
  BY <1>1, <1>2 DEF WithToken

\* What the properties count are naturals.
LEMMA CountsTyped ==
  ASSUME NEW s \in States
  PROVE  /\ \A k \in 1..MaxTokens : TreeSizes(s.trees)[k] \in Nat
         /\ \A i \in 1..Len(s.queue) : Allowed(s.queue)[i] \in Nat
<1>1. \A k \in 1..MaxTokens : s.trees[k] \in LogTrees
  BY DEF States
<1>2. \A i \in 1..Len(s.queue) : s.queue[i] \in QueuedLogs
  BY DEF States
<1>3. \A log \in Logs : Writes(log) \in Nat
  BY DEF Writes
<1>4. \A i \in 1..Len(s.queue) : Writes(s.queue[i].log) \in Nat
  BY <1>2, <1>3 DEF QueuedLogs
<1>5. QED
  BY <1>1, <1>4 DEF TreeSizes, Allowed, LogTrees

\* What one log of a batch may change: its own flag, and what that allows.
\* It is settled then, and the logs that were settled still are.
After(s, i, r) ==
  /\ r \in States /\ Once(r) /\ Len(r.queue) = Len(s.queue)
  /\ \A j \in 1..Len(s.queue) : /\ r.queue[j].log = s.queue[j].log
                                /\ j # i => r.queue[j].processed = s.queue[j].processed
  /\ Settled(r, i) /\ \A j \in 1..Len(s.queue) : Settled(s, j) => Settled(r, j)

\* One log of a batch, which is not processed yet.
LEMMA ProcessLogEffect ==
  ASSUME NEW s \in States, Once(s), NEW i \in 1..Len(s.queue), ~ s.queue[i].processed
  PROVE  After(s, i, ProcessLog(s, i))
<1> DEFINE log  == s.queue[i].log
           list == WithToken(s.tokens, log.token)
           slot == CHOOSE k \in DOMAIN list : list[k] = log.token
           tree == Effect(s.trees[slot], log)
           done == [log |-> log, processed |-> TRUE]
           r == [tokens |-> list, trees |-> [s.trees EXCEPT ![slot] = tree],
                 queue |-> [s.queue EXCEPT ![i] = done]]
<1>1. /\ s.tokens \in Slots /\ s.trees \in [1..MaxTokens -> LogTrees]
      /\ s.queue \in Seq(QueuedLogs) /\ Len(s.queue) \in Nat /\ MaxTokens \in Nat
  BY SequencerAssumption DEF States
<1>2. s.queue[i] \in QueuedLogs
  BY <1>1
<1>3. log \in Logs /\ log.token \in LogTokens
  BY <1>2, SequencerAssumption DEF QueuedLogs
<1> HIDE DEF log
<1>4. list \in Slots
  BY <1>1, <1>3, WithTokenTyped
<1>5. CASE log.token \notin ToSet(list)
  <2>1. ProcessLog(s, i) = s
    BY <1>5 DEF ProcessLog, log
  <2>2. Settled(s, i)
    BY <1>1, <1>3, <1>5, WithTokenFull DEF Settled, log
  <2>3. QED
    BY <2>1, <2>2 DEF After
<1>6. CASE log.token \in ToSet(list)
  <2>1. ProcessLog(s, i) = r
    BY <1>6 DEF ProcessLog, log
  <2>2. slot \in 1..MaxTokens
    <3>1. \E k \in DOMAIN list : list[k] = log.token
      BY <1>6 DEF ToSet
    <3>2. DOMAIN list \subseteq 1..MaxTokens
      <4> HIDE DEF list
      <4>1. list \in Seq(LogTokens) /\ Len(list) <= MaxTokens
        BY <1>4 DEF Slots
      <4>2. QED
        BY <1>1, <4>1
    <3> HIDE DEF list
    <3>3. QED
      BY <3>1, <3>2
  <2> HIDE DEF slot, list
  <2>3. s.trees[slot] \in LogTrees
    BY <1>1, <2>2
  <2>4. tree \in LogTrees /\ Writes(log) \in Nat /\ tree.size <= s.trees[slot].size + Writes(log)
    BY <1>3, <2>3, EffectBound
  <2>5. done \in QueuedLogs /\ done.log = log /\ done.processed
    BY <1>3 DEF QueuedLogs
  <2> HIDE DEF tree, done
  <2>6. /\ r.tokens = list /\ r.trees = [s.trees EXCEPT ![slot] = tree]
        /\ r.queue = [s.queue EXCEPT ![i] = done]
    OBVIOUS
  <2>7. r \in States
    <3>1. [s.trees EXCEPT ![slot] = tree] \in [1..MaxTokens -> LogTrees]
      BY <1>1, <2>4
    <3>2. [s.queue EXCEPT ![i] = done] \in Seq(QueuedLogs)
      BY <1>1, <2>5
    <3>3. QED
      BY <1>4, <3>1, <3>2 DEF States
  <2>8. /\ Len(r.queue) = Len(s.queue) /\ r.queue[i] = done
        /\ \A j \in 1..Len(s.queue) : j # i => r.queue[j] = s.queue[j]
    BY <1>1, <2>6
  <2>9. /\ r.trees[slot] = tree
        /\ \A k \in 1..MaxTokens : k # slot => r.trees[k] = s.trees[k]
    BY <1>1, <2>2, <2>6
  <2> HIDE DEF r
  <2> DEFINE f == TreeSizes(s.trees)
             g == TreeSizes(r.trees)
             p == Allowed(s.queue)
             q == Allowed(r.queue)
             n == Len(s.queue)
  <2>10. /\ \A k \in 1..MaxTokens : f[k] \in Nat /\ g[k] \in Nat
         /\ \A j \in 1..n : p[j] \in Nat /\ q[j] \in Nat
    BY <2>7, <2>8, CountsTyped
  <2>11. /\ \A k \in 1..MaxTokens : k # slot => f[k] = g[k]
         /\ f[slot] = s.trees[slot].size /\ g[slot] = tree.size
    BY <2>2, <2>9 DEF TreeSizes
  <2>12. /\ \A j \in 1..n : j # i => p[j] = q[j]
         /\ p[i] = 0 /\ q[i] = Writes(log)
    BY <2>5, <2>8 DEF Allowed
  <2> HIDE DEF f, g, p, q, n
  <2>13. /\ Total(f, MaxTokens) \in Nat /\ Total(g, MaxTokens) \in Nat
         /\ Total(g, MaxTokens) = Total(f, MaxTokens) + (g[slot] - f[slot])
    <3>1. slot \in Nat \ {0} /\ slot <= MaxTokens
      BY <1>1, <2>2
    <3>2. QED
      BY <1>1, <2>10, <2>11, <3>1, TotalChange
  <2>14. Total(p, n) \in Nat /\ Total(q, n) \in Nat /\ Total(q, n) = Total(p, n) + (q[i] - p[i])
    <3>1. n \in Nat /\ i \in Nat \ {0} /\ i <= n
      BY <1>1 DEF n
    <3>2. QED
      BY <2>10, <2>12, <3>1, TotalChange
  <2>15. Total(f, MaxTokens) <= Total(p, n)
    BY DEF Once, f, p, n
  <2>16. Total(g, MaxTokens) <= Total(q, n)
    BY <2>2, <2>4, <2>10, <2>11, <2>12, <2>13, <2>14, <2>15
  <2>17. Once(r)
    BY <2>8, <2>16 DEF Once, g, q, n
  <2>18. r.queue[i].log = log
    BY <2>5, <2>8
  <2>19. Settled(r, i) /\ \A j \in 1..Len(s.queue) : Settled(s, j) => Settled(r, j)
    <3>1. Len(s.tokens) = MaxTokens => list = s.tokens
      BY <1>1, <1>3, WithTokenFull DEF list
    <3>2. r.tokens = list /\ r.queue[i].processed
      BY <2>5, <2>6, <2>8 DEF r
    <3>3. QED
      BY <2>8, <3>1, <3>2 DEF Settled
  <2>20. QED
    BY <2>1, <2>7, <2>8, <2>17, <2>18, <2>19 DEF After, log
<1>7. QED
  BY <1>5, <1>6

\* A batch holds every log that is due, once.
LEMMA SortedFacts ==
  ASSUME SequencerInv, NEW batch \in Sorted
  PROVE  /\ Len(batch) \in Nat
         /\ \A n \in 1..Len(batch) :
               batch[n] \in 1..Len(queue) /\ ~ queue[batch[n]].processed
         /\ \A n \in 1..Len(batch), m \in 1..Len(batch) : n < m => batch[n] # batch[m]
         /\ \A j \in Unprocessed : \E m \in 1..Len(batch) : batch[m] = j
<1> DEFINE N == Len(batch)
           c == Cardinality(Unprocessed)
<1>1. queue \in Seq(QueuedLogs) /\ DOMAIN queue = 1..Len(queue)
  BY DEF SequencerInv
<1>2. IsFiniteSet(Unprocessed) /\ c \in Nat
  <2>1. IsFiniteSet(1..Len(queue))
    BY <1>1, FS_Interval
  <2>2. Unprocessed \subseteq 1..Len(queue)
    BY <1>1 DEF Unprocessed
  <2>3. IsFiniteSet(Unprocessed)
    BY <2>1, <2>2, FS_Subset
  <2>4. QED
    BY <2>3, FS_CardinalityType
<1>3. /\ batch \in [1..c -> Unprocessed]
      /\ \A n \in 1..c, m \in 1..c : n < m => Before(batch[n], batch[m])
  BY DEF Sorted
<1>4. Cardinality(1..c) = c
  BY <1>2, FS_Interval
<1>5. c = Cardinality(Unprocessed)
  OBVIOUS
<1> HIDE DEF c
<1>6. N = c
  <2>1. batch \in Seq(Unprocessed)
    BY <1>2, <1>3
  <2>2. QED
    BY <1>2, <1>3, <2>1
<1> HIDE DEF N
<1>7. \A n \in 1..c : batch[n] \in 1..Len(queue) /\ ~ queue[batch[n]].processed
  BY <1>1, <1>3 DEF Unprocessed
<1>8. \A n \in 1..c, m \in 1..c : n < m => batch[n] # batch[m]
  <2> SUFFICES ASSUME NEW n \in 1..c, NEW m \in 1..c, n < m, batch[n] = batch[m]  PROVE FALSE
    OBVIOUS
  <2>1. Before(batch[n], batch[n]) /\ batch[n] \in 1..Len(queue)
    BY <1>3, <1>7
  <2>2. queue[batch[n]].log.timestamp \in Nat
    <3>1. queue[batch[n]] \in QueuedLogs
      BY <1>1, <2>1
    <3>2. QED
      BY <3>1, SequencerAssumption DEF QueuedLogs
  <2>3. batch[n] \in Int
    BY <1>1, <2>1
  <2>4. QED
    BY <2>1, <2>2, <2>3 DEF Before
<1>9. batch \in Surjection(1..c, Unprocessed)
  <2>1. \A n \in 1..c, m \in 1..c : batch[n] = batch[m] => n = m
    <3>1. \A n \in 1..c, m \in 1..c : n < m \/ m < n \/ n = m
      BY <1>2
    <3>2. QED
      BY <1>8, <3>1
  <2>2. batch \in Injection(1..c, Unprocessed)
    BY <1>3, <2>1 DEF Injection, IsInjective
  <2>3. QED
    BY <1>2, <1>4, <1>5, <2>2, FS_Injection
<1>10. \A j \in Unprocessed : \E m \in 1..c : batch[m] = j
  BY <1>9 DEF Surjection
<1> QED
  BY <1>2, <1>6, <1>7, <1>8, <1>10 DEF N

(***************************************************************************)
(* A function that follows Processed runs through states after so many     *)
(* logs; at its end the logs of the batch are settled.                     *)
(***************************************************************************)
LEMMA ProcessedStays ==
  ASSUME SequencerInv, NEW batch \in Sorted
  PROVE  \A s \in Processed(Now, batch) :
            /\ s \in States /\ Once(s) /\ Len(s.queue) = Len(queue)
            /\ \A j \in 1..Len(queue) :
                  /\ s.queue[j].log = queue[j].log
                  /\ Settled(Now, j) \/ j \in Unprocessed => Settled(s, j)
<1> DEFINE start == Now
           N == Len(batch)
           step(X, n) == {ProcessLog(x, batch[n]) : x \in X}
           solves(g) == g = [n \in 0..N |-> IF n = 0 THEN {start} ELSE step(g[n - 1], n)]
           after == CHOOSE g : solves(g)
           Keeps(s) == \A j \in 1..Len(queue) : /\ s.queue[j].log = queue[j].log
                                                /\ Settled(start, j) => Settled(s, j)
           Fits == {s \in States : Len(s.queue) = Len(queue) /\ Once(s) /\ Keeps(s)}
           Good(n) == {s \in Fits : /\ \A m \in (n + 1)..N : ~ s.queue[batch[m]].processed
                                    /\ \A m \in 1..n : Settled(s, batch[m])}
           V == [n \in 0..N |-> SUBSET Good(n)]
<1>1. N \in Nat /\ \A n \in 1..N : batch[n] \in 1..Len(queue) /\ ~ queue[batch[n]].processed
  BY SortedFacts
<1>2. \A n \in 1..N, m \in 1..N : n < m => batch[n] # batch[m]
  BY SortedFacts
<1>3. start \in Good(0)
  <2>1. start \in States
    BY DEF SequencerInv, States, Now
  <2>2. Once(start)
    BY DEF SequencerInv, EffectsOnce, Once, Now
  <2>3. start.queue = queue
    BY DEF Now
  <2> HIDE DEF start
  <2>4. \A m \in 1..N : ~ start.queue[batch[m]].processed
    BY <1>1, <2>3
  <2>5. Keeps(start)
    BY <2>3
  <2>6. QED
    BY <2>1, <2>2, <2>3, <2>4, <2>5
<1>4. ASSUME NEW n \in 1..N, NEW s \in Good(n - 1)
      PROVE  ProcessLog(s, batch[n]) \in Good(n)
  <2> DEFINE r == ProcessLog(s, batch[n])
  <2>1. s \in States /\ Once(s) /\ Len(s.queue) = Len(queue) /\ Keeps(s)
    OBVIOUS
  <2>2. /\ \A m \in n..N : ~ s.queue[batch[m]].processed
        /\ \A m \in 1..(n - 1) : Settled(s, batch[m])
    OBVIOUS
  <2>3. batch[n] \in 1..Len(s.queue) /\ ~ s.queue[batch[n]].processed
    BY <1>1, <2>1, <2>2
  <2>4. After(s, batch[n], r)
    BY <2>1, <2>3, ProcessLogEffect
  <2> HIDE DEF r
  <2>5. ASSUME NEW m \in (n + 1)..N  PROVE ~ r.queue[batch[m]].processed
    <3>1. m \in 1..N /\ n < m /\ m \in n..N
      OBVIOUS
    <3>2. batch[m] \in 1..Len(s.queue) /\ batch[m] # batch[n]
      BY <1>1, <1>2, <2>1, <3>1
    <3>3. r.queue[batch[m]].processed = s.queue[batch[m]].processed
      BY <2>4, <3>2 DEF After
    <3>4. QED
      BY <2>2, <3>1, <3>3
  <2>6. ASSUME NEW m \in 1..n  PROVE Settled(r, batch[m])
    <3>1. m \in 1..N /\ (m = n \/ m \in 1..(n - 1))
      BY <1>1
    <3>2. batch[m] \in 1..Len(s.queue)
      BY <1>1, <2>1, <3>1
    <3>3. QED
      BY <2>2, <2>4, <3>1, <3>2 DEF After
  <2>7. Keeps(r)
    <3> HIDE DEF start
    <3>1. QED
      BY <2>1, <2>4 DEF After
  <2>8. r \in States /\ Once(r) /\ Len(r.queue) = Len(queue)
    BY <2>1, <2>4 DEF After
  <2> HIDE DEF Keeps, N
  <2>9. QED
    BY <2>5, <2>6, <2>7, <2>8 DEF r
<1>5. Processed(start, batch) = after[N]
  BY DEF Processed
<1>6. \E g : solves(g)
  <2> DEFINE total(X, n) == {x \in step(X, n) : x \in States}
             run == [n \in 1..N |-> [X \in SUBSET States |-> total(X, n)]]
  <2>1. StepsIn(run, N, SUBSET States)
    BY DEF StepsIn
  <2>2. \A n \in 1..N : \A X \in SUBSET States : run[n][X] = total(X, n)
    OBVIOUS
  <2> HIDE DEF run
  <2>3. {start} \in SUBSET States
    BY <1>3
  <2>4. HasRun(run, N, SUBSET States, {start})
    BY <1>1, <2>1, <2>3, Recursion
  <2>5. PICK g \in [0..N -> SUBSET States] :
           g[0] = {start} /\ \A n \in 1..N : g[n] = run[n][g[n - 1]]
    BY <2>4 DEF HasRun
  <2>6. \A n \in 1..N : g[n] = total(g[n - 1], n)
    <3>1. \A n \in 1..N : n - 1 \in 0..N
      BY <1>1
    <3>2. QED
      BY <2>2, <2>5, <3>1
  <2>7. \A n \in 1..N : g[n - 1] \in V[n - 1] => g[n] \in V[n] /\ g[n] = step(g[n - 1], n)
    <3> SUFFICES ASSUME NEW n \in 1..N, g[n - 1] \in V[n - 1]
                 PROVE  g[n] \in V[n] /\ g[n] = step(g[n - 1], n)
      OBVIOUS
    <3>1. n - 1 \in 0..N /\ n \in 0..N
      BY <1>1
    <3>2. \A s \in g[n - 1] : s \in Good(n - 1)
      BY <3>1
    <3> HIDE DEF Good
    <3>3. \A s \in g[n - 1] : ProcessLog(s, batch[n]) \in Good(n)
      BY <1>4, <3>2
    <3>4. \A s \in Good(n) : s \in States
      BY DEF Good
    <3>5. g[n] = step(g[n - 1], n)
      BY <2>6, <3>3, <3>4
    <3>6. \A s \in g[n] : s \in Good(n)
      BY <3>3, <3>5
    <3>7. QED
      BY <3>1, <3>5, <3>6
  <2>8. g[0] \in V[0]
    BY <1>1, <1>3, <2>5
  <2>9. \A n \in 0..N : g[n] \in V[n]
    <3>1. 0 \in Nat /\ 0 + 1 = 1
      OBVIOUS
    <3> HIDE DEF V, N
    <3>2. \A n \in (0 + 1)..N : g[n - 1] \in V[n - 1] => g[n] \in V[n]
      BY <2>7, <3>1
    <3>3. QED
      BY <1>1, <2>8, <3>1, <3>2, StaysAlong
  <2>10. \A n \in 1..N : g[n] = step(g[n - 1], n)
    <3> HIDE DEF V, step
    <3>1. \A n \in 1..N : n - 1 \in 0..N
      BY <1>1
    <3>2. QED
      BY <2>7, <2>9, <3>1
  <2>11. solves(g)
    <3> DEFINE h == [n \in 0..N |-> IF n = 0 THEN {start} ELSE step(g[n - 1], n)]
    <3>1. \A n \in 0..N : h[n] = g[n]
      <4> HIDE DEF step, start
      <4>1. \A n \in 0..N : n = 0 \/ n \in 1..N
        BY <1>1
      <4>2. QED
        BY <2>5, <2>10, <4>1
    <3>2. QED
      BY <2>5, <3>1
  <2>12. QED
    BY <2>11
<1>7. solves(after)
  BY <1>6
<1> HIDE DEF after
<1>8. after[0] = {start} /\ \A n \in 1..N : after[n] = step(after[n - 1], n)
  <2> HIDE DEF step, start
  <2>1. 0 \in 0..N /\ \A n \in 1..N : n \in 0..N /\ n # 0
    BY <1>1
  <2>2. QED
    BY <1>7, <2>1
<1>9. \A n \in (0 + 1)..N : after[n - 1] \in V[n - 1] => after[n] \in V[n]
  <2> SUFFICES ASSUME NEW n \in (0 + 1)..N, after[n - 1] \in V[n - 1]  PROVE after[n] \in V[n]
    OBVIOUS
  <2>1. n \in 1..N /\ n - 1 \in 0..N /\ n \in 0..N
    BY <1>1
  <2>2. \A s \in after[n - 1] : s \in Good(n - 1)
    BY <2>1
  <2> HIDE DEF Good
  <2>3. \A s \in after[n - 1] : ProcessLog(s, batch[n]) \in Good(n)
    BY <1>4, <2>1, <2>2
  <2>4. \A s \in after[n] : s \in Good(n)
    BY <1>8, <2>1, <2>3
  <2>5. QED
    BY <2>1, <2>4
<1>10. after[0] \in V[0] /\ 0 \in Nat /\ N \in 0..N
  BY <1>1, <1>3, <1>8
<1>11. after[N] \in V[N]
  <2> HIDE DEF V, N
  <2>1. \A n \in 0..N : after[n] \in V[n]
    BY <1>1, <1>9, <1>10, StaysAlong
  <2>2. QED
    BY <1>10, <2>1
<1>12. \A s \in after[N] : s \in Good(N)
  BY <1>10, <1>11
<1>13. \A j \in Unprocessed : \E m \in 1..N : batch[m] = j
  BY SortedFacts
<1> QED
  <2> SUFFICES ASSUME NEW s \in after[N]
               PROVE  /\ s \in States /\ Once(s) /\ Len(s.queue) = Len(queue)
                      /\ \A j \in 1..Len(queue) :
                            /\ s.queue[j].log = queue[j].log
                            /\ Settled(start, j) \/ j \in Unprocessed => Settled(s, j)
    BY <1>5
  <2>1. /\ s \in States /\ Once(s) /\ Len(s.queue) = Len(queue) /\ Keeps(s)
        /\ \A m \in 1..N : Settled(s, batch[m])
    BY <1>12
  <2>2. \A j \in Unprocessed : Settled(s, j)
    BY <1>13, <2>1
  <2> HIDE DEF start
  <2>3. QED
    BY <2>1, <2>2

\* Every step counts what it writes.
LEMMA SequencerStep ==
  ASSUME SequencerInv, [SequencerNext]_sequencerVars
  PROVE  SequencerInv'
<1> DEFINE start == Now
<1>1. /\ tokens \in Slots /\ trees \in [1..MaxTokens -> LogTrees] /\ queue \in Seq(QueuedLogs)
      /\ EffectsOnce /\ Len(queue) \in Nat /\ MaxTokens \in Nat
  BY SequencerAssumption DEF SequencerInv
<1>2. start \in States
  BY <1>1 DEF States, Now
<1>3. ASSUME NEW log \in Logs, AddLog(log)  PROVE SequencerInv'
  <2> DEFINE entry == [log |-> log, processed |-> FALSE]
             n == Len(queue)
             p == Allowed(queue)
             q == Allowed(queue')
             next == [tokens |-> tokens, trees |-> trees, queue |-> queue']
  <2>1. queue' = Append(queue, entry) /\ tokens' = tokens /\ trees' = trees
    BY <1>3 DEF AddLog
  <2>2. entry \in QueuedLogs
    BY DEF QueuedLogs
  <2>3. /\ queue' \in Seq(QueuedLogs) /\ Len(queue') = n + 1 /\ queue'[n + 1] = entry
        /\ \A i \in 1..n : queue'[i] = queue[i]
    BY <1>1, <2>1, <2>2
  <2>4. next \in States
    BY <1>1, <2>3 DEF States
  <2>5. /\ \A i \in 1..n : p[i] \in Nat
        /\ \A i \in 1..n + 1 : q[i] \in Nat
    BY <1>2, <2>3, <2>4, CountsTyped DEF Now
  <2>6. (\A i \in 1..n : p[i] = q[i]) /\ q[n + 1] = 0
    BY <1>1, <2>3 DEF Allowed
  <2> HIDE DEF p, q
  <2>7. Total(q, n + 1) = Total(q, n) + q[n + 1] /\ Total(q, n) \in Nat
    BY <1>1, <2>5, TotalMore
  <2>8. Total(q, n) = Total(p, n)
    <3>1. n + 1 \in Nat \ {0} /\ ~ (n + 1 <= n) /\ \A i \in 1..n : i \in 1..n + 1
      BY <1>1
    <3>2. Total(p, n) \in Nat /\ Total(q, n) = Total(p, n) + 0
      BY <1>1, <2>5, <2>6, <3>1, TotalChange
    <3>3. QED
      BY <3>2
  <2>9. Total(q, n + 1) = Total(p, n)
    BY <2>6, <2>7, <2>8
  <2>10. EffectsOnce'
    BY <1>1, <2>1, <2>3, <2>9 DEF EffectsOnce, p, q
  <2>11. QED
    BY <1>1, <2>1, <2>3, <2>10 DEF SequencerInv
<1>4. ASSUME ProcessLogs  PROVE SequencerInv'
  <2>1. PICK batch \in Sorted : \E s \in Processed(start, batch) :
           tokens' = s.tokens /\ trees' = s.trees /\ queue' = s.queue
    BY <1>4 DEF ProcessLogs, Now
  <2>2. PICK s \in Processed(start, batch) :
           tokens' = s.tokens /\ trees' = s.trees /\ queue' = s.queue
    BY <2>1
  <2>3. s \in States /\ Once(s)
    BY <2>2, ProcessedStays
  <2>4. QED
    BY <2>2, <2>3 DEF SequencerInv, States, Once, EffectsOnce
<1>5. ASSUME NEW token \in LogTokens, AskToken(token)  PROVE SequencerInv'
  <2>1. tokens' = WithToken(tokens, token) /\ trees' = trees /\ queue' = queue
    BY <1>5 DEF AskToken
  <2>2. tokens' \in Slots
    BY <1>1, <2>1, WithTokenTyped
  <2>3. QED
    BY <1>1, <2>1, <2>2 DEF SequencerInv, EffectsOnce
<1>6. CASE UNCHANGED sequencerVars
  BY <1>1, <1>6 DEF sequencerVars, SequencerInv, EffectsOnce
<1>7. QED
  BY <1>3, <1>4, <1>5, <1>6 DEF SequencerNext

\* Nothing has been written, and nothing is queued.
LEMMA SequencerBegins == SequencerInit => SequencerInv
<1> SUFFICES ASSUME SequencerInit  PROVE SequencerInv
  OBVIOUS
<1>1. EmptyTree \in LogTrees /\ EmptyTree.size = 0
  BY DEF EmptyTree, LogTrees
<1>2. /\ tokens = << >> /\ queue = << >> /\ trees = [i \in 1..MaxTokens |-> EmptyTree]
  BY DEF SequencerInit
<1>3. MaxTokens \in Nat
  BY SequencerAssumption
<1>4. tokens \in Slots /\ trees \in [1..MaxTokens -> LogTrees] /\ queue \in Seq(QueuedLogs)
  BY <1>1, <1>2, <1>3 DEF Slots
<1> DEFINE f == TreeSizes(trees)
<1>5. \A k \in 1..MaxTokens : f[k] = 0
  BY <1>1, <1>2 DEF TreeSizes
<1>6. Total(f, MaxTokens) = 0
  <2> HIDE DEF f
  <2>1. PICK s \in Sums(f, MaxTokens) : Total(f, MaxTokens) = s[MaxTokens]
    BY <1>3, <1>5, TotalSums
  <2>2. s[0] \in {0} /\ \A i \in (0 + 1)..MaxTokens : s[i - 1] \in {0} => s[i] \in {0}
    BY <1>5, <2>1 DEF Sums
  <2> DEFINE V == {0}
  <2> HIDE DEF V
  <2>3. \A i \in 0..MaxTokens : s[i] \in V
    <3>1. 0 \in Nat /\ s[0] \in V /\ \A i \in (0 + 1)..MaxTokens : s[i - 1] \in V => s[i] \in V
      BY <2>2 DEF V
    <3>2. QED
      BY <1>3, <3>1, Stays
  <2>4. QED
    BY <1>3, <2>1, <2>3 DEF V
<1>7. Total(Allowed(queue), Len(queue)) \in Nat
  <2>1. Len(queue) = 0 /\ \A i \in 1..0 : Allowed(queue)[i] \in Nat
    BY <1>2
  <2>2. PICK s \in Sums(Allowed(queue), 0) : Total(Allowed(queue), 0) = s[0]
    BY <2>1, TotalSums
  <2>3. QED
    BY <2>1, <2>2 DEF Sums
<1>8. EffectsOnce
  BY <1>6, <1>7 DEF EffectsOnce
<1>9. QED
  BY <1>4, <1>8 DEF SequencerInv

(***************************************************************************)
(* No log has its effect twice, in whatever batches the queue is taken,    *)
(* with ties of timestamps and with tokens that find no slot at first.     *)
(***************************************************************************)
THEOREM SequencerEffectsOnce == SequencerSpec => []EffectsOnce
<1>1. SequencerInv /\ [SequencerNext]_sequencerVars => SequencerInv'
  BY SequencerStep
<1>2. SequencerInv => EffectsOnce
  BY DEF SequencerInv
<1>3. QED
  BY <1>1, <1>2, SequencerBegins, PTL DEF SequencerSpec

(***************************************************************************)
(* What a batch owes a log, the part of SignedLogProcessed that is not     *)
(* about fairness: it settles every signed log, and settled it stays.      *)
(***************************************************************************)
SettlesAll ==
  /\ ProcessLogs => \A i \in DOMAIN queue : queue[i].log.signed => Settled(Now', i)
  /\ \A i \in DOMAIN queue : Settled(Now, i) => Settled(Now', i)

\* The array of a batch is complete; slots are never given back.
LEMMA SettlesAllStep ==
  ASSUME SequencerInv, SequencerNext
  PROVE  SettlesAll
<1>1. /\ tokens \in Slots /\ queue \in Seq(QueuedLogs) /\ DOMAIN queue = 1..Len(queue)
  BY DEF SequencerInv
<1>2. /\ Now.tokens = tokens /\ Now.queue = queue
      /\ Now'.tokens = tokens' /\ Now'.queue = queue'
  BY DEF Now
<1>3. ASSUME ProcessLogs
      PROVE  \A i \in DOMAIN queue : queue[i].log.signed \/ Settled(Now, i) => Settled(Now', i)
  <2>1. PICK batch \in Sorted : \E s \in Processed(Now, batch) :
           tokens' = s.tokens /\ trees' = s.trees /\ queue' = s.queue
    BY <1>3 DEF ProcessLogs, Now
  <2>2. PICK s \in Processed(Now, batch) :
           tokens' = s.tokens /\ trees' = s.trees /\ queue' = s.queue
    BY <2>1
  <2>3. \A i \in DOMAIN queue : Settled(Now, i) \/ i \in Unprocessed => Settled(s, i)
    BY <1>1, <2>2, ProcessedStays
  <2>4. \A i \in DOMAIN queue : Settled(s, i) => Settled(Now', i)
    BY <1>2, <2>2 DEF Settled
  <2>5. \A i \in DOMAIN queue :
           queue[i].log.signed => Settled(Now, i) \/ i \in Unprocessed
    BY <1>2 DEF Settled, Unprocessed
  <2>6. QED
    BY <2>3, <2>4, <2>5
<1>4. ASSUME NEW log \in Logs, AddLog(log)
      PROVE  \A i \in DOMAIN queue : Settled(Now, i) => Settled(Now', i)
  <2> DEFINE entry == [log |-> log, processed |-> FALSE]
  <2>1. queue' = Append(queue, entry) /\ tokens' = tokens
    BY <1>4 DEF AddLog
  <2>2. \A i \in DOMAIN queue : queue'[i] = queue[i]
    BY <1>1, <2>1
  <2>3. QED
    BY <1>2, <2>1, <2>2 DEF Settled
<1>5. ASSUME NEW token \in LogTokens, AskToken(token)
      PROVE  \A i \in DOMAIN queue : Settled(Now, i) => Settled(Now', i)
  <2>1. tokens' = WithToken(tokens, token) /\ queue' = queue
    BY <1>5 DEF AskToken
  <2>2. Len(tokens) = MaxTokens => tokens' = tokens
    BY <1>1, <2>1, WithTokenFull
  <2>3. QED
    BY <1>2, <2>1, <2>2 DEF Settled
<1> QED
  BY <1>3, <1>4, <1>5 DEF SequencerNext, SettlesAll

(***************************************************************************)
(* No signed log is left behind: when a batch ends, every log of the queue *)
(* is processed or its token came too late for a slot, and no later log,   *)
(* batch or question changes that.                                         *)
(***************************************************************************)
THEOREM SequencerSettlesAll == SequencerSpec => [][SettlesAll]_sequencerVars
<1>1. SequencerInv /\ [SequencerNext]_sequencerVars => SequencerInv'
  BY SequencerStep
<1>2. SequencerInv /\ [SequencerNext]_sequencerVars => [SettlesAll]_sequencerVars
  BY SettlesAllStep
<1>3. QED
  BY <1>1, <1>2, SequencerBegins, PTL DEF SequencerSpec

-----------------------------------------------------------------------------
\* Some log of the transaction is proved by a header that was synced.
Proved(tx) ==
  \E log \in L2Logs :
     log.tx = tx /\ log.block \in ToSet(headers[log.chain]) /\ log.proves = log.block

Entries  == [tx : {log.tx : log \in L2Logs}, isVerified : BOOLEAN]
Verdicts == [log : L2Logs, tee : Int, answer : {"proved", "refused", "unwritten"}]

\* What the cache and the answers may hold, given the headers.
SoundEntries  == {e \in Entries : e.isVerified => Proved(e.tx)}
SoundVerdicts == {v \in Verdicts : v.answer = "proved" => Proved(v.log.tx)}

\* The answers of the call under way: the starved tees give none, the others
\* accept what can be proved now.
FreshVerdicts(starved) ==
  {v \in SoundVerdicts :
     IF v.tee \in starved THEN v.answer = "unwritten"
     ELSE VerifyLogExistence(headers, v.log) => v.answer = "proved"}

Caches == {s \in Seq(SoundEntries) : Len(s) <= CacheSize}

\* The inductive invariant.
FullNodeInv ==
  /\ headers \in [FullChains -> Seq(0..Word-1)]
  /\ \A c \in FullChains : Len(headers[c]) <= MaxHeaders
  /\ cache \in Caches
  /\ verdicts \in Seq(SoundVerdicts)

-----------------------------------------------------------------------------
\* A node that was just initialised is in order.
LEMMA FullNodeInitOK == Init => FullNodeInv
  BY L2FullNodeAssumption DEF Init, FullNodeInv, Caches

\* A range never fills more than the room there is, also when it wraps.
LEMMA StoredFits ==
  ASSUME NEW count \in 0..MaxHeaders, NEW from \in 0..Word-1, NEW to \in 0..Word-1, from <= to
  PROVE  /\ Stored(count, from, to) \in Seq(0..Word-1)
         /\ count + Len(Stored(count, from, to)) <= MaxHeaders
<1> DEFINE n == IF to = Word - 1 \/ to - from + 1 > MaxHeaders - count
                  THEN MaxHeaders - count ELSE to - from + 1
<1>1. MaxHeaders \in Nat /\ Word \in Nat \ {0}
  BY L2FullNodeAssumption
<1>2. n \in Nat /\ count + n <= MaxHeaders
  BY <1>1
<1>3. Stored(count, from, to) = [i \in 1..n |-> (from + i - 1) % Word]
  BY DEF Stored
<1> HIDE DEF n
<1>4. \A i \in 1..n : (from + i - 1) % Word \in 0..Word-1
  BY <1>1, <1>2
<1>5. [i \in 1..n |-> (from + i - 1) % Word] \in Seq(0..Word-1)
  BY <1>2, <1>4
<1>6. Len([i \in 1..n |-> (from + i - 1) % Word]) = n
  BY <1>2
<1> QED BY <1>2, <1>3, <1>5, <1>6

\* The blocks before stay when a list grows.
LEMMA ToSetConcat ==
  ASSUME NEW S, NEW s \in Seq(S), NEW t \in Seq(S)
  PROVE  ToSet(s) \subseteq ToSet(s \o t)
<1> SUFFICES ASSUME NEW i \in DOMAIN s PROVE s[i] \in ToSet(s \o t)
  BY DEF ToSet
<1>1. i \in DOMAIN (s \o t) /\ (s \o t)[i] = s[i]
  OBVIOUS
<1> QED BY <1>1 DEF ToSet

\* Headers are only ever added, so what was proved stays proved.
LEMMA SyncOK ==
  ASSUME FullNodeInv, NEW c \in FullChains, NEW from \in 0..Word-1, NEW to \in 0..Word-1,
         SyncBlockHeaders(c, from, to)
  PROVE  FullNodeInv'
<1> DEFINE new == Stored(Len(headers[c]), from, to)
<1>1. headers[c] \in Seq(0..Word-1) /\ Len(headers[c]) \in 0..MaxHeaders
  BY L2FullNodeAssumption DEF FullNodeInv
<1>2. new \in Seq(0..Word-1) /\ Len(headers[c]) + Len(new) <= MaxHeaders
  BY <1>1, StoredFits DEF SyncBlockHeaders
<1>3. headers' = [headers EXCEPT ![c] = headers[c] \o new] /\ cache' = cache /\ verdicts' = verdicts
  BY DEF SyncBlockHeaders
<1> HIDE DEF new
<1>4. headers[c] \o new \in Seq(0..Word-1) /\ Len(headers[c] \o new) <= MaxHeaders
  BY <1>1, <1>2
<1>5. /\ headers' \in [FullChains -> Seq(0..Word-1)]
      /\ \A d \in FullChains : Len(headers'[d]) <= MaxHeaders
  BY <1>3, <1>4 DEF FullNodeInv
<1>6. \A d \in FullChains : ToSet(headers[d]) \subseteq ToSet(headers'[d])
  BY <1>1, <1>2, <1>3, ToSetConcat DEF FullNodeInv
<1>7. ASSUME NEW tx, Proved(tx) PROVE Proved(tx)'
  BY <1>6, <1>7, L2FullNodeAssumption DEF Proved
<1>8. SoundEntries \subseteq SoundEntries' /\ SoundVerdicts \subseteq SoundVerdicts'
  BY <1>7 DEF SoundEntries, SoundVerdicts, Entries, Verdicts
<1>9. cache' \in Caches' /\ verdicts' \in Seq(SoundVerdicts')
  BY <1>3, <1>8 DEF FullNodeInv, Caches
<1> QED BY <1>5, <1>9 DEF FullNodeInv

-----------------------------------------------------------------------------
\* What a verification call works on.
Work(starved) == [cache : Caches, verdicts : Seq(FreshVerdicts(starved))]

\* Verifying one log keeps the cache sound and adds a sound, fresh verdict.
LEMMA VerifyOneOK ==
  ASSUME NEW starved, NEW acc \in Work(starved), NEW tee \in Int, tee \notin starved,
         NEW log \in L2Logs
  PROVE  VerifyOne(acc, tee, log) \in Work(starved)
<1> DEFINE ok    == Cached(acc.cache, log) \/ VerifyLogExistence(headers, log)
           entry == [tx |-> log.tx, isVerified |-> ok]
           answer == [log |-> log, tee |-> tee, answer |-> Answer(ok)]
<1>1. acc.cache \in Seq(SoundEntries) /\ Len(acc.cache) <= CacheSize
      /\ acc.verdicts \in Seq(FreshVerdicts(starved)) /\ CacheSize \in Nat
  BY L2FullNodeAssumption DEF Work, Caches
<1>2. ok \in BOOLEAN
  BY DEF VerifyLogExistence, Cached
<1>3. ok => Proved(log.tx)
  <2>1. ASSUME Cached(acc.cache, log) PROVE Proved(log.tx)
    <3>1. PICK i \in DOMAIN acc.cache : acc.cache[i].tx = log.tx /\ acc.cache[i].isVerified
      BY <2>1 DEF Cached
    <3>2. acc.cache[i] \in SoundEntries
      BY <1>1
    <3> QED BY <3>1, <3>2 DEF SoundEntries
  <2>2. ASSUME VerifyLogExistence(headers, log) PROVE Proved(log.tx)
    BY <2>2 DEF VerifyLogExistence, Proved
  <2> QED BY <2>1, <2>2
<1>4. VerifyLogExistence(headers, log) => ok
  OBVIOUS
<1> HIDE DEF ok
<1>5. entry \in SoundEntries
  BY <1>2, <1>3 DEF SoundEntries, Entries
<1>6. answer \in FreshVerdicts(starved)
  BY <1>2, <1>3, <1>4 DEF Answer, FreshVerdicts, SoundVerdicts, Verdicts
<1> DEFINE longer == IF ~ Cached(acc.cache, log) /\ Len(acc.cache) < CacheSize
                       THEN Append(acc.cache, entry) ELSE acc.cache
<1>7. VerifyOne(acc, tee, log) = [cache |-> longer, verdicts |-> Append(acc.verdicts, answer)]
  BY DEF VerifyOne, ok
<1> HIDE DEF entry, answer
<1>8. longer \in Caches
  BY <1>1, <1>5 DEF Caches
<1>9. Append(acc.verdicts, answer) \in Seq(FreshVerdicts(starved))
  BY <1>1, <1>6
<1> QED BY <1>7, <1>8, <1>9 DEF Work

\* One visit looks at a log of the batch or at none.
LEMMA VisitOK ==
  ASSUME NEW starved, NEW acc \in Work(starved), NEW batch \in Seq(L2Logs), batch # << >>, NEW tees,
         NEW q \in Nat \ {0}
  PROVE  Visit(acc, batch, tees, starved, q) \in Work(starved)
<1>1. ((q - 1) % Len(batch)) + 1 \in 1..Len(batch)
  OBVIOUS
<1>2. batch[((q - 1) % Len(batch)) + 1] \in L2Logs
  BY <1>1
<1> DEFINE tee  == (q - 1) \div Len(batch)
           log  == batch[((q - 1) % Len(batch)) + 1]
           none == [log |-> log, tee |-> tee, answer |-> "unwritten"]
<1>3. tee \in Int
  OBVIOUS
<1> DEFINE skipped == [acc EXCEPT !.verdicts = Append(acc.verdicts, none)]
<1>4. \/ Visit(acc, batch, tees, starved, q) = acc
      \/ tee \in starved /\ Visit(acc, batch, tees, starved, q) = skipped
      \/ tee \notin starved /\ Visit(acc, batch, tees, starved, q) = VerifyOne(acc, tee, log)
  BY DEF Visit
<1>5. log \in L2Logs
  BY <1>2
<1> HIDE DEF tee, log
<1>6. ASSUME tee \in starved  PROVE skipped \in Work(starved)
  <2>1. none \in FreshVerdicts(starved)
    BY <1>3, <1>5, <1>6 DEF FreshVerdicts, SoundVerdicts, Verdicts
  <2> HIDE DEF none
  <2> QED BY <2>1 DEF Work
<1> HIDE DEF none, skipped
<1>7. CASE tee \notin starved
  BY <1>3, <1>4, <1>5, <1>7, VerifyOneOK
<1>8. CASE tee \in starved
  BY <1>4, <1>6, <1>8
<1> QED BY <1>7, <1>8

\* The loop over the tees and their logs ends with sound, fresh answers.
LEMMA VerifyLogsWork ==
  ASSUME FullNodeInv, NEW batch \in Batches, NEW tees \in TeeCounts, NEW starved,
         VerifyLogs(batch, tees, starved)
  PROVE  cache' \in Caches /\ verdicts' \in Seq(FreshVerdicts(starved)) /\ headers' = headers
<1> DEFINE n == tees * Len(batch)
           base == [cache |-> cache, verdicts |-> << >>]
           solves(g) == g = [q \in 0..n |-> IF q = 0 THEN base
                                            ELSE Visit(g[q - 1], batch, tees, starved, q)]
           state == CHOOSE g : solves(g)
<1>1. batch \in Seq(L2Logs) /\ batch # << >> /\ tees \in Nat \ {0} /\ n \in Nat
  BY L2FullNodeAssumption
<1>2. cache' = state[n].cache /\ verdicts' = state[n].verdicts /\ headers' = headers
  BY DEF VerifyLogs
<1>3. base \in Work(starved)
  BY DEF Work, FullNodeInv
<1> HIDE DEF n, base
<1>4. \E g : solves(g)
  <2> DEFINE step == [q \in 1..n |-> [a \in Work(starved) |-> Visit(a, batch, tees, starved, q)]]
  <2>1. \A q \in 1..n, a \in Work(starved) : Visit(a, batch, tees, starved, q) \in Work(starved)
    BY <1>1, VisitOK
  <2>2. StepsIn(step, n, Work(starved))
    BY <2>1 DEF StepsIn
  <2>3. \A a \in Work(starved), q \in 1..n : step[q][a] = Visit(a, batch, tees, starved, q)
    OBVIOUS
  <2> HIDE DEF step
  <2>4. HasRun(step, n, Work(starved), base)
    BY <1>1, <1>3, <2>2, Recursion
  <2>5. PICK g \in [0..n -> Work(starved)] : g[0] = base /\ \A q \in 1..n : g[q] = step[q][g[q - 1]]
    BY <2>4 DEF HasRun
  <2>6. \A q \in 1..n : g[q] = Visit(g[q - 1], batch, tees, starved, q)
    <3>1. \A q \in 1..n : g[q - 1] \in Work(starved)
      BY <1>1
    <3> QED BY <2>3, <2>5, <3>1
  <2>7. solves(g)
    BY <1>1, <2>5, <2>6
  <2> QED BY <2>7
<1>5. solves(state)
  BY <1>4
<1> HIDE DEF state
<1>6. state[0] = base /\ \A q \in 1..n : state[q] = Visit(state[q - 1], batch, tees, starved, q)
  BY <1>1, <1>5
<1>7. state[0] \in Work(starved)
  BY <1>3, <1>6
<1>8. ASSUME NEW q \in 1..n, state[q - 1] \in Work(starved) PROVE state[q] \in Work(starved)
  BY <1>1, <1>6, <1>8, VisitOK
<1>9. \A q \in 0..n : state[q] \in Work(starved)
  <2>1. 0 \in Nat /\ 0 + 1 = 1
    OBVIOUS
  <2> QED BY <1>1, <1>7, <1>8, <2>1, Stays
<1>10. state[n] \in Work(starved)
  BY <1>1, <1>9
<1> QED BY <1>2, <1>10 DEF Work

\* A verification leaves the invariant.
LEMMA VerifyOK ==
  ASSUME FullNodeInv, NEW batch \in Batches, NEW tees \in TeeCounts, NEW starved,
         VerifyLogs(batch, tees, starved)
  PROVE  FullNodeInv'
<1>1. cache' \in Caches /\ verdicts' \in Seq(FreshVerdicts(starved)) /\ headers' = headers
  BY VerifyLogsWork
<1>2. Caches' = Caches /\ SoundVerdicts' = SoundVerdicts
  BY <1>1 DEF Caches, SoundEntries, SoundVerdicts, Proved
<1>3. verdicts' \in Seq(SoundVerdicts)
  BY <1>1 DEF FreshVerdicts
<1> QED BY <1>1, <1>2, <1>3 DEF FullNodeInv

\* Every step, and no step at all, leaves the invariant.
LEMMA FullNodeStepOK == FullNodeInv /\ [Next]_vars => FullNodeInv'
<1> SUFFICES ASSUME FullNodeInv, [Next]_vars PROVE FullNodeInv'
  OBVIOUS
<1>1. ASSUME NEW c \in FullChains, NEW from \in 0..Word-1, NEW to \in 0..Word-1,
             SyncBlockHeaders(c, from, to)
      PROVE  FullNodeInv'
  BY <1>1, SyncOK
<1>2. ASSUME NEW batch \in Batches, NEW tees \in TeeCounts, NEW starved,
             VerifyLogs(batch, tees, starved)
      PROVE  FullNodeInv'
  BY <1>2, VerifyOK
<1>3. CASE UNCHANGED vars
  BY <1>3 DEF vars, FullNodeInv, Caches, SoundEntries, SoundVerdicts, Proved
<1> QED BY <1>1, <1>2, <1>3 DEF Next

\* The headers and the cache stay within their arrays and every entry and
\* answer is sound, after any syncs and verifications.
THEOREM FullNodeInvariant == Spec => []FullNodeInv
<1> QED BY FullNodeInitOK, FullNodeStepOK, PTL DEF Spec

\* No array is written past its end, although the check of a range wraps.
THEOREM FullNodeWithinArrays == Spec => []WithinArrays
<1>1. FullNodeInv => WithinArrays
  BY DEF FullNodeInv, WithinArrays, Caches
<1> QED BY <1>1, FullNodeInvariant, PTL

\* A positive answer that is written, also one from the cache, goes back to a proof that
\* leads to a synced block.
THEOREM FullNodePositiveIsProved == Spec => []PositiveIsProved
<1>1. FullNodeInv => PositiveIsProved
  BY DEF FullNodeInv, PositiveIsProved, SoundVerdicts, Proved
<1> QED BY <1>1, FullNodeInvariant, PTL

\* No earlier refusal stands against a log that can be proved now, unless
\* nothing of its tee's share could be answered.
THEOREM FullNodeProvableIsAccepted == Spec => ProvableIsAccepted
<1> DEFINE Accepted ==
      \A i \in DOMAIN verdicts' :
        LET log == verdicts'[i].log IN
        (verdicts' # verdicts /\ log.block \in ToSet(headers[log.chain])
           /\ log.proves = log.block)
          => \/ verdicts'[i].answer = "proved"
             \/ \A j \in DOMAIN verdicts' :
                   verdicts'[j].tee = verdicts'[i].tee => verdicts'[j].answer = "unwritten"
<1>1. FullNodeInv /\ [Next]_vars => [Accepted]_vars
  <2> SUFFICES ASSUME FullNodeInv, Next PROVE Accepted
    BY DEF vars
  <2>1. ASSUME NEW c \in FullChains, NEW from \in 0..Word-1, NEW to \in 0..Word-1,
               SyncBlockHeaders(c, from, to)
        PROVE  Accepted
    BY <2>1 DEF SyncBlockHeaders
  <2>2. ASSUME NEW batch \in Batches, NEW tees \in TeeCounts, NEW starved,
               VerifyLogs(batch, tees, starved)
        PROVE  Accepted
    <3>1. verdicts' \in Seq(FreshVerdicts(starved))
      BY <2>2, VerifyLogsWork
    <3> QED BY <3>1 DEF FreshVerdicts, VerifyLogExistence
  <2> QED BY <2>1, <2>2 DEF Next
<1> QED BY <1>1, FullNodeInvariant, PTL DEF Spec, ProvableIsAccepted
=============================================================================
