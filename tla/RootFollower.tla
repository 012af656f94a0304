---------------------------- MODULE RootFollower ----------------------------
(***************************************************************************)
(* What the contracts promise together about state roots: the L1 publishes *)
(* roots for increasing epochs, and every follower moves forward only, at  *)
(* its own pace, possibly skipping some.  A follower does not see what was *)
(* published: it may be led astray, to a pair that was not, and is back    *)
(* with the next published pair that lies ahead of it.                     *)
(***************************************************************************)
EXTENDS Integers

CONSTANTS Followers, EpochIds, RootValues

VARIABLES
  published,   \* the set of <<epoch, root>> pairs published so far
  current,     \* current[f]: the epoch a follower is at, 0 before the first
  held,        \* held[f]: at most one pair, the one the follower is at
  astray       \* the followers whose pair was not published when they took it

followerVars == <<published, current, held, astray>>

FollowerInit ==
  /\ published = {}
  /\ current = [f \in Followers |-> 0]
  /\ held = [f \in Followers |-> {}]
  /\ astray = {}

Publish(e, root) ==
  /\ \A p \in published : p[1] < e
  /\ published' = published \cup {<<e, root>>}
  /\ UNCHANGED <<current, held, astray>>

MoveTo(f, p) ==
  /\ p[1] > current[f]
  /\ current' = [current EXCEPT ![f] = p[1]]
  /\ held' = [held EXCEPT ![f] = {p}]
  /\ UNCHANGED published

Follow(f) == (\E p \in published : MoveTo(f, p)) /\ astray' = astray \ {f}

Stray(f) ==
  /\ \E p \in (EpochIds \X RootValues) \ published : MoveTo(f, p)
  /\ astray' = astray \cup {f}

FollowerNext ==
  \/ \E e \in EpochIds, root \in RootValues : Publish(e, root)
  \/ \E f \in Followers : Follow(f) \/ Stray(f)

FollowerSpec == FollowerInit /\ [][FollowerNext]_followerVars
=============================================================================
