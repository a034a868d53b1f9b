------------------------------ MODULE Progress ------------------------------
(***************************************************************************)
(* raft/tracker.Progress: what a leader knows of one follower, and the     *)
(* state machine (probe, replicate, snapshot) that paces replication.      *)
(* Every operator takes a Progress and returns the one the method leaves.  *)
(* Inflights, a ring buffer in the code, is the set of the last indexes of *)
(* the MsgApps in flight: those indexes are added in increasing order.     *)
(***************************************************************************)
EXTENDS Integers, FiniteSets

CONSTANT MaxInflight        \* Config.MaxInflightMsgs

ASSUME MaxInflightAssumption == MaxInflight \in Nat \ {0}

ProgressState == {"StateProbe", "StateReplicate", "StateSnapshot"}

InflightSets == {S \in SUBSET Nat : IsFiniteSet(S)}

ProgressType ==
  [Match: Nat, Next: Nat, State: ProgressState, PendingSnapshot: Nat,
   RecentActive: BOOLEAN, ProbeSent: BOOLEAN,
   Inflights: InflightSets]

Maximum(a, b) == IF a > b THEN a ELSE b
Minimum(a, b) == IF a < b THEN a ELSE b

\* The Progress raft.reset gives a peer.
NewProgress(match, next) ==
  [Match |-> match, Next |-> next, State |-> "StateProbe",
   PendingSnapshot |-> 0, RecentActive |-> FALSE, ProbeSent |-> FALSE,
   Inflights |-> {}]

Full(pr) == Cardinality(pr.Inflights) >= MaxInflight

FreeLE(pr, to) == [pr EXCEPT !.Inflights = {k \in pr.Inflights : k > to}]

FreeFirstOne(pr) ==
  [pr EXCEPT !.Inflights =
     {k \in pr.Inflights : \E j \in pr.Inflights : j < k}]

ResetState(pr, state) ==
  [pr EXCEPT !.ProbeSent = FALSE, !.PendingSnapshot = 0, !.State = state,
             !.Inflights = {}]

BecomeProbe(pr) ==
  [ResetState(pr, "StateProbe") EXCEPT !.Next =
     IF pr.State = "StateSnapshot"
     THEN Maximum(pr.Match + 1, pr.PendingSnapshot + 1)
     ELSE pr.Match + 1]

BecomeReplicate(pr) ==
  [ResetState(pr, "StateReplicate") EXCEPT !.Next = pr.Match + 1]

BecomeSnapshot(pr, snapshoti) ==
  [ResetState(pr, "StateSnapshot") EXCEPT !.PendingSnapshot = snapshoti]

\* MaybeUpdate reports an update when n exceeds the old Match.
MaybeUpdate(pr, n) ==
  [pr EXCEPT !.Match = Maximum(pr.Match, n),
             !.ProbeSent = pr.ProbeSent /\ pr.Match >= n,
             !.Next = Maximum(pr.Next, n + 1)]

\* A rejection is stale when it is of an index already matched or, while
\* probing, not of the index last probed.
StaleRejection(pr, rejected) ==
  IF pr.State = "StateReplicate" THEN rejected <= pr.Match
                                 ELSE pr.Next - 1 # rejected

\* MaybeDecrTo, when it returns true.
DecrTo(pr, rejected, last) ==
  IF pr.State = "StateReplicate"
  THEN [pr EXCEPT !.Next = pr.Match + 1]
  ELSE [pr EXCEPT !.Next = Maximum(Minimum(rejected, last + 1), 1),
                  !.ProbeSent = FALSE]

IsPaused(pr) == \/ pr.State = "StateProbe" /\ pr.ProbeSent
                \/ pr.State = "StateReplicate" /\ Full(pr)
                \/ pr.State = "StateSnapshot"

\* What sending entries that end at last does to the Progress: optimistic
\* when replicating, one message at a time when probing.
SentEntries(pr, last) ==
  IF pr.State = "StateReplicate"
  THEN [pr EXCEPT !.Next = last + 1, !.Inflights = @ \cup {last}]
  ELSE [pr EXCEPT !.ProbeSent = TRUE]
=============================================================================
