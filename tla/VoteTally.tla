------------------------------ MODULE VoteTally ------------------------------
(***************************************************************************)
(* raft/tracker's use of raft/quorum: votes and acknowledgements of a joint *)
(* configuration that arrive one at a time, in any order and repeatedly.   *)
(* RecordVote keeps the first answer of an id (tracker.go:278-284) and     *)
(* Progress.MaybeUpdate never lowers Match (progress.go:162-176).          *)
(***************************************************************************)
EXTENDS QuorumSystem

CONSTANTS Id,           \* ids that may be voters
          MaxIndex      \* bound: the largest index acknowledged

ASSUME TallyAssumption == IsFiniteSet(Id) /\ MaxIndex \in Nat

VARIABLES incoming, outgoing,   \* tracker.Config.Voters[0] and [1]
          granted, rejected,    \* ProgressTracker.Votes, by answer
          match                 \* Progress.Match of every known id

vars == <<incoming, outgoing, granted, rejected, match>>

Voters == incoming \cup outgoing

\* JointConfig.IDs and ConfChange keep a progress for every voter.
Init == /\ incoming \in SUBSET Id \ {{}}
        /\ outgoing \in SUBSET Id
        /\ granted = {}
        /\ rejected = {}
        /\ match = [id \in Voters |-> 0]

\* Mutant: a second answer of an id counts too.
RecordVoteTwice(id, v) ==
  /\ granted' = IF v THEN granted \cup {id} ELSE granted
  /\ rejected' = IF v THEN rejected ELSE rejected \cup {id}
  /\ UNCHANGED <<incoming, outgoing, match>>

\* ProgressTracker.RecordVote: only the first answer of an id counts.
RecordVote(id, v) ==
  /\ id \notin granted \cup rejected
  /\ granted' = IF v THEN granted \cup {id} ELSE granted
  /\ rejected' = IF v THEN rejected ELSE rejected \cup {id}
  /\ UNCHANGED <<incoming, outgoing, match>>

\* Progress.MaybeUpdate: only a larger index counts.
Ack(id, n) ==
  /\ match[id] < n
  /\ match' = [match EXCEPT ![id] = n]
  /\ UNCHANGED <<incoming, outgoing, granted, rejected>>

Next == \/ \E id \in Id, v \in BOOLEAN : RecordVote(id, v)
        \/ \E id \in Voters, n \in 1..MaxIndex : Ack(id, n)

Spec == Init /\ [][Next]_vars

TallyVotes == JointVoteResult(incoming, outgoing, granted, rejected)
Committed  == JointCommittedIndex(incoming, outgoing, match)

-----------------------------------------------------------------------------
TypeOK == /\ incoming \in SUBSET Id /\ outgoing \in SUBSET Id
          /\ granted \in SUBSET Id /\ rejected \in SUBSET Id
          /\ granted \cap rejected = {}
          /\ match \in [Voters -> 0..MaxIndex]

\* The counting of majority.go:193-230 and joint.go:62-76 agrees with the
\* definition of a joint quorum: an election is won exactly when the ids that
\* granted it hold a majority of each half, and it is declared lost exactly
\* when no answer still missing could win it.
VoteResultIsExact ==
  /\ TallyVotes = "VoteWon" <=> IsJointQuorum(incoming, outgoing, granted)
  /\ TallyVotes = "VoteLost" <=>
       ~IsJointQuorum(incoming, outgoing, Voters \ rejected)

\* The position picked in the sorted array (majority.go:182) is the largest
\* index that a quorum of each half has acknowledged.
CommittedIsExact ==
  \A n \in 0..MaxIndex :
    n <= Committed <=>
      IsJointQuorum(incoming, outgoing, {id \in Voters : match[id] >= n})

\* Once an election is decided, answers that arrive late or twice do not
\* change the outcome a candidate acted on (tracker.go:278-284).
OutcomeIsFinal ==
  [][TallyVotes # "VotePending" => TallyVotes' = TallyVotes]_vars
=============================================================================
