---------------------------- MODULE QuorumSystem ----------------------------
(***************************************************************************)
(* The pure part of package raft/quorum: the majority and the joint vote   *)
(* result, and the committed index of a configuration.                     *)
(*                                                                         *)
(* A MajorityConfig is a set of ids.  A vote map is the pair of the sets   *)
(* yes and no of the ids that voted; an id in neither has not voted.  An   *)
(* AckedIndexer is a function from the ids it knows to the index each one  *)
(* acknowledged.                                                           *)
(***************************************************************************)
EXTENDS Integers, FiniteSets

CONSTANT MaxUint64      \* math.MaxUint64, the index "committed" by no voter

ASSUME MaxUint64Assumption == MaxUint64 \in Nat

\* Mutant: half of the members is taken for a majority.
QuorumSizeHalf(c) == Cardinality(c) \div 2

\* len(c)/2 + 1 : the smallest number of members that is a majority of c.
QuorumSize(c) == Cardinality(c) \div 2 + 1

\* MajorityConfig.VoteResult
MajorityVoteResult(c, yes, no) ==
  LET granted == Cardinality(c \cap yes)
      missing == Cardinality(c \ (yes \cup no))
  IN IF c = {} \/ granted >= QuorumSize(c) THEN "VoteWon"
     ELSE IF granted + missing >= QuorumSize(c) THEN "VotePending"
     ELSE "VoteLost"

\* JointConfig.VoteResult
JointVoteResult(c0, c1, yes, no) ==
  LET r1 == MajorityVoteResult(c0, yes, no)
      r2 == MajorityVoteResult(c1, yes, no)
  IN IF r1 = r2 THEN r1
     ELSE IF "VoteLost" \in {r1, r2} THEN "VoteLost"
     ELSE "VotePending"

\* The slot of id in the array CommittedIndex sorts: an id the indexer does
\* not know leaves its slot at zero.
Acked(acked, id) == IF id \in DOMAIN acked THEN acked[id] ELSE 0

\* srt[pos] of the array sorted in increasing order: the value that has at
\* most pos slots below it and more than pos slots at or below it.
OrderStatistic(c, acked, pos) ==
  CHOOSE x \in {Acked(acked, id) : id \in c} :
     /\ Cardinality({id \in c : Acked(acked, id) < x}) <= pos
     /\ Cardinality({id \in c : Acked(acked, id) <= x}) > pos

\* Mutant: the array is indexed from its other end.
MajorityCommittedIndexHigh(c, acked) ==
  IF c = {} THEN MaxUint64
  ELSE OrderStatistic(c, acked, QuorumSize(c) - 1)

\* MajorityConfig.CommittedIndex
MajorityCommittedIndex(c, acked) ==
  IF c = {} THEN MaxUint64
  ELSE OrderStatistic(c, acked, Cardinality(c) - QuorumSize(c))

\* JointConfig.CommittedIndex
JointCommittedIndex(c0, c1, acked) ==
  LET idx0 == MajorityCommittedIndex(c0, acked)
      idx1 == MajorityCommittedIndex(c1, acked)
  IN IF idx0 < idx1 THEN idx0 ELSE idx1

-----------------------------------------------------------------------------
(* The definitions the code is checked against.                            *)

\* A set of ids is a quorum of a joint configuration when it holds a majority
\* of each half; an empty half asks for nothing.
IsMajority(c, Q) == 2 * Cardinality(c \cap Q) > Cardinality(c)
IsJointQuorum(c0, c1, Q) == /\ c0 = {} \/ IsMajority(c0, Q)
                            /\ c1 = {} \/ IsMajority(c1, Q)
=============================================================================
