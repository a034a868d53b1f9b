---------------------------- MODULE QuorumProofs ----------------------------
(***************************************************************************)
(* Facts about the counting of package raft/quorum, for every finite       *)
(* configuration.                                                          *)
(***************************************************************************)
EXTENDS QuorumSystem, FiniteSetTheorems, TLAPS

VoteResults == {"VoteWon", "VoteLost", "VotePending"}

\* The three counts MajorityVoteResult compares are natural numbers, and a
\* member is granted, rejected or missing.
LEMMA Counts ==
  ASSUME NEW c, IsFiniteSet(c), NEW yes, NEW no
  PROVE  /\ Cardinality(c) \in Nat
         /\ Cardinality(c \cap yes) \in Nat
         /\ Cardinality(c \ (yes \cup no)) \in Nat
         /\ QuorumSize(c) \in Nat
         /\ 2 * QuorumSize(c) > Cardinality(c)
         /\ 2 * QuorumSize(c) <= Cardinality(c) + 2
<1>1. Cardinality(c) \in Nat
  BY FS_CardinalityType
<1>2. IsFiniteSet(c \cap yes) /\ IsFiniteSet(c \ (yes \cup no))
  BY FS_Intersection, FS_Difference
<1>3. Cardinality(c \cap yes) \in Nat /\ Cardinality(c \ (yes \cup no)) \in Nat
  BY <1>2, FS_CardinalityType
<1> QED BY <1>1, <1>3 DEF QuorumSize

\* The counting of majority.go:193-230 is the definition of a majority.
THEOREM MajorityWon ==
  ASSUME NEW c, IsFiniteSet(c), NEW yes, NEW no
  PROVE  MajorityVoteResult(c, yes, no) = "VoteWon"
           <=> (c = {} \/ IsMajority(c, yes))
<1>1. /\ Cardinality(c) \in Nat /\ Cardinality(c \cap yes) \in Nat
      /\ QuorumSize(c) \in Nat
      /\ 2 * QuorumSize(c) > Cardinality(c)
      /\ 2 * QuorumSize(c) <= Cardinality(c) + 2
  BY Counts
<1>2. Cardinality(c \cap yes) >= QuorumSize(c)
        <=> 2 * Cardinality(c \cap yes) > Cardinality(c)
  BY <1>1
<1> QED BY <1>2 DEF MajorityVoteResult, IsMajority

\* A joint configuration is won exactly when each half is (joint.go:62-76).
THEOREM JointWon ==
  ASSUME NEW c0, IsFiniteSet(c0), NEW c1, IsFiniteSet(c1), NEW yes, NEW no
  PROVE  JointVoteResult(c0, c1, yes, no) = "VoteWon"
           <=> IsJointQuorum(c0, c1, yes)
<1>1. JointVoteResult(c0, c1, yes, no) = "VoteWon" <=>
        /\ MajorityVoteResult(c0, yes, no) = "VoteWon"
        /\ MajorityVoteResult(c1, yes, no) = "VoteWon"
  BY DEF JointVoteResult
<1> QED BY <1>1, MajorityWon DEF IsJointQuorum

\* Two quorums of one joint configuration share a member of it: no two
\* candidates win the same term without a common voter.
THEOREM QuorumsIntersect ==
  ASSUME NEW c0, IsFiniteSet(c0), c0 # {}, NEW c1,
         NEW Q, NEW R, IsJointQuorum(c0, c1, Q), IsJointQuorum(c0, c1, R)
  PROVE  Q \cap R \cap c0 # {}
<1> DEFINE S == c0 \cap Q
           T == c0 \cap R
<1>1. IsMajority(c0, Q) /\ IsMajority(c0, R)
  BY DEF IsJointQuorum
<1>2. /\ Cardinality(c0) \in Nat
      /\ Cardinality(S) \in Nat /\ Cardinality(T) \in Nat
  BY Counts
<1>3. Cardinality(S) + Cardinality(T) > Cardinality(c0)
  BY <1>1, <1>2 DEF IsMajority
<1>4. S \cap T # {}
  BY <1>3, FS_MajoritiesIntersect, S \subseteq c0, T \subseteq c0
<1> QED BY <1>4

\* A larger set of votes is a quorum when a smaller one is.
THEOREM QuorumMonotone ==
  ASSUME NEW c0, IsFiniteSet(c0), NEW c1, IsFiniteSet(c1),
         NEW Q, NEW R, Q \subseteq R, IsJointQuorum(c0, c1, Q)
  PROVE  IsJointQuorum(c0, c1, R)
<1>1. ASSUME NEW c, IsFiniteSet(c), IsMajority(c, Q)
      PROVE  IsMajority(c, R)
  <2>1. c \cap Q \in SUBSET (c \cap R) /\ IsFiniteSet(c \cap R)
    BY <1>1, FS_Intersection
  <2>2. Cardinality(c \cap Q) <= Cardinality(c \cap R)
    BY <2>1, FS_Subset
  <2>3. /\ Cardinality(c) \in Nat
        /\ Cardinality(c \cap Q) \in Nat /\ Cardinality(c \cap R) \in Nat
    BY <1>1, Counts
  <2> QED BY <1>1, <2>2, <2>3 DEF IsMajority
<1> QED BY <1>1 DEF IsJointQuorum
=============================================================================
