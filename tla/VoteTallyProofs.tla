--------------------------- MODULE VoteTallyProofs ---------------------------
(***************************************************************************)
(* The properties of VoteTally for every finite set of ids and every joint *)
(* configuration of them.                                                  *)
(***************************************************************************)
EXTENDS VoteTally, QuorumProofs

-----------------------------------------------------------------------------
(* Type correctness.                                                       *)

\* Votes and acknowledgements of any order keep their types, and no id is
\* counted both ways (tracker.go:278-284).
THEOREM TypeCorrect == Spec => []TypeOK
<1> USE TallyAssumption
<1>1. Init => TypeOK
  BY DEF Init, TypeOK, Voters
<1>2. TypeOK /\ [Next]_vars => TypeOK'
  <2> SUFFICES ASSUME TypeOK, [Next]_vars PROVE TypeOK'
    OBVIOUS
  <2>1. ASSUME NEW id \in Id, NEW v \in BOOLEAN, RecordVote(id, v)
        PROVE  TypeOK'
    BY <2>1 DEF TypeOK, RecordVote, Voters
  <2>2. ASSUME NEW id \in Voters, NEW n \in 1..MaxIndex, Ack(id, n)
        PROVE  TypeOK'
    BY <2>2 DEF TypeOK, Ack, Voters
  <2>3. CASE UNCHANGED vars
    BY <2>3 DEF TypeOK, vars, Voters
  <2> QED BY <2>1, <2>2, <2>3 DEF Next
<1> QED BY <1>1, <1>2, PTL DEF Spec

-----------------------------------------------------------------------------
(* The outcome of an election.                                             *)

\* The ids that did not reject are those that granted and those missing.
LEMMA NotRejected ==
  ASSUME NEW c, IsFiniteSet(c), NEW yes, NEW no, yes \cap no = {}
  PROVE  Cardinality(c \ no)
           = Cardinality(c \cap yes) + Cardinality(c \ (yes \cup no))
<1> DEFINE g == c \cap yes
           m == c \ (yes \cup no)
<1>1. IsFiniteSet(g) /\ IsFiniteSet(m)
  BY FS_Intersection, FS_Difference
<1>2. g \cup m = c \ no /\ g \cap m = {}
  OBVIOUS
<1>3. Cardinality(g \cup m) = Cardinality(g) + Cardinality(m) - Cardinality({})
  BY <1>1, <1>2, FS_Union
<1>4. Cardinality({}) = 0 /\ Cardinality(g) \in Nat /\ Cardinality(m) \in Nat
  BY <1>1, FS_EmptySet, FS_CardinalityType
<1>5. Cardinality(g \cup m) = Cardinality(c \ no)
  <2> HIDE DEF g, m
  <2> QED BY <1>2
<1>6. Cardinality(c \ no) = Cardinality(g) + Cardinality(m)
  <2> HIDE DEF g, m
  <2> QED BY <1>3, <1>4, <1>5
<1> QED BY <1>6

\* A majority is lost exactly when what is not rejected is none.
LEMMA MajorityLost ==
  ASSUME NEW c, IsFiniteSet(c), NEW yes, NEW no, yes \cap no = {},
         NEW Q, c \cap Q = c \ no
  PROVE  MajorityVoteResult(c, yes, no) = "VoteLost"
           <=> (c # {} /\ ~IsMajority(c, Q))
<1> DEFINE yeses == Cardinality(c \cap yes)
           missing == Cardinality(c \ (yes \cup no))
<1>1. /\ Cardinality(c) \in Nat /\ yeses \in Nat /\ missing \in Nat
      /\ QuorumSize(c) \in Nat
      /\ 2 * QuorumSize(c) > Cardinality(c)
      /\ 2 * QuorumSize(c) <= Cardinality(c) + 2
  BY Counts
<1>2. Cardinality(c \cap Q) = yeses + missing
  BY NotRejected
<1>3. MajorityVoteResult(c, yes, no) = "VoteLost" <=>
        c # {} /\ ~(yeses >= QuorumSize(c))
               /\ ~(yeses + missing >= QuorumSize(c))
  BY DEF MajorityVoteResult
<1>4. yeses + missing >= QuorumSize(c)
        <=> 2 * (yeses + missing) > Cardinality(c)
  <2> HIDE DEF yeses, missing
  <2> QED BY <1>1
<1>5. yeses >= QuorumSize(c) => yeses + missing >= QuorumSize(c)
  <2> HIDE DEF yeses, missing
  <2> QED BY <1>1
<1> QED BY <1>2, <1>3, <1>4, <1>5 DEF IsMajority

\* The finite sets every state is about.
LEMMA FiniteVoters ==
  ASSUME TypeOK
  PROVE  IsFiniteSet(incoming) /\ IsFiniteSet(outgoing)
  BY TallyAssumption, FS_Subset DEF TypeOK

\* An election is won exactly when a quorum of each half granted it, and lost
\* exactly when the answers still missing cannot win it (majority.go:193-230,
\* joint.go:62-76), whatever the order the answers came in.
THEOREM OutcomeIsExact == Spec => []VoteResultIsExact
<1>1. ASSUME TypeOK PROVE VoteResultIsExact
  <2>1. IsFiniteSet(incoming) /\ IsFiniteSet(outgoing)
    BY <1>1, FiniteVoters
  <2>2. TallyVotes = "VoteWon" <=> IsJointQuorum(incoming, outgoing, granted)
    BY <2>1, JointWon DEF TallyVotes
  <2> DEFINE r1 == MajorityVoteResult(incoming, granted, rejected)
             r2 == MajorityVoteResult(outgoing, granted, rejected)
             Q  == Voters \ rejected
  <2>3. TallyVotes = "VoteLost" <=> r1 = "VoteLost" \/ r2 = "VoteLost"
    BY DEF TallyVotes, JointVoteResult
  <2>4. granted \cap rejected = {}
    BY <1>1 DEF TypeOK
  <2>5. r1 = "VoteLost" <=> (incoming # {} /\ ~IsMajority(incoming, Q))
    <3>1. incoming \cap Q = incoming \ rejected
      BY DEF Voters
    <3> QED BY <2>1, <2>4, <3>1, MajorityLost
  <2>6. r2 = "VoteLost" <=> (outgoing # {} /\ ~IsMajority(outgoing, Q))
    <3>1. outgoing \cap Q = outgoing \ rejected
      BY DEF Voters
    <3> QED BY <2>1, <2>4, <3>1, MajorityLost
  <2>7. TallyVotes = "VoteLost" <=> ~IsJointQuorum(incoming, outgoing, Q)
    BY <2>3, <2>5, <2>6 DEF IsJointQuorum
  <2> QED BY <2>2, <2>7 DEF VoteResultIsExact
<1> QED BY <1>1, TypeCorrect, PTL

\* Late and repeated answers do not change the outcome of a decided election
\* (tracker.go:278-284): what a candidate acted on stays true.
THEOREM DecidedForever == Spec => OutcomeIsFinal
<1> DEFINE Final == TallyVotes # "VotePending" => TallyVotes' = TallyVotes
<1>1. ASSUME TypeOK, TypeOK', VoteResultIsExact, VoteResultIsExact', [Next]_vars
      PROVE  Final
  <2>1. TallyVotes \in VoteResults /\ TallyVotes' \in VoteResults
    BY DEF TallyVotes, JointVoteResult, MajorityVoteResult, VoteResults
  <2>2. /\ IsFiniteSet(incoming) /\ IsFiniteSet(outgoing)
        /\ IsFiniteSet(incoming') /\ IsFiniteSet(outgoing')
    BY <1>1, FiniteVoters, TallyAssumption, FS_Subset DEF TypeOK
  <2>3. /\ UNCHANGED <<incoming, outgoing, Voters>>
        /\ granted \subseteq granted' /\ rejected \subseteq rejected'
    BY <1>1 DEF Next, RecordVote, Ack, vars, Voters
  <2>4. CASE TallyVotes = "VoteWon"
    <3>1. IsJointQuorum(incoming, outgoing, granted)
      BY <1>1, <2>4 DEF VoteResultIsExact
    <3>2. IsJointQuorum(incoming, outgoing, granted')
      BY <2>2, <2>3, <3>1, QuorumMonotone
    <3> QED BY <1>1, <2>3, <2>4, <3>2 DEF VoteResultIsExact
  <2>5. CASE TallyVotes = "VoteLost"
    <3>1. ~IsJointQuorum(incoming, outgoing, Voters \ rejected)
      BY <1>1, <2>5 DEF VoteResultIsExact
    <3>2. Voters \ rejected' \subseteq Voters \ rejected
      BY <2>3
    <3>3. ~IsJointQuorum(incoming, outgoing, Voters \ rejected')
      BY <2>2, <3>1, <3>2, QuorumMonotone
    <3> QED BY <1>1, <2>3, <2>5, <3>3 DEF VoteResultIsExact
  <2> QED BY <2>1, <2>4, <2>5 DEF VoteResults
<1>2. TypeOK /\ TypeOK' /\ VoteResultIsExact /\ VoteResultIsExact' /\ [Next]_vars
        => [Final]_vars
  BY <1>1
<1> QED BY <1>2, TypeCorrect, OutcomeIsExact, PTL DEF Spec, OutcomeIsFinal
=============================================================================
