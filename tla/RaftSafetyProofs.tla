-------------------------- MODULE RaftSafetyProofs --------------------------
(***************************************************************************)
(* Election safety of Raft: a term has one leader, and a member one vote   *)
(* in a term, whatever is lost, repeated or forgotten in a crash.          *)
(*                                                                         *)
(* The invariant relates what a member said in the network and in its      *)
(* outbox to its vote in memory, in the Ready it saves and on its disk.    *)
(***************************************************************************)
EXTENDS RaftProofs

\* The vote v of term t stands by what the ballot m says.
Holds(t, v, m) == m.term < t \/ (m.term = t /\ v = Choice(m))

\* A request goes from one voting member to another, a grant answers one and
\* a leader was elected.
Proper(m, sent) ==
  /\ m \in Message
  /\ m.type = "MsgVote" => /\ m.from # m.to
                           /\ m.from \in VotingMembers /\ m.to \in VotingMembers
  /\ IsGrant(m) => \E v \in sent : /\ v.type = "MsgVote" /\ v.from = m.to
                                   /\ v.term = m.term
  /\ m.type \in LeaderTypes => Won(sent, m.from, m.term)

\* The ballots of member i among the messages in S.
BallotsOf(i, S) == {m \in S : IsBallot(m) /\ m.from = i}

\* Member i, in the state r, with disk d and Ready p, after the messages in
\* sent: what left it is on its disk, what it says it stands by, and it never
\* contradicts itself.
VoteOk(i, r, d, p, sent) ==
  /\ \A m \in r.msgs : m.from = i
  /\ \A m \in BallotsOf(i, sent) : Holds(d.Term, d.Vote, m)
  /\ \A m \in BallotsOf(i, r.msgs) : Holds(r.Term, r.Vote, m)
  /\ \A a, b \in BallotsOf(i, sent \cup r.msgs) :
       a.term = b.term => Choice(a) = Choice(b)
  /\ Below(d.Term, d.Vote, r.Term, r.Vote)
  /\ p.pending => /\ Below(d.Term, d.Vote, p.Term, p.Vote)
                  /\ Below(p.Term, p.Vote, r.Term, r.Vote)
  /\ Backed(r, sent)
  /\ \A m \in sent \cup r.msgs : Proper(m, sent)

VoteInv == \A i \in Server : VoteOk(i, node[i], disk[i], rd[i], net)
ElectionInv == TypeInv /\ VoteInv

\* The network gains messages, and loses none but proposals.
Grows(S, T) == \A m \in S : m \in T \/ m.type = "MsgProp"

-----------------------------------------------------------------------------
(* Votes only move up, and what was said before still holds.               *)

\* Two moves of term and vote make one.
LEMMA BelowTransitive ==
  ASSUME NEW t \in Nat, NEW v, NEW u \in Nat, NEW w, NEW x \in Nat, NEW y,
         Below(t, v, u, w), Below(u, w, x, y)
  PROVE  Below(t, v, x, y)
BY DEF Below

\* What a member said still holds after such a move.
LEMMA HoldsStays ==
  ASSUME NEW t \in Nat, NEW v, NEW u \in Nat, NEW w, Below(t, v, u, w),
         NEW m \in Message, Holds(t, v, m)
  PROVE  Holds(u, w, m)
<1>1. m.term \in Nat /\ Choice(m) \in Server /\ None \notin Server
  BY MessageFacts, ConfAssumption DEF Choice
<1> QED BY <1>1 DEF Below, Holds

\* Grants are not taken back.
LEMMA YesGrows ==
  ASSUME NEW S, NEW T, Grows(S, T), NEW i, NEW t
  PROVE  Yes(S, i, t) \subseteq Yes(T, i, t)
<1>1. ASSUME NEW m \in S, IsGrant(m) PROVE m \in T
  BY <1>1 DEF Grows, IsGrant
<1> QED BY <1>1 DEF Yes

\* An election that was won stays won.
LEMMA WonGrows ==
  ASSUME NEW S, NEW T, Grows(S, T), NEW i, NEW t, Won(S, i, t)
  PROVE  Won(T, i, t)
<1> DEFINE Q == {i} \cup Yes(S, i, t)
           R == {i} \cup Yes(T, i, t)
<1>1. Q \subseteq R
  BY YesGrows
<1>2. i \in VotingMembers /\ IsJointQuorum(Voters, Outgoing, Q)
  BY DEF Won
<1> HIDE DEF Q, R
<1>3. IsJointQuorum(Voters, Outgoing, R)
  BY <1>1, <1>2, QuorumMonotone, VotingMemberFacts
<1> QED BY <1>2, <1>3 DEF Won, R

\* What backs a candidate or a leader stays there.
LEMMA BackedGrows ==
  ASSUME NEW S, NEW T, Grows(S, T), NEW r, Backed(r, S)
  PROVE  Backed(r, T)
<1>1. Yes(S, r.id, r.Term) \subseteq Yes(T, r.id, r.Term)
  BY YesGrows
<1>2. Won(S, r.id, r.Term) => Won(T, r.id, r.Term)
  BY WonGrows
<1> QED BY <1>1, <1>2 DEF Backed

\* So does what makes a message proper.
LEMMA ProperGrows ==
  ASSUME NEW S, NEW T, Grows(S, T), NEW m, Proper(m, S)
  PROVE  Proper(m, T)
<1>1. Won(S, m.from, m.term) => Won(T, m.from, m.term)
  BY WonGrows
<1>2. ASSUME NEW v \in S, v.type = "MsgVote" PROVE v \in T
  BY <1>2 DEF Grows
<1> QED BY <1>1, <1>2 DEF Proper

\* A quorum of one voting member has no other.
LEMMA SoloQuorum ==
  ASSUME NEW i, IsJointQuorum(Voters, Outgoing, {i})
  PROVE  VotingMembers \subseteq {i}
<1>1. ASSUME NEW c, IsFiniteSet(c), c = {} \/ IsMajority(c, {i})
      PROVE  c \subseteq {i}
  <2>1. CASE c = {}
    BY <2>1
  <2>2. CASE IsMajority(c, {i})
    <3>1. /\ Cardinality(c) \in Nat /\ Cardinality(c \cap {i}) \in Nat
      BY <1>1, Counts
    <3>2. Cardinality({i}) = 1 /\ IsFiniteSet({i})
      BY FS_Singleton
    <3>3. Cardinality(c \cap {i}) <= 1
      <4>1. c \cap {i} \in SUBSET {i}
        OBVIOUS
      <4> QED BY <3>2, <4>1, FS_Subset
    <3>4. Cardinality(c) <= 1
      BY <2>2, <3>1, <3>3 DEF IsMajority
    <3>5. c \cap {i} # {}
      <4>1. CASE c \cap {i} = {}
        BY <2>2, <3>1, <4>1, FS_EmptySet DEF IsMajority
      <4> QED BY <4>1
    <3>6. ASSUME NEW j \in c, j # i PROVE FALSE
      <4>1. {i, j} \in SUBSET c
        BY <3>5
      <4>2. IsFiniteSet({i, j}) /\ Cardinality({i, j}) <= Cardinality(c)
        BY <1>1, <4>1, FS_Subset
      <4>3. Cardinality({i} \cup {j}) = Cardinality({i}) + 1
        BY <3>2, <3>6, FS_AddElement
      <4>4. {i} \cup {j} = {i, j}
        OBVIOUS
      <4> QED BY <3>1, <3>2, <3>4, <4>2, <4>3, <4>4
    <3> QED BY <3>6
  <2> QED BY <1>1, <2>1, <2>2
<1> QED BY <1>1, VotingMemberFacts DEF IsJointQuorum, VotingMembers

-----------------------------------------------------------------------------
(* What keeps a member's votes consistent.                                 *)

\* A member that leaves nothing it said out of what it stands by.
LEMMA VoteAgain ==
  ASSUME NEW i, NEW r, NEW d, NEW p, NEW S, VoteOk(i, r, d, p, S),
         NEW q, NEW e, NEW u, q.msgs \subseteq r.msgs, Backed(q, S),
         \A m \in BallotsOf(i, q.msgs) : Holds(q.Term, q.Vote, m),
         \A m \in BallotsOf(i, S) : Holds(e.Term, e.Vote, m),
         Below(e.Term, e.Vote, q.Term, q.Vote),
         u.pending => /\ Below(e.Term, e.Vote, u.Term, u.Vote)
                      /\ Below(u.Term, u.Vote, q.Term, q.Vote)
  PROVE  VoteOk(i, q, e, u, S)
<1>1. BallotsOf(i, S \cup q.msgs) \subseteq BallotsOf(i, S \cup r.msgs)
  BY DEF BallotsOf
<1> QED BY <1>1 DEF VoteOk

\* What others say, and the loss of a proposal, change nothing of it.
LEMMA VoteAmongOthers ==
  ASSUME NEW i, NEW r, NEW d, NEW p, NEW S, VoteOk(i, r, d, p, S),
         NEW T, Grows(S, T), \A m \in T \ S : m.from # i /\ Proper(m, T)
  PROVE  VoteOk(i, r, d, p, T)
<1>1. /\ BallotsOf(i, T) \subseteq BallotsOf(i, S)
      /\ BallotsOf(i, T \cup r.msgs) \subseteq BallotsOf(i, S \cup r.msgs)
  BY DEF BallotsOf
<1>2. Backed(r, T)
  BY BackedGrows DEF VoteOk
<1>3. ASSUME NEW m \in T \cup r.msgs PROVE Proper(m, T)
  <2>1. CASE m \in S \cup r.msgs
    BY <2>1, ProperGrows DEF VoteOk
  <2>2. CASE m \in T \ S
    BY <2>2
  <2> QED BY <2>1, <2>2
<1> QED BY <1>1, <1>2, <1>3 DEF VoteOk

\* A lawful step: whatever it says anew is of the term it is in, and the vote
\* it then has.
LEMMA VoteLawful ==
  ASSUME NEW n \in Nat, NEW i \in Server, NEW r, NodeOk(i, r, n),
         NEW d \in DiskType, NEW p \in ReadyType,
         NEW S \in SUBSET Message, VoteOk(i, r, d, p, S), NEW q, Lawful(r, q, n, S)
  PROVE  VoteOk(i, q, d, p, S)
<1>1. /\ r.Term \in Nat /\ q.Term \in Nat /\ d.Term \in Nat /\ p.Term \in Nat
      /\ r.id = i /\ q.id = i /\ r.msgs \in SUBSET Message
      /\ q.msgs \in SUBSET Message
  BY NodeFacts DEF NodeOk, Sound, Lawful, DiskType, ReadyType
<1>2. Below(r.Term, r.Vote, q.Term, q.Vote)
  BY DEF Lawful
<1>3. ASSUME NEW m \in q.msgs PROVE m \in r.msgs \/ Fair(q, m, S)
  BY DEF Lawful
<1>4. \A m \in q.msgs : m.from = i
  BY <1>1, <1>3 DEF VoteOk, Fair
<1>5. ASSUME NEW m \in BallotsOf(i, S \cup r.msgs)
      PROVE  Holds(q.Term, q.Vote, m)
  <2>1. m \in Message /\ IsBallot(m)
    BY <1>1 DEF BallotsOf
  <2>2. Holds(r.Term, r.Vote, m)
    <3>1. CASE m \in S
      <4>1. Holds(d.Term, d.Vote, m) /\ Below(d.Term, d.Vote, r.Term, r.Vote)
        BY <3>1 DEF VoteOk, BallotsOf
      <4> QED BY <1>1, <2>1, <4>1, HoldsStays
    <3>2. CASE m \in r.msgs
      BY <3>2 DEF VoteOk, BallotsOf
    <3> QED BY <3>1, <3>2 DEF BallotsOf
  <2> QED BY <1>1, <1>2, <2>1, <2>2, HoldsStays
<1>6. ASSUME NEW m \in BallotsOf(i, q.msgs), m \notin r.msgs
      PROVE  m.term = q.Term /\ q.Vote = Choice(m)
  BY <1>3, <1>6 DEF BallotsOf, Fair
<1>7. \A m \in BallotsOf(i, q.msgs) : Holds(q.Term, q.Vote, m)
  BY <1>5, <1>6 DEF Holds, BallotsOf
<1>8. ASSUME NEW a \in BallotsOf(i, S \cup q.msgs),
             NEW b \in BallotsOf(i, S \cup q.msgs), a.term = b.term
      PROVE  Choice(a) = Choice(b)
  <2>1. ASSUME NEW x \in BallotsOf(i, S \cup q.msgs)
        PROVE  Holds(q.Term, q.Vote, x) /\ x.term \in Nat
    <3>1. x \in Message
      BY <1>1 DEF BallotsOf
    <3> QED BY <1>5, <1>7, <3>1, MessageFacts DEF BallotsOf
  <2>2. CASE a.term = q.Term
    <3>0. Holds(q.Term, q.Vote, a) /\ Holds(q.Term, q.Vote, b)
      BY <2>1
    <3>1. ~(q.Term < q.Term) /\ b.term = q.Term
      BY <1>1, <1>8, <2>2
    <3>2. ASSUME NEW x, Holds(q.Term, q.Vote, x), x.term = q.Term
          PROVE  q.Vote = Choice(x)
      BY <3>1, <3>2 DEF Holds
    <3> QED BY <2>2, <3>0, <3>1, <3>2
  <2>3. CASE a.term # q.Term
    <3>1. a \in BallotsOf(i, S \cup r.msgs) /\ b \in BallotsOf(i, S \cup r.msgs)
      BY <1>6, <1>8, <2>3 DEF BallotsOf
    <3> QED BY <1>8, <3>1 DEF VoteOk
  <2> QED BY <2>2, <2>3
<1>9. Below(d.Term, d.Vote, q.Term, q.Vote)
  BY <1>1, <1>2, BelowTransitive DEF VoteOk
<1>10. p.pending => /\ Below(d.Term, d.Vote, p.Term, p.Vote)
                    /\ Below(p.Term, p.Vote, q.Term, q.Vote)
  BY <1>1, <1>2, BelowTransitive DEF VoteOk
<1>11. Backed(q, S)
  BY DEF VoteOk, Lawful
<1>12. ASSUME NEW m \in q.msgs, Fair(q, m, S) PROVE Proper(m, S)
  <2>1. m.type \in LeaderTypes => Won(S, m.from, m.term)
    BY <1>11, <1>12 DEF Fair, Backed
  <2> QED BY <1>12, <2>1 DEF Fair, Proper
<1>13. \A m \in S \cup q.msgs : Proper(m, S)
  BY <1>3, <1>12 DEF VoteOk
<1> QED BY <1>4, <1>7, <1>8, <1>9, <1>10, <1>11, <1>13 DEF VoteOk

-----------------------------------------------------------------------------
(* Sending.                                                                *)

\* What elections read of a message.
Alike(x, m) == /\ x.type = m.type /\ x.from = m.from /\ x.to = m.to
               /\ x.term = m.term /\ x.reject = m.reject

\* The whole outbox goes out, when the disk already stands by it.
LEMMA VoteSent ==
  ASSUME NEW i, NEW r, NEW d, NEW p, NEW S, VoteOk(i, r, d, p, S),
         NEW T, S \subseteq T, T \subseteq Message,
         \A x \in T \ S : \E m \in r.msgs : Alike(x, m),
         NEW q, Same(q, r), q.msgs = {}, NEW e, NEW u,
         \A m \in BallotsOf(i, S \cup r.msgs) : Holds(e.Term, e.Vote, m),
         Below(e.Term, e.Vote, r.Term, r.Vote),
         u.pending => /\ Below(e.Term, e.Vote, u.Term, u.Vote)
                      /\ Below(u.Term, u.Vote, r.Term, r.Vote)
  PROVE  VoteOk(i, q, e, u, T)
<1>1. Grows(S, T)
  BY DEF Grows
<1>2. ASSUME NEW x \in T
      PROVE  \E m \in S \cup r.msgs : Alike(x, m)
  BY DEF Alike
<1>3. ASSUME NEW x, NEW m, Alike(x, m)
      PROVE  /\ IsBallot(x) <=> IsBallot(m)
             /\ Choice(x) = Choice(m)
  BY <1>3 DEF Alike, IsBallot, IsGrant, Choice
<1>4. ASSUME NEW x \in BallotsOf(i, T)
      PROVE  \E m \in BallotsOf(i, S \cup r.msgs) :
               x.term = m.term /\ Choice(x) = Choice(m)
  <2>1. PICK m \in S \cup r.msgs : Alike(x, m)
    BY <1>2 DEF BallotsOf
  <2> QED BY <1>3, <2>1 DEF BallotsOf, Alike
<1>5. ASSUME NEW x \in BallotsOf(i, T) PROVE Holds(e.Term, e.Vote, x)
  BY <1>4 DEF Holds
<1>6. ASSUME NEW x \in BallotsOf(i, T \cup q.msgs),
             NEW y \in BallotsOf(i, T \cup q.msgs), x.term = y.term
      PROVE  Choice(x) = Choice(y)
  <2>1. PICK a \in BallotsOf(i, S \cup r.msgs) :
               x.term = a.term /\ Choice(x) = Choice(a)
    BY <1>4 DEF BallotsOf
  <2>2. PICK b \in BallotsOf(i, S \cup r.msgs) :
               y.term = b.term /\ Choice(y) = Choice(b)
    BY <1>4 DEF BallotsOf
  <2> QED BY <1>6, <2>1, <2>2 DEF VoteOk
<1>7. Backed(q, T)
  <2>1. Backed(r, T)
    BY <1>1, BackedGrows DEF VoteOk
  <2> QED BY <2>1 DEF Backed, Same
<1>8. ASSUME NEW x \in T PROVE Proper(x, T)
  <2>1. PICK m \in S \cup r.msgs : Alike(x, m)
    BY <1>2
  <2>2. Proper(m, T)
    BY <1>1, ProperGrows DEF VoteOk
  <2> QED BY <2>1, <2>2 DEF Proper, Alike, IsGrant
<1>9. q.Term = r.Term /\ q.Vote = r.Vote
  BY DEF Same
<1> QED BY <1>5, <1>6, <1>7, <1>8, <1>9 DEF VoteOk, BallotsOf

\* A leader sends before it saves: but with a ballot in its outbox, or in the
\* network, it was elected by others, who answered a request that its disk
\* already stood by.
LEMMA LeaderStandsBy ==
  ASSUME NEW n, NEW i \in Server, NEW r, NodeOk(i, r, n), r.state = "Leader",
         NEW d \in DiskType, NEW p, NEW S \in SUBSET Message,
         VoteOk(i, r, d, p, S), NEW m \in BallotsOf(i, S \cup r.msgs)
  PROVE  Holds(d.Term, d.Vote, m)
<1>1. /\ r.Term \in Nat /\ d.Term \in Nat /\ r.id = i /\ None \notin Server
      /\ r.msgs \in SUBSET Message
  BY NodeFacts, ConfAssumption DEF NodeOk, Sound, DiskType
<1>2. Won(S, i, r.Term)
  BY <1>1 DEF VoteOk, Backed
<1>3. PICK x \in S \cup r.msgs : x.type = "MsgVote"
  BY DEF BallotsOf, IsBallot, VoteOk, Proper
<1>4. Yes(S, i, r.Term) # {}
  <2>1. /\ x.from # x.to
        /\ x.from \in VotingMembers /\ x.to \in VotingMembers
    BY <1>3 DEF VoteOk, Proper
  <2>2. CASE Yes(S, i, r.Term) = {}
    <3>1. {i} \cup Yes(S, i, r.Term) = {i}
      BY <2>2
    <3>2. IsJointQuorum(Voters, Outgoing, {i})
      BY <1>2, <3>1 DEF Won
    <3> QED BY <2>1, <3>2, SoloQuorum
  <2> QED BY <2>2
<1>5. PICK g \in S : IsGrant(g) /\ g.to = i /\ g.term = r.Term
  BY <1>4 DEF Yes
<1>6. PICK v \in S : v.type = "MsgVote" /\ v.from = i /\ v.term = r.Term
  BY <1>5 DEF VoteOk, Proper
<1>7. Holds(d.Term, d.Vote, v)
  BY <1>6 DEF VoteOk, BallotsOf, IsBallot
<1>8. d.Term = r.Term /\ d.Vote = i /\ r.Vote = i
  BY <1>1, <1>6, <1>7 DEF VoteOk, Below, Holds, Choice
<1>9. Holds(r.Term, r.Vote, m)
  <2>1. CASE m \in S
    <3>1. Holds(d.Term, d.Vote, m)
      BY <2>1 DEF VoteOk, BallotsOf
    <3> QED BY <1>8, <3>1
  <2>2. CASE m \in r.msgs
    BY <2>2 DEF VoteOk, BallotsOf
  <2> QED BY <2>1, <2>2 DEF BallotsOf
<1> QED BY <1>8, <1>9

\* A step that writes one member, and sends for it only.
LEMMA WritesVote ==
  ASSUME ElectionInv, TypeInv', NEW i \in Server, NEW r, NEW d, NEW p,
         Writes(i, r, d, p), Grows(net, net'),
         \A m \in net' \ net : m.from = i, VoteOk(i, r, d, p, net')
  PROVE  ElectionInv'
<1>1. ASSUME NEW j \in Server
      PROVE  VoteOk(j, node'[j], disk'[j], rd'[j], net')
  <2>1. CASE j = i
    BY <2>1 DEF ElectionInv, TypeInv, Writes
  <2>2. CASE j # i
    <3>1. node'[j] = node[j] /\ disk'[j] = disk[j] /\ rd'[j] = rd[j]
      BY <2>2 DEF ElectionInv, TypeInv, Writes
    <3>2. VoteOk(j, node[j], disk[j], rd[j], net)
      BY DEF ElectionInv, VoteInv
    <3>3. \A m \in net' \ net : m.from # j /\ Proper(m, net')
      BY <2>2 DEF VoteOk
    <3> QED BY <3>1, <3>2, <3>3, VoteAmongOthers
  <2> QED BY <2>1, <2>2
<1> QED BY <1>1 DEF ElectionInv, VoteInv

-----------------------------------------------------------------------------
(* The steps.                                                              *)

\* What the invariant says of one member.
LEMMA ElectionIndexes ==
  ASSUME ElectionInv, NEW i \in Server
  PROVE  /\ Len(handed) \in Nat
         /\ NodeOk(i, node[i], Len(handed)) /\ Sound(node[i], Len(handed))
         /\ node[i] \in NodeType /\ disk[i] \in DiskType /\ rd[i] \in ReadyType
         /\ net \in SUBSET Message /\ node[i].committed \in Nat
         /\ VoteOk(i, node[i], disk[i], rd[i], net)
BY MemberIndexes, TypeInvFacts DEF ElectionInv, VoteInv

\* A lawful step of a member keeps the invariant.
LEMMA MemberStepVotes ==
  ASSUME ElectionInv, TypeInv', NEW i \in Server, MemberStep(i)
  PROVE  ElectionInv'
<1> DEFINE n == Len(handed)
<1>1. PICK q : Lawful(node[i], q, n, net) /\ Becomes(i, q)
  BY DEF MemberStep
<1>2. /\ n \in Nat /\ NodeOk(i, node[i], n) /\ NetOk(net, n)
      /\ disk[i] \in DiskType /\ rd[i] \in ReadyType
      /\ net \in SUBSET Message /\ VoteOk(i, node[i], disk[i], rd[i], net)
  BY ElectionIndexes DEF ElectionInv, TypeInv
<1> DEFINE T == q.msgs \ net
           x == [q EXCEPT !.msgs = T]
<1>3. Writes(i, x, disk[i], rd[i])
  BY <1>1 DEF Writes, ElectionInv, TypeInv, MemberStep, Becomes
<1> HIDE DEF n
<1>4. VoteOk(i, q, disk[i], rd[i], net)
  BY <1>1, <1>2, VoteLawful
<1>5. NodeOk(i, q, n)
  BY <1>1, <1>2, LawfulOk
<1>6. T \in SUBSET q.msgs
  OBVIOUS
<1> HIDE DEF T
<1>7. /\ x.id = q.id /\ x.Term = q.Term /\ x.Vote = q.Vote
      /\ x.state = q.state /\ x.granted = q.granted /\ x.msgs = T
  BY <1>2, <1>5, <1>6, OutboxFacts
<1> HIDE DEF x
<1>8. VoteOk(i, x, disk[i], rd[i], net)
  BY <1>4, <1>6, <1>7, VoteAgain DEF VoteOk, BallotsOf, Backed
<1>9. Grows(net, net') /\ net' \subseteq net
  BY DEF MemberStep, Grows
<1>10. VoteOk(i, x, disk[i], rd[i], net')
  BY <1>8, <1>9, VoteAmongOthers
<1> QED BY <1>3, <1>9, <1>10, WritesVote

\* The messages of a Ready leave as they are, but for the index of a snapshot.
LEMMA SendReadyVotes ==
  ASSUME NEW n \in Nat, NEW i, NEW r, NodeOk(i, r, n), net \in SUBSET Message,
         \A m \in r.msgs : m.from = i, SendReady(r)
  PROVE  /\ net \subseteq net' /\ net' \subseteq Message /\ Grows(net, net')
         /\ \A x \in net' \ net : \E m \in r.msgs : Alike(x, m)
         /\ \A x \in net' \ net : x.from = i
<1>1. PICK k \in r.log.snap.index..r.committed : net' = net \cup Outgoings(r, k)
  BY DEF SendReady
<1>2. k \in Nat
  BY NodeFacts DEF NodeOk, Sound
<1>3. ASSUME NEW x \in Outgoings(r, k)
      PROVE  x \in Message /\ \E m \in r.msgs : Alike(x, m)
  <2>1. Sound(r, n)
    BY DEF NodeOk
  <2>2. /\ x \in Message
        /\ \E m \in r.msgs : /\ x.type = m.type /\ x.from = m.from /\ x.to = m.to
                             /\ x.term = m.term /\ x.reject = m.reject
    BY <1>2, <2>1, OutgoingFacts
  <2> QED BY <2>2 DEF Alike
<1> QED BY <1>1, <1>3 DEF Grows, Alike

\* A leader sends first: its ballots are on its disk already.
LEMMA ReadyLeaderVotes ==
  ASSUME ElectionInv, TypeInv', NEW i \in Server, ReadyLeader(i)
  PROVE  ElectionInv'
<1> DEFINE r == node[i]
           n == Len(handed)
           q == TakenBy(r, net)
           p == IF Unsaved(i) \/ node[i].applied < node[i].committed
                THEN Image(r) ELSE rd[i]
<1>1. r.state = "Leader" /\ ~rd[i].pending /\ SendReady(r)
  BY DEF ReadyLeader
<1>2. /\ n \in Nat /\ NodeOk(i, r, n) /\ Sound(r, n) /\ disk[i] \in DiskType
      /\ net \in SUBSET Message /\ VoteOk(i, r, disk[i], rd[i], net)
  BY ElectionIndexes
<1>3. Writes(i, q, disk[i], p)
  BY DEF Writes, ReadyLeader, Becomes, ElectionInv, TypeInv, TakenBy
<1> HIDE DEF n, r
<1>4. Same(q, r) /\ q.msgs = {}
  <2>1. 0 \in Nat /\ 0 <= n /\ 0 <= r.committed
    BY <1>2, NodeFacts DEF Sound
  <2> QED BY <1>2, <2>1, TakenOk
<1> HIDE DEF q
<1>5. /\ net \subseteq net' /\ net' \subseteq Message /\ Grows(net, net')
      /\ \A x \in net' \ net : \E m \in r.msgs : Alike(x, m)
      /\ \A x \in net' \ net : x.from = i
  BY <1>1, <1>2, SendReadyVotes DEF VoteOk
<1>6. \A m \in BallotsOf(i, net \cup r.msgs) : Holds(disk[i].Term, disk[i].Vote, m)
  BY <1>1, <1>2, LeaderStandsBy
<1>7. Below(disk[i].Term, disk[i].Vote, r.Term, r.Vote)
  BY <1>2 DEF VoteOk
<1>8. p.pending => /\ Below(disk[i].Term, disk[i].Vote, p.Term, p.Vote)
                   /\ Below(p.Term, p.Vote, r.Term, r.Vote)
  <2>1. Image(r).Term = r.Term /\ Image(r).Vote = r.Vote
    BY <1>2, ImageFacts
  <2> QED BY <1>1, <1>7, <2>1 DEF Below
<1> HIDE DEF p
<1>9. VoteOk(i, q, disk[i], p, net')
  BY <1>2, <1>4, <1>5, <1>6, <1>7, <1>8, VoteSent
<1> QED BY <1>3, <1>5, <1>9, WritesVote

\* Every other member saves first: what it sends is on its disk.
LEMMA ReadyFollowerVotes ==
  ASSUME ElectionInv, TypeInv', NEW i \in Server, ReadyFollower(i)
  PROVE  ElectionInv'
<1> DEFINE r == node[i]
           n == Len(handed)
           q == TakenAndApplied(r, r.committed, net)
           d == Saved(disk[i], Image(r))
<1>1. ~rd[i].pending /\ SendReady(r)
  BY DEF ReadyFollower
<1>2. /\ n \in Nat /\ NodeOk(i, r, n) /\ Sound(r, n) /\ disk[i] \in DiskType
      /\ net \in SUBSET Message /\ VoteOk(i, r, disk[i], rd[i], net)
      /\ r.Term \in Nat /\ disk[i].Term \in Nat /\ r.msgs \in SUBSET Message
      /\ handed \in Seq(Entry) /\ Len(handed') \in Nat
      /\ MemberOk(i, r, disk[i], rd[i], n)
  BY ElectionIndexes, NodeFacts, LenProperties DEF DiskType, ElectionInv, TypeInv
<1>3. Writes(i, q, d, rd[i])
  BY DEF Writes, ReadyFollower, Becomes, ElectionInv, TypeInv, TakenAndApplied
<1>4. PICK k \in Nat : k = Len(handed') /\ k >= n /\ r.committed <= k
  <2>1. r.panic = "none" /\ HandOver(r)
    BY DEF ReadyFollower, Running
  <2> HIDE DEF r
  <2> QED BY <1>2, <2>1, HandOverFacts
<1> HIDE DEF n, r
<1>5. Same(q, r) /\ q.msgs = {}
  <2>1. NodeOk(i, r, k)
    BY <1>2, <1>4, MonotoneOk DEF MemberOk
  <2>2. r.committed \in Nat /\ r.committed <= r.committed
    BY <1>2, NodeFacts DEF Sound
  <2> QED BY <1>4, <2>1, <2>2, TakenOk
<1> HIDE DEF q
<1>6. /\ net \subseteq net' /\ net' \subseteq Message /\ Grows(net, net')
      /\ \A x \in net' \ net : \E m \in r.msgs : Alike(x, m)
      /\ \A x \in net' \ net : x.from = i
  BY <1>1, <1>2, SendReadyVotes DEF VoteOk
<1>7. d.Term = r.Term /\ d.Vote = r.Vote
  <2>1. /\ Image(r) \in ReadyType
        /\ Image(r).Term = r.Term /\ Image(r).Vote = r.Vote
    BY <1>2, ImageFacts
  <2> QED BY <1>2, <2>1, SavedFacts
<1> HIDE DEF d
<1>8. ASSUME NEW m \in BallotsOf(i, net \cup r.msgs)
      PROVE  Holds(d.Term, d.Vote, m)
  <2>1. CASE m \in net
    <3>1. Holds(disk[i].Term, disk[i].Vote, m) /\ m \in Message
      BY <1>2, <2>1 DEF VoteOk, BallotsOf
    <3>2. Below(disk[i].Term, disk[i].Vote, r.Term, r.Vote)
      BY <1>2 DEF VoteOk
    <3> QED BY <1>2, <1>7, <3>1, <3>2, HoldsStays
  <2>2. CASE m \in r.msgs
    BY <1>2, <1>7, <2>2 DEF VoteOk, BallotsOf
  <2> QED BY <2>1, <2>2 DEF BallotsOf
<1>9. Below(d.Term, d.Vote, r.Term, r.Vote)
  BY <1>7 DEF Below
<1>10. VoteOk(i, q, d, rd[i], net')
  BY <1>1, <1>2, <1>5, <1>6, <1>8, <1>9, VoteSent
<1> QED BY <1>3, <1>6, <1>10, WritesVote

\* A leader that has saved its Ready stands by as much as before.
LEMMA SaveVotes ==
  ASSUME ElectionInv, TypeInv', NEW i \in Server, Save(i)
  PROVE  ElectionInv'
<1> DEFINE r == node[i]
           p == rd[i]
           n == Len(handed)
           a == Maximum(r.applied, p.Commit)
           q == Applied(r, a, net)
           d == Saved(disk[i], p)
<1>1. r.panic = "none" /\ p.pending /\ net' = net
  BY DEF Save, Running
<1>2. /\ n \in Nat /\ NodeOk(i, r, n) /\ Sound(r, n) /\ disk[i] \in DiskType
      /\ net \in SUBSET Message /\ VoteOk(i, r, disk[i], p, net)
      /\ p.Term \in Nat /\ disk[i].Term \in Nat /\ p \in ReadyType
      /\ r.applied \in Nat /\ r.committed \in Nat /\ p.Commit \in Nat
      /\ MemberOk(i, r, disk[i], p, n)
  BY ElectionIndexes, MemberIndexes DEF DiskType, ReadyType, ElectionInv
<1>3. Writes(i, q, d, NoReady)
  BY DEF Writes, Save, Becomes, ElectionInv, TypeInv, Applied
<1>4. p.Commit <= r.committed /\ p.Commit <= n
  BY <1>1, <1>2 DEF MemberOk, ReadyOk
<1> HIDE DEF n, r, p
<1>5. a \in Nat /\ a <= n /\ a <= r.committed
  BY <1>1, <1>2, <1>4 DEF Maximum, Sound
<1> HIDE DEF a
<1>6. Same(q, r) /\ q.msgs = r.msgs \ net
  BY <1>2, <1>5, TakenOk
<1> HIDE DEF q
<1>7. d.Term = p.Term /\ d.Vote = p.Vote
  BY <1>2, SavedFacts
<1> HIDE DEF d
<1>8. ASSUME NEW m \in BallotsOf(i, net) PROVE Holds(d.Term, d.Vote, m)
  <2>1. Holds(disk[i].Term, disk[i].Vote, m) /\ m \in Message
    BY <1>2 DEF VoteOk, BallotsOf
  <2>2. Below(disk[i].Term, disk[i].Vote, p.Term, p.Vote)
    BY <1>1, <1>2 DEF VoteOk
  <2> QED BY <1>2, <1>7, <2>1, <2>2, HoldsStays
<1>9. /\ Below(d.Term, d.Vote, q.Term, q.Vote)
      /\ NoReady.pending = FALSE
  BY <1>1, <1>2, <1>6, <1>7 DEF VoteOk, Same, NoReady
<1>10. /\ Backed(q, net) /\ q.msgs \subseteq r.msgs
       /\ \A m \in BallotsOf(i, q.msgs) : Holds(q.Term, q.Vote, m)
  BY <1>2, <1>6 DEF VoteOk, Same, Backed, BallotsOf
<1>11. VoteOk(i, q, d, NoReady, net)
  BY <1>2, <1>8, <1>9, <1>10, VoteAgain
<1>12. Grows(net, net') /\ net' \ net = {}
  BY <1>1 DEF Grows
<1> QED BY <1>1, <1>3, <1>11, <1>12, WritesVote

\* A snapshot and a compaction touch no vote.
LEMMA CompactVotes ==
  ASSUME ElectionInv, TypeInv', NEW i \in Server, NEW s \in Nat, NEW c \in Nat,
         Compact(i, s, c)
  PROVE  ElectionInv'
<1> DEFINE r == node[i]
           snap == [index |-> s, term |-> LogTerm(r.log, s)]
           log == Compacted([r.log EXCEPT !.snap = snap], c)
           T == r.msgs \ net
           q == [[r EXCEPT !.log = log] EXCEPT !.msgs = @ \ net]
           dlog == Durable([disk[i].log EXCEPT !.snap = snap])
           d == [disk[i] EXCEPT !.older = {}, !.log = dlog]
<1>1. net' = net
  BY DEF Compact
<1>2. /\ r \in NodeType /\ disk[i] \in DiskType /\ net \in SUBSET Message
      /\ VoteOk(i, r, disk[i], rd[i], net)
  BY ElectionIndexes
<1>3. Writes(i, q, d, rd[i])
  <2>1. /\ node' = [node EXCEPT ![i] = q]
        /\ disk' = [disk EXCEPT ![i].older = {}, ![i].log = dlog]
        /\ rd' = rd
    BY DEF Compact, Becomes
  <2> HIDE DEF q, dlog
  <2>2. disk' = [disk EXCEPT ![i] = d]
    BY <2>1 DEF ElectionInv, TypeInv
  <2> QED BY <2>1, <2>2 DEF Writes, ElectionInv, TypeInv
<1> HIDE DEF r, log, dlog
<1>4. Same([q EXCEPT !.log = r.log], r) /\ q.msgs = T
  <2>1. q = [r EXCEPT !.log = log, !.msgs = T]
    BY <1>2 DEF NodeType
  <2> HIDE DEF q, T
  <2> QED BY <1>2, <2>1 DEF NodeType, Same
<1>5. d.Term = disk[i].Term /\ d.Vote = disk[i].Vote
  BY <1>2 DEF DiskType
<1> HIDE DEF q, d
<1>6. /\ q.Term = r.Term /\ q.Vote = r.Vote /\ q.state = r.state
      /\ q.granted = r.granted /\ q.id = r.id /\ q.msgs \subseteq r.msgs
  BY <1>4 DEF Same
<1>7. VoteOk(i, q, d, rd[i], net)
  BY <1>2, <1>5, <1>6, VoteAgain DEF VoteOk, BallotsOf, Backed
<1>8. Grows(net, net') /\ net' \ net = {}
  BY <1>1 DEF Grows
<1> QED BY <1>1, <1>3, <1>7, <1>8, WritesVote

\* A restart forgets the outbox and what was not saved, and nothing it sent.
LEMMA RestartVotes ==
  ASSUME ElectionInv, TypeInv', NEW i \in Server, Restart(i)
  PROVE  ElectionInv'
<1>1. PICK log \in Recoverable(i), c \in {disk[i].Commit} \cup disk[i].older :
        /\ Becomes(i, NewRaft(i, disk[i].Term, disk[i].Vote, c, log))
        /\ disk' = [disk EXCEPT ![i].log = log, ![i].Commit = c, ![i].older = {}]
  BY DEF Restart
<1> DEFINE r == NewRaft(i, disk[i].Term, disk[i].Vote, c, log)
           q == [r EXCEPT !.msgs = @ \ net]
           d == [disk[i] EXCEPT !.log = log, !.Commit = c, !.older = {}]
<1>2. /\ disk[i] \in DiskType /\ net' = net
      /\ VoteOk(i, node[i], disk[i], rd[i], net)
  BY ElectionIndexes DEF Restart
<1>3. Writes(i, q, d, NoReady)
  <2>1. node' = [node EXCEPT ![i] = q] /\ rd' = [rd EXCEPT ![i] = NoReady]
    BY <1>1 DEF Becomes, Restart
  <2>2. disk' = [disk EXCEPT ![i] = d]
    BY <1>1 DEF ElectionInv, TypeInv
  <2> HIDE DEF q, d
  <2> QED BY <2>1, <2>2 DEF Writes
<1>4. /\ q.Term = disk[i].Term /\ q.Vote = disk[i].Vote
      /\ q.state = "Follower" /\ q.msgs = {}
  BY DEF NewRaft
<1>5. d.Term = disk[i].Term /\ d.Vote = disk[i].Vote
  BY <1>2 DEF DiskType
<1> HIDE DEF q, d
<1>6. NoReady.pending = FALSE
  BY DEF NoReady
<1>7. VoteOk(i, q, d, NoReady, net)
  BY <1>2, <1>4, <1>5, <1>6, VoteAgain DEF VoteOk, BallotsOf, Backed, Below
<1>8. Grows(net, net') /\ net' \ net = {}
  BY <1>2 DEF Grows
<1> QED BY <1>2, <1>3, <1>7, <1>8, WritesVote

-----------------------------------------------------------------------------
(* The theorems.                                                           *)

\* Nobody voted yet.
LEMMA ElectionInit == Init => ElectionInv
<1> SUFFICES ASSUME Init PROVE ElectionInv
  OBVIOUS
<1>1. ASSUME NEW i \in Server
      PROVE  VoteOk(i, node[i], disk[i], rd[i], net)
  <2>1. /\ node[i] = NewRaft(i, 0, None, 0, EmptyLog) /\ disk[i] = EmptyDisk
        /\ rd[i] = NoReady /\ net = {}
    BY <1>1 DEF Init
  <2>2. /\ node[i].Term = 0 /\ node[i].Vote = None
        /\ node[i].state = "Follower" /\ node[i].msgs = {}
    BY <2>1 DEF NewRaft
  <2>3. disk[i].Term = 0 /\ disk[i].Vote = None /\ rd[i].pending = FALSE
    BY <2>1 DEF EmptyDisk, NoReady
  <2> QED BY <2>1, <2>2, <2>3 DEF VoteOk, BallotsOf, Below, Backed
<1> QED BY <1>1, InitOk DEF ElectionInv, VoteInv

\* The invariant is inductive.
LEMMA ElectionStep == ElectionInv /\ [Next]_vars => ElectionInv'
<1> SUFFICES ASSUME ElectionInv, [Next]_vars PROVE ElectionInv'
  OBVIOUS
<1>1. TypeInv /\ TypeInv'
  BY TypeInvStep DEF ElectionInv
<1>2. CASE Next
  <2>1. PICK i \in Server :
          \/ BoundsOk' /\ MemberStep(i)
          \/ ReadyLeader(i) \/ ReadyFollower(i) \/ Save(i) \/ Restart(i)
          \/ \E s \in Nat, c \in Nat : Compact(i, s, c)
    BY <1>1, <1>2, StepCases
  <2> QED BY <1>1, <2>1, MemberStepVotes, ReadyLeaderVotes, ReadyFollowerVotes,
             SaveVotes, RestartVotes, CompactVotes
<1>3. CASE UNCHANGED vars
  BY <1>1, <1>3 DEF vars, ElectionInv, VoteInv
<1> QED BY <1>2, <1>3

\* Every state keeps what members said in agreement with their disks: the
\* inductive invariant behind the two theorems below (raft/node.go:649-658,
\* raft/raft.go:1005-1057).
THEOREM VotesAreKept == Spec => []ElectionInv
BY ElectionInit, ElectionStep, PTL DEF Spec

\* A vote that left a member is on its disk, so that no crash makes it vote
\* again in the term (raft/node.go:649-658, etcdserver/raft.go:266-330).
THEOREM VotesOnce == Spec => []OneVotePerTerm
<1>1. ElectionInv => OneVotePerTerm
  <2> SUFFICES ASSUME ElectionInv, NEW m \in Grants, NEW n \in Grants,
                      m.from = n.from, m.term = n.term
               PROVE  m.to = n.to
    BY DEF OneVotePerTerm
  <2> DEFINE i == m.from
  <2>1. i \in Server /\ net \in SUBSET Message
    BY TypeInvFacts, MessageFacts DEF ElectionInv, Grants
  <2>2. m \in BallotsOf(i, net \cup node[i].msgs) /\ n \in BallotsOf(i, net \cup node[i].msgs)
    BY DEF Grants, BallotsOf, IsBallot, IsGrant
  <2>3. Choice(m) = m.to /\ Choice(n) = n.to
    BY DEF Grants, Choice
  <2> QED BY <2>1, <2>2, <2>3 DEF ElectionInv, VoteInv, VoteOk
<1> QED BY <1>1, VotesAreKept, PTL

\* Whoever acts as the leader of a term was elected in it.
LEMMA LeadersWon ==
  ASSUME ElectionInv, NEW x \in LeaderActs
  PROVE  x[2] \in Server /\ Won(net, x[2], x[1])
<1>1. CASE \E i \in Server : node[i].state = "Leader" /\ x = <<node[i].Term, i>>
  <2>1. PICK i \in Server : node[i].state = "Leader" /\ x = <<node[i].Term, i>>
    BY <1>1
  <2>2. node[i].id = i /\ Backed(node[i], net)
    BY ElectionIndexes DEF NodeOk, VoteOk
  <2> QED BY <2>1, <2>2 DEF Backed
<1>2. CASE \E m \in net : m.type \in LeaderTypes /\ x = <<m.term, m.from>>
  <2>1. PICK m \in net : m.type \in LeaderTypes /\ x = <<m.term, m.from>>
    BY <1>2
  <2>2. m.from \in Server
    BY TypeInvFacts, MessageFacts DEF ElectionInv
  <2>3. Proper(m, net)
    BY <2>2 DEF ElectionInv, VoteInv, VoteOk
  <2> QED BY <2>1, <2>2, <2>3 DEF Proper
<1> QED BY <1>1, <1>2 DEF LeaderActs

\* The winners of a term are the same: their quorums share a voter, that voted
\* once.
LEMMA OneWinner ==
  ASSUME ElectionInv, NEW i \in Server, NEW j \in Server, NEW t,
         Won(net, i, t), Won(net, j, t)
  PROVE  i = j
<1> DEFINE Q(k) == {k} \cup Yes(net, k, t)
<1>1. \A s \in Server : \A a, b \in BallotsOf(s, net) :
        a.term = b.term => Choice(a) = Choice(b)
  BY DEF ElectionInv, VoteInv, VoteOk, BallotsOf
<1>2. ASSUME NEW k \in Server, NEW s \in Yes(net, k, t)
      PROVE  /\ s \in Server
             /\ \E g \in BallotsOf(s, net) : g.term = t /\ Choice(g) = k
             /\ \E v \in BallotsOf(k, net) : v.term = t /\ Choice(v) = k
  <2>1. PICK g \in net : g.from = s /\ IsGrant(g) /\ g.to = k /\ g.term = t
    BY DEF Yes
  <2>2. s \in Server
    BY <2>1, TypeInvFacts, MessageFacts DEF ElectionInv
  <2>3. Choice(g) = k /\ g \in BallotsOf(s, net)
    BY <2>1 DEF Choice, IsGrant, BallotsOf, IsBallot
  <2>4. PICK v \in net : v.type = "MsgVote" /\ v.from = k /\ v.term = t
    BY <2>1, <2>2 DEF ElectionInv, VoteInv, VoteOk, Proper
  <2>5. Choice(v) = k /\ v \in BallotsOf(k, net)
    BY <2>4 DEF Choice, BallotsOf, IsBallot
  <2> QED BY <2>1, <2>2, <2>3, <2>4, <2>5
<1>3. ASSUME NEW k \in Server, NEW l \in Server, Won(net, k, t), Won(net, l, t),
             k # l
      PROVE  Yes(net, k, t) # {}
  <2>1. CASE Yes(net, k, t) = {}
    <3>1. {k} \cup Yes(net, k, t) = {k}
      BY <2>1
    <3>2. IsJointQuorum(Voters, Outgoing, {k}) /\ l \in VotingMembers
      BY <1>3, <3>1 DEF Won
    <3> QED BY <1>3, <3>2, SoloQuorum
  <2> QED BY <2>1
<1>4. PICK s : s \in Q(i) /\ s \in Q(j)
  <2>1. IsJointQuorum(Voters, Outgoing, Q(i)) /\ IsJointQuorum(Voters, Outgoing, Q(j))
    BY DEF Won
  <2> HIDE DEF Q
  <2>2. Q(i) \cap Q(j) \cap Voters # {}
    BY <2>1, QuorumsIntersect, VotingMemberFacts
  <2> QED BY <2>2
<1>5. ASSUME NEW k \in Server, NEW l \in Server, Won(net, k, t), Won(net, l, t),
             k # l, s \in Q(k)
      PROVE  s \in Server /\ \E g \in BallotsOf(s, net) : g.term = t /\ Choice(g) = k
  <2>1. CASE s = k
    <3>1. PICK y : y \in Yes(net, k, t)
      BY <1>3, <1>5
    <3> QED BY <1>2, <2>1, <3>1
  <2>2. CASE s \in Yes(net, k, t)
    BY <1>2, <2>2
  <2> QED BY <1>5, <2>1, <2>2
<1>6. CASE i # j
  BY <1>1, <1>4, <1>5, <1>6
<1> QED BY <1>6

\* A term has at most one leader over its whole history, whatever is lost,
\* repeated, reordered or forgotten in a crash (raft/raft.go:790-825).
THEOREM OneLeaderPerTerm == Spec => []ElectionSafety
<1>1. ElectionInv => ElectionSafety
  <2> SUFFICES ASSUME ElectionInv, NEW x \in LeaderActs, NEW y \in LeaderActs,
                      x[1] = y[1]
               PROVE  x[2] = y[2]
    BY DEF ElectionSafety
  <2>1. /\ x[2] \in Server /\ Won(net, x[2], x[1])
        /\ y[2] \in Server /\ Won(net, y[2], x[1])
    BY LeadersWon
  <2> QED BY <2>1, OneWinner
<1> QED BY <1>1, VotesAreKept, PTL
=============================================================================
