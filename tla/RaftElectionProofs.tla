------------------------- MODULE RaftElectionProofs -------------------------
(***************************************************************************)
(* What the operators of elections keep: every step of a member is Lawful. *)
(* It never gives up a vote, answers and asks for votes only for what it   *)
(* votes for, and leads only with the votes of a quorum.                   *)
(***************************************************************************)
EXTENDS RaftStepProofs

VotingMembers == Voters \cup Outgoing

\* A grant, and a ballot: what reveals that its sender voted in a term, a
\* request of a candidate being a vote for itself.
IsGrant(m)  == m.type = "MsgVoteResp" /\ ~m.reject
IsBallot(m) == m.type = "MsgVote" \/ IsGrant(m)
Choice(m) == IF m.type = "MsgVote" THEN m.from ELSE m.to

\* Who granted i its vote in a term, and that with its own it won.
Yes(sent, i, term) ==
  {m.from : m \in {x \in sent : IsGrant(x) /\ x.to = i /\ x.term = term}}
Won(sent, i, term) ==
  /\ i \in VotingMembers
  /\ IsJointQuorum(Voters, Outgoing, {i} \cup Yes(sent, i, term))

\* The term and the vote of a member only move this way.
Below(t, v, u, w) == t < u \/ (t = u /\ v \in {w, None})

\* What a member counts, and its office, are backed by messages sent to it.
Backed(r, sent) ==
  /\ r.state = "Candidate" => r.granted \subseteq {r.id} \cup Yes(sent, r.id, r.Term)
  /\ r.state = "Leader" => Won(sent, r.id, r.Term)

\* A message the member may send in the state q.
Fair(q, m, sent) ==
  /\ m \in Message
  /\ m.from = q.id
  /\ m.type = "MsgVote" => /\ q.Term > 0
                           /\ m.to # q.id
                           /\ m.to \in VotingMembers /\ q.id \in VotingMembers
  /\ IsGrant(m) => \E v \in sent : /\ v.type = "MsgVote" /\ v.from = m.to
                                   /\ v.term = m.term
  /\ IsBallot(m) => m.term = q.Term /\ q.Vote = Choice(m)
  /\ m.type \in LeaderTypes => q.state = "Leader" /\ m.term = q.Term

Lawful(r, q, n, sent) ==
  /\ Sound(q, n)
  /\ q.id = r.id
  /\ q.committed >= r.committed
  /\ q.log.snap.index >= r.log.snap.index
  /\ Below(r.Term, r.Vote, q.Term, q.Vote)
  /\ Backed(r, sent) => Backed(q, sent)
  /\ \A m \in q.msgs : m \in r.msgs \/ Fair(q, m, sent)

\* A step that neither votes nor campaigns is lawful.
LEMMA CalmIsLawful ==
  ASSUME NEW n \in Nat, NEW r, Sound(r, n), NEW q, Calm(r, q, n), NEW sent
  PROVE  Lawful(r, q, n, sent)
<1>1. r.Term \in Nat /\ q.Term \in Nat /\ q.state \in RaftState
  BY NodeFacts DEF Calm, Sound
<1>2. \A m : Ordinary(q, m) => Fair(q, m, sent)
  BY DEF Ordinary, Fair, IsGrant, IsBallot
<1>3. Below(r.Term, r.Vote, q.Term, q.Vote)
  BY <1>1 DEF Calm, Below
<1>4. Backed(r, sent) => Backed(q, sent)
  BY DEF Calm, Backed
<1> QED BY <1>2, <1>3, <1>4 DEF Calm, Lawful

\* So is one that leaves the role and the term alone.
LEMMA QuietIsLawful ==
  ASSUME NEW n \in Nat, NEW r, Sound(r, n), NEW q, Quiet(r, q, n), NEW sent
  PROVE  Lawful(r, q, n, sent)
BY QuietIsCalm, CalmIsLawful

\* A lawful step after one that sends nothing.
LEMMA LawfulFirst ==
  ASSUME NEW n \in Nat, NEW a, NEW b, NEW c, NEW sent, Sound(a, n),
         Lawful(a, b, n, sent), b.msgs = a.msgs, Lawful(b, c, n, sent)
  PROVE  Lawful(a, c, n, sent)
<1>1. /\ a.committed \in Nat /\ b.committed \in Nat /\ c.committed \in Nat
      /\ a.log.snap.index \in Nat /\ b.log.snap.index \in Nat
      /\ c.log.snap.index \in Nat
      /\ a.Term \in Nat /\ b.Term \in Nat /\ c.Term \in Nat
  BY NodeFacts DEF Lawful, Sound
<1>2. Below(a.Term, a.Vote, c.Term, c.Vote)
  BY <1>1 DEF Lawful, Below
<1> QED BY <1>1, <1>2 DEF Lawful

\* A quiet step after a lawful one.
LEMMA LawfulThenQuiet ==
  ASSUME NEW n \in Nat, NEW a, NEW b, NEW c, NEW sent, Sound(a, n),
         Lawful(a, b, n, sent), Quiet(b, c, n)
  PROVE  Lawful(a, c, n, sent)
<1>1. /\ a.committed \in Nat /\ b.committed \in Nat /\ c.committed \in Nat
      /\ a.log.snap.index \in Nat /\ b.log.snap.index \in Nat
      /\ c.log.snap.index \in Nat
  BY NodeFacts DEF Quiet, Lawful, Sound
<1>2. \A m : Fair(b, m, sent) => Fair(c, m, sent)
  BY DEF Quiet, Fair
<1>3. \A m : Ordinary(b, m) => Fair(c, m, sent)
  BY DEF Ordinary, Quiet, Fair, IsGrant, IsBallot
<1>4. Backed(b, sent) => Backed(c, sent)
  BY DEF Quiet, Backed
<1> QED BY <1>1, <1>2, <1>3, <1>4 DEF Lawful, Quiet

-----------------------------------------------------------------------------
(* Votes.                                                                  *)

\* Sending fair messages is lawful.
LEMMA SendsLawful ==
  ASSUME NEW n \in Nat, NEW r, Sound(r, n), NEW sent,
         NEW S, \A m \in S : Fair(r, m, sent)
  PROVE  Lawful(r, [r EXCEPT !.msgs = @ \cup S], n, sent)
<1> DEFINE T == r.msgs \cup S
           q == [r EXCEPT !.msgs = T]
<1>1. r \in NodeType /\ T \in SUBSET Message
  BY DEF Sound, Fair, NodeType
<1>2. /\ q \in NodeType /\ q.msgs = T
      /\ q.id = r.id /\ q.Term = r.Term /\ q.Vote = r.Vote
      /\ q.state = r.state /\ q.granted = r.granted /\ q.log = r.log
      /\ q.committed = r.committed /\ q.applied = r.applied
      /\ q.panic = r.panic
  <2> HIDE DEF T
  <2> QED BY <1>1 DEF NodeType
<1>3. Lawful(r, q, n, sent)
  <2> HIDE DEF q
  <2>1. Sound(q, n)
    BY <1>2 DEF Sound
  <2>2. \A m \in S : Fair(q, m, sent)
    BY <1>2 DEF Fair
  <2>3. /\ q.committed \in Nat /\ r.committed \in Nat
        /\ r.log.snap.index \in Nat
    BY <1>1, <1>2, NodeFacts
  <2> QED BY <1>2, <2>1, <2>2, <2>3 DEF Lawful, Below, Backed
<1> QED BY <1>3

\* Learners apart, the servers are the voting members (raft/tracker/tracker.go:29-43).
LEMMA VotingMemberFacts ==
  /\ VotingMembers \subseteq Server
  /\ \A i \in Server : i \notin Learners => i \in VotingMembers
  /\ IsFiniteSet(Voters) /\ IsFiniteSet(Outgoing) /\ Voters # {}
<1>1. Voters \in SUBSET Server /\ Outgoing \in SUBSET Server
  BY DEF Server
<1> QED BY <1>1, ConfAssumption, FS_Subset DEF Server, VotingMembers

\* Requests for votes go to the other voting members.
LEMMA SendVotesLawful ==
  ASSUME NEW n \in Nat, NEW r, Sound(r, n), NEW sent,
         NEW type \in {"MsgVote", "MsgPreVote"}, NEW term \in Nat, NEW ctx \in Ctx,
         r.id \notin Learners,
         type = "MsgVote" => r.Term > 0 /\ r.Vote = r.id /\ term = r.Term
  PROVE  Lawful(r, SendVotes(r, type, term, ctx), n, sent)
<1> DEFINE d(s) == [Msg(type, s) EXCEPT !.term = term, !.index = LastIndex(r.log),
                      !.logTerm = LastTerm(r.log), !.ctx = ctx]
           S == {Stamped(r, d(s)) : s \in VotingMembers \ {r.id}}
<1>1. /\ r.id \in Server /\ r.id \in VotingMembers
      /\ LastIndex(r.log) \in Nat /\ LastTerm(r.log) \in Nat
  BY NodeFacts, LogFacts, TermFacts, VotingMemberFacts DEF Sound, LastTerm
<1>2. ASSUME NEW s \in VotingMembers \ {r.id}
      PROVE  Fair(r, Stamped(r, d(s)), sent)
  <2>1. s \in Server
    BY VotingMemberFacts
  <2>2. Msg(type, s) \in Draft /\ Msg(type, s).type = type /\ Msg(type, s).to = s
    BY <2>1, DraftFacts DEF Msg, MessageType
  <2>3. /\ d(s) \in Draft /\ d(s).type = type /\ d(s).to = s /\ d(s).term = term
    BY <1>1, <2>2 DEF Draft
  <2> DEFINE e == d(s)
             m == [e EXCEPT !.from = r.id, !.term = term]
  <2> HIDE DEF e
  <2>4. e \in Draft /\ e.type = type /\ e.to = s /\ e.term = term
    BY <2>3 DEF e
  <2>5. Stamped(r, e) = m
    BY <2>4 DEF Stamped, VoteTypes
  <2>6. /\ m \in Message /\ m.from = r.id /\ m.type = type
        /\ m.to = s /\ m.term = term
    BY <1>1, <2>4 DEF Draft, Message, Ctx
  <2> HIDE DEF m
  <2>7. Fair(r, m, sent)
    BY <1>1, <2>6 DEF Fair, IsGrant, IsBallot, Choice, LeaderTypes
  <2> QED BY <2>5, <2>7 DEF e
<1>3. \A m \in S : Fair(r, m, sent)
  BY <1>2
<1>4. SendVotes(r, type, term, ctx) = [r EXCEPT !.msgs = @ \cup S]
  BY DEF SendVotes, VotingMembers
<1> HIDE DEF S
<1> QED BY <1>3, <1>4, SendsLawful

\* A vote is given to nobody but the one it was given to already in the term.
LEMMA StepVoteLawful ==
  ASSUME NEW n \in Nat, NEW r, Sound(r, n), NEW sent \in SUBSET Message,
         NEW m \in sent, m.type \in {"MsgVote", "MsgPreVote"},
         m.type = "MsgVote" => m.term = r.Term
  PROVE  Lawful(r, StepVote(r, m), n, sent)
<1> DEFINE type == VoteRespType(m.type)
           no  == [Msg(type, m.from) EXCEPT !.term = r.Term, !.reject = TRUE]
           yes == [Msg(type, m.from) EXCEPT !.term = m.term]
           q == [r EXCEPT !.elapsed = FALSE, !.Vote = m.from]
           voted == [Send(r, yes) EXCEPT !.elapsed = FALSE, !.Vote = m.from]
<1>1. /\ m.from \in Server /\ m.term \in Nat /\ r.Term \in Nat
      /\ r \in NodeType
  BY MessageFacts, NodeFacts DEF Sound
<1>2. /\ type \in MessageType \ {"MsgProp"}
      /\ m.type = "MsgVote" => type = "MsgVoteResp"
      /\ m.type = "MsgPreVote" => type = "MsgPreVoteResp"
  BY DEF VoteRespType, MessageType
<1>3. Msg(type, m.from) \in Draft /\ Msg(type, m.from).type = type
      /\ Msg(type, m.from).to = m.from /\ Msg(type, m.from).reject = FALSE
  <2> HIDE DEF type
  <2> QED BY <1>1, <1>2, DraftFacts DEF Msg
<1>4. /\ no \in Draft /\ no.type = type /\ no.reject
      /\ yes \in Draft /\ yes.type = type /\ yes.to = m.from
      /\ yes.term = m.term /\ yes.reject = FALSE
  <2> HIDE DEF type
  <2> QED BY <1>1, <1>3 DEF Draft
<1> HIDE DEF type, no, yes
<1>5. Lawful(r, Send(r, no), n, sent)
  BY <1>2, <1>4, SendQuiet, QuietIsLawful DEF LeaderTypes
<1>6. CASE m.type = "MsgPreVote"
  <2>1. Lawful(r, Send(r, yes), n, sent)
    BY <1>2, <1>4, <1>6, SendQuiet, QuietIsLawful DEF LeaderTypes
  <2>2. StepVote(r, m) \in {Send(r, no), Send(r, yes)}
    BY <1>6 DEF StepVote, no, yes, type
  <2> QED BY <1>5, <2>1, <2>2
<1>7. CASE m.type = "MsgVote"
  <2>1. StepVote(r, m) = Send(r, no) \/ (CanVote(r, m) /\ StepVote(r, m) = voted)
    BY <1>7 DEF StepVote, no, yes, type
  <2>2. ASSUME CanVote(r, m)
        PROVE  Lawful(r, voted, n, sent)
    <3>1. r.Vote \in {m.from, None}
      BY <1>7, <2>2 DEF CanVote
    <3>2. /\ q \in NodeType /\ q.msgs = r.msgs /\ q.Vote = m.from
          /\ q.id = r.id /\ q.Term = r.Term
          /\ q.state = r.state /\ q.granted = r.granted /\ q.log = r.log
          /\ q.committed = r.committed /\ q.applied = r.applied
          /\ q.panic = r.panic
      BY <1>1 DEF NodeType
    <3> DEFINE x == [yes EXCEPT !.from = r.id, !.term = m.term]
    <3>3. Stamped(r, yes) = x
      BY <1>2, <1>4, <1>7 DEF Stamped, VoteTypes
    <3>4. /\ x \in Message /\ x.from = r.id /\ x.to = m.from
          /\ x.type = "MsgVoteResp" /\ x.reject = FALSE /\ x.term = m.term
      BY <1>1, <1>2, <1>4, <1>7, NodeFacts DEF Draft, Message, Ctx
    <3>5. voted = [q EXCEPT !.msgs = @ \cup {x}]
      <4>1. Send(r, yes) = [r EXCEPT !.msgs = @ \cup {x}]
        BY <3>3 DEF Send
      <4> HIDE DEF x
      <4> QED BY <1>1, <4>1 DEF NodeType
    <3> HIDE DEF x, q, voted
    <3>6. Sound(q, n)
      BY <3>2 DEF Sound
    <3>7. Lawful(r, q, n, sent)
      <4>1. r.committed \in Nat /\ r.log.snap.index \in Nat
        BY <1>1, NodeFacts
      <4>2. Below(r.Term, r.Vote, q.Term, q.Vote)
        BY <1>1, <3>1, <3>2 DEF Below
      <4>3. Backed(r, sent) => Backed(q, sent)
        BY <3>2 DEF Backed
      <4> QED BY <3>2, <3>6, <4>1, <4>2, <4>3 DEF Lawful
    <3>8. Fair(q, x, sent)
      BY <1>7, <3>2, <3>4 DEF Fair, IsGrant, IsBallot, Choice, LeaderTypes
    <3>9. Lawful(q, voted, n, sent)
      <4> DEFINE S == {x}
      <4>1. \A y \in S : Fair(q, y, sent)
        BY <3>8
      <4>2. voted = [q EXCEPT !.msgs = @ \cup S]
        BY <3>5
      <4> HIDE DEF S
      <4> QED BY <3>6, <4>1, <4>2, SendsLawful
    <3> QED BY <3>2, <3>7, <3>9, LawfulFirst
  <2> QED BY <1>5, <2>1, <2>2
<1> QED BY <1>6, <1>7

-----------------------------------------------------------------------------
(* Campaigns.                                                              *)

\* reset at the term the member is at keeps the vote.
LEMMA BecomeLeaderLawful ==
  ASSUME NEW n \in Nat, NEW r, Sound(r, n), r.id \notin Learners, r.Term > 0,
         NEW sent, Backed(r, sent) => Won(sent, r.id, r.Term)
  PROVE  /\ Lawful(r, BecomeLeader(r), n, sent)
         /\ BecomeLeader(r).state = "Leader"
<1> DEFINE last == LastIndex(r.log)
           fresh == [s \in Server |->
                       IF s = r.id
                       THEN BecomeReplicate(NewProgress(last, last + 1))
                       ELSE NewProgress(0, last + 1)]
           p == [Reset(r, r.Term) EXCEPT !.lead = r.id, !.state = "Leader",
                                         !.prs = fresh]
<1>1. /\ r \in NodeType /\ r.id \in Server /\ r.committed \in Nat
      /\ r.log.snap.index \in Nat /\ last \in Nat /\ last + 1 \in Nat
  BY NodeFacts, LogFacts DEF Sound
<1>2. fresh \in [Server -> ProgressType]
  <2> HIDE DEF last
  <2> QED BY <1>1, NewProgressType, BecomeType
<1>3. NoProgress \in [Server -> ProgressType] /\ <<>> \in Seq(ReadRequest)
  BY NewProgressType, EmptySeq DEF NoProgress
<1>4. p = [r EXCEPT !.lead = r.id, !.elapsed = FALSE, !.leadTransferee = None,
                    !.granted = {}, !.rejected = {}, !.prs = fresh,
                    !.readOnly = <<>>, !.state = "Leader"]
  <2> HIDE DEF fresh
  <2> QED BY <1>1 DEF Reset, NodeType
<1>5. /\ p \in NodeType /\ p.msgs = r.msgs /\ p.Vote = r.Vote
      /\ p.id = r.id /\ p.Term = r.Term
      /\ p.state = "Leader" /\ p.granted = {} /\ p.log = r.log
      /\ p.committed = r.committed /\ p.applied = r.applied
      /\ p.panic = r.panic
  <2> HIDE DEF fresh, p
  <2> QED BY <1>1, <1>2, <1>3, <1>4 DEF NodeType, RaftState
<1> HIDE DEF p
<1>6. Sound(p, n)
  BY <1>5 DEF Sound
<1>7. Lawful(r, p, n, sent)
  <2>1. Below(r.Term, r.Vote, p.Term, p.Vote)
    BY <1>5 DEF Below
  <2>2. Backed(r, sent) => Backed(p, sent)
    BY <1>5 DEF Backed
  <2> QED BY <1>1, <1>5, <1>6, <2>1, <2>2 DEF Lawful
<1>8. Quiet(p, AppendEntry(p, NoData), n)
  BY <1>5, <1>6, AppendEntryQuiet
<1>9. BecomeLeader(r) = AppendEntry(p, NoData)
  BY DEF BecomeLeader, p
<1> QED BY <1>5, <1>7, <1>8, <1>9, LawfulThenQuiet DEF Quiet

\* What RecordVote changes.
LEMMA RecordVoteFacts ==
  ASSUME NEW n \in Nat, NEW r, Sound(r, n), NEW i \in Server, NEW v \in BOOLEAN,
         NEW q, q = RecordVote(r, i, v)
  PROVE  /\ Sound(q, n) /\ q.id = r.id /\ q.Term = r.Term /\ q.Vote = r.Vote
         /\ q.state = r.state /\ q.committed = r.committed
         /\ q.log = r.log /\ q.msgs = r.msgs
         /\ q.granted \subseteq r.granted \cup (IF v THEN {i} ELSE {})
<1> DEFINE yes == r.granted \cup {i}
           no == r.rejected \cup {i}
           q1 == [r EXCEPT !.granted = yes]
           q2 == [r EXCEPT !.rejected = no]
<1>1. r \in NodeType /\ yes \in SUBSET Server /\ no \in SUBSET Server
  BY NodeFacts DEF Sound
<1>2. RecordVote(r, i, v) = r \/ RecordVote(r, i, v) = IF v THEN q1 ELSE q2
  BY DEF RecordVote
<1>3. /\ Sound(q1, n) /\ q1.id = r.id /\ q1.Term = r.Term /\ q1.Vote = r.Vote
      /\ q1.state = r.state /\ q1.committed = r.committed
      /\ q1.log = r.log /\ q1.msgs = r.msgs /\ q1.granted = yes
  <2> HIDE DEF yes
  <2>1. /\ q1 \in NodeType
        /\ q1.id = r.id /\ q1.Term = r.Term /\ q1.Vote = r.Vote
        /\ q1.state = r.state /\ q1.granted = yes /\ q1.log = r.log
        /\ q1.committed = r.committed /\ q1.applied = r.applied
        /\ q1.panic = r.panic /\ q1.msgs = r.msgs
    BY <1>1 DEF NodeType
  <2> HIDE DEF q1
  <2> QED BY <2>1 DEF Sound
<1>4. /\ Sound(q2, n) /\ q2.id = r.id /\ q2.Term = r.Term /\ q2.Vote = r.Vote
      /\ q2.state = r.state /\ q2.committed = r.committed
      /\ q2.log = r.log /\ q2.msgs = r.msgs /\ q2.granted = r.granted
  <2> HIDE DEF no
  <2>1. /\ q2 \in NodeType
        /\ q2.id = r.id /\ q2.Term = r.Term /\ q2.Vote = r.Vote
        /\ q2.state = r.state /\ q2.granted = r.granted /\ q2.log = r.log
        /\ q2.committed = r.committed /\ q2.applied = r.applied
        /\ q2.panic = r.panic /\ q2.msgs = r.msgs
    BY <1>1 DEF NodeType
  <2> HIDE DEF q2
  <2> QED BY <2>1 DEF Sound
<1> HIDE DEF q1, q2
<1> QED BY <1>2, <1>3, <1>4

\* A candidate votes for itself in a term of its own.
LEMMA BecomeCandidateFacts ==
  ASSUME NEW n \in Nat, NEW r, Sound(r, n), r.id \notin Learners, NEW sent
  PROVE  LET c == RecordVote(BecomeCandidate(r), r.id, TRUE)
         IN /\ Lawful(r, c, n, sent) /\ Sound(c, n) /\ c.msgs = r.msgs
            /\ c.id = r.id /\ c.Vote = r.id /\ c.Term > 0 /\ c.Term \in Nat
            /\ c.state = "Candidate" /\ c.granted \subseteq {c.id}
<1> DEFINE b == BecomeCandidate(r)
           c == RecordVote(b, r.id, TRUE)
<1>1. /\ r \in NodeType /\ r.id \in Server /\ r.Term \in Nat
      /\ r.Term + 1 \in Nat /\ r.committed \in Nat
      /\ r.log.snap.index \in Nat
  BY NodeFacts DEF Sound
<1>2. NoProgress \in [Server -> ProgressType] /\ <<>> \in Seq(ReadRequest)
  BY NewProgressType, EmptySeq DEF NoProgress
<1>3. b = [r EXCEPT !.Vote = r.id, !.Term = r.Term + 1, !.lead = None,
                    !.elapsed = FALSE, !.leadTransferee = None, !.granted = {},
                    !.rejected = {}, !.prs = NoProgress, !.readOnly = <<>>,
                    !.state = "Candidate"]
  BY <1>1 DEF BecomeCandidate, Reset, NodeType
<1>4. /\ b \in NodeType /\ b.msgs = r.msgs /\ b.Vote = r.id
      /\ b.id = r.id /\ b.Term = r.Term + 1
      /\ b.state = "Candidate" /\ b.granted = {} /\ b.log = r.log
      /\ b.committed = r.committed /\ b.applied = r.applied
      /\ b.panic = r.panic
  <2> DEFINE t == r.Term + 1
  <2> HIDE DEF b, t
  <2>1. t \in Nat
    BY <1>1 DEF t
  <2>2. b = [r EXCEPT !.Vote = r.id, !.Term = t, !.lead = None,
                    !.elapsed = FALSE, !.leadTransferee = None, !.granted = {},
                    !.rejected = {}, !.prs = NoProgress, !.readOnly = <<>>,
                    !.state = "Candidate"]
    BY <1>3 DEF t
  <2>3. /\ b \in NodeType /\ b.msgs = r.msgs /\ b.Vote = r.id
        /\ b.id = r.id /\ b.Term = t
        /\ b.state = "Candidate" /\ b.granted = {} /\ b.log = r.log
        /\ b.committed = r.committed /\ b.applied = r.applied
        /\ b.panic = r.panic
    BY <1>1, <1>2, <2>1, <2>2 DEF NodeType, RaftState
  <2> QED BY <2>3 DEF t
<1> HIDE DEF b
<1>5. Sound(b, n)
  BY <1>1, <1>4 DEF Sound
<1>6. /\ Sound(c, n) /\ c.id = b.id /\ c.Term = b.Term /\ c.Vote = b.Vote
      /\ c.state = b.state /\ c.committed = b.committed
      /\ c.log = b.log /\ c.msgs = b.msgs /\ c.granted \subseteq b.granted \cup {r.id}
  <2> DEFINE v == TRUE
             j == r.id
  <2>1. c = RecordVote(b, j, v) /\ v \in BOOLEAN /\ j \in Server
    BY <1>1
  <2> HIDE DEF c, v, j
  <2>2. /\ Sound(c, n) /\ c.id = b.id /\ c.Term = b.Term /\ c.Vote = b.Vote
        /\ c.state = b.state /\ c.committed = b.committed
        /\ c.log = b.log /\ c.msgs = b.msgs
        /\ c.granted \subseteq b.granted \cup (IF v THEN {j} ELSE {})
    BY <1>5, <2>1, RecordVoteFacts
  <2> QED BY <2>2 DEF v, j
<1> HIDE DEF c
<1>7. Lawful(r, c, n, sent)
  <2>1. Below(r.Term, r.Vote, c.Term, c.Vote)
    BY <1>1, <1>4, <1>6 DEF Below
  <2>2. Backed(c, sent)
    BY <1>4, <1>6 DEF Backed
  <2> QED BY <1>1, <1>4, <1>6, <2>1, <2>2 DEF Lawful
<1>8. /\ Lawful(r, c, n, sent) /\ Sound(c, n) /\ c.msgs = r.msgs
      /\ c.id = r.id /\ c.Vote = r.id /\ c.Term > 0 /\ c.Term \in Nat
      /\ c.state = "Candidate" /\ c.granted \subseteq {c.id}
  BY <1>1, <1>4, <1>6, <1>7
<1> QED BY <1>8 DEF c, b

\* A pre-candidate keeps its term and its vote (raft/raft.go:774-787).
LEMMA BecomePreCandidateFacts ==
  ASSUME NEW n \in Nat, NEW r, Sound(r, n), r.id \notin Learners, NEW sent
  PROVE  LET c == RecordVote(BecomePreCandidate(r), r.id, TRUE)
         IN /\ Lawful(r, c, n, sent) /\ Sound(c, n) /\ c.msgs = r.msgs
            /\ c.id = r.id /\ c.Term = r.Term
<1> DEFINE b == BecomePreCandidate(r)
           c == RecordVote(b, r.id, TRUE)
<1>1. /\ r \in NodeType /\ r.id \in Server /\ r.Term \in Nat
      /\ r.committed \in Nat /\ r.log.snap.index \in Nat
  BY NodeFacts DEF Sound
<1>2. /\ b \in NodeType /\ b.msgs = r.msgs /\ b.Vote = r.Vote
      /\ b.id = r.id /\ b.Term = r.Term
      /\ b.state = "PreCandidate" /\ b.log = r.log
      /\ b.committed = r.committed /\ b.applied = r.applied
      /\ b.panic = r.panic
  BY <1>1 DEF NodeType, RaftState, BecomePreCandidate
<1> HIDE DEF b
<1>3. Sound(b, n)
  BY <1>2 DEF Sound
<1>4. /\ Sound(c, n) /\ c.id = b.id /\ c.Term = b.Term /\ c.Vote = b.Vote
      /\ c.state = b.state /\ c.committed = b.committed
      /\ c.log = b.log /\ c.msgs = b.msgs
  <2> DEFINE v == TRUE
             j == r.id
  <2>1. c = RecordVote(b, j, v) /\ v \in BOOLEAN /\ j \in Server
    BY <1>1
  <2> HIDE DEF c, v, j
  <2> QED BY <1>3, <2>1, RecordVoteFacts
<1> HIDE DEF c
<1>5. Lawful(r, c, n, sent)
  BY <1>1, <1>2, <1>4 DEF Below, Backed, Lawful
<1>6. /\ Lawful(r, c, n, sent) /\ Sound(c, n) /\ c.msgs = r.msgs
      /\ c.id = r.id /\ c.Term = r.Term
  BY <1>2, <1>4, <1>5
<1> QED BY <1>6 DEF c, b

\* An election the tally calls won is won by grants of a quorum (tracker.go:288-309).
LEMMA TallyWon ==
  ASSUME NEW r, TallyVotes(r) = "VoteWon", NEW R, r.granted \subseteq R
  PROVE  IsJointQuorum(Voters, Outgoing, R)
<1>1. IsJointQuorum(Voters, Outgoing, r.granted)
  BY VotingMemberFacts, JointWon DEF TallyVotes
<1> QED BY <1>1, VotingMemberFacts, QuorumMonotone

\* A campaign for a term votes for itself, then asks (raft/raft.go:829-882).
LEMMA CampaignLawful ==
  ASSUME NEW n \in Nat, NEW r, Sound(r, n), r.id \notin Learners, NEW sent,
         NEW ctx \in Ctx
  PROVE  Lawful(r, Campaign(r, ctx), n, sent)
<1> DEFINE c == RecordVote(BecomeCandidate(r), r.id, TRUE)
<1>1. /\ Lawful(r, c, n, sent) /\ Sound(c, n) /\ c.msgs = r.msgs
      /\ c.id = r.id /\ c.Vote = r.id /\ c.Term > 0 /\ c.Term \in Nat
      /\ c.state = "Candidate" /\ c.granted \subseteq {c.id}
  BY BecomeCandidateFacts
<1>2. Campaign(r, ctx) = IF TallyVotes(c) = "VoteWon" THEN BecomeLeader(c)
                         ELSE SendVotes(c, "MsgVote", c.Term, ctx)
  BY DEF Campaign
<1> HIDE DEF c
<1>3. CASE TallyVotes(c) = "VoteWon"
  <2>1. c.id \in VotingMembers
    BY <1>1, VotingMemberFacts, NodeFacts DEF Sound
  <2>2. c.granted \subseteq {c.id} \cup Yes(sent, c.id, c.Term)
    BY <1>1
  <2>3. Won(sent, c.id, c.Term)
    BY <1>3, <2>1, <2>2, TallyWon DEF Won
  <2>4. Lawful(c, BecomeLeader(c), n, sent)
    BY <1>1, <2>3, BecomeLeaderLawful
  <2> QED BY <1>1, <1>2, <1>3, <2>4, LawfulFirst
<1>4. CASE TallyVotes(c) # "VoteWon"
  <2>1. Lawful(c, SendVotes(c, "MsgVote", c.Term, ctx), n, sent)
    BY <1>1, SendVotesLawful
  <2> QED BY <1>1, <1>2, <1>4, <2>1, LawfulFirst
<1> QED BY <1>3, <1>4

\* A pre-vote campaign asks without voting.
LEMMA PreCampaignLawful ==
  ASSUME NEW n \in Nat, NEW r, Sound(r, n), r.id \notin Learners, NEW sent
  PROVE  Lawful(r, PreCampaign(r), n, sent)
<1> DEFINE c == RecordVote(BecomePreCandidate(r), r.id, TRUE)
<1>1. /\ Lawful(r, c, n, sent) /\ Sound(c, n) /\ c.msgs = r.msgs
      /\ c.id = r.id /\ c.Term = r.Term
  BY BecomePreCandidateFacts
<1>2. PreCampaign(r) = IF TallyVotes(c) = "VoteWon" THEN Campaign(c, NoCtx)
                       ELSE SendVotes(c, "MsgPreVote", c.Term + 1, NoCtx)
  BY DEF PreCampaign
<1> HIDE DEF c
<1>3. NoCtx \in Ctx /\ c.Term + 1 \in Nat
  BY <1>1, NodeFacts DEF Ctx, Sound
<1>4. Lawful(c, Campaign(c, NoCtx), n, sent)
  BY <1>1, <1>3, CampaignLawful
<1>5. Lawful(c, SendVotes(c, "MsgPreVote", c.Term + 1, NoCtx), n, sent)
  BY <1>1, <1>3, SendVotesLawful
<1> QED BY <1>1, <1>2, <1>4, <1>5, LawfulFirst

\* MsgHup campaigns, or does nothing (raft/raft.go:978-1003).
LEMMA StepHupLawful ==
  ASSUME NEW n \in Nat, NEW r, Sound(r, n), NEW sent
  PROVE  Lawful(r, StepHup(r), n, sent)
<1>1. Lawful(r, r, n, sent)
  BY QuietRefl, QuietIsLawful
<1>2. Lawful(r, Panic(r, "hup"), n, sent)
  BY PanicQuiet, QuietIsLawful DEF PanicKind
<1>3. NoCtx \in Ctx
  BY DEF Ctx
<1> QED BY <1>1, <1>2, <1>3, CampaignLawful, PreCampaignLawful
        DEF StepHup, Promotable

\* So does a MsgTimeoutNow, past the pre-vote.
LEMMA StepTimeoutNowLawful ==
  ASSUME NEW n \in Nat, NEW r, Sound(r, n), NEW sent, NEW m
  PROVE  Lawful(r, StepTimeoutNow(r, m), n, sent)
<1>1. Lawful(r, r, n, sent)
  BY QuietRefl, QuietIsLawful
<1>2. CampaignTransfer \in Ctx
  BY DEF Ctx
<1> QED BY <1>1, <1>2, CampaignLawful DEF StepTimeoutNow, Promotable

\* A candidate counts an answer that was sent to it in its term.
LEMMA StepVoteRespLawful ==
  ASSUME NEW n \in Nat, NEW r, Sound(r, n), NEW sent \in SUBSET Message,
         NEW m \in sent, m.to = r.id,
         IsGrant(m) /\ r.state = "Candidate" => m.term = r.Term
  PROVE  Lawful(r, StepVoteResp(r, m), n, sent)
<1> DEFINE r1 == RecordVote(r, m.from, ~m.reject)
           b == BecomeLeader(r1)
<1>1. Lawful(r, r, n, sent)
  BY QuietRefl, QuietIsLawful
<1>2. m.from \in Server /\ (~m.reject) \in BOOLEAN
  <2>1. m.from \in Server
    BY MessageFacts
  <2> QED BY <2>1
<1>3. /\ Sound(r1, n) /\ r1.id = r.id /\ r1.Term = r.Term /\ r1.Vote = r.Vote
      /\ r1.state = r.state /\ r1.committed = r.committed
      /\ r1.log = r.log /\ r1.msgs = r.msgs
      /\ r1.granted \subseteq r.granted \cup (IF ~m.reject THEN {m.from} ELSE {})
  <2> DEFINE v == ~m.reject
  <2>1. r1 = RecordVote(r, m.from, v) /\ v \in BOOLEAN
    BY <1>2
  <2> HIDE DEF r1, v
  <2>2. /\ Sound(r1, n) /\ r1.id = r.id /\ r1.Term = r.Term /\ r1.Vote = r.Vote
        /\ r1.state = r.state /\ r1.committed = r.committed
        /\ r1.log = r.log /\ r1.msgs = r.msgs
        /\ r1.granted \subseteq r.granted \cup (IF v THEN {m.from} ELSE {})
    BY <1>2, <2>1, RecordVoteFacts
  <2> QED BY <2>2 DEF v
<1>4. CASE <<r.state, m.type>> \notin {<<"PreCandidate", "MsgPreVoteResp">>,
                                       <<"Candidate", "MsgVoteResp">>}
  BY <1>1, <1>4 DEF StepVoteResp
<1>5. CASE \/ r.state = "PreCandidate" /\ m.type = "MsgPreVoteResp"
           \/ r.state = "Candidate" /\ m.type = "MsgVoteResp"
  <2>1. \/ StepVoteResp(r, m) = BecomeFollower(r1, r1.Term, None)
        \/ StepVoteResp(r, m) = r1
        \/ r.state = "PreCandidate" /\ StepVoteResp(r, m) = Campaign(r1, NoCtx)
        \/ /\ r.state = "Candidate" /\ TallyVotes(r1) = "VoteWon"
           /\ StepVoteResp(r, m) = BcastAppend(b)
    <3> HIDE DEF r1
    <3>1. TallyVotes(r1) \in {"VoteWon", "VoteLost", "VotePending"}
      BY DEF TallyVotes, JointVoteResult, MajorityVoteResult
    <3> QED BY <1>5, <3>1 DEF StepVoteResp, r1
  <2> HIDE DEF r1
  <2>2. r.state = "Candidate" =>
          (Backed(r, sent) => r1.granted \subseteq {r.id} \cup Yes(sent, r.id, r.Term))
    <3>1. r.state = "Candidate" /\ ~m.reject => m.from \in Yes(sent, r.id, r.Term)
      BY <1>5 DEF Yes, IsGrant
    <3> QED BY <1>3, <3>1 DEF Backed
  <2>3. Lawful(r, r1, n, sent)
    <3>1. /\ r.committed \in Nat /\ r1.committed \in Nat
          /\ r.log.snap.index \in Nat
      BY <1>3, NodeFacts DEF Sound
    <3>2. Backed(r, sent) => Backed(r1, sent)
      BY <1>3, <1>5, <2>2 DEF Backed
    <3> QED BY <1>3, <3>1, <3>2 DEF Lawful, Below
  <2>4. r1.Term \in Nat /\ r1.Term >= r1.Term /\ r1.id \notin Learners /\ r1.id \in Server
    BY <1>3, <1>5, NodeFacts DEF Sound
  <2>5. Lawful(r, BecomeFollower(r1, r1.Term, None), n, sent)
    <3> DEFINE f == BecomeFollower(r1, r1.Term, None)
    <3>1. Calm(r1, f, n)
      BY <1>3, <2>4, BecomeFollowerCalm
    <3>2. Lawful(r1, f, n, sent)
      BY <1>3, <3>1, CalmIsLawful
    <3> QED BY <1>3, <2>3, <3>2, LawfulFirst
  <2>6. Lawful(r, Campaign(r1, NoCtx), n, sent)
    <3>1. NoCtx \in Ctx
      BY DEF Ctx
    <3>2. Lawful(r1, Campaign(r1, NoCtx), n, sent)
      BY <1>3, <2>4, <3>1, CampaignLawful
    <3> QED BY <1>3, <2>3, <3>2, LawfulFirst
  <2>7. ASSUME r.state = "Candidate", TallyVotes(r1) = "VoteWon"
        PROVE  Lawful(r, BcastAppend(b), n, sent)
    <3>1. r.Term > 0
      BY <2>7 DEF Sound
    <3>2. Backed(r1, sent) => Won(sent, r1.id, r1.Term)
      <4>1. r1.id \in VotingMembers
        BY <2>4, VotingMemberFacts
      <4>2. Backed(r1, sent) =>
              r1.granted \subseteq {r1.id} \cup Yes(sent, r1.id, r1.Term)
        BY <1>3, <2>7 DEF Backed
      <4> QED BY <2>7, <4>1, <4>2, TallyWon DEF Won
    <3>3. Lawful(r1, b, n, sent) /\ b.state = "Leader"
      BY <1>3, <2>4, <3>1, <3>2, BecomeLeaderLawful
    <3>4. Lawful(r, b, n, sent)
      BY <1>3, <2>3, <3>3, LawfulFirst
    <3> HIDE DEF b
    <3>5. Quiet(b, BcastAppend(b), n)
      BY <3>3, BcastAppendQuiet DEF Lawful
    <3> QED BY <3>4, <3>5, LawfulThenQuiet
  <2> QED BY <2>1, <2>3, <2>5, <2>6, <2>7
<1> QED BY <1>4, <1>5

-----------------------------------------------------------------------------
(* Step of a message that is not stale.                                    *)

\* Leaders, candidates and voters are at a term.
GoodMessage(m) ==
  /\ m \in Message
  /\ m.type \in LeaderTypes \cup {"MsgVote"} => m.term > 0
  /\ IsGrant(m) => m.term > 0

\* A member that learns a higher term follows in it, without a vote.
LEMMA AtTermLawful ==
  ASSUME NEW n \in Nat, NEW r, Sound(r, n), NEW m \in Message, NEW sent,
         NEW q, Lawful(AtTerm(r, m), q, n, sent)
  PROVE  Lawful(r, q, n, sent)
<1> DEFINE p == AtTerm(r, m)
<1>1. Calm(r, p, n) /\ p.msgs = r.msgs
  BY AtTermCalm
<1> HIDE DEF p
<1>2. Lawful(r, p, n, sent)
  BY <1>1, CalmIsLawful
<1> QED BY <1>1, <1>2, LawfulFirst DEF p

\* The member is at the term of the message when it comes to handle it.
LEMMA AtTermOfMessage ==
  ASSUME NEW n \in Nat, NEW r, Sound(r, n), NEW m \in Message,
         ~IsStale(r, m), m.term > 0, m.type \notin {"MsgPreVote", "MsgPreVoteResp"}
  PROVE  AtTerm(r, m).Term = m.term
<1>1. m.term \in Nat /\ r.Term \in Nat /\ m.term >= r.Term
  BY MessageFacts, NodeFacts DEF Sound, IsStale
<1>2. CASE m.term = r.Term
  BY <1>1, <1>2, AtTermCalm
<1>3. CASE m.term > r.Term
  BY <1>1, <1>3, AtTermCalm
<1> QED BY <1>1, <1>2, <1>3

\* Whatever the type of the message, the step it leads to is lawful.
LEMMA DeliveredLawful ==
  ASSUME NEW n \in Nat, NEW r, Sound(r, n), r.panic = "none",
         NEW sent \in SUBSET Message, NEW m \in sent, GoodMessage(m),
         m.to = r.id, m.type = "MsgSnap" => m.index <= n, ~IsStale(r, m)
  PROVE  LET p == AtTerm(r, m)
         IN /\ m.type \in {"MsgVote", "MsgPreVote"} =>
                 Lawful(r, StepVote(p, m), n, sent)
            /\ Lawful(r, StepVoteResp(p, m), n, sent)
            /\ m.type = "MsgApp" => Lawful(r, StepApp(p, m), n, sent)
            /\ Lawful(r, StepAppResp(p, m), n, sent)
            /\ m.type = "MsgHeartbeat" => Lawful(r, StepHeartbeat(p, m), n, sent)
            /\ Lawful(r, StepHeartbeatResp(p, m), n, sent)
            /\ m.type = "MsgSnap" => Lawful(r, StepSnap(p, m), n, sent)
            /\ Lawful(r, StepTimeoutNow(p, m), n, sent)
            /\ Lawful(r, StepTransferLeader(p, m.from, m.term), n, sent)
            /\ Lawful(r, StepReadIndex(p, m.ctx, m.from), n, sent)
            /\ Lawful(r, StepReadIndexResp(p, m), n, sent)
            /\ m.type = "MsgProp" => Lawful(r, StepProp(p, m.ents[1].data), n, sent)
<1> DEFINE p == AtTerm(r, m)
<1>1. /\ m \in Message /\ m.from \in Server /\ m.term \in Nat /\ m.ctx \in Ctx
      /\ m.index \in Nat
  BY MessageFacts
<1>2. /\ Sound(p, n) /\ p.panic = "none" /\ p.id = r.id
      /\ p.Term \in Nat
  <2>1. Calm(r, p, n) /\ p.panic = "none"
    BY <1>1, AtTermCalm
  <2> HIDE DEF p
  <2> QED BY <2>1, NodeFacts DEF Calm, Sound
<1>3. m.term > 0 /\ m.type \notin {"MsgPreVote", "MsgPreVoteResp"} => p.Term = m.term
  BY <1>1, AtTermOfMessage
<1>4. ASSUME NEW q, Lawful(p, q, n, sent) PROVE Lawful(r, q, n, sent)
  BY <1>1, <1>4, AtTermLawful
<1>5. m.type \in {"MsgApp", "MsgHeartbeat", "MsgSnap"} => m.term >= p.Term
  BY <1>1, <1>2, <1>3 DEF GoodMessage, LeaderTypes
<1> HIDE DEF p
<1>6. m.type \in {"MsgVote", "MsgPreVote"} => Lawful(p, StepVote(p, m), n, sent)
  BY <1>2, <1>3, StepVoteLawful DEF GoodMessage
<1>7. Lawful(p, StepVoteResp(p, m), n, sent)
  <2>1. IsGrant(m) => m.term = p.Term
    BY <1>1, <1>3 DEF GoodMessage, IsGrant
  <2> QED BY <1>2, <2>1, StepVoteRespLawful
<1>8. m.type = "MsgApp" => Lawful(p, StepApp(p, m), n, sent)
  BY <1>1, <1>2, <1>5, StepAppCalm, CalmIsLawful
<1>9. Lawful(p, StepAppResp(p, m), n, sent)
  BY <1>1, <1>2, StepAppRespQuiet, QuietIsLawful
<1>10. m.type = "MsgHeartbeat" => Lawful(p, StepHeartbeat(p, m), n, sent)
  BY <1>1, <1>2, <1>5, StepHeartbeatCalm, CalmIsLawful
<1>11. Lawful(p, StepHeartbeatResp(p, m), n, sent)
  BY <1>1, <1>2, StepHeartbeatRespQuiet, QuietIsLawful
<1>12. m.type = "MsgSnap" => Lawful(p, StepSnap(p, m), n, sent)
  BY <1>1, <1>2, <1>5, StepSnapCalm, CalmIsLawful
<1>13. Lawful(p, StepTimeoutNow(p, m), n, sent)
  BY <1>2, StepTimeoutNowLawful
<1>14. Lawful(p, StepTransferLeader(p, m.from, m.term), n, sent)
  BY <1>1, <1>2, StepTransferLeaderQuiet, QuietIsLawful
<1>15. Lawful(p, StepReadIndex(p, m.ctx, m.from), n, sent)
  BY <1>1, <1>2, StepReadIndexQuiet, QuietIsLawful
<1>16. Lawful(p, StepReadIndexResp(p, m), n, sent)
  BY <1>1, <1>2, StepReadIndexRespQuiet, QuietIsLawful
<1>17. m.type = "MsgProp" => Lawful(p, StepProp(p, m.ents[1].data), n, sent)
  <2>1. m.type = "MsgProp" => m.ents[1].data \in Value \cup {NoData}
    <3>1. m.ents \in Seq(Entry) /\ (m.type = "MsgProp" => Len(m.ents) = 1)
      BY MessageFacts
    <3>2. m.type = "MsgProp" => m.ents[1] \in Entry
      BY <3>1, ElementOfSeq
    <3> QED BY <3>2 DEF Entry
  <2> QED BY <1>2, <2>1, StepPropQuiet, QuietIsLawful
<1> QED BY <1>4, <1>6, <1>7, <1>8, <1>9, <1>10, <1>11, <1>12, <1>13, <1>14,
           <1>15, <1>16, <1>17 DEF p
=============================================================================
