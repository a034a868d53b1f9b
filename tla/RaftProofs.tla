----------------------------- MODULE RaftProofs -----------------------------
(***************************************************************************)
(* The type invariant of a cluster, for every configuration: TypeOK is     *)
(* strengthened to TypeInv, which also keeps the indexes of every log in   *)
(* order and bounds them by what was handed to state machines, and TypeInv *)
(* is inductive.                                                           *)
(***************************************************************************)
EXTENDS RaftElectionProofs

\* The parts of TypeInv, of a member r, its disk d and its Ready p; n is the
\* number of entries handed to state machines.
NodeOk(i, r, n) == /\ Sound(r, n) /\ r.id = i
                   /\ \A m \in r.msgs : GoodMessage(m)
DiskOk(d, r, n) == /\ d \in DiskType /\ SoundLog(d.log, n)
                   /\ d.log.snap.index <= r.log.snap.index
ReadyOk(p, d, r, n) ==
  /\ p \in ReadyType /\ SoundLog(p.log, n)
  /\ p.pending => /\ p.Commit <= r.committed /\ p.Commit <= n
                  /\ d.log.snap.index <= p.log.snap.index
                  /\ p.log.snap.index <= r.log.snap.index
MemberOk(i, r, d, p, n) == NodeOk(i, r, n) /\ DiskOk(d, r, n) /\ ReadyOk(p, d, r, n)

\* A snapshot on its way is of a state some machine was handed.
NetOk(sent, n) ==
  \A m \in sent : GoodMessage(m) /\ (m.type = "MsgSnap" => m.index <= n)

BoundsOk == /\ budget \in [Event -> Nat]
            /\ readFloor \in [ReadCtx -> Nat \cup {NotAsked}]
            /\ asked \in SUBSET Server

TypeInv ==
  /\ node \in [Server -> NodeType]
  /\ disk \in [Server -> DiskType]
  /\ rd \in [Server -> ReadyType]
  /\ handed \in Seq(Entry)
  /\ BoundsOk
  /\ NetOk(net, Len(handed))
  /\ \A i \in Server : MemberOk(i, node[i], disk[i], rd[i], Len(handed))

\* A step of member i: a lawful one of its raft state machine.
MemberStep(i) ==
  /\ Running(i)
  /\ \E q : Lawful(node[i], q, Len(handed), net) /\ Becomes(i, q)
  /\ UNCHANGED <<disk, rd, handed>>
  /\ net' = net \/ \E m \in net : m.type = "MsgProp" /\ net' = net \ {m}

\* What the invariant says of the messages and of each member.
LEMMA TypeInvFacts ==
  ASSUME TypeInv
  PROVE  /\ Len(handed) \in Nat
         /\ net \in SUBSET Message
         /\ \A m \in net : GoodMessage(m)
         /\ \A m \in net : m.type = "MsgSnap" => m.index <= Len(handed)
         /\ \A i \in Server : Sound(node[i], Len(handed)) /\ node[i].id = i
BY LenProperties DEF TypeInv, NetOk, MemberOk, NodeOk, GoodMessage

-----------------------------------------------------------------------------
(* The kinds of steps.                                                     *)

\* A bound that is spent stays a natural number.
LEMMA SpendType ==
  ASSUME budget \in [Event -> Nat], NEW e \in Event, Spend(e)
  PROVE  budget' \in [Event -> Nat]
<1>1. budget[e] \in Nat /\ budget[e] > 0 /\ budget[e] - 1 \in Nat
  BY DEF Spend
<1> QED BY <1>1 DEF Spend

\* A local step is a lawful step of one member.
LEMMA LocalStepCases ==
  ASSUME TypeInv, LocalStep
  PROVE  BoundsOk' /\ \E i \in Server : MemberStep(i)
<1> DEFINE n == Len(handed)
<1>1. /\ n \in Nat /\ BoundsOk
      /\ \A i \in Server : Sound(node[i], n) /\ node[i].id = i
      /\ Turn \subseteq Server
  BY TypeInvFacts DEF TypeInv, Turn
<1>2. ASSUME NEW e \in Event, Spend(e), UNCHANGED <<readFloor>>,
             asked' \in SUBSET Server
      PROVE  BoundsOk'
  BY <1>1, <1>2, SpendType DEF BoundsOk
<1>3. ASSUME NEW i \in Server, Running(i), NEW q, Lawful(node[i], q, n, net),
             Becomes(i, q), UNCHANGED <<disk, rd, net, handed>>
      PROVE  MemberStep(i)
  BY <1>3 DEF MemberStep
<1>4. asked \in SUBSET Server /\ asked = asked
  BY <1>1 DEF BoundsOk
<1> HIDE DEF n
<1>5. ASSUME NEW i \in Server, Timeout(i)
      PROVE  BoundsOk' /\ MemberStep(i)
  <2> DEFINE p == [node[i] EXCEPT !.elapsed = FALSE]
  <2>1. Quiet(node[i], p, n) /\ p.msgs = node[i].msgs
    BY <1>1, TimerQuiet, NodeFacts DEF Sound, NodeType
  <2>2. Timeout(i) => Becomes(i, StepHup(p))
    BY DEF Timeout
  <2> HIDE DEF p
  <2>3. Lawful(p, StepHup(p), n, net) /\ Lawful(node[i], p, n, net)
    BY <1>1, <2>1, StepHupLawful, QuietIsLawful DEF Quiet
  <2>4. Lawful(node[i], StepHup(p), n, net)
    BY <1>1, <2>1, <2>3, LawfulFirst
  <2>5. "timeout" \in Event
    BY DEF Event
  <2> QED BY <1>2, <1>3, <1>4, <1>5, <2>2, <2>4, <2>5 DEF Timeout, history
<1>6. ASSUME NEW i \in Server, ExpireLease(i)
      PROVE  BoundsOk' /\ MemberStep(i)
  <2> DEFINE p == [node[i] EXCEPT !.elapsed = TRUE]
  <2>1. Quiet(node[i], p, n)
    BY <1>1, TimerQuiet
  <2>2. Lawful(node[i], p, n, net)
    BY <1>1, <2>1, QuietIsLawful
  <2>3. "expire" \in Event
    BY DEF Event
  <2> QED BY <1>2, <1>3, <1>4, <1>6, <2>2, <2>3 DEF ExpireLease, history
<1>7. ASSUME NEW i \in Server, ElectionTick(i)
      PROVE  BoundsOk' /\ MemberStep(i)
  <2>1. Lawful(node[i], TickElectionTimeout(node[i]), n, net)
    BY <1>1, TickElectionTimeoutCalm, CalmIsLawful
  <2>2. "checkquorum" \in Event
    BY DEF Event
  <2> QED BY <1>2, <1>3, <1>4, <1>7, <2>1, <2>2 DEF ElectionTick, history
<1>8. ASSUME NEW i \in Server, HeartbeatTick(i)
      PROVE  BoundsOk' /\ MemberStep(i)
  <2>1. Lawful(node[i], TickBeat(node[i]), n, net)
    BY <1>1, <1>8, TickBeatQuiet, QuietIsLawful DEF HeartbeatTick
  <2>2. "beat" \in Event
    BY DEF Event
  <2> QED BY <1>2, <1>3, <1>4, <1>8, <2>1, <2>2 DEF HeartbeatTick, history
<1>9. ASSUME NEW i \in Server, NEW v \in Value, Propose(i, v)
      PROVE  BoundsOk' /\ MemberStep(i)
  <2>1. Lawful(node[i], StepProp(node[i], v), n, net)
    BY <1>1, StepPropQuiet, QuietIsLawful
  <2>2. "prop" \in Event
    BY DEF Event
  <2> QED BY <1>2, <1>3, <1>4, <1>9, <2>1, <2>2 DEF Propose, history
<1>10. ASSUME NEW i \in Server, NEW c \in ReadCtx, ReadIndex(i, c)
       PROVE  BoundsOk' /\ MemberStep(i)
  <2>1. Lawful(node[i], StepReadIndex(node[i], c, None), n, net)
    BY <1>1, StepReadIndexQuiet, QuietIsLawful DEF Ctx
  <2>2. readFloor' \in [ReadCtx -> Nat \cup {NotAsked}]
    BY <1>1, <1>10 DEF ReadIndex, BoundsOk, n
  <2> QED BY <1>1, <1>3, <1>10, <2>1, <2>2 DEF ReadIndex, BoundsOk
<1>11. ASSUME NEW i \in Server, NEW to \in Server, AskTransfer(i, to)
       PROVE  BoundsOk' /\ MemberStep(i)
  <2>1. Lawful(node[i], StepTransferLeader(node[i], to, 0), n, net)
    BY <1>1, StepTransferLeaderQuiet, QuietIsLawful
  <2>2. "transfer" \in Event /\ asked' \in SUBSET Server
    BY <1>4, <1>11 DEF Event, AskTransfer
  <2> QED BY <1>2, <1>3, <1>11, <2>1, <2>2 DEF AskTransfer
<1>12. ASSUME NEW i \in Server, NEW peer \in Server, ReportUnreachable(i, peer)
       PROVE  BoundsOk' /\ MemberStep(i)
  <2>1. Lawful(node[i], StepUnreachable(node[i], peer), n, net)
    BY <1>1, StepUnreachableQuiet, QuietIsLawful
  <2>2. "unreachable" \in Event
    BY DEF Event
  <2> QED BY <1>2, <1>3, <1>4, <1>12, <2>1, <2>2 DEF ReportUnreachable, history
<1>13. ASSUME NEW i \in Server, NEW peer \in Server, NEW failed \in BOOLEAN,
              ReportSnapshot(i, peer, failed)
       PROVE  BoundsOk' /\ MemberStep(i)
  <2>1. Lawful(node[i], StepSnapStatus(node[i], peer, failed), n, net)
    BY <1>1, StepSnapStatusQuiet, QuietIsLawful
  <2>2. "snapstatus" \in Event
    BY DEF Event
  <2> QED BY <1>2, <1>3, <1>4, <1>13, <2>1, <2>2 DEF ReportSnapshot, history
<1> QED BY <1>1, <1>5, <1>6, <1>7, <1>8, <1>9, <1>10, <1>11, <1>12, <1>13
        DEF LocalStep

\* The delivery of a message is a lawful step of its receiver.
LEMMA MessageStepCases ==
  ASSUME TypeInv, MessageStep
  PROVE  BoundsOk' /\ \E i \in Server : MemberStep(i)
<1> DEFINE n == Len(handed)
<1>1. /\ n \in Nat /\ BoundsOk
      /\ net \in SUBSET Message
      /\ \A m \in net : GoodMessage(m) /\ (m.type = "MsgSnap" => m.index <= n)
      /\ \A i \in Server : Sound(node[i], n) /\ node[i].id = i
      /\ Turn \subseteq Server
  BY TypeInvFacts DEF TypeInv, Turn
<1> HIDE DEF n
<1>2. ASSUME NEW i \in Server, NEW m \in net, m.to = i, NEW q, Deliver(i, m, q),
             Lawful(node[i], q, n, net),
             net' = net \/ (m.type = "MsgProp" /\ net' = net \ {m})
      PROVE  BoundsOk' /\ MemberStep(i)
  <2>1. BoundsOk'
    BY <1>1, <1>2 DEF BoundsOk, Deliver, history
  <2>2. net' = net \/ \E x \in net : x.type = "MsgProp" /\ net' = net \ {x}
    BY <1>2
  <2>3. /\ Running(i) /\ Becomes(i, q) /\ UNCHANGED <<disk, rd, handed>>
    BY <1>2 DEF Deliver, history
  <2> QED BY <1>2, <2>1, <2>2, <2>3 DEF MemberStep, n
<1>3. ASSUME NEW i \in Server, NEW m \in net, m.to = i,
             Running(i), ~IsStale(node[i], m)
      PROVE  LET p == AtTerm(node[i], m)
             IN /\ m.type \in {"MsgVote", "MsgPreVote"} =>
                     Lawful(node[i], StepVote(p, m), n, net)
                /\ Lawful(node[i], StepVoteResp(p, m), n, net)
                /\ m.type = "MsgApp" => Lawful(node[i], StepApp(p, m), n, net)
                /\ Lawful(node[i], StepAppResp(p, m), n, net)
                /\ m.type = "MsgHeartbeat" =>
                     Lawful(node[i], StepHeartbeat(p, m), n, net)
                /\ Lawful(node[i], StepHeartbeatResp(p, m), n, net)
                /\ m.type = "MsgSnap" => Lawful(node[i], StepSnap(p, m), n, net)
                /\ Lawful(node[i], StepTimeoutNow(p, m), n, net)
                /\ Lawful(node[i], StepTransferLeader(p, m.from, m.term), n, net)
                /\ Lawful(node[i], StepReadIndex(p, m.ctx, m.from), n, net)
                /\ Lawful(node[i], StepReadIndexResp(p, m), n, net)
                /\ m.type = "MsgProp" =>
                     Lawful(node[i], StepProp(p, m.ents[1].data), n, net)
  BY <1>1, <1>3, DeliveredLawful DEF Running
<1>4. ASSUME NEW i \in Server, NEW m \in net, NEW q, Deliver(i, m, q)
      PROVE  Running(i) /\ ~IsStale(node[i], m)
  BY <1>4 DEF Deliver
<1>5. \A i, types : \A m \in MailTo(i, types) :
        m \in net /\ m.to = i /\ m.type \in types
  BY DEF MailTo
<1>6. ASSUME NEW i \in Server, NEW m \in MailTo(i, MessageType), RejectStale(i, m)
      PROVE  BoundsOk' /\ MemberStep(i)
  <2>1. Lawful(node[i], StepStale(node[i], m), n, net)
    BY <1>1, <1>5, StepStaleQuiet, QuietIsLawful
  <2>2. BoundsOk'
    BY <1>1, <1>6 DEF BoundsOk, RejectStale, history
  <2> QED BY <1>6, <2>1, <2>2 DEF RejectStale, MemberStep, n, history
<1>7. ASSUME NEW i \in Server, NEW m \in MailTo(i, {"MsgVote", "MsgPreVote"}),
             HandleVote(i, m)
      PROVE  BoundsOk' /\ MemberStep(i)
  BY <1>2, <1>3, <1>4, <1>5, <1>7 DEF HandleVote
<1>8. ASSUME NEW i \in Server,
             NEW m \in MailTo(i, {"MsgVoteResp", "MsgPreVoteResp"}),
             HandleVoteResp(i, m)
      PROVE  BoundsOk' /\ MemberStep(i)
  BY <1>2, <1>3, <1>4, <1>5, <1>8 DEF HandleVoteResp
<1>9. ASSUME NEW i \in Server, NEW m \in MailTo(i, {"MsgApp"}), HandleApp(i, m)
      PROVE  BoundsOk' /\ MemberStep(i)
  BY <1>2, <1>3, <1>4, <1>5, <1>9 DEF HandleApp
<1>10. ASSUME NEW i \in Server, NEW m \in MailTo(i, {"MsgAppResp"}),
              HandleAppResp(i, m)
       PROVE  BoundsOk' /\ MemberStep(i)
  BY <1>2, <1>3, <1>4, <1>5, <1>10 DEF HandleAppResp
<1>11. ASSUME NEW i \in Server, NEW m \in MailTo(i, {"MsgHeartbeat"}),
              HandleHeartbeat(i, m)
       PROVE  BoundsOk' /\ MemberStep(i)
  BY <1>2, <1>3, <1>4, <1>5, <1>11 DEF HandleHeartbeat
<1>12. ASSUME NEW i \in Server, NEW m \in MailTo(i, {"MsgHeartbeatResp"}),
              HandleHeartbeatResp(i, m)
       PROVE  BoundsOk' /\ MemberStep(i)
  BY <1>2, <1>3, <1>4, <1>5, <1>12 DEF HandleHeartbeatResp
<1>13. ASSUME NEW i \in Server, NEW m \in MailTo(i, {"MsgSnap"}), HandleSnap(i, m)
       PROVE  BoundsOk' /\ MemberStep(i)
  BY <1>2, <1>3, <1>4, <1>5, <1>13 DEF HandleSnap
<1>14. ASSUME NEW i \in Server, NEW m \in MailTo(i, {"MsgTimeoutNow"}),
              HandleTimeoutNow(i, m)
       PROVE  BoundsOk' /\ MemberStep(i)
  BY <1>2, <1>3, <1>4, <1>5, <1>14 DEF HandleTimeoutNow
<1>15. ASSUME NEW i \in Server, NEW m \in MailTo(i, {"MsgTransferLeader"}),
              HandleTransferLeader(i, m)
       PROVE  BoundsOk' /\ MemberStep(i)
  BY <1>2, <1>3, <1>4, <1>5, <1>15 DEF HandleTransferLeader
<1>16. ASSUME NEW i \in Server, NEW m \in MailTo(i, {"MsgReadIndex"}),
              HandleReadIndex(i, m)
       PROVE  BoundsOk' /\ MemberStep(i)
  BY <1>2, <1>3, <1>4, <1>5, <1>16 DEF HandleReadIndex
<1>17. ASSUME NEW i \in Server, NEW m \in MailTo(i, {"MsgReadIndexResp"}),
              HandleReadIndexResp(i, m)
       PROVE  BoundsOk' /\ MemberStep(i)
  BY <1>2, <1>3, <1>4, <1>5, <1>17 DEF HandleReadIndexResp
<1>18. ASSUME NEW i \in Server, NEW m \in MailTo(i, {"MsgProp"}), HandleProp(i, m)
       PROVE  BoundsOk' /\ MemberStep(i)
  BY <1>2, <1>3, <1>4, <1>5, <1>18 DEF HandleProp
<1> QED BY <1>1, <1>6, <1>7, <1>8, <1>9, <1>10, <1>11, <1>12, <1>13, <1>14,
           <1>15, <1>16, <1>17, <1>18 DEF MessageStep

-----------------------------------------------------------------------------
(* What one member writes.                                                 *)

Writes(i, r, d, p) == /\ node' = [node EXCEPT ![i] = r]
                      /\ disk' = [disk EXCEPT ![i] = d]
                      /\ rd' = [rd EXCEPT ![i] = p]

\* What is handed over only grows: what is bounded by it stays so.
LEMMA MonotoneOk ==
  ASSUME NEW n \in Nat, NEW k \in Nat, k >= n
  PROVE  /\ \A log : SoundLog(log, n) => SoundLog(log, k)
         /\ \A i, r, d, p : MemberOk(i, r, d, p, n) => MemberOk(i, r, d, p, k)
         /\ \A sent : NetOk(sent, n) => NetOk(sent, k)
<1>1. ASSUME NEW log, SoundLog(log, n) PROVE SoundLog(log, k)
  BY <1>1, LogFacts DEF SoundLog
<1>2. ASSUME NEW r, Sound(r, n) PROVE Sound(r, k)
  BY <1>1, <1>2, NodeFacts DEF Sound
<1>3. ASSUME NEW p \in ReadyType PROVE p.Commit \in Nat
  BY DEF ReadyType
<1>4. ASSUME NEW i, NEW r, NEW d, NEW p, MemberOk(i, r, d, p, n)
      PROVE  MemberOk(i, r, d, p, k)
  <2>1. NodeOk(i, r, k)
    BY <1>2, <1>4 DEF MemberOk, NodeOk
  <2>2. DiskOk(d, r, k)
    BY <1>1, <1>4 DEF MemberOk, DiskOk
  <2>3. ReadyOk(p, d, r, k)
    BY <1>1, <1>3, <1>4 DEF MemberOk, ReadyOk
  <2> QED BY <2>1, <2>2, <2>3 DEF MemberOk
<1>5. ASSUME NEW sent, NetOk(sent, n) PROVE NetOk(sent, k)
  <2>1. ASSUME NEW m \in sent PROVE m.index \in Nat /\ NetOk(sent, n)
    BY <1>5, MessageFacts DEF NetOk, GoodMessage
  <2> QED BY <2>1 DEF NetOk
<1> QED BY <1>1, <1>4, <1>5

\* A step that writes one member keeps the invariant of the others.
LEMMA WritesOk ==
  ASSUME TypeInv, BoundsOk', handed' \in Seq(Entry),
         Len(handed') >= Len(handed), NetOk(net', Len(handed')),
         NEW i \in Server, NEW r, NEW d, NEW p, Writes(i, r, d, p),
         MemberOk(i, r, d, p, Len(handed'))
  PROVE  TypeInv'
<1>1. Len(handed) \in Nat /\ Len(handed') \in Nat
  BY LenProperties DEF TypeInv
<1>2. r \in NodeType /\ d \in DiskType /\ p \in ReadyType
  BY DEF MemberOk, NodeOk, DiskOk, ReadyOk, Sound
<1>3. /\ node' \in [Server -> NodeType] /\ disk' \in [Server -> DiskType]
      /\ rd' \in [Server -> ReadyType]
  BY <1>2 DEF TypeInv, Writes
<1>4. ASSUME NEW j \in Server
      PROVE  MemberOk(j, node'[j], disk'[j], rd'[j], Len(handed'))
  <2>1. CASE j = i
    BY <2>1 DEF TypeInv, Writes
  <2>2. CASE j # i
    <3>1. node'[j] = node[j] /\ disk'[j] = disk[j] /\ rd'[j] = rd[j]
      BY <2>2 DEF TypeInv, Writes
    <3>2. MemberOk(j, node[j], disk[j], rd[j], Len(handed))
      BY DEF TypeInv
    <3> QED BY <1>1, <3>1, <3>2, MonotoneOk
  <2> QED BY <2>1, <2>2
<1> QED BY <1>3, <1>4 DEF TypeInv

\* Taking from the outbox, and from the reads that are answered.
LEMMA OutboxFacts ==
  ASSUME NEW n \in Nat, NEW i, NEW r, NodeOk(i, r, n), NEW T \in SUBSET r.msgs
  PROVE  LET q == [r EXCEPT !.msgs = T]
         IN /\ NodeOk(i, q, n) /\ q.id = r.id /\ q.Term = r.Term
            /\ q.Vote = r.Vote /\ q.state = r.state /\ q.granted = r.granted
            /\ q.log = r.log /\ q.committed = r.committed
            /\ q.applied = r.applied /\ q.panic = r.panic /\ q.msgs = T
<1> DEFINE q == [r EXCEPT !.msgs = T]
<1>1. r \in NodeType /\ T \in SUBSET Message
  BY NodeFacts DEF NodeOk, Sound
<1>2. /\ q \in NodeType /\ q.id = r.id /\ q.Term = r.Term
      /\ q.Vote = r.Vote /\ q.state = r.state /\ q.granted = r.granted
      /\ q.log = r.log /\ q.committed = r.committed
      /\ q.applied = r.applied /\ q.panic = r.panic /\ q.msgs = T
  BY <1>1 DEF NodeType
<1> HIDE DEF q
<1>3. NodeOk(i, q, n)
  BY <1>2 DEF NodeOk, Sound
<1> QED BY <1>2, <1>3 DEF q

\* A lawful step keeps what is required of messages.
LEMMA LawfulOk ==
  ASSUME NEW n \in Nat, NEW i, NEW r, NodeOk(i, r, n), NEW sent, NetOk(sent, n),
         NEW q, Lawful(r, q, n, sent)
  PROVE  NodeOk(i, q, n)
<1>1. ASSUME NEW m \in q.msgs, Fair(q, m, sent) PROVE GoodMessage(m)
  <2>1. Sound(q, n)
    BY DEF Lawful
  <2>2. m.type \in LeaderTypes \cup {"MsgVote"} => m.term > 0
    <3>1. m.type \in LeaderTypes => m.term > 0
      BY <1>1, <2>1 DEF Fair, Sound
    <3>2. m.type = "MsgVote" => m.term > 0
      BY <1>1 DEF Fair, IsBallot
    <3> QED BY <3>1, <3>2
  <2>3. IsGrant(m) => m.term > 0
    BY <1>1 DEF Fair, NetOk, GoodMessage
  <2> QED BY <1>1, <2>2, <2>3 DEF Fair, GoodMessage
<1> QED BY <1>1 DEF NodeOk, Lawful

\* A lawful step of a member keeps the invariant.
LEMMA MemberStepOk ==
  ASSUME TypeInv, BoundsOk', NEW i \in Server, MemberStep(i)
  PROVE  TypeInv'
<1> DEFINE n == Len(handed)
<1>1. PICK q : Lawful(node[i], q, n, net) /\ Becomes(i, q)
  BY DEF MemberStep
<1> DEFINE p == [q EXCEPT !.msgs = q.msgs \ net]
<1>2. /\ n \in Nat /\ handed' = handed /\ handed \in Seq(Entry)
      /\ MemberOk(i, node[i], disk[i], rd[i], n) /\ NetOk(net, n)
  BY TypeInvFacts DEF TypeInv, MemberStep
<1>3. /\ Writes(i, p, disk[i], rd[i])
  BY <1>1 DEF Writes, TypeInv, MemberStep, Becomes
<1>4. NetOk(net', n)
  BY <1>2 DEF MemberStep, NetOk
<1> HIDE DEF n
<1>5. NodeOk(i, q, n)
  BY <1>1, <1>2, LawfulOk DEF MemberOk
<1>6. NodeOk(i, p, n) /\ p.log = q.log /\ p.committed = q.committed
  <2> DEFINE T == q.msgs \ net
  <2>1. T \in SUBSET q.msgs
    OBVIOUS
  <2> HIDE DEF T
  <2>2. /\ NodeOk(i, [q EXCEPT !.msgs = T], n)
        /\ [q EXCEPT !.msgs = T].log = q.log
        /\ [q EXCEPT !.msgs = T].committed = q.committed
    BY <1>2, <1>5, <2>1, OutboxFacts
  <2> QED BY <2>2 DEF T
<1> HIDE DEF p
<1>7. /\ node[i].committed \in Nat /\ node[i].log.snap.index \in Nat
      /\ q.committed \in Nat /\ q.log.snap.index \in Nat
      /\ q.committed >= node[i].committed
      /\ q.log.snap.index >= node[i].log.snap.index
  BY <1>1, <1>2, <1>5, NodeFacts DEF MemberOk, NodeOk, Sound, Lawful
<1>8. /\ disk[i].log.snap.index \in Nat /\ rd[i].log.snap.index \in Nat
      /\ rd[i].Commit \in Nat
  BY <1>2, LogFacts DEF MemberOk, DiskOk, ReadyOk, SoundLog, ReadyType
<1>9. DiskOk(disk[i], p, n)
  BY <1>2, <1>6, <1>7, <1>8 DEF MemberOk, DiskOk
<1>10. ReadyOk(rd[i], disk[i], p, n)
  BY <1>2, <1>6, <1>7, <1>8 DEF MemberOk, ReadyOk
<1>11. MemberOk(i, p, disk[i], rd[i], n)
  BY <1>6, <1>9, <1>10 DEF MemberOk
<1>12. Len(handed') = n /\ n >= n
  BY <1>2 DEF n
<1> QED BY <1>2, <1>3, <1>4, <1>11, <1>12, WritesOk DEF n

-----------------------------------------------------------------------------
(* The Ready loop.                                                         *)

\* The log a WAL would read back is sound, with the same snapshot.
LEMMA DurableFacts ==
  ASSUME NEW n \in Nat, NEW log, SoundLog(log, n)
  PROVE  SoundLog(Durable(log), n) /\ Durable(log).snap = log.snap
<1>1. log.snap.index \in Nat /\ log.offset \in Nat /\ log \in Log
  BY LogFacts DEF SoundLog
<1>2. CASE log.offset < log.snap.index
  <2>1. Durable(log) = Compacted(log, log.snap.index)
    BY <1>2 DEF Durable
  <2>2. /\ Compacted(log, log.snap.index) \in Log
        /\ Compacted(log, log.snap.index).offset = log.snap.index
        /\ Compacted(log, log.snap.index).snap = log.snap
    BY <1>1, <1>2, CompactedFacts
  <2> QED BY <1>1, <2>1, <2>2 DEF SoundLog
<1>3. CASE ~(log.offset < log.snap.index)
  BY <1>3 DEF Durable
<1> QED BY <1>2, <1>3

\* What a Ready asks to save is of the member as it is.
LEMMA ImageFacts ==
  ASSUME NEW n \in Nat, NEW r, Sound(r, n)
  PROVE  /\ Image(r) \in ReadyType /\ SoundLog(Image(r).log, n)
         /\ Image(r).log.snap = r.log.snap /\ Image(r).Commit = r.committed
         /\ Image(r).Term = r.Term /\ Image(r).Vote = r.Vote
         /\ Image(r).pending
<1>1. SoundLog(Durable(r.log), n) /\ Durable(r.log).snap = r.log.snap
  BY DurableFacts DEF Sound
<1>2. /\ r.Term \in Nat /\ r.Vote \in Server \cup {None} /\ r.committed \in Nat
      /\ Durable(r.log) \in Log
  BY <1>1, NodeFacts DEF Sound, SoundLog
<1> QED BY <1>1, <1>2 DEF Image, ReadyType

\* WAL.Save leaves on disk what it was given.
LEMMA SavedFacts ==
  ASSUME NEW d \in DiskType, NEW img \in ReadyType
  PROVE  /\ Saved(d, img) \in DiskType /\ Saved(d, img).log = img.log
         /\ Saved(d, img).Term = img.Term /\ Saved(d, img).Vote = img.Vote
<1> DEFINE mustSync == \/ img.Term # d.Term \/ img.Vote # d.Vote
                       \/ img.log # d.log
           older == IF mustSync THEN {} ELSE (d.older \cup {d.Commit}) \ {img.Commit}
<1>1. older \in SUBSET Nat
  <2> HIDE DEF mustSync
  <2> QED BY DEF DiskType
<1>2. Saved(d, img) = [Term |-> img.Term, Vote |-> img.Vote, Commit |-> img.Commit,
                       log |-> img.log, older |-> older]
  BY DEF Saved
<1> HIDE DEF older
<1> QED BY <1>1, <1>2 DEF DiskType, ReadyType

\* Everything a running member takes for committed is handed over, in order.
LEMMA HandOverFacts ==
  ASSUME handed \in Seq(Entry), NEW r, Sound(r, Len(handed)), r.panic = "none",
         HandOver(r)
  PROVE  /\ handed' \in Seq(Entry)
         /\ Len(handed') \in Nat /\ Len(handed') >= Len(handed)
         /\ r.committed <= Len(handed')
<1> DEFINE n == Len(handed)
           new == SubSeq(r.log.ents, Len(handed) + 1 - r.log.offset,
                         r.committed - r.log.offset)
<1>1. /\ n \in Nat /\ r.committed \in Nat /\ r.log \in Log
      /\ r.log.offset \in Nat /\ r.log.ents \in Seq(Entry)
      /\ Len(r.log.ents) \in Nat /\ r.log.snap.index \in Nat
      /\ LastIndex(r.log) = r.log.offset + Len(r.log.ents)
      /\ r.log.offset <= n /\ r.committed <= LastIndex(r.log)
  <2>1. n \in Nat /\ r \in NodeType
    BY LenProperties DEF Sound
  <2>2. /\ r.log \in Log /\ r.committed \in Nat /\ r.committed <= LastIndex(r.log)
        /\ r.log.offset <= r.log.snap.index /\ r.log.snap.index <= n
    BY <2>1, NodeFacts DEF Sound, SoundLog
  <2> QED BY <2>1, <2>2, LogFacts
<1>2. CASE r.committed <= n
  BY <1>1, <1>2 DEF HandOver
<1>3. CASE ~(r.committed <= n)
  <2>1. handed' = handed \o new
    BY <1>3 DEF HandOver
  <2> DEFINE lo == Len(handed) + 1 - r.log.offset
             hi == r.committed - r.log.offset
  <2>2. /\ lo \in Int /\ hi \in Int /\ lo >= 1 /\ hi <= Len(r.log.ents)
        /\ lo <= hi /\ hi - lo + 1 = r.committed - n
    <3>1. ASSUME NEW o \in Nat, NEW c \in Nat, NEW l \in Nat, NEW e \in Nat,
                 o <= l, c <= o + e, ~(c <= l)
          PROVE  /\ l + 1 - o \in Int /\ c - o \in Int /\ l + 1 - o >= 1
                 /\ c - o <= e /\ l + 1 - o <= c - o
                 /\ (c - o) - (l + 1 - o) + 1 = c - l
      BY <3>1
    <3>2. r.committed <= r.log.offset + Len(r.log.ents)
      BY <1>1
    <3> DEFINE o == r.log.offset
               c == r.committed
               e == Len(r.log.ents)
    <3>3. /\ o \in Nat /\ c \in Nat /\ n \in Nat /\ e \in Nat
          /\ o <= n /\ c <= o + e /\ ~(c <= n)
      BY <1>1, <1>3, <3>2
    <3>4. lo = n + 1 - o /\ hi = c - o
      OBVIOUS
    <3> HIDE DEF o, c, n, e, lo, hi
    <3>5. /\ lo \in Int /\ hi \in Int /\ lo >= 1 /\ hi <= e
          /\ lo <= hi /\ hi - lo + 1 = c - n
      BY <3>1, <3>3, <3>4
    <3> QED BY <3>5 DEF c, e
  <2>3. new \in Seq(Entry) /\ Len(new) = r.committed - n
    <3>1. new = SubSeq(r.log.ents, lo, hi)
      OBVIOUS
    <3> HIDE DEF lo, hi, new
    <3>2. /\ SubSeq(r.log.ents, lo, hi) \in Seq(Entry)
          /\ Len(SubSeq(r.log.ents, lo, hi)) = hi - lo + 1
      BY <1>1, <2>2, SubSeqOfEntries
    <3> QED BY <2>2, <3>1, <3>2
  <2> HIDE DEF new, lo, hi
  <2>4. handed' \in Seq(Entry) /\ Len(handed') = n + Len(new)
    BY <2>1, <2>3, ConcatProperties
  <2> QED BY <1>1, <1>3, <2>3, <2>4
<1> QED BY <1>2, <1>3

\* A message that leaves differs from the one of the outbox in its index only.
LEMMA OutgoingFacts ==
  ASSUME NEW n, NEW r, Sound(r, n), NEW k \in Nat, NEW x \in Outgoings(r, k)
  PROVE  /\ x \in Message /\ (x.type = "MsgSnap" => x.index = k)
         /\ \E m \in r.msgs : /\ x.type = m.type /\ x.from = m.from /\ x.to = m.to
                              /\ x.term = m.term /\ x.reject = m.reject
<1>1. PICK m \in r.msgs : x = IF m.type = "MsgSnap"
            THEN [m EXCEPT !.index = k, !.logTerm = LogTerm(r.log, k)] ELSE m
  BY DEF Outgoings
<1>2. m \in Message /\ LogTerm(r.log, k) \in Nat
  BY NodeFacts, TermFacts DEF Sound
<1>3. CASE m.type = "MsgSnap"
  <2> DEFINE t == LogTerm(r.log, k)
             y == [m EXCEPT !.index = k, !.logTerm = t]
  <2>1. t \in Nat /\ x = y
    BY <1>1, <1>2, <1>3
  <2> HIDE DEF t
  <2>2. /\ y \in Message /\ y.index = k
        /\ y.type = m.type /\ y.from = m.from /\ y.to = m.to
        /\ y.term = m.term /\ y.reject = m.reject
    BY <1>2, <2>1 DEF Message
  <2> HIDE DEF y
  <2> QED BY <2>1, <2>2
<1>4. CASE m.type # "MsgSnap"
  BY <1>1, <1>2, <1>4
<1> QED BY <1>3, <1>4

\* The messages of a Ready are good ones, a snapshot being of a state handed over.
LEMMA SendReadyOk ==
  ASSUME NEW n \in Nat, NEW i, NEW r, NodeOk(i, r, n), NetOk(net, n),
         NEW k \in Nat, k >= n, r.committed <= k, SendReady(r)
  PROVE  NetOk(net', k)
<1>1. PICK j \in r.log.snap.index..r.committed : net' = net \cup Outgoings(r, j)
  BY DEF SendReady
<1>2. j \in Nat /\ j <= k
  BY NodeFacts DEF NodeOk, Sound
<1>3. ASSUME NEW x \in Outgoings(r, j)
      PROVE  GoodMessage(x) /\ (x.type = "MsgSnap" => x.index <= k)
  <2>1. /\ x \in Message /\ (x.type = "MsgSnap" => x.index = j)
        /\ \E m \in r.msgs : /\ x.type = m.type /\ x.from = m.from /\ x.to = m.to
                             /\ x.term = m.term /\ x.reject = m.reject
    BY <1>2, OutgoingFacts DEF NodeOk
  <2> QED BY <1>2, <2>1 DEF NodeOk, GoodMessage, IsGrant
<1>4. NetOk(net, k)
  BY MonotoneOk
<1> QED BY <1>1, <1>3, <1>4 DEF NetOk

\* The member after its messages and reads are taken (TakenBy), after it has
\* applied up to a as well (TakenAndApplied), and after it has only applied.
TakenBy(r, sent) ==
  [[r EXCEPT !.msgs = {}, !.readStates = {}] EXCEPT !.msgs = @ \ sent]
TakenAndApplied(r, a, sent) ==
  [[r EXCEPT !.msgs = {}, !.readStates = {}, !.applied = a] EXCEPT !.msgs = @ \ sent]
Applied(r, a, sent) == [[r EXCEPT !.applied = a] EXCEPT !.msgs = @ \ sent]

\* The fields of r but its outbox, its reads and its applied index.
Same(q, r) == /\ q.log = r.log /\ q.committed = r.committed
              /\ q.Term = r.Term /\ q.Vote = r.Vote /\ q.state = r.state
              /\ q.granted = r.granted /\ q.id = r.id

\* Taking the outbox and the reads, and applying, change nothing else.
LEMMA TakenOk ==
  ASSUME NEW n \in Nat, NEW i, NEW r, NodeOk(i, r, n), NEW sent,
         NEW a \in Nat, a <= n, r.panic = "none" => a <= r.committed
  PROVE  /\ /\ NodeOk(i, TakenAndApplied(r, a, sent), n)
            /\ Same(TakenAndApplied(r, a, sent), r)
            /\ TakenAndApplied(r, a, sent).msgs = {}
         /\ /\ NodeOk(i, TakenBy(r, sent), n)
            /\ Same(TakenBy(r, sent), r)
            /\ TakenBy(r, sent).msgs = {}
         /\ /\ NodeOk(i, Applied(r, a, sent), n)
            /\ Same(Applied(r, a, sent), r)
            /\ Applied(r, a, sent).msgs = r.msgs \ sent
<1> DEFINE T == r.msgs \ sent
           q1 == TakenAndApplied(r, a, sent)
           q2 == TakenBy(r, sent)
           q3 == Applied(r, a, sent)
<1>1. r \in NodeType /\ T \in SUBSET Message
  BY NodeFacts DEF NodeOk, Sound
<1>2. /\ q1 = [r EXCEPT !.msgs = {}, !.readStates = {}, !.applied = a]
      /\ q2 = [r EXCEPT !.msgs = {}, !.readStates = {}]
      /\ q3 = [r EXCEPT !.applied = a, !.msgs = T]
  BY <1>1 DEF NodeType, TakenAndApplied, TakenBy, Applied
<1> HIDE DEF T, q1, q2, q3
<1>3. /\ q1 \in NodeType /\ q1.id = r.id /\ q1.Term = r.Term
      /\ q1.Vote = r.Vote /\ q1.state = r.state /\ q1.granted = r.granted
      /\ q1.log = r.log /\ q1.committed = r.committed
      /\ q1.applied = a /\ q1.panic = r.panic /\ q1.msgs = {}
  BY <1>1, <1>2 DEF NodeType
<1>4. /\ q2 \in NodeType /\ q2.id = r.id /\ q2.Term = r.Term
      /\ q2.Vote = r.Vote /\ q2.state = r.state /\ q2.granted = r.granted
      /\ q2.log = r.log /\ q2.committed = r.committed
      /\ q2.applied = r.applied /\ q2.panic = r.panic /\ q2.msgs = {}
  BY <1>1, <1>2 DEF NodeType
<1>5. /\ q3 \in NodeType /\ q3.id = r.id /\ q3.Term = r.Term
      /\ q3.Vote = r.Vote /\ q3.state = r.state /\ q3.granted = r.granted
      /\ q3.log = r.log /\ q3.committed = r.committed
      /\ q3.applied = a /\ q3.panic = r.panic /\ q3.msgs = T
  BY <1>1, <1>2 DEF NodeType
<1>6. NodeOk(i, q1, n)
  BY <1>3 DEF NodeOk, Sound
<1>7. NodeOk(i, q2, n)
  BY <1>4 DEF NodeOk, Sound
<1>8. NodeOk(i, q3, n)
  BY <1>5 DEF NodeOk, Sound, T
<1>9. NodeOk(i, q1, n) /\ Same(q1, r) /\ q1.msgs = {}
  BY <1>3, <1>6 DEF Same
<1>10. NodeOk(i, q2, n) /\ Same(q2, r) /\ q2.msgs = {}
  BY <1>4, <1>7 DEF Same
<1>11. NodeOk(i, q3, n) /\ Same(q3, r) /\ q3.msgs = r.msgs \ sent
  BY <1>5, <1>8 DEF Same, T
<1> QED BY <1>9, <1>10, <1>11 DEF q1, q2, q3

-----------------------------------------------------------------------------
(* The steps that write the disk.                                          *)

\* The indexes of a member are natural numbers, in the order the invariant asks.
LEMMA MemberIndexes ==
  ASSUME TypeInv, NEW i \in Server
  PROVE  /\ MemberOk(i, node[i], disk[i], rd[i], Len(handed))
         /\ node[i] \in NodeType /\ disk[i] \in DiskType /\ rd[i] \in ReadyType
         /\ Len(handed) \in Nat /\ handed \in Seq(Entry)
         /\ NodeOk(i, node[i], Len(handed)) /\ Sound(node[i], Len(handed))
         /\ node[i].committed \in Nat /\ node[i].applied \in Nat
         /\ node[i].log.snap.index \in Nat /\ disk[i].log.snap.index \in Nat
         /\ rd[i].log.snap.index \in Nat /\ rd[i].Commit \in Nat
         /\ disk[i].log.snap.index <= node[i].log.snap.index
         /\ NetOk(net, Len(handed))
<1>1. /\ MemberOk(i, node[i], disk[i], rd[i], Len(handed))
      /\ node[i] \in NodeType /\ disk[i] \in DiskType /\ rd[i] \in ReadyType
      /\ Len(handed) \in Nat /\ handed \in Seq(Entry)
      /\ NodeOk(i, node[i], Len(handed)) /\ Sound(node[i], Len(handed))
      /\ NetOk(net, Len(handed))
  BY TypeInvFacts DEF TypeInv, MemberOk, NodeOk
<1>2. /\ disk[i].log \in Log /\ rd[i].log \in Log /\ rd[i].Commit \in Nat
      /\ disk[i].log.snap.index <= node[i].log.snap.index
  BY <1>1 DEF MemberOk, DiskOk, DiskType, ReadyType
<1> QED BY <1>1, <1>2, NodeFacts, LogFacts

\* A leader sends first: what it is about to save is an image of itself.
LEMMA ReadyLeaderOk ==
  ASSUME TypeInv, NEW i \in Server, ReadyLeader(i)
  PROVE  TypeInv'
<1> DEFINE r == node[i]
           k == Len(handed')
           q == TakenBy(r, net)
           p == IF Unsaved(i) \/ node[i].applied < node[i].committed
                THEN Image(r) ELSE rd[i]
<1>1. r.panic = "none" /\ ~rd[i].pending /\ SendReady(r) /\ HandOver(r)
  BY DEF ReadyLeader, Running
<1>2. /\ Len(handed) \in Nat /\ NodeOk(i, r, Len(handed))
      /\ Sound(r, Len(handed)) /\ NetOk(net, Len(handed))
      /\ MemberOk(i, r, disk[i], rd[i], Len(handed))
      /\ r.committed \in Nat /\ r.log.snap.index \in Nat
      /\ r.applied \in Nat /\ handed \in Seq(Entry)
  BY MemberIndexes
<1>3. handed' \in Seq(Entry) /\ k \in Nat /\ k >= Len(handed) /\ r.committed <= k
  <2> HIDE DEF r
  <2> QED BY <1>1, <1>2, HandOverFacts
<1>4. Writes(i, q, disk[i], p)
  BY DEF Writes, ReadyLeader, Becomes, TypeInv, TakenBy
<1> HIDE DEF k, r
<1>5. MemberOk(i, r, disk[i], rd[i], k) /\ NodeOk(i, r, k) /\ Sound(r, k)
  BY <1>2, <1>3, MonotoneOk DEF MemberOk, NodeOk
<1>6. NodeOk(i, q, k) /\ q.log = r.log /\ q.committed = r.committed
  <2>1. 0 \in Nat /\ 0 <= k /\ 0 <= r.committed
    BY <1>2, <1>3
  <2>2. NodeOk(i, TakenBy(r, net), k) /\ Same(TakenBy(r, net), r)
    BY <1>3, <1>5, <2>1, TakenOk
  <2> QED BY <2>2 DEF Same
<1> HIDE DEF q
<1>7. DiskOk(disk[i], q, k)
  BY <1>5, <1>6 DEF MemberOk, DiskOk
<1>8. ReadyOk(p, disk[i], q, k)
  <2>1. ReadyOk(rd[i], disk[i], q, k)
    BY <1>1, <1>5, <1>6 DEF MemberOk, ReadyOk
  <2>2. ReadyOk(Image(r), disk[i], q, k)
    <3>1. /\ Image(r) \in ReadyType /\ SoundLog(Image(r).log, k)
          /\ Image(r).log.snap = r.log.snap /\ Image(r).Commit = r.committed
      BY <1>3, <1>5, ImageFacts
    <3>2. disk[i].log.snap.index <= r.log.snap.index
      BY <1>5 DEF MemberOk, DiskOk
    <3> QED BY <1>2, <1>3, <1>6, <3>1, <3>2 DEF ReadyOk
  <2> QED BY <2>1, <2>2
<1> HIDE DEF p
<1>9. NetOk(net', k)
  BY <1>1, <1>2, <1>3, SendReadyOk
<1>10. BoundsOk'
  BY DEF TypeInv, BoundsOk, ReadyLeader
<1> QED BY <1>3, <1>4, <1>6, <1>7, <1>8, <1>9, <1>10, WritesOk DEF MemberOk, k

\* Every other member has saved what it sends.
LEMMA ReadyFollowerOk ==
  ASSUME TypeInv, NEW i \in Server, ReadyFollower(i)
  PROVE  TypeInv'
<1> DEFINE r == node[i]
           k == Len(handed')
           q == TakenAndApplied(r, r.committed, net)
           d == Saved(disk[i], Image(r))
<1>1. r.panic = "none" /\ ~rd[i].pending /\ SendReady(r) /\ HandOver(r)
  BY DEF ReadyFollower, Running
<1>2. /\ Len(handed) \in Nat /\ NodeOk(i, r, Len(handed))
      /\ Sound(r, Len(handed)) /\ NetOk(net, Len(handed))
      /\ MemberOk(i, r, disk[i], rd[i], Len(handed))
      /\ r.committed \in Nat /\ r.log.snap.index \in Nat
      /\ disk[i] \in DiskType /\ handed \in Seq(Entry)
  BY MemberIndexes
<1>3. handed' \in Seq(Entry) /\ k \in Nat /\ k >= Len(handed) /\ r.committed <= k
  <2> HIDE DEF r
  <2> QED BY <1>1, <1>2, HandOverFacts
<1>4. Writes(i, q, d, rd[i])
  BY DEF Writes, ReadyFollower, Becomes, TypeInv, TakenAndApplied
<1> HIDE DEF k, r
<1>5. MemberOk(i, r, disk[i], rd[i], k) /\ NodeOk(i, r, k) /\ Sound(r, k)
  BY <1>2, <1>3, MonotoneOk DEF MemberOk, NodeOk
<1>6. NodeOk(i, q, k) /\ q.log = r.log /\ q.committed = r.committed
  <2>1. r.committed <= r.committed
    BY <1>2
  <2>2. NodeOk(i, q, k) /\ Same(q, r)
    BY <1>2, <1>3, <1>5, <2>1, TakenOk
  <2> QED BY <2>2 DEF Same
<1> HIDE DEF q
<1>7. DiskOk(d, q, k)
  <2>1. /\ Image(r) \in ReadyType /\ SoundLog(Image(r).log, k)
        /\ Image(r).log.snap = r.log.snap
    BY <1>3, <1>5, ImageFacts
  <2>2. d \in DiskType /\ d.log = Image(r).log
    BY <1>2, <2>1, SavedFacts
  <2> QED BY <1>2, <1>6, <2>1, <2>2 DEF DiskOk
<1> HIDE DEF d
<1>8. ReadyOk(rd[i], d, q, k)
  BY <1>1, <1>5 DEF MemberOk, ReadyOk
<1>9. NetOk(net', k)
  BY <1>1, <1>2, <1>3, SendReadyOk
<1>10. BoundsOk'
  BY DEF TypeInv, BoundsOk, ReadyFollower
<1> QED BY <1>3, <1>4, <1>6, <1>7, <1>8, <1>9, <1>10, WritesOk DEF MemberOk, k

\* An empty log, and no Ready, are sound.
LEMMA NoReadyOk ==
  ASSUME NEW n \in Nat
  PROVE  /\ EmptyLog \in Log /\ SoundLog(EmptyLog, n) /\ LastIndex(EmptyLog) = 0
         /\ \A d, r : ReadyOk(NoReady, d, r, n)
<1>1. EmptyLog \in Log /\ SoundLog(EmptyLog, n) /\ LastIndex(EmptyLog) = 0
  BY EmptySeq DEF EmptyLog, Log, SoundLog, LastIndex
<1>2. NoReady \in ReadyType /\ NoReady.log = EmptyLog /\ NoReady.pending = FALSE
  BY <1>1 DEF NoReady, ReadyType
<1> QED BY <1>1, <1>2 DEF ReadyOk

\* A leader that has saved its Ready keeps the invariant.
LEMMA SaveOk ==
  ASSUME TypeInv, NEW i \in Server, Save(i)
  PROVE  TypeInv'
<1> DEFINE r == node[i]
           n == Len(handed)
           a == Maximum(r.applied, rd[i].Commit)
           q == Applied(r, a, net)
           d == Saved(disk[i], rd[i])
<1>1. r.panic = "none" /\ rd[i].pending /\ handed' = handed /\ net' = net
  BY DEF Save, Running, history
<1>2. /\ n \in Nat /\ NodeOk(i, r, n) /\ Sound(r, n) /\ NetOk(net, n)
      /\ MemberOk(i, r, disk[i], rd[i], n)
      /\ r.committed \in Nat /\ r.applied \in Nat
      /\ disk[i] \in DiskType /\ rd[i] \in ReadyType /\ rd[i].Commit \in Nat
      /\ handed \in Seq(Entry)
  BY MemberIndexes
<1>3. /\ rd[i].Commit <= r.committed /\ rd[i].Commit <= n
      /\ rd[i].log.snap.index <= r.log.snap.index /\ SoundLog(rd[i].log, n)
  BY <1>1, <1>2 DEF MemberOk, ReadyOk
<1>4. Writes(i, q, d, NoReady)
  BY DEF Writes, Save, Becomes, TypeInv, Applied
<1> HIDE DEF n, r
<1>5. a \in Nat /\ a <= n /\ a <= r.committed
  BY <1>1, <1>2, <1>3 DEF Maximum, Sound
<1> HIDE DEF a
<1>6. NodeOk(i, q, n) /\ q.log = r.log
  BY <1>2, <1>5, TakenOk DEF Same
<1> HIDE DEF q
<1>7. d \in DiskType /\ d.log = rd[i].log
  BY <1>2, SavedFacts
<1> HIDE DEF d
<1>8. DiskOk(d, q, n)
  BY <1>3, <1>6, <1>7 DEF DiskOk
<1>9. ReadyOk(NoReady, d, q, n)
  BY <1>2, NoReadyOk
<1>10. BoundsOk'
  BY DEF TypeInv, BoundsOk, Save, history
<1>11. Len(handed') = n /\ Len(handed') >= Len(handed)
  BY <1>1, <1>2 DEF n
<1> QED BY <1>1, <1>2, <1>4, <1>6, <1>8, <1>9, <1>10, <1>11, WritesOk DEF MemberOk

\* The snapshot replaces an older one, and the log is compacted below it.
LEMMA CompactOk ==
  ASSUME TypeInv, NEW i \in Server, NEW s \in Nat, NEW c \in Nat, Compact(i, s, c)
  PROVE  TypeInv'
<1> DEFINE r == node[i]
           n == Len(handed)
           snap == [index |-> s, term |-> LogTerm(r.log, s)]
           log0 == [r.log EXCEPT !.snap = snap]
           log == Compacted(log0, c)
           q == [[r EXCEPT !.log = log] EXCEPT !.msgs = @ \ net]
           dlog0 == [disk[i].log EXCEPT !.snap = snap]
           dlog == Durable(dlog0)
           d == [disk[i] EXCEPT !.older = {}, !.log = dlog]
<1>1. /\ r.panic = "none" /\ ~rd[i].pending /\ handed' = handed /\ net' = net
      /\ s > r.log.snap.index /\ s <= r.applied
      /\ c >= r.log.offset /\ c <= s
  <2>1. /\ s \in r.log.snap.index + 1 .. r.applied /\ c \in r.log.offset .. s
    BY DEF Compact
  <2>2. r.log.snap.index \in Nat /\ r.applied \in Nat /\ r.log.offset \in Nat
    BY MemberIndexes, NodeFacts, LogFacts
  <2> QED BY <2>1, <2>2 DEF Compact, Running, history
<1>2. /\ n \in Nat /\ NodeOk(i, r, n) /\ Sound(r, n) /\ NetOk(net, n)
      /\ MemberOk(i, r, disk[i], rd[i], n) /\ r \in NodeType
      /\ r.committed \in Nat /\ r.applied \in Nat /\ r.log.snap.index \in Nat
      /\ disk[i] \in DiskType /\ disk[i].log.snap.index \in Nat
      /\ disk[i].log.snap.index <= r.log.snap.index
      /\ handed \in Seq(Entry)
  BY MemberIndexes
<1>3. /\ r.applied <= n /\ r.applied <= r.committed
      /\ r.committed <= LastIndex(r.log) /\ LastIndex(r.log) \in Nat
      /\ r.log \in Log /\ r.log.offset \in Nat
  BY <1>1, <1>2, NodeFacts, LogFacts DEF Sound
<1>4. Writes(i, q, d, rd[i])
  <2>1. d = [disk[i] EXCEPT !.older = {}, !.log = Durable([disk[i].log EXCEPT !.snap = snap])]
    OBVIOUS
  <2>2. /\ node' = [node EXCEPT ![i] = q]
        /\ disk' = [disk EXCEPT ![i].older = {}, ![i].log = dlog]
        /\ rd' = rd
    BY DEF Compact, Becomes
  <2> HIDE DEF q, dlog
  <2>3. disk' = [disk EXCEPT ![i] = d]
    BY <2>2 DEF TypeInv
  <2> QED BY <2>2, <2>3 DEF Writes, TypeInv
<1> HIDE DEF n, r
<1>5. snap \in [index: Nat, term: Nat] /\ snap.index = s
  <2>1. LogTerm(r.log, s) \in Nat
    BY <1>3, TermFacts
  <2> QED BY <2>1
<1> HIDE DEF snap
<1>6. /\ log \in Log /\ log.offset = c /\ log.snap.index = s
      /\ LastIndex(log) = LastIndex(r.log)
  <2>1. /\ log0 \in Log /\ log0.offset = r.log.offset /\ log0.snap = snap
        /\ LastIndex(log0) = LastIndex(r.log)
    BY <1>3, <1>5 DEF Log, LastIndex
  <2>2. c <= LastIndex(log0)
    BY <1>1, <1>2, <1>3, <2>1
  <2> HIDE DEF log0
  <2> QED BY <1>1, <1>5, <2>1, <2>2, CompactedFacts
<1> HIDE DEF log
<1>7. SoundLog(log, n)
  BY <1>1, <1>2, <1>3, <1>6 DEF SoundLog
<1>8. NodeOk(i, q, n) /\ q.log = log
  <2> DEFINE T == r.msgs \ net
             p == [r EXCEPT !.log = log, !.msgs = T]
  <2>1. T \in SUBSET Message
    BY <1>2, NodeFacts
  <2>2. q = [r EXCEPT !.log = log, !.msgs = T]
    BY <1>2 DEF NodeType
  <2> HIDE DEF T, q
  <2>3. /\ q \in NodeType /\ q.id = r.id /\ q.Term = r.Term
        /\ q.Vote = r.Vote /\ q.state = r.state
        /\ q.log = log /\ q.committed = r.committed
        /\ q.applied = r.applied /\ q.panic = r.panic /\ q.msgs = T
    BY <1>2, <1>6, <2>1, <2>2 DEF NodeType
  <2>4. Sound(q, n)
    BY <1>1, <1>2, <1>3, <1>6, <1>7, <2>3 DEF Sound
  <2> QED BY <1>2, <2>3, <2>4 DEF NodeOk, T
<1> HIDE DEF q
<1>9. DiskOk(d, q, n)
  <2>1. /\ disk[i].log \in Log /\ disk[i].log.offset \in Nat
        /\ disk[i].log.offset <= disk[i].log.snap.index
    BY <1>2, LogFacts DEF MemberOk, DiskOk, SoundLog
  <2>2. /\ dlog0 \in Log /\ dlog0.offset = disk[i].log.offset /\ dlog0.snap = snap
    BY <1>5, <2>1 DEF Log
  <2> HIDE DEF dlog0
  <2>3. SoundLog(dlog0, n)
    BY <1>1, <1>2, <1>3, <1>5, <2>1, <2>2 DEF SoundLog
  <2>4. SoundLog(dlog, n) /\ dlog.snap = snap
    BY <1>2, <2>2, <2>3, DurableFacts
  <2> HIDE DEF dlog
  <2>5. dlog \in Log
    BY <2>4 DEF SoundLog
  <2>6. d \in DiskType /\ d.log = dlog
    BY <1>2, <2>5 DEF DiskType
  <2> HIDE DEF d
  <2>7. s <= s
    OBVIOUS
  <2> QED BY <1>5, <1>6, <1>8, <2>4, <2>6, <2>7 DEF DiskOk
<1> HIDE DEF d
<1>10. ReadyOk(rd[i], d, q, n)
  BY <1>1, <1>2 DEF MemberOk, ReadyOk
<1>11. BoundsOk'
  <2>1. "compact" \in Event /\ Spend("compact")
    BY DEF Event, Compact
  <2> QED BY <2>1, SpendType DEF TypeInv, BoundsOk, Compact, history
<1>12. Len(handed') = n /\ Len(handed') >= Len(handed)
  BY <1>1, <1>2 DEF n
<1> QED BY <1>1, <1>2, <1>4, <1>8, <1>9, <1>10, <1>11, <1>12, WritesOk DEF MemberOk

-----------------------------------------------------------------------------
(* Crashes and restarts.                                                   *)

\* What a restart starts from is sound, whatever commit index it recovers.
LEMMA NewRaftOk ==
  ASSUME NEW n \in Nat, NEW i \in Server, NEW term \in Nat,
         NEW vote \in Server \cup {None}, NEW c \in Nat, NEW log, SoundLog(log, n),
         NEW r, r = NewRaft(i, term, vote, c, log)
  PROVE  /\ NodeOk(i, r, n) /\ r.log = log /\ r.Term = term /\ r.Vote = vote
         /\ r.state = "Follower" /\ r.msgs = {}
<1> DEFINE panic == IF c \in log.snap.index..LastIndex(log) THEN "none"
                    ELSE "loadState"
<1>1. /\ log \in Log /\ log.snap.index \in Nat /\ LastIndex(log) \in Nat
      /\ log.snap.index <= n
  BY LogFacts DEF SoundLog
<1>2. NoProgress \in [Server -> ProgressType] /\ <<>> \in Seq(ReadRequest)
  BY NewProgressType, EmptySeq DEF NoProgress
<1>3. /\ panic \in PanicKind
      /\ panic = "none" => log.snap.index <= c /\ c <= LastIndex(log)
  BY <1>1 DEF PanicKind
<1>4. r = [id |-> i, Term |-> term, Vote |-> vote, state |-> "Follower",
           lead |-> None, log |-> log, committed |-> c,
           applied |-> log.snap.index, granted |-> {}, rejected |-> {},
           prs |-> NoProgress, leadTransferee |-> None, elapsed |-> FALSE,
           readOnly |-> <<>>, readStates |-> {}, msgs |-> {}, panic |-> panic]
  BY DEF NewRaft
<1> HIDE DEF panic
<1>5. /\ r \in NodeType /\ r.id = i /\ r.log = log /\ r.Term = term
      /\ r.Vote = vote /\ r.state = "Follower" /\ r.msgs = {}
      /\ r.applied = log.snap.index /\ r.committed = c /\ r.panic = panic
  BY <1>1, <1>2, <1>3, <1>4 DEF NodeType, RaftState
<1>6. Sound(r, n)
  BY <1>1, <1>3, <1>5 DEF Sound
<1>7. NodeOk(i, r, n)
  BY <1>5, <1>6 DEF NodeOk
<1> QED BY <1>5, <1>7

\* Whatever a crash tears, the log read back keeps the snapshot of the old one.
LEMMA RecoverableOk ==
  ASSUME TypeInv, NEW i \in Server, NEW log \in Recoverable(i)
  PROVE  SoundLog(log, Len(handed)) /\ log.snap = disk[i].log.snap
<1> DEFINE old == disk[i].log
           new == Saving(i).log
<1>1. /\ Len(handed) \in Nat /\ SoundLog(old, Len(handed)) /\ old \in Log
  BY MemberIndexes DEF MemberOk, DiskOk, SoundLog
<1>2. new \in Log
  <2>1. rd[i].log \in Log /\ disk[i].log \in Log
    BY MemberIndexes DEF ReadyType, DiskType
  <2>2. Image(node[i]).log \in Log
    BY MemberIndexes, ImageFacts DEF SoundLog
  <2> QED BY <2>1, <2>2 DEF Saving
<1>3. \/ log = old
      \/ \E k \in DOMAIN new.ents : log = [old EXCEPT !.ents = SubSeq(new.ents, 1, k)]
  BY DEF Recoverable
<1> HIDE DEF old, new
<1>4. ASSUME NEW k \in DOMAIN new.ents
      PROVE  LET x == [old EXCEPT !.ents = SubSeq(new.ents, 1, k)]
             IN SoundLog(x, Len(handed)) /\ x.snap = old.snap
  <2> DEFINE ents == SubSeq(new.ents, 1, k)
  <2>1. new.ents \in Seq(Entry)
    BY <1>2, LogFacts
  <2>2. k \in 1..Len(new.ents)
    BY <2>1, LenProperties
  <2>3. k \in Int /\ k <= Len(new.ents)
    BY <2>1, <2>2, LenProperties
  <2>4. ents \in Seq(Entry)
    BY <2>1, <2>3, SubSeqOfEntries
  <2> DEFINE x == [old EXCEPT !.ents = ents]
  <2> HIDE DEF ents
  <2>5. x \in Log /\ x.snap = old.snap /\ x.offset = old.offset
    BY <1>1, <2>4 DEF Log
  <2> HIDE DEF x
  <2>6. SoundLog(x, Len(handed)) /\ x.snap = old.snap
    BY <1>1, <2>5 DEF SoundLog
  <2> QED BY <2>6 DEF x, ents
<1> QED BY <1>1, <1>3, <1>4 DEF old

\* So does a crash, at any point of a save, with the restart.
LEMMA RestartOk ==
  ASSUME TypeInv, NEW i \in Server, Restart(i)
  PROVE  TypeInv'
<1> DEFINE n == Len(handed)
<1>1. /\ n \in Nat /\ handed \in Seq(Entry) /\ Sound(node[i], n)
      /\ MemberOk(i, node[i], disk[i], rd[i], n) /\ NetOk(net, n)
      /\ disk[i] \in DiskType /\ disk[i].log.snap.index \in Nat
  BY MemberIndexes
<1>0. handed' \in Seq(Entry) /\ Len(handed') \in Nat /\ Len(handed') >= n
  <2>1. CASE Running(i) /\ HandOver(node[i])
    BY <1>1, <2>1, HandOverFacts DEF Running
  <2>2. CASE UNCHANGED handed
    BY <1>1, <2>2
  <2> QED BY <2>1, <2>2 DEF Restart
<1>2. PICK k \in Nat : k = Len(handed') /\ k >= n
  BY <1>0
<1>3. PICK log \in Recoverable(i), c \in {disk[i].Commit} \cup disk[i].older :
        /\ Becomes(i, NewRaft(i, disk[i].Term, disk[i].Vote, c, log))
        /\ disk' = [disk EXCEPT ![i].log = log, ![i].Commit = c, ![i].older = {}]
  BY DEF Restart
<1> DEFINE r == NewRaft(i, disk[i].Term, disk[i].Vote, c, log)
           q == [r EXCEPT !.msgs = @ \ net]
           d == [disk[i] EXCEPT !.log = log, !.Commit = c, !.older = {}]
<1>4. Writes(i, q, d, NoReady)
  <2>1. node' = [node EXCEPT ![i] = q] /\ rd' = [rd EXCEPT ![i] = NoReady]
    BY <1>3 DEF Becomes, Restart
  <2>2. disk' = [disk EXCEPT ![i] = d]
    BY <1>3 DEF TypeInv
  <2> HIDE DEF q, d
  <2> QED BY <2>1, <2>2 DEF Writes
<1> HIDE DEF n
<1>5. SoundLog(log, n) /\ log.snap = disk[i].log.snap
  BY RecoverableOk DEF n
<1>6. SoundLog(log, k) /\ log \in Log
  BY <1>1, <1>2, <1>5, MonotoneOk DEF SoundLog
<1>7. c \in Nat /\ disk[i].Term \in Nat /\ disk[i].Vote \in Server \cup {None}
  BY <1>1, <1>3 DEF DiskType
<1>8. NodeOk(i, r, k) /\ r.log = log /\ r.msgs = {}
  <2> DEFINE term == disk[i].Term
             vote == disk[i].Vote
  <2>1. r = NewRaft(i, term, vote, c, log)
    OBVIOUS
  <2>2. term \in Nat /\ vote \in Server \cup {None} /\ c \in Nat
    BY <1>7
  <2>3. SoundLog(log, k)
    BY <1>6
  <2> HIDE DEF r, term, vote
  <2> QED BY <2>1, <2>2, <2>3, NewRaftOk
<1>9. NodeOk(i, q, k) /\ q.log = log
  <2> HIDE DEF r
  <2>1. q = [r EXCEPT !.msgs = {}]
    BY <1>8 DEF NodeOk, Sound, NodeType
  <2> DEFINE T == {}
  <2>2. T \in SUBSET r.msgs
    OBVIOUS
  <2> HIDE DEF T
  <2>3. NodeOk(i, r, k)
    BY <1>8
  <2>4. NodeOk(i, [r EXCEPT !.msgs = T], k) /\ [r EXCEPT !.msgs = T].log = r.log
    BY <2>2, <2>3, OutboxFacts
  <2> QED BY <1>8, <2>1, <2>4 DEF T
<1>10. d \in DiskType /\ d.log = log
  BY <1>1, <1>6, <1>7 DEF DiskType
<1> HIDE DEF q, d, r
<1>11. DiskOk(d, q, k)
  <2>1. log.snap.index <= log.snap.index
    BY <1>1, <1>5
  <2> QED BY <1>6, <1>9, <1>10, <2>1 DEF DiskOk
<1>12. ReadyOk(NoReady, d, q, k)
  BY <1>2, NoReadyOk
<1>13. BoundsOk'
  <2>1. "crash" \in Event /\ Spend("crash") /\ UNCHANGED <<readFloor, asked>>
    BY DEF Event, Restart
  <2> QED BY <2>1, SpendType DEF TypeInv, BoundsOk
<1>14. NetOk(net', k)
  BY <1>1, <1>2, MonotoneOk DEF Restart
<1>15. k >= Len(handed)
  BY <1>2 DEF n
<1> QED BY <1>0, <1>2, <1>4, <1>9, <1>11, <1>12, <1>13, <1>14, <1>15, WritesOk
        DEF MemberOk

-----------------------------------------------------------------------------
(* The theorem.                                                            *)

\* The initial states satisfy the invariant.
LEMMA InitOk == Init => TypeInv
<1> SUFFICES ASSUME Init PROVE TypeInv
  OBVIOUS
<1>1. handed = <<>> /\ handed \in Seq(Entry) /\ Len(handed) = 0 /\ 0 \in Nat
  BY EmptySeq DEF Init
<1>2. EmptyLog \in Log /\ SoundLog(EmptyLog, 0)
  BY NoReadyOk
<1>3. ASSUME NEW i \in Server
      PROVE  MemberOk(i, node[i], disk[i], rd[i], 0)
  <2>1. /\ node[i] = NewRaft(i, 0, None, 0, EmptyLog) /\ disk[i] = EmptyDisk
        /\ rd[i] = NoReady
    BY DEF Init
  <2>2. NodeOk(i, node[i], 0) /\ node[i].log = EmptyLog
    BY <1>2, <2>1, NewRaftOk
  <2>3. EmptyDisk \in DiskType /\ EmptyDisk.log = EmptyLog
    BY <1>2 DEF EmptyDisk, DiskType
  <2>4. EmptyLog.snap.index <= EmptyLog.snap.index
    BY DEF EmptyLog
  <2>5. DiskOk(disk[i], node[i], 0)
    BY <1>2, <2>1, <2>2, <2>3, <2>4 DEF DiskOk
  <2>6. ReadyOk(rd[i], disk[i], node[i], 0)
    BY <2>1, NoReadyOk
  <2> QED BY <2>2, <2>5, <2>6 DEF MemberOk
<1>4. /\ node \in [Server -> NodeType] /\ disk \in [Server -> DiskType]
      /\ rd \in [Server -> ReadyType]
  BY <1>3 DEF Init, MemberOk, NodeOk, DiskOk, ReadyOk, Sound
<1>5. BoundsOk /\ NetOk(net, 0)
  BY BudgetAssumption DEF Init, BoundsOk, NetOk
<1> QED BY <1>1, <1>3, <1>4, <1>5 DEF TypeInv

\* Every step is a lawful step of one member, or one of its Ready loop, of its
\* storage or a restart.
LEMMA StepCases ==
  ASSUME TypeInv, Next
  PROVE  \E i \in Server :
           \/ BoundsOk' /\ MemberStep(i)
           \/ ReadyLeader(i) \/ ReadyFollower(i) \/ Save(i) \/ Restart(i)
           \/ \E s \in Nat, c \in Nat : Compact(i, s, c)
<1>1. CASE ReadyStep
  BY <1>1 DEF ReadyStep
<1>2. CASE LocalStep
  BY <1>2, LocalStepCases
<1>3. CASE MessageStep
  BY <1>3, MessageStepCases
<1>4. CASE StorageStep
  <2>1. ASSUME NEW i \in Turn, NEW s \in 1..node[i].applied,
               NEW c \in 0..node[i].applied, Compact(i, s, c)
        PROVE  i \in Server /\ s \in Nat /\ c \in Nat
    BY DEF Turn
  <2>2. Turn \subseteq Server
    BY DEF Turn
  <2> QED BY <1>4, <2>1, <2>2 DEF StorageStep
<1> QED BY <1>1, <1>2, <1>3, <1>4 DEF Next

\* The invariant is inductive.
LEMMA TypeInvStep == TypeInv /\ [Next]_vars => TypeInv'
<1> SUFFICES ASSUME TypeInv, [Next]_vars PROVE TypeInv'
  OBVIOUS
<1>1. CASE Next
  BY <1>1, StepCases, MemberStepOk, ReadyLeaderOk, ReadyFollowerOk, SaveOk,
     RestartOk, CompactOk
<1>2. CASE UNCHANGED vars
  BY <1>2 DEF vars, TypeInv, BoundsOk
<1> QED BY <1>1, <1>2

\* Types hold in every configuration, whatever the messages and crashes: the
\* records of raft.raft, of the WAL and of pb.Message keep their shape, which
\* asks that no slice of a log leaves its range (raft/log.go:342-397) and that
\* no snapshot overtakes what was applied (raft/raft.go:1532-1623).
THEOREM TypeCorrect == Spec => []TypeOK
<1>1. TypeInv => TypeOK
  BY TypeInvFacts DEF TypeInv, TypeOK, BoundsOk
<1> QED BY <1>1, InitOk, TypeInvStep, PTL DEF Spec
=============================================================================
