------------------------------- MODULE MCRaft -------------------------------
(***************************************************************************)
(* The instances of Raft that TLC checks.  Each cfg gives Budget one of    *)
(* the functions below.                                                    *)
(***************************************************************************)
EXTENDS RaftProperties, TLC

BudgetOf(f) == f @@ [e \in Event |-> 0]
BElection == BudgetOf("timeout" :> 2)
BLogs     == BudgetOf("timeout" :> 1)
BStorage  == BudgetOf("prop" :> 1 @@ "crash" :> 1 @@ "compact" :> 1 @@
                      "snapstatus" :> 1 @@ "unreachable" :> 1)
BPreVote  == BudgetOf("timeout" :> 2 @@ "expire" :> 1)
BTransfer == BudgetOf("timeout" :> 1 @@ "transfer" :> 1 @@ "beat" :> 1 @@
                      "checkquorum" :> 1)
BHup      == BudgetOf("timeout" :> 1 @@ "prop" :> 1 @@ "compact" :> 1)
BForward  == BudgetOf("transfer" :> 1)
BSingle   == BudgetOf("prop" :> 1 @@ "crash" :> 1)

CONSTANTS n1, n2, n3, c1
E(t) == [term |-> t, data |-> NoData]

\* A start in the middle of a run, all earlier messages lost; if there are
\* reads, they were asked before and are lost as well.
StartFrom(nodes, disks, events) ==
  /\ disk = disks
  /\ node = nodes
  /\ rd = [i \in Server |-> NoReady]
  /\ net = {}
  /\ budget = events
  /\ handed = <<E(1)>>
  /\ readFloor = [c \in ReadCtx |-> 1]
  /\ asked = {}

DiskOf(term, vote, ents) ==
  [EmptyDisk EXCEPT !.Term = term, !.Vote = vote, !.Commit = 1,
                    !.log = [EmptyLog EXCEPT !.ents = ents]]
NodeOf(i, d) == [NewRaft(i, d.Term, d.Vote, d.Commit, d.log) EXCEPT !.applied = 1]

\* Two members of an empty cluster have timed out before they heard of each
\* other: both stand for term 1 and their requests are on the way.  What is
\* left to happen are crashes.
Standing(i) == Campaign(NewRaft(i, 0, None, 0, EmptyLog), NoCtx)
RivalNodes(rivals) ==
  [i \in Server |-> IF i \in rivals THEN [Standing(i) EXCEPT !.msgs = {}]
                    ELSE NewRaft(i, 0, None, 0, EmptyLog)]
RivalStart(rivals) ==
  /\ node = RivalNodes(rivals)
  /\ disk = [i \in Server |-> Saved(EmptyDisk, Image(RivalNodes(rivals)[i]))]
  /\ rd = [i \in Server |-> NoReady]
  /\ net = UNION {Standing(i).msgs : i \in rivals}
  /\ budget = BudgetOf("crash" :> 2)
  /\ handed = <<>>
  /\ readFloor = [c \in ReadCtx |-> NotAsked]
  /\ asked = {}
Pairs == {s \in SUBSET Voters : Cardinality(s) = 2}

\* An empty cluster with the whole budget, or two rivals and two crashes.
SpecElection == (Init \/ \E rivals \in Pairs : RivalStart(rivals)) /\ [][Next]_vars

\* Term 4 of a cluster whose terms 2 and 3 were cut short: n1 led term 2 and
\* saved an entry nobody else has, n3 led term 3 and did the same, and then n1
\* won term 4 with the vote of n2, n3 refusing its own.  It has sent nothing
\* yet as the leader of term 4.
DivergedDisks == n1 :> DiskOf(4, n1, <<E(1), E(2)>>) @@
                 n2 :> DiskOf(4, n1, <<E(1)>>) @@
                 n3 :> DiskOf(4, None, <<E(1), E(3)>>)
NewLeader(i, d) ==
  BcastAppend(BecomeLeader([NodeOf(i, d) EXCEPT !.state = "Candidate"]))
DivergedNodes ==
  [i \in Server |-> IF i = n1 THEN NewLeader(i, DivergedDisks[i])
                    ELSE NodeOf(i, DivergedDisks[i])]

\* n1 leads term 1 with the votes of all voters, which have applied its empty
\* entry.  A learner is new: it has heard nothing, and its progress is the one
\* confchange.initProgress gives it.  With CheckQuorum, n1 has just checked
\* its quorum.
SettledDisks == [i \in Server |-> IF i \in Learners THEN EmptyDisk
                                  ELSE DiskOf(1, n1, <<E(1)>>)]
SettledProgress(s) ==
  [IF s \in Learners THEN NewProgress(0, 1)
   ELSE BecomeReplicate(NewProgress(1, 2))
     EXCEPT !.RecentActive = (CheckQuorum <=> s = n1)]
SettledNodes ==
  [i \in Server |->
     CASE i = n1 -> [NodeOf(n1, SettledDisks[n1]) EXCEPT
                       !.state = "Leader", !.lead = n1,
                       !.prs = [s \in Server |-> SettledProgress(s)]]
       [] i \in Learners -> NewRaft(i, 0, None, 0, EmptyLog)
       [] OTHER -> [NodeOf(i, SettledDisks[i]) EXCEPT !.lead = n1]]
SpecSettled == StartFrom(SettledNodes, SettledDisks, Budget) /\ [][Next]_vars

\* n2 has won term 2 with the vote of n3, and n1, which leads term 1 with every
\* follower up to date, has not heard of it.  n1 was asked the read c1 while n3
\* still followed it, and n3 has confirmed that; c2 is still to be asked.
DeposedDisks == n1 :> DiskOf(1, n1, <<E(1)>>) @@
                n2 :> DiskOf(2, n2, <<E(1)>>) @@ n3 :> DiskOf(2, n2, <<E(1)>>)
DeposedNodes ==
  n1 :> SettledNodes[n1] @@ n2 :> NewLeader(n2, DeposedDisks[n2]) @@
  n3 :> NodeOf(n3, DeposedDisks[n3])
Reading == StepReadIndexLeader(SettledNodes[n1], c1, None)
ReadAnswer == Stamped(SettledNodes[n3], [Msg("MsgHeartbeatResp", n1) EXCEPT !.ctx = c1])
ReadingStart ==
  /\ disk = DeposedDisks
  /\ node = [DeposedNodes EXCEPT ![n1] = [Reading EXCEPT !.msgs = {}]]
  /\ rd = [i \in Server |-> NoReady]
  /\ net = Reading.msgs \cup {ReadAnswer}
  /\ budget = BudgetOf(<<>>)
  /\ handed = <<E(1)>>
  /\ readFloor = [c \in ReadCtx |-> IF c = c1 THEN 1 ELSE NotAsked]
  /\ asked = {}

\* The runs about logs: diverged logs and a rival, or a deposed reader.
SpecLogs ==
  /\ ReadingStart \/ StartFrom(DivergedNodes, DivergedDisks, Budget)
  /\ [][Next]_vars

\* With leases: a settled cluster with rivals, or one whose n3 is lost for good
\* (any panic stops a member) and whose n1 may be asked to hand over.
CutDown == [SettledNodes EXCEPT ![n3].panic = "sendTerm"]
SpecLease ==
  /\ \/ StartFrom(SettledNodes, SettledDisks, BPreVote)
     \/ StartFrom(CutDown, SettledDisks, BTransfer)
  /\ [][Next]_vars

\* No property tells one member from another; sound for safety.
SymServer == Permutations(Voters)
=============================================================================
