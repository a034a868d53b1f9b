----------------------------- MODULE ConfChange -----------------------------
(***************************************************************************)
(* raft/confchange: how a configuration changes.  A configuration has the  *)
(* voters of its incoming half, those of its outgoing half while it is     *)
(* joint, the learners, the voters of the outgoing half that will become   *)
(* learners, and the progress of every member.                             *)
(***************************************************************************)
EXTENDS QuorumSystem, SequencesExt

EmptyConf == [voters |-> {}, outgoing |-> {}, learners |-> {}, learnersNext |-> {},
              autoLeave |-> FALSE, progress |-> <<>>]
Refused == [error |-> TRUE]

Joint(c) == c.outgoing # {}
Tracked(c) == DOMAIN c.progress

\* Changer.initProgress
Tracking(c, id, isLearner) ==
  (id :> [match |-> 0, isLearner |-> isLearner]) @@ c.progress
InitProgress(c, id, isLearner) ==
  IF isLearner
  THEN [c EXCEPT !.learners = @ \cup {id}, !.progress = Tracking(c, id, TRUE)]
  ELSE [c EXCEPT !.voters = @ \cup {id}, !.progress = Tracking(c, id, FALSE)]

MakeVoter(c, id) ==
  IF id \notin Tracked(c) THEN InitProgress(c, id, FALSE)
  ELSE [c EXCEPT !.progress[id].isLearner = FALSE, !.learners = @ \ {id},
                 !.learnersNext = @ \ {id}, !.voters = @ \cup {id}]

\* A voter of the outgoing half keeps its progress.
RemoveMember(c, id) ==
  IF id \notin Tracked(c) THEN c
  ELSE [c EXCEPT !.voters = @ \ {id}, !.learners = @ \ {id},
                 !.learnersNext = @ \ {id},
                 !.progress = IF id \in c.outgoing THEN @
                              ELSE [j \in Tracked(c) \ {id} |-> @[j]]]

MakeLearner(c, id) ==
  IF id \notin Tracked(c) THEN InitProgress(c, id, TRUE)
  ELSE IF c.progress[id].isLearner THEN c
  ELSE LET r == RemoveMember(c, id)
       IN IF id \in c.outgoing THEN [r EXCEPT !.learnersNext = @ \cup {id}]
          ELSE [r EXCEPT !.learners = @ \cup {id},
                         !.progress = (id :> [c.progress[id] EXCEPT !.isLearner = TRUE]) @@ @]

\* Changer.apply.  The code turns down a configuration left without voters.
Changed(c, cc) == CASE cc.type = "AddNode" -> MakeVoter(c, cc.id)
                    [] cc.type = "AddLearnerNode" -> MakeLearner(c, cc.id)
                    [] cc.type = "RemoveNode" -> RemoveMember(c, cc.id)
ApplyAll(c, ccs) == FoldLeft(Changed, c, ccs)

CheckInvariants(c) ==
  /\ c.voters \cup c.outgoing \cup c.learners \cup c.learnersNext \subseteq Tracked(c)
  /\ \A id \in c.learnersNext : id \in c.outgoing /\ ~c.progress[id].isLearner
  /\ \A id \in c.learners : id \notin c.outgoing \cup c.voters /\ c.progress[id].isLearner
  /\ ~Joint(c) => c.learnersNext = {} /\ ~c.autoLeave
Checked(c) == IF CheckInvariants(c) THEN c ELSE Refused

Simple(c, ccs) ==
  LET n == ApplyAll(c, ccs)
      changed == (c.voters \ n.voters) \cup (n.voters \ c.voters)
  IN IF Joint(c) \/ n.voters = {} \/ Cardinality(changed) > 1 THEN Refused
     ELSE IF ~CheckInvariants(n) THEN EmptyConf ELSE n

\* Mutant: the outgoing half is not kept.
EnterJointAlone(c, autoLeave, ccs) ==
  LET n == ApplyAll(c, ccs)
  IN IF Joint(c) \/ c.voters = {} \/ n.voters = {} THEN Refused ELSE Checked(n)
EnterJoint(c, autoLeave, ccs) ==
  LET n == ApplyAll([c EXCEPT !.outgoing = c.voters], ccs)
  IN IF Joint(c) \/ c.voters = {} \/ n.voters = {} THEN Refused
     ELSE Checked([n EXCEPT !.autoLeave = autoLeave])

LeaveJoint(c) ==
  LET learners == c.learners \cup c.learnersNext
      left == (Tracked(c) \ c.outgoing) \cup c.voters \cup learners
  IN IF ~Joint(c) THEN Refused
     ELSE Checked([c EXCEPT
            !.outgoing = {}, !.learnersNext = {}, !.autoLeave = FALSE,
            !.learners = learners,
            !.progress = [id \in left |->
              [@[id] EXCEPT !.isLearner = @ \/ id \in c.learnersNext]]])

-----------------------------------------------------------------------------
(* Restore: the configuration of a ConfState                               *)

ConfState(c) == [voters |-> c.voters, outgoing |-> c.outgoing,
                 learners |-> c.learners, learnersNext |-> c.learnersNext,
                 autoLeave |-> c.autoLeave]
Each(type, ids) == LET s == SetToSeq(ids)
                   IN [i \in DOMAIN s |-> [type |-> type, id |-> s[i]]]

\* One by one, as long as none is refused.
Chain(c, ccs) ==
  FoldLeft(LAMBDA n, cc : IF n = Refused THEN n ELSE Simple(n, <<cc>>), c, ccs)
\* Mutant: the learners to be are not restored.
RestoreNoNext(cs) ==
  LET out == Each("AddNode", cs.outgoing)
      in == Each("RemoveNode", cs.outgoing) \o Each("AddNode", cs.voters)
              \o Each("AddLearnerNode", cs.learners)
  IN IF out = <<>> THEN Chain(EmptyConf, in)
     ELSE EnterJoint(Chain(EmptyConf, out), cs.autoLeave, in)
Restore(cs) ==
  LET out == Each("AddNode", cs.outgoing)
      in == Each("RemoveNode", cs.outgoing) \o Each("AddNode", cs.voters)
              \o Each("AddLearnerNode", cs.learners)
              \o Each("AddLearnerNode", cs.learnersNext)
  IN IF out = <<>> THEN Chain(EmptyConf, in)
     ELSE EnterJoint(Chain(EmptyConf, out), cs.autoLeave, in)

-----------------------------------------------------------------------------
(* A change as a proposal                                                  *)

\* ConfChangeV2.EnterJoint and LeaveJoint; a ConfChange of the first version is
\* one change in transition "Auto".
IsLeave(cc) == cc.changes = <<>> /\ cc.transition = "Auto"
IsEnter(cc) == cc.transition # "Auto" \/ Len(cc.changes) > 1
\* raft.applyConfChange
ApplyConfChange(c, cc) ==
  IF IsLeave(cc) THEN LeaveJoint(c)
  ELSE IF IsEnter(cc) THEN EnterJoint(c, cc.transition # "Explicit", cc.changes)
  ELSE Simple(c, cc.changes)
=============================================================================
