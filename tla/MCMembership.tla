---------------------------- MODULE MCMembership ----------------------------
(***************************************************************************)
(* Instances of membership changes.  Every start is a leader of term 1 and *)
(* the changes that may be proposed.                                       *)
(***************************************************************************)
EXTENDS MembershipProperties

\* Member i leads the voters of the first configuration in term 1, and its empty
\* entry is applied by all.
FirstConf(voters) == [ConfState(EmptyConf) EXCEPT !.voters = voters]
Settled(i, voters) ==
  LET n == [term |-> 1, vote |-> i, lead |-> i, role |-> "Follower",
            log |-> <<At(Normal, 1)>>, commit |-> 1, applied |-> 1,
            conf |-> Restore(FirstConf(voters)), votes |-> <<>>, pendingConfIndex |-> 0]
  IN [j \in Nodes |->
        IF j \notin voters
        THEN [n EXCEPT !.term = 0, !.vote = None, !.lead = None, !.log = <<>>,
                       !.commit = 0, !.applied = 0]
        ELSE IF j # i THEN n
        ELSE [n EXCEPT !.role = "Leader",
                       !.conf.progress = [k \in voters |->
                          [match |-> 1, isLearner |-> FALSE]]]]

Change(type, id) == [type |-> type, id |-> id]
Cc(changes, transition) == [changes |-> changes, transition |-> transition]
One(type, id) == Conf(Cc(<<Change(type, id)>>, "Auto"))
OneV2(type, id) == ConfV2(Cc(<<Change(type, id)>>, "Auto"))
Bounds(campaigns, restarts, lost, normal, changes, prompt) ==
  [campaigns |-> campaigns, restarts |-> restarts, lost |-> lost, normal |-> normal,
   changes |-> changes, prompt |-> prompt]

Start(voters, bounds) ==
  node = Settled(1, voters) /\ first = FirstConf(voters) /\ budget = bounds

\* Members 3 and 2 are removed one after the other.  The first removal is committed
\* by member 1, which is yet to apply it, and member 2 has it in its log.
Removing(r3, r2, lost) ==
  LET n == Settled(1, {1, 2, 3})
      log == Append(n[1].log, At(r3, 1))
  IN /\ node = [n EXCEPT ![1].log = log, ![1].commit = 2, ![1].pendingConfIndex = 2,
                         ![1].conf.progress[1].match = 2, ![1].conf.progress[2].match = 2,
                         ![2].log = log]
     /\ first = FirstConf({1, 2, 3})
     /\ budget = Bounds(1, 0, lost, 1, <<r2>>, FALSE)

\* A learner joins and is promoted.
Growth == <<One("AddLearnerNode", 3), One("AddNode", 3)>>
\* A joint configuration that replaces every voter, the leader too; a change that
\* comes too early; and the proposal that leaves it.
Swap == <<ConfV2(Cc(<<Change("AddNode", 3), Change("AddLearnerNode", 2),
                      Change("RemoveNode", 1)>>, "Explicit")),
          One("AddNode", 1), Leave>>

SafeInit ==
  \/ Removing(One("RemoveNode", 3), One("RemoveNode", 2), 0)
  \/ Start({1, 2}, Bounds(2, 0, 0, 0, <<One("AddNode", 3)>>, FALSE))
  \/ Start({1, 2}, Bounds(0, 1, 1, 0, Growth, FALSE))
  \/ Start({1, 2}, Bounds(1, 0, 0, 0, Swap, TRUE))
  \/ Start({1, 2}, Bounds(0, 1, 0, 0, Swap, TRUE))
SpecSafe == SafeInit /\ [][Next]_vars

\* The same removals, as changes of the second version.
SpecV2 == Removing(OneV2("RemoveNode", 3), OneV2("RemoveNode", 2), 0) /\ [][Next]_vars

\* A joint configuration that raft leaves by itself, and a normal entry.
Implicit == <<ConfV2(Cc(<<Change("AddNode", 2)>>, "Implicit"))>>
SpecImplicit == Start({1}, Bounds(0, 0, 0, 1, Implicit, TRUE)) /\ [][Next]_vars
=============================================================================
