----------------------------- MODULE Membership -----------------------------
(***************************************************************************)
(* Changes of membership in package raft: a configuration takes effect on  *)
(* each member when that member applies its entry.  A message and its      *)
(* answer are one step here (module Raft has the network); an append       *)
(* brings one entry at most.  Every log begins after a snapshot that holds  *)
(* the first configuration.                                                *)
(***************************************************************************)
EXTENDS ConfChange

CONSTANTS Nodes,
          MaxLog     \* bound: the entries a leader's log may hold
None == 0
ASSUME MembershipAssumption == None \notin Nodes

VARIABLES
  node,      \* the state of each member
  first,     \* the configuration of the first snapshot
  budget     \* bounds: the campaigns, restarts, lost answers and normal entries left,
             \* the changes to propose, and whether a member applies before it campaigns
vars == <<node, first, budget>>

Conf(cc) == [kind |-> "EntryConfChange", cc |-> cc]
ConfV2(cc) == [kind |-> "EntryConfChangeV2", cc |-> cc]
NoChange == [changes |-> <<>>, transition |-> "None"]
Normal == [kind |-> "EntryNormal", cc |-> NoChange]
Leave == ConfV2([changes |-> <<>>, transition |-> "Auto"])
IsConf(e) == e.kind # "EntryNormal"
At(e, t) == [kind |-> e.kind, cc |-> e.cc, term |-> t]

LastIndex(n) == Len(n.log)
LastTerm(n) == IF n.log = <<>> THEN 0 ELSE n.log[Len(n.log)].term
Voters(c) == c.voters \cup c.outgoing
Promotable(i, n) == i \in Tracked(n.conf) /\ ~n.conf.progress[i].isLearner

\* An entry of the leader, which is its own first match (raft.appendEntry); and
\* what the configuration has matched (raft.maybeCommit).
Match(n) == [j \in Tracked(n.conf) |-> n.conf.progress[j].match]
MaybeCommit(n) ==
  LET index == JointCommittedIndex(n.conf.voters, n.conf.outgoing, Match(n))
  IN IF index > n.commit /\ index \in DOMAIN n.log /\ n.log[index].term = n.term
     THEN [n EXCEPT !.commit = index] ELSE n
Matched(n, j, index) ==
  IF j \notin Tracked(n.conf) THEN n
  ELSE [n EXCEPT !.conf.progress[j].match = IF index > @ THEN index ELSE @]
AppendEntry(i, n, e) ==
  LET a == [n EXCEPT !.log = Append(@, At(e, n.term))]
  IN MaybeCommit(Matched(a, i, LastIndex(a)))

Reset(i, n, term) ==
  [n EXCEPT !.term = term, !.vote = IF term # n.term THEN None ELSE @,
            !.lead = None, !.votes = <<>>, !.pendingConfIndex = 0,
            !.conf.progress = [j \in Tracked(n.conf) |->
              [@[j] EXCEPT !.match = IF j = i THEN LastIndex(n) ELSE 0]]]
BecomeFollower(i, n, term, lead) ==
  [Reset(i, n, term) EXCEPT !.role = "Follower", !.lead = lead]
BecomeLeader(i, n) ==
  LET r == [Reset(i, n, n.term) EXCEPT !.role = "Leader", !.lead = i,
                                       !.pendingConfIndex = LastIndex(n)]
  IN AppendEntry(i, r, Normal)
Poll(i, n, id, granted) ==
  LET p == [n EXCEPT !.votes = IF id \in DOMAIN @ THEN @ ELSE (id :> granted) @@ @]
      result == JointVoteResult(n.conf.voters, n.conf.outgoing,
                  {j \in DOMAIN p.votes : p.votes[j]}, {j \in DOMAIN p.votes : ~p.votes[j]})
  IN CASE result = "VoteWon" -> BecomeLeader(i, p)
       [] result = "VoteLost" -> BecomeFollower(i, p, n.term, None)
       [] OTHER -> p

-----------------------------------------------------------------------------
(* Elections                                                               *)

\* Mutant: none counts.
NumOfPendingConfNone(n) == 0
\* The configuration changes a member knows to be committed and has not applied:
\* only those of the first version count.
NumOfPendingConf(n) ==
  Cardinality({k \in n.applied + 1..n.commit : n.log[k].kind = "EntryConfChange"})
Campaign(i) ==
  LET n == node[i]
      c == [Reset(i, n, n.term + 1) EXCEPT !.role = "Candidate", !.vote = i]
  IN /\ budget.campaigns > 0
     /\ n.role \in {"Follower", "Candidate"} /\ Promotable(i, n)
     /\ NumOfPendingConf(n) = 0
     /\ budget.prompt => n.applied = n.commit
     /\ node' = [node EXCEPT ![i] = Poll(i, c, i, TRUE)]
     /\ budget' = [budget EXCEPT !.campaigns = @ - 1]
     /\ UNCHANGED first

\* Mutant: a vote may be cast again.
CanVoteAgain(h, i) == TRUE
CanVote(h, i) == h.vote = i \/ (h.vote = None /\ h.lead = None)

\* MsgVote and its answer.
RequestVote(i, j) ==
  LET n == node[i]
      h == IF n.term > node[j].term THEN BecomeFollower(j, node[j], n.term, None)
           ELSE node[j]
      upToDate == \/ LastTerm(n) > LastTerm(h)
                  \/ LastTerm(n) = LastTerm(h) /\ LastIndex(n) >= LastIndex(h)
      granted == CanVote(h, i) /\ upToDate
  IN /\ n.role = "Candidate" /\ j \in Voters(n.conf) \ ({i} \cup DOMAIN n.votes)
     /\ h.term = n.term
     /\ node' = [node EXCEPT ![j] = IF granted THEN [h EXCEPT !.vote = i] ELSE h,
                             ![i] = Poll(i, n, j, granted)]
     /\ UNCHANGED <<first, budget>>

-----------------------------------------------------------------------------
(* Replication                                                             *)

\* Mutant: the log is cut after every append.
MergedCut(log, leaders, k) == SubSeq(leaders, 1, k)
\* The log of a follower after the first k entries of the leader's.
Merged(log, leaders, k) ==
  IF \A x \in 1..k : x <= Len(log) /\ log[x] = leaders[x] THEN log
  ELSE SubSeq(leaders, 1, k)

\* MsgApp with the next entry, or with none, and its answer, which may be lost and
\* which tells what the follower has committed when that is more.
Replicate(i, j, k, answered) ==
  LET n == node[i]
      f == BecomeFollower(j, node[j], n.term, i)
      h == IF node[j].term = n.term /\ node[j].role = "Follower"
           THEN [node[j] EXCEPT !.lead = i] ELSE f
      known == IF n.commit < k THEN n.commit ELSE k
      index == IF h.commit > k THEN h.commit ELSE k
  IN /\ n.role = "Leader" /\ j \in Tracked(n.conf) \ {i}
     /\ node[j].term <= n.term /\ k - n.conf.progress[j].match \in {0, 1}
     /\ ~answered => budget.lost > 0
     /\ node' = [node EXCEPT
          ![j] = [h EXCEPT !.log = Merged(@, n.log, k),
                           !.commit = IF known > @ THEN known ELSE @],
          ![i] = IF answered THEN MaybeCommit(Matched(n, j, index)) ELSE n]
     /\ node' # node
     /\ budget' = [budget EXCEPT !.lost = IF answered THEN @ ELSE @ - 1]
     /\ UNCHANGED first

\* MsgProp of a normal entry.
ProposeNormal(i) ==
  LET n == node[i]
  IN /\ n.role = "Leader" /\ i \in Tracked(n.conf)
     /\ budget.normal > 0 /\ LastIndex(n) < MaxLog
     /\ node' = [node EXCEPT ![i] = AppendEntry(i, n, Normal)]
     /\ budget' = [budget EXCEPT !.normal = @ - 1]
     /\ UNCHANGED first

\* Mutant: any change is taken in a joint configuration.
RefusedPending(n, e) == n.pendingConfIndex > n.applied
\* A refused change becomes an empty normal entry.
RefusedChange(n, e) == \/ n.pendingConfIndex > n.applied
                       \/ Joint(n.conf) # (e.cc.changes = <<>>)
\* MsgProp of a configuration change, the next of the budget.
ProposeConf(i) ==
  LET n == node[i]
      e == Head(budget.changes)
      no == RefusedChange(n, e)
      p == [n EXCEPT !.pendingConfIndex = IF no THEN @ ELSE LastIndex(n) + 1]
  IN /\ budget.changes # <<>> /\ LastIndex(n) < MaxLog
     /\ n.role = "Leader" /\ i \in Tracked(n.conf)
     /\ node' = [node EXCEPT ![i] = AppendEntry(i, p, IF no THEN Normal ELSE e)]
     /\ budget' = [budget EXCEPT !.changes = Tail(@)]
     /\ UNCHANGED first

-----------------------------------------------------------------------------
(* Apply                                                                   *)

\* raft.switchToConfig: a leader counts again what is committed.
Switched(i, n, c) ==
  LET s == [n EXCEPT !.conf = c]
  IN IF n.role = "Leader" /\ i \in Tracked(c) /\ ~c.progress[i].isLearner
     THEN MaybeCommit(s) ELSE s

\* A Ready hands one committed entry; Advance then leaves a joint configuration
\* by itself when the entry is not before the last change.
AutoLeft(i, n) ==
  IF n.conf.autoLeave /\ n.applied >= n.pendingConfIndex /\ n.role = "Leader"
  THEN AppendEntry(i, n, Leave) ELSE n
Apply(i) ==
  LET n == [node[i] EXCEPT !.applied = @ + 1]
      e == n.log[n.applied]
      c == ApplyConfChange(n.conf, e.cc)
  IN /\ node[i].role # "Panicked"
     /\ node[i].applied < node[i].commit /\ LastIndex(n) <= MaxLog
     /\ node' = [node EXCEPT ![i] =
          IF ~IsConf(e) THEN AutoLeft(i, n)
          ELSE IF c = Refused THEN [n EXCEPT !.role = "Panicked"]
          ELSE AutoLeft(i, Switched(i, n, c))]
     /\ UNCHANGED <<first, budget>>

-----------------------------------------------------------------------------
\* Mutant: the configuration is always that of the first snapshot.
RestartFirst(i, applied) ==
  LET n == [node[i] EXCEPT !.applied = applied, !.conf = Restore(first)]
  IN /\ budget.restarts > 0 /\ node[i].role # "Panicked"
     /\ node' = [node EXCEPT ![i] = BecomeFollower(i, n, n.term, None)]
     /\ budget' = [budget EXCEPT !.restarts = @ - 1]
     /\ UNCHANGED first
\* newRaft from the first snapshot, or from one taken of all that is applied; the
\* log and the hard state are on disk.
Restart(i, applied) ==
  LET cs == IF applied = 0 THEN first ELSE ConfState(node[i].conf)
      n == [node[i] EXCEPT !.applied = applied, !.conf = Restore(cs)]
  IN /\ budget.restarts > 0 /\ node[i].role # "Panicked"
     /\ node' = [node EXCEPT ![i] = BecomeFollower(i, n, n.term, None)]
     /\ budget' = [budget EXCEPT !.restarts = @ - 1]
     /\ UNCHANGED first

Next ==
  \/ \E i \in Nodes :
       \/ Campaign(i) \/ ProposeNormal(i) \/ ProposeConf(i) \/ Apply(i)
       \/ \E applied \in {0, node[i].applied} : Restart(i, applied)
  \/ \E i, j \in Nodes :
       \/ RequestVote(i, j)
       \/ \E k \in 1..LastIndex(node[i]), answered \in BOOLEAN :
            Replicate(i, j, k, answered)
=============================================================================
