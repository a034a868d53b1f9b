------------------------ MODULE MembershipProperties ------------------------
(***************************************************************************)
(* The properties of membership changes.                                   *)
(***************************************************************************)
EXTENDS Membership

Leader(i) == node[i].role = "Leader"

\* The shapes of a member's state: what it applied is committed, what is committed
\* is in its log (raft/log.go:227-252), and its configuration is one the code's own
\* check accepts (raft/confchange/confchange.go:311-391).
TypeOK ==
  \A i \in Nodes : LET n == node[i]
                   IN /\ n.applied <= n.commit /\ n.commit <= LastIndex(n)
                      /\ n.pendingConfIndex <= LastIndex(n)
                      /\ n.conf.voters # {} /\ CheckInvariants(n.conf)

\* No term has two leaders (raft/raft.go:854-881), although members campaign under
\* the configurations of different moments.
OneLeaderPerTerm ==
  \A i, j \in Nodes : Leader(i) /\ Leader(j) /\ node[i].term = node[j].term => i = j

\* A leader holds every entry committed in a term up to its own (raft/raft.go:978-1000:
\* a member with unapplied changes does not campaign; raft/raft.go:1126-1153: a
\* change waits for the one before it).
LeaderHasCommitted ==
  \A i, j \in Nodes : Leader(i) /\ node[j].term <= node[i].term =>
    \A k \in 1..node[j].commit :
      k <= LastIndex(node[i]) /\ node[i].log[k] = node[j].log[k]

\* The configuration a ConfState describes is the one it was taken of
\* (raft/confchange/restore.go:122-166; newRaft panics when it is not).
ConfRestorable ==
  \A i \in Nodes : LET c == node[i].conf
                       r == Restore(ConfState(c))
                   IN /\ r # Refused
                      /\ ConfState(r) = ConfState(c)
                      /\ Tracked(r) = Tracked(c)
                      /\ \A id \in Tracked(c) :
                           r.progress[id].isLearner = c.progress[id].isLearner

\* Members that applied the same entries have the same configuration, whether they
\* applied them one by one or restarted from a snapshot (raft/raft.go:1636-1655).
SameConf ==
  \A i, j \in Nodes : node[i].applied = node[j].applied =>
    ConfState(node[i].conf) = ConfState(node[j].conf)

\* A change never leaves two quorums that do not meet, one of the configuration
\* before it and one of that after it (raft/confchange/confchange.go:128-157).
QuorumsMeet ==
  [][\A i \in Nodes :
       LET a == node[i].conf
           b == node'[i].conf
       IN ConfState(b) # ConfState(a) /\ node'[i].applied = node[i].applied + 1 =>
            \A P \in SUBSET Voters(a), Q \in SUBSET Voters(b) :
              IsJointQuorum(a.voters, a.outgoing, P)
                /\ IsJointQuorum(b.voters, b.outgoing, Q) => P \cap Q # {}]_vars

\* A committed change can be applied: applyConfChange does not panic
\* (raft/raft.go:1655-1658).
NoConfPanic == \A i \in Nodes : node[i].role # "Panicked"
=============================================================================
