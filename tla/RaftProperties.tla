--------------------------- MODULE RaftProperties ---------------------------
(***************************************************************************)
(* What a cluster of etcd members promises, over the states of Raft.       *)
(***************************************************************************)
EXTENDS Raft

DiskType == [Term: Nat, Vote: Server \cup {None}, Commit: Nat,
             older: SUBSET Nat, log: Log]
ReadyType == [Term: Nat, Vote: Server \cup {None}, Commit: Nat, log: Log,
              pending: BOOLEAN]

\* Every variable has the shape of the Go structure it stands for: node is
\* raft.raft, disk the WAL, net holds pb.Message (raft/raft.go:212-273).
TypeOK ==
  /\ node \in [Server -> NodeType]
  /\ disk \in [Server -> DiskType]
  /\ rd \in [Server -> ReadyType]
  /\ net \in SUBSET Message
  /\ budget \in [Event -> Nat]
  /\ handed \in Seq(Entry)
  /\ readFloor \in [ReadCtx -> Nat \cup {NotAsked}]
  /\ asked \in SUBSET Server

\* The indexes of a log keep their order (raft/log.go:26-48): nothing committed
\* is missing from the log, nothing uncommitted is applied, nothing applied or
\* uncommitted is compacted away, and a restart finds a commit index it can
\* start from (raft.go:1728-1735), whatever a crash tore.
LogIndexesOrdered ==
  \A i \in Server :
    /\ node[i].log.offset <= node[i].committed
    /\ node[i].applied <= node[i].committed
    /\ node[i].committed <= LastIndex(node[i].log)
    /\ disk[i].Commit \in disk[i].log.snap.index..LastIndex(disk[i].log)

-----------------------------------------------------------------------------
(* Elections.                                                              *)

LeaderTypes == {"MsgApp", "MsgHeartbeat", "MsgSnap", "MsgTimeoutNow"}

\* Who was seen acting as the leader of which term.
LeaderActs ==
  {<<node[i].Term, i>> : i \in {j \in Server : node[j].state = "Leader"}} \cup
  {<<m.term, m.from>> : m \in {x \in net : x.type \in LeaderTypes}}

\* A term has at most one leader, over the whole history of the term: whoever
\* ever acted as the leader of it (raft/raft.go:790-825) is the same member,
\* across crashes that lose what was not saved.
ElectionSafety ==
  \A x, y \in LeaderActs : x[1] = y[1] => x[2] = y[2]

Grants == {m \in net : m.type = "MsgVoteResp" /\ ~m.reject}

\* A vote that left a member is on its disk: no crash makes it vote again in
\* the same term (raft/node.go:649-658, etcdserver/raft.go:266-330).
OneVotePerTerm ==
  \A m, n \in Grants : m.from = n.from /\ m.term = n.term => m.to = n.to

-----------------------------------------------------------------------------
(* Logs.                                                                   *)

Logs == {node[i].log : i \in Server} \cup {disk[i].log : i \in Server}

SharedIndexes(a, b) ==
  Maximum(FirstIndex(a), FirstIndex(b)) .. Minimum(LastIndex(a), LastIndex(b))

EntryAt(log, k) == log.ents[k - log.offset]

\* Log matching: two logs that have an entry of the same term at an index
\* have the same entry there and the same term before it (raft/log.go:94-121).
LogMatching ==
  \A a, b \in Logs : \A k \in SharedIndexes(a, b) :
    LogTerm(a, k) = LogTerm(b, k) =>
      /\ EntryAt(a, k) = EntryAt(b, k)
      /\ LogTerm(a, k - 1) = LogTerm(b, k - 1)

\* The log agrees, up to index n, with what was handed to state machines.
AgreesWithHanded(log, n) ==
  /\ \A k \in FirstIndex(log)..Minimum(n, Len(handed)) :
       EntryAt(log, k) = handed[k]
  /\ log.offset \in 1..Len(handed) => log.offTerm = handed[log.offset].term

\* State machine safety: what a member takes for committed is what every
\* state machine was ever handed at that index, and two members agree on what
\* both take for committed (raft/log.go:227-236, raft/raft.go:1549-1623).
StateMachineSafety ==
  /\ \A i \in Server : AgreesWithHanded(node[i].log, node[i].committed)
  /\ \A i, j \in Server : \A k \in SharedIndexes(node[i].log, node[j].log) :
       k <= Minimum(node[i].committed, node[j].committed) =>
         EntryAt(node[i].log, k) = EntryAt(node[j].log, k)

\* Leader completeness: the leader of the highest term has every entry any
\* state machine was handed (raft/log.go:311-316 decides who may lead).
LeaderCompleteness ==
  \A i \in Server :
    /\ node[i].state = "Leader"
    /\ \A j \in Server : node[j].Term <= node[i].Term
    => /\ LastIndex(node[i].log) >= Len(handed)
       /\ AgreesWithHanded(node[i].log, Len(handed))

-----------------------------------------------------------------------------
(* What survives a crash.                                                  *)

HasDurably(i, k) ==
  LET log == disk[i].log
  IN k <= LastIndex(log) /\ (k > log.offset => EntryAt(log, k) = handed[k])

\* An entry is handed to a state machine only when a quorum has it on disk:
\* no crash of any members loses what was applied (raft/node.go:83-88: "These
\* have previously been committed to stable store").
HandedIsDurable ==
  \A k \in 1..Len(handed) :
    IsJointQuorum(Voters, Outgoing, {i \in Server : HasDurably(i, k)})

\* What a leader takes a peer of its term to match (tracker/progress.go:29) is
\* what the peer has on disk, however old the acknowledgement.
MatchIsTruthful ==
  \A i, j \in Server :
    (/\ i # j /\ node[i].state = "Leader" /\ node[j].Term = node[i].Term)
    => LET n == node[i].prs[j].Match
       IN /\ n <= LastIndex(disk[j].log)
          /\ \A k \in SharedIndexes(node[i].log, disk[j].log) :
               k <= n => EntryAt(node[i].log, k) = EntryAt(disk[j].log, k)

-----------------------------------------------------------------------------
(* Panics, reads, transfers.                                               *)

\* Raft's assertions hold (log.go:106, 127, 231; raft.go:440, 1729): no order
\* of messages and crashes brings a member to one of its panics.  The slice of
\* MsgHup is NoHupPanic's.
NoPanic == \A i \in Server : node[i].panic \in {"none", "hup"}

\* "unexpected error getting unapplied entries" (raft.go:985-988) is never
\* met: a campaign can always read the entries it has still to apply.
NoHupPanic == \A i \in Server : node[i].panic # "hup"

\* A read answered through ReadIndex sees everything any member had applied
\* when it was asked for (raft.go:1172-1208, 1281-1312; read_only.go).
ReadIsLinearizable ==
  \A i \in Server : \A rs \in node[i].readStates :
    rs.index >= readFloor[rs.ctx]

PreVoteGrants(i, terms) ==
  {m \in net : /\ m.type = "MsgPreVoteResp" /\ ~m.reject
               /\ m.to = i /\ m.term \in terms}

\* With PreVote, nobody raises the term of the cluster on its own: a vote that
\* no transfer asked for was preceded by pre-vote grants of a quorum, to that
\* candidate, for its term or the one before (raft.go:829-882, 1386-1400).
PreVoteBeforeVote ==
  \A m \in net :
    (PreVote /\ m.type = "MsgVote" /\ m.ctx # CampaignTransfer) =>
      IsJointQuorum(Voters, Outgoing, {m.from} \cup
        {g.from : g \in PreVoteGrants(m.from, {m.term - 1, m.term})})

\* The target of a transfer is told to campaign only when its disk holds the
\* whole log of the leader, so that the transfer loses no entry and cannot
\* fail for a short log (raft.go:1245-1248, 1364-1371).
TransferToCaughtUp ==
  [][\A i \in Server : \A m \in node'[i].msgs \ node[i].msgs :
       (m.type = "MsgTimeoutNow" /\ node[m.to].Term = node'[i].Term) =>
         /\ LastIndex(disk[m.to].log) >= LastIndex(node'[i].log)
         /\ \A k \in SharedIndexes(node'[i].log, disk[m.to].log) :
              EntryAt(disk[m.to].log, k) = EntryAt(node'[i].log, k)]_vars

\* A leader hands its office over only to a member it was asked to hand it to
\* (node.go:610-617).
TransferTargetAsked ==
  \A i \in Server : node[i].leadTransferee \in asked \cup {None}
=============================================================================
