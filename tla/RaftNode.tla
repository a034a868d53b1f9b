------------------------------ MODULE RaftNode ------------------------------
(***************************************************************************)
(* The raft state machine of one member (raft/raft.go, raft/log.go,        *)
(* raft/read_only.go) as operators on its state: each takes the record r   *)
(* of a member and returns the record the Go method leaves.  Module Raft   *)
(* puts the members in a cluster.                                          *)
(*                                                                         *)
(* Membership is fixed: Voters, Outgoing and Learners are the tracker      *)
(* configuration every member starts with.  Ticks are abstracted to the    *)
(* one bit the code compares them for: elapsed, "electionElapsed >=        *)
(* electionTimeout".  The log is its entries after the compacted prefix;   *)
(* which of them are stable is the difference with the disk in Raft.       *)
(* Outside the leader state the progress map is never read and is kept at  *)
(* NoProgress.                                                             *)
(***************************************************************************)
EXTENDS Integers, FiniteSets, Sequences, QuorumSystem, Progress

CONSTANTS
  Voters, Outgoing, Learners,   \* the sets of ids of tracker.Config
  Value, NoData,                \* payloads of proposals; of the leader's empty entry
  ReadCtx,                      \* ids of linearizable read requests
  None, NoCtx, CampaignTransfer,
  PreVote, CheckQuorum,         \* the options of raft.Config
  MaxEntries    \* entries that fit in Config.MaxSizePerMsg, all of one size

Server == Voters \cup Outgoing \cup Learners

ASSUME ConfAssumption ==
  /\ IsFiniteSet(Server)
  /\ Voters # {}
  /\ Learners \cap (Voters \cup Outgoing) = {}
  /\ None \notin Server
ASSUME OptionAssumption ==
  /\ MaxEntries \in Nat \ {0}
  /\ PreVote \in BOOLEAN
  /\ CheckQuorum \in BOOLEAN
  /\ NoCtx \notin ReadCtx
  /\ CampaignTransfer \notin ReadCtx \cup {NoCtx}

-----------------------------------------------------------------------------
(* Types.                                                                  *)

RaftState == {"Follower", "PreCandidate", "Candidate", "Leader"}
PanicKind == {"none", "hup", "tocommit", "conflict", "gap", "sendTerm", "loadState"}

Entry == [term: Nat, data: Value \cup {NoData}]
Log == [offset: Nat, offTerm: Nat, ents: Seq(Entry),
        snap: [index: Nat, term: Nat]]

MessageType ==
  {"MsgVote", "MsgVoteResp", "MsgPreVote", "MsgPreVoteResp", "MsgApp",
   "MsgAppResp", "MsgHeartbeat", "MsgHeartbeatResp", "MsgSnap",
   "MsgTimeoutNow", "MsgTransferLeader", "MsgReadIndex", "MsgReadIndexResp",
   "MsgProp"}

\* pb.Message.  In a MsgSnap index and logTerm are those of the snapshot's
\* metadata; ctx is the Context of votes and heartbeats and the data of the
\* single entry of a read request.  A proposal carries one entry.
Message ==
  {m \in [type: MessageType, from: Server, to: Server, term: Nat,
          logTerm: Nat, index: Nat, ents: Seq(Entry), commit: Nat,
          reject: BOOLEAN, hint: Nat, ctx: ReadCtx \cup {NoCtx, CampaignTransfer}] :
     m.type = "MsgProp" => Len(m.ents) = 1}

ReadRequest == [ctx: ReadCtx \cup {NoCtx, CampaignTransfer},
                from: Server \cup {None}, index: Nat, acks: SUBSET Server]
ReadState == [ctx: ReadCtx \cup {NoCtx, CampaignTransfer}, index: Nat]

NodeType ==
  [id: Server, Term: Nat, Vote: Server \cup {None}, state: RaftState,
   lead: Server \cup {None}, log: Log, committed: Nat, applied: Nat,
   granted: SUBSET Server, rejected: SUBSET Server,
   prs: [Server -> ProgressType], leadTransferee: Server \cup {None},
   elapsed: BOOLEAN, readOnly: Seq(ReadRequest),
   readStates: SUBSET ReadState, msgs: SUBSET Message, panic: PanicKind]

NoProgress == [s \in Server |-> NewProgress(0, 1)]

-----------------------------------------------------------------------------
(* The log.                                                                *)

LastIndex(log)  == log.offset + Len(log.ents)
FirstIndex(log) == log.offset + 1

\* raftLog.term: zero outside the range that starts at the dummy index.
LogTerm(log, i) ==
  IF i \in FirstIndex(log)..LastIndex(log) THEN log.ents[i - log.offset].term
  ELSE IF i = log.offset THEN log.offTerm
  ELSE 0

LastTerm(log) == LogTerm(log, LastIndex(log))

\* slice: the entries lo..hi, for lo >= FirstIndex(log).
Slice(log, lo, hi) == SubSeq(log.ents, lo - log.offset, hi - log.offset)

\* entries(lo, maxMsgSize): as many from lo on as fit in a message.
EndOfMessage(log, lo) == Minimum(lo + MaxEntries - 1, LastIndex(log))

IsUpToDate(log, index, logTerm) ==
  \/ logTerm > LastTerm(log)
  \/ logTerm = LastTerm(log) /\ index >= LastIndex(log)

\* raftLog.append of ents after index prev: truncates what conflicts.
AppendAfter(log, prev, ents) ==
  [log EXCEPT !.ents = SubSeq(log.ents, 1, prev - log.offset) \o ents]

Compacted(log, i) == [log EXCEPT !.offset = i, !.offTerm = LogTerm(log, i),
                                 !.ents = Slice(log, i + 1, LastIndex(log))]

EmptyLog == [offset |-> 0, offTerm |-> 0, ents |-> <<>>,
             snap |-> [index |-> 0, term |-> 0]]

-----------------------------------------------------------------------------
(* Messages.                                                               *)

Msg(type, to) ==
  [type |-> type, from |-> None, to |-> to, term |-> 0, logTerm |-> 0,
   index |-> 0, ents |-> <<>>, commit |-> 0, reject |-> FALSE, hint |-> 0,
   ctx |-> NoCtx]

VoteTypes == {"MsgVote", "MsgVoteResp", "MsgPreVote", "MsgPreVoteResp"}

\* send: votes carry the term they were given, forwarded proposals and reads
\* none, every other message the sender's.  From is always overwritten.
Stamped(r, m) ==
  [m EXCEPT !.from = r.id,
            !.term = IF m.type \in VoteTypes \cup {"MsgProp", "MsgReadIndex"}
                     THEN m.term ELSE r.Term]
Send(r, m) == [r EXCEPT !.msgs = @ \cup {Stamped(r, m)}]

Panic(r, kind) == [r EXCEPT !.panic = kind]

-----------------------------------------------------------------------------
(* Leader: replication.                                                    *)

SetProgress(r, to, pr) == [r EXCEPT !.prs[to] = pr]

\* The MsgApp of the entries from lo on.
AppMsg(r, to, lo) ==
  [Msg("MsgApp", to) EXCEPT
     !.index = lo - 1, !.logTerm = LogTerm(r.log, lo - 1),
     !.ents = Slice(r.log, lo, EndOfMessage(r.log, lo)), !.commit = r.committed]
SnapMsg(r, to) ==
  [Msg("MsgSnap", to) EXCEPT !.index = r.log.snap.index,
                             !.logTerm = r.log.snap.term]

\* sendAppend, maybeSendAppend(to, true), for one peer: its new progress and
\* the messages sent, an empty MsgApp included.
AppendTo(r, to) ==
  LET pr == r.prs[to]
      compacted == pr.Next < FirstIndex(r.log)
  IN IF IsPaused(pr) \/ (compacted /\ ~pr.RecentActive)
     THEN [pr |-> pr, msgs |-> {}]
     ELSE IF compacted
     THEN [pr |-> BecomeSnapshot(pr, r.log.snap.index),
           msgs |-> {Stamped(r, SnapMsg(r, to))}]
     ELSE [pr |-> IF pr.Next > LastIndex(r.log) THEN pr
                  ELSE SentEntries(pr, EndOfMessage(r.log, pr.Next)),
           msgs |-> {Stamped(r, AppMsg(r, to, pr.Next))}]

SendAppend(r, to) ==
  LET out == AppendTo(r, to)
  IN [r EXCEPT !.prs[to] = out.pr, !.msgs = @ \cup out.msgs]

\* "for r.maybeSendAppend(to, false) {}" of a peer being replicated to: one
\* message after the other until nothing is left or the window is full.
SendRemaining(r, to) ==
  LET pr == r.prs[to]
      lo(k) == pr.Next + (k - 1) * MaxEntries
      sent == {k \in 1..(MaxInflight - Cardinality(pr.Inflights)) :
                 lo(k) <= LastIndex(r.log)}
  IN IF \/ pr.State # "StateReplicate" \/ sent = {}
        \/ pr.Next < FirstIndex(r.log)
     THEN r
     ELSE [r EXCEPT
        !.prs[to].Next = Minimum(lo(Cardinality(sent) + 1), LastIndex(r.log) + 1),
        !.prs[to].Inflights = @ \cup {EndOfMessage(r.log, lo(k)) : k \in sent},
        !.msgs = @ \cup {Stamped(r, AppMsg(r, to, lo(k))) : k \in sent}]

BcastAppend(r) ==
  [r EXCEPT
     !.prs = [s \in Server |-> IF s = r.id THEN r.prs[s]
                               ELSE AppendTo(r, s).pr],
     !.msgs = @ \cup UNION {AppendTo(r, s).msgs : s \in Server \ {r.id}}]

\* The leader never forwards a commit index beyond what the peer matched.
BcastHeartbeat(r, ctx) ==
  [r EXCEPT !.msgs = @ \cup
     {Stamped(r, [Msg("MsgHeartbeat", s) EXCEPT
                    !.commit = Minimum(r.prs[s].Match, r.committed),
                    !.ctx = ctx]) : s \in Server \ {r.id}}]

Committed(r) ==
  JointCommittedIndex(Voters, Outgoing, [s \in Server |-> r.prs[s].Match])

\* Mutant: entries of earlier terms are committed by counting.
MaybeCommitAnyTerm(r) ==
  IF Committed(r) > r.committed THEN [r EXCEPT !.committed = Committed(r)]
  ELSE r

\* raft.maybeCommit: only an entry of the leader's own term is counted.
MaybeCommit(r) ==
  IF Committed(r) > r.committed /\ LogTerm(r.log, Committed(r)) = r.Term
  THEN [r EXCEPT !.committed = Committed(r)]
  ELSE r

AppendEntry(r, data) ==
  LET log == AppendAfter(r.log, LastIndex(r.log),
                         <<[term |-> r.Term, data |-> data]>>)
  IN MaybeCommit([r EXCEPT !.log = log,
                           !.prs[r.id] = MaybeUpdate(@, LastIndex(log))])

IsSingleton == Cardinality(Voters) = 1 /\ Outgoing = {}

\* QuorumActive counts as silent every voter whose progress is not active.
QuorumActive(r) ==
  LET active == {s \in Server \ Learners : r.prs[s].RecentActive}
  IN JointVoteResult(Voters, Outgoing, active, (Server \ Learners) \ active)
       = "VoteWon"

-----------------------------------------------------------------------------
(* Roles.                                                                  *)

Reset(r, term) ==
  [r EXCEPT !.Vote = IF r.Term = term THEN r.Vote ELSE None, !.Term = term,
            !.lead = None, !.elapsed = FALSE, !.leadTransferee = None,
            !.granted = {}, !.rejected = {}, !.prs = NoProgress,
            !.readOnly = <<>>]

BecomeFollower(r, term, lead) ==
  [Reset(r, term) EXCEPT !.lead = lead, !.state = "Follower"]

BecomeCandidate(r) ==
  [Reset(r, r.Term + 1) EXCEPT !.Vote = r.id, !.state = "Candidate"]

\* A pre-candidate keeps its term and its vote.
BecomePreCandidate(r) ==
  [r EXCEPT !.granted = {}, !.rejected = {}, !.lead = None,
            !.state = "PreCandidate"]

BecomeLeader(r) ==
  LET last == LastIndex(r.log)
      fresh == [s \in Server |->
                  IF s = r.id
                  THEN BecomeReplicate(NewProgress(last, last + 1))
                  ELSE NewProgress(0, last + 1)]
  IN AppendEntry([Reset(r, r.Term) EXCEPT
                    !.lead = r.id, !.state = "Leader", !.prs = fresh], NoData)

\* RecordVote keeps the first answer of an id.
RecordVote(r, id, v) ==
  IF id \in r.granted \cup r.rejected THEN r
  ELSE IF v THEN [r EXCEPT !.granted = @ \cup {id}]
  ELSE [r EXCEPT !.rejected = @ \cup {id}]

TallyVotes(r) == JointVoteResult(Voters, Outgoing, r.granted, r.rejected)

SendVotes(r, type, term, ctx) ==
  [r EXCEPT !.msgs = @ \cup
     {Stamped(r, [Msg(type, s) EXCEPT
                    !.term = term, !.index = LastIndex(r.log),
                    !.logTerm = LastTerm(r.log), !.ctx = ctx])
      : s \in (Voters \cup Outgoing) \ {r.id}}]

\* campaign(campaignElection) and campaign(campaignTransfer).
Campaign(r, ctx) ==
  LET c == RecordVote(BecomeCandidate(r), r.id, TRUE)
  IN IF TallyVotes(c) = "VoteWon" THEN BecomeLeader(c)
     ELSE SendVotes(c, "MsgVote", c.Term, ctx)

\* campaign(campaignPreElection).
PreCampaign(r) ==
  LET c == RecordVote(BecomePreCandidate(r), r.id, TRUE)
  IN IF TallyVotes(c) = "VoteWon" THEN Campaign(c, NoCtx)
     ELSE SendVotes(c, "MsgPreVote", c.Term + 1, NoCtx)

Promotable(r) == r.id \notin Learners

\* Mutant: a candidate whose election timed out does not ask again.
StepHupOnce(r) ==
  IF r.state = "Leader" \/ ~Promotable(r) THEN r
  ELSE IF r.applied + 1 < FirstIndex(r.log) THEN Panic(r, "hup")
  ELSE IF PreVote /\ r.state = "Follower" THEN PreCampaign(r)
  ELSE Campaign(r, NoCtx)

\* Step of MsgHup.  The unapplied entries are sliced to look for membership
\* changes; the slice fails when it starts before the first index.
StepHup(r) ==
  IF r.state = "Leader" \/ ~Promotable(r) THEN r
  ELSE IF r.applied + 1 < FirstIndex(r.log) THEN Panic(r, "hup")
  ELSE IF PreVote THEN PreCampaign(r) ELSE Campaign(r, NoCtx)
=============================================================================
