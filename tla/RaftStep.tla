------------------------------ MODULE RaftStep ------------------------------
(***************************************************************************)
(* raft.Step and the step functions of the roles (raft/raft.go:898-1543):  *)
(* one operator per message type, from the record r of a member, already   *)
(* at the term of the message, and the message m to the record the step    *)
(* leaves.  Also the local messages: ticks, proposals, reads, transfers    *)
(* and reports of the transport.                                           *)
(***************************************************************************)
EXTENDS RaftNode

-----------------------------------------------------------------------------
(* The terms of Step.                                                      *)

IsStale(r, m) == m.term # 0 /\ m.term < r.Term

\* A member that heard from a leader within the election timeout ignores
\* vote requests, unless the leader itself asked for the election.
InLease(r, m) ==
  /\ m.type \in {"MsgVote", "MsgPreVote"}
  /\ m.term > r.Term
  /\ CheckQuorum /\ r.lead # None /\ ~r.elapsed
  /\ m.ctx # CampaignTransfer

\* A pre-vote request, and a granted one, carry a term nobody is at yet.
KeepsTerm(r, m) ==
  \/ m.term <= r.Term
  \/ m.type = "MsgPreVote"
  \/ m.type = "MsgPreVoteResp" /\ ~m.reject

AtTerm(r, m) ==
  IF KeepsTerm(r, m) THEN r
  ELSE BecomeFollower(r, m.term,
         IF m.type \in {"MsgApp", "MsgHeartbeat", "MsgSnap"}
         THEN m.from ELSE None)

\* The answer to a stale message: a stale leader learns the new term from an
\* empty MsgAppResp, a stale pre-candidate from a rejection.
StepStale(r, m) ==
  IF (CheckQuorum \/ PreVote) /\ m.type \in {"MsgHeartbeat", "MsgApp"}
  THEN Send(r, Msg("MsgAppResp", m.from))
  ELSE IF m.type = "MsgPreVote"
  THEN Send(r, [Msg("MsgPreVoteResp", m.from) EXCEPT
                  !.term = r.Term, !.reject = TRUE])
  ELSE r

-----------------------------------------------------------------------------
(* Elections.                                                              *)

VoteRespType(type) == IF type = "MsgVote" THEN "MsgVoteResp"
                                          ELSE "MsgPreVoteResp"

\* Mutant: a member that voted votes again while it knows no leader.
CanVoteAgain(r, m) == \/ r.lead = None
                      \/ m.type = "MsgPreVote" /\ m.term > r.Term

CanVote(r, m) == \/ r.Vote = m.from
                 \/ r.Vote = None /\ r.lead = None
                 \/ m.type = "MsgPreVote" /\ m.term > r.Term

StepVote(r, m) ==
  LET resp == Msg(VoteRespType(m.type), m.from)
  IN IF ~(CanVote(r, m) /\ IsUpToDate(r.log, m.index, m.logTerm))
     THEN Send(r, [resp EXCEPT !.term = r.Term, !.reject = TRUE])
     ELSE IF m.type = "MsgPreVote" THEN Send(r, [resp EXCEPT !.term = m.term])
     ELSE [Send(r, [resp EXCEPT !.term = m.term]) EXCEPT
             !.elapsed = FALSE, !.Vote = m.from]

\* Mutant: a candidate counts late pre-votes as votes.
StepVoteRespAnyKind(r, m) ==
  LET r1 == RecordVote(r, m.from, ~m.reject)
      result == TallyVotes(r1)
  IN IF r.state \notin {"PreCandidate", "Candidate"} THEN r
     ELSE IF result = "VoteLost" THEN BecomeFollower(r1, r1.Term, None)
     ELSE IF result = "VotePending" THEN r1
     ELSE IF r.state = "PreCandidate" THEN Campaign(r1, NoCtx)
     ELSE BcastAppend(BecomeLeader(r1))

\* Only the answer to the kind of vote the campaign asks for is counted.
StepVoteResp(r, m) ==
  LET r1 == RecordVote(r, m.from, ~m.reject)
      result == TallyVotes(r1)
  IN IF <<r.state, m.type>> \notin {<<"PreCandidate", "MsgPreVoteResp">>,
                                    <<"Candidate", "MsgVoteResp">>}
     THEN r
     ELSE IF result = "VoteLost" THEN BecomeFollower(r1, r1.Term, None)
     ELSE IF result = "VotePending" THEN r1
     ELSE IF r.state = "PreCandidate" THEN Campaign(r1, NoCtx)
     ELSE BcastAppend(BecomeLeader(r1))

StepTimeoutNow(r, m) ==
  IF r.state = "Follower" /\ Promotable(r) THEN Campaign(r, CampaignTransfer)
  ELSE r

-----------------------------------------------------------------------------
(* Followers (and candidates, which become one first).                     *)

FollowSender(r, m) ==
  IF r.state = "Follower" THEN [r EXCEPT !.elapsed = FALSE, !.lead = m.from]
  ELSE BecomeFollower(r, m.term, m.from)

CommitTo(r, tocommit) ==
  IF tocommit <= r.committed THEN r
  ELSE IF LastIndex(r.log) < tocommit THEN Panic(r, "tocommit")
  ELSE [r EXCEPT !.committed = tocommit]

\* How many of m.ents the log has already, from the first on: findConflict
\* stops at the first one it has not.
KeptEntries(r, m) ==
  Cardinality({k \in DOMAIN m.ents :
                 \A j \in 1..k : LogTerm(r.log, m.index + j) = m.ents[j].term})

\* raftLog.maybeAppend once the entry before m.ents matches: entries the log
\* already has are kept, even when the log goes on after them.  It panics when
\* a committed entry conflicts and when the new entries leave a gap.
MaybeAppend(r, m) ==
  LET lastnewi == m.index + Len(m.ents)
      kept == KeptEntries(r, m)
      new  == SubSeq(m.ents, kept + 1, Len(m.ents))
  IN IF kept = Len(m.ents) THEN CommitTo(r, Minimum(m.commit, lastnewi))
     ELSE IF m.index + kept < r.committed THEN Panic(r, "conflict")
     ELSE IF m.index + kept > LastIndex(r.log) THEN Panic(r, "gap")
     ELSE CommitTo([r EXCEPT !.log = AppendAfter(@, m.index + kept, new)],
                   Minimum(m.commit, lastnewi))

AppResp(to, index) == [Msg("MsgAppResp", to) EXCEPT !.index = index]

\* Mutant: the entry before the new ones only has to exist.
HandleAppendEntriesUnchecked(r, m) ==
  IF m.index < r.committed THEN Send(r, AppResp(m.from, r.committed))
  ELSE IF m.index <= LastIndex(r.log)
  THEN Send(MaybeAppend(r, m), AppResp(m.from, m.index + Len(m.ents)))
  ELSE Send(r, [AppResp(m.from, m.index) EXCEPT
                  !.reject = TRUE, !.hint = LastIndex(r.log)])

HandleAppendEntries(r, m) ==
  IF m.index < r.committed THEN Send(r, AppResp(m.from, r.committed))
  ELSE IF LogTerm(r.log, m.index) = m.logTerm
  THEN Send(MaybeAppend(r, m), AppResp(m.from, m.index + Len(m.ents)))
  ELSE Send(r, [AppResp(m.from, m.index) EXCEPT
                  !.reject = TRUE, !.hint = LastIndex(r.log)])

StepApp(r, m) == IF r.state = "Leader" THEN r
                 ELSE HandleAppendEntries(FollowSender(r, m), m)

StepHeartbeat(r, m) ==
  IF r.state = "Leader" THEN r
  ELSE Send(CommitTo(FollowSender(r, m), m.commit),
            [Msg("MsgHeartbeatResp", m.from) EXCEPT !.ctx = m.ctx])

\* Mutant: the commit index stays behind the snapshot.
RestoreLogOnly(r, m) ==
  [r EXCEPT !.log = [offset |-> m.index, offTerm |-> m.logTerm, ents |-> <<>>,
                     snap |-> [index |-> m.index, term |-> m.logTerm]]]

\* raftLog.restore: the snapshot replaces the log.  It stays pending, with
\* applied behind the first index, until the next Ready is processed.
RestoreLog(r, m) ==
  [r EXCEPT !.committed = m.index,
            !.log = [offset |-> m.index, offTerm |-> m.logTerm, ents |-> <<>>,
                     snap |-> [index |-> m.index, term |-> m.logTerm]]]

\* handleSnapshot with restore: a snapshot behind the commit index is ignored,
\* one the log already matches only moves the commit index.
HandleSnapshot(r, m) ==
  IF m.index <= r.committed THEN Send(r, AppResp(m.from, r.committed))
  ELSE IF LogTerm(r.log, m.index) = m.logTerm
  THEN Send(CommitTo(r, m.index), AppResp(m.from, m.index))
  ELSE Send(RestoreLog(r, m), AppResp(m.from, m.index))

StepSnap(r, m) == IF r.state = "Leader" THEN r
                  ELSE HandleSnapshot(FollowSender(r, m), m)

-----------------------------------------------------------------------------
(* Leader: answers of the peers.                                           *)

Active(r, from) == [r.prs[from] EXCEPT !.RecentActive = TRUE]

RejectedAppend(r, m) ==
  LET pr == Active(r, m.from)
      decr == DecrTo(pr, m.index, m.hint)
  IN IF StaleRejection(pr, m.index) THEN SetProgress(r, m.from, pr)
     ELSE SendAppend(
            SetProgress(r, m.from,
              IF pr.State = "StateReplicate" THEN BecomeProbe(decr) ELSE decr),
            m.from)

\* The state of the progress after a successful append.
AfterAck(pr, index) ==
  IF pr.State = "StateProbe" THEN BecomeReplicate(pr)
  ELSE IF pr.State = "StateReplicate" THEN FreeLE(pr, index)
  ELSE IF pr.Match >= pr.PendingSnapshot THEN BecomeReplicate(BecomeProbe(pr))
  ELSE pr

SendTimeoutNowIfCaughtUp(r, to) ==
  IF to = r.leadTransferee /\ r.prs[to].Match = LastIndex(r.log)
  THEN Send(r, Msg("MsgTimeoutNow", to))
  ELSE r

AckedAppend(r, m) ==
  LET pr == Active(r, m.from)
      up == MaybeUpdate(pr, m.index)
      r1 == MaybeCommit(SetProgress(r, m.from, AfterAck(up, m.index)))
      r2 == IF r1.committed > r.committed THEN BcastAppend(r1)
            ELSE IF IsPaused(pr) THEN SendAppend(r1, m.from)
            ELSE r1
      r3 == SendRemaining(r2, m.from)
  IN IF m.index <= pr.Match THEN SetProgress(r, m.from, up)
     ELSE SendTimeoutNowIfCaughtUp(r3, m.from)

\* Mutant: a rejection is taken for an acknowledgement.
StepAppRespBlind(r, m) == IF r.state # "Leader" THEN r ELSE AckedAppend(r, m)

StepAppResp(r, m) == IF r.state # "Leader" THEN r
                     ELSE IF m.reject THEN RejectedAppend(r, m)
                     ELSE AckedAppend(r, m)

-----------------------------------------------------------------------------
(* Leader: linearizable reads (readOnly, option ReadOnlySafe).             *)

\* readOnly.recvAck; a context that is not pending is ignored.
RecvAck(q, ctx, from) ==
  [k \in DOMAIN q |->
     IF q[k].ctx = ctx THEN [q[k] EXCEPT !.acks = @ \cup {from}] ELSE q[k]]

LastPendingCtx(q) == IF q = <<>> THEN NoCtx ELSE q[Len(q)].ctx

\* The answer to a read: to the local member, or to the one that forwarded it.
Answer(r, q) ==
  IF q.from \in {None, r.id}
  THEN [r EXCEPT !.readStates = @ \cup {[ctx |-> q.ctx, index |-> q.index]}]
  ELSE Send(r, [Msg("MsgReadIndexResp", q.from) EXCEPT
                  !.index = q.index, !.ctx = q.ctx])

\* readOnly.advance: a confirmed read confirms the reads queued before it.
AnswerReads(r, p) ==
  LET done == {r.readOnly[k] : k \in 1..p}
      locals == {q \in done : q.from \in {None, r.id}}
  IN [r EXCEPT
        !.readOnly = SubSeq(@, p + 1, Len(@)),
        !.readStates = @ \cup {[ctx |-> q.ctx, index |-> q.index] : q \in locals},
        !.msgs = @ \cup
          {Stamped(r, [Msg("MsgReadIndexResp", q.from) EXCEPT
                         !.index = q.index, !.ctx = q.ctx])
           : q \in done \ locals}]

StepReadIndexLeader(r, ctx, from) ==
  LET q == [ctx |-> ctx, from |-> from, index |-> r.committed, acks |-> {}]
      pending == \E k \in DOMAIN r.readOnly : r.readOnly[k].ctx = ctx
      queue == IF pending THEN r.readOnly ELSE Append(r.readOnly, q)
  IN IF IsSingleton THEN Answer(r, q)
     ELSE IF LogTerm(r.log, r.committed) # r.Term THEN r
     ELSE BcastHeartbeat([r EXCEPT !.readOnly = RecvAck(queue, ctx, r.id)], ctx)

StepReadIndex(r, ctx, from) ==
  IF r.state = "Leader" THEN StepReadIndexLeader(r, ctx, from)
  ELSE IF r.state = "Follower" /\ r.lead # None
  THEN Send(r, [Msg("MsgReadIndex", r.lead) EXCEPT !.ctx = ctx])
  ELSE r

StepReadIndexResp(r, m) ==
  IF r.state = "Follower"
  THEN [r EXCEPT !.readStates = @ \cup {[ctx |-> m.ctx, index |-> m.index]}]
  ELSE r

HeartbeatProgress(r, from) ==
  LET pr == [Active(r, from) EXCEPT !.ProbeSent = FALSE]
  IN IF pr.State = "StateReplicate" /\ Full(pr) THEN FreeFirstOne(pr) ELSE pr

\* Mutant: the answers to one read confirm the reads queued after it as well.
StepHeartbeatRespAllReads(r, m) ==
  LET r1 == SetProgress(r, m.from, HeartbeatProgress(r, m.from))
      r2 == IF r1.prs[m.from].Match < LastIndex(r.log)
            THEN SendAppend(r1, m.from) ELSE r1
      r3 == [r2 EXCEPT !.readOnly = RecvAck(@, m.ctx, m.from)]
      confirmed == {k \in DOMAIN r3.readOnly :
                      /\ r3.readOnly[k].ctx = m.ctx
                      /\ JointVoteResult(Voters, Outgoing,
                           r3.readOnly[k].acks, {}) = "VoteWon"}
  IN IF r.state # "Leader" THEN r
     ELSE IF m.ctx = NoCtx THEN r2
     ELSE IF confirmed = {} THEN r3
     ELSE AnswerReads(r3, Len(r3.readOnly))

StepHeartbeatResp(r, m) ==
  LET r1 == SetProgress(r, m.from, HeartbeatProgress(r, m.from))
      r2 == IF r1.prs[m.from].Match < LastIndex(r.log)
            THEN SendAppend(r1, m.from) ELSE r1
      r3 == [r2 EXCEPT !.readOnly = RecvAck(@, m.ctx, m.from)]
      confirmed == {k \in DOMAIN r3.readOnly :
                      /\ r3.readOnly[k].ctx = m.ctx
                      /\ JointVoteResult(Voters, Outgoing,
                           r3.readOnly[k].acks, {}) = "VoteWon"}
  IN IF r.state # "Leader" THEN r
     ELSE IF m.ctx = NoCtx THEN r2
     ELSE IF confirmed = {} THEN r3
     ELSE AnswerReads(r3, CHOOSE k \in confirmed : TRUE)

-----------------------------------------------------------------------------
(* Leader: reports of the transport, transfers, proposals, ticks.          *)

StepSnapStatus(r, from, failed) ==
  LET pr == IF failed THEN [r.prs[from] EXCEPT !.PendingSnapshot = 0]
            ELSE r.prs[from]
  IN IF r.state = "Leader" /\ pr.State = "StateSnapshot"
     THEN SetProgress(r, from, [BecomeProbe(pr) EXCEPT !.ProbeSent = TRUE])
     ELSE r

StepUnreachable(r, from) ==
  IF r.state = "Leader" /\ r.prs[from].State = "StateReplicate"
  THEN SetProgress(r, from, BecomeProbe(r.prs[from]))
  ELSE r

\* Mutant: the transferee is told to campaign whatever it matches.
TransferLeaderAtOnce(r, to) ==
  IF to \in Learners \/ to = r.leadTransferee THEN r
  ELSE IF to = r.id THEN [r EXCEPT !.leadTransferee = None]
  ELSE Send([r EXCEPT !.elapsed = FALSE, !.leadTransferee = to],
            Msg("MsgTimeoutNow", to))

TransferLeader(r, to) ==
  IF to \in Learners \/ to = r.leadTransferee THEN r
  ELSE IF to = r.id THEN [r EXCEPT !.leadTransferee = None]
  ELSE LET r1 == [r EXCEPT !.elapsed = FALSE, !.leadTransferee = to]
       IN IF r1.prs[to].Match = LastIndex(r1.log)
          THEN Send(r1, Msg("MsgTimeoutNow", to))
          ELSE SendAppend(r1, to)

\* A follower forwards the message of term "term" to its leader.  send
\* replaces the From that named the transferee, and refuses a message that
\* already carries a term.
StepTransferLeader(r, to, term) ==
  IF r.state = "Leader" THEN TransferLeader(r, to)
  ELSE IF r.state # "Follower" \/ r.lead = None THEN r
  ELSE IF term # 0 THEN Panic(r, "sendTerm")
  ELSE Send(r, Msg("MsgTransferLeader", r.lead))

\* A proposal of one entry: appended, forwarded or dropped.
StepProp(r, data) ==
  IF r.state = "Leader" /\ r.leadTransferee = None
  THEN BcastAppend(AppendEntry(r, data))
  ELSE IF r.state = "Follower" /\ r.lead # None
  THEN Send(r, [Msg("MsgProp", r.lead) EXCEPT
                  !.ents = <<[term |-> 0, data |-> data]>>])
  ELSE r

\* MsgCheckQuorum: a leader that did not hear from a quorum steps down.
StepCheckQuorum(r) ==
  LET self == [r EXCEPT !.prs[r.id].RecentActive = TRUE]
  IN IF ~QuorumActive(self) THEN BecomeFollower(self, self.Term, None)
     ELSE [self EXCEPT !.prs = [s \in Server |->
             [self.prs[s] EXCEPT !.RecentActive = (s = r.id)]]]

\* tickHeartbeat at the end of an election timeout and between two of them.
TickElectionTimeout(r) ==
  LET r1 == IF CheckQuorum THEN StepCheckQuorum(r) ELSE r
  IN [r1 EXCEPT !.leadTransferee = None]

TickBeat(r) == BcastHeartbeat(r, LastPendingCtx(r.readOnly))
=============================================================================
