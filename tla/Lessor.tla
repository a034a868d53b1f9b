------------------------------- MODULE Lessor -------------------------------
(***************************************************************************)
(* The lessors of the members (lease/lessor.go) keep the time of a lease:  *)
(* the one of the leader, the primary, expires, renews and checkpoints it; *)
(* grants, revocations and checkpoints come out of the log, which every    *)
(* member applies at its own pace (etcdserver/server.go).  Times are what  *)
(* is left of them.  What a grant and a revocation do to the backend and   *)
(* the keys is module Applier.                                             *)
(***************************************************************************)
EXTENDS Integers, FiniteSets, Sequences

CONSTANTS
  Members,
  TTL,             \* of the lease
  ElectionTimeout, \* what Promote extends leases by, and how long an old leader leads
  RetryInterval,   \* expiredLeaseRetryInterval
  Interval,        \* checkpointInterval
  MaxLog           \* bound: the entries some member has yet to apply

VARIABLES
  le,            \* each member's lessor and its lease
  lead,          \* the leader each member knows (EtcdServer.lead)
  promoting,     \* the members that found themselves leaders on an empty entry
  expiredC,      \* the members whose expiredC holds the lease
  renewal,       \* a call of Renew: its step and member
  leader,        \* the leader raft has elected
  log, applied,  \* the committed entries not applied by all, and how many each applied
  proposals,     \* what raft may yet commit
  checkpointing, \* whether the lessors have a Checkpointer
  elected,       \* history: what is left of the election timeout since the election
  current,       \* history: whether the leader has been promoted, and has renewed
  granted,       \* history: what is left of the TTL since the grant
  promised,      \* history: what is left of the TTL the last renewal answered
  revived,       \* history: whether a revoked lease was renewed
  budget         \* bounds: elections, renewals and restarts left
raft == <<leader, log, applied, proposals, elected>>
history == <<current, granted, promised, revived>>
vars == <<le, lead, promoting, expiredC, renewal, raft, checkpointing, history, budget>>

Forever == -1
NoItem == -1
NoLeader == 0
Returned == [step |-> "returned", at |-> NoLeader]
NewLessor == [primary |-> FALSE, exists |-> FALSE, remaining |-> 0, expiry |-> Forever,
              item |-> NoItem, checkpoints |-> {}, loop |-> "free"]

Grant == [op |-> "grant", ttl |-> TTL]
Revoke == [op |-> "revoke", ttl |-> 0]
Checkpoint(r) == [op |-> "checkpoint", ttl |-> r]
Empty(m) == [op |-> "empty", ttl |-> 0, by |-> m]

-----------------------------------------------------------------------------
(* The lease of a lessor                                                   *)

RemainingTTL(l) == IF l.remaining > 0 THEN l.remaining ELSE TTL
Expired(l) == l.expiry = 0
\* refresh, and the item in the queue of expiries.
Refreshed(l, extend) ==
  [l EXCEPT !.expiry = extend + RemainingTTL(l), !.item = extend + RemainingTTL(l)]
Scheduled(l) ==
  IF checkpointing /\ RemainingTTL(l) > Interval
  THEN [l EXCEPT !.checkpoints = @ \cup {Interval}] ELSE l
\* Grant: only the primary lets it expire.
Granted(l) ==
  LET new == [l EXCEPT !.exists = TRUE, !.remaining = 0, !.expiry = Forever]
  IN IF l.exists THEN l ELSE IF l.primary THEN Scheduled(Refreshed(new, 0)) ELSE new
Revoked(l) == [l EXCEPT !.exists = FALSE, !.remaining = 0, !.expiry = Forever]
\* Checkpoint: Promote will start from what remained.
Checkpointed(l, r) ==
  LET new == [l EXCEPT !.remaining = r]
  IN IF ~l.exists THEN l ELSE IF l.primary THEN Scheduled(new) ELSE new
\* Mutant: the lease is not extended.
PromotedBare(l) ==
  LET new == [l EXCEPT !.primary = TRUE] IN IF l.exists THEN Refreshed(new, 0) ELSE new
\* Promote, for fewer leases than leaseRevokeRate.
Promoted(l) ==
  LET new == [l EXCEPT !.primary = TRUE]
  IN IF l.exists THEN Refreshed(new, ElectionTimeout) ELSE new
Demoted(l) ==
  [l EXCEPT !.primary = FALSE, !.expiry = Forever, !.item = NoItem, !.checkpoints = {}]

-----------------------------------------------------------------------------
(* Leadership                                                              *)

\* raft elects a leader, whose term begins with an empty entry.
Elect(m) ==
  /\ leader = NoLeader \/ budget.elections > 0
  /\ Len(log) < MaxLog
  /\ leader' = m /\ log' = Append(log, Empty(m)) /\ elected' = ElectionTimeout
  /\ current' = [promoted |-> FALSE, renewed |-> FALSE]
  /\ budget' = [budget EXCEPT !.elections = IF @ > 0 THEN @ - 1 ELSE 0]
  /\ UNCHANGED <<le, lead, promoting, expiredC, renewal, applied, proposals, checkpointing,
                 granted, promised, revived>>
\* updateLead and updateLeadership; a renewal that waits for a revocation returns.
Learn(m) ==
  /\ lead[m] # leader
  /\ lead' = [lead EXCEPT ![m] = leader]
  /\ le' = IF leader = m THEN le ELSE [le EXCEPT ![m] = Demoted(@)]
  /\ renewal' = IF leader # m /\ renewal.at = m /\ renewal.step = "waiting" THEN Returned ELSE renewal
  /\ UNCHANGED <<promoting, expiredC, raft, checkpointing, history, budget>>

-----------------------------------------------------------------------------
(* applyEntryNormal                                                        *)

\* What some member has yet to apply is kept.
Advance(m) ==
  LET next == [applied EXCEPT ![m] = @ + 1]
      trim == \A n \in Members : next[n] > 0
  IN /\ applied' = IF trim THEN [n \in Members |-> next[n] - 1] ELSE next
     /\ log' = IF trim THEN Tail(log) ELSE log
     /\ UNCHANGED <<leader, proposals, elected>>
NextEntry(m, op) ==
  applied[m] < Len(log) /\ log[applied[m] + 1].op = op /\ m \notin promoting /\ Advance(m)

ApplyGrant(m) ==
  /\ NextEntry(m, "grant")
  /\ le' = [le EXCEPT ![m] = Granted(@)]
  /\ granted' = IF granted = Forever THEN TTL ELSE granted
  /\ UNCHANGED <<lead, promoting, expiredC, renewal, checkpointing, current, promised, revived, budget>>
\* Mutant: the renewal that waits is not told.
ApplyRevokeSilently(m) ==
  /\ NextEntry(m, "revoke")
  /\ le' = [le EXCEPT ![m] = Revoked(@)]
  /\ UNCHANGED <<lead, promoting, expiredC, renewal, checkpointing, history, budget>>
\* Revoke closes revokec.
ApplyRevoke(m) ==
  /\ NextEntry(m, "revoke")
  /\ le' = [le EXCEPT ![m] = Revoked(@)]
  /\ renewal' = IF renewal.at = m /\ renewal.step = "waiting" THEN Returned ELSE renewal
  /\ UNCHANGED <<lead, promoting, expiredC, checkpointing, history, budget>>
ApplyCheckpoint(m) ==
  /\ NextEntry(m, "checkpoint")
  /\ le' = [le EXCEPT ![m] = Checkpointed(@, log[applied[m] + 1].ttl)]
  /\ UNCHANGED <<lead, promoting, expiredC, renewal, checkpointing, history, budget>>
\* An empty entry of any leader: the member looks whether it is the leader.  It
\* has learnt so before it is handed its own (raftNode.start),
ApplyEmpty(m) ==
  /\ NextEntry(m, "empty")
  /\ log[applied[m] + 1].by = m /\ leader = m => lead[m] = m
  /\ promoting' = IF lead[m] = m THEN promoting \cup {m} ELSE promoting
  /\ UNCHANGED <<le, lead, expiredC, renewal, checkpointing, history, budget>>
\* and promotes its lessor.
Promote(m) ==
  /\ m \in promoting
  /\ promoting' = promoting \ {m} /\ le' = [le EXCEPT ![m] = Promoted(@)]
  /\ current' = [current EXCEPT !.promoted = @ \/ m = leader]
  /\ UNCHANGED <<lead, expiredC, renewal, raft, checkpointing, granted, promised, revived, budget>>

-----------------------------------------------------------------------------
(* runLoop                                                                 *)

\* Mutant: the lease is looked for a moment too early, and only in the queue.
FindExpiredEarly(m) ==
  /\ le[m].loop = "free" /\ le[m].primary /\ le[m].item \in {0, 1} /\ le[m].exists
  /\ le' = [le EXCEPT ![m].item = RetryInterval]
  /\ expiredC' = expiredC \cup {m}
  /\ UNCHANGED <<lead, promoting, renewal, raft, checkpointing, history, budget>>
\* Mutant: the lease leaves the queue once it is found.
FindExpiredOnce(m) ==
  /\ le[m].loop = "free" /\ le[m].primary /\ le[m].item = 0
  /\ le' = [le EXCEPT ![m].item = NoItem]
  /\ expiredC' = IF le[m].exists /\ Expired(le[m]) THEN expiredC \cup {m} ELSE expiredC
  /\ UNCHANGED <<lead, promoting, renewal, raft, checkpointing, history, budget>>
\* findExpiredLeases: a lease that was found is looked at again after a while.
FindExpired(m) ==
  /\ le[m].loop = "free" /\ le[m].primary /\ le[m].item = 0
  /\ le' = [le EXCEPT ![m].item = IF le[m].exists THEN RetryInterval ELSE NoItem]
  /\ expiredC' = IF le[m].exists /\ Expired(le[m]) THEN expiredC \cup {m} ELSE expiredC
  /\ UNCHANGED <<lead, promoting, renewal, raft, checkpointing, history, budget>>
\* EtcdServer.run asks raft to revoke what comes out of expiredC; a follower forwards.
ProposeRevoke(m) ==
  /\ m \in expiredC
  /\ expiredC' = expiredC \ {m} /\ proposals' = proposals \cup {Revoke}
  /\ UNCHANGED <<le, lead, promoting, renewal, leader, log, applied, elected, checkpointing,
                 history, budget>>
\* findDueScheduledCheckpoints; the loop waits for the outcome of what it proposes,
CheckpointDue(m) ==
  LET l == le[m]
      due == l.exists /\ l.expiry # 0 /\ l.expiry # Forever /\ l.expiry < TTL
  IN /\ l.loop = "free" /\ l.primary /\ 0 \in l.checkpoints
     /\ le' = [le EXCEPT ![m].checkpoints = @ \ {0}, ![m].loop = IF due THEN "proposed" ELSE @]
     /\ proposals' = IF due THEN proposals \cup {Checkpoint(l.expiry)} ELSE proposals
     /\ UNCHANGED <<lead, promoting, expiredC, renewal, leader, log, applied, elected,
                    checkpointing, history, budget>>
\* which is an error or not.
CheckpointEnds(m) ==
  /\ le[m].loop = "proposed" /\ le' = [le EXCEPT ![m].loop = "free"]
  /\ UNCHANGED <<lead, promoting, expiredC, renewal, raft, checkpointing, history, budget>>

-----------------------------------------------------------------------------
(* Renew                                                                   *)

\* An expired lease may be about to be revoked: the renewal waits.  A remaining TTL
\* is cleared through the log first.
BeginRenew(m) ==
  LET l == le[m]
      clear == checkpointing /\ l.remaining > 0 /\ ~Expired(l)
  IN /\ renewal = Returned /\ budget.renewals > 0 /\ l.primary /\ l.exists
     /\ renewal' = [at |-> m, step |-> IF Expired(l) THEN "waiting"
                                       ELSE IF clear THEN "clearing" ELSE "refreshing"]
     /\ proposals' = IF clear THEN proposals \cup {Checkpoint(0)} ELSE proposals
     /\ budget' = [budget EXCEPT !.renewals = @ - 1]
     /\ UNCHANGED <<le, lead, promoting, expiredC, leader, log, applied, elected, checkpointing, history>>
\* Whatever became of the proposal.
Cleared ==
  /\ renewal.step = "clearing" /\ renewal' = [renewal EXCEPT !.step = "refreshing"]
  /\ UNCHANGED <<le, lead, promoting, expiredC, raft, checkpointing, history, budget>>
\* The lease is refreshed, were it revoked by now, and the TTL answered.  What
\* an old leader answers after the new one did, or though it has learnt of the new
\* one (a Promote that raced a Demote), is left out of "promised".
Refresh ==
  LET m == renewal.at
      outdated == leader # m /\ (current.renewed \/ lead[m] # m)
  IN /\ renewal.step = "refreshing"
     /\ renewal' = Returned
     /\ le' = [le EXCEPT ![m] = Refreshed(@, 0)]
     /\ promised' = IF outdated THEN promised ELSE TTL
     /\ current' = [current EXCEPT !.renewed = @ \/ leader = m]
     /\ revived' = (revived \/ ~le[m].exists)
     /\ UNCHANGED <<lead, promoting, expiredC, raft, checkpointing, granted, budget>>

-----------------------------------------------------------------------------
(* raft, crashes and time                                                  *)

Commit(e) ==
  /\ e \in proposals /\ leader # NoLeader /\ Len(log) < MaxLog
  /\ proposals' = proposals \ {e} /\ log' = Append(log, e)
  /\ UNCHANGED <<le, lead, promoting, expiredC, renewal, leader, applied, elected, checkpointing,
                 history, budget>>
Lose(e) ==
  /\ e \in proposals /\ proposals' = proposals \ {e}
  /\ UNCHANGED <<le, lead, promoting, expiredC, renewal, leader, log, applied, elected,
                 checkpointing, history, budget>>
\* initAndRecover: the backend has the lease, without what remained of it.
Restart(m) ==
  /\ budget.restarts > 0 /\ budget' = [budget EXCEPT !.restarts = @ - 1]
  /\ le' = [le EXCEPT ![m] = [NewLessor EXCEPT !.exists = le[m].exists]]
  /\ lead' = [lead EXCEPT ![m] = NoLeader]
  /\ promoting' = promoting \ {m} /\ expiredC' = expiredC \ {m}
  /\ renewal' = IF renewal.at = m THEN Returned ELSE renewal
  /\ leader' = IF leader = m THEN NoLeader ELSE leader
  /\ UNCHANGED <<log, applied, proposals, elected, checkpointing, history>>
\* A leader is replaced an election timeout before it knows at most (isPrimary), and
\* steps that wait for nothing take less than a tick.
Less(t) == IF t > 0 THEN t - 1 ELSE t
Tick ==
  /\ elected = 0 => \A m \in Members : lead[m] = m => leader \in {m, NoLeader}
  /\ promoting = {} /\ renewal.step # "refreshing"
  /\ le' = [m \in Members |->
              [le[m] EXCEPT !.expiry = Less(@), !.item = Less(@),
                            !.checkpoints = {Less(t) : t \in @}]]
  /\ elected' = Less(elected) /\ granted' = Less(granted) /\ promised' = Less(promised)
  /\ UNCHANGED <<lead, promoting, expiredC, renewal, leader, log, applied, proposals,
                 checkpointing, current, revived, budget>>

-----------------------------------------------------------------------------
ApplyStep(m) == ApplyGrant(m) \/ ApplyRevoke(m) \/ ApplyCheckpoint(m) \/ ApplyEmpty(m)
LoopStep(m) == FindExpired(m) \/ CheckpointDue(m) \/ CheckpointEnds(m)
Next ==
  \/ \E m \in Members :
       Elect(m) \/ Learn(m) \/ ApplyStep(m) \/ Promote(m) \/ LoopStep(m)
       \/ ProposeRevoke(m) \/ BeginRenew(m) \/ Restart(m)
  \/ Cleared \/ Refresh \/ Tick
  \/ \E e \in proposals : Commit(e) \/ Lose(e)

\* Time passes, members run, raft elects leaders and does not lose every proposal.
Fairness ==
  /\ WF_vars(Tick) /\ WF_vars(Cleared) /\ WF_vars(Refresh)
  /\ WF_vars(leader = NoLeader /\ \E m \in Members : Elect(m))
  /\ \A m \in Members : /\ WF_vars(Learn(m)) /\ WF_vars(ApplyStep(m)) /\ WF_vars(Promote(m))
                        /\ WF_vars(LoopStep(m)) /\ WF_vars(ProposeRevoke(m))
  /\ SF_vars(Commit(Revoke))
=============================================================================
