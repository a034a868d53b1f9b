-------------------------------- MODULE Raft --------------------------------
(***************************************************************************)
(* A cluster of etcd members: the raft state machine of each (RaftStep),   *)
(* the loop that takes its Ready, saves it, sends its messages and advances *)
(* it (raft/node.go, etcdserver/raft.go), its WAL, and a network that       *)
(* loses, duplicates and reorders messages.                                *)
(*                                                                         *)
(* A message, once sent, stays in net: to deliver it again is a duplicate, *)
(* never to deliver it a loss.  Only a forwarded proposal is consumed.     *)
(***************************************************************************)
EXTENDS RaftStep

\* Bound: how often each event happens.  Every campaign but the one a transfer
\* asks for starts with a "timeout", so the terms are bounded too.
CONSTANTS
  Budget,
  Impatient,    \* bound: the members whose election timer may fire
  Prompt        \* bound: when TRUE, a member's Ready is taken and saved after
                \* every step, before anything else happens

Event == {"timeout", "expire", "crash", "prop", "transfer", "compact", "unreachable",
          "snapstatus", "beat", "checkquorum"}

ASSUME BudgetAssumption == Budget \in [Event -> Nat]
ASSUME BoundAssumption == Impatient \subseteq Server /\ Prompt \in BOOLEAN

VARIABLES
  node,         \* the in-memory raft state of every member
  disk,         \* what every member's WAL and snapshot directory hold
  rd,           \* the Ready a leader sent the messages of and is still saving
  net,          \* every message sent
  budget,       \* what is left of Budget
  handed,       \* history: the entries handed to some state machine, by index
  readFloor,    \* history: how many were handed when each read was asked for
  asked         \* history: the members a leadership transfer was asked to

history == <<handed, readFloor, asked>>
vars == <<node, disk, rd, net, budget, handed, readFloor, asked>>

NotAsked == -1

NoReady == [Term |-> 0, Vote |-> None, Commit |-> 0, log |-> EmptyLog,
            pending |-> FALSE]

\* The entries after the snapshot: what a restart reads back.
Durable(log) == IF log.offset < log.snap.index
                THEN Compacted(log, log.snap.index) ELSE log

\* The HardState and log of r, as its Ready asks to save them.
Image(r) == [Term |-> r.Term, Vote |-> r.Vote, Commit |-> r.committed,
             log |-> Durable(r.log), pending |-> TRUE]

\* Mutant: a restart forgets the vote.
NewRaftForgets(i, term, vote, commit, log) ==
  [id |-> i, Term |-> term, Vote |-> None, state |-> "Follower",
   lead |-> None, log |-> log, committed |-> commit,
   applied |-> log.snap.index, granted |-> {}, rejected |-> {},
   prs |-> NoProgress, leadTransferee |-> None, elapsed |-> FALSE,
   readOnly |-> <<>>, readStates |-> {}, msgs |-> {}, panic |-> "none"]

\* newRaft on what the storage recovered; a commit index out of the range of
\* the log stops the member (loadState).
NewRaft(i, term, vote, commit, log) ==
  [id |-> i, Term |-> term, Vote |-> vote, state |-> "Follower",
   lead |-> None, log |-> log, committed |-> commit,
   applied |-> log.snap.index, granted |-> {}, rejected |-> {},
   prs |-> NoProgress, leadTransferee |-> None, elapsed |-> FALSE,
   readOnly |-> <<>>, readStates |-> {}, msgs |-> {},
   panic |-> IF commit \in log.snap.index..LastIndex(log) THEN "none"
             ELSE "loadState"]

\* older holds the commit indexes saved since the last fsync: a power failure
\* may bring one of them back.
EmptyDisk == [Term |-> 0, Vote |-> None, Commit |-> 0, older |-> {},
              log |-> EmptyLog]

Init ==
  /\ node = [i \in Server |-> NewRaft(i, 0, None, 0, EmptyLog)]
  /\ disk = [i \in Server |-> EmptyDisk]
  /\ rd = [i \in Server |-> NoReady]
  /\ net = {}
  /\ budget = Budget
  /\ handed = <<>>
  /\ readFloor = [c \in ReadCtx |-> NotAsked]
  /\ asked = {}

Spend(event) == /\ budget[event] > 0
                /\ budget' = [budget EXCEPT ![event] = @ - 1]
Running(i) == node[i].panic = "none"

\* WAL.Save of an image over disk d.  A save of nothing but a commit index is
\* not synced (MustSync).
Saved(d, img) ==
  LET mustSync == \/ img.Term # d.Term \/ img.Vote # d.Vote
                  \/ img.log # d.log
  IN [Term |-> img.Term, Vote |-> img.Vote, Commit |-> img.Commit,
      log |-> img.log,
      older |-> IF mustSync THEN {} ELSE (d.older \cup {d.Commit}) \ {img.Commit}]

Unsaved(i) ==
  \/ node[i].Term # disk[i].Term \/ node[i].Vote # disk[i].Vote
  \/ node[i].committed # disk[i].Commit \/ Durable(node[i].log) # disk[i].log
HasReady(i) == \/ node[i].msgs # {} \/ node[i].readStates # {}
               \/ node[i].applied < node[i].committed \/ Unsaved(i)

\* The members that may take a step other than those of their Ready loop: with
\* Prompt, none while some member has a Ready to take or to save.
Turn ==
  IF \A i \in Server : Running(i) => ~Prompt \/ ~(rd[i].pending \/ HasReady(i))
  THEN Server ELSE {}

\* The member takes the state r.  A message of its outbox that is in net
\* already can be delivered again as it is: sending it again adds nothing.
Becomes(i, r) == node' = [node EXCEPT ![i] = [r EXCEPT !.msgs = @ \ net]]

-----------------------------------------------------------------------------
(* Local steps of a member.                                                *)

\* tickElection fires.  A tick of a member that cannot be elected does nothing.
Timeout(i) ==
  /\ Running(i) /\ node[i].state # "Leader" /\ Promotable(node[i])
  /\ i \in Impatient /\ Spend("timeout")
  /\ Becomes(i, StepHup([node[i] EXCEPT !.elapsed = FALSE]))
  /\ UNCHANGED <<disk, rd, net, history>>

\* electionElapsed reaches electionTimeout, before the randomized timeout
\* fires: only the leader lease of vote requests looks at it.
ExpireLease(i) ==
  /\ Running(i) /\ node[i].state # "Leader" /\ node[i].lead # None
  /\ CheckQuorum /\ ~node[i].elapsed /\ Spend("expire")
  /\ Becomes(i, [node[i] EXCEPT !.elapsed = TRUE])
  /\ UNCHANGED <<disk, rd, net, history>>

ElectionTick(i) ==
  /\ Running(i) /\ node[i].state = "Leader" /\ Spend("checkquorum")
  /\ Becomes(i, TickElectionTimeout(node[i]))
  /\ UNCHANGED <<disk, rd, net, history>>

HeartbeatTick(i) ==
  /\ Running(i) /\ node[i].state = "Leader" /\ Spend("beat")
  /\ Becomes(i, TickBeat(node[i]))
  /\ UNCHANGED <<disk, rd, net, history>>

Propose(i, v) ==
  /\ Running(i) /\ Spend("prop")
  /\ Becomes(i, StepProp(node[i], v))
  /\ node' # node
  /\ UNCHANGED <<disk, rd, net, history>>

\* A read is asked for once, under an id of its own (idutil.Generator).
ReadIndex(i, c) ==
  /\ Running(i) /\ readFloor[c] = NotAsked
  /\ Becomes(i, StepReadIndex(node[i], c, None))
  /\ node' # node
  /\ readFloor' = [readFloor EXCEPT ![c] = Len(handed)]
  /\ UNCHANGED <<disk, rd, net, budget, handed, asked>>

AskTransfer(i, to) ==
  /\ Running(i) /\ Spend("transfer")
  /\ Becomes(i, StepTransferLeader(node[i], to, 0))
  /\ node' # node
  /\ asked' = asked \cup {to}
  /\ UNCHANGED <<disk, rd, net, handed, readFloor>>

ReportUnreachable(i, peer) ==
  /\ Running(i) /\ peer # i /\ Spend("unreachable")
  /\ Becomes(i, StepUnreachable(node[i], peer))
  /\ node' # node
  /\ UNCHANGED <<disk, rd, net, history>>

ReportSnapshot(i, peer, failed) ==
  /\ Running(i) /\ peer # i /\ Spend("snapstatus")
  /\ Becomes(i, StepSnapStatus(node[i], peer, failed))
  /\ node' # node
  /\ UNCHANGED <<disk, rd, net, history>>

-----------------------------------------------------------------------------
(* Messages.                                                               *)

\* The messages of some types that may reach the member.
MailTo(i, types) == {m \in net : m.to = i /\ m.type \in types}

\* Step of a message of the member's term, or of a higher one it adopts: r is
\* what the step function of the role makes of the member.  A message that
\* changes nothing is left out: it is a stutter.
Deliver(i, m, r) ==
  /\ Running(i) /\ ~IsStale(node[i], m) /\ ~InLease(node[i], m)
  /\ Becomes(i, r)
  /\ node' # node
  /\ UNCHANGED <<disk, rd, budget, history>>

RejectStale(i, m) ==
  /\ Running(i) /\ IsStale(node[i], m)
  /\ Becomes(i, StepStale(node[i], m))
  /\ node' # node
  /\ UNCHANGED <<disk, rd, net, budget, history>>

HandleVote(i, m) ==
  Deliver(i, m, StepVote(AtTerm(node[i], m), m)) /\ UNCHANGED net
HandleVoteResp(i, m) ==
  Deliver(i, m, StepVoteResp(AtTerm(node[i], m), m)) /\ UNCHANGED net
HandleApp(i, m) ==
  Deliver(i, m, StepApp(AtTerm(node[i], m), m)) /\ UNCHANGED net
HandleAppResp(i, m) ==
  Deliver(i, m, StepAppResp(AtTerm(node[i], m), m)) /\ UNCHANGED net
HandleHeartbeat(i, m) ==
  Deliver(i, m, StepHeartbeat(AtTerm(node[i], m), m)) /\ UNCHANGED net
HandleHeartbeatResp(i, m) ==
  Deliver(i, m, StepHeartbeatResp(AtTerm(node[i], m), m)) /\ UNCHANGED net
HandleSnap(i, m) ==
  Deliver(i, m, StepSnap(AtTerm(node[i], m), m)) /\ UNCHANGED net
HandleTimeoutNow(i, m) ==
  Deliver(i, m, StepTimeoutNow(AtTerm(node[i], m), m)) /\ UNCHANGED net
HandleTransferLeader(i, m) ==
  Deliver(i, m, StepTransferLeader(AtTerm(node[i], m), m.from, m.term)) /\ UNCHANGED net
HandleReadIndex(i, m) ==
  Deliver(i, m, StepReadIndex(AtTerm(node[i], m), m.ctx, m.from)) /\ UNCHANGED net
HandleReadIndexResp(i, m) ==
  Deliver(i, m, StepReadIndexResp(AtTerm(node[i], m), m)) /\ UNCHANGED net
HandleProp(i, m) ==
  /\ Deliver(i, m, StepProp(AtTerm(node[i], m), m.ents[1].data))
  /\ net' = net \ {m}
-----------------------------------------------------------------------------
(* The Ready loop, the storage, crashes.                                   *)

\* The committed entries of a Ready go to the state machine before anything
\* is saved.
HandOver(r) ==
  handed' = IF r.committed <= Len(handed) THEN handed
            ELSE handed \o SubSeq(r.log.ents, Len(handed) + 1 - r.log.offset,
                                  r.committed - r.log.offset)

\* The messages of a Ready as they are sent: raft's snapshot only names the
\* peer, the one sent is of the state machine, at an index n it has applied.
Outgoings(r, n) ==
  {IF m.type = "MsgSnap"
   THEN [m EXCEPT !.index = n, !.logTerm = LogTerm(r.log, n)] ELSE m : m \in r.msgs}
SendReady(r) == \E n \in r.log.snap.index..r.committed :
                  net' = net \cup Outgoings(r, n)

\* Mutant: a leader takes the next Ready while it still saves the last one.
ReadyLeaderEager(i) ==
  /\ Running(i) /\ node[i].state = "Leader" /\ HasReady(i)
  /\ SendReady(node[i])
  /\ rd' = [rd EXCEPT ![i] = Image(node[i])]
  /\ Becomes(i, [node[i] EXCEPT !.msgs = {}, !.readStates = {}])
  /\ HandOver(node[i])
  /\ UNCHANGED <<disk, budget, readFloor, asked>>

\* A leader sends the messages of a Ready first and saves it meanwhile: it
\* takes no other Ready before it has saved this one.
ReadyLeader(i) ==
  /\ Running(i) /\ node[i].state = "Leader" /\ ~rd[i].pending /\ HasReady(i)
  /\ SendReady(node[i])
  /\ rd' = IF Unsaved(i) \/ node[i].applied < node[i].committed
           THEN [rd EXCEPT ![i] = Image(node[i])] ELSE rd
  /\ Becomes(i, [node[i] EXCEPT !.msgs = {}, !.readStates = {}])
  /\ HandOver(node[i])
  /\ UNCHANGED <<disk, budget, readFloor, asked>>

Save(i) ==
  /\ Running(i) /\ rd[i].pending
  /\ disk' = [disk EXCEPT ![i] = Saved(disk[i], rd[i])]
  /\ rd' = [rd EXCEPT ![i] = NoReady]
  /\ Becomes(i, [node[i] EXCEPT !.applied = Maximum(@, rd[i].Commit)])
  /\ UNCHANGED <<net, budget, history>>

\* Every other member saves first and then sends, so that nothing of the
\* Ready is seen before all of it is saved.
ReadyFollower(i) ==
  /\ Running(i) /\ node[i].state # "Leader" /\ ~rd[i].pending /\ HasReady(i)
  /\ SendReady(node[i])
  /\ disk' = [disk EXCEPT ![i] = Saved(disk[i], Image(node[i]))]
  /\ Becomes(i, [node[i] EXCEPT !.msgs = {}, !.readStates = {},
                                !.applied = node[i].committed])
  /\ HandOver(node[i])
  /\ UNCHANGED <<rd, budget, readFloor, asked>>

\* Mutant: saving the snapshot does not sync what the WAL wrote before it.
CompactUnsynced(i, s, c) ==
  /\ Running(i) /\ ~rd[i].pending /\ Spend("compact")
  /\ s \in node[i].log.snap.index + 1 .. node[i].applied
  /\ c \in node[i].log.offset .. s
  /\ LET snap == [index |-> s, term |-> LogTerm(node[i].log, s)]
     IN /\ Becomes(i, [node[i] EXCEPT !.log =
                         Compacted([node[i].log EXCEPT !.snap = snap], c)])
        /\ disk' = [disk EXCEPT ![i].log =
                      Durable([disk[i].log EXCEPT !.snap = snap])]
  /\ UNCHANGED <<rd, net, history>>

\* EtcdServer.snapshot: a snapshot of the applied state at s, on disk before
\* the log in memory is compacted up to c.
Compact(i, s, c) ==
  /\ Running(i) /\ ~rd[i].pending /\ Spend("compact")
  /\ s \in node[i].log.snap.index + 1 .. node[i].applied
  /\ c \in node[i].log.offset .. s
  /\ LET snap == [index |-> s, term |-> LogTerm(node[i].log, s)]
     IN /\ Becomes(i, [node[i] EXCEPT !.log =
                         Compacted([node[i].log EXCEPT !.snap = snap], c)])
        /\ disk' = [disk EXCEPT ![i].older = {}, ![i].log =
                      Durable([disk[i].log EXCEPT !.snap = snap])]
  /\ UNCHANGED <<rd, net, history>>

\* The Ready a crash may interrupt the saving of.
Saving(i) == IF rd[i].pending THEN rd[i]
             ELSE IF node[i].state = "Leader" THEN disk[i]
             ELSE Image(node[i])

\* WAL.Save writes the entries before the HardState: a crash in between
\* leaves some of the new entries with the old HardState.
Recoverable(i) ==
  LET old == disk[i].log
      new == Saving(i).log
      changed == {k \in DOMAIN new.ents :
                    k > Len(old.ents) \/ new.ents[k] # old.ents[k]}
      written == {k \in DOMAIN new.ents : \E j \in changed : j <= k}
  IN {old} \cup IF new.snap # old.snap THEN {}
               ELSE {[old EXCEPT !.ents = SubSeq(new.ents, 1, k)] : k \in written}

\* Its committed entries may have been handed over before the crash.
Restart(i) ==
  /\ Spend("crash")
  /\ \/ Running(i) /\ ~rd[i].pending /\ HandOver(node[i])
     \/ UNCHANGED handed
  /\ \E log \in Recoverable(i), c \in {disk[i].Commit} \cup disk[i].older :
       /\ Becomes(i, NewRaft(i, disk[i].Term, disk[i].Vote, c, log))
       /\ disk' = [disk EXCEPT ![i].log = log, ![i].Commit = c,
                               ![i].older = {}]
  /\ rd' = [rd EXCEPT ![i] = NoReady]
  /\ UNCHANGED <<net, readFloor, asked>>

-----------------------------------------------------------------------------
LocalStep ==
  \/ \E i \in Turn : Timeout(i)
  \/ \E i \in Turn : ExpireLease(i)
  \/ \E i \in Turn : ElectionTick(i)
  \/ \E i \in Turn : HeartbeatTick(i)
  \/ \E i \in Turn, v \in Value : Propose(i, v)
  \/ \E i \in Turn, c \in ReadCtx : ReadIndex(i, c)
  \/ \E i \in Turn, to \in Server : AskTransfer(i, to)
  \/ \E i \in Turn, peer \in Server : ReportUnreachable(i, peer)
  \/ \E i \in Turn, peer \in Server, failed \in BOOLEAN :
       ReportSnapshot(i, peer, failed)

MessageStep ==
  \/ \E i \in Turn : \E m \in MailTo(i, MessageType) : RejectStale(i, m)
  \/ \E i \in Turn : \E m \in MailTo(i, {"MsgVote", "MsgPreVote"}) : HandleVote(i, m)
  \/ \E i \in Turn : \E m \in MailTo(i, {"MsgVoteResp", "MsgPreVoteResp"}) :
       HandleVoteResp(i, m)
  \/ \E i \in Turn : \E m \in MailTo(i, {"MsgApp"}) : HandleApp(i, m)
  \/ \E i \in Turn : \E m \in MailTo(i, {"MsgAppResp"}) : HandleAppResp(i, m)
  \/ \E i \in Turn : \E m \in MailTo(i, {"MsgHeartbeat"}) : HandleHeartbeat(i, m)
  \/ \E i \in Turn : \E m \in MailTo(i, {"MsgHeartbeatResp"}) :
       HandleHeartbeatResp(i, m)
  \/ \E i \in Turn : \E m \in MailTo(i, {"MsgSnap"}) : HandleSnap(i, m)
  \/ \E i \in Turn : \E m \in MailTo(i, {"MsgTimeoutNow"}) : HandleTimeoutNow(i, m)
  \/ \E i \in Turn : \E m \in MailTo(i, {"MsgTransferLeader"}) :
       HandleTransferLeader(i, m)
  \/ \E i \in Turn : \E m \in MailTo(i, {"MsgReadIndex"}) : HandleReadIndex(i, m)
  \/ \E i \in Turn : \E m \in MailTo(i, {"MsgReadIndexResp"}) :
       HandleReadIndexResp(i, m)
  \/ \E i \in Turn : \E m \in MailTo(i, {"MsgProp"}) : HandleProp(i, m)

StorageStep ==
  \/ \E i \in Turn : Restart(i)
  \/ \E i \in Turn : \E s \in 1..node[i].applied, c \in 0..node[i].applied :
       Compact(i, s, c)

ReadyStep == \E i \in Server : ReadyLeader(i) \/ ReadyFollower(i) \/ Save(i)

Next == ReadyStep \/ LocalStep \/ MessageStep \/ StorageStep

Spec == Init /\ [][Next]_vars
=============================================================================
