----------------------------- MODULE EtcdServer -----------------------------
(***************************************************************************)
(* The member of module Applier serves linearizable reads                  *)
(* (etcdserver/v3_server.go).  Readers of one round share a notifier; one  *)
(* loop asks raft for the read index of a round and waits until the member *)
(* has applied it.  That the leader confirms an index no older than the    *)
(* question is module Raft's.                                              *)
(***************************************************************************)
EXTENDS Applier

CONSTANT Readers

VARIABLES
  reader,     \* linearizableReadNotify of each reader
  notifier,   \* the number of readNotifier
  outcome,    \* what each notifier was notified of
  readwaitc,  \* whether the loop is signalled
  loop,       \* linearizableReadLoop: its step, its notifier, the index it waits for
  asked,      \* the questions raft has not answered
  readStates, \* the answers raftNode has yet to put into readStateC
  readStateC  \* the channel
reads == <<reader, notifier, outcome, readwaitc, loop, asked, readStates, readStateC>>
vars == <<applier, reads>>

Nothing == [id |-> 0, index |-> 0]
Rounds == 1..Cardinality(Readers) + 1
AtStart == [step |-> "idle", nc |-> 0, need |-> 0, seen |-> 0]
Waiting == [step |-> "wait", nr |-> 0, index |-> 0]

-----------------------------------------------------------------------------
(* linearizableReadNotify                                                  *)

\* A reader takes the notifier of the next round,
TakeNotifier(r) ==
  /\ reader[r].step = "idle" /\ ~down
  /\ reader' = [reader EXCEPT ![r] = [step |-> "taken", nc |-> notifier, need |-> Len(log), seen |-> 0]]
  /\ UNCHANGED <<applier, notifier, outcome, readwaitc, loop, asked, readStates, readStateC>>
\* signals the loop,
Signal(r) ==
  /\ reader[r].step = "taken"
  /\ reader' = [reader EXCEPT ![r].step = "waiting"] /\ readwaitc' = TRUE
  /\ UNCHANGED <<applier, notifier, outcome, loop, asked, readStates, readStateC>>
\* and reads what the member has applied, or fails.
Return(r) ==
  /\ reader[r].step = "waiting" /\ outcome[reader[r].nc] # "none"
  /\ reader' = [reader EXCEPT ![r].step = outcome[reader[r].nc], ![r].seen = appliedIndex]
  /\ UNCHANGED <<applier, notifier, outcome, readwaitc, loop, asked, readStates, readStateC>>

-----------------------------------------------------------------------------
(* linearizableReadLoop                                                    *)

Wake ==
  /\ loop.step = "wait" /\ readwaitc
  /\ readwaitc' = FALSE /\ loop' = [loop EXCEPT !.step = "swap"]
  /\ UNCHANGED <<applier, reader, notifier, outcome, asked, readStates, readStateC>>
SwapNotifier ==
  /\ loop.step = "swap"
  /\ loop' = [loop EXCEPT !.step = "ask", !.nr = notifier] /\ notifier' = notifier + 1
  /\ UNCHANGED <<applier, reader, outcome, readwaitc, asked, readStates, readStateC>>
\* The question has a number of its own, here that of the notifier.
ReadIndex ==
  /\ loop.step = "ask"
  /\ asked' = asked \cup {loop.nr} /\ loop' = [loop EXCEPT !.step = "answer"]
  /\ UNCHANGED <<applier, reader, notifier, outcome, readwaitc, readStates, readStateC>>
\* Mutant: any answer is taken for that of this round.
TakeAnyReadState ==
  /\ loop.step = "answer" /\ readStateC # Nothing
  /\ readStateC' = Nothing
  /\ loop' = [loop EXCEPT !.step = "apply", !.index = readStateC.index]
  /\ UNCHANGED <<applier, reader, notifier, outcome, readwaitc, asked, readStates>>
\* The answers of rounds that timed out are ignored.
TakeReadState ==
  /\ loop.step = "answer" /\ readStateC # Nothing
  /\ readStateC' = Nothing
  /\ loop' = IF readStateC.id # loop.nr THEN loop
             ELSE [loop EXCEPT !.step = "apply", !.index = readStateC.index]
  /\ UNCHANGED <<applier, reader, notifier, outcome, readwaitc, asked, readStates>>
Notify(result) ==
  /\ outcome' = [outcome EXCEPT ![loop.nr] = result] /\ loop' = Waiting
  /\ UNCHANGED <<applier, reader, notifier, readwaitc, asked, readStates, readStateC>>
\* Mutant: nobody is told.
TimeOutSilently ==
  /\ loop.step \in {"ask", "answer"} /\ loop' = Waiting
  /\ UNCHANGED <<applier, reader, notifier, outcome, readwaitc, asked, readStates, readStateC>>
\* The question fails, the answer does not come in time, or the leader changes.
TimeOut == loop.step \in {"ask", "answer"} /\ Notify("failed")
\* The member has applied what the answer says.
Applied == loop.step = "apply" /\ appliedIndex >= loop.index /\ Notify("served")

-----------------------------------------------------------------------------
(* raft                                                                    *)

\* The leader confirms what is committed.
Confirm(id) ==
  /\ id \in asked
  /\ asked' = asked \ {id} /\ readStates' = readStates \cup {[id |-> id, index |-> Len(log)]}
  /\ UNCHANGED <<applier, reader, notifier, outcome, readwaitc, loop, readStateC>>
\* raftNode puts the answer into the channel, or gives up when it stays full.
SendReadState(a) ==
  /\ a \in readStates
  /\ readStates' = readStates \ {a}
  /\ readStateC' = IF readStateC = Nothing THEN a ELSE readStateC
  /\ UNCHANGED <<applier, reader, notifier, outcome, readwaitc, loop, asked>>

-----------------------------------------------------------------------------
ReadInit ==
  /\ reader = [r \in Readers |-> AtStart] /\ notifier = 1
  /\ outcome = [n \in Rounds |-> "none"] /\ readwaitc = FALSE /\ loop = Waiting
  /\ asked = {} /\ readStates = {} /\ readStateC = Nothing
\* The readers of a member that restarts fail.
Crash ==
  /\ Restart
  /\ reader' = [r \in Readers |-> IF reader[r].step \in {"taken", "waiting"}
                                  THEN [reader[r] EXCEPT !.step = "failed"] ELSE reader[r]]
  /\ readwaitc' = FALSE /\ loop' = Waiting
  /\ asked' = {} /\ readStates' = {} /\ readStateC' = Nothing
  /\ UNCHANGED <<notifier, outcome>>

ApplierStep ==
  \/ \E e \in allowed.entries : Propose(e)
  \/ Begin \/ Execute \/ Commit \/ TriggerSnapshot \/ Installing
  \/ \E i \in 1..MaxIndex : SaveSnap(i) \/ ReceiveSnapshot(i)
LoopStep == Wake \/ SwapNotifier \/ ReadIndex \/ TakeReadState \/ TimeOut \/ Applied
ReadStep ==
  \/ \E r \in Readers : TakeNotifier(r) \/ Signal(r) \/ Return(r)
  \/ LoopStep
  \/ \E id \in Rounds : Confirm(id)
  \/ \E a \in readStates : SendReadState(a)
Next == (ApplierStep /\ UNCHANGED reads) \/ ReadStep \/ Crash

\* The loops run, entries are applied, and a round ends after ReqTimeout.
Fairness ==
  /\ WF_vars((Begin \/ Execute \/ Installing) /\ UNCHANGED reads)
  /\ WF_vars(LoopStep)
  /\ \A r \in Readers : WF_vars(Signal(r)) /\ WF_vars(Return(r))
=============================================================================
