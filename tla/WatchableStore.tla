--------------------------- MODULE WatchableStore ---------------------------
(***************************************************************************)
(* mvcc/watchable_store.go: watchers that have all events (synced), that   *)
(* have events to read from the backend (unsynced), or whose channel was   *)
(* full (victims).  A transaction changes one key.  Each watcher has a     *)
(* channel of its own, and its client reads the channel.                   *)
(*                                                                         *)
(* A step that holds the lock mu is one action; moveVictims, which sends   *)
(* without it, is three.                                                   *)
(***************************************************************************)
EXTENDS Integers, FiniteSets, SequencesExt

CONSTANTS Watchers, Keys,
          Watched,    \* the keys of each watcher
          ChanBufLen, WatchBatchMaxRevs,
          MaxRev,     \* bound: the revisions
          StartRevs   \* bound: where a watch may start

VARIABLES
  log,        \* log[r]: the key and type of the event of revision r
  compacted,  \* compactMainRev
  backend,    \* the revisions the backend still has
  w,          \* the watchers
  ch,         \* the responses in the channel of each watcher
  panicked,
  received,   \* history: the revisions of the events each client has received
  lagged,     \* history: the watchers a compaction has reached
  restored,   \* history: whether the store was restored
  budget      \* bounds: the deletions, compactions, snapshots, cancellations and
              \* progress requests left
store == <<log, compacted, backend>>
history == <<received, lagged, restored>>
vars == <<store, w, ch, panicked, history, budget>>

CurrentRev == Len(log)
Event(k, type) == [key |-> k, type |-> type]
Exists(k) == LET of == {r \in 1..CurrentRev : log[r].key = k}
             IN of # {} /\ log[Max(of)].type = "PUT"
NoBatch == [revs |-> <<>>, moreRev |-> 0]
Idle == [state |-> "none", startRev |-> 0, minRev |-> 0, restore |-> FALSE, batch |-> NoBatch]
In(state) == {x \in Watchers : w[x].state = state}
Full(x) == Len(ch[x]) = ChanBufLen
Events(revs) == [type |-> "events", revs |-> revs, revision |-> 0]
CompactedAt(r) == [type |-> "compacted", revs |-> <<>>, revision |-> r]
ProgressAt(r) == [type |-> "progress", revs |-> <<>>, revision |-> r]

-----------------------------------------------------------------------------
(* The store                                                               *)

\* End of a transaction: synced watchers are notified, or become victims, and the
\* revision becomes visible.
Notified(x, rev, k) ==
  IF ~(w[x].state = "synced" /\ k \in Watched[x] /\ rev >= w[x].minRev) THEN w[x]
  ELSE IF ~Full(x) THEN w[x]
  ELSE [w[x] EXCEPT !.state = "victim", !.minRev = rev + 1,
                    !.batch = [revs |-> <<rev>>, moreRev |-> 0]]
End(k, type) ==
  LET rev == CurrentRev + 1
      told == {x \in In("synced") : k \in Watched[x] /\ rev >= w[x].minRev /\ ~Full(x)}
  IN /\ rev <= MaxRev /\ (type = "DELETE" => Exists(k) /\ budget.delete > 0)
     /\ log' = Append(log, Event(k, type)) /\ backend' = backend \cup {rev}
     /\ w' = [x \in Watchers |-> Notified(x, rev, k)]
     /\ ch' = [x \in Watchers |-> IF x \in told THEN Append(ch[x], Events(<<rev>>)) ELSE ch[x]]
     /\ budget' = [budget EXCEPT !.delete = IF type = "DELETE" THEN @ - 1 ELSE @]
     /\ UNCHANGED <<compacted, panicked, history>>

\* store.Compact.  The revisions a reader cannot reach go later (module KVStore).
Compact(c) ==
  /\ budget.compact > 0 /\ c \in compacted + 1..CurrentRev
  /\ compacted' = c
  /\ lagged' = lagged \cup {x \in Watchers : /\ w[x].state \notin {"none", "synced"}
                                               /\ w[x].minRev <= c}
  /\ budget' = [budget EXCEPT !.compact = @ - 1]
  /\ UNCHANGED <<log, backend, w, ch, panicked, received, restored>>
Reachable(r) == \/ r > compacted
                \/ log[r].type = "PUT"
                   /\ \A s \in r + 1..compacted : log[s].key # log[r].key
Purge ==
  /\ backend' = {r \in backend : Reachable(r)} /\ backend' # backend
  /\ UNCHANGED <<log, compacted, w, ch, panicked, history, budget>>

\* Mutant: the watchers put back are not marked.
RestoreUnmarked(more) ==
  /\ budget.restore > 0 /\ CurrentRev + Len(more) <= MaxRev
  /\ log' = log \o more /\ backend' = backend \cup (CurrentRev + 1..CurrentRev + Len(more))
  /\ w' = [x \in Watchers |-> IF w[x].state # "synced" THEN w[x]
                              ELSE [w[x] EXCEPT !.state = "unsynced"]]
  /\ budget' = [budget EXCEPT !.restore = @ - 1]
  /\ restored' = TRUE
  /\ UNCHANGED <<compacted, ch, panicked, received, lagged>>
\* watchableStore.Restore from the snapshot of a member that has applied more.
Restore(more) ==
  /\ budget.restore > 0 /\ CurrentRev + Len(more) <= MaxRev
  /\ log' = log \o more /\ backend' = backend \cup (CurrentRev + 1..CurrentRev + Len(more))
  /\ w' = [x \in Watchers |-> IF w[x].state # "synced" THEN w[x]
                              ELSE [w[x] EXCEPT !.state = "unsynced", !.restore = TRUE]]
  /\ lagged' = lagged \cup {x \in In("synced") : w[x].minRev <= compacted}
  /\ budget' = [budget EXCEPT !.restore = @ - 1]
  /\ restored' = TRUE
  /\ UNCHANGED <<compacted, ch, panicked, received>>

-----------------------------------------------------------------------------
(* The streams                                                             *)

\* watchableStore.watch; startRev 0 is the next revision.
Watch(x, startRev) ==
  LET synced == startRev > CurrentRev \/ startRev = 0
      minRev == IF synced /\ startRev < CurrentRev + 1 THEN CurrentRev + 1 ELSE startRev
  IN /\ w[x].state = "none"
     /\ w' = [w EXCEPT ![x] = [Idle EXCEPT !.state = IF synced THEN "synced" ELSE "unsynced",
                                           !.startRev = minRev, !.minRev = minRev]]
     /\ lagged' = IF minRev <= compacted THEN lagged \cup {x} ELSE lagged
     /\ UNCHANGED <<store, ch, panicked, received, restored, budget>>

\* cancelWatcher waits for a victim that moveVictims has taken.
CancelWatcher(x) ==
  /\ budget.cancel > 0 /\ w[x].state \in {"synced", "unsynced", "victim"}
  /\ w' = [w EXCEPT ![x] = [Idle EXCEPT !.state = "cancelled"]]
  /\ budget' = [budget EXCEPT !.cancel = @ - 1]
  /\ UNCHANGED <<store, ch, panicked, history>>

\* Mutant: it is answered for every watcher.
ProgressAny(x) ==
  /\ budget.progress > 0 /\ w[x].state \in {"synced", "unsynced"} /\ ~Full(x)
  /\ ch' = [ch EXCEPT ![x] = Append(@, ProgressAt(CurrentRev))]
  /\ budget' = [budget EXCEPT !.progress = @ - 1]
  /\ UNCHANGED <<store, w, panicked, history>>
\* A progress request is answered for a synced watcher with room.
Progress(x) ==
  /\ budget.progress > 0 /\ w[x].state = "synced" /\ ~Full(x)
  /\ ch' = [ch EXCEPT ![x] = Append(@, ProgressAt(CurrentRev))]
  /\ budget' = [budget EXCEPT !.progress = @ - 1]
  /\ UNCHANGED <<store, w, panicked, history>>

\* The client takes a response.
Receive(x) ==
  /\ ch[x] # <<>>
  /\ ch' = [ch EXCEPT ![x] = Tail(@)]
  /\ received' = [received EXCEPT ![x] = @ \o Head(ch[x]).revs]
  /\ UNCHANGED <<store, w, panicked, lagged, restored, budget>>

-----------------------------------------------------------------------------
(* syncWatchers                                                            *)

\* The first revisions of a batch, and the revision it stops before.
Batch(revs) ==
  IF Len(revs) <= WatchBatchMaxRevs THEN [revs |-> revs, moreRev |-> 0]
  ELSE [revs |-> SubSeq(revs, 1, WatchBatchMaxRevs), moreRev |-> revs[WatchBatchMaxRevs + 1]]

\* chooseAll: a watcher behind the compaction is told so and dropped, when its
\* channel has room.
Behind(x) == w[x].minRev < compacted
Dropped == {x \in In("unsynced") : Behind(x) /\ ~Full(x)}
Ahead(x) == w[x].minRev > CurrentRev /\ ~w[x].restore
\* The first revision read is that of a watcher which is not behind.
FirstRead == LET revs == {w[x].minRev : x \in {y \in In("unsynced") : ~Behind(y)}}
             IN IF revs = {} THEN MaxRev + 1 ELSE Min(revs)
\* Mutant: every watcher gets what was read for the slowest.
FoundForAll(x) == SetToSortSeq({r \in backend : r >= FirstRead /\ log[r].key \in Watched[x]}, <)
\* newWatcherBatch: the events of a watcher among those read.
Found(x) == SetToSortSeq({r \in backend : /\ r >= FirstRead /\ r >= w[x].minRev
                                          /\ log[r].key \in Watched[x]}, <)

Synced(x) == [w[x] EXCEPT !.state = "synced", !.minRev = CurrentRev + 1, !.batch = NoBatch,
                          !.restore = IF w[x].minRev > CurrentRev THEN FALSE ELSE @]
SyncOne(x) ==
  LET b == Batch(Found(x))
      minRev == IF b.moreRev # 0 THEN b.moreRev ELSE CurrentRev + 1
  IN IF x \in Dropped THEN [w[x] EXCEPT !.state = "compacted"]
     ELSE IF b.revs = <<>> THEN Synced(x)
     ELSE IF Full(x) THEN [Synced(x) EXCEPT !.state = "victim", !.minRev = minRev, !.batch = b]
     ELSE IF b.moreRev # 0 THEN [Synced(x) EXCEPT !.state = "unsynced", !.minRev = minRev]
     ELSE Synced(x)
Answered(x) ==
  LET b == Batch(Found(x))
  IN IF x \in Dropped THEN Append(ch[x], CompactedAt(compacted))
     ELSE IF b.revs = <<>> \/ Full(x) THEN ch[x]
     ELSE Append(ch[x], Events(b.revs))
SyncWatchers ==
  LET U == In("unsynced")
  IN /\ U # {} /\ ~panicked
     /\ IF \E x \in U : Ahead(x)
        THEN panicked' = TRUE /\ UNCHANGED <<w, ch>>
        ELSE /\ w' = [x \in Watchers |-> IF x \in U THEN SyncOne(x) ELSE w[x]]
             /\ ch' = [x \in Watchers |-> IF x \in U THEN Answered(x) ELSE ch[x]]
             /\ UNCHANGED panicked
     /\ UNCHANGED <<store, history, budget>>

-----------------------------------------------------------------------------
(* moveVictims                                                             *)

\* It takes all victims,
TakeVictims ==
  /\ In("victim") # {} /\ In("moving") \cup In("sent") \cup In("blocked") = {}
  /\ w' = [x \in Watchers |-> IF w[x].state = "victim" THEN [w[x] EXCEPT !.state = "moving"]
                              ELSE w[x]]
  /\ UNCHANGED <<store, ch, panicked, history, budget>>
\* sends what each has pending,
SendVictim(x) ==
  /\ w[x].state = "moving"
  /\ w' = [w EXCEPT ![x].state = IF Full(x) THEN "blocked" ELSE "sent"]
  /\ ch' = IF Full(x) THEN ch ELSE [ch EXCEPT ![x] = Append(@, Events(w[x].batch.revs))]
  /\ UNCHANGED <<store, panicked, history, budget>>
\* Mutant: a victim that was sent its events has all of them.
ReturnedSynced(x) == [w[x] EXCEPT !.state = "synced", !.batch = NoBatch]
\* and puts them back,
Returned(x) ==
  LET minRev == IF w[x].batch.moreRev # 0 THEN w[x].batch.moreRev ELSE w[x].minRev
  IN [w[x] EXCEPT !.state = IF minRev <= CurrentRev THEN "unsynced" ELSE "synced",
                  !.minRev = minRev, !.batch = NoBatch]
\* Mutant: those it could not send are not victims again.
ReturnSent ==
  /\ In("moving") = {} /\ In("sent") # {}
  /\ w' = [x \in Watchers |-> IF w[x].state = "sent" THEN Returned(x) ELSE w[x]]
  /\ UNCHANGED <<store, ch, panicked, history, budget>>
\* those without room as victims.
ReturnVictims ==
  /\ In("moving") = {} /\ In("sent") \cup In("blocked") # {}
  /\ w' = [x \in Watchers |-> CASE w[x].state = "sent" -> Returned(x)
                                [] w[x].state = "blocked" -> [w[x] EXCEPT !.state = "victim"]
                                [] OTHER -> w[x]]
  /\ UNCHANGED <<store, ch, panicked, history, budget>>

-----------------------------------------------------------------------------
Init ==
  /\ log = <<>> /\ compacted = 0 /\ backend = {}
  /\ w = [x \in Watchers |-> Idle] /\ ch = [x \in Watchers |-> <<>>]
  /\ panicked = FALSE
  /\ received = [x \in Watchers |-> <<>>] /\ lagged = {} /\ restored = FALSE

Background ==
  \/ SyncWatchers \/ TakeVictims \/ ReturnVictims
  \/ \E x \in Watchers : SendVictim(x) \/ Receive(x)
Next ==
  \/ \E k \in Keys, type \in {"PUT", "DELETE"} : End(k, type)
  \/ \E c \in 1..MaxRev : Compact(c)
  \/ Purge
  \/ \E k \in Keys : Restore(<<Event(k, "PUT")>>)
  \/ \E x \in Watchers :
       \/ \E startRev \in StartRevs : Watch(x, startRev)
       \/ CancelWatcher(x) \/ Progress(x)
  \/ Background

\* The loops of the store run every 100 and 10 milliseconds, and the clients read.
Fairness ==
  /\ WF_vars(SyncWatchers) /\ WF_vars(TakeVictims) /\ WF_vars(ReturnVictims)
  /\ \A x \in Watchers : WF_vars(SendVictim(x)) /\ WF_vars(Receive(x))
=============================================================================
