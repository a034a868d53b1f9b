---------------------- MODULE WatchableStoreProperties ----------------------
(***************************************************************************)
(* What a watch promises (Documentation/learning/api.md:353-354).          *)
(***************************************************************************)
EXTENDS WatchableStore

InChannel(x) == FlattenSeq([i \in DOMAIN ch[x] |-> ch[x][i].revs])
\* The events of a watcher that it has, that wait in its channel, and that wait
\* for room in it.
Pending(x) == IF w[x].state \in {"victim", "moving", "blocked"} THEN w[x].batch.revs ELSE <<>>
Delivered(x) == received[x] \o InChannel(x) \o Pending(x)
\* The last revision a watcher has passed.
Passed(x) ==
  IF w[x].state = "synced" THEN CurrentRev
  ELSE IF w[x].batch.moreRev # 0 THEN w[x].batch.moreRev - 1 ELSE w[x].minRev - 1
Due(x, upTo) == {r \in w[x].startRev..upTo : log[r].key \in Watched[x]}
Active(x) == w[x].state \notin {"none", "cancelled", "compacted"}
Upto(x) == IF Passed(x) < CurrentRev THEN Passed(x) ELSE CurrentRev

\* No event is dropped: a watcher has every event of its keys from its first
\* revision to the one it has passed, unless a compaction reached it
\* (mvcc/watchable_store.go:270-420).
Reliable ==
  \A x \in Watchers : Active(x) /\ x \notin lagged =>
    Due(x, Upto(x)) \subseteq ToSet(Delivered(x))

\* Events are ordered by revision, none is repeated and none is before the first
\* revision asked for, unless the store was
\* restored below the watcher (mvcc/watcher_group.go:88-92).
Ordered ==
  ~restored =>
    \A x \in Watchers :
      /\ \A r \in ToSet(Delivered(x)) : r >= w[x].startRev
      /\ \A i \in 1..Len(Delivered(x)) - 1 : Delivered(x)[i] < Delivered(x)[i + 1]

\* A progress notification of revision r is sent after every event up to r
\* (mvcc/watchable_store.go:503-514).
ProgressIsHonest ==
  \A x \in Watchers : x \notin lagged /\ Active(x) =>
    \A i \in DOMAIN ch[x] : ch[x][i].type = "progress" =>
      Due(x, ch[x][i].revision) \subseteq
        ToSet(received[x]) \cup ToSet(FlattenSeq([j \in 1..i |-> ch[x][j].revs]))

\* chooseAll does not meet a watcher ahead of the store (mvcc/watcher_group.go:240-244).
NoWatchPanic == ~panicked

\* Again and again, clients that read have every event of their watchers, or have
\* learnt that they cannot (mvcc/watchable_store.go:213-262).
CatchesUp ==
  []<>(\A x \in Watchers : Active(x) /\ x \notin lagged =>
         Due(x, CurrentRev) \subseteq ToSet(received[x]))

-----------------------------------------------------------------------------
(* What the documentation says without exceptions                          *)

\* "if the watch receives events a and c, it is guaranteed to receive b"
\* (Documentation/learning/api.md:354)
AlwaysReliable ==
  \A x \in Watchers : \A a, c \in ToSet(Delivered(x)) :
    {b \in a..c : log[b].key \in Watched[x]} \subseteq ToSet(Delivered(x))
\* "an event will never appear on a watch if it precedes an event in time that has
\* already been posted" (Documentation/learning/api.md:353)
AlwaysOrdered ==
  \A x \in Watchers : \A i \in 1..Len(received[x]) - 1 : received[x][i] < received[x][i + 1]
=============================================================================
