-------------------------- MODULE MCWatchableStore --------------------------
(***************************************************************************)
(* Instances of the watchable store: one watcher of one key and one of     *)
(* all, with a compaction, or a snapshot, or a cancellation and a progress *)
(* request.                                                                *)
(***************************************************************************)
EXTENDS WatchableStoreProperties

MCWatched == [x \in Watchers |-> IF x = 1 THEN {1} ELSE Keys]
Bounds(delete, compact, restore, cancel, progress) ==
  [delete |-> delete, compact |-> compact, restore |-> restore, cancel |-> cancel,
   progress |-> progress]
Scenarios == {Bounds(1, 1, 0, 0, 0), Bounds(0, 0, 1, 0, 0), Bounds(0, 0, 0, 1, 1)}

MCInit == Init /\ budget \in Scenarios
MCSpec == MCInit /\ [][Next]_vars /\ Fairness
\* After a snapshot.
MCRestored == Init /\ budget = Bounds(0, 0, 1, 0, 0) /\ [][Next]_vars
\* After a compaction.
MCCompacted == Init /\ budget = Bounds(1, 1, 0, 0, 0) /\ [][Next]_vars
=============================================================================
