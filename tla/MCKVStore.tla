----------------------------- MODULE MCKVStore -----------------------------
(***************************************************************************)
(* Instances of the mvcc store.  A start is a backend and the bounds of    *)
(* what may happen to it.                                                  *)
(***************************************************************************)
EXTENDS KVStoreProperties

CONSTANTS Crashes, Behind

Value(k, created, ver) == [key |-> k, tomb |-> FALSE, created |-> created, ver |-> ver]
Tomb(k) == [key |-> k, tomb |-> TRUE, created |-> 0, ver |-> 0]

\* Key 1 was created twice; key 2 was overwritten, then deleted.
Written == (<<2, 0>> :> Value(1, 2, 1)) @@ (<<2, 1>> :> Value(2, 2, 1))
        @@ (<<3, 0>> :> Tomb(1)) @@ (<<3, 1>> :> Value(2, 2, 2))
        @@ (<<4, 0>> :> Value(1, 4, 1)) @@ (<<4, 1>> :> Tomb(2))

Bounds(crashes, behind, maxRev) ==
  [crashes |-> crashes, behind |-> behind, maxRev |-> maxRev]

StartInit ==
  \/ Start(<<>>) /\ budget = Bounds(Crashes, Behind, MaxRev - 2)
  \/ Start(Written) /\ budget = Bounds(Crashes, Behind, MaxRev)
MCSpec == StartInit /\ [][Next]_vars /\ Fairness
SafeSpec == StartInit /\ [][Next]_vars
=============================================================================
