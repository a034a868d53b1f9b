------------------------------ MODULE MCLessor ------------------------------
(***************************************************************************)
(* Two lessors, the first promoted, and a lease whose grant is committed.  *)
(***************************************************************************)
EXTENDS LessorProperties

Bounds(elections, renewals, restarts) ==
  [elections |-> elections, renewals |-> renewals, restarts |-> restarts]
Rest ==
  /\ le = [m \in Members |-> [NewLessor EXCEPT !.primary = m = 1]]
  /\ lead = [m \in Members |-> 1] /\ leader = 1
  /\ promoting = {} /\ expiredC = {} /\ renewal = Returned
  /\ log = <<Grant>> /\ applied = [m \in Members |-> 0] /\ proposals = {} /\ elected = 0
  /\ current = [promoted |-> TRUE, renewed |-> FALSE]
  /\ granted = Forever /\ promised = 0 /\ revived = FALSE
\* With the lessors' Checkpointer or without, a change of leader, a renewal and a
\* restart.
MCInit ==
  /\ Rest
  /\ \/ checkpointing = FALSE /\ budget \in {Bounds(1, 1, 0), Bounds(1, 0, 1)}
     \/ checkpointing = TRUE /\ budget \in {Bounds(1, 0, 0), Bounds(0, 1, 0)}
\* A renewal that clears what remained through the log.
MCCleared == Rest /\ checkpointing = TRUE /\ budget = Bounds(0, 1, 0) /\ [][Next]_vars
\* A promotion that races a demotion.
MCPromoted == Rest /\ checkpointing = FALSE /\ budget = Bounds(1, 0, 0) /\ [][Next]_vars
MCSpec == MCInit /\ [][Next]_vars /\ Fairness
=============================================================================
