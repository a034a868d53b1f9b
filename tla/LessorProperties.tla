-------------------------- MODULE LessorProperties --------------------------
(***************************************************************************)
(* What the time a lease is given must keep.                               *)
(***************************************************************************)
EXTENDS Lessor

\* "Grant grants a lease that expires at least after TTL seconds"
\* (lease/lessor.go:90): no lessor reports it expired earlier, through changes
\* of leader, restarts and checkpoints of what remained.
GrantHolds == [][\A m \in Members : m \in expiredC' \ expiredC => granted = 0]_vars

\* Without checkpoints, a leader whose lessor has been promoted reports a lease
\* expired only when the TTL of the renewals answered before has passed, those
\* of the old leader included (lease/lessor.go:230-234, 442-455).
RenewalHolds ==
  [][(leader \in expiredC' \ expiredC) /\ current.promoted /\ ~checkpointing => promised <= 0]_vars

\* A lease that is not renewed any more is revoked everywhere, though proposals are
\* lost and leaders change (lease/lessor.go:612-728).
RevokedOnceExpired == <>[](\A m \in Members : ~le[m].exists)

\* Every renewal returns: one that waits for a revocation is told of it, or of the
\* loss of the lead (lease/lessor.go:385-400).
RenewReturns == []<>(renewal = Returned)

\* "If the given lease does not exist or has expired, an error will be returned"
\* (lease/lessor.go:365-366): Renew answers no TTL of a revoked lease.
RenewedExists == ~revived

\* A member that has learnt of another leader has a primary lessor no more
\* (etcdserver/server.go:968-972).
DemotedIsNotPrimary == \A m \in Members : le[m].primary => lead[m] = m
=============================================================================
