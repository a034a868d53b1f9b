------------------------ MODULE EtcdServerProperties ------------------------
(***************************************************************************)
(* What a member that applies the committed entries and serves reads must  *)
(* keep.                                                                   *)
(***************************************************************************)
EXTENDS EtcdServer

\* The leases and keys in memory are those of the backend.
LessorIsDB == lessor = Recovered(db)
\* When the member has applied again what it ever applied, its keys, revision and
\* leases are those the entries make, each applied once, whatever was committed
\* when it crashed (etcdserver/server.go:2187-2230, lease/lessor.go:310-348).
AppliesOnce ==
  ~executing.on /\ installing.step = "none" /\ ~down /\ appliedIndex >= furthest =>
    /\ [rev |-> db.rev, kv |-> db.kv, leases |-> db.leases] = OutcomeOf(appliedIndex)
    /\ LessorIsDB

\* "the invariant snapshot.Metadata.Index < db.consistentIndex" (etcdserver/backend.go:98):
\* a member whose snapshot is newer than its backend has the database file of
\* that snapshot, and can start (etcdserver/backend.go:95-112).
Startable == ~down /\ (snapshot <= disk.index \/ snapshot \in received)

\* A linearizable read sees all that was committed when it was asked
\* (etcdserver/v3_server.go:655-755).
ReadsAreLinearizable == \A r \in Readers : reader[r].step = "served" => reader[r].seen >= reader[r].need

\* Every read is served or fails (etcdserver/v3_server.go:757-785).
ReadsReturn == \A r \in Readers : []<>(reader[r].step \in {"idle", "served", "failed"})
=============================================================================
