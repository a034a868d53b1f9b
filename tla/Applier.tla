------------------------------ MODULE Applier -------------------------------
(***************************************************************************)
(* One member applies the committed entries (etcdserver/server.go) to its  *)
(* keys and leases (lease/lessor.go), which the backend commits in         *)
(* batches, writes snapshots, installs those of its leader, crashes and    *)
(* starts again.  The log is what the cluster has committed.               *)
(***************************************************************************)
EXTENDS Integers, FiniteSets, SequencesExt

CONSTANTS Keys, LeaseIDs,
          MaxIndex   \* bound: the entries

VARIABLES
  log,          \* the committed entries
  appliedIndex, \* etcdProgress.appliedi
  consistIndex, \* consistentIndex, in memory
  executing,    \* whether an entry is applied, and with effect on the backend
  db,           \* the backend with its open batch
  lessor,       \* the leases and the keys attached to them, in memory
  disk,         \* the committed backend
  snapshot,     \* the index of the newest snapshot in the write-ahead log
  saving,       \* the snapshots a goroutine has yet to save
  received,     \* the snapshots of the leader whose database file is kept
  installing,   \* the snapshot of the leader being installed, and its step
  down,         \* whether the server refused to start
  furthest,     \* history: the last entry the member ever applied
  allowed       \* bounds: the entries clients propose, how many, and the crashes and
                \* snapshots left
memory == <<appliedIndex, consistIndex, executing, db, lessor, saving, installing>>
stable == <<disk, snapshot, received>>
applier == <<log, memory, stable, down, furthest, allowed>>

NoLease == 0
Absent == [exists |-> FALSE, lease |-> NoLease]
Empty == [rev |-> 1, kv |-> [k \in Keys |-> Absent], leases |-> {}]
Put(k, l) == [op |-> "put", key |-> k, lease |-> l]
Delete(k) == [op |-> "delete", key |-> k, lease |-> NoLease]
Grant(l) == [op |-> "grant", key |-> 0, lease |-> l]
Revoke(l) == [op |-> "revoke", key |-> 0, lease |-> l]
Noop == [op |-> "noop", key |-> 0, lease |-> NoLease]
AttachedKeys(kv, l) == {k \in Keys : kv[k].exists /\ kv[k].lease = l}
Deleted(kv, ks) == [k \in Keys |-> IF k \in ks THEN Absent ELSE kv[k]]

-----------------------------------------------------------------------------
(* The lessor in memory                                                    *)

\* initAndRecover, then store.restore attaches the keys to the leases it finds.
Recovered(d) == [leases |-> d.leases,
                 items |-> [l \in LeaseIDs |-> IF l \in d.leases THEN AttachedKeys(d.kv, l) ELSE {}]]
DetachAll(items, ks) == [l \in LeaseIDs |-> items[l] \ ks]
\* storeTxnWrite.put: the key leaves its old lease and joins the new one.
Attached(items, k, l) ==
  [m \in LeaseIDs |-> IF m = l THEN items[m] \cup {k} ELSE items[m] \ {k}]

-----------------------------------------------------------------------------
(* applierV3backend                                                        *)

\* A transaction that changes keys has a revision, and saves the consistent index.
SaveIndex(d) == [d EXCEPT !.index = consistIndex]
Changed(kv) == [SaveIndex(db) EXCEPT !.rev = @ + 1, !.kv = kv]
Same == [db |-> db, lessor |-> lessor]

ApplyPut(e) ==
  IF e.lease # NoLease /\ e.lease \notin lessor.leases THEN Same
  ELSE [db |-> Changed([db.kv EXCEPT ![e.key] = [exists |-> TRUE, lease |-> e.lease]]),
        lessor |-> [lessor EXCEPT !.items = Attached(@, e.key, e.lease)]]
ApplyDelete(e) ==
  IF ~db.kv[e.key].exists THEN Same
  ELSE [db |-> Changed(Deleted(db.kv, {e.key})),
        lessor |-> [lessor EXCEPT !.items = DetachAll(@, {e.key})]]
\* The lease is put into the open batch, without the index.
LeaseGrant(e) ==
  IF e.lease \in lessor.leases THEN Same
  ELSE [db |-> [db EXCEPT !.leases = @ \cup {e.lease}],
        lessor |-> [lessor EXCEPT !.leases = @ \cup {e.lease}]]
\* lessor.Revoke: its keys and the lease in one transaction.
LeaseRevoke(e) ==
  LET ks == lessor.items[e.lease]
      left == IF ks = {} THEN db ELSE Changed(Deleted(db.kv, ks))
  IN IF e.lease \notin lessor.leases THEN Same
     ELSE [db |-> [left EXCEPT !.leases = @ \ {e.lease}],
           lessor |-> [leases |-> lessor.leases \ {e.lease}, items |-> DetachAll(lessor.items, ks)]]
Apply(e) ==
  CASE e.op = "put" -> ApplyPut(e)
    [] e.op = "delete" -> ApplyDelete(e)
    [] e.op = "grant" -> LeaseGrant(e)
    [] e.op = "revoke" -> LeaseRevoke(e)
    [] OTHER -> Same

-----------------------------------------------------------------------------
(* EtcdServer                                                              *)

Idle == ~executing.on /\ installing.step # "opened" /\ ~down
\* What comes after a snapshot in the log waits for it.
Handed(i) == i <= Len(log) /\ (installing.step # "none" => i < installing.index)
\* The cluster commits an entry.
Propose(e) ==
  /\ Len(log) < allowed.length /\ ~down
  /\ log' = Append(log, e)
  /\ UNCHANGED <<memory, stable, down, furthest, allowed>>

\* Mutant: an entry is applied again.
BeginAgain ==
  /\ Idle /\ Handed(appliedIndex + 1)
  /\ executing' = [on |-> TRUE, shouldApplyV3 |-> TRUE]
  /\ consistIndex' = IF appliedIndex + 1 > consistIndex THEN appliedIndex + 1 ELSE consistIndex
  /\ furthest' = IF appliedIndex + 1 > furthest THEN appliedIndex + 1 ELSE furthest
  /\ UNCHANGED <<log, appliedIndex, db, lessor, saving, installing, stable, down, allowed>>
\* applyEntryNormal sets the index before it executes,
Begin ==
  LET i == appliedIndex + 1
  IN /\ Idle /\ Handed(i)
     /\ executing' = [on |-> TRUE, shouldApplyV3 |-> i > consistIndex]
     /\ consistIndex' = IF i > consistIndex THEN i ELSE consistIndex
     /\ furthest' = IF i > furthest THEN i ELSE furthest
     /\ UNCHANGED <<log, appliedIndex, db, lessor, saving, installing, stable, down, allowed>>
\* and leaves entries alone that the backend has.
Execute ==
  LET after == IF executing.shouldApplyV3 THEN Apply(log[appliedIndex + 1]) ELSE Same
  IN /\ executing.on
     /\ executing' = [on |-> FALSE, shouldApplyV3 |-> FALSE]
     /\ db' = after.db /\ lessor' = after.lessor
     /\ appliedIndex' = appliedIndex + 1
     /\ UNCHANGED <<log, consistIndex, saving, installing, stable, down, furthest, allowed>>

\* The backend commits its batch, by time or size.  The old backend, whose file was
\* replaced, commits in vain.
Commit ==
  /\ ~down /\ installing.step # "opened" /\ disk # db
  /\ disk' = db
  /\ UNCHANGED <<log, memory, snapshot, received, down, furthest, allowed>>

\* Mutant: the snapshot is made without a commit.
TriggerSnapshotOnly ==
  /\ Idle /\ allowed.snapshots > 0 /\ appliedIndex # snapshot /\ appliedIndex \notin saving
  /\ saving' = saving \cup {appliedIndex}
  /\ allowed' = [allowed EXCEPT !.snapshots = @ - 1]
  /\ UNCHANGED <<log, appliedIndex, consistIndex, executing, db, lessor, installing, stable, down, furthest>>
\* snapshot: KV().Commit() saves the index; a goroutine writes the snapshot,
TriggerSnapshot ==
  /\ Idle /\ allowed.snapshots > 0 /\ appliedIndex # snapshot /\ appliedIndex \notin saving
  /\ db' = SaveIndex(db) /\ disk' = SaveIndex(db)
  /\ saving' = saving \cup {appliedIndex}
  /\ allowed' = [allowed EXCEPT !.snapshots = @ - 1]
  /\ UNCHANGED <<log, appliedIndex, consistIndex, executing, lessor, installing, snapshot,
                 received, down, furthest>>
\* unless raft has a newer one.
SaveSnap(i) ==
  /\ i \in saving /\ ~down
  /\ saving' = saving \ {i}
  /\ snapshot' = IF i > snapshot THEN i ELSE snapshot
  /\ UNCHANGED <<log, appliedIndex, consistIndex, executing, db, lessor, installing, disk,
                 received, down, furthest, allowed>>

-----------------------------------------------------------------------------
(* A snapshot of the leader                                                *)

\* What the entries up to i make of the store (the leader has applied them).
Outcome(st, e) ==
  CASE e.op = "put" ->
         IF e.lease # NoLease /\ e.lease \notin st.leases THEN st
         ELSE [st EXCEPT !.rev = @ + 1, !.kv[e.key] = [exists |-> TRUE, lease |-> e.lease]]
    [] e.op = "delete" ->
         IF st.kv[e.key].exists
         THEN [st EXCEPT !.rev = @ + 1, !.kv[e.key] = Absent] ELSE st
    [] e.op = "grant" -> [st EXCEPT !.leases = @ \cup {e.lease}]
    [] e.op = "revoke" ->
         LET ks == AttachedKeys(st.kv, e.lease)
         IN IF e.lease \notin st.leases THEN st
            ELSE [rev |-> IF ks = {} THEN st.rev ELSE st.rev + 1, kv |-> Deleted(st.kv, ks),
                  leases |-> st.leases \ {e.lease}]
    [] OTHER -> st
OutcomeOf(i) == FoldLeft(Outcome, Empty, SubSeq(log, 1, i))
SnapshotDB(i) ==
  LET st == OutcomeOf(i) IN [index |-> i, rev |-> st.rev, kv |-> st.kv, leases |-> st.leases]

\* snapshotHandler saves the database file, and raft takes the snapshot.  Entries
\* handed before may be yet to apply.
ReceiveSnapshot(i) ==
  /\ installing.step = "none" /\ ~down /\ allowed.installs > 0 /\ i \in (IF executing.on THEN appliedIndex + 2 ELSE appliedIndex + 1)..Len(log)
  /\ received' = received \cup {i}
  /\ installing' = [step |-> "accepted", index |-> i]
  /\ allowed' = [allowed EXCEPT !.installs = @ - 1]
  /\ UNCHANGED <<log, appliedIndex, consistIndex, executing, db, lessor, saving, disk,
                 snapshot, down, furthest>>
\* The raft loop saves the snapshot,
PersistSnapshot ==
  /\ installing.step = "accepted"
  /\ snapshot' = installing.index
  /\ installing' = [installing EXCEPT !.step = "persisted"]
  /\ UNCHANGED <<log, appliedIndex, consistIndex, executing, db, lessor, saving, disk,
                 received, down, furthest, allowed>>
\* applySnapshot renames the file to the backend's,
OpenSnapshotBackend ==
  /\ installing.step = "persisted" /\ ~executing.on
  /\ disk' = SnapshotDB(installing.index) /\ received' = received \ {installing.index}
  /\ installing' = [installing EXCEPT !.step = "opened"]
  /\ UNCHANGED <<log, appliedIndex, consistIndex, executing, db, lessor, saving, snapshot,
                 down, furthest, allowed>>
\* and recovers the leases, then the keys.
ApplySnapshot ==
  /\ installing.step = "opened"
  /\ db' = disk /\ lessor' = Recovered(disk) /\ consistIndex' = disk.index
  /\ appliedIndex' = installing.index
  /\ furthest' = IF installing.index > furthest THEN installing.index ELSE furthest
  /\ installing' = [step |-> "none", index |-> 0]
  /\ UNCHANGED <<log, executing, saving, stable, down, allowed>>

-----------------------------------------------------------------------------
(* Crash and NewServer                                                     *)

\* recoverSnapshotBackend.
Boot == IF snapshot <= disk.index THEN disk ELSE SnapshotDB(snapshot)
Restart ==
  /\ allowed.crashes > 0 /\ ~down
  /\ allowed' = [allowed EXCEPT !.crashes = @ - 1]
  /\ executing' = [on |-> FALSE, shouldApplyV3 |-> FALSE]
  /\ installing' = [step |-> "none", index |-> 0] /\ saving' = {}
  /\ appliedIndex' = snapshot
  /\ db' = Boot /\ disk' = Boot /\ lessor' = Recovered(Boot) /\ consistIndex' = Boot.index
  /\ received' = IF snapshot <= disk.index THEN received ELSE received \ {snapshot}
  /\ down' = (snapshot > disk.index /\ snapshot \notin received)
  /\ UNCHANGED <<log, snapshot, furthest>>

-----------------------------------------------------------------------------
ApplierInit ==
  /\ log = <<>> /\ appliedIndex = 0 /\ consistIndex = 0
  /\ executing = [on |-> FALSE, shouldApplyV3 |-> FALSE]
  /\ db = SnapshotDB(0) /\ disk = SnapshotDB(0) /\ lessor = Recovered(db)
  /\ snapshot = 0 /\ saving = {} /\ received = {}
  /\ installing = [step |-> "none", index |-> 0] /\ down = FALSE /\ furthest = 0
Installing == PersistSnapshot \/ OpenSnapshotBackend \/ ApplySnapshot
=============================================================================
