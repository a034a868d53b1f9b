------------------------------ MODULE KVStore ------------------------------
(***************************************************************************)
(* mvcc: a store of revisions over a batched backend.  A write transaction *)
(* holds the lock of the batch from its begin to its end; its writes reach *)
(* the index of the keys at once and the readers only at its end.  A       *)
(* compaction is recorded, then runs in the background: first over the     *)
(* index, key by key, then over the bucket, batch by batch.  A crash keeps *)
(* what the backend has committed, and restore builds the index again.     *)
(***************************************************************************)
EXTENDS KeyIndex, SequencesExt

CONSTANTS Keys,        \* the keys, integers in their order
          BatchLimit   \* CompactionBatchLimit
ASSUME KVStoreAssumption == Keys \subseteq Int /\ BatchLimit \in Nat \ {0}

VARIABLES
  index,      \* kvindex: the key index of each key, NewKeyIndex when not in the tree
  bucket,     \* the key bucket, as the batch transaction sees it
  meta,       \* the meta bucket: scheduledCompactRev and finishedCompactRev
  disk,       \* what the backend has committed of both
  currentRev, compactRev,
  txn,        \* the write transaction
  jobs,       \* the compactions in the FIFO scheduler, the first one running
  job,        \* the progress of the running one
  read,       \* the read transaction
  budget      \* bounds: the crashes left, the last revision, and how far behind
              \* the current revision compactions stay
vars == <<index, bucket, meta, disk, currentRev, compactRev, txn, jobs, job,
          read, budget>>

Max2(a, b) == IF a > b THEN a ELSE b
NoVersion == [mod |-> NoRevision, created |-> 0, ver |-> 0]
NoTxn == [open |-> FALSE, writes |-> <<>>, keys |-> {}]
NoRead == [open |-> FALSE, rev |-> 0, view |-> <<>>]
NoJob == [running |-> FALSE, todo |-> {}, keep |-> {}, last |-> NoRevision]

-----------------------------------------------------------------------------
(* The start                                                               *)

Sorted(revs) ==
  [i \in 1..Cardinality(revs) |->
    CHOOSE r \in revs : Cardinality({q \in revs : GreaterThan(r, q)}) = i - 1]
\* One revision of a key, streamed from the bucket b into its index.
Restored(b, ki, rev) ==
  IF b[rev].tomb
  THEN IF ki = NewKeyIndex THEN ki ELSE Tombstone(ki, rev)
  ELSE IF ki = NewKeyIndex
       THEN RestoreIndex(<<b[rev].created, 0>>, rev, b[rev].ver)
       ELSE PutRevision(ki, rev)
RestoreIntoIndex(b) ==
  [k \in Keys |->
    FoldLeft(LAMBDA ki, rev : Restored(b, ki, rev), NewKeyIndex,
             Sorted({r \in DOMAIN b : b[r].key = k}))]

LastRev(b) == IF b = <<>> THEN 1 ELSE LastOf(Sorted(DOMAIN b))[1]

\* NewStore over a backend that no compaction has touched.
Start(b) ==
  /\ index = RestoreIntoIndex(b)
  /\ bucket = b
  /\ meta = [scheduled |-> 0, finished |-> -1]
  /\ disk = [bucket |-> b, meta |-> meta]
  /\ currentRev = LastRev(b)
  /\ compactRev = -1
  /\ txn = NoTxn /\ jobs = <<>> /\ job = NoJob /\ read = NoRead

-----------------------------------------------------------------------------
(* Transactions                                                            *)

BeginWrite ==
  /\ ~txn.open
  /\ currentRev < budget.maxRev
  /\ txn' = [NoTxn EXCEPT !.open = TRUE]
  /\ UNCHANGED <<index, bucket, meta, disk, currentRev, compactRev, jobs, job,
                 read, budget>>

\* beginRev is currentRev: nothing else moves it while the lock is held.
\* Mutant: every write of a transaction has the same revision.
NextRevisionMain == <<currentRev + 1, 0>>
NextRevision == <<currentRev + 1, Cardinality(txn.keys)>>
Write(k, kv) ==
  txn' = [txn EXCEPT !.writes = (NextRevision :> kv) @@ @, !.keys = @ \cup {k}]

\* A request touches a key once (etcdserver/api/v3rpc/key.go, checkTxnRequest).
Put(k) ==
  /\ txn.open /\ k \notin txn.keys
  /\ \E old \in Get(index[k], currentRev + 1) \cup {NoVersion} :
       /\ old = NoVersion <=> Get(index[k], currentRev + 1) = {}
       /\ Write(k, [key |-> k, tomb |-> FALSE, ver |-> old.ver + 1,
                    created |-> IF old = NoVersion THEN currentRev + 1
                                ELSE old.created])
  /\ index' = [index EXCEPT ![k] = PutRevision(@, NextRevision)]
  /\ UNCHANGED <<bucket, meta, disk, currentRev, compactRev, jobs, job, read,
                 budget>>

ReadRev == currentRev + (IF txn.keys = {} THEN 0 ELSE 1)
Delete(k) ==
  /\ txn.open /\ k \notin txn.keys
  /\ Get(index[k], ReadRev) # {}
  /\ Write(k, [key |-> k, tomb |-> TRUE, ver |-> 0, created |-> 0])
  /\ index' = [index EXCEPT ![k] = Tombstone(@, NextRevision)]
  /\ UNCHANGED <<bucket, meta, disk, currentRev, compactRev, jobs, job, read,
                 budget>>

EndWrite ==
  /\ txn.open
  /\ bucket' = txn.writes @@ bucket
  /\ currentRev' = ReadRev
  /\ txn' = NoTxn
  /\ UNCHANGED <<index, meta, disk, compactRev, jobs, job, read, budget>>

\* Mutant: the view is what the backend has committed, without its buffer.
OpenReadCommitted ==
  /\ ~read.open
  /\ read' = [open |-> TRUE, rev |-> currentRev, view |-> disk.bucket]
  /\ UNCHANGED <<index, bucket, meta, disk, currentRev, compactRev, txn, jobs,
                 job, budget>>
\* A concurrent read transaction copies the buffer of the backend.
OpenRead ==
  /\ ~read.open
  /\ read' = [open |-> TRUE, rev |-> currentRev, view |-> bucket]
  /\ UNCHANGED <<index, bucket, meta, disk, currentRev, compactRev, txn, jobs,
                 job, budget>>

CloseRead ==
  /\ read.open
  /\ read' = NoRead
  /\ UNCHANGED <<index, bucket, meta, disk, currentRev, compactRev, txn, jobs,
                 job, budget>>

-----------------------------------------------------------------------------
(* Compaction                                                              *)

\* s.mu excludes the transactions, and ForceCommit writes what they left.
Compact(c) ==
  /\ ~txn.open /\ ~read.open
  /\ compactRev < c /\ c + budget.behind <= currentRev
  /\ compactRev' = c
  /\ meta' = [meta EXCEPT !.scheduled = c]
  /\ disk' = [bucket |-> bucket, meta |-> meta']
  /\ jobs' = Append(jobs, c)
  /\ UNCHANGED <<index, bucket, currentRev, txn, job, read, budget>>

StartJob ==
  /\ jobs # <<>> /\ ~job.running
  /\ job' = [NoJob EXCEPT !.running = TRUE,
                          !.todo = {k \in Keys : index[k] # NewKeyIndex}]
  /\ UNCHANGED <<index, bucket, meta, disk, currentRev, compactRev, txn, jobs,
                 read, budget>>

Purged(ki) == IF IsEmptyIndex(ki) THEN NewKeyIndex ELSE ki

\* treeIndex.Compact, one key in the order of the tree; the lock of the index
\* is released between keys.
CompactKey ==
  /\ job.running /\ job.todo # {}
  /\ LET k == CHOOSE k \in job.todo : \A j \in job.todo : k <= j
     IN /\ index' = [index EXCEPT ![k] = Purged(CompactIndex(@, Head(jobs)))]
        /\ job' = [job EXCEPT !.todo = @ \ {k},
                              !.keep = @ \cup Available(index[k], Head(jobs))]
  /\ UNCHANGED <<bucket, meta, disk, currentRev, compactRev, txn, jobs, read,
                 budget>>

\* Mutant: the next batch begins at the next main revision.
BatchByMain ==
  LET left == {r \in DOMAIN bucket : r[1] > job.last[1] /\ r[1] <= Head(jobs)}
  IN {r \in left : Cardinality({q \in left : GreaterThan(r, q)}) < BatchLimit}
\* The next revisions of the bucket that the compaction looks at.
Batch ==
  LET left == {r \in DOMAIN bucket : GreaterThan(r, job.last) /\ r[1] <= Head(jobs)}
  IN {r \in left : Cardinality({q \in left : GreaterThan(r, q)}) < BatchLimit}
Without(revs) == [r \in DOMAIN bucket \ revs |-> bucket[r]]

\* A full batch is committed; the one that is not ends the compaction, and its
\* record is left to the next commit.
CompactBatch ==
  /\ job.running /\ job.todo = {} /\ ~txn.open
  /\ bucket' = Without(Batch \ job.keep)
  /\ IF Cardinality(Batch) < BatchLimit
     THEN /\ meta' = [meta EXCEPT !.finished = Head(jobs)]
          /\ jobs' = Tail(jobs)
          /\ job' = NoJob
          /\ UNCHANGED disk
     ELSE /\ job' = [job EXCEPT !.last =
                       CHOOSE r \in Batch : \A q \in Batch : ~GreaterThan(q, r)]
          /\ disk' = [bucket |-> bucket', meta |-> meta]
          /\ UNCHANGED <<meta, jobs>>
  /\ UNCHANGED <<index, currentRev, compactRev, txn, read, budget>>

-----------------------------------------------------------------------------
(* The backend, and restore                                                *)

\* The batch limit or the batch interval of the backend.
Commit ==
  /\ ~txn.open
  /\ disk # [bucket |-> bucket, meta |-> meta]
  /\ disk' = [bucket |-> bucket, meta |-> meta]
  /\ UNCHANGED <<index, bucket, meta, currentRev, compactRev, txn, jobs, job,
                 read, budget>>

\* Mutant: a compaction is not resumed.
ResumeNever(scheduled, finished, last) == scheduled = finished /\ scheduled <= last
\* A scheduled compaction is resumed, unless it is of a revision that the bucket
\* does not reach.
Resume(scheduled, finished, last) == scheduled \in 1..last /\ scheduled > finished

\* A crash and NewStore.
Crash ==
  LET finished == disk.meta.finished
      scheduled == disk.meta.scheduled
      resume == Resume(scheduled, finished, currentRev')
  IN /\ budget.crashes > 0
     /\ budget' = [budget EXCEPT !.crashes = @ - 1]
     /\ bucket' = disk.bucket
     /\ meta' = disk.meta
     /\ index' = RestoreIntoIndex(disk.bucket)
     /\ currentRev' = Max2(LastRev(disk.bucket), finished)
     /\ compactRev' = IF resume THEN scheduled ELSE finished
     /\ jobs' = IF resume THEN <<scheduled>> ELSE <<>>
     /\ txn' = NoTxn /\ job' = NoJob /\ read' = NoRead
     /\ UNCHANGED disk

-----------------------------------------------------------------------------
Background == StartJob \/ CompactKey \/ CompactBatch
Next ==
  \/ BeginWrite \/ EndWrite
  \/ \E k \in Keys : Put(k) \/ Delete(k)
  \/ OpenRead \/ CloseRead
  \/ \E c \in 1..currentRev : Compact(c)
  \/ Background
  \/ Commit
  \/ Crash

\* A handler ends its transaction; the scheduler runs its first job, which gets
\* the lock of the batch although write transactions take it again and again.
Fairness == WF_vars(EndWrite) /\ SF_vars(Background)
=============================================================================
