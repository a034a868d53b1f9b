------------------------- MODULE KVStoreProperties -------------------------
(***************************************************************************)
(* The properties of the mvcc store, and the promise it implements.        *)
(***************************************************************************)
EXTENDS KVStore

CONSTANTS MaxRev,    \* the last revision of any start
          Watched    \* the compaction that liveness is checked of

\* What a range at revision rev finds of key k in the bucket b, a set of one
\* version or none; a revision pair the bucket lacks is fatal to the server.
Shown(got, b) ==
  IF got.mod \notin DOMAIN b THEN [fatal |-> got.mod]
  ELSE [mod |-> got.mod, created |-> b[got.mod].created, ver |-> b[got.mod].ver]
Found(k, rev, b) == {Shown(got, b) : got \in Get(index[k], rev)}
Readable(c, r) == {n \in 1..r : n >= c}

\* The store is a multi-version map (mvcc/kvstore_txn.go, rangeKeys): a revision
\* that can be read shows the same keys however far compaction, a write
\* transaction, a commit or a restore has come, and no compacted one comes back.
MV == INSTANCE MultiVersion WITH
        rev <- currentRev,
        compacted <- compactRev,
        snapshot <- [r \in Readable(compactRev, currentRev) |->
                      [k \in Keys |-> Found(k, r, bucket)]]
MultiVersionSpec == MV!Spec

\* A read transaction finds every revision the index leads it to in the view it
\* took when it began (mvcc/kvstore_txn.go:133-168), although compaction changes
\* the index under it; and what it finds is what the store itself has there.
ReadIsSnapshot ==
  read.open =>
    \A k \in Keys : \A r \in Readable(compactRev, read.rev) :
      /\ \A got \in Get(index[k], r) : got.mod \in DOMAIN read.view
      /\ Found(k, r, read.view) = Found(k, r, bucket)

\* A write transaction reads its own writes, and of every other key what the last
\* transaction left (mvcc/kvstore_txn.go:95-101).
WriterReadsItsWrites ==
  txn.open =>
    \A k \in Keys :
      LET own == {r \in DOMAIN txn.writes : txn.writes[r].key = k}
          got == Get(index[k], ReadRev)
      IN IF own = {} THEN got = Get(index[k], currentRev)
         ELSE \A r \in own : {v.mod : v \in got} = IF txn.writes[r].tomb THEN {}
                                                ELSE {r}

\* The revisions of b that a compaction at c leaves.
NewestAt(b, c) ==
  {r \in DOMAIN b :
     /\ r[1] <= c /\ ~b[r].tomb
     /\ \A q \in DOMAIN b : b[q].key = b[r].key /\ q[1] <= c => ~GreaterThan(q, r)}
Needed(b, c) == NewestAt(b, c) \cup {r \in DOMAIN b : r[1] > c}

\* Compaction is exact at its boundary (mvcc/key_index.go:234-305): when no
\* compaction is left the bucket has nothing that no reader can reach, and the
\* index of a key leads to what the bucket has of it.
CompactionIsExact ==
  jobs = <<>> /\ ~txn.open =>
    /\ DOMAIN bucket = Needed(bucket, compactRev)
    /\ \A k \in Keys :
         UNION {{g.revs[i] : i \in DOMAIN g.revs} :
                  g \in {index[k].gens[j] : j \in DOMAIN index[k].gens}}
           = {r \in DOMAIN bucket : bucket[r].key = k}

\* HashByRev (mvcc/kvstore.go:202-250) at the current revision: the revisions it
\* hashes of the bucket b.
Hashed(b) ==
  LET keep == UNION {IF index[k] = NewKeyIndex THEN {}
                     ELSE Available(index[k], currentRev) : k \in Keys}
  IN {r \in DOMAIN b :
        r[1] <= currentRev /\ (r[1] <= compactRev /\ keep # {} => r \in keep)}
\* Members of one revision and one compacted revision have one hash: it skips
\* what a compaction has yet to delete (mvcc/kvstore.go:233-234).
HashSkipsCompacted ==
  ~txn.open => Hashed(bucket) = Hashed(Without(DOMAIN bucket \ Needed(bucket, compactRev)))

\* A compaction that was recorded ends, through writes, crashes and restarts
\* (mvcc/kvstore.go:461-475): its garbage does not stay in the bucket.
CompactionFinishes == compactRev >= Watched ~> meta.finished >= Watched

\* The current revision is never behind a compacted one (mvcc/kvstore.go:427-429).
RevisionNotBehindCompaction == meta.scheduled <= currentRev
=============================================================================
