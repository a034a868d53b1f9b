---------------------------- MODULE MultiVersion ----------------------------
(***************************************************************************)
(* What package mvcc promises its readers: every revision from the         *)
(* compacted one up to the current one can be read, and what it shows      *)
(* never changes.  The state is a sequence of snapshots of the keys.       *)
(***************************************************************************)
EXTENDS Integers

CONSTANT Keys
VARIABLES rev, compacted, snapshot
vars == <<rev, compacted, snapshot>>

Readable(c, r) == {n \in 1..r : n >= c}
Keep(c, r) == [n \in Readable(c, r) |-> snapshot[n]]

\* A store that no compaction has touched, empty or not.
Init == /\ compacted = -1
        /\ DOMAIN snapshot = 1..rev
        /\ snapshot[1] = [k \in Keys |-> {}]

\* A key at one revision is a set of one version, or of none when it is absent.
\* The transaction of revision rev + 1 leaves the key, deletes it or writes it.
Changed(old, new) ==
  \A v \in new \ old :
    /\ v.mod[1] = rev + 1
    /\ old = {} => v.created = rev + 1 /\ v.ver = 1
    /\ \A u \in old : v.created = u.created /\ v.ver = u.ver + 1

\* A transaction adds one snapshot, that of the next revision.
Commit ==
  /\ rev' = rev + 1
  /\ UNCHANGED compacted
  /\ DOMAIN snapshot' = Readable(compacted, rev')
  /\ \A n \in DOMAIN snapshot : snapshot'[n] = snapshot[n]
  /\ \A k \in Keys : Changed(snapshot[rev][k], snapshot'[rev'][k])
  /\ snapshot'[rev'] # snapshot[rev]

\* A compaction removes the snapshots before its revision.
Compact ==
  /\ compacted' \in {c \in 1..rev : c > compacted}
  /\ UNCHANGED rev
  /\ snapshot' = Keep(compacted', rev)

\* A crash loses the transactions that were not committed to disk, never a
\* revision that compaction has reached.
Recover ==
  /\ rev' \in Readable(compacted, rev)
  /\ UNCHANGED compacted
  /\ snapshot' = Keep(compacted, rev')

Next == Commit \/ Compact \/ Recover
Spec == Init /\ [][Next]_vars
=============================================================================
