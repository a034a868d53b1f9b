------------------------------ MODULE KeyIndex ------------------------------
(***************************************************************************)
(* mvcc/key_index.go: the revisions of one key, cut into generations by    *)
(* its tombstones.  A revision is <<main, sub>>; a key index is a record   *)
(* of its last revision and its generations, the last of which is empty    *)
(* after a tombstone.                                                      *)
(***************************************************************************)
EXTENDS Integers, Sequences, FiniteSets

GreaterThan(a, b) == a[1] > b[1] \/ (a[1] = b[1] /\ a[2] > b[2])

NoRevision == <<0, 0>>
EmptyGeneration == [ver |-> 0, created |-> NoRevision, revs |-> <<>>]
NewKeyIndex == [modified |-> NoRevision, gens |-> <<>>]

LastOf(s) == s[Len(s)]
IsEmptyIndex(ki) == Len(ki.gens) = 1 /\ ki.gens[1].revs = <<>>

\* How many revisions of s, in ascending order, are of main at or before atRev:
\* the index where generation.walk stops, or 0.
Walk(s, atRev) == Cardinality({i \in DOMAIN s : s[i][1] <= atRev})

PutRevision(ki, rev) ==
  LET gens == IF ki.gens = <<>> THEN <<EmptyGeneration>> ELSE ki.gens
      g == LastOf(gens)
  IN [modified |-> rev,
      gens |-> [gens EXCEPT ![Len(gens)] =
                 [ver |-> g.ver + 1,
                  created |-> IF g.revs = <<>> THEN rev ELSE g.created,
                  revs |-> Append(g.revs, rev)]]]

\* The error of a key that is deleted already leaves the index as it is.
Tombstone(ki, rev) ==
  IF LastOf(ki.gens).revs = <<>> THEN ki
  ELSE LET p == PutRevision(ki, rev)
       IN [p EXCEPT !.gens = Append(@, EmptyGeneration)]

RestoreIndex(created, modified, ver) ==
  [modified |-> modified,
   gens |-> <<[ver |-> ver, created |-> created, revs |-> <<modified>>]>>]

\* Generation c is the one rev belongs to: begun, and not ended by a tombstone.
FindGeneration(ki, c, rev) ==
  /\ ki.gens[c].revs # <<>>
  /\ ki.gens[c].revs[1][1] <= rev
  /\ c = Len(ki.gens) \/ LastOf(ki.gens[c].revs)[1] > rev

\* The version of the key at atRev: a set of one version, or of none.
VersionOf(g, n) ==
  [mod |-> g.revs[n], created |-> g.created[1], ver |-> g.ver - (Len(g.revs) - n)]
Get(ki, atRev) ==
  {VersionOf(ki.gens[c], Walk(ki.gens[c].revs, atRev)) :
     c \in {c \in DOMAIN ki.gens : FindGeneration(ki, c, atRev)}}

\* Where a compaction at atRev cuts: a generation, and a revision in it or 0.
CompactGeneration(ki, atRev) ==
  1 + Cardinality({c \in 1..Len(ki.gens) - 1 : LastOf(ki.gens[c].revs)[1] <= atRev})
DoCompact(ki, atRev) ==
  LET c == CompactGeneration(ki, atRev)
  IN [gen |-> c, rev |-> Walk(ki.gens[c].revs, atRev)]

\* The index after a compaction at atRev.
CompactIndex(ki, atRev) ==
  LET at == DoCompact(ki, atRev)
      g == ki.gens[at.gen]
      kept == IF at.rev = 0 THEN g.revs
              ELSE SubSeq(g.revs, at.rev, Len(g.revs))
      tomb == g.revs # <<>> /\ Len(kept) = 1 /\ at.gen # Len(ki.gens)
      gens == [ki.gens EXCEPT ![at.gen].revs = kept]
  IN [ki EXCEPT !.gens = SubSeq(gens, at.gen + (IF tomb THEN 1 ELSE 0), Len(gens))]

\* Mutant: keeps the newest revision before atRev, not the one at atRev.
AvailableBefore(ki, atRev) ==
  LET at == DoCompact(ki, atRev - 1)
      g == ki.gens[at.gen]
      tomb == at.rev = Len(g.revs) /\ at.gen # Len(ki.gens)
  IN IF at.rev = 0 \/ tomb THEN {} ELSE {g.revs[at.rev]}
\* The revisions of the key that compaction must leave in the backend.
Available(ki, atRev) ==
  LET at == DoCompact(ki, atRev)
      g == ki.gens[at.gen]
      tomb == at.rev = Len(g.revs) /\ at.gen # Len(ki.gens)
  IN IF at.rev = 0 \/ tomb THEN {} ELSE {g.revs[at.rev]}
=============================================================================
