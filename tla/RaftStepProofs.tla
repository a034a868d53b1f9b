--------------------------- MODULE RaftStepProofs ---------------------------
(***************************************************************************)
(* What the operators of RaftNode and RaftStep keep, for every value of    *)
(* the constants: a sound member stays sound, and no operator but those of *)
(* elections touches the term, the vote or the role.                       *)
(***************************************************************************)
EXTENDS RaftProperties, QuorumProofs, SequenceTheorems

Ctx == ReadCtx \cup {NoCtx, CampaignTransfer}

\* A log whose prefix and snapshot stay below n, the number of entries handed
\* to state machines.
SoundLog(log, n) == /\ log \in Log
                    /\ log.offset <= log.snap.index
                    /\ log.snap.index <= n

\* The inductive strengthening of NodeType.
Sound(r, n) ==
  /\ r \in NodeType
  /\ SoundLog(r.log, n)
  /\ r.applied <= n
  /\ r.state # "Follower" => r.id \notin Learners
  /\ r.state \in {"Candidate", "Leader"} => r.Term > 0
  /\ r.panic = "none" => /\ r.log.snap.index <= r.committed
                         /\ r.applied <= r.committed
                         /\ r.committed <= LastIndex(r.log)

\* What a member may send outside elections.
Ordinary(r, m) ==
  /\ m \in Message
  /\ m.from = r.id
  /\ m.type # "MsgVote"
  /\ m.type = "MsgVoteResp" => m.reject
  /\ m.type \in LeaderTypes => r.state = "Leader" /\ m.term = r.Term

\* q follows from r by an operator that is not about elections.
Quiet(r, q, n) ==
  /\ Sound(q, n)
  /\ q.id = r.id /\ q.Term = r.Term /\ q.Vote = r.Vote
  /\ q.state = r.state /\ q.granted = r.granted
  /\ q.committed >= r.committed
  /\ q.log.snap.index >= r.log.snap.index
  /\ \A m \in q.msgs : m \in r.msgs \/ Ordinary(r, m)

\* q follows from r by a step that may end a role and raise the term, but
\* neither votes nor campaigns.
Calm(r, q, n) ==
  /\ Sound(q, n)
  /\ q.id = r.id
  /\ q.committed >= r.committed
  /\ q.log.snap.index >= r.log.snap.index
  /\ \/ q.Term = r.Term /\ q.Vote = r.Vote
     \/ q.Term > r.Term /\ q.Vote = None
  /\ \/ q.Term = r.Term /\ q.state = r.state /\ q.granted = r.granted
     \/ q.state = "Follower" /\ q.granted = {}
  /\ \A m \in q.msgs : m \in r.msgs \/ Ordinary(q, m)

-----------------------------------------------------------------------------
(* Logs.                                                                   *)

\* The fields of a log.
LEMMA LogFacts ==
  ASSUME NEW log \in Log
  PROVE  /\ log.offset \in Nat /\ log.offTerm \in Nat
         /\ log.snap.index \in Nat /\ log.snap.term \in Nat
         /\ log.ents \in Seq(Entry) /\ Len(log.ents) \in Nat
         /\ LastIndex(log) \in Nat /\ log.offset <= LastIndex(log)
         /\ FirstIndex(log) = log.offset + 1
         /\ LastIndex(log) = log.offset + Len(log.ents)
<1>1. /\ log.offset \in Nat /\ log.offTerm \in Nat
      /\ log.snap.index \in Nat /\ log.snap.term \in Nat
      /\ log.ents \in Seq(Entry)
  BY DEF Log
<1>2. Len(log.ents) \in Nat
  BY <1>1, LenProperties
<1> QED BY <1>1, <1>2 DEF LastIndex, FirstIndex

\* A term other than zero is that of an index in the log, whatever is asked.
LEMMA TermFacts ==
  ASSUME NEW log \in Log, NEW i
  PROVE  /\ LogTerm(log, i) \in Nat
         /\ LogTerm(log, i) # 0 => i \in Nat /\ i <= LastIndex(log)
<1>1. /\ log.offset \in Nat /\ log.offTerm \in Nat
      /\ log.ents \in Seq(Entry) /\ Len(log.ents) \in Nat
      /\ LastIndex(log) \in Nat /\ log.offset <= LastIndex(log)
      /\ FirstIndex(log) = log.offset + 1
      /\ LastIndex(log) = log.offset + Len(log.ents)
  BY LogFacts
<1>2. CASE i \in FirstIndex(log)..LastIndex(log)
  <2>1. i - log.offset \in 1..Len(log.ents) /\ i \in Nat /\ i <= LastIndex(log)
    BY <1>1, <1>2
  <2>2. log.ents[i - log.offset] \in Entry
    BY <1>1, <2>1, ElementOfSeq
  <2> QED BY <1>2, <2>1, <2>2 DEF LogTerm, Entry
<1>3. CASE i \notin FirstIndex(log)..LastIndex(log)
  BY <1>1, <1>3 DEF LogTerm
<1> QED BY <1>2, <1>3

\* SubSeq within the bounds of a sequence of entries.
LEMMA SubSeqOfEntries ==
  ASSUME NEW s \in Seq(Entry), NEW lo \in Int, NEW hi \in Int,
         lo >= 1, hi <= Len(s)
  PROVE  /\ SubSeq(s, lo, hi) \in Seq(Entry)
         /\ Len(SubSeq(s, lo, hi)) = IF lo <= hi THEN hi - lo + 1 ELSE 0
<1>1. Len(s) \in Nat
  BY LenProperties
<1>2. \A k \in lo..hi : s[k] \in Entry
  <2> TAKE k \in lo..hi
  <2>1. k \in 1..Len(s)
    BY <1>1
  <2> QED BY <2>1, ElementOfSeq
<1> QED BY <1>2, SubSeqProperties

\* A slice within the log is a sequence of entries (raft/log.go:342-397).
LEMMA SliceFacts ==
  ASSUME NEW log \in Log, NEW lo \in Int, NEW hi \in Int,
         lo > log.offset, hi <= LastIndex(log)
  PROVE  Slice(log, lo, hi) \in Seq(Entry)
<1>1. /\ log.offset \in Nat /\ log.ents \in Seq(Entry) /\ Len(log.ents) \in Nat
      /\ LastIndex(log) = log.offset + Len(log.ents)
  BY LogFacts
<1>2. /\ lo - log.offset \in Int /\ lo - log.offset >= 1
      /\ hi - log.offset \in Int /\ hi - log.offset <= Len(log.ents)
  BY <1>1
<1> QED BY <1>1, <1>2, SubSeqOfEntries DEF Slice

\* truncateAndAppend keeps a log a log (raft/log_unstable.go:132-156).
LEMMA AppendAfterFacts ==
  ASSUME NEW log \in Log, NEW prev \in Int, NEW ents \in Seq(Entry),
         log.offset <= prev, prev <= LastIndex(log)
  PROVE  /\ AppendAfter(log, prev, ents) \in Log
         /\ AppendAfter(log, prev, ents).offset = log.offset
         /\ AppendAfter(log, prev, ents).snap = log.snap
         /\ LastIndex(AppendAfter(log, prev, ents)) = prev + Len(ents)
<1> DEFINE kept == SubSeq(log.ents, 1, prev - log.offset)
<1>1. /\ log.offset \in Nat /\ log.ents \in Seq(Entry) /\ Len(log.ents) \in Nat
      /\ LastIndex(log) = log.offset + Len(log.ents)
  BY LogFacts
<1>2. kept \in Seq(Entry) /\ Len(kept) = prev - log.offset
  <2>1. prev - log.offset \in Int /\ prev - log.offset <= Len(log.ents)
    BY <1>1
  <2> QED BY <1>1, <2>1, SubSeqOfEntries
<1>3. kept \o ents \in Seq(Entry) /\ Len(kept \o ents) = Len(kept) + Len(ents)
  BY <1>2, ConcatProperties
<1>4. Len(ents) \in Nat
  BY LenProperties
<1>5. AppendAfter(log, prev, ents) = [log EXCEPT !.ents = kept \o ents]
  BY DEF AppendAfter
<1> HIDE DEF kept
<1>6. /\ AppendAfter(log, prev, ents) \in Log
      /\ AppendAfter(log, prev, ents).offset = log.offset
      /\ AppendAfter(log, prev, ents).snap = log.snap
      /\ AppendAfter(log, prev, ents).ents = kept \o ents
  BY <1>3, <1>5 DEF Log
<1> QED BY <1>1, <1>2, <1>3, <1>4, <1>6 DEF LastIndex

\* Compaction moves the offset and keeps the last index.
LEMMA CompactedFacts ==
  ASSUME NEW log \in Log, NEW i \in Nat, log.offset <= i
  PROVE  /\ Compacted(log, i) \in Log
         /\ Compacted(log, i).offset = i
         /\ Compacted(log, i).snap = log.snap
         /\ i <= LastIndex(log) => LastIndex(Compacted(log, i)) = LastIndex(log)
<1> DEFINE ents == Slice(log, i + 1, LastIndex(log))
<1>1. /\ log.offset \in Nat /\ log.ents \in Seq(Entry) /\ Len(log.ents) \in Nat
      /\ LastIndex(log) \in Nat
      /\ LastIndex(log) = log.offset + Len(log.ents)
  BY LogFacts
<1>2. LogTerm(log, i) \in Nat
  BY TermFacts
<1>3. ents \in Seq(Entry) /\ (i <= LastIndex(log) => Len(ents) = LastIndex(log) - i)
  <2> DEFINE lo == (i + 1) - log.offset
             hi == LastIndex(log) - log.offset
  <2>1. lo \in Int /\ hi \in Int /\ lo >= 1 /\ hi <= Len(log.ents)
    BY <1>1
  <2>2. hi - lo + 1 = LastIndex(log) - i /\ (i < LastIndex(log) => lo <= hi)
        /\ (i = LastIndex(log) => ~(lo <= hi))
    BY <1>1
  <2>3. ents = SubSeq(log.ents, lo, hi)
    BY DEF Slice
  <2> HIDE DEF lo, hi, ents
  <2>4. ents \in Seq(Entry) /\ Len(ents) = IF lo <= hi THEN hi - lo + 1 ELSE 0
    BY <1>1, <2>1, <2>3, SubSeqOfEntries
  <2> QED BY <1>1, <2>1, <2>2, <2>4
<1>4. Compacted(log, i) = [log EXCEPT !.offset = i, !.offTerm = LogTerm(log, i),
                                      !.ents = ents]
  BY DEF Compacted
<1> HIDE DEF ents
<1>5. /\ Compacted(log, i) \in Log
      /\ Compacted(log, i).offset = i
      /\ Compacted(log, i).snap = log.snap
      /\ Compacted(log, i).ents = ents
  BY <1>2, <1>3, <1>4 DEF Log
<1> QED BY <1>1, <1>3, <1>5 DEF LastIndex

-----------------------------------------------------------------------------
(* Progresses.                                                             *)

\* Inflights stay finite.
LEMMA InflightFacts ==
  /\ {} \in InflightSets
  /\ \A S \in InflightSets : \A k \in Nat : S \cup {k} \in InflightSets
  /\ \A S \in InflightSets : \A T \in SUBSET S : T \in InflightSets
<1>1. {} \in InflightSets
  BY FS_EmptySet DEF InflightSets
<1>2. ASSUME NEW S \in InflightSets, NEW k \in Nat
      PROVE  S \cup {k} \in InflightSets
  BY FS_AddElement DEF InflightSets
<1>3. ASSUME NEW S \in InflightSets, NEW T \in SUBSET S
      PROVE  T \in InflightSets
  BY FS_Subset DEF InflightSets
<1> QED BY <1>1, <1>2, <1>3

\* Progress.ResetState keeps the type.
LEMMA ResetStateType ==
  ASSUME NEW pr \in ProgressType, NEW s \in ProgressState
  PROVE  /\ ResetState(pr, s) \in ProgressType
         /\ ResetState(pr, s).Match = pr.Match
BY InflightFacts DEF ResetState, ProgressType

\* So do the changes of state of a Progress.
LEMMA BecomeType ==
  ASSUME NEW pr \in ProgressType, NEW k \in Nat
  PROVE  /\ BecomeProbe(pr) \in ProgressType
         /\ BecomeReplicate(pr) \in ProgressType
         /\ BecomeSnapshot(pr, k) \in ProgressType
<1>1. /\ ResetState(pr, "StateProbe") \in ProgressType
      /\ ResetState(pr, "StateReplicate") \in ProgressType
      /\ ResetState(pr, "StateSnapshot") \in ProgressType
  BY ResetStateType DEF ProgressState
<1>2. pr.Match \in Nat /\ pr.PendingSnapshot \in Nat
  BY DEF ProgressType
<1>3. BecomeReplicate(pr) \in ProgressType /\ BecomeSnapshot(pr, k) \in ProgressType
  BY <1>1, <1>2 DEF BecomeReplicate, BecomeSnapshot, ProgressType
<1>4. BecomeProbe(pr) \in ProgressType
  BY <1>1, <1>2 DEF BecomeProbe, ProgressType, Maximum
<1> QED BY <1>3, <1>4

\* A fresh Progress has the type.
LEMMA NewProgressType ==
  ASSUME NEW i \in Nat, NEW j \in Nat
  PROVE  NewProgress(i, j) \in ProgressType
BY InflightFacts DEF NewProgress, ProgressType, ProgressState

\* Acknowledgements and rejections keep it.
LEMMA UpdateType ==
  ASSUME NEW pr \in ProgressType, NEW i \in Nat, NEW j \in Nat
  PROVE  /\ MaybeUpdate(pr, i) \in ProgressType
         /\ DecrTo(pr, i, j) \in ProgressType
<1>1. /\ pr.Match \in Nat /\ pr.Next \in Nat /\ pr.ProbeSent \in BOOLEAN
  BY DEF ProgressType
<1>2. MaybeUpdate(pr, i) \in ProgressType
  <2>1. Maximum(pr.Match, i) \in Nat /\ Maximum(pr.Next, i + 1) \in Nat
    BY <1>1 DEF Maximum
  <2>2. (pr.ProbeSent /\ pr.Match >= i) \in BOOLEAN
    BY Zenon
  <2> QED BY <2>1, <2>2 DEF MaybeUpdate, ProgressType
<1>3. DecrTo(pr, i, j) \in ProgressType
  <2>1. pr.Match + 1 \in Nat /\ Maximum(Minimum(i, j + 1), 1) \in Nat
    BY <1>1 DEF Maximum, Minimum
  <2> QED BY <2>1 DEF DecrTo, ProgressType
<1> QED BY <1>2, <1>3

\* So do sending into the window and freeing it.
LEMMA WindowType ==
  ASSUME NEW pr \in ProgressType, NEW k \in Nat
  PROVE  /\ SentEntries(pr, k) \in ProgressType
         /\ FreeLE(pr, k) \in ProgressType
         /\ FreeFirstOne(pr) \in ProgressType
<1>1. pr.Inflights \in InflightSets
  BY DEF ProgressType
<1>2. SentEntries(pr, k) \in ProgressType
  <2> DEFINE S == pr.Inflights \cup {k}
  <2>1. S \in InflightSets /\ k + 1 \in Nat
    BY <1>1, InflightFacts
  <2>2. [pr EXCEPT !.Next = k + 1, !.Inflights = S] \in ProgressType
    <3> HIDE DEF S
    <3> QED BY <2>1 DEF ProgressType
  <2>3. [pr EXCEPT !.ProbeSent = TRUE] \in ProgressType
    BY DEF ProgressType
  <2> QED BY <2>2, <2>3 DEF SentEntries
<1>3. FreeLE(pr, k) \in ProgressType
  <2>1. {j \in pr.Inflights : j > k} \in InflightSets
    BY <1>1, InflightFacts
  <2> QED BY <2>1 DEF FreeLE, ProgressType
<1>4. FreeFirstOne(pr) \in ProgressType
  <2> DEFINE S == {j \in pr.Inflights : \E l \in pr.Inflights : l < j}
  <2>1. S \in InflightSets
    BY <1>1, InflightFacts
  <2> HIDE DEF S
  <2>2. FreeFirstOne(pr) = [pr EXCEPT !.Inflights = S]
    BY DEF FreeFirstOne, S
  <2> QED BY <2>1, <2>2 DEF ProgressType
<1> QED BY <1>2, <1>3, <1>4

-----------------------------------------------------------------------------
(* Quiet steps.                                                            *)

\* The fields of a member.
LEMMA NodeFacts ==
  ASSUME NEW r \in NodeType
  PROVE  /\ r.id \in Server /\ r.Term \in Nat /\ r.Vote \in Server \cup {None}
         /\ r.state \in RaftState /\ r.lead \in Server \cup {None}
         /\ r.log \in Log /\ r.committed \in Nat /\ r.applied \in Nat
         /\ r.granted \in SUBSET Server /\ r.rejected \in SUBSET Server
         /\ r.prs \in [Server -> ProgressType]
         /\ r.leadTransferee \in Server \cup {None} /\ r.elapsed \in BOOLEAN
         /\ r.readOnly \in Seq(ReadRequest)
         /\ r.readStates \in SUBSET ReadState /\ r.msgs \in SUBSET Message
         /\ r.panic \in PanicKind /\ r.log.snap.index \in Nat
BY DEF NodeType, Log

\* Doing nothing is quiet.
LEMMA QuietRefl ==
  ASSUME NEW n \in Nat, NEW r, Sound(r, n)
  PROVE  Quiet(r, r, n)
BY NodeFacts DEF Quiet, Sound

\* Two quiet steps make one.
LEMMA QuietTrans ==
  ASSUME NEW n \in Nat, NEW a, NEW b, NEW c, Sound(a, n),
         Quiet(a, b, n), Quiet(b, c, n)
  PROVE  Quiet(a, c, n)
<1>1. /\ a.committed \in Nat /\ b.committed \in Nat /\ c.committed \in Nat
      /\ a.log.snap.index \in Nat /\ b.log.snap.index \in Nat
      /\ c.log.snap.index \in Nat
  BY NodeFacts DEF Quiet, Sound
<1>2. \A m : Ordinary(b, m) => Ordinary(a, m)
  BY DEF Quiet, Ordinary
<1> QED BY <1>1, <1>2 DEF Quiet

\* A change of the fields Sound and Quiet say nothing of.
LEMMA QuietFields ==
  ASSUME NEW n \in Nat, NEW r, Sound(r, n), NEW q \in NodeType,
         q.id = r.id, q.Term = r.Term, q.Vote = r.Vote, q.state = r.state,
         q.granted = r.granted, q.log = r.log, q.committed = r.committed,
         q.applied = r.applied, q.panic = r.panic,
         \A m \in q.msgs : m \in r.msgs \/ Ordinary(r, m)
  PROVE  Quiet(r, q, n)
BY NodeFacts DEF Quiet, Sound

\* Sending ordinary messages is quiet.
LEMMA SendsQuiet ==
  ASSUME NEW n \in Nat, NEW r, Sound(r, n),
         NEW S, \A m \in S : Ordinary(r, m)
  PROVE  Quiet(r, [r EXCEPT !.msgs = @ \cup S], n)
<1> DEFINE q == [r EXCEPT !.msgs = @ \cup S]
<1>1. r \in NodeType /\ r.msgs \cup S \in SUBSET Message
  BY DEF Sound, Ordinary, NodeType
<1>2. q \in NodeType /\ q.msgs = r.msgs \cup S
  <2> DEFINE T == r.msgs \cup S
  <2>1. T \in SUBSET Message
    BY <1>1
  <2> HIDE DEF T
  <2>2. [r EXCEPT !.msgs = T] \in NodeType /\ [r EXCEPT !.msgs = T].msgs = T
    BY <1>1, <2>1 DEF NodeType
  <2> QED BY <2>2 DEF T
<1>3. /\ q.id = r.id /\ q.Term = r.Term /\ q.Vote = r.Vote
      /\ q.state = r.state /\ q.granted = r.granted /\ q.log = r.log
      /\ q.committed = r.committed /\ q.applied = r.applied
      /\ q.panic = r.panic
  BY <1>1 DEF NodeType
<1>4. Quiet(r, q, n)
  <2> HIDE DEF q
  <2> QED BY <1>2, <1>3, QuietFields
<1> QED BY <1>4

\* Changing the progress of peers is quiet.
LEMMA PrsQuiet ==
  ASSUME NEW n \in Nat, NEW r, Sound(r, n),
         NEW prs \in [Server -> ProgressType]
  PROVE  Quiet(r, [r EXCEPT !.prs = prs], n)
<1> DEFINE q == [r EXCEPT !.prs = prs]
<1>1. r \in NodeType
  BY DEF Sound
<1>2. /\ q \in NodeType
      /\ q.id = r.id /\ q.Term = r.Term /\ q.Vote = r.Vote
      /\ q.state = r.state /\ q.granted = r.granted /\ q.log = r.log
      /\ q.committed = r.committed /\ q.applied = r.applied
      /\ q.panic = r.panic /\ q.msgs = r.msgs
  BY <1>1 DEF NodeType
<1>3. Quiet(r, q, n)
  <2> HIDE DEF q
  <2> QED BY <1>2, QuietFields
<1> QED BY <1>3

\* A panic stops the member and changes nothing else.
LEMMA PanicQuiet ==
  ASSUME NEW n \in Nat, NEW r, Sound(r, n),
         NEW kind \in PanicKind \ {"none"}
  PROVE  Quiet(r, Panic(r, kind), n)
<1> DEFINE q == Panic(r, kind)
<1>1. r \in NodeType
  BY DEF Sound
<1>2. /\ q \in NodeType
      /\ q.id = r.id /\ q.Term = r.Term /\ q.Vote = r.Vote
      /\ q.state = r.state /\ q.granted = r.granted /\ q.log = r.log
      /\ q.committed = r.committed /\ q.applied = r.applied
      /\ q.panic # "none" /\ q.msgs = r.msgs
  BY <1>1 DEF NodeType, Panic
<1>3. Quiet(r, q, n)
  <2> HIDE DEF q
  <2> QED BY <1>1, <1>2, NodeFacts DEF Quiet, Sound
<1> QED BY <1>3

-----------------------------------------------------------------------------
(* Messages.                                                               *)

\* A message as its sender builds it, before send stamps it.
Draft ==
  {m \in [type: MessageType, from: Server \cup {None}, to: Server, term: Nat,
          logTerm: Nat, index: Nat, ents: Seq(Entry), commit: Nat,
          reject: BOOLEAN, hint: Nat, ctx: Ctx] :
     m.type = "MsgProp" => Len(m.ents) = 1}

\* A message of a type and a receiver is a draft.
LEMMA DraftFacts ==
  ASSUME NEW type \in MessageType \ {"MsgProp"}, NEW to \in Server
  PROVE  /\ Msg(type, to) \in Draft
         /\ Msg(type, to).type = type
BY EmptySeq DEF Msg, Draft, Ctx

\* raft.send makes an ordinary message of a draft (raft/raft.go:416-451).
LEMMA StampedOrdinary ==
  ASSUME NEW r \in NodeType, NEW m \in Draft,
         m.type # "MsgVote",
         m.type = "MsgVoteResp" => m.reject,
         m.type \in LeaderTypes => r.state = "Leader"
  PROVE  Ordinary(r, Stamped(r, m))
<1> DEFINE term == IF m.type \in VoteTypes \cup {"MsgProp", "MsgReadIndex"}
                   THEN m.term ELSE r.Term
           q == [m EXCEPT !.from = r.id, !.term = term]
<1>1. r.id \in Server /\ r.Term \in Nat /\ m.term \in Nat
  BY NodeFacts DEF Draft
<1>2. term \in Nat
  BY <1>1
<1>3. m.type \in LeaderTypes => term = r.Term
  BY DEF LeaderTypes, VoteTypes
<1>4. /\ q \in Message /\ q.from = r.id /\ q.term = term
      /\ q.type = m.type /\ q.reject = m.reject
  <2> HIDE DEF term
  <2> QED BY <1>1, <1>2 DEF Draft, Message, Ctx
<1>5. Stamped(r, m) = q
  BY DEF Stamped
<1> HIDE DEF q, term
<1> QED BY <1>3, <1>4, <1>5 DEF Ordinary

\* Sending one is quiet.
LEMMA SendQuiet ==
  ASSUME NEW n \in Nat, NEW r, Sound(r, n), NEW m \in Draft,
         m.type # "MsgVote",
         m.type = "MsgVoteResp" => m.reject,
         m.type \in LeaderTypes => r.state = "Leader"
  PROVE  Quiet(r, Send(r, m), n)
<1>1. Ordinary(r, Stamped(r, m))
  BY StampedOrdinary DEF Sound
<1>2. \A x \in {Stamped(r, m)} : Ordinary(r, x)
  BY <1>1
<1> QED BY <1>2, SendsQuiet DEF Send

\* The entries of a MsgApp end at or before the last index.
LEMMA EndOfMessageFacts ==
  ASSUME NEW log \in Log, NEW lo \in Nat
  PROVE  /\ EndOfMessage(log, lo) \in Nat
         /\ EndOfMessage(log, lo) <= LastIndex(log)
<1>1. LastIndex(log) \in Nat /\ MaxEntries \in Nat \ {0}
  BY LogFacts, OptionAssumption
<1> QED BY <1>1 DEF EndOfMessage, Minimum

\* A MsgApp of a leader is ordinary.
LEMMA AppMsgOrdinary ==
  ASSUME NEW r \in NodeType, r.state = "Leader", NEW to \in Server,
         NEW lo \in Nat, lo > r.log.offset
  PROVE  Ordinary(r, Stamped(r, AppMsg(r, to, lo)))
<1> DEFINE m == AppMsg(r, to, lo)
           ents == Slice(r.log, lo, EndOfMessage(r.log, lo))
           prev == LogTerm(r.log, lo - 1)
<1>1. r.log \in Log /\ r.log.offset \in Nat /\ r.committed \in Nat
  BY NodeFacts, LogFacts
<1>2. ents \in Seq(Entry)
  BY <1>1, EndOfMessageFacts, SliceFacts
<1>3. prev \in Nat /\ lo - 1 \in Nat
  BY <1>1, TermFacts
<1>4. m \in Draft /\ m.type = "MsgApp"
  <2>1. /\ Msg("MsgApp", to) \in Draft
        /\ Msg("MsgApp", to).type = "MsgApp"
    BY DraftFacts DEF MessageType
  <2>2. m = [Msg("MsgApp", to) EXCEPT !.index = lo - 1, !.logTerm = prev,
                                      !.ents = ents, !.commit = r.committed]
    BY DEF AppMsg
  <2> HIDE DEF m, ents, prev
  <2> QED BY <1>1, <1>2, <1>3, <2>1, <2>2 DEF Draft
<1>5. Ordinary(r, Stamped(r, m))
  <2> HIDE DEF m
  <2> QED BY <1>4, StampedOrdinary
<1> QED BY <1>5

\* So is its MsgSnap.
LEMMA SnapMsgOrdinary ==
  ASSUME NEW r \in NodeType, r.state = "Leader", NEW to \in Server
  PROVE  Ordinary(r, Stamped(r, SnapMsg(r, to)))
<1> DEFINE m == SnapMsg(r, to)
<1>1. r.log.snap.index \in Nat /\ r.log.snap.term \in Nat
  BY NodeFacts, LogFacts
<1>2. /\ Msg("MsgSnap", to) \in Draft
      /\ Msg("MsgSnap", to).type = "MsgSnap"
  BY DraftFacts DEF MessageType
<1>3. m \in Draft /\ m.type = "MsgSnap"
  BY <1>1, <1>2 DEF SnapMsg, Draft
<1>4. Ordinary(r, Stamped(r, m))
  <2> HIDE DEF m
  <2> QED BY <1>3, StampedOrdinary
<1> QED BY <1>4

-----------------------------------------------------------------------------
(* Leader: replication.                                                    *)

\* What a leader does to its progresses while it sends.
LEMMA PrsSendsQuiet ==
  ASSUME NEW n \in Nat, NEW r, Sound(r, n),
         NEW prs \in [Server -> ProgressType],
         NEW S, \A m \in S : Ordinary(r, m)
  PROVE  Quiet(r, [r EXCEPT !.prs = prs, !.msgs = @ \cup S], n)
<1> DEFINE p == [r EXCEPT !.prs = prs]
           q == [r EXCEPT !.prs = prs, !.msgs = @ \cup S]
<1>1. Quiet(r, p, n)
  BY PrsQuiet
<1>2. r \in NodeType
  BY DEF Sound
<1>3. q = [p EXCEPT !.msgs = @ \cup S]
  BY <1>2 DEF NodeType
<1>4. p.id = r.id /\ p.Term = r.Term /\ p.state = r.state /\ Sound(p, n)
  BY <1>1 DEF Quiet
<1>5. Quiet(r, q, n)
  <2> HIDE DEF p, q
  <2>1. \A m \in S : Ordinary(p, m)
    BY <1>4 DEF Ordinary
  <2>2. Quiet(p, q, n)
    BY <1>3, <1>4, <2>1, SendsQuiet
  <2> QED BY <1>1, <2>2, QuietTrans
<1> QED BY <1>5

\* maybeSendAppend keeps the Progress of the peer (raft/raft.go:465-542).
LEMMA AppendToFacts ==
  ASSUME NEW r \in NodeType, r.state = "Leader", NEW to \in Server
  PROVE  /\ AppendTo(r, to).pr \in ProgressType
         /\ \A m \in AppendTo(r, to).msgs : Ordinary(r, m)
<1> DEFINE pr == r.prs[to]
           compacted == pr.Next < FirstIndex(r.log)
           idle == [pr |-> pr, msgs |-> {}]
           snap == [pr |-> BecomeSnapshot(pr, r.log.snap.index),
                    msgs |-> {Stamped(r, SnapMsg(r, to))}]
           next == IF pr.Next > LastIndex(r.log) THEN pr
                   ELSE SentEntries(pr, EndOfMessage(r.log, pr.Next))
           app  == [pr |-> next, msgs |-> {Stamped(r, AppMsg(r, to, pr.Next))}]
<1>1. /\ pr \in ProgressType /\ pr.Next \in Nat
      /\ r.log \in Log /\ r.log.snap.index \in Nat /\ r.log.offset \in Nat
      /\ FirstIndex(r.log) = r.log.offset + 1
  BY NodeFacts, LogFacts DEF ProgressType
<1>2. AppendTo(r, to) \in {idle, snap} \/ (~compacted /\ AppendTo(r, to) = app)
  BY DEF AppendTo
<1>3. /\ snap.pr \in ProgressType
      /\ \A m \in snap.msgs : Ordinary(r, m)
  BY <1>1, BecomeType, SnapMsgOrdinary
<1>4. app.pr \in ProgressType
  BY <1>1, EndOfMessageFacts, WindowType
<1>5. ~compacted => \A m \in app.msgs : Ordinary(r, m)
  BY <1>1, AppMsgOrdinary
<1>6. idle.pr \in ProgressType /\ \A m \in idle.msgs : Ordinary(r, m)
  BY <1>1
<1> HIDE DEF idle, snap, app, compacted
<1> QED BY <1>2, <1>3, <1>4, <1>5, <1>6

\* sendAppend is quiet.
LEMMA SendAppendQuiet ==
  ASSUME NEW n \in Nat, NEW r, Sound(r, n), r.state = "Leader", NEW to \in Server
  PROVE  Quiet(r, SendAppend(r, to), n)
<1> DEFINE out == AppendTo(r, to)
           prs == [r.prs EXCEPT ![to] = out.pr]
<1>1. r \in NodeType /\ r.prs \in [Server -> ProgressType]
  BY NodeFacts DEF Sound
<1>2. out.pr \in ProgressType /\ \A m \in out.msgs : Ordinary(r, m)
  BY <1>1, AppendToFacts
<1>3. prs \in [Server -> ProgressType]
  <2> HIDE DEF out
  <2> QED BY <1>1, <1>2
<1>4. SendAppend(r, to) = [r EXCEPT !.prs = prs, !.msgs = @ \cup out.msgs]
  BY DEF SendAppend
<1>5. Quiet(r, [r EXCEPT !.prs = prs, !.msgs = @ \cup out.msgs], n)
  <2> HIDE DEF out, prs
  <2> QED BY <1>2, <1>3, PrsSendsQuiet
<1> QED BY <1>4, <1>5

\* bcastAppend is quiet.
LEMMA BcastAppendQuiet ==
  ASSUME NEW n \in Nat, NEW r, Sound(r, n), r.state = "Leader"
  PROVE  Quiet(r, BcastAppend(r), n)
<1> DEFINE prs == [s \in Server |-> IF s = r.id THEN r.prs[s]
                                    ELSE AppendTo(r, s).pr]
           S == UNION {AppendTo(r, s).msgs : s \in Server \ {r.id}}
<1>1. r \in NodeType /\ r.prs \in [Server -> ProgressType]
  BY NodeFacts DEF Sound
<1>2. prs \in [Server -> ProgressType]
  BY <1>1, AppendToFacts
<1>3. \A m \in S : Ordinary(r, m)
  BY <1>1, AppendToFacts
<1>4. BcastAppend(r) = [r EXCEPT !.prs = prs, !.msgs = @ \cup S]
  BY DEF BcastAppend
<1>5. Quiet(r, [r EXCEPT !.prs = prs, !.msgs = @ \cup S], n)
  <2> HIDE DEF prs, S
  <2> QED BY <1>2, <1>3, PrsSendsQuiet
<1> QED BY <1>4, <1>5

\* Sending what is left to a peer is quiet.
LEMMA SendRemainingQuiet ==
  ASSUME NEW n \in Nat, NEW r, Sound(r, n), r.state = "Leader", NEW to \in Server
  PROVE  Quiet(r, SendRemaining(r, to), n)
<1> DEFINE pr == r.prs[to]
           lo(k) == pr.Next + (k - 1) * MaxEntries
           room == MaxInflight - Cardinality(pr.Inflights)
           sent == {k \in 1..room : lo(k) <= LastIndex(r.log)}
           next == Minimum(lo(Cardinality(sent) + 1), LastIndex(r.log) + 1)
           ends == {EndOfMessage(r.log, lo(k)) : k \in sent}
           S == {Stamped(r, AppMsg(r, to, lo(k))) : k \in sent}
           pr2 == [pr EXCEPT !.Next = next, !.Inflights = pr.Inflights \cup ends]
           prs == [r.prs EXCEPT ![to] = pr2]
<1>1. /\ r \in NodeType /\ r.prs \in [Server -> ProgressType]
      /\ r.log \in Log
  BY NodeFacts DEF Sound
<1>2. /\ pr \in ProgressType /\ pr.Next \in Nat /\ pr.Inflights \in InflightSets
      /\ LastIndex(r.log) \in Nat /\ r.log.offset \in Nat
      /\ FirstIndex(r.log) = r.log.offset + 1
      /\ MaxEntries \in Nat
  BY <1>1, LogFacts, OptionAssumption DEF ProgressType
<1>3. room \in Int /\ IsFiniteSet(pr.Inflights)
  BY <1>2, MaxInflightAssumption, FS_CardinalityType DEF InflightSets
<1>4. IsFiniteSet(sent) /\ Cardinality(sent) \in Nat
  <2> HIDE DEF room
  <2>1. IsFiniteSet(1..room) /\ sent \in SUBSET (1..room)
    BY <1>3, FS_Interval
  <2> HIDE DEF sent
  <2> QED BY <2>1, FS_Subset, FS_CardinalityType
<1>5. \A k \in Nat \ {0} : lo(k) \in Nat /\ lo(k) >= pr.Next
  <2> TAKE k \in Nat \ {0}
  <2>1. (k - 1) * MaxEntries \in Nat
    BY <1>2
  <2> QED BY <1>2, <2>1
<1>6. sent \subseteq Nat \ {0}
  BY <1>3
<1>7. next \in Nat
  <2> HIDE DEF sent
  <2>1. lo(Cardinality(sent) + 1) \in Nat
    <3>1. Cardinality(sent) + 1 \in Nat \ {0}
      BY <1>4
    <3> HIDE DEF lo
    <3> QED BY <1>5, <3>1
  <2> HIDE DEF lo
  <2> QED BY <1>2, <2>1 DEF Minimum
<1>8. pr.Inflights \cup ends \in InflightSets
  <2>1. ends \subseteq 0..LastIndex(r.log)
    <3> HIDE DEF sent, lo
    <3>1. ASSUME NEW k \in sent
          PROVE  EndOfMessage(r.log, lo(k)) \in 0..LastIndex(r.log)
      <4>1. lo(k) \in Nat
        BY <1>5, <1>6
      <4>2. /\ EndOfMessage(r.log, lo(k)) \in Nat
            /\ EndOfMessage(r.log, lo(k)) <= LastIndex(r.log)
        BY <1>1, <4>1, EndOfMessageFacts
      <4> QED BY <1>2, <4>2
    <3> QED BY <3>1
  <2> HIDE DEF ends
  <2>2. IsFiniteSet(0..LastIndex(r.log))
    BY <1>2, FS_Interval
  <2>3. IsFiniteSet(ends) /\ ends \subseteq Nat
    <3>1. ends \in SUBSET (0..LastIndex(r.log)) /\ ends \subseteq Nat
      BY <1>2, <2>1
    <3> QED BY <2>2, <3>1, FS_Subset
  <2>4. IsFiniteSet(pr.Inflights \cup ends)
    BY <1>3, <2>3, FS_Union
  <2> QED BY <1>2, <2>3, <2>4 DEF InflightSets
<1>9. pr2 \in ProgressType
  <2> DEFINE T == pr.Inflights \cup ends
  <2>1. T \in InflightSets
    BY <1>8
  <2>2. pr2 = [pr EXCEPT !.Next = next, !.Inflights = T]
    OBVIOUS
  <2> HIDE DEF T, next, pr2
  <2> QED BY <1>2, <1>7, <2>1, <2>2 DEF ProgressType
<1>10. prs \in [Server -> ProgressType]
  <2> HIDE DEF pr2
  <2> QED BY <1>1, <1>9
<1>11. ASSUME pr.Next >= FirstIndex(r.log)
       PROVE  \A m \in S : Ordinary(r, m)
  <2> SUFFICES ASSUME NEW k \in sent
               PROVE  Ordinary(r, Stamped(r, AppMsg(r, to, lo(k))))
    OBVIOUS
  <2> HIDE DEF lo, sent
  <2>1. lo(k) \in Nat /\ lo(k) >= pr.Next
    BY <1>5, <1>6
  <2>2. lo(k) > r.log.offset
    BY <1>2, <1>11, <2>1
  <2> QED BY <1>1, <2>1, <2>2, AppMsgOrdinary
<1>12. SendRemaining(r, to) = r \/
         (/\ pr.Next >= FirstIndex(r.log)
          /\ SendRemaining(r, to) = [r EXCEPT !.prs = prs, !.msgs = @ \cup S])
  <2> DEFINE q == [r EXCEPT !.prs[to].Next = next, !.prs[to].Inflights = @ \cup ends,
                            !.msgs = @ \cup S]
  <2>1. \/ SendRemaining(r, to) = r
        \/ ~(pr.Next < FirstIndex(r.log)) /\ SendRemaining(r, to) = q
    BY DEF SendRemaining
  <2>2. q = [r EXCEPT !.prs = prs, !.msgs = @ \cup S]
    <3> HIDE DEF next, ends, S
    <3> QED BY <1>1, <1>2 DEF NodeType, ProgressType
  <2> HIDE DEF q, prs, S
  <2> QED BY <1>2, <2>1, <2>2
<1>13. ASSUME pr.Next >= FirstIndex(r.log)
       PROVE  Quiet(r, [r EXCEPT !.prs = prs, !.msgs = @ \cup S], n)
  <2> HIDE DEF prs, S
  <2> QED BY <1>10, <1>11, <1>13, PrsSendsQuiet
<1> HIDE DEF prs, S, pr
<1> QED BY <1>12, <1>13, QuietRefl

\* bcastHeartbeat is quiet.
LEMMA BcastHeartbeatQuiet ==
  ASSUME NEW n \in Nat, NEW r, Sound(r, n), r.state = "Leader", NEW ctx \in Ctx
  PROVE  Quiet(r, BcastHeartbeat(r, ctx), n)
<1> DEFINE draft(s) == [Msg("MsgHeartbeat", s) EXCEPT
                          !.commit = Minimum(r.prs[s].Match, r.committed),
                          !.ctx = ctx]
           S == {Stamped(r, draft(s)) : s \in Server \ {r.id}}
<1>1. r \in NodeType /\ r.prs \in [Server -> ProgressType] /\ r.committed \in Nat
  BY NodeFacts DEF Sound
<1>2. ASSUME NEW s \in Server
      PROVE  Ordinary(r, Stamped(r, draft(s)))
  <2> DEFINE d == Msg("MsgHeartbeat", s)
             commit == Minimum(r.prs[s].Match, r.committed)
  <2>1. commit \in Nat
    BY <1>1 DEF ProgressType, Minimum
  <2>2. d \in Draft /\ d.type = "MsgHeartbeat"
    BY DraftFacts DEF MessageType
  <2>3. draft(s) \in Draft /\ draft(s).type = "MsgHeartbeat"
    <3> HIDE DEF commit, d
    <3>1. [d EXCEPT !.commit = commit, !.ctx = ctx] \in Draft
      BY <2>1, <2>2 DEF Draft
    <3>2. [d EXCEPT !.commit = commit, !.ctx = ctx].type = "MsgHeartbeat"
      BY <2>2 DEF Draft
    <3> QED BY <3>1, <3>2 DEF d, commit
  <2> HIDE DEF draft
  <2> QED BY <1>1, <2>3, StampedOrdinary
<1>3. \A m \in S : Ordinary(r, m)
  <2> HIDE DEF draft
  <2> QED BY <1>2
<1>4. BcastHeartbeat(r, ctx) = [r EXCEPT !.msgs = @ \cup S]
  BY DEF BcastHeartbeat
<1>5. Quiet(r, [r EXCEPT !.msgs = @ \cup S], n)
  <2> HIDE DEF S
  <2> QED BY <1>3, SendsQuiet
<1> QED BY <1>4, <1>5

\* A commit index that moves up inside the log.
LEMMA CommittedQuiet ==
  ASSUME NEW n \in Nat, NEW r, Sound(r, n), NEW k \in Nat,
         k >= r.committed, k <= LastIndex(r.log)
  PROVE  Quiet(r, [r EXCEPT !.committed = k], n)
<1> DEFINE q == [r EXCEPT !.committed = k]
<1>1. r \in NodeType
  BY DEF Sound
<1>2. /\ q \in NodeType
      /\ q.id = r.id /\ q.Term = r.Term /\ q.Vote = r.Vote
      /\ q.state = r.state /\ q.granted = r.granted /\ q.log = r.log
      /\ q.committed = k /\ q.applied = r.applied
      /\ q.panic = r.panic /\ q.msgs = r.msgs
  BY <1>1 DEF NodeType
<1>3. r.log.snap.index \in Nat /\ r.applied \in Nat /\ r.committed \in Nat
  BY <1>1, NodeFacts, LogFacts
<1>4. Quiet(r, q, n)
  <2> HIDE DEF q
  <2> QED BY <1>2, <1>3 DEF Quiet, Sound
<1> QED BY <1>4

\* A leader counts only entries of its own term, so what it commits is in its
\* log, whatever the order of the acknowledgements.
LEMMA MaybeCommitQuiet ==
  ASSUME NEW n \in Nat, NEW r, Sound(r, n), r.Term > 0
  PROVE  Quiet(r, MaybeCommit(r), n)
<1>1. r \in NodeType /\ r.Term \in Nat /\ r.log \in Log /\ r.committed \in Nat
  BY NodeFacts DEF Sound
<1>2. CASE Committed(r) > r.committed /\ LogTerm(r.log, Committed(r)) = r.Term
  <2>1. Committed(r) \in Nat /\ Committed(r) <= LastIndex(r.log)
    BY <1>1, <1>2, TermFacts
  <2>2. Quiet(r, [r EXCEPT !.committed = Committed(r)], n)
    BY <1>1, <1>2, <2>1, CommittedQuiet
  <2> QED BY <1>2, <2>2 DEF MaybeCommit
<1>3. CASE ~(Committed(r) > r.committed /\ LogTerm(r.log, Committed(r)) = r.Term)
  BY <1>3, QuietRefl DEF MaybeCommit
<1> QED BY <1>2, <1>3

\* A log that goes on at least as far as before, or as what is committed.
LEMMA LogQuiet ==
  ASSUME NEW n \in Nat, NEW r, Sound(r, n), NEW log \in Log,
         log.offset = r.log.offset, log.snap = r.log.snap,
         r.panic = "none" => LastIndex(log) >= r.committed
  PROVE  Quiet(r, [r EXCEPT !.log = log], n)
<1> DEFINE q == [r EXCEPT !.log = log]
<1>1. r \in NodeType
  BY DEF Sound
<1>2. /\ q \in NodeType
      /\ q.id = r.id /\ q.Term = r.Term /\ q.Vote = r.Vote
      /\ q.state = r.state /\ q.granted = r.granted /\ q.log = log
      /\ q.committed = r.committed /\ q.applied = r.applied
      /\ q.panic = r.panic /\ q.msgs = r.msgs
  BY <1>1 DEF NodeType
<1>3. r.committed \in Nat /\ LastIndex(log) \in Nat /\ log.snap.index \in Nat
  BY <1>1, NodeFacts, LogFacts
<1>4. Quiet(r, q, n)
  <2> HIDE DEF q
  <2> QED BY <1>2, <1>3 DEF Quiet, Sound, SoundLog
<1> QED BY <1>4

\* appendEntry is quiet (raft/raft.go:686-708).
LEMMA AppendEntryQuiet ==
  ASSUME NEW n \in Nat, NEW r, Sound(r, n), r.Term > 0,
         NEW data \in Value \cup {NoData}
  PROVE  Quiet(r, AppendEntry(r, data), n)
<1> DEFINE e == <<[term |-> r.Term, data |-> data]>>
           log == AppendAfter(r.log, LastIndex(r.log), e)
           p == [r EXCEPT !.log = log]
           prs == [r.prs EXCEPT ![r.id] = MaybeUpdate(@, LastIndex(log))]
           q == [p EXCEPT !.prs = prs]
<1>1. /\ r \in NodeType /\ r.id \in Server /\ r.Term \in Nat /\ r.log \in Log
      /\ r.committed \in Nat /\ r.prs \in [Server -> ProgressType]
      /\ LastIndex(r.log) \in Nat /\ r.log.offset <= LastIndex(r.log)
  BY NodeFacts, LogFacts DEF Sound
<1>2. e \in Seq(Entry) /\ Len(e) = 1
  BY <1>1 DEF Entry
<1>3. /\ log \in Log /\ log.offset = r.log.offset /\ log.snap = r.log.snap
      /\ LastIndex(log) = LastIndex(r.log) + 1
  <2>1. LastIndex(r.log) \in Int /\ LastIndex(r.log) <= LastIndex(r.log)
    BY <1>1
  <2> HIDE DEF e
  <2>2. /\ AppendAfter(r.log, LastIndex(r.log), e) \in Log
        /\ AppendAfter(r.log, LastIndex(r.log), e).offset = r.log.offset
        /\ AppendAfter(r.log, LastIndex(r.log), e).snap = r.log.snap
        /\ LastIndex(AppendAfter(r.log, LastIndex(r.log), e))
             = LastIndex(r.log) + Len(e)
    BY <1>1, <1>2, <2>1, AppendAfterFacts
  <2> QED BY <1>2, <2>2
<1>4. Quiet(r, p, n)
  <2> HIDE DEF log
  <2>1. r.panic = "none" => LastIndex(log) >= r.committed
    BY <1>1, <1>3 DEF Sound
  <2> QED BY <1>1, <1>3, <2>1, LogQuiet
<1>5. prs \in [Server -> ProgressType]
  <2> HIDE DEF log
  <2>1. LastIndex(log) \in Nat /\ r.prs[r.id] \in ProgressType
    BY <1>1, <1>3
  <2>2. MaybeUpdate(r.prs[r.id], LastIndex(log)) \in ProgressType
    BY <2>1, UpdateType
  <2> QED BY <1>1, <2>2
<1>6. Sound(p, n) /\ p.Term = r.Term
  <2> HIDE DEF p
  <2> QED BY <1>4 DEF Quiet
<1>7. Quiet(p, q, n)
  <2> HIDE DEF p, prs
  <2> QED BY <1>5, <1>6, PrsQuiet
<1>8. Quiet(r, q, n) /\ Sound(q, n) /\ q.Term = r.Term
  <2> HIDE DEF p, q
  <2>1. Quiet(r, q, n)
    BY <1>4, <1>7, QuietTrans
  <2> QED BY <2>1 DEF Quiet
<1>9. Quiet(r, MaybeCommit(q), n)
  <2> HIDE DEF q
  <2>1. Quiet(q, MaybeCommit(q), n)
    BY <1>8, MaybeCommitQuiet
  <2> QED BY <1>8, <2>1, QuietTrans
<1>10. AppendEntry(r, data) = MaybeCommit(q)
  <2>1. q = [r EXCEPT !.log = log, !.prs[r.id] = MaybeUpdate(@, LastIndex(log))]
    <3>1. q = [r EXCEPT !.log = log, !.prs = prs]
      <4> HIDE DEF log, prs
      <4> QED BY <1>1 DEF NodeType
    <3> HIDE DEF log, q
    <3> QED BY <3>1
  <2> HIDE DEF q
  <2> QED BY <2>1 DEF AppendEntry
<1> QED BY <1>9, <1>10

-----------------------------------------------------------------------------
(* Followers.                                                              *)

\* A quiet step is calm.
LEMMA QuietIsCalm ==
  ASSUME NEW n, NEW r, NEW q, Quiet(r, q, n)
  PROVE  Calm(r, q, n)
<1>1. \A m : Ordinary(r, m) => Ordinary(q, m)
  BY DEF Quiet, Ordinary
<1> QED BY <1>1 DEF Quiet, Calm

\* A quiet step after a calm one is calm.
LEMMA CalmTrans ==
  ASSUME NEW n \in Nat, NEW a, NEW b, NEW c, Sound(a, n),
         Calm(a, b, n), Quiet(b, c, n)
  PROVE  Calm(a, c, n)
<1>1. /\ a.committed \in Nat /\ b.committed \in Nat /\ c.committed \in Nat
      /\ a.log.snap.index \in Nat /\ b.log.snap.index \in Nat
      /\ c.log.snap.index \in Nat
  BY NodeFacts DEF Calm, Quiet, Sound
<1>2. \A m : Ordinary(b, m) => Ordinary(c, m)
  BY DEF Quiet, Ordinary
<1> QED BY <1>1, <1>2 DEF Calm, Quiet

\* becomeFollower at the same term keeps the vote, at a higher one forgets it.
LEMMA BecomeFollowerCalm ==
  ASSUME NEW n \in Nat, NEW r, Sound(r, n),
         NEW term \in Nat, term >= r.Term, NEW lead \in Server \cup {None}
  PROVE  /\ Calm(r, BecomeFollower(r, term, lead), n)
         /\ BecomeFollower(r, term, lead).Term = term
         /\ BecomeFollower(r, term, lead).state = "Follower"
         /\ BecomeFollower(r, term, lead).panic = r.panic
         /\ BecomeFollower(r, term, lead).log = r.log
         /\ BecomeFollower(r, term, lead).committed = r.committed
         /\ BecomeFollower(r, term, lead).msgs = r.msgs
<1> DEFINE q == BecomeFollower(r, term, lead)
           vote == IF r.Term = term THEN r.Vote ELSE None
<1>1. /\ r \in NodeType /\ r.Term \in Nat /\ r.Vote \in Server \cup {None}
      /\ r.committed \in Nat /\ r.log.snap.index \in Nat
  BY NodeFacts DEF Sound
<1>2. NoProgress \in [Server -> ProgressType]
  BY NewProgressType DEF NoProgress
<1>3. <<>> \in Seq(ReadRequest)
  BY EmptySeq
<1>4. vote \in Server \cup {None}
  BY <1>1
<1>5. q = [r EXCEPT !.Vote = vote, !.Term = term, !.lead = lead,
                    !.elapsed = FALSE, !.leadTransferee = None, !.granted = {},
                    !.rejected = {}, !.prs = NoProgress, !.readOnly = <<>>,
                    !.state = "Follower"]
  <2> HIDE DEF vote
  <2>1. Reset(r, term) = [r EXCEPT !.Vote = vote, !.Term = term, !.lead = None,
                    !.elapsed = FALSE, !.leadTransferee = None, !.granted = {},
                    !.rejected = {}, !.prs = NoProgress, !.readOnly = <<>>]
    BY DEF Reset, vote
  <2> QED BY <1>1, <2>1 DEF BecomeFollower, NodeType
<1>6. /\ q \in NodeType
      /\ q.id = r.id /\ q.Term = term /\ q.Vote = vote
      /\ q.state = "Follower" /\ q.granted = {} /\ q.log = r.log
      /\ q.committed = r.committed /\ q.applied = r.applied
      /\ q.panic = r.panic /\ q.msgs = r.msgs
  <2> HIDE DEF q, vote
  <2> QED BY <1>1, <1>2, <1>3, <1>4, <1>5 DEF NodeType, RaftState
<1>7. Calm(r, q, n)
  <2>1. \/ q.Term = r.Term /\ q.Vote = r.Vote
        \/ q.Term > r.Term /\ q.Vote = None
    <3> HIDE DEF q
    <3> QED BY <1>1, <1>6
  <2> HIDE DEF q, vote
  <2> QED BY <1>1, <1>6, <2>1 DEF Calm, Sound
<1> QED BY <1>6, <1>7

\* Committing within the log is quiet (raft/log.go:227-236).
LEMMA CommitToQuiet ==
  ASSUME NEW n \in Nat, NEW r, Sound(r, n), NEW k \in Nat
  PROVE  Quiet(r, CommitTo(r, k), n)
<1>1. r \in NodeType /\ r.committed \in Nat /\ r.log \in Log
      /\ LastIndex(r.log) \in Nat
  BY NodeFacts, LogFacts DEF Sound
<1>2. CASE k <= r.committed
  BY <1>2, QuietRefl DEF CommitTo
<1>3. CASE k > r.committed /\ LastIndex(r.log) < k
  <2>1. CommitTo(r, k) = Panic(r, "tocommit")
    BY <1>1, <1>3 DEF CommitTo
  <2>2. "tocommit" \in PanicKind \ {"none"}
    BY DEF PanicKind
  <2> QED BY <2>1, <2>2, PanicQuiet
<1>4. CASE k > r.committed /\ k <= LastIndex(r.log)
  <2>1. CommitTo(r, k) = [r EXCEPT !.committed = k]
    BY <1>1, <1>4 DEF CommitTo
  <2> QED BY <1>1, <1>4, <2>1, CommittedQuiet
<1> QED BY <1>1, <1>2, <1>3, <1>4

\* The fields of a message.
LEMMA MessageFacts ==
  ASSUME NEW m \in Message
  PROVE  /\ m.type \in MessageType /\ m.from \in Server /\ m.to \in Server
         /\ m.term \in Nat /\ m.logTerm \in Nat /\ m.index \in Nat
         /\ m.ents \in Seq(Entry) /\ m.commit \in Nat
         /\ m.reject \in BOOLEAN /\ m.hint \in Nat /\ m.ctx \in Ctx
         /\ m.type = "MsgProp" => Len(m.ents) = 1
BY DEF Message, Ctx

\* The entries a follower keeps are a prefix of the message's.
LEMMA KeptFacts ==
  ASSUME NEW r, NEW m \in Message
  PROVE  KeptEntries(r, m) \in 0..Len(m.ents)
<1> DEFINE S == {k \in DOMAIN m.ents :
                   \A j \in 1..k : LogTerm(r.log, m.index + j) = m.ents[j].term}
<1>1. /\ m.ents \in Seq(Entry) /\ Len(m.ents) \in Nat
      /\ DOMAIN m.ents = 1..Len(m.ents)
  BY MessageFacts, LenProperties
<1>2. S \in SUBSET (1..Len(m.ents))
  BY <1>1
<1>3. /\ IsFiniteSet(1..Len(m.ents))
      /\ Cardinality(1..Len(m.ents)) = Len(m.ents)
  BY <1>1, FS_Interval
<1> HIDE DEF S
<1>4. /\ Cardinality(S) \in Nat
      /\ Cardinality(S) <= Cardinality(1..Len(m.ents))
  BY <1>2, <1>3, FS_Subset, FS_CardinalityType
<1>5. KeptEntries(r, m) = Cardinality(S)
  BY DEF KeptEntries, S
<1> QED BY <1>1, <1>3, <1>4, <1>5

\* maybeAppend is quiet, or panics (raft/log.go:94-121).
LEMMA MaybeAppendQuiet ==
  ASSUME NEW n \in Nat, NEW r, Sound(r, n), r.panic = "none",
         NEW m \in Message
  PROVE  Quiet(r, MaybeAppend(r, m), n)
<1> DEFINE kept == KeptEntries(r, m)
           new == SubSeq(m.ents, kept + 1, Len(m.ents))
           commit == Minimum(m.commit, m.index + Len(m.ents))
           log == AppendAfter(r.log, m.index + kept, new)
           p == [r EXCEPT !.log = log]
<1>1. /\ m.ents \in Seq(Entry) /\ Len(m.ents) \in Nat
      /\ m.index \in Nat /\ m.commit \in Nat
  BY MessageFacts, LenProperties
<1>2. /\ r \in NodeType /\ r.log \in Log /\ r.committed \in Nat
      /\ LastIndex(r.log) \in Nat /\ r.log.offset \in Nat
      /\ r.log.snap.index \in Nat
      /\ r.log.offset <= r.log.snap.index /\ r.log.snap.index <= r.committed
  BY NodeFacts, LogFacts DEF Sound, SoundLog
<1>3. kept \in 0..Len(m.ents)
  BY KeptFacts
<1>4. commit \in Nat
  BY <1>1 DEF Minimum
<1>5. /\ new \in Seq(Entry) /\ Len(new) = Len(m.ents) - kept
  <2> HIDE DEF kept
  <2>1. kept + 1 \in Int /\ kept + 1 >= 1
    BY <1>1, <1>3
  <2>2. /\ new \in Seq(Entry)
        /\ Len(new) = IF kept + 1 <= Len(m.ents) THEN Len(m.ents) - (kept + 1) + 1
                      ELSE 0
    BY <1>1, <2>1, SubSeqOfEntries
  <2> HIDE DEF new
  <2> QED BY <1>1, <1>3, <2>2
<1>6. CASE kept = Len(m.ents)
  <2>1. MaybeAppend(r, m) = CommitTo(r, commit)
    BY <1>6 DEF MaybeAppend
  <2> HIDE DEF commit
  <2> QED BY <1>4, <2>1, CommitToQuiet
<1>7. CASE kept # Len(m.ents) /\ m.index + kept < r.committed
  <2>1. MaybeAppend(r, m) = Panic(r, "conflict")
    BY <1>7 DEF MaybeAppend
  <2>2. "conflict" \in PanicKind \ {"none"}
    BY DEF PanicKind
  <2> QED BY <2>1, <2>2, PanicQuiet
<1>8. CASE /\ kept # Len(m.ents) /\ ~(m.index + kept < r.committed)
           /\ m.index + kept > LastIndex(r.log)
  <2>1. MaybeAppend(r, m) = Panic(r, "gap")
    BY <1>8 DEF MaybeAppend
  <2>2. "gap" \in PanicKind \ {"none"}
    BY DEF PanicKind
  <2> QED BY <2>1, <2>2, PanicQuiet
<1>9. CASE /\ kept # Len(m.ents) /\ ~(m.index + kept < r.committed)
           /\ ~(m.index + kept > LastIndex(r.log))
  <2>1. MaybeAppend(r, m) = CommitTo(p, commit)
    BY <1>9 DEF MaybeAppend
  <2>2. /\ m.index + kept \in Int /\ r.log.offset <= m.index + kept
        /\ m.index + kept <= LastIndex(r.log)
    <3> HIDE DEF kept
    <3> QED BY <1>1, <1>2, <1>3, <1>9
  <2>3. /\ log \in Log /\ log.offset = r.log.offset /\ log.snap = r.log.snap
        /\ LastIndex(log) = m.index + kept + Len(new)
    <3> HIDE DEF kept, new
    <3> QED BY <1>2, <1>5, <2>2, AppendAfterFacts
  <2>4. LastIndex(log) >= r.committed
    <3> HIDE DEF kept, new, log
    <3> QED BY <1>1, <1>2, <1>3, <1>5, <1>9, <2>3
  <2>5. Quiet(r, p, n)
    <3> HIDE DEF log
    <3> QED BY <2>3, <2>4, LogQuiet
  <2>6. Quiet(p, CommitTo(p, commit), n)
    <3> HIDE DEF p, commit
    <3> QED BY <1>4, <2>5, CommitToQuiet DEF Quiet
  <2> HIDE DEF p, commit
  <2> QED BY <2>1, <2>5, <2>6, QuietTrans
<1> QED BY <1>6, <1>7, <1>8, <1>9

\* A change of role or term before anything is sent.
LEMMA CalmFirst ==
  ASSUME NEW n \in Nat, NEW a, NEW b, NEW c, Sound(a, n),
         Calm(a, b, n), b.msgs = a.msgs, Calm(b, c, n)
  PROVE  Calm(a, c, n)
<1>1. /\ a.committed \in Nat /\ b.committed \in Nat /\ c.committed \in Nat
      /\ a.Term \in Nat /\ b.Term \in Nat /\ c.Term \in Nat
      /\ a.log.snap.index \in Nat /\ b.log.snap.index \in Nat
      /\ c.log.snap.index \in Nat
  BY NodeFacts DEF Calm, Sound
<1> QED BY <1>1 DEF Calm

\* Learning a higher term is calm.
LEMMA AtTermCalm ==
  ASSUME NEW n \in Nat, NEW r, Sound(r, n), NEW m \in Message
  PROVE  /\ Calm(r, AtTerm(r, m), n)
         /\ AtTerm(r, m).msgs = r.msgs
         /\ AtTerm(r, m).panic = r.panic
         /\ m.term <= r.Term => AtTerm(r, m) = r
         /\ m.term > r.Term =>
              \/ AtTerm(r, m).Term = m.term /\ AtTerm(r, m).state = "Follower"
              \/ m.type \in {"MsgPreVote", "MsgPreVoteResp"} /\ AtTerm(r, m) = r
<1>1. m.term \in Nat /\ m.from \in Server /\ r.Term \in Nat
  BY MessageFacts, NodeFacts DEF Sound
<1>2. CASE KeepsTerm(r, m)
  <2>1. AtTerm(r, m) = r
    BY <1>2 DEF AtTerm
  <2>2. Calm(r, r, n)
    BY QuietRefl, QuietIsCalm
  <2> QED BY <1>1, <1>2, <2>1, <2>2 DEF KeepsTerm
<1>3. CASE ~KeepsTerm(r, m)
  <2> DEFINE lead == IF m.type \in {"MsgApp", "MsgHeartbeat", "MsgSnap"}
                     THEN m.from ELSE None
  <2>1. AtTerm(r, m) = BecomeFollower(r, m.term, lead)
    BY <1>3 DEF AtTerm
  <2>2. lead \in Server \cup {None} /\ m.term > r.Term
    BY <1>1, <1>3 DEF KeepsTerm
  <2> HIDE DEF lead
  <2> QED BY <1>1, <2>1, <2>2, BecomeFollowerCalm
<1> QED BY <1>2, <1>3

\* Following the sender of a leader's message is calm.
LEMMA FollowSenderCalm ==
  ASSUME NEW n \in Nat, NEW r, Sound(r, n), NEW m \in Message,
         m.term >= r.Term \/ r.state = "Follower"
  PROVE  /\ Calm(r, FollowSender(r, m), n)
         /\ FollowSender(r, m).msgs = r.msgs
         /\ FollowSender(r, m).panic = r.panic
         /\ FollowSender(r, m).state = "Follower"
<1>1. m.from \in Server /\ m.term \in Nat /\ r \in NodeType
  BY MessageFacts DEF Sound
<1>2. CASE r.state = "Follower"
  <2> DEFINE q == [r EXCEPT !.elapsed = FALSE, !.lead = m.from]
  <2>1. /\ q \in NodeType
        /\ q.id = r.id /\ q.Term = r.Term /\ q.Vote = r.Vote
        /\ q.state = r.state /\ q.granted = r.granted /\ q.log = r.log
        /\ q.committed = r.committed /\ q.applied = r.applied
        /\ q.panic = r.panic /\ q.msgs = r.msgs
    BY <1>1 DEF NodeType
  <2>2. FollowSender(r, m) = q
    BY <1>2 DEF FollowSender
  <2> HIDE DEF q
  <2>3. Quiet(r, q, n)
    BY <2>1, QuietFields
  <2> QED BY <1>2, <2>1, <2>2, <2>3, QuietIsCalm
<1>3. CASE r.state # "Follower"
  <2>1. FollowSender(r, m) = BecomeFollower(r, m.term, m.from)
    BY <1>3 DEF FollowSender
  <2> QED BY <1>1, <1>3, <2>1, BecomeFollowerCalm
<1> QED BY <1>2, <1>3

\* The draft of a MsgAppResp.
LEMMA AppRespFacts ==
  ASSUME NEW to \in Server, NEW i \in Nat, NEW j \in Nat
  PROVE  /\ AppResp(to, i) \in Draft /\ AppResp(to, i).type = "MsgAppResp"
         /\ [AppResp(to, i) EXCEPT !.reject = TRUE, !.hint = j] \in Draft
         /\ [AppResp(to, i) EXCEPT !.reject = TRUE, !.hint = j].type = "MsgAppResp"
<1>1. Msg("MsgAppResp", to) \in Draft /\ Msg("MsgAppResp", to).type = "MsgAppResp"
  BY DraftFacts DEF MessageType
<1>2. AppResp(to, i) \in Draft /\ AppResp(to, i).type = "MsgAppResp"
  BY <1>1 DEF AppResp, Draft
<1> QED BY <1>2 DEF Draft

\* Sending it is quiet.
LEMMA SendAppRespQuiet ==
  ASSUME NEW n \in Nat, NEW r, Sound(r, n), NEW m \in Draft, m.type = "MsgAppResp"
  PROVE  Quiet(r, Send(r, m), n)
BY SendQuiet DEF LeaderTypes

\* handleAppendEntries is quiet (raft/raft.go:1505-1523).
LEMMA HandleAppendEntriesQuiet ==
  ASSUME NEW n \in Nat, NEW r, Sound(r, n), r.panic = "none", NEW m \in Message
  PROVE  Quiet(r, HandleAppendEntries(r, m), n)
<1>1. /\ m.from \in Server /\ m.index \in Nat /\ m.ents \in Seq(Entry)
      /\ Len(m.ents) \in Nat /\ m.index + Len(m.ents) \in Nat
  BY MessageFacts, LenProperties
<1>2. r.committed \in Nat /\ LastIndex(r.log) \in Nat
  BY NodeFacts, LogFacts DEF Sound
<1>3. CASE m.index < r.committed
  <2>1. Quiet(r, Send(r, AppResp(m.from, r.committed)), n)
    BY <1>1, <1>2, AppRespFacts, SendAppRespQuiet
  <2> QED BY <1>3, <2>1 DEF HandleAppendEntries
<1>4. CASE ~(m.index < r.committed) /\ LogTerm(r.log, m.index) = m.logTerm
  <2> DEFINE p == MaybeAppend(r, m)
             resp == AppResp(m.from, m.index + Len(m.ents))
  <2>1. Quiet(r, p, n)
    BY MaybeAppendQuiet
  <2>2. resp \in Draft /\ resp.type = "MsgAppResp"
    BY <1>1, AppRespFacts
  <2>3. HandleAppendEntries(r, m) = Send(p, resp)
    BY <1>4 DEF HandleAppendEntries
  <2> HIDE DEF p, resp
  <2>4. Sound(p, n)
    BY <2>1 DEF Quiet
  <2> QED BY <2>1, <2>2, <2>3, <2>4, SendAppRespQuiet, QuietTrans
<1>5. CASE ~(m.index < r.committed) /\ LogTerm(r.log, m.index) # m.logTerm
  <2> DEFINE resp == [AppResp(m.from, m.index) EXCEPT
                        !.reject = TRUE, !.hint = LastIndex(r.log)]
  <2>1. resp \in Draft /\ resp.type = "MsgAppResp"
    BY <1>1, <1>2, AppRespFacts
  <2>2. HandleAppendEntries(r, m) = Send(r, resp)
    BY <1>5 DEF HandleAppendEntries
  <2> HIDE DEF resp
  <2> QED BY <2>1, <2>2, SendAppRespQuiet
<1> QED BY <1>3, <1>4, <1>5

\* The snapshot that replaces the log is of a state some machine was handed.
LEMMA RestoreLogQuiet ==
  ASSUME NEW n \in Nat, NEW r, Sound(r, n), r.panic = "none",
         NEW m \in Message, m.index <= n, m.index > r.committed
  PROVE  Quiet(r, RestoreLog(r, m), n)
<1> DEFINE log == [offset |-> m.index, offTerm |-> m.logTerm, ents |-> <<>>,
                   snap |-> [index |-> m.index, term |-> m.logTerm]]
           q == [r EXCEPT !.committed = m.index, !.log = log]
<1>1. /\ r \in NodeType /\ r.committed \in Nat /\ r.applied \in Nat
      /\ r.log.snap.index \in Nat /\ m.index \in Nat /\ m.logTerm \in Nat
  BY NodeFacts, MessageFacts DEF Sound
<1>2. /\ log \in Log /\ log.offset = m.index /\ log.snap.index = m.index
      /\ LastIndex(log) = m.index
  BY <1>1, EmptySeq DEF Log, LastIndex
<1>3. /\ q \in NodeType
      /\ q.id = r.id /\ q.Term = r.Term /\ q.Vote = r.Vote
      /\ q.state = r.state /\ q.granted = r.granted /\ q.log = log
      /\ q.committed = m.index /\ q.applied = r.applied
      /\ q.panic = r.panic /\ q.msgs = r.msgs
  <2> HIDE DEF log
  <2> QED BY <1>1, <1>2 DEF NodeType
<1>4. Quiet(r, q, n)
  <2> HIDE DEF q, log
  <2> QED BY <1>1, <1>2, <1>3 DEF Quiet, Sound, SoundLog
<1>5. RestoreLog(r, m) = q
  BY DEF RestoreLog
<1> QED BY <1>4, <1>5

\* handleSnapshot is quiet: a snapshot never overtakes what was handed over.
LEMMA HandleSnapshotQuiet ==
  ASSUME NEW n \in Nat, NEW r, Sound(r, n), r.panic = "none",
         NEW m \in Message, m.index <= n
  PROVE  Quiet(r, HandleSnapshot(r, m), n)
<1>1. m.from \in Server /\ m.index \in Nat /\ r.committed \in Nat
  BY MessageFacts, NodeFacts DEF Sound
<1> DEFINE resp == AppResp(m.from, m.index)
<1>2. resp \in Draft /\ resp.type = "MsgAppResp"
  BY <1>1, AppRespFacts
<1>3. CASE m.index <= r.committed
  <2>1. Quiet(r, Send(r, AppResp(m.from, r.committed)), n)
    BY <1>1, AppRespFacts, SendAppRespQuiet
  <2> QED BY <1>3, <2>1 DEF HandleSnapshot
<1>4. ASSUME NEW p, Quiet(r, p, n)
      PROVE  Quiet(r, Send(p, resp), n)
  <2> HIDE DEF resp
  <2>1. Sound(p, n)
    BY <1>4 DEF Quiet
  <2> QED BY <1>2, <1>4, <2>1, SendAppRespQuiet, QuietTrans
<1>5. CASE ~(m.index <= r.committed) /\ LogTerm(r.log, m.index) = m.logTerm
  <2>1. Quiet(r, CommitTo(r, m.index), n)
    BY <1>1, CommitToQuiet
  <2>2. HandleSnapshot(r, m) = Send(CommitTo(r, m.index), resp)
    BY <1>5 DEF HandleSnapshot
  <2> QED BY <1>4, <2>1, <2>2
<1>6. CASE ~(m.index <= r.committed) /\ LogTerm(r.log, m.index) # m.logTerm
  <2>1. Quiet(r, RestoreLog(r, m), n)
    BY <1>1, <1>6, RestoreLogQuiet
  <2>2. HandleSnapshot(r, m) = Send(RestoreLog(r, m), resp)
    BY <1>6 DEF HandleSnapshot
  <2> QED BY <1>4, <2>1, <2>2
<1> QED BY <1>3, <1>5, <1>6

\* MsgApp is calm, whatever the role.
LEMMA StepAppCalm ==
  ASSUME NEW n \in Nat, NEW r, Sound(r, n), r.panic = "none", NEW m \in Message,
         m.term >= r.Term \/ r.state = "Follower"
  PROVE  Calm(r, StepApp(r, m), n)
<1>1. CASE r.state = "Leader"
  BY <1>1, QuietRefl, QuietIsCalm DEF StepApp
<1>2. CASE r.state # "Leader"
  <2> DEFINE p == FollowSender(r, m)
  <2>1. Calm(r, p, n) /\ p.panic = "none"
    BY FollowSenderCalm
  <2>2. StepApp(r, m) = HandleAppendEntries(p, m)
    BY <1>2 DEF StepApp
  <2> HIDE DEF p
  <2>3. Quiet(p, HandleAppendEntries(p, m), n)
    BY <2>1, HandleAppendEntriesQuiet DEF Calm
  <2> QED BY <2>1, <2>2, <2>3, CalmTrans
<1> QED BY <1>1, <1>2

\* MsgSnap is calm.
LEMMA StepSnapCalm ==
  ASSUME NEW n \in Nat, NEW r, Sound(r, n), r.panic = "none",
         NEW m \in Message, m.index <= n,
         m.term >= r.Term \/ r.state = "Follower"
  PROVE  Calm(r, StepSnap(r, m), n)
<1>1. CASE r.state = "Leader"
  BY <1>1, QuietRefl, QuietIsCalm DEF StepSnap
<1>2. CASE r.state # "Leader"
  <2> DEFINE p == FollowSender(r, m)
  <2>1. Calm(r, p, n) /\ p.panic = "none"
    BY FollowSenderCalm
  <2>2. StepSnap(r, m) = HandleSnapshot(p, m)
    BY <1>2 DEF StepSnap
  <2> HIDE DEF p
  <2>3. Quiet(p, HandleSnapshot(p, m), n)
    BY <2>1, HandleSnapshotQuiet DEF Calm
  <2> QED BY <2>1, <2>2, <2>3, CalmTrans
<1> QED BY <1>1, <1>2

\* MsgHeartbeat is calm.
LEMMA StepHeartbeatCalm ==
  ASSUME NEW n \in Nat, NEW r, Sound(r, n), NEW m \in Message,
         m.term >= r.Term \/ r.state = "Follower"
  PROVE  Calm(r, StepHeartbeat(r, m), n)
<1>1. CASE r.state = "Leader"
  BY <1>1, QuietRefl, QuietIsCalm DEF StepHeartbeat
<1>2. CASE r.state # "Leader"
  <2> DEFINE p == FollowSender(r, m)
             q == CommitTo(p, m.commit)
             resp == [Msg("MsgHeartbeatResp", m.from) EXCEPT !.ctx = m.ctx]
  <2>1. Calm(r, p, n)
    BY FollowSenderCalm
  <2>2. StepHeartbeat(r, m) = Send(q, resp)
    BY <1>2 DEF StepHeartbeat
  <2>3. resp \in Draft /\ resp.type = "MsgHeartbeatResp"
    <3>1. /\ Msg("MsgHeartbeatResp", m.from) \in Draft
          /\ Msg("MsgHeartbeatResp", m.from).type = "MsgHeartbeatResp"
      BY MessageFacts, DraftFacts DEF MessageType
    <3> QED BY <3>1, MessageFacts DEF Draft
  <2> HIDE DEF resp, p
  <2>4. Quiet(p, q, n)
    BY <2>1, MessageFacts, CommitToQuiet DEF Calm
  <2> HIDE DEF q
  <2>5. Quiet(q, Send(q, resp), n)
    BY <2>3, <2>4, SendQuiet DEF Quiet, LeaderTypes
  <2>6. Calm(r, q, n)
    BY <2>1, <2>4, CalmTrans
  <2> QED BY <2>2, <2>5, <2>6, CalmTrans
<1> QED BY <1>1, <1>2

\* The answer to a stale message changes nothing but the outbox.
LEMMA StepStaleQuiet ==
  ASSUME NEW n \in Nat, NEW r, Sound(r, n), NEW m \in Message
  PROVE  Quiet(r, StepStale(r, m), n)
<1>1. m.from \in Server /\ r.Term \in Nat
  BY MessageFacts, NodeFacts DEF Sound
<1>2. /\ Msg("MsgAppResp", m.from) \in Draft
      /\ Msg("MsgAppResp", m.from).type = "MsgAppResp"
  BY <1>1, DraftFacts DEF MessageType
<1> DEFINE rej == [Msg("MsgPreVoteResp", m.from) EXCEPT
                     !.term = r.Term, !.reject = TRUE]
<1>3. rej \in Draft /\ rej.type = "MsgPreVoteResp"
  <2>1. /\ Msg("MsgPreVoteResp", m.from) \in Draft
        /\ Msg("MsgPreVoteResp", m.from).type = "MsgPreVoteResp"
    BY <1>1, DraftFacts DEF MessageType
  <2> QED BY <1>1, <2>1 DEF Draft
<1>4. StepStale(r, m) \in {r, Send(r, Msg("MsgAppResp", m.from)), Send(r, rej)}
  BY DEF StepStale
<1>5. Quiet(r, Send(r, Msg("MsgAppResp", m.from)), n)
  BY <1>2, SendAppRespQuiet
<1>6. Quiet(r, Send(r, rej), n)
  <2> HIDE DEF rej
  <2> QED BY <1>3, SendQuiet DEF LeaderTypes
<1> QED BY <1>4, <1>5, <1>6, QuietRefl

-----------------------------------------------------------------------------
(* Leader: answers of the peers.                                           *)

\* Marking a peer active keeps its Progress.
LEMMA ActiveType ==
  ASSUME NEW n, NEW r, Sound(r, n), NEW s \in Server
  PROVE  Active(r, s) \in ProgressType
<1>1. r.prs[s] \in ProgressType
  BY NodeFacts DEF Sound
<1> QED BY <1>1 DEF Active, ProgressType

\* Replacing the Progress of a peer is quiet.
LEMMA SetProgressQuiet ==
  ASSUME NEW n \in Nat, NEW r, Sound(r, n), NEW s \in Server,
         NEW pr \in ProgressType
  PROVE  Quiet(r, SetProgress(r, s, pr), n)
<1> DEFINE prs == [r.prs EXCEPT ![s] = pr]
<1>1. prs \in [Server -> ProgressType]
  BY NodeFacts DEF Sound
<1>2. SetProgress(r, s, pr) = [r EXCEPT !.prs = prs]
  BY DEF SetProgress
<1>3. Quiet(r, [r EXCEPT !.prs = prs], n)
  <2> HIDE DEF prs
  <2> QED BY <1>1, PrsQuiet
<1> QED BY <1>2, <1>3

\* A quiet step of a leader and then another.
LEMMA QuietChain ==
  ASSUME NEW n \in Nat, NEW a, Sound(a, n), a.state = "Leader",
         NEW b, Quiet(a, b, n)
  PROVE  Sound(b, n) /\ b.state = "Leader" /\ b.Term = a.Term /\ b.Term > 0
BY DEF Quiet, Sound

\* A rejected append is answered quietly.
LEMMA RejectedAppendQuiet ==
  ASSUME NEW n \in Nat, NEW r, Sound(r, n), r.state = "Leader", NEW m \in Message
  PROVE  Quiet(r, RejectedAppend(r, m), n)
<1> DEFINE pr == Active(r, m.from)
           decr == DecrTo(pr, m.index, m.hint)
           next == IF pr.State = "StateReplicate" THEN BecomeProbe(decr) ELSE decr
           p == SetProgress(r, m.from, next)
<1>1. m.from \in Server /\ m.index \in Nat /\ m.hint \in Nat
  BY MessageFacts
<1>2. pr \in ProgressType
  BY <1>1, ActiveType
<1>3. decr \in ProgressType
  <2> HIDE DEF pr
  <2> QED BY <1>1, <1>2, UpdateType
<1>4. next \in ProgressType
  <2> HIDE DEF decr, pr
  <2> QED BY <1>3, BecomeType
<1>5. RejectedAppend(r, m) \in {SetProgress(r, m.from, pr), SendAppend(p, m.from)}
  BY DEF RejectedAppend
<1>6. Quiet(r, SetProgress(r, m.from, pr), n)
  <2> HIDE DEF pr
  <2> QED BY <1>1, <1>2, SetProgressQuiet
<1>7. Quiet(r, p, n)
  <2> HIDE DEF next
  <2> QED BY <1>1, <1>4, SetProgressQuiet
<1>8. Quiet(r, SendAppend(p, m.from), n)
  <2> HIDE DEF p
  <2>1. Sound(p, n) /\ p.state = "Leader"
    BY <1>7, QuietChain
  <2>2. Quiet(p, SendAppend(p, m.from), n)
    BY <1>1, <2>1, SendAppendQuiet
  <2> QED BY <1>7, <2>2, QuietTrans
<1> QED BY <1>5, <1>6, <1>8

\* An acknowledgement keeps the Progress.
LEMMA AfterAckType ==
  ASSUME NEW pr \in ProgressType, NEW k \in Nat
  PROVE  AfterAck(pr, k) \in ProgressType
<1>1. /\ BecomeReplicate(pr) \in ProgressType
      /\ BecomeReplicate(BecomeProbe(pr)) \in ProgressType
  BY BecomeType
<1>2. FreeLE(pr, k) \in ProgressType
  BY WindowType
<1> QED BY <1>1, <1>2 DEF AfterAck

\* A leader's MsgTimeoutNow is ordinary.
LEMMA SendTimeoutNowQuiet ==
  ASSUME NEW n \in Nat, NEW r, Sound(r, n), r.state = "Leader", NEW to \in Server
  PROVE  /\ Quiet(r, Send(r, Msg("MsgTimeoutNow", to)), n)
         /\ Quiet(r, SendTimeoutNowIfCaughtUp(r, to), n)
<1>1. /\ Msg("MsgTimeoutNow", to) \in Draft
      /\ Msg("MsgTimeoutNow", to).type = "MsgTimeoutNow"
  BY DraftFacts DEF MessageType
<1>2. Quiet(r, Send(r, Msg("MsgTimeoutNow", to)), n)
  BY <1>1, SendQuiet
<1> QED BY <1>2, QuietRefl DEF SendTimeoutNowIfCaughtUp

\* An acknowledged append is quiet, the commit and the transfer it brings included.
LEMMA AckedAppendQuiet ==
  ASSUME NEW n \in Nat, NEW r, Sound(r, n), r.state = "Leader", NEW m \in Message
  PROVE  Quiet(r, AckedAppend(r, m), n)
<1> DEFINE pr == Active(r, m.from)
           up == MaybeUpdate(pr, m.index)
           r0 == SetProgress(r, m.from, AfterAck(up, m.index))
           r1 == MaybeCommit(r0)
           r2 == IF r1.committed > r.committed THEN BcastAppend(r1)
                 ELSE IF IsPaused(pr) THEN SendAppend(r1, m.from)
                 ELSE r1
           r3 == SendRemaining(r2, m.from)
           r4 == SendTimeoutNowIfCaughtUp(r3, m.from)
<1>1. m.from \in Server /\ m.index \in Nat
  BY MessageFacts
<1>2. up \in ProgressType
  <2>1. pr \in ProgressType
    BY <1>1, ActiveType
  <2> HIDE DEF pr
  <2> QED BY <1>1, <2>1, UpdateType
<1>3. AckedAppend(r, m) \in {SetProgress(r, m.from, up), r4}
  BY DEF AckedAppend
<1>4. Quiet(r, SetProgress(r, m.from, up), n)
  <2> HIDE DEF up
  <2> QED BY <1>1, <1>2, SetProgressQuiet
<1>5. Quiet(r, r0, n)
  <2> HIDE DEF up
  <2>1. AfterAck(up, m.index) \in ProgressType
    BY <1>1, <1>2, AfterAckType
  <2> QED BY <1>1, <2>1, SetProgressQuiet
<1>6. Quiet(r, r1, n)
  <2> HIDE DEF r0
  <2>1. Sound(r0, n) /\ r0.Term > 0
    BY <1>5, QuietChain
  <2>2. Quiet(r0, MaybeCommit(r0), n)
    BY <2>1, MaybeCommitQuiet
  <2> QED BY <1>5, <2>2, QuietTrans
<1>7. Quiet(r, r2, n)
  <2> HIDE DEF r1, pr
  <2>1. Sound(r1, n) /\ r1.state = "Leader"
    BY <1>6, QuietChain
  <2>2. Quiet(r1, r2, n)
    BY <1>1, <2>1, BcastAppendQuiet, SendAppendQuiet, QuietRefl
  <2> HIDE DEF r2
  <2> QED BY <1>6, <2>2, QuietTrans
<1>8. Quiet(r, r3, n)
  <2> HIDE DEF r2
  <2>1. Sound(r2, n) /\ r2.state = "Leader"
    BY <1>7, QuietChain
  <2>2. Quiet(r2, SendRemaining(r2, m.from), n)
    BY <1>1, <2>1, SendRemainingQuiet
  <2> QED BY <1>7, <2>2, QuietTrans
<1>9. Quiet(r, r4, n)
  <2> HIDE DEF r3
  <2>1. Sound(r3, n) /\ r3.state = "Leader"
    BY <1>8, QuietChain
  <2>2. Quiet(r3, SendTimeoutNowIfCaughtUp(r3, m.from), n)
    BY <1>1, <2>1, SendTimeoutNowQuiet
  <2> QED BY <1>8, <2>2, QuietTrans
<1> HIDE DEF up, r4
<1> QED BY <1>3, <1>4, <1>9

\* MsgAppResp is quiet.
LEMMA StepAppRespQuiet ==
  ASSUME NEW n \in Nat, NEW r, Sound(r, n), NEW m \in Message
  PROVE  Quiet(r, StepAppResp(r, m), n)
BY QuietRefl, RejectedAppendQuiet, AckedAppendQuiet DEF StepAppResp

-----------------------------------------------------------------------------
(* Leader: reads.                                                          *)

\* The queue of reads and the answers are nobody else's.
LEMMA ReadFieldsQuiet ==
  ASSUME NEW n \in Nat, NEW r, Sound(r, n), NEW queue \in Seq(ReadRequest),
         NEW states \in SUBSET ReadState
  PROVE  Quiet(r, [r EXCEPT !.readOnly = queue, !.readStates = states], n)
<1> DEFINE q == [r EXCEPT !.readOnly = queue, !.readStates = states]
<1>1. r \in NodeType
  BY DEF Sound
<1>2. /\ q \in NodeType
      /\ q.id = r.id /\ q.Term = r.Term /\ q.Vote = r.Vote
      /\ q.state = r.state /\ q.granted = r.granted /\ q.log = r.log
      /\ q.committed = r.committed /\ q.applied = r.applied
      /\ q.panic = r.panic /\ q.msgs = r.msgs
  BY <1>1 DEF NodeType
<1>3. Quiet(r, q, n)
  <2> HIDE DEF q
  <2> QED BY <1>2, QuietFields
<1> QED BY <1>3

\* So is the queue alone.
LEMMA ReadOnlyQuiet ==
  ASSUME NEW n \in Nat, NEW r, Sound(r, n), NEW queue \in Seq(ReadRequest)
  PROVE  Quiet(r, [r EXCEPT !.readOnly = queue], n)
<1>1. r \in NodeType /\ r.readStates \in SUBSET ReadState
  BY NodeFacts DEF Sound
<1>2. [r EXCEPT !.readOnly = queue]
        = [r EXCEPT !.readOnly = queue, !.readStates = r.readStates]
  BY <1>1 DEF NodeType
<1>3. Quiet(r, [r EXCEPT !.readOnly = queue, !.readStates = r.readStates], n)
  BY <1>1, ReadFieldsQuiet
<1> QED BY <1>2, <1>3

\* So are the answers alone.
LEMMA ReadStatesQuiet ==
  ASSUME NEW n \in Nat, NEW r, Sound(r, n), NEW states \in SUBSET ReadState
  PROVE  Quiet(r, [r EXCEPT !.readStates = states], n)
<1>1. r \in NodeType /\ r.readOnly \in Seq(ReadRequest)
  BY NodeFacts DEF Sound
<1>2. [r EXCEPT !.readStates = states]
        = [r EXCEPT !.readOnly = r.readOnly, !.readStates = states]
  BY <1>1 DEF NodeType
<1>3. Quiet(r, [r EXCEPT !.readOnly = r.readOnly, !.readStates = states], n)
  BY <1>1, ReadFieldsQuiet
<1> QED BY <1>2, <1>3

\* Both, with ordinary messages.
LEMMA ReadsQuiet ==
  ASSUME NEW n \in Nat, NEW r, Sound(r, n), NEW queue \in Seq(ReadRequest),
         NEW states \in SUBSET ReadState, NEW S, \A m \in S : Ordinary(r, m)
  PROVE  Quiet(r, [r EXCEPT !.readOnly = queue, !.readStates = states,
                            !.msgs = @ \cup S], n)
<1> DEFINE p == [r EXCEPT !.readOnly = queue, !.readStates = states]
           q == [r EXCEPT !.readOnly = queue, !.readStates = states,
                          !.msgs = @ \cup S]
<1>1. Quiet(r, p, n)
  BY ReadFieldsQuiet
<1>2. q = [p EXCEPT !.msgs = @ \cup S]
  BY DEF NodeType, Sound
<1>3. Quiet(r, q, n)
  <2> HIDE DEF p, q
  <2>1. Sound(p, n) /\ \A m \in S : Ordinary(p, m)
    BY <1>1 DEF Quiet, Ordinary
  <2>2. Quiet(p, q, n)
    BY <1>2, <2>1, SendsQuiet
  <2> QED BY <1>1, <2>2, QuietTrans
<1> QED BY <1>3

\* Recording an acknowledgement keeps the queue a queue (raft/read_only.go).
LEMMA RecvAckType ==
  ASSUME NEW q \in Seq(ReadRequest), NEW ctx, NEW from \in Server
  PROVE  RecvAck(q, ctx, from) \in Seq(ReadRequest)
<1>1. Len(q) \in Nat /\ DOMAIN q = 1..Len(q)
  BY LenProperties
<1>2. \A k \in 1..Len(q) :
        (IF q[k].ctx = ctx THEN [q[k] EXCEPT !.acks = @ \cup {from}] ELSE q[k])
          \in ReadRequest
  <2> TAKE k \in 1..Len(q)
  <2>1. q[k] \in ReadRequest
    BY ElementOfSeq
  <2> DEFINE acks == q[k].acks \cup {from}
  <2>2. acks \in SUBSET Server
    BY <2>1 DEF ReadRequest
  <2>3. [q[k] EXCEPT !.acks = acks] \in ReadRequest
    <3> HIDE DEF acks
    <3> QED BY <2>1, <2>2 DEF ReadRequest
  <2> QED BY <2>1, <2>3
<1>3. RecvAck(q, ctx, from) \in [1..Len(q) -> ReadRequest]
  BY <1>1, <1>2 DEF RecvAck
<1> HIDE DEF RecvAck
<1> QED BY <1>1, <1>3, SeqDef

\* A MsgReadIndexResp is ordinary.
LEMMA ReadRespOrdinary ==
  ASSUME NEW n, NEW r, Sound(r, n), NEW q \in ReadRequest, q.from \in Server
  PROVE  LET d == [Msg("MsgReadIndexResp", q.from) EXCEPT
                     !.index = q.index, !.ctx = q.ctx]
         IN /\ d \in Draft /\ d.type = "MsgReadIndexResp"
            /\ Ordinary(r, Stamped(r, d))
<1> DEFINE d == [Msg("MsgReadIndexResp", q.from) EXCEPT
                   !.index = q.index, !.ctx = q.ctx]
<1>1. /\ Msg("MsgReadIndexResp", q.from) \in Draft
      /\ Msg("MsgReadIndexResp", q.from).type = "MsgReadIndexResp"
  BY DraftFacts DEF MessageType
<1>2. q.index \in Nat /\ q.ctx \in Ctx
  BY DEF ReadRequest, Ctx
<1>3. d \in Draft /\ d.type = "MsgReadIndexResp"
  BY <1>1, <1>2 DEF Draft
<1>4. Ordinary(r, Stamped(r, d))
  <2> HIDE DEF d
  <2> QED BY <1>3, StampedOrdinary DEF LeaderTypes, Sound
<1> QED BY <1>3, <1>4

\* Answering one read is quiet.
LEMMA AnswerQuiet ==
  ASSUME NEW n \in Nat, NEW r, Sound(r, n), NEW q \in ReadRequest
  PROVE  Quiet(r, Answer(r, q), n)
<1> DEFINE d == [Msg("MsgReadIndexResp", q.from) EXCEPT
                   !.index = q.index, !.ctx = q.ctx]
           states == r.readStates \cup {[ctx |-> q.ctx, index |-> q.index]}
<1>1. CASE q.from \in {None, r.id}
  <2>1. states \in SUBSET ReadState
    BY NodeFacts DEF Sound, ReadRequest, ReadState
  <2>2. Answer(r, q) = [r EXCEPT !.readStates = states]
    BY <1>1 DEF Answer
  <2>3. Quiet(r, [r EXCEPT !.readStates = states], n)
    <3> HIDE DEF states
    <3> QED BY <2>1, ReadStatesQuiet
  <2> QED BY <2>2, <2>3
<1>2. CASE q.from \notin {None, r.id}
  <2>1. q.from \in Server
    BY <1>2 DEF ReadRequest
  <2>2. Answer(r, q) = Send(r, d)
    BY <1>2 DEF Answer
  <2>3. d \in Draft /\ d.type = "MsgReadIndexResp"
    BY <2>1, ReadRespOrdinary
  <2> HIDE DEF d
  <2> QED BY <2>2, <2>3, SendQuiet DEF LeaderTypes
<1> QED BY <1>1, <1>2

\* So is answering the first reads of the queue (readOnly.advance).
LEMMA AnswerReadsQuiet ==
  ASSUME NEW n \in Nat, NEW r, Sound(r, n), NEW p \in DOMAIN r.readOnly
  PROVE  Quiet(r, AnswerReads(r, p), n)
<1> DEFINE done == {r.readOnly[k] : k \in 1..p}
           locals == {q \in done : q.from \in {None, r.id}}
           queue == SubSeq(r.readOnly, p + 1, Len(r.readOnly))
           answers == {[ctx |-> q.ctx, index |-> q.index] : q \in locals}
           states == r.readStates \cup answers
           S == {Stamped(r, [Msg("MsgReadIndexResp", q.from) EXCEPT
                               !.index = q.index, !.ctx = q.ctx])
                 : q \in done \ locals}
<1>1. /\ r.readOnly \in Seq(ReadRequest) /\ Len(r.readOnly) \in Nat
      /\ DOMAIN r.readOnly = 1..Len(r.readOnly)
      /\ r.readStates \in SUBSET ReadState
  BY NodeFacts, LenProperties DEF Sound
<1>2. done \subseteq ReadRequest
  <2> SUFFICES ASSUME NEW k \in 1..p PROVE r.readOnly[k] \in ReadRequest
    OBVIOUS
  <2>1. k \in 1..Len(r.readOnly)
    BY <1>1
  <2> QED BY <1>1, <2>1, ElementOfSeq
<1>3. queue \in Seq(ReadRequest)
  <2>1. p + 1 \in Int /\ Len(r.readOnly) \in Int
    BY <1>1
  <2>2. \A k \in (p + 1)..Len(r.readOnly) : r.readOnly[k] \in ReadRequest
    <3> TAKE k \in (p + 1)..Len(r.readOnly)
    <3>1. k \in 1..Len(r.readOnly)
      BY <1>1
    <3> QED BY <1>1, <3>1, ElementOfSeq
  <2> QED BY <2>1, <2>2, SubSeqProperties
<1>4. states \in SUBSET ReadState
  <2> HIDE DEF done
  <2>1. answers \subseteq ReadState
    BY <1>2 DEF ReadState, ReadRequest
  <2> QED BY <1>1, <2>1
<1>5. \A m \in S : Ordinary(r, m)
  <2> HIDE DEF done
  <2> SUFFICES ASSUME NEW q \in done \ locals
               PROVE  Ordinary(r, Stamped(r,
                        [Msg("MsgReadIndexResp", q.from) EXCEPT
                           !.index = q.index, !.ctx = q.ctx]))
    OBVIOUS
  <2>1. q \in ReadRequest /\ q.from \in Server
    BY <1>2 DEF ReadRequest
  <2> QED BY <2>1, ReadRespOrdinary
<1>6. Quiet(r, [r EXCEPT !.readOnly = queue, !.readStates = states,
                         !.msgs = @ \cup S], n)
  <2> HIDE DEF queue, states, S
  <2> QED BY <1>3, <1>4, <1>5, ReadsQuiet
<1>7. AnswerReads(r, p) = [r EXCEPT !.readOnly = queue, !.readStates = states,
                                    !.msgs = @ \cup S]
  BY Zenon DEF AnswerReads
<1> QED BY <1>6, <1>7

\* MsgReadIndex is quiet.
LEMMA StepReadIndexQuiet ==
  ASSUME NEW n \in Nat, NEW r, Sound(r, n),
         NEW ctx \in Ctx, NEW from \in Server \cup {None}
  PROVE  Quiet(r, StepReadIndex(r, ctx, from), n)
<1> DEFINE q == [ctx |-> ctx, from |-> from, index |-> r.committed, acks |-> {}]
           pending == \E k \in DOMAIN r.readOnly : r.readOnly[k].ctx = ctx
           queue == IF pending THEN r.readOnly ELSE Append(r.readOnly, q)
           acked == RecvAck(queue, ctx, r.id)
           p == [r EXCEPT !.readOnly = acked]
           fwd == [Msg("MsgReadIndex", r.lead) EXCEPT !.ctx = ctx]
<1>1. /\ r.id \in Server /\ r.committed \in Nat /\ r.readOnly \in Seq(ReadRequest)
      /\ r.readStates \in SUBSET ReadState /\ r.lead \in Server \cup {None}
  BY NodeFacts DEF Sound
<1>2. q \in ReadRequest
  BY <1>1 DEF ReadRequest, Ctx
<1>3. acked \in Seq(ReadRequest)
  <2>1. queue \in Seq(ReadRequest)
    <3> HIDE DEF q
    <3> QED BY <1>1, <1>2, AppendProperties
  <2> HIDE DEF queue
  <2> QED BY <1>1, <2>1, RecvAckType
<1>4. CASE r.state = "Leader"
  <2>1. StepReadIndex(r, ctx, from) \in {r, Answer(r, q), BcastHeartbeat(p, ctx)}
    BY <1>4 DEF StepReadIndex, StepReadIndexLeader
  <2>2. Quiet(r, Answer(r, q), n)
    BY <1>2, AnswerQuiet
  <2>3. Quiet(r, p, n)
    <3> HIDE DEF acked
    <3> QED BY <1>3, ReadOnlyQuiet
  <2> HIDE DEF p, q
  <2>4. Quiet(r, BcastHeartbeat(p, ctx), n)
    <3>1. Sound(p, n) /\ p.state = "Leader"
      BY <1>4, <2>3, QuietChain
    <3> QED BY <2>3, <3>1, BcastHeartbeatQuiet, QuietTrans
  <2> QED BY <2>1, <2>2, <2>4, QuietRefl
<1>5. CASE r.state # "Leader" /\ ~(r.state = "Follower" /\ r.lead # None)
  BY <1>5, QuietRefl DEF StepReadIndex
<1>6. CASE r.state # "Leader" /\ r.state = "Follower" /\ r.lead # None
  <2>1. StepReadIndex(r, ctx, from) = Send(r, fwd)
    BY <1>6 DEF StepReadIndex
  <2>2. fwd \in Draft /\ fwd.type = "MsgReadIndex"
    <3>1. /\ Msg("MsgReadIndex", r.lead) \in Draft
          /\ Msg("MsgReadIndex", r.lead).type = "MsgReadIndex"
      BY <1>1, <1>6, DraftFacts DEF MessageType
    <3> QED BY <3>1 DEF Draft
  <2> HIDE DEF fwd
  <2> QED BY <2>1, <2>2, SendQuiet DEF LeaderTypes
<1> QED BY <1>4, <1>5, <1>6

\* MsgReadIndexResp is quiet.
LEMMA StepReadIndexRespQuiet ==
  ASSUME NEW n \in Nat, NEW r, Sound(r, n), NEW m \in Message
  PROVE  Quiet(r, StepReadIndexResp(r, m), n)
<1> DEFINE states == r.readStates \cup {[ctx |-> m.ctx, index |-> m.index]}
<1>1. states \in SUBSET ReadState
  BY NodeFacts, MessageFacts DEF Sound, ReadState, Ctx
<1>2. Quiet(r, [r EXCEPT !.readStates = states], n)
  <2> HIDE DEF states
  <2> QED BY <1>1, ReadStatesQuiet
<1>3. StepReadIndexResp(r, m) \in {r, [r EXCEPT !.readStates = states]}
  BY DEF StepReadIndexResp
<1> HIDE DEF states
<1> QED BY <1>2, <1>3, QuietRefl

\* A heartbeat response keeps the Progress.
LEMMA HeartbeatProgressType ==
  ASSUME NEW n, NEW r, Sound(r, n), NEW s \in Server
  PROVE  HeartbeatProgress(r, s) \in ProgressType
<1> DEFINE pr == [Active(r, s) EXCEPT !.ProbeSent = FALSE]
<1>1. Active(r, s) \in ProgressType
  BY ActiveType
<1>2. pr \in ProgressType
  BY <1>1 DEF ProgressType
<1>3. HeartbeatProgress(r, s) \in {pr, FreeFirstOne(pr)}
  BY DEF HeartbeatProgress
<1> HIDE DEF pr
<1>4. 0 \in Nat
  OBVIOUS
<1> QED BY <1>2, <1>3, <1>4, WindowType

\* MsgHeartbeatResp is quiet, with the reads it answers.
LEMMA StepHeartbeatRespQuiet ==
  ASSUME NEW n \in Nat, NEW r, Sound(r, n), NEW m \in Message
  PROVE  Quiet(r, StepHeartbeatResp(r, m), n)
<1> DEFINE r1 == SetProgress(r, m.from, HeartbeatProgress(r, m.from))
           r2 == IF r1.prs[m.from].Match < LastIndex(r.log)
                 THEN SendAppend(r1, m.from) ELSE r1
           acked == RecvAck(r2.readOnly, m.ctx, m.from)
           r3 == [r2 EXCEPT !.readOnly = acked]
           confirmed == {k \in DOMAIN r3.readOnly :
                           /\ r3.readOnly[k].ctx = m.ctx
                           /\ JointVoteResult(Voters, Outgoing,
                                r3.readOnly[k].acks, {}) = "VoteWon"}
           k0 == CHOOSE k \in confirmed : TRUE
<1>1. m.from \in Server
  BY MessageFacts
<1>2. CASE r.state # "Leader"
  BY <1>2, QuietRefl DEF StepHeartbeatResp
<1>3. CASE r.state = "Leader"
  <2>1. Quiet(r, r1, n)
    BY <1>1, HeartbeatProgressType, SetProgressQuiet
  <2>2. Quiet(r, r2, n)
    <3> HIDE DEF r1
    <3>1. Sound(r1, n) /\ r1.state = "Leader"
      BY <1>3, <2>1, QuietChain
    <3>2. Quiet(r1, SendAppend(r1, m.from), n)
      BY <1>1, <3>1, SendAppendQuiet
    <3>3. Quiet(r, SendAppend(r1, m.from), n)
      BY <2>1, <3>2, QuietTrans
    <3> QED BY <2>1, <3>3
  <2>3. Quiet(r, r3, n) /\ Sound(r3, n)
    <3> HIDE DEF r2
    <3>1. Sound(r2, n)
      BY <2>2 DEF Quiet
    <3>2. acked \in Seq(ReadRequest)
      BY <1>1, <3>1, NodeFacts, RecvAckType DEF Sound
    <3>3. Quiet(r2, r3, n)
      <4> HIDE DEF acked
      <4> QED BY <3>1, <3>2, ReadOnlyQuiet
    <3> HIDE DEF r3
    <3>4. Quiet(r, r3, n)
      BY <2>2, <3>3, QuietTrans
    <3> QED BY <3>4 DEF Quiet
  <2>4. ASSUME confirmed # {}
        PROVE  Quiet(r, AnswerReads(r3, k0), n)
    <3> HIDE DEF r3
    <3>1. k0 \in DOMAIN r3.readOnly
      BY <2>4
    <3> HIDE DEF k0
    <3>2. Quiet(r3, AnswerReads(r3, k0), n)
      BY <2>3, <3>1, AnswerReadsQuiet
    <3> QED BY <2>3, <3>2, QuietTrans
  <2>5. \/ StepHeartbeatResp(r, m) \in {r2, r3}
        \/ confirmed # {} /\ StepHeartbeatResp(r, m) = AnswerReads(r3, k0)
    BY <1>3, Zenon DEF StepHeartbeatResp
  <2> HIDE DEF r2, r3, confirmed, k0
  <2> QED BY <2>2, <2>3, <2>4, <2>5
<1> QED BY <1>2, <1>3

-----------------------------------------------------------------------------
(* Leader: reports, transfers, proposals, ticks.                           *)

\* MsgSnapStatus is quiet.
LEMMA StepSnapStatusQuiet ==
  ASSUME NEW n \in Nat, NEW r, Sound(r, n), NEW s \in Server, NEW failed \in BOOLEAN
  PROVE  Quiet(r, StepSnapStatus(r, s, failed), n)
<1> DEFINE pr == IF failed THEN [r.prs[s] EXCEPT !.PendingSnapshot = 0]
                 ELSE r.prs[s]
           next == [BecomeProbe(pr) EXCEPT !.ProbeSent = TRUE]
<1>1. pr \in ProgressType
  <2>1. r.prs[s] \in ProgressType
    BY NodeFacts DEF Sound
  <2>2. [r.prs[s] EXCEPT !.PendingSnapshot = 0] \in ProgressType
    BY <2>1 DEF ProgressType
  <2> QED BY <2>1, <2>2
<1>2. next \in ProgressType
  <2> HIDE DEF pr
  <2>1. BecomeProbe(pr) \in ProgressType
    <3>1. 0 \in Nat
      OBVIOUS
    <3> QED BY <1>1, <3>1, BecomeType
  <2> QED BY <2>1 DEF ProgressType
<1>3. StepSnapStatus(r, s, failed) \in {r, SetProgress(r, s, next)}
  BY DEF StepSnapStatus
<1> HIDE DEF next
<1> QED BY <1>2, <1>3, SetProgressQuiet, QuietRefl

\* MsgUnreachable is quiet.
LEMMA StepUnreachableQuiet ==
  ASSUME NEW n \in Nat, NEW r, Sound(r, n), NEW s \in Server
  PROVE  Quiet(r, StepUnreachable(r, s), n)
<1>1. r.prs[s] \in ProgressType /\ 0 \in Nat
  BY NodeFacts DEF Sound
<1>2. BecomeProbe(r.prs[s]) \in ProgressType
  BY <1>1, BecomeType
<1>3. StepUnreachable(r, s) \in {r, SetProgress(r, s, BecomeProbe(r.prs[s]))}
  BY DEF StepUnreachable
<1> QED BY <1>2, <1>3, SetProgressQuiet, QuietRefl

\* The fields of a transfer and of the election timer.
LEMMA TimerQuiet ==
  ASSUME NEW n \in Nat, NEW r, Sound(r, n),
         NEW b \in BOOLEAN, NEW to \in Server \cup {None}
  PROVE  /\ Quiet(r, [r EXCEPT !.elapsed = b, !.leadTransferee = to], n)
         /\ Quiet(r, [r EXCEPT !.leadTransferee = to], n)
         /\ Quiet(r, [r EXCEPT !.elapsed = b], n)
<1>1. r \in NodeType /\ r.elapsed \in BOOLEAN /\ r.leadTransferee \in Server \cup {None}
  BY NodeFacts DEF Sound
<1>2. ASSUME NEW c \in BOOLEAN, NEW s \in Server \cup {None}
      PROVE  Quiet(r, [r EXCEPT !.elapsed = c, !.leadTransferee = s], n)
  <2> DEFINE q == [r EXCEPT !.elapsed = c, !.leadTransferee = s]
  <2>1. /\ q \in NodeType
        /\ q.id = r.id /\ q.Term = r.Term /\ q.Vote = r.Vote
        /\ q.state = r.state /\ q.granted = r.granted /\ q.log = r.log
        /\ q.committed = r.committed /\ q.applied = r.applied
        /\ q.panic = r.panic /\ q.msgs = r.msgs
    BY <1>1, <1>2 DEF NodeType
  <2>2. Quiet(r, q, n)
    <3> HIDE DEF q
    <3> QED BY <2>1, QuietFields
  <2> QED BY <2>2
<1>3. /\ [r EXCEPT !.leadTransferee = to]
            = [r EXCEPT !.elapsed = r.elapsed, !.leadTransferee = to]
      /\ [r EXCEPT !.elapsed = b]
            = [r EXCEPT !.elapsed = b, !.leadTransferee = r.leadTransferee]
  BY <1>1 DEF NodeType
<1>4. Quiet(r, [r EXCEPT !.elapsed = r.elapsed, !.leadTransferee = to], n)
  BY <1>1, <1>2
<1>5. Quiet(r, [r EXCEPT !.elapsed = b, !.leadTransferee = r.leadTransferee], n)
  BY <1>1, <1>2
<1> QED BY <1>2, <1>3, <1>4, <1>5

\* MsgTransferLeader is quiet.
LEMMA StepTransferLeaderQuiet ==
  ASSUME NEW n \in Nat, NEW r, Sound(r, n), NEW to \in Server, NEW term \in Nat
  PROVE  Quiet(r, StepTransferLeader(r, to, term), n)
<1>1. r.lead \in Server \cup {None}
  BY NodeFacts DEF Sound
<1>2. CASE r.state = "Leader"
  <2> DEFINE p == [r EXCEPT !.elapsed = FALSE, !.leadTransferee = to]
             o == [r EXCEPT !.leadTransferee = None]
  <2>1. StepTransferLeader(r, to, term) \in
          {r, o, Send(p, Msg("MsgTimeoutNow", to)), SendAppend(p, to)}
    BY <1>2 DEF StepTransferLeader, TransferLeader
  <2>2. Quiet(r, p, n) /\ Quiet(r, o, n)
    BY TimerQuiet
  <2> HIDE DEF p, o
  <2>3. Sound(p, n) /\ p.state = "Leader"
    BY <1>2, <2>2, QuietChain
  <2>4. /\ Quiet(p, Send(p, Msg("MsgTimeoutNow", to)), n)
        /\ Quiet(p, SendAppend(p, to), n)
    BY <2>3, SendTimeoutNowQuiet, SendAppendQuiet
  <2>5. /\ Quiet(r, Send(p, Msg("MsgTimeoutNow", to)), n)
        /\ Quiet(r, SendAppend(p, to), n)
    BY <2>2, <2>4, QuietTrans
  <2> QED BY <2>1, <2>2, <2>5, QuietRefl
<1>3. CASE r.state # "Leader" /\ (r.state # "Follower" \/ r.lead = None)
  BY <1>3, QuietRefl DEF StepTransferLeader
<1>4. CASE r.state # "Leader" /\ ~(r.state # "Follower" \/ r.lead = None)
  <2>1. StepTransferLeader(r, to, term) \in
          {Panic(r, "sendTerm"), Send(r, Msg("MsgTransferLeader", r.lead))}
    BY <1>4 DEF StepTransferLeader
  <2>2. "sendTerm" \in PanicKind \ {"none"}
    BY DEF PanicKind
  <2>3. Quiet(r, Panic(r, "sendTerm"), n)
    BY <2>2, PanicQuiet
  <2>4. /\ Msg("MsgTransferLeader", r.lead) \in Draft
        /\ Msg("MsgTransferLeader", r.lead).type = "MsgTransferLeader"
    BY <1>1, <1>4, DraftFacts DEF MessageType
  <2>5. Quiet(r, Send(r, Msg("MsgTransferLeader", r.lead)), n)
    BY <2>4, SendQuiet DEF LeaderTypes
  <2> QED BY <2>1, <2>3, <2>5
<1> QED BY <1>2, <1>3, <1>4

\* A proposal is quiet, dropped, forwarded or appended.
LEMMA StepPropQuiet ==
  ASSUME NEW n \in Nat, NEW r, Sound(r, n), NEW data \in Value \cup {NoData}
  PROVE  Quiet(r, StepProp(r, data), n)
<1> DEFINE e == <<[term |-> 0, data |-> data]>>
           fwd == [Msg("MsgProp", r.lead) EXCEPT !.ents = e]
           p == AppendEntry(r, data)
<1>1. r.lead \in Server \cup {None}
  BY NodeFacts DEF Sound
<1>2. CASE r.state = "Leader" /\ r.leadTransferee = None
  <2>1. StepProp(r, data) = BcastAppend(p)
    BY <1>2 DEF StepProp
  <2>2. Quiet(r, p, n)
    BY <1>2, AppendEntryQuiet DEF Sound
  <2> HIDE DEF p
  <2>3. Sound(p, n) /\ p.state = "Leader"
    BY <1>2, <2>2, QuietChain
  <2>4. Quiet(p, BcastAppend(p), n)
    BY <2>3, BcastAppendQuiet
  <2> QED BY <2>1, <2>2, <2>4, QuietTrans
<1>3. CASE /\ ~(r.state = "Leader" /\ r.leadTransferee = None)
           /\ ~(r.state = "Follower" /\ r.lead # None)
  BY <1>3, QuietRefl DEF StepProp
<1>4. CASE r.state = "Follower" /\ r.lead # None
  <2>1. StepProp(r, data) = Send(r, fwd)
    BY <1>4 DEF StepProp
  <2>2. e \in Seq(Entry) /\ Len(e) = 1
    BY DEF Entry
  <2>3. fwd \in Draft /\ fwd.type = "MsgProp"
    <3> HIDE DEF e
    <3> QED BY <1>1, <1>4, <2>2 DEF Msg, Draft, MessageType, Ctx
  <2> HIDE DEF fwd
  <2> QED BY <2>1, <2>3, SendQuiet DEF LeaderTypes
<1> QED BY <1>2, <1>3, <1>4

\* A leader that lost its quorum steps down in its own term.
LEMMA TickElectionTimeoutCalm ==
  ASSUME NEW n \in Nat, NEW r, Sound(r, n)
  PROVE  Calm(r, TickElectionTimeout(r), n)
<1> DEFINE prs0 == [r.prs EXCEPT ![r.id].RecentActive = TRUE]
           self == [r EXCEPT !.prs = prs0]
           down == BecomeFollower(self, self.Term, None)
           prs1 == [s \in Server |->
                      [self.prs[s] EXCEPT !.RecentActive = (s = r.id)]]
           stay == [self EXCEPT !.prs = prs1]
<1>1. r \in NodeType /\ r.id \in Server /\ r.prs \in [Server -> ProgressType]
  BY NodeFacts DEF Sound
<1>2. prs0 \in [Server -> ProgressType]
  <2>1. [r.prs[r.id] EXCEPT !.RecentActive = TRUE] \in ProgressType
    BY <1>1 DEF ProgressType
  <2> QED BY <1>1, <2>1
<1>3. Quiet(r, self, n) /\ Sound(self, n)
  <2> HIDE DEF prs0
  <2>1. Quiet(r, self, n)
    BY <1>2, PrsQuiet
  <2> HIDE DEF self
  <2> QED BY <2>1 DEF Quiet
<1>4. prs1 \in [Server -> ProgressType]
  <2> HIDE DEF self
  <2>1. ASSUME NEW s \in Server
        PROVE  [self.prs[s] EXCEPT !.RecentActive = (s = r.id)] \in ProgressType
    <3>1. self.prs[s] \in ProgressType
      BY <1>3, NodeFacts DEF Sound
    <3> DEFINE b == (s = r.id)
    <3>2. b \in BOOLEAN
      OBVIOUS
    <3> HIDE DEF b
    <3>3. [self.prs[s] EXCEPT !.RecentActive = b] \in ProgressType
      BY <3>1, <3>2 DEF ProgressType
    <3> QED BY <3>3 DEF b
  <2> QED BY <2>1
<1>5. Calm(r, stay, n)
  <2> HIDE DEF self, prs1
  <2>1. Quiet(self, stay, n)
    BY <1>3, <1>4, PrsQuiet
  <2> HIDE DEF stay
  <2>2. Quiet(r, stay, n)
    BY <1>3, <2>1, QuietTrans
  <2> QED BY <2>2, QuietIsCalm
<1>6. Calm(r, down, n)
  <2>1. self.msgs = r.msgs
    BY <1>1 DEF NodeType
  <2> HIDE DEF self
  <2>2. self.Term \in Nat /\ self.Term >= self.Term
    BY <1>3, NodeFacts DEF Sound
  <2>3. Calm(self, down, n)
    BY <1>3, <2>2, BecomeFollowerCalm
  <2>4. Calm(r, self, n)
    BY <1>3, QuietIsCalm
  <2> HIDE DEF down
  <2> QED BY <2>1, <2>3, <2>4, CalmFirst
<1>7. StepCheckQuorum(r) \in {down, stay}
  <2>1. self = [r EXCEPT !.prs[r.id].RecentActive = TRUE]
    OBVIOUS
  <2> HIDE DEF self
  <2> QED BY <2>1 DEF StepCheckQuorum
<1>8. ASSUME NEW q, Calm(r, q, n)
      PROVE  Calm(r, [q EXCEPT !.leadTransferee = None], n)
  <2>1. Sound(q, n)
    BY <1>8 DEF Calm
  <2>2. Quiet(q, [q EXCEPT !.leadTransferee = None], n)
    BY <2>1, TimerQuiet
  <2> QED BY <1>8, <2>2, CalmTrans
<1>9. \E q \in {r, down, stay} :
        TickElectionTimeout(r) = [q EXCEPT !.leadTransferee = None]
  <2> HIDE DEF down, stay
  <2> QED BY <1>7 DEF TickElectionTimeout
<1>10. Calm(r, r, n)
  BY QuietRefl, QuietIsCalm
<1> HIDE DEF down, stay
<1> QED BY <1>5, <1>6, <1>8, <1>9, <1>10

\* The tick of a leader's heartbeat is quiet.
LEMMA TickBeatQuiet ==
  ASSUME NEW n \in Nat, NEW r, Sound(r, n), r.state = "Leader"
  PROVE  Quiet(r, TickBeat(r), n)
<1>1. r.readOnly \in Seq(ReadRequest)
  BY NodeFacts DEF Sound
<1>2. LastPendingCtx(r.readOnly) \in Ctx
  <2>1. CASE r.readOnly = <<>>
    BY <2>1 DEF LastPendingCtx, Ctx
  <2>2. CASE r.readOnly # <<>>
    <3>1. Len(r.readOnly) \in 1..Len(r.readOnly)
      BY <1>1, <2>2, EmptySeq
    <3>2. r.readOnly[Len(r.readOnly)] \in ReadRequest
      BY <1>1, <3>1, ElementOfSeq
    <3> QED BY <2>2, <3>2 DEF LastPendingCtx, ReadRequest, Ctx
  <2> QED BY <2>1, <2>2
<1> QED BY <1>2, BcastHeartbeatQuiet DEF TickBeat
=============================================================================
