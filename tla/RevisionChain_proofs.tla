------------------------ MODULE RevisionChain_proofs ------------------------
(***************************************************************************)
(* What commitSave answers and broadcasts is true of the chain: catch-ups  *)
(* can be applied, no broadcast is swallowed, and every step of every      *)
(* replica is a step of the one serial chain, or invisible to it.          *)
(***************************************************************************)
EXTENDS RevisionCommit_proofs, SequenceTheorems

-----------------------------------------------------------------------------
(* A step is one request's, or moves none.                                 *)
Untouched(p) ==
    /\ pc'[p] = pc[p] /\ rev'[p] = rev[p] /\ seqNo'[p] = seqNo[p]
    /\ answer'[p] = answer[p] /\ tail'[p] = tail[p]

Moves(p) ==
    Progress(p) \/ DriverRetryViolation(p) \/ Fail(p) \/ \E r \in signed : Submit(p, r)

(* When one request moves, every other one rests. *)
LEMMA OthersRest ==
    ASSUME TypeOK, NEW q \in Requests, Moves(q), NEW p \in Requests, p # q
    PROVE  Untouched(p)
BY DEF Untouched, Moves, TypeOK, Progress, Goto, Reply, Submit,
       PrecheckDuplicate, PrecheckFresh, RefuseSize, RefuseUnauthorized,
       PassPolicy, GateSnapshot, InsertRow, InsertViolation, CommitTransaction,
       DriverRetryViolation, GatedInsertSqlite, ClassifyDuplicate, ClassifyStale,
       RecoverInserted, RecoverStale, AnnounceAndAck, AnchorAtBase,
       AnchorUnknown, AnchorAtKeyframe, ReadChain, Fail

(* A step moves one request, or none. *)
LEMMA OneMoves ==
    ASSUME TypeOK, [Next]_vars, NEW p \in Requests
    PROVE  Untouched(p) \/ Moves(p)
<1>1. CASE UNCHANGED vars \/ \E i \in Ids, b \in Bases, k \in BOOLEAN : Sign(i, b, k)
  BY <1>1 DEF vars, Sign, Untouched
<1>2. CASE \E q \in Requests : Moves(q)  BY <1>2, OthersRest
<1> QED BY <1>1, <1>2 DEF Next, Step, Moves

-----------------------------------------------------------------------------
(* The catch-up of a refused save.                                         *)

(* Where chainFrom starts to read: right after the base, or, for a base    *)
(* the chain does not hold, at a keyframe or the root.                     *)
EntryPoint(q) ==
    \/ \E b \in rows : b.rev.id = rev[q].base /\ seqNo[q] = b.seq + 1
    \/ /\ ~RevisionExists(rev[q].base)
       /\ seqNo[q] = 0 \/ \E f \in Keyframes(rows) : f.seq = seqNo[q]

Anchored ==
    \A q \in Requests :
        /\ pc[q] = "keyframe" => ~RevisionExists(rev[q].base)
        /\ pc[q] = "chain" => EntryPoint(q)

(* The rows a catch-up from row f to row h names.                          *)
Run(f, h) == {r.rev.id : r \in {s \in rows : s.seq \in f .. h}}

(* CatchUpSound, of one request.                                           *)
SoundTail(q) ==
    /\ rev[q].base = NoBase => tail[q] # {}
    /\ \A b \in rows : b.rev.id = rev[q].base =>
           \E h \in rows : h.seq > b.seq /\ tail[q] = Run(b.seq + 1, h.seq)
    /\ ~RevisionExists(rev[q].base) /\ tail[q] # {} =>
           \E f, h \in rows : (f.seq = 1 \/ f.rev.keyframe) /\ tail[q] = Run(f.seq, h.seq)

CatchUpInv ==
    /\ Anchored
    /\ \A q \in Requests : answer[q] = "stale-base" => SoundTail(q)

(* A base the chain does not hold it will never hold.                      *)
LEMMA UnknownBaseStays ==
    ASSUME IInv, [Next]_vars, NEW q \in Requests, pc[q] # "idle", ~RevisionExists(rev[q].base)
    PROVE  \A r \in rows' : r.rev.id # rev[q].base
<1>1. rev[q].base \in Foreign \union {NoBase}
  BY DEF IInv, CarriesRevision, SignedOnKnown, RevisionExists
<1>2. CASE rows' = rows  BY <1>2 DEF RevisionExists, IdsOf
<1>3. ASSUME NEW p \in Requests, Extended(p) PROVE \A r \in rows' : r.rev.id # rev[q].base
  <2>1. rev[p].id \in Ids  BY <1>3 DEF Extended, IInv, CarriesRevision, TypeOK, Revision
  <2>2. rev[p].id # rev[q].base  BY <1>1, <2>1, CommitAssumption
  <2> QED BY <1>3, <2>2 DEF Extended, RevisionExists, IdsOf
<1> QED BY <1>2, <1>3, RowsChange

(* A base the chain holds is held by the same row for good.                *)
LEMMA KnownBaseStays ==
    ASSUME IInv, [Next]_vars, NEW q \in Requests, pc[q] # "idle", RevisionExists(rev[q].base)
    PROVE  \A r \in rows' : r.rev.id = rev[q].base => r \in rows
<1>1. CASE rows' = rows  BY <1>1
<1>2. ASSUME NEW p \in Requests, Extended(p)
      PROVE  \A r \in rows' : r.rev.id = rev[q].base => r \in rows
  <2>1. rev[p].id # rev[q].base  BY <1>2 DEF Extended
  <2> QED BY <1>2, <2>1 DEF Extended
<1> QED BY <1>1, <1>2, RowsChange

(* A run that ends in the chain does not grow with it.                     *)
LEMMA RunStays ==
    ASSUME IInv, [Next]_vars, NEW h \in rows, NEW f \in Nat
    PROVE  Run(f, h.seq)' = Run(f, h.seq)
<1>1. CASE rows' = rows  BY <1>1 DEF Run
<1>2. ASSUME NEW p \in Requests, Extended(p) PROVE Run(f, h.seq)' = Run(f, h.seq)
  <2>1. MaxSeq(rows) \in Nat /\ h.seq \in 1 .. MaxSeq(rows)  BY HeadIsOnTop DEF SeqsOf
  <2>2. MaxSeq(rows) + 1 \notin f .. h.seq  BY <2>1
  <2>3. {s \in rows' : s.seq \in f .. h.seq} = {s \in rows : s.seq \in f .. h.seq}
    BY <1>2, <2>2 DEF Extended
  <2> QED BY <2>3 DEF Run
<1> QED BY <1>1, <1>2, RowsChange

(* A sound catch-up stays sound while its request rests: rows only come. *)
LEMMA SoundTailStays ==
    ASSUME IInv, [Next]_vars, NEW q \in Requests, Untouched(q), pc[q] # "idle", SoundTail(q)
    PROVE  SoundTail(q)'
<1>0. rev'[q] = rev[q] /\ tail'[q] = tail[q]  BY DEF Untouched
<1>1. rows \subseteq rows' /\ rows \subseteq Row  BY RowsGrow DEF IInv, TypeOK
<1>2. \A b, h \in rows : b.seq \in Nat /\ Run(b.seq, h.seq)' = Run(b.seq, h.seq)
                         /\ Run(b.seq + 1, h.seq)' = Run(b.seq + 1, h.seq)
  <2> TAKE b, h \in rows
  <2>1. b.seq \in Nat /\ b.seq + 1 \in Nat  BY <1>1 DEF Row
  <2> QED BY <2>1, RunStays
<1>3. ASSUME NEW b \in rows', b.rev.id = rev[q].base
      PROVE  \E h \in rows' : h.seq > b.seq /\ tail[q] = Run(b.seq + 1, h.seq)'
  <2>1. b \in rows  BY <1>3, KnownBaseStays, UnknownBaseStays
  <2>2. PICK h \in rows : h.seq > b.seq /\ tail[q] = Run(b.seq + 1, h.seq)
    BY <1>3, <2>1 DEF SoundTail
  <2> QED BY <1>1, <1>2, <2>1, <2>2
<1>4. ASSUME ~RevisionExists(rev[q].base)', tail[q] # {}
      PROVE  \E f, h \in rows' : (f.seq = 1 \/ f.rev.keyframe) /\ tail[q] = Run(f.seq, h.seq)'
  <2>1. ~RevisionExists(rev[q].base)  BY <1>0, <1>1, <1>4 DEF RevisionExists, IdsOf
  <2>2. PICK f, h \in rows : (f.seq = 1 \/ f.rev.keyframe) /\ tail[q] = Run(f.seq, h.seq)
    BY <1>4, <2>1 DEF SoundTail
  <2> QED BY <1>1, <1>2, <2>2
<1>5. rev[q].base = NoBase => tail[q] # {}  BY DEF SoundTail
<1> QED BY <1>0, <1>3, <1>4, <1>5 DEF SoundTail, Run

(* The last keyframe is the one with the largest seq.                      *)
LEMMA LastKeyframe ==
    ASSUME IInv
    PROVE  \/ MaxSeq(Keyframes(rows)) = 0
           \/ \E f \in Keyframes(rows) : f.seq = MaxSeq(Keyframes(rows))
<1>1. PICK n \in Nat : SeqsOf(rows) = 1 .. n  BY DEF IInv, Contiguous
<1>2. CASE Keyframes(rows) = {}  BY <1>2 DEF MaxSeq
<1>3. CASE Keyframes(rows) # {}
  <2> DEFINE S == SeqsOf(Keyframes(rows))
  <2>1. S \subseteq 1 .. n /\ S # {}  BY <1>1, <1>3 DEF SeqsOf, Keyframes
  <2>2. \E s \in S : \A t \in S : t <= s  BY <1>1, <2>1, BoundedMax
  <2>3. (CHOOSE s \in S : \A t \in S : t <= s) \in S  BY <2>2
  <2>4. MaxSeq(Keyframes(rows)) \in S  BY <1>3, <2>3 DEF MaxSeq
  <2> QED BY <2>4 DEF SeqsOf
<1> QED BY <1>2, <1>3

(* Every step leaves the anchor of a catch-up on a row it can be read from. *)
LEMMA AnchoredStep == IInv /\ CatchUpInv /\ [Next]_vars => Anchored'
<1> SUFFICES ASSUME IInv, CatchUpInv, [Next]_vars, NEW q \in Requests
             PROVE  /\ pc'[q] = "keyframe" => ~RevisionExists(rev[q].base)'
                    /\ pc'[q] = "chain" => EntryPoint(q)'
    BY DEF Anchored
<1>0. TypeOK /\ Anchored /\ rows \subseteq rows'  BY RowsGrow DEF IInv, CatchUpInv
(* Where a request has started to read is where its catch-up still starts. *)
<1>1. CASE Untouched(q)
  <2>0. pc'[q] = pc[q] /\ rev'[q] = rev[q] /\ seqNo'[q] = seqNo[q]  BY <1>1 DEF Untouched
  <2>1. pc[q] # "idle" /\ ~RevisionExists(rev[q].base) => ~RevisionExists(rev[q].base)'
    BY <2>0, UnknownBaseStays DEF RevisionExists, IdsOf
  <2> QED BY <1>0, <2>0, <2>1 DEF Anchored, EntryPoint, Keyframes
<1>2. CASE AnchorAtBase(q)
  <2> DEFINE b == CHOOSE r \in rows : r.rev.id = rev[q].base
  <2>1. b \in rows /\ b.rev.id = rev[q].base  BY <1>2 DEF AnchorAtBase, RevisionExists, IdsOf
  <2>2. seqNo'[q] = b.seq + 1 /\ rev' = rev /\ rows' = rows /\ pc'[q] = "chain"
    BY <1>0, <1>2 DEF AnchorAtBase, Goto, TypeOK
  <2> HIDE DEF b
  <2> QED BY <2>1, <2>2 DEF EntryPoint
<1>3. CASE AnchorUnknown(q)
  BY <1>0, <1>3 DEF AnchorUnknown, Goto, TypeOK, RevisionExists
<1>4. CASE AnchorAtKeyframe(q)
  <2>0. ~RevisionExists(rev[q].base)  BY <1>0, <1>4 DEF AnchorAtKeyframe, Goto, Anchored
  <2>1. /\ seqNo'[q] = MaxSeq(Keyframes(rows)) /\ rev' = rev /\ rows' = rows
        /\ pc'[q] = "chain"
    BY <1>0, <1>4 DEF AnchorAtKeyframe, Goto, TypeOK
  <2>2. MaxSeq(Keyframes(rows)) = 0 \/ \E f \in Keyframes(rows) : f.seq = MaxSeq(Keyframes(rows))
    BY LastKeyframe
  <2> QED BY <2>0, <2>1, <2>2 DEF EntryPoint, RevisionExists
<1>5. CASE Moves(q) /\ ~(AnchorAtBase(q) \/ AnchorUnknown(q) \/ AnchorAtKeyframe(q))
  <2> pc'[q] \notin {"keyframe", "chain"}
    BY <1>0, <1>5
       DEF Moves, TypeOK, Progress, Goto, Reply, Submit,
           PrecheckDuplicate, PrecheckFresh, RefuseSize, RefuseUnauthorized,
           PassPolicy, GateSnapshot, InsertRow, InsertViolation, CommitTransaction,
           DriverRetryViolation, GatedInsertSqlite, ClassifyDuplicate, ClassifyStale,
           RecoverInserted, RecoverStale, AnnounceAndAck, ReadChain, Fail
  <2> QED OBVIOUS
<1> QED BY <1>0, <1>1, <1>2, <1>3, <1>4, <1>5, OneMoves

(* The rows read name what follows the entry point, and reach the head.    *)
LEMMA ChainReadIsSound ==
    ASSUME IInv, CatchUpInv, NEW q \in Requests, ReadChain(q)
    PROVE  SoundTail(q)'
<1> DEFINE m == MaxSeq(rows)
<1>0. TypeOK /\ rows \subseteq Row /\ pc[q] = "chain"  BY DEF IInv, TypeOK, ReadChain, Reply, Goto
<1>1. /\ rows' = rows /\ rev' = rev
      /\ tail'[q] = {r.rev.id : r \in {s \in rows : s.seq >= seqNo[q]}}
  BY <1>0 DEF ReadChain, TypeOK, ChainFromSeq, IdsOf
<1>2. Passed(rev[q].base) /\ EntryPoint(q)
  BY <1>0 DEF IInv, FailedGate, CatchUpInv, Anchored
<1>3. m \in Nat /\ SeqsOf(rows) = 1 .. m  BY HeadIsOnTop
<1>4. \A r \in rows : r.seq \in 1 .. m  BY <1>3 DEF SeqsOf
<1> HIDE DEF m
<1>5. seqNo[q] \in Nat  BY <1>0 DEF TypeOK
<1>6. tail'[q] = {r.rev.id : r \in {s \in rows : s.seq \in seqNo[q] .. m}}
  <2>1. \A s \in rows : s.seq >= seqNo[q] <=> s.seq \in seqNo[q] .. m  BY <1>3, <1>4, <1>5
  <2> QED BY <1>1, <2>1
<1>7. rows # {} => \E h \in rows : h.seq = m
  <2> SUFFICES ASSUME rows # {} PROVE m \in SeqsOf(rows)  BY DEF SeqsOf
  <2> QED BY <1>3, <1>4
<1>8. \A r \in rows : r.rev.id \in Ids  BY <1>0 DEF Row, Revision
<1>9. ASSUME NEW b \in rows, b.rev.id = rev[q].base
      PROVE  \E h \in rows : h.seq > b.seq /\ tail'[q] = Run(b.seq + 1, h.seq)
  <2>1. seqNo[q] = b.seq + 1
    <3>1. RevisionExists(rev[q].base)  BY <1>9 DEF RevisionExists, IdsOf
    <3>2. PICK c \in rows : c.rev.id = rev[q].base /\ seqNo[q] = c.seq + 1
      BY <1>2, <3>1 DEF EntryPoint
    <3> QED BY <1>9, <3>2 DEF IInv, UniqueKeys
  <2>2. PICK p, s \in rows : p.rev.id = rev[q].base /\ s.seq = p.seq + 1
    BY <1>2, <1>8, <1>9, CommitAssumption DEF Passed
  <2>3. p = b  BY <1>9, <2>2 DEF IInv, UniqueKeys
  <2>4. PICK h \in rows : h.seq = m  BY <1>7, <1>9
  <2>5. h.seq > b.seq  BY <1>4, <1>3, <2>2, <2>3, <2>4
  <2> QED BY <1>6, <2>1, <2>4, <2>5 DEF Run
<1>10. CASE ~RevisionExists(rev[q].base)
  <2>1. seqNo[q] = 0 \/ \E f \in Keyframes(rows) : f.seq = seqNo[q]
    BY <1>2, <1>10 DEF EntryPoint, RevisionExists, IdsOf
  <2>2. ASSUME tail'[q] # {}
        PROVE  \E f, h \in rows : (f.seq = 1 \/ f.rev.keyframe) /\ tail'[q] = Run(f.seq, h.seq)
    <3>1. rows # {}  BY <1>1, <2>2
    <3>2. PICK h \in rows : h.seq = m  BY <1>7, <3>1
    <3>3. CASE seqNo[q] = 0
      <4>1. 1 \in SeqsOf(rows)  BY <1>3, <1>4, <3>2
      <4>2. PICK f \in rows : f.seq = 1  BY <4>1 DEF SeqsOf
      <4>3. \A s \in rows : s.seq \in 0 .. m <=> s.seq \in 1 .. m  BY <1>4
      <4>4. tail'[q] = Run(f.seq, h.seq)  BY <1>6, <3>2, <3>3, <4>2, <4>3 DEF Run
      <4> QED BY <4>2, <4>4
    <3>4. ASSUME NEW f \in Keyframes(rows), f.seq = seqNo[q]
          PROVE  \E g, k \in rows : (g.seq = 1 \/ g.rev.keyframe) /\ tail'[q] = Run(g.seq, k.seq)
      <4>1. f \in rows /\ f.rev.keyframe  BY DEF Keyframes
      <4>2. tail'[q] = Run(f.seq, h.seq)  BY <1>6, <3>2, <3>4 DEF Run
      <4> QED BY <4>1, <4>2
    <3> QED BY <2>1, <3>3, <3>4
  <2>3. rev[q].base = NoBase => tail'[q] # {}
    <3> SUFFICES ASSUME rev[q].base = NoBase PROVE tail'[q] # {}  OBVIOUS
    <3>1. rows # {}  BY <1>2, CommitAssumption DEF Passed
    <3>2. PICK h \in rows : h.seq = m  BY <1>7, <3>1
    <3>3. h.seq >= seqNo[q]
      BY <1>3, <1>4, <2>1, <3>2 DEF Keyframes
    <3> QED BY <1>1, <3>3
  <2> QED BY <1>1, <1>9, <2>2, <2>3, ZenonT(40) DEF SoundTail, Run
<1>11. CASE RevisionExists(rev[q].base)
  <2>1. rev[q].base # NoBase  BY <1>8, <1>11, CommitAssumption DEF RevisionExists, IdsOf
  <2>2. RevisionExists(rev[q].base)'  BY <1>1, <1>11 DEF RevisionExists
  <2> QED BY <1>1, <1>9, <2>1, <2>2 DEF SoundTail, Run
<1> QED BY <1>10, <1>11

(* Every step keeps the invariant of the catch-ups. *)
LEMMA CatchUpStep == IInv /\ CatchUpInv /\ [Next]_vars => CatchUpInv'
<1> SUFFICES ASSUME IInv, CatchUpInv, [Next]_vars, NEW q \in Requests, answer'[q] = "stale-base"
             PROVE  SoundTail(q)'
    BY AnchoredStep DEF CatchUpInv
<1>0. TypeOK /\ (answer[q] # "none" => pc[q] = "done")  BY DEF IInv, CarriesRevision
<1>1. CASE Untouched(q)
  <2>1. answer[q] = "stale-base"  BY <1>1 DEF Untouched
  <2>2. pc[q] # "idle" /\ SoundTail(q)  BY <1>0, <2>1 DEF CatchUpInv
  <2> QED BY <1>1, <2>2, SoundTailStays
<1>2. CASE ReadChain(q)  BY <1>2, ChainReadIsSound
<1>3. CASE Moves(q) /\ ~ReadChain(q)
  <2> answer'[q] # "stale-base"
    BY <1>0, <1>3
       DEF Moves, TypeOK, Progress, Goto, Reply, Submit,
           PrecheckDuplicate, PrecheckFresh, RefuseSize, RefuseUnauthorized,
           PassPolicy, GateSnapshot, InsertRow, InsertViolation, CommitTransaction,
           DriverRetryViolation, GatedInsertSqlite, ClassifyDuplicate, ClassifyStale,
           RecoverInserted, RecoverStale, AnnounceAndAck, AnchorAtBase,
           AnchorUnknown, AnchorAtKeyframe, Fail
  <2> QED OBVIOUS
<1> QED BY <1>0, <1>1, <1>2, <1>3, OneMoves

(* No catch-up is under way at first. *)
LEMMA CatchUpInit == Init => CatchUpInv
BY DEF Init, CatchUpInv, Anchored

(* A request that has a committed revision to announce keeps it in hand    *)
(* until it has announced it or failed.                                    *)
InHand(q, r) == rev[q] = r.rev /\ (pc[q] \in {"inserted", "recover"} \/ answer[q] = "failed")

(* A row stays in its request's hands until its revision is announced. *)
LEMMA InHandUntilAnnounced ==
    ASSUME IInv, [Next]_vars, NEW q \in Requests, NEW r \in rows, InHand(q, r)
    PROVE  InHand(q, r)' \/ r.rev.id \in announced'
<1>0. TypeOK /\ (answer[q] # "none" => pc[q] = "done")  BY DEF IInv, CarriesRevision
<1>1. RevisionExists(rev[q].id)  BY DEF InHand, RevisionExists, IdsOf
<1>2. CASE Untouched(q)  BY <1>2 DEF Untouched, InHand
<1>3. CASE Moves(q)
  BY <1>0, <1>1, <1>3
     DEF InHand, Moves, TypeOK, Progress, Goto, Reply, Submit,
         PrecheckDuplicate, PrecheckFresh, RefuseSize, RefuseUnauthorized,
         PassPolicy, GateSnapshot, InsertRow, InsertViolation, CommitTransaction,
         DriverRetryViolation, GatedInsertSqlite, ClassifyDuplicate, ClassifyStale,
         RecoverInserted, RecoverStale, AnnounceAndAck, AnchorAtBase,
         AnchorUnknown, AnchorAtKeyframe, ReadChain, Fail
<1> QED BY <1>0, <1>2, <1>3, OneMoves

(* Whoever extends the chain has the new revision in hand.                 *)
LEMMA ExtenderHasItInHand ==
    ASSUME IInv, [Next]_vars, NEW r \in rows', r \notin rows
    PROVE  \E q \in Requests : InHand(q, r)'
<1>0. TypeOK  BY DEF IInv
<1>1. PICK q \in Requests : CommitTransaction(q) \/ DriverRetryViolation(q) \/ GatedInsertSqlite(q)
  BY DEF Next, Step, vars, Progress, Sign, Submit,
         PrecheckDuplicate, PrecheckFresh, RefuseSize, RefuseUnauthorized,
         PassPolicy, GateSnapshot, InsertRow, InsertViolation,
         ClassifyDuplicate, ClassifyStale, RecoverInserted, RecoverStale, AnnounceAndAck,
         AnchorAtBase, AnchorUnknown, AnchorAtKeyframe, ReadChain, Fail
<1>2. r.rev = rev'[q] /\ pc'[q] \in {"inserted", "recover"}
  BY <1>0, <1>1
     DEF CommitTransaction, DriverRetryViolation, GatedInsertSqlite, Goto, TypeOK
<1> QED BY <1>2 DEF InHand

(* Only revisions that are in the table are announced, one at a time. *)
LEMMA AnnouncedGrows ==
    ASSUME IInv, [Next]_vars
    PROVE  /\ announced \subseteq announced'
           /\ announced' = announced
              \/ \E q \in Requests : RevisionExists(rev[q].id)
                                     /\ announced' = announced \union {rev[q].id}
<1>1. ASSUME NEW q \in Requests, AnnounceAndAck(q) PROVE RevisionExists(rev[q].id)
  BY <1>1 DEF AnnounceAndAck, Reply, Goto, IInv, InsertedIsDurable
<1>2. announced' = announced \/ \E q \in Requests : AnnounceAndAck(q)
  BY DEF Next, Step, vars, Progress, Sign, Submit,
         PrecheckDuplicate, PrecheckFresh, RefuseSize, RefuseUnauthorized,
         PassPolicy, GateSnapshot, InsertRow, InsertViolation, CommitTransaction,
         DriverRetryViolation, GatedInsertSqlite, ClassifyDuplicate, ClassifyStale,
         RecoverInserted, RecoverStale, AnchorAtBase,
         AnchorUnknown, AnchorAtKeyframe, ReadChain, Fail
<1> QED BY <1>1, <1>2 DEF AnnounceAndAck

(* Every step leaves each row announced, in hand, or its request failed. *)
LEMMA BroadcastStep == IInv /\ NoSwallowedBroadcast /\ [Next]_vars => NoSwallowedBroadcast'
<1> SUFFICES ASSUME IInv, NoSwallowedBroadcast, [Next]_vars PROVE NoSwallowedBroadcast'
    OBVIOUS
<1>1. announced' \subseteq IdsOf(rows)'
  BY AnnouncedGrows, RowsGrow DEF NoSwallowedBroadcast, RevisionExists, IdsOf
<1>2. ASSUME NEW r \in rows', r.rev.id \notin announced'
      PROVE  \E q \in Requests : InHand(q, r)'
  <2>1. CASE r \in rows
    <3>1. PICK q \in Requests : InHand(q, r)
      BY <1>2, <2>1, AnnouncedGrows DEF NoSwallowedBroadcast, InHand
    <3> QED BY <1>2, <2>1, <3>1, InHandUntilAnnounced
  <2> QED BY <2>1, ExtenderHasItInHand
<1> QED BY <1>1, <1>2 DEF NoSwallowedBroadcast, InHand

-----------------------------------------------------------------------------
(* What a refused client is sent can be applied where it stands, or to     *)
(* nothing, and subscribers hear of every committed revision unless the    *)
(* request that has it in hand fails.                                      *)
THEOREM NobodyIsLeftBehind == Spec => []NobodyLeftBehind
<1> DEFINE Inv == CatchUpInv /\ NoSwallowedBroadcast
<1>1. Init => Inv  BY CatchUpInit DEF Init, NoSwallowedBroadcast
<1>2. IInv /\ Inv /\ [Next]_vars => Inv'  BY CatchUpStep, BroadcastStep
<1>3. CatchUpInv => CatchUpSound
  BY DEF CatchUpInv, SoundTail, Run, CatchUpSound, CatchUpAdvances, CatchUpStandsAlone
<1>4. Inv => NobodyLeftBehind  BY <1>3 DEF NobodyLeftBehind
<1> QED BY <1>1, <1>2, <1>4, Invariance, PTL DEF Spec

-----------------------------------------------------------------------------
(* The rows, read as one sequence.                                         *)
LogIsTheRows ==
    /\ MaxSeq(rows) \in Nat /\ SeqsOf(rows) = 1 .. MaxSeq(rows)
    /\ Log \in Seq(Revision) /\ Len(Log) = MaxSeq(rows)
    /\ \A r \in rows : r.seq \in 1 .. MaxSeq(rows) /\ Log[r.seq] = r.rev
    /\ \A n \in 1 .. MaxSeq(rows) : \E r \in rows : r.seq = n /\ Log[n] = r.rev

(* The refinement mapping reads the rows in order of their seq. *)
LEMMA LogReadsTheRows == IInv => LogIsTheRows
<1> SUFFICES ASSUME IInv PROVE LogIsTheRows  OBVIOUS
<1> DEFINE m == MaxSeq(rows)
           row(n) == CHOOSE r \in rows : r.seq = n
<1>0. rows \subseteq Row  BY DEF IInv, TypeOK
<1>1. m \in Nat /\ SeqsOf(rows) = 1 .. m  BY HeadIsOnTop
<1>2. Log = [n \in 1 .. m |-> row(n).rev]  BY DEF Log
<1> HIDE DEF m
<1>3. \A n \in 1 .. m : row(n) \in rows /\ row(n).seq = n  BY <1>1 DEF SeqsOf
<1>4. \A r \in rows : r.seq \in 1 .. m  BY <1>1 DEF SeqsOf
<1>5. \A r \in rows : row(r.seq) = r  BY <1>3, <1>4 DEF IInv, UniqueKeys
<1> HIDE DEF row
<1>6. \A n \in 1 .. m : row(n).rev \in Revision  BY <1>0, <1>3 DEF Row
<1>7. Log \in Seq(Revision) /\ Len(Log) = m  BY <1>1, <1>2, <1>6
<1> QED BY <1>1, <1>2, <1>3, <1>4, <1>5, <1>7 DEF m, LogIsTheRows

(* The same in the state after a step. *)
LEMMA LogWillReadTheRows == IInv' => LogIsTheRows'
BY LogReadsTheRows, PTL

(* The chain's own questions, asked of the rows.                           *)
LEMMA LogAnswers ==
    ASSUME IInv
    PROVE  /\ Chain!IdsIn(Log) = IdsOf(rows)
           /\ Chain!HeadOf(Log) = HeadFor(rows)
<1> DEFINE m == MaxSeq(rows)
<1>1. /\ m \in Nat /\ DOMAIN Log = 1 .. m /\ Len(Log) = m
      /\ \A r \in rows : r.seq \in 1 .. m /\ Log[r.seq] = r.rev
      /\ \A n \in 1 .. m : \E r \in rows : r.seq = n /\ Log[n] = r.rev
  BY LogReadsTheRows DEF Log, LogIsTheRows
<1> HIDE DEF m
<1>2. Chain!IdsIn(Log) = IdsOf(rows)  BY <1>1 DEF Chain!IdsIn, IdsOf
<1>3. CASE rows = {}
  <2>1. m = 0  BY <1>1, <1>3
  <2>2. Log = << >>  BY <1>1, <2>1, LogReadsTheRows, EmptySeq DEF LogIsTheRows
  <2> QED BY <1>2, <1>3, <2>2 DEF Chain!HeadOf, HeadFor
<1>4. CASE rows # {}
  <2>1. m \in 1 .. m  BY <1>1, <1>4
  <2>2. PICK r \in rows : r.seq = m /\ Log[m] = r.rev  BY <1>1, <2>1
  <2>3. (CHOOSE x \in rows : x.seq = MaxSeq(rows)) = r
    BY <2>2 DEF m, IInv, UniqueKeys
  <2>4. HeadFor(rows) = r.rev.id  BY <1>4, <2>3 DEF HeadFor
  <2>5. Log # << >>  BY <1>1, <2>1
  <2> QED BY <1>1, <1>2, <2>2, <2>4, <2>5 DEF Chain!HeadOf
<1> QED BY <1>3, <1>4

(* A step that leaves the rows leaves the log. *)
LEMMA LogStays == rows' = rows => Log' = Log
BY DEF Log, MaxSeq, SeqsOf

(* A step that adds a row appends its revision to the log. *)
LEMMA LogExtends ==
    ASSUME IInv, IInv', NEW q \in Requests, Extended(q)
    PROVE  Log' = Append(Log, rev[q])
<1> DEFINE m == MaxSeq(rows)
           new == [seq |-> m + 1, rev |-> rev[q]]
<1>1. /\ m \in Nat /\ SeqsOf(rows) = 1 .. m /\ Log \in Seq(Revision) /\ Len(Log) = m
      /\ \A r \in rows : r.seq \in 1 .. m /\ Log[r.seq] = r.rev
      /\ \A n \in 1 .. m : \E r \in rows : r.seq = n /\ Log[n] = r.rev
  BY LogReadsTheRows DEF LogIsTheRows
<1>2. /\ MaxSeq(rows)' \in Nat /\ SeqsOf(rows)' = 1 .. MaxSeq(rows)'
      /\ Log' \in Seq(Revision) /\ Len(Log') = MaxSeq(rows)'
      /\ \A r \in rows' : r.seq \in 1 .. MaxSeq(rows)' /\ Log'[r.seq] = r.rev
      /\ \A n \in 1 .. MaxSeq(rows)' : \E r \in rows' : r.seq = n /\ Log'[n] = r.rev
  BY LogWillReadTheRows DEF LogIsTheRows
<1>3. rows' = rows \union {new}  BY DEF Extended
<1> HIDE DEF m
<1>4. new.seq = m + 1 /\ new.rev = rev[q]  OBVIOUS
<1> HIDE DEF new
<1>5. MaxSeq(rows)' = m + 1
  <2>1. MaxSeq(rows)' >= m + 1
    <3>1. new \in rows' /\ m + 1 \in 1 .. MaxSeq(rows)'  BY <1>2, <1>3, <1>4
    <3> QED BY <1>1, <1>2, <3>1
  <2>2. MaxSeq(rows)' <= m + 1
    <3>1. PICK r \in rows' : r.seq = MaxSeq(rows)'  BY <1>1, <1>2, <2>1
    <3> QED BY <1>1, <1>2, <1>3, <1>4, <3>1
  <2> QED BY <1>1, <1>2, <2>1, <2>2
<1>6. \A n \in 1 .. m : Log'[n] = Log[n]
  <2> TAKE n \in 1 .. m
  <2>1. PICK r \in rows : r.seq = n /\ Log[n] = r.rev  BY <1>1
  <2> QED BY <1>2, <1>3, <2>1
<1>7. Log'[m + 1] = rev[q]  BY <1>2, <1>3, <1>4
<1>8. rev[q] \in Revision  BY <1>2, <1>5, <1>7, <1>1, ElementOfSeq
<1>9. /\ Append(Log, rev[q]) \in Seq(Revision) /\ Len(Append(Log, rev[q])) = m + 1
      /\ \A n \in 1 .. m : Append(Log, rev[q])[n] = Log[n]
      /\ Append(Log, rev[q])[m + 1] = rev[q]
  BY <1>1, <1>8, AppendProperties
<1>10. \A n \in 1 .. m + 1 : Log'[n] = Append(Log, rev[q])[n]
  <2> TAKE n \in 1 .. m + 1
  <2>1. n \in 1 .. m \/ n = m + 1  BY <1>1
  <2> QED BY <1>6, <1>7, <1>9, <2>1
<1> QED BY <1>1, <1>2, <1>5, <1>9, <1>10, SeqEqual

-----------------------------------------------------------------------------
(* The refinement, action by action.                                       *)

Answered ==
    {[req |-> q, kind |-> answer[q], rev |-> rev[q], tail |-> tail[q]] :
        q \in {p \in Requests : answer[p] # "none"}}

AnswerOf(q, kind, t) == [req |-> q, kind |-> kind, rev |-> rev[q], tail |-> t]

(* A reply adds one answer; a request without one leaves none.             *)
LEMMA ReplyAnswers ==
    ASSUME TypeOK, NEW q \in Requests, answer[q] = "none", rev' = rev,
           NEW kind \in Answers \ {"none"}, answer' = [answer EXCEPT ![q] = kind],
           \A p \in Requests \ {q} : tail'[p] = tail[p]
    PROVE  /\ Answered' = Answered \union {AnswerOf(q, kind, tail'[q])}
           /\ \A a \in Answered : a.req # q
<1>1. /\ answer'[q] = kind
      /\ \A p \in Requests \ {q} : answer'[p] = answer[p] /\ tail'[p] = tail[p]
  BY DEF TypeOK
<1>2. {p \in Requests : answer'[p] # "none"} = {p \in Requests : answer[p] # "none"} \union {q}
  BY <1>1
<1>3. \A a : a \in Answered' <=> a \in Answered \/ a = AnswerOf(q, kind, tail'[q])
  <2> SUFFICES ASSUME NEW a
               PROVE  a \in Answered' <=> a \in Answered \/ a = AnswerOf(q, kind, tail'[q])
      OBVIOUS
  <2>1. a \in Answered' <=> \E p \in {p \in Requests : answer[p] # "none"} \union {q} :
                                a = [req |-> p, kind |-> answer'[p], rev |-> rev[p], tail |-> tail'[p]]
    BY <1>2 DEF Answered
  <2> QED BY <1>1, <2>1 DEF Answered, AnswerOf
<1>4. \A a \in Answered : a.req # q  BY DEF Answered
<1> QED BY <1>3, <1>4

(* A step that answers nobody leaves the answers of the chain. *)
LEMMA QuietAnswers ==
    ASSUME TypeOK, answer' = answer, \A q \in Requests : answer[q] # "none" =>
                                         rev'[q] = rev[q] /\ tail'[q] = tail[q]
    PROVE  Answered' = Answered
BY DEF Answered

(* A row on top of the head is a compare-and-set of the chain.             *)
LEMMA ExtendedCommits ==
    ASSUME IInv, IInv', NEW q \in Requests, Extended(q),
           answer' = answer, rev' = rev, tail' = tail, announced' = announced
    PROVE  Chain!Next
<1>1. Log' = Append(Log, rev[q])  BY LogExtends
<1>2. rev[q] \in Revision /\ rev[q] \in signed
  BY DEF Extended, IInv, CarriesRevision, TypeOK
<1>3. rev[q].base = HeadFor(rows)
  <2>1. MaxSeq(rows) \in Nat /\ SeqsOf(rows) = 1 .. MaxSeq(rows)
        /\ OnTopOf(MaxSeq(rows) + 1, HeadFor(rows)) /\ OnTopOf(MaxSeq(rows) + 1, rev[q].base)
    BY HeadIsOnTop DEF Extended
  <2>2. \A r \in rows : r.seq \in 1 .. MaxSeq(rows)  BY <2>1 DEF SeqsOf
  <2>3. CASE MaxSeq(rows) = 0
    BY <2>1, <2>2, <2>3 DEF OnTopOf
  <2>4. CASE MaxSeq(rows) # 0
    BY <2>1, <2>4 DEF OnTopOf, IInv, UniqueKeys
  <2> QED BY <2>3, <2>4
<1>4. Chain!Commit(rev[q])
  BY <1>1, <1>3, LogAnswers DEF Chain!Commit, Extended, RevisionExists
<1> QED BY <1>2, <1>4 DEF Chain!Next, Chain!Revision, Revision, Bases

(* An answer that leaves the rows alone.                                   *)
LEMMA AcceptedAnswers ==
    ASSUME IInv, NEW q \in Requests, NEW kind \in {"ack", "duplicate"},
           pc[q] # "idle", answer[q] = "none", answer' = [answer EXCEPT ![q] = kind],
           rows' = rows, rev' = rev, tail' = tail, RevisionExists(rev[q].id),
           tail[q] = {}, announced' = IF kind = "ack" THEN announced \union {rev[q].id} ELSE announced
    PROVE  Chain!Next
<1>1. Log' = Log  BY LogStays
<1>2. rev[q] \in Revision /\ TypeOK  BY DEF IInv, CarriesRevision, TypeOK
<1>3. kind \in Answers \ {"none"}  BY DEF Answers
<1>4. Answered' = Answered \union {AnswerOf(q, kind, {})} /\ \A a \in Answered : a.req # q
  BY <1>2, <1>3, ReplyAnswers
<1>5. Chain!Unanswered(q)  BY <1>4 DEF Chain!Unanswered, Answered
<1>6. Chain!Accept(q, rev[q], kind)
  BY <1>1, <1>4, LogAnswers DEF Chain!Accept, Answered, AnswerOf, RevisionExists
<1> QED BY <1>2, <1>5, <1>6 DEF Chain!Next, Chain!Revision, Revision, Bases

(* A refusal or a failure is an answer the chain allows at any time. *)
LEMMA RefusedAnswers ==
    ASSUME IInv, NEW q \in Requests, NEW kind \in {"too-large", "unauthorized", "failed"},
           pc[q] # "idle", answer[q] = "none", answer' = [answer EXCEPT ![q] = kind],
           rows' = rows, rev' = rev, tail' = tail, tail[q] = {}, announced' = announced
    PROVE  Chain!Next
<1>1. Log' = Log  BY LogStays
<1>2. rev[q] \in Revision /\ TypeOK  BY DEF IInv, CarriesRevision, TypeOK
<1>3. kind \in Answers \ {"none"}  BY DEF Answers
<1>4. Answered' = Answered \union {AnswerOf(q, kind, {})} /\ \A a \in Answered : a.req # q
  BY <1>2, <1>3, ReplyAnswers
<1>5. Chain!Unanswered(q)  BY <1>4 DEF Chain!Unanswered, Answered
<1>6. Chain!Refuse(q, rev[q], kind)  BY <1>1, <1>4 DEF Chain!Refuse, Answered, AnswerOf
<1> QED BY <1>2, <1>5, <1>6 DEF Chain!Next, Chain!Revision, Revision, Bases

(* The rows a stale save is answered with are the chain from an entry      *)
(* point to the head.                                                      *)
LEMMA StaleReads ==
    ASSUME IInv, CatchUpInv, NEW q \in Requests, ReadChain(q)
    PROVE  \E n \in 1 .. Len(Log) + 1 :
               /\ n \in Chain!Entries(rev[q].base)
               /\ tail'[q] = {Log[k].id : k \in n .. Len(Log)}
<1> DEFINE m == MaxSeq(rows)
           n == IF seqNo[q] = 0 THEN 1 ELSE seqNo[q]
<1>0. TypeOK /\ rows \subseteq Row /\ pc[q] = "chain"  BY DEF IInv, TypeOK, ReadChain, Reply, Goto
<1>1. tail'[q] = {r.rev.id : r \in {s \in rows : s.seq >= seqNo[q]}}
  BY <1>0 DEF ReadChain, TypeOK, ChainFromSeq, IdsOf
<1>2. /\ m \in Nat /\ DOMAIN Log = 1 .. m /\ Len(Log) = m
      /\ \A r \in rows : r.seq \in 1 .. m /\ Log[r.seq] = r.rev
      /\ \A k \in 1 .. m : \E r \in rows : r.seq = k /\ Log[k] = r.rev
  BY LogReadsTheRows DEF LogIsTheRows, Log
<1>3. Passed(rev[q].base) /\ EntryPoint(q)
  BY <1>0 DEF IInv, FailedGate, CatchUpInv, Anchored
<1>4. seqNo[q] \in Nat  BY <1>0 DEF TypeOK
<1>5. \A r \in rows : r.rev.id \in Ids  BY <1>0 DEF Row, Revision
<1> HIDE DEF m
<1>6. n \in Nat \ {0}  BY <1>4
<1>7. \A r \in rows : r.seq >= seqNo[q] <=> r.seq \in n .. m  BY <1>2, <1>4
<1>8. tail'[q] = {Log[k].id : k \in n .. m}
  <2>1. ASSUME NEW r \in rows, r.seq >= seqNo[q] PROVE r.seq \in n .. m /\ Log[r.seq].id = r.rev.id
    BY <1>2, <1>7, <2>1
  <2>2. ASSUME NEW k \in n .. m PROVE \E r \in rows : r.seq >= seqNo[q] /\ r.rev.id = Log[k].id
    <3>1. k \in 1 .. m  BY <1>2, <1>6
    <3> QED BY <1>2, <1>7, <3>1
  <2> HIDE DEF n
  <2> QED BY <1>1, <2>1, <2>2
<1>9. n \in 1 .. m + 1 /\ n \in Chain!Entries(rev[q].base)
  <2>1. CASE ~RevisionExists(rev[q].base)
    <3>1. rev[q].base \notin Chain!IdsIn(Log)  BY <2>1, LogAnswers DEF RevisionExists
    <3>2. seqNo[q] = 0 \/ \E f \in Keyframes(rows) : f.seq = seqNo[q]
      BY <1>3, <2>1 DEF EntryPoint, RevisionExists, IdsOf
    <3>3. n = 1 \/ \E f \in rows : f.rev.keyframe /\ n = f.seq  BY <3>2 DEF Keyframes
    <3> HIDE DEF n
    <3>4. n = 1 \/ (n \in 1 .. m /\ Log[n].keyframe)  BY <1>2, <3>3
    <3> QED BY <1>2, <3>1, <3>4 DEF Chain!Entries
  <2>2. ASSUME NEW b \in rows, b.rev.id = rev[q].base, seqNo[q] = b.seq + 1
        PROVE  n \in 1 .. m + 1 /\ n \in Chain!Entries(rev[q].base)
    <3>1. RevisionExists(rev[q].base)  BY <2>2 DEF RevisionExists, IdsOf
    <3>2. rev[q].base \in Chain!IdsIn(Log)  BY <3>1, LogAnswers DEF RevisionExists
    <3>3. PICK p, s \in rows : p.rev.id = rev[q].base /\ s.seq = p.seq + 1
      BY <1>3, <1>5, <2>2, CommitAssumption DEF Passed
    <3>4. p = b  BY <2>2, <3>3 DEF IInv, UniqueKeys
    <3>5. n = b.seq + 1 /\ n \in 2 .. m /\ n - 1 = b.seq  BY <1>2, <2>2, <3>3, <3>4
    <3> HIDE DEF n
    <3>6. Log[n - 1].id = rev[q].base  BY <1>2, <2>2, <3>5
    <3> QED BY <1>2, <3>2, <3>5, <3>6 DEF Chain!Entries
  <2> QED BY <1>3, <2>1, <2>2 DEF EntryPoint
<1> HIDE DEF n
<1> QED BY <1>2, <1>8, <1>9

(* A stale-base answer carries a tail the chain allows. *)
LEMMA StaleAnswers ==
    ASSUME IInv, CatchUpInv, NEW q \in Requests, answer[q] = "none", ReadChain(q)
    PROVE  Chain!Next
<1>0. /\ pc[q] = "chain" /\ rows' = rows /\ rev' = rev /\ announced' = announced
      /\ answer' = [answer EXCEPT ![q] = "stale-base"]
  BY DEF ReadChain, Reply, Goto
<1>1. Log' = Log  BY <1>0, LogStays
<1>2. rev[q] \in Revision /\ TypeOK  BY <1>0 DEF IInv, CarriesRevision, TypeOK
<1>3. \A p \in Requests \ {q} : tail'[p] = tail[p]  BY <1>2 DEF ReadChain, TypeOK
<1>4. "stale-base" \in Answers \ {"none"}  BY DEF Answers
<1>5. /\ Answered' = Answered \union {AnswerOf(q, "stale-base", tail'[q])}
      /\ \A a \in Answered : a.req # q
  BY <1>0, <1>2, <1>3, <1>4, ReplyAnswers
<1>6. Chain!Unanswered(q)  BY <1>5 DEF Chain!Unanswered, Answered
<1>7. ~RevisionExists(rev[q].id) /\ Passed(rev[q].base)  BY <1>0 DEF IInv, FailedGate
<1>8. rev[q].base # HeadFor(rows)
  <2>1. MaxSeq(rows) \in Nat /\ SeqsOf(rows) = 1 .. MaxSeq(rows)
        /\ OnTopOf(MaxSeq(rows) + 1, HeadFor(rows))
    BY HeadIsOnTop
  <2>2. \A r \in rows : r.seq \in 1 .. MaxSeq(rows) /\ r.rev.id \in Ids
    BY <1>2, <2>1 DEF SeqsOf, TypeOK, Row, Revision
  <2>3. CASE MaxSeq(rows) + 1 = 1 /\ HeadFor(rows) = NoBase
    BY <1>7, <2>1, <2>2, <2>3, CommitAssumption DEF Passed
  <2>4. ASSUME NEW h \in rows, h.seq = MaxSeq(rows) + 1 - 1, h.rev.id = HeadFor(rows),
               rev[q].base = HeadFor(rows)
        PROVE  FALSE
    <3>1. PICK p, s \in rows : p.rev.id = rev[q].base /\ s.seq = p.seq + 1
      BY <1>7, <2>2, <2>4, CommitAssumption DEF Passed
    <3>2. p = h  BY <2>4, <3>1 DEF IInv, UniqueKeys
    <3> QED BY <2>1, <2>2, <2>4, <3>1, <3>2
  <2> QED BY <2>1, <2>3, <2>4 DEF OnTopOf
<1>9. PICK n \in 1 .. Len(Log) + 1 :
          n \in Chain!Entries(rev[q].base) /\ tail'[q] = {Log[k].id : k \in n .. Len(Log)}
  BY StaleReads
<1>10. Chain!RejectStale(q, rev[q], n)
  BY <1>0, <1>1, <1>5, <1>7, <1>8, <1>9, LogAnswers
     DEF Chain!RejectStale, Answered, AnswerOf, RevisionExists
<1> QED BY <1>2, <1>6, <1>10 DEF Chain!Next, Chain!Revision, Revision, Bases

(* Only a stale save is answered with rows.                                *)
BlankTails == \A q \in Requests : answer[q] # "stale-base" => tail[q] = {}

(* Every step leaves the tail empty in all answers but stale-base. *)
LEMMA BlankTailsStep == IInv /\ BlankTails /\ [Next]_vars => BlankTails'
<1> SUFFICES ASSUME IInv, BlankTails, [Next]_vars, NEW q \in Requests
             PROVE  answer'[q] # "stale-base" => tail'[q] = {}
    BY DEF BlankTails
<1>0. TypeOK /\ (answer[q] # "none" => pc[q] = "done")  BY DEF IInv, CarriesRevision
<1>1. CASE Untouched(q)  BY <1>1 DEF Untouched, BlankTails
<1>2. CASE Moves(q)
  BY <1>0, <1>2
     DEF BlankTails, Moves, TypeOK, Progress, Goto, Reply, Submit,
         PrecheckDuplicate, PrecheckFresh, RefuseSize, RefuseUnauthorized,
         PassPolicy, GateSnapshot, InsertRow, InsertViolation, CommitTransaction,
         DriverRetryViolation, GatedInsertSqlite, ClassifyDuplicate, ClassifyStale,
         RecoverInserted, RecoverStale, AnnounceAndAck, AnchorAtBase,
         AnchorUnknown, AnchorAtKeyframe, ReadChain, Fail
<1> QED BY <1>0, <1>1, <1>2, OneMoves

(* Neither the chain nor an answer changes.                                *)
LEMMA Unseen ==
    ASSUME TypeOK, rows' = rows, answer' = answer, announced' = announced,
           \A q \in Requests : answer[q] # "none" => rev'[q] = rev[q] /\ tail'[q] = tail[q]
    PROVE  UNCHANGED Chain!vars
BY LogStays, QuietAnswers DEF Chain!vars, Answered

(* Every step of the code is a step of the chain, or leaves it as it is. *)
LEMMA ChainStepOf ==
    ASSUME IInv, IInv', CatchUpInv, BlankTails, [Next]_vars
    PROVE  [Chain!Next]_(Chain!vars)
<1>0. TypeOK /\ \A q \in Requests : answer[q] # "none" => pc[q] = "done"
  BY DEF IInv, CarriesRevision
<1>1. CASE UNCHANGED vars \/ \E i \in Ids, b \in Bases, k \in BOOLEAN : Sign(i, b, k)
  BY <1>0, <1>1, Unseen DEF vars, Sign
<1>2. ASSUME NEW q \in Requests, NEW r \in signed, Submit(q, r) PROVE UNCHANGED Chain!vars
  BY <1>0, <1>2, Unseen DEF Submit, Goto, TypeOK
<1>3. ASSUME NEW q \in Requests,
             CommitTransaction(q) \/ DriverRetryViolation(q) \/ (GatedInsertSqlite(q) /\ GatesPass(q))
      PROVE  Chain!Next
  <2>1. Extended(q)
    <3>1. CASE CommitTransaction(q) \/ DriverRetryViolation(q)
      <4>1. pc[q] = "staged"  BY <3>1 DEF CommitTransaction, DriverRetryViolation, Goto
      <4>2. OnTopOf(seqNo[q], rev[q].base)  BY <4>1 DEF IInv, PendingOnTop
      <4> QED BY <3>1, <4>1, <4>2, StagedOnHead
              DEF Extended, CommitTransaction, DriverRetryViolation
    <3>2. CASE GatedInsertSqlite(q) /\ GatesPass(q)
      <4>1. OnTopOf(MaxSeq(rows) + 1, HeadFor(rows))  BY HeadIsOnTop
      <4> QED BY <3>2, <4>1 DEF GatedInsertSqlite, GatesPass, Extended, Goto
    <3> QED BY <1>3, <3>1, <3>2
  <2>2. answer' = answer /\ rev' = rev /\ tail' = tail /\ announced' = announced
    BY <1>3 DEF CommitTransaction, DriverRetryViolation, GatedInsertSqlite
  <2> QED BY <2>1, <2>2, ExtendedCommits
<1>4. ASSUME NEW q \in Requests,
             PrecheckDuplicate(q) \/ ClassifyDuplicate(q) \/ AnnounceAndAck(q)
      PROVE  Chain!Next
  <2>1. answer[q] = "none" /\ tail[q] = {} /\ pc[q] # "idle"
    BY <1>0, <1>4 DEF BlankTails, PrecheckDuplicate, ClassifyDuplicate, AnnounceAndAck, Reply, Goto
  <2>2. RevisionExists(rev[q].id)
    BY <1>4 DEF PrecheckDuplicate, ClassifyDuplicate, AnnounceAndAck, Reply, Goto,
                IInv, InsertedIsDurable
  <2>3. CASE AnnounceAndAck(q)
    <3>1. /\ answer' = [answer EXCEPT ![q] = "ack"] /\ rows' = rows /\ rev' = rev
          /\ tail' = tail /\ announced' = announced \union {rev[q].id}
      BY <2>3 DEF AnnounceAndAck, Reply
    <3> QED BY <2>1, <2>2, <3>1, AcceptedAnswers
  <2>4. CASE PrecheckDuplicate(q) \/ ClassifyDuplicate(q)
    <3>1. /\ answer' = [answer EXCEPT ![q] = "duplicate"] /\ rows' = rows /\ rev' = rev
          /\ tail' = tail /\ announced' = announced
      BY <2>4 DEF PrecheckDuplicate, ClassifyDuplicate, Reply
    <3> QED BY <2>1, <2>2, <3>1, AcceptedAnswers
  <2> QED BY <1>4, <2>3, <2>4
<1>5. ASSUME NEW q \in Requests, RefuseSize(q) \/ RefuseUnauthorized(q) \/ Fail(q)
      PROVE  Chain!Next
  <2>1. answer[q] = "none" /\ tail[q] = {} /\ pc[q] # "idle"
    BY <1>0, <1>5 DEF BlankTails, RefuseSize, RefuseUnauthorized, Fail, Reply, Goto
  <2>2. /\ rows' = rows /\ rev' = rev /\ tail' = tail /\ announced' = announced
        /\ \E kind \in {"too-large", "unauthorized", "failed"} : answer' = [answer EXCEPT ![q] = kind]
    BY <1>5 DEF RefuseSize, RefuseUnauthorized, Fail, Reply
  <2> QED BY <2>1, <2>2, RefusedAnswers
<1>6. ASSUME NEW q \in Requests, ReadChain(q) PROVE Chain!Next
  BY <1>0, <1>6, StaleAnswers DEF ReadChain, Reply, Goto
<1>7. ASSUME NEW q \in Requests,
             PrecheckFresh(q) \/ PassPolicy(q) \/ GateSnapshot(q) \/ InsertRow(q)
                \/ InsertViolation(q) \/ (GatedInsertSqlite(q) /\ ~GatesPass(q))
                \/ ClassifyStale(q) \/ RecoverInserted(q) \/ RecoverStale(q)
                \/ AnchorAtBase(q) \/ AnchorUnknown(q) \/ AnchorAtKeyframe(q)
      PROVE  UNCHANGED Chain!vars
  <2>1. rows' = rows /\ answer' = answer /\ announced' = announced /\ rev' = rev /\ tail' = tail
    BY <1>7 DEF PrecheckFresh, PassPolicy, GateSnapshot, InsertRow, InsertViolation,
                GatedInsertSqlite, ClassifyStale, RecoverInserted, RecoverStale,
                AnchorAtBase, AnchorUnknown, AnchorAtKeyframe
  <2> QED BY <1>0, <2>1, Unseen
<1> QED BY <1>1, <1>2, <1>3, <1>4, <1>5, <1>6, <1>7 DEF Next, Step, Progress

(* What every replica together does is what one serial chain would do:     *)
(* each step commits on the head, answers truthfully, or is not seen.      *)
THEOREM ReplicasImplementChain == Spec => ImplementsChain
<1>1. Init => Chain!Init
  <2> SUFFICES ASSUME Init PROVE Chain!Init  OBVIOUS
  <2>1. MaxSeq(rows) = 0  BY DEF Init, MaxSeq
  <2>2. Log = << >>  BY <2>1, EmptySeq DEF Log
  <2> QED BY <2>2 DEF Init, Chain!Init
<1>2. Init => CatchUpInv /\ BlankTails  BY CatchUpInit DEF Init, BlankTails
<1>3. IInv /\ CatchUpInv /\ BlankTails /\ [Next]_vars => (CatchUpInv /\ BlankTails)'
  BY CatchUpStep, BlankTailsStep
<1>4. IInv /\ IInv' /\ CatchUpInv /\ BlankTails /\ [Next]_vars => [Chain!Next]_(Chain!vars)
  BY ChainStepOf
<1> QED BY <1>1, <1>2, <1>3, <1>4, Invariance, PTL DEF Spec, ImplementsChain, Chain!Spec

=============================================================================
