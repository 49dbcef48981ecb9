----------------------- MODULE RevisionCommit_proofs -----------------------
(***************************************************************************)
(* The lockless commit keeps one linear chain, for any number of replicas, *)
(* requests and revisions.                                                 *)
(***************************************************************************)
EXTENDS RevisionCommit, WellFoundedInduction, TLAPS

(* The seqs in use are 1..n: what MAX(seq) + 1 relies on.                  *)
Contiguous == \E n \in Nat : SeqsOf(rows) = 1 .. n

(* Both unique indexes.                                                    *)
UniqueKeys == \A r1, r2 \in rows : r1.seq = r2.seq \/ r1.rev.id = r2.rev.id => r1 = r2

(* Row or pending row r sits right on top of its base.                     *)
OnTopOf(s, base) ==
    \/ s = 1 /\ base = NoBase
    \/ \E p \in rows : p.seq = s - 1 /\ p.rev.id = base

(* The head was the base when seqNo was computed, and, rows being neither  *)
(* dropped nor renumbered, seqNo is still the slot right after the base.   *)
PendingOnTop ==
    \A q \in Requests : pc[q] \in {"insert", "staged"} =>
        seqNo[q] \in Nat \ {0} /\ OnTopOf(seqNo[q], rev[q].base)

(* The unique indexes also hold between uncommitted rows.                  *)
StagedApart ==
    \A q \in Requests : pc[q] = "staged" =>
        /\ ~Collides(q, rows)
        /\ \A p \in Requests : pc[p] = "staged" /\ p # q =>
               seqNo[p] # seqNo[q] /\ rev[p].id # rev[q].id

(* node:sqlite never leaves a gated INSERT half done.                      *)
NoHalfInsert == backend = "sqlite" => \A q \in Requests : pc[q] \notin {"insert", "staged"}

CarriesRevision ==
    /\ \A q \in Requests : pc[q] # "idle" => rev[q] \in signed
    /\ \A q \in Requests : answer[q] # "none" => pc[q] = "done"
    /\ \A q \in Requests : pc[q] \in {"commit", "insert", "staged"} => rev[q].id \notin Oversize

(* An id is a hash, and a client builds on what it has seen.               *)
SignedOnKnown ==
    /\ \A r1, r2 \in signed : r1.id = r2.id => r1 = r2
    /\ \A r \in signed : r.base \in IdsOf(rows) \union Foreign \union {NoBase}

(* No revision with this base can be committed any more: the slot right    *)
(* after the base is taken, or the base will never be in the chain.        *)
Passed(base) ==
    \/ base \in Foreign
    \/ base = NoBase /\ rows # {}
    \/ \E p, s \in rows : p.rev.id = base /\ s.seq = p.seq + 1

(* A failed gate or a unique violation means: committed already, or passed.*)
FailedGate ==
    \A q \in Requests :
        /\ pc[q] \in {"classify", "recover"} =>
               RevisionExists(rev[q].id) \/ Passed(rev[q].base)
        /\ pc[q] \in {"anchor", "keyframe", "chain"} \/ answer[q] = "stale-base" =>
               ~RevisionExists(rev[q].id) /\ Passed(rev[q].base)

InsertedIsDurable ==
    \A q \in Requests : pc[q] = "inserted" \/ answer[q] \in {"ack", "duplicate"} =>
        RevisionExists(rev[q].id)

IInv ==
    /\ TypeOK
    /\ Contiguous
    /\ UniqueKeys
    /\ \A r \in rows : OnTopOf(r.seq, r.rev.base)
    /\ NoHalfInsert
    /\ CarriesRevision
    /\ PendingOnTop
    /\ StagedApart
    /\ SignedOnKnown
    /\ FailedGate
    /\ InsertedIsDurable

-----------------------------------------------------------------------------
(* A bounded, nonempty set of numbers has a largest member.                *)
LEMMA BoundedMax ==
    ASSUME NEW n \in Nat, NEW S \in SUBSET (1 .. n), S # {}
    PROVE  \E s \in S : \A t \in S : t <= s
<1> DEFINE R == OpToRel(<, Nat)
           T == {m \in Nat : \E s \in S : m = n - s}
<1>1. IsWellFoundedOn(R, Nat)  BY NatLessThanWellFounded, Zenon
<1>2. T \subseteq Nat /\ T # {}
  <2>1. PICK s \in S : TRUE  OBVIOUS
  <2>2. n - s \in Nat  BY <2>1
  <2> QED BY <2>1, <2>2
<1>3. \A x, y \in Nat : x < y => <<x, y>> \in R  BY DEF OpToRel
<1> HIDE DEF R, T
<1>4. PICK x \in T : \A y \in T : ~ (<<y, x>> \in R)  BY <1>1, <1>2, WFMin
<1>5. PICK s \in S : x = n - s  BY <1>4 DEF T
<1>6. ASSUME NEW t \in S PROVE t <= s
  <2>1. n - t \in T  BY DEF T
  <2>2. ~(n - t < n - s)  BY <1>2, <1>3, <1>4, <1>5, <2>1
  <2> QED BY <2>2
<1> QED BY <1>5, <1>6

(* MAX(seq) and the head of a contiguous chain.                            *)
LEMMA MaxSeqIsLast ==
    ASSUME NEW n \in Nat, SeqsOf(rows) = 1 .. n, rows \subseteq Row
    PROVE  MaxSeq(rows) = n
<1>1. CASE n = 0
  <2>1. rows = {}  BY <1>1 DEF SeqsOf
  <2> QED BY <2>1, <1>1 DEF MaxSeq
<1>2. CASE n # 0
  <2>1. rows # {}  BY <1>2 DEF SeqsOf
  <2>2. n \in SeqsOf(rows) /\ \A t \in SeqsOf(rows) : t <= n  BY <1>2
  <2>3. \A s \in SeqsOf(rows) : (\A t \in SeqsOf(rows) : t <= s) => s = n  BY <2>2
  <2>4. (CHOOSE s \in SeqsOf(rows) : \A t \in SeqsOf(rows) : t <= s) = n  BY <2>2, <2>3
  <2> QED BY <2>1, <2>4 DEF MaxSeq
<1> QED BY <1>1, <1>2

(* The head is the row that carries MAX(seq).                              *)
LEMMA HeadIsOnTop ==
    ASSUME IInv
    PROVE  /\ MaxSeq(rows) \in Nat
           /\ SeqsOf(rows) = 1 .. MaxSeq(rows)
           /\ OnTopOf(MaxSeq(rows) + 1, HeadFor(rows))
<1>1. PICK n \in Nat : SeqsOf(rows) = 1 .. n  BY DEF IInv, Contiguous
<1>2. MaxSeq(rows) = n  BY <1>1, MaxSeqIsLast DEF IInv, TypeOK
<1>3. CASE rows = {}
  <2>1. n = 0  BY <1>1, <1>3 DEF SeqsOf
  <2> QED BY <1>1, <1>2, <1>3, <2>1 DEF OnTopOf, HeadFor
<1>4. CASE rows # {}
  <2>1. n # 0  BY <1>1, <1>4 DEF SeqsOf
  <2>2. n \in SeqsOf(rows)  BY <1>1, <2>1
  <2>3. PICK r \in rows : r.seq = n  BY <2>2 DEF SeqsOf
  <2> DEFINE h == CHOOSE x \in rows : x.seq = MaxSeq(rows)
  <2>4. h \in rows /\ h.seq = n  BY <2>3, <1>2
  <2>5. HeadFor(rows) = h.rev.id  BY <1>4 DEF HeadFor
  <2>6. h.seq = (n + 1) - 1  BY <2>4
  <2>7. OnTopOf(n + 1, HeadFor(rows))  BY <2>4, <2>5, <2>6 DEF OnTopOf
  <2> QED BY <1>1, <1>2, <2>7
<1> QED BY <1>3, <1>4

LEMMA InitIInv == Init => IInv
<1> SUFFICES ASSUME Init PROVE IInv  OBVIOUS
<1>1. TypeOK
  BY DEF Init, TypeOK, PCs, Answers
<1>2. Contiguous
  <2>1. SeqsOf(rows) = 1 .. 0  BY DEF Init, SeqsOf
  <2> QED BY <2>1 DEF Contiguous
<1> QED BY <1>1, <1>2
        DEF Init, IInv, UniqueKeys, NoHalfInsert, CarriesRevision, PendingOnTop, StagedApart,
            SignedOnKnown, FailedGate, InsertedIsDurable

LEMMA TypeStep == IInv /\ [Next]_vars => TypeOK'
<1> SUFFICES ASSUME IInv, [Next]_vars PROVE TypeOK'  OBVIOUS
<1> USE DEF TypeOK, PCs, Answers, Goto, Reply
<1>0. TypeOK /\ backend' = backend  BY DEF IInv, Next, vars
<1>1. ASSUME NEW i \in Ids, NEW b \in Bases, NEW k \in BOOLEAN, Sign(i, b, k) PROVE TypeOK'
  BY <1>0, <1>1 DEF Sign, Revision
<1>2. ASSUME NEW q \in Requests, NEW r \in signed, Submit(q, r) PROVE TypeOK'
  BY <1>0, <1>2 DEF Submit
<1>3. ASSUME NEW q \in Requests PROVE
        /\ PrecheckDuplicate(q) => TypeOK'
        /\ PrecheckFresh(q) => TypeOK'
        /\ RefuseSize(q) => TypeOK'
        /\ RefuseUnauthorized(q) => TypeOK'
        /\ PassPolicy(q) => TypeOK'
        /\ InsertRow(q) => TypeOK'
        /\ InsertViolation(q) => TypeOK'
        /\ ClassifyDuplicate(q) => TypeOK'
        /\ ClassifyStale(q) => TypeOK'
        /\ RecoverInserted(q) => TypeOK'
        /\ RecoverStale(q) => TypeOK'
        /\ AnchorUnknown(q) => TypeOK'
        /\ Fail(q) => TypeOK'
  BY <1>0 DEF PrecheckDuplicate, PrecheckFresh, RefuseSize, RefuseUnauthorized, PassPolicy,
              InsertRow, InsertViolation, ClassifyDuplicate, ClassifyStale,
              RecoverInserted, RecoverStale, AnchorUnknown, Fail
<1>4. ASSUME NEW q \in Requests, pc[q] # "idle" PROVE rev[q] \in Revision
  BY <1>0, <1>4 DEF IInv, CarriesRevision
<1>5. ASSUME NEW q \in Requests, GateSnapshot(q) PROVE TypeOK'
  <2>1. MaxSeq(rows) + 1 \in Nat  BY HeadIsOnTop
  <2> QED BY <1>0, <1>5, <2>1 DEF GateSnapshot
<1>6. ASSUME NEW q \in Requests, CommitTransaction(q) \/ DriverRetryViolation(q) PROVE TypeOK'
  <2>1. rev[q] \in Revision /\ rev[q].id \notin Oversize /\ seqNo[q] \in Nat \ {0}
    BY <1>4, <1>6 DEF IInv, CarriesRevision, PendingOnTop, CommitTransaction, DriverRetryViolation
  <2>2. rows' \subseteq Row  BY <1>0, <1>6, <2>1 DEF Row, CommitTransaction, DriverRetryViolation
  <2> QED BY <1>0, <1>6, <2>2 DEF CommitTransaction, DriverRetryViolation
<1>7. ASSUME NEW q \in Requests, GatedInsertSqlite(q) PROVE TypeOK'
  <2>1. rev[q] \in Revision /\ rev[q].id \notin Oversize
    BY <1>4, <1>7 DEF IInv, CarriesRevision, GatedInsertSqlite
  <2>2. MaxSeq(rows) \in Nat  BY HeadIsOnTop
  <2>3. rows' \subseteq Row  BY <1>0, <1>7, <2>1, <2>2 DEF Row, GatedInsertSqlite
  <2> QED BY <1>0, <1>7, <2>2, <2>3 DEF GatedInsertSqlite
<1>8. ASSUME NEW q \in Requests, AnnounceAndAck(q) PROVE TypeOK'
  <2>1. rev[q].id \in Ids  BY <1>4, <1>8 DEF AnnounceAndAck, Revision
  <2> QED BY <1>0, <1>8, <2>1 DEF AnnounceAndAck
<1>9. ASSUME NEW q \in Requests, AnchorAtBase(q) PROVE TypeOK'
  <2>1. (CHOOSE r \in rows : r.rev.id = rev[q].base) \in rows
    BY <1>9 DEF AnchorAtBase, RevisionExists, IdsOf
  <2>2. (CHOOSE r \in rows : r.rev.id = rev[q].base).seq + 1 \in Nat
    BY <1>0, <2>1 DEF Row
  <2> QED BY <1>0, <1>9, <2>2 DEF AnchorAtBase
<1>10. ASSUME NEW q \in Requests, AnchorAtKeyframe(q) PROVE TypeOK'
  <2>1. MaxSeq(Keyframes(rows)) \in Nat
    <3>1. PICK n \in Nat : SeqsOf(rows) = 1 .. n  BY DEF IInv, Contiguous
    <3>2. CASE Keyframes(rows) = {}  BY <3>2 DEF MaxSeq
    <3>3. CASE Keyframes(rows) # {}
      <4> DEFINE S == SeqsOf(Keyframes(rows))
      <4>1. S \subseteq 1 .. n  BY <3>1 DEF SeqsOf, Keyframes
      <4>2. S # {}  BY <3>3 DEF SeqsOf
      <4>3. \E s \in S : \A t \in S : t <= s  BY <4>1, <4>2, <3>1, BoundedMax
      <4>4. (CHOOSE s \in S : \A t \in S : t <= s) \in S  BY <4>3
      <4> QED BY <3>1, <3>3, <4>1, <4>4 DEF MaxSeq
    <3> QED BY <3>2, <3>3
  <2> QED BY <1>0, <1>10, <2>1 DEF AnchorAtKeyframe
<1>11. ASSUME NEW q \in Requests, ReadChain(q) PROVE TypeOK'
  <2>1. IdsOf(ChainFromSeq(seqNo[q])) \subseteq Ids
    BY <1>0 DEF IdsOf, ChainFromSeq, Row, Revision
  <2> QED BY <1>0, <1>11, <2>1 DEF ReadChain
<1>12. CASE UNCHANGED vars  BY <1>0, <1>12 DEF vars
<1> QED BY <1>1, <1>2, <1>3, <1>5, <1>6, <1>7, <1>8, <1>9, <1>10, <1>11, <1>12 DEF Next, Step, Progress

(* How a step may change the chain: by one row, on top of its head.        *)
Extended(q) ==
    /\ pc[q] \in {"staged", "commit"}
    /\ rows' = rows \union {[seq |-> MaxSeq(rows) + 1, rev |-> rev[q]]}
    /\ ~RevisionExists(rev[q].id)
    /\ OnTopOf(MaxSeq(rows) + 1, rev[q].base)

(* A staged row was computed on top of a head, and no row took its slot    *)
(* since: it is still on top of the head.                                  *)
LEMMA StagedOnHead ==
    ASSUME IInv, NEW q \in Requests, pc[q] = "staged"
    PROVE  seqNo[q] = MaxSeq(rows) + 1 /\ ~RevisionExists(rev[q].id)
<1>1. MaxSeq(rows) \in Nat /\ SeqsOf(rows) = 1 .. MaxSeq(rows)  BY HeadIsOnTop
<1>2. seqNo[q] \in Nat \ {0} /\ OnTopOf(seqNo[q], rev[q].base)  BY DEF IInv, PendingOnTop
<1>3. \A r \in rows : r.seq # seqNo[q] /\ r.rev.id # rev[q].id
  BY DEF IInv, StagedApart, Collides
<1>4. seqNo[q] \notin SeqsOf(rows)  BY <1>3 DEF SeqsOf
<1>5. seqNo[q] > MaxSeq(rows)  BY <1>1, <1>2, <1>4
<1>6. seqNo[q] = 1 \/ seqNo[q] - 1 \in SeqsOf(rows)  BY <1>2 DEF OnTopOf, SeqsOf
<1> QED BY <1>1, <1>2, <1>3, <1>5, <1>6 DEF RevisionExists, IdsOf

LEMMA RowsChange ==
    IInv /\ [Next]_vars => rows' = rows \/ \E q \in Requests : Extended(q)
<1> SUFFICES ASSUME IInv, [Next]_vars PROVE rows' = rows \/ \E q \in Requests : Extended(q)
    OBVIOUS
<1>1. ASSUME NEW q \in Requests, CommitTransaction(q) \/ DriverRetryViolation(q) PROVE Extended(q)
  <2>1. pc[q] = "staged"  BY <1>1 DEF CommitTransaction, DriverRetryViolation, Goto
  <2>2. OnTopOf(seqNo[q], rev[q].base)  BY <2>1 DEF IInv, PendingOnTop
  <2> QED BY <1>1, <2>1, <2>2, StagedOnHead DEF Extended, CommitTransaction, DriverRetryViolation
<1>2. ASSUME NEW q \in Requests, GatedInsertSqlite(q) PROVE rows' = rows \/ Extended(q)
  <2>1. CASE GatesPass(q)
    <3>1. OnTopOf(MaxSeq(rows) + 1, HeadFor(rows))  BY HeadIsOnTop
    <3> QED BY <1>2, <2>1, <3>1 DEF GatedInsertSqlite, GatesPass, Extended, Goto
  <2> QED BY <1>2, <2>1 DEF GatedInsertSqlite
<1>3. ASSUME NEW q \in Requests, Progress(q), ~CommitTransaction(q), ~GatedInsertSqlite(q)
      PROVE  rows' = rows
  BY <1>3 DEF Progress, PrecheckDuplicate, PrecheckFresh, RefuseSize, RefuseUnauthorized,
              PassPolicy, GateSnapshot, InsertRow, InsertViolation, ClassifyDuplicate,
              ClassifyStale, RecoverInserted, RecoverStale, AnnounceAndAck, AnchorAtBase,
              AnchorUnknown, AnchorAtKeyframe, ReadChain
<1> QED BY <1>1, <1>2, <1>3 DEF Next, Step, Sign, Submit, Fail, vars

(* One row on top of the head keeps the chain contiguous, its keys unique  *)
(* and every row on top of its base.                                       *)
LEMMA ChainStep ==
    IInv /\ [Next]_vars =>
        /\ Contiguous'
        /\ UniqueKeys'
        /\ \A r \in rows' : OnTopOf(r.seq, r.rev.base)'
<1> SUFFICES ASSUME IInv, [Next]_vars
             PROVE  Contiguous' /\ UniqueKeys' /\ \A r \in rows' : OnTopOf(r.seq, r.rev.base)'
    OBVIOUS
<1>1. CASE rows' = rows
  BY <1>1 DEF IInv, Contiguous, UniqueKeys, OnTopOf, SeqsOf
<1>2. ASSUME NEW q \in Requests, Extended(q)
      PROVE  Contiguous' /\ UniqueKeys' /\ \A r \in rows' : OnTopOf(r.seq, r.rev.base)'
  <2> DEFINE m == MaxSeq(rows)
             new == [seq |-> m + 1, rev |-> rev[q]]
  <2>1. m \in Nat /\ SeqsOf(rows) = 1 .. m  BY HeadIsOnTop
  <2>2. rows' = rows \union {new}  BY <1>2 DEF Extended
  <2>3. \A r \in rows : r.seq \in 1 .. m  BY <2>1 DEF SeqsOf
  <2>4. \A r \in rows : r.rev.id # new.rev.id  BY <1>2 DEF Extended, RevisionExists, IdsOf
  <2> HIDE DEF m
  <2>5. SeqsOf(rows)' = 1 .. m + 1
    <3>1. new.seq = m + 1  OBVIOUS
    <3> HIDE DEF new
    <3>2. SeqsOf(rows)' = SeqsOf(rows) \union {new.seq}  BY <2>2 DEF SeqsOf
    <3> QED BY <2>1, <3>1, <3>2
  <2>6. Contiguous'  BY <2>1, <2>5 DEF Contiguous
  <2>7. UniqueKeys'
    <3>1. \A r \in rows : r.seq # new.seq  BY <2>1, <2>3
    <3> QED BY <2>2, <2>4, <3>1 DEF UniqueKeys, IInv
  <2>8. \A r \in rows' : OnTopOf(r.seq, r.rev.base)'
    BY <1>2, <2>2 DEF OnTopOf, IInv, Extended, m
  <2> QED BY <2>6, <2>7, <2>8
<1> QED BY <1>1, <1>2, RowsChange

-----------------------------------------------------------------------------
(* What the rest of the invariant needs of the rows: they only grow.       *)
LEMMA RowsGrow == IInv /\ [Next]_vars => rows \subseteq rows'
BY RowsChange DEF Extended

LEMMA NoHalfInsertStep == IInv /\ [Next]_vars => NoHalfInsert'
<1> SUFFICES ASSUME IInv, [Next]_vars PROVE NoHalfInsert'  OBVIOUS
<1>0. NoHalfInsert /\ TypeOK  BY DEF IInv
<1> QED
  BY <1>0 DEF NoHalfInsert, TypeOK, Next, Step, vars, Progress, Goto, Reply, Sign, Submit,
              PrecheckDuplicate, PrecheckFresh, RefuseSize, RefuseUnauthorized,
              PassPolicy, GateSnapshot, InsertRow, InsertViolation, CommitTransaction,
              DriverRetryViolation, GatedInsertSqlite, ClassifyDuplicate, ClassifyStale,
              RecoverInserted, RecoverStale, AnnounceAndAck, AnchorAtBase,
              AnchorUnknown, AnchorAtKeyframe, ReadChain, Fail

(* A request submits a signed revision and keeps it until it is answered.  *)
LEMMA CarriesRevisionStep == IInv /\ [Next]_vars => CarriesRevision'
<1> SUFFICES ASSUME IInv, [Next]_vars PROVE CarriesRevision'  OBVIOUS
<1>0. CarriesRevision /\ TypeOK  BY DEF IInv
<1> USE DEF CarriesRevision, TypeOK
<1>1. ASSUME NEW q \in Requests, NEW r \in signed, Submit(q, r) PROVE CarriesRevision'
  BY <1>0, <1>1 DEF Submit, Goto
<1>2. ASSUME NEW q \in Requests, Progress(q) \/ DriverRetryViolation(q) \/ Fail(q)
      PROVE  CarriesRevision'
  BY <1>0, <1>2
     DEF Progress, Goto, Reply,
         PrecheckDuplicate, PrecheckFresh, RefuseSize, RefuseUnauthorized,
         PassPolicy, GateSnapshot, InsertRow, InsertViolation, CommitTransaction,
         DriverRetryViolation, GatedInsertSqlite, ClassifyDuplicate, ClassifyStale,
         RecoverInserted, RecoverStale, AnnounceAndAck, AnchorAtBase,
         AnchorUnknown, AnchorAtKeyframe, ReadChain, Fail
<1>3. ASSUME NEW i \in Ids, NEW b \in Bases, NEW k \in BOOLEAN, Sign(i, b, k)
      PROVE  CarriesRevision'
  BY <1>0, <1>3 DEF Sign
<1> QED BY <1>0, <1>1, <1>2, <1>3 DEF Next, Step, vars

LEMMA SignedOnKnownStep == IInv /\ [Next]_vars => SignedOnKnown'
<1> SUFFICES ASSUME IInv, [Next]_vars PROVE SignedOnKnown'  OBVIOUS
<1>0. SignedOnKnown  BY DEF IInv
<1>1. \A i : i \in IdsOf(rows) => i \in IdsOf(rows')  BY RowsGrow DEF IdsOf
<1>2. ASSUME NEW i \in Ids, NEW b \in Bases, NEW k \in BOOLEAN, Sign(i, b, k)
      PROVE  SignedOnKnown'
  BY <1>0, <1>2 DEF Sign, SignedOnKnown
<1>3. ASSUME signed' = signed PROVE SignedOnKnown'
  BY <1>0, <1>1, <1>3 DEF SignedOnKnown
<1>4. (\A i \in Ids, b \in Bases, k \in BOOLEAN : ~Sign(i, b, k)) => signed' = signed
  BY DEF Next, Step, vars, Progress, Submit,
         PrecheckDuplicate, PrecheckFresh, RefuseSize, RefuseUnauthorized,
         PassPolicy, GateSnapshot, InsertRow, InsertViolation, CommitTransaction,
         DriverRetryViolation, GatedInsertSqlite, ClassifyDuplicate, ClassifyStale,
         RecoverInserted, RecoverStale, AnnounceAndAck, AnchorAtBase,
         AnchorUnknown, AnchorAtKeyframe, ReadChain, Fail
<1> QED BY <1>2, <1>3, <1>4

(* The steps of request q that do not move it into the INSERT.             *)
Elsewhere(q) ==
    \/ PrecheckDuplicate(q) \/ PrecheckFresh(q)
    \/ RefuseSize(q) \/ RefuseUnauthorized(q) \/ PassPolicy(q)
    \/ InsertViolation(q) \/ CommitTransaction(q) \/ DriverRetryViolation(q)
    \/ GatedInsertSqlite(q)
    \/ ClassifyDuplicate(q) \/ ClassifyStale(q)
    \/ RecoverInserted(q) \/ RecoverStale(q)
    \/ AnnounceAndAck(q)
    \/ AnchorAtBase(q) \/ AnchorUnknown(q) \/ AnchorAtKeyframe(q) \/ ReadChain(q)
    \/ Fail(q)

LEMMA ElsewhereMoves ==
    ASSUME TypeOK, NEW q \in Requests, Elsewhere(q)
    PROVE  /\ pc[q] # "idle"
           /\ pc'[q] \notin {"insert", "staged"}
           /\ \A p \in Requests \ {q} : pc'[p] = pc[p] /\ seqNo'[p] = seqNo[p]
           /\ rev' = rev
BY DEF Elsewhere, TypeOK, Goto, Reply,
       PrecheckDuplicate, PrecheckFresh, RefuseSize, RefuseUnauthorized,
       PassPolicy, InsertViolation, CommitTransaction,
       DriverRetryViolation, GatedInsertSqlite, ClassifyDuplicate, ClassifyStale,
       RecoverInserted, RecoverStale, AnnounceAndAck, AnchorAtBase,
       AnchorUnknown, AnchorAtKeyframe, ReadChain, Fail

(* Every step of the system.                                               *)
LEMMA Steps ==
    ASSUME [Next]_vars
    PROVE  \/ UNCHANGED vars
           \/ \E i \in Ids, b \in Bases, k \in BOOLEAN : Sign(i, b, k)
           \/ \E q \in Requests : \/ \E r \in signed : Submit(q, r)
                                  \/ Elsewhere(q)
                                  \/ GateSnapshot(q)
                                  \/ InsertRow(q)
BY DEF Next, Step, Progress, Elsewhere

LEMMA PendingOnTopStep == IInv /\ [Next]_vars => PendingOnTop'
<1> SUFFICES ASSUME IInv, [Next]_vars PROVE PendingOnTop'  OBVIOUS
<1>0. PendingOnTop /\ TypeOK  BY DEF IInv
<1>1. \A s, base : OnTopOf(s, base) => OnTopOf(s, base)'  BY RowsGrow DEF OnTopOf
<1>2. ASSUME NEW q \in Requests, GateSnapshot(q) PROVE PendingOnTop'
  <2>1. MaxSeq(rows) \in Nat /\ OnTopOf(MaxSeq(rows) + 1, HeadFor(rows))  BY HeadIsOnTop
  <2>2. ASSUME NEW p \in Requests, pc'[p] \in {"insert", "staged"}
        PROVE  seqNo'[p] \in Nat \ {0} /\ OnTopOf(seqNo[p], rev[p].base)'
    <3>1. CASE p = q
      BY <1>0, <1>1, <1>2, <2>1, <2>2, <3>1 DEF GateSnapshot, GatesPass, Goto, TypeOK
    <3>2. CASE p # q
      BY <1>0, <1>1, <1>2, <2>2, <3>2 DEF GateSnapshot, Goto, TypeOK, PendingOnTop
    <3> QED BY <3>1, <3>2
  <2> QED BY <2>2 DEF PendingOnTop
<1>3. ASSUME NEW q \in Requests, InsertRow(q) PROVE PendingOnTop'
  BY <1>0, <1>1, <1>3 DEF InsertRow, Goto, TypeOK, PendingOnTop
<1>4. ASSUME NEW q \in Requests, Elsewhere(q) PROVE PendingOnTop'
  BY <1>0, <1>1, <1>4, ElsewhereMoves DEF PendingOnTop
<1>5. ASSUME NEW q \in Requests, NEW r \in signed, Submit(q, r) PROVE PendingOnTop'
  BY <1>0, <1>1, <1>5 DEF Submit, Goto, TypeOK, PendingOnTop
<1>6. CASE UNCHANGED vars \/ \E i \in Ids, b \in Bases, k \in BOOLEAN : Sign(i, b, k)
  BY <1>0, <1>1, <1>6 DEF vars, Sign, PendingOnTop
<1> QED BY <1>2, <1>3, <1>4, <1>5, <1>6, Steps

(* A row entering the indexes is checked against committed and staged rows;*)
(* a row leaving the staged set enters the committed one.                  *)
LEMMA StagedApartStep == IInv /\ [Next]_vars => StagedApart'
<1> SUFFICES ASSUME IInv, [Next]_vars PROVE StagedApart'  OBVIOUS
<1>0. StagedApart /\ TypeOK /\ NoHalfInsert  BY DEF IInv
<1>1. ASSUME NEW q \in Requests, InsertRow(q) PROVE StagedApart'
  <2>1. ~Collides(q, rows) /\ ~Collides(q, Staged)  BY <1>1 DEF InsertRow
  <2>2. ASSUME NEW p \in Requests, pc[p] = "staged"
        PROVE  seqNo[p] # seqNo[q] /\ rev[p].id # rev[q].id
    <3> DEFINE row == [seq |-> seqNo[p], rev |-> rev[p]]
    <3>1. row \in Staged  BY <2>2 DEF Staged
    <3>2. row.seq # seqNo[q] /\ row.rev.id # rev[q].id  BY <2>1, <3>1, Zenon DEF Collides
    <3> QED BY <3>2
  <2>3. /\ rows' = rows /\ seqNo' = seqNo /\ rev' = rev
        /\ \A p \in Requests \ {q} : pc'[p] = pc[p]
    BY <1>0, <1>1 DEF InsertRow, Goto, TypeOK
  <2> QED BY <1>0, <2>1, <2>2, <2>3 DEF StagedApart, Collides
<1>2. ASSUME NEW q \in Requests, Elsewhere(q) PROVE StagedApart'
  <2>1. /\ pc'[q] # "staged"
        /\ \A p \in Requests \ {q} : pc'[p] = pc[p] /\ seqNo'[p] = seqNo[p]
        /\ rev' = rev
    BY <1>0, <1>2, ElsewhereMoves
  <2>2. CASE rows' = rows
    BY <1>0, <2>1, <2>2 DEF StagedApart, Collides
  <2>3. CASE CommitTransaction(q) \/ DriverRetryViolation(q)
    <3>1. pc[q] = "staged" /\ rows' = rows \union {[seq |-> seqNo[q], rev |-> rev[q]]}
      BY <2>3 DEF CommitTransaction, DriverRetryViolation, Goto
    <3> QED BY <1>0, <2>1, <3>1 DEF StagedApart, Collides
  <2>4. CASE GatedInsertSqlite(q)
    <3>1. \A p \in Requests : pc[p] # "staged"  BY <1>0, <2>4 DEF GatedInsertSqlite, NoHalfInsert
    <3> QED BY <2>1, <3>1 DEF StagedApart
  <2> QED BY <1>2, <2>2, <2>3, <2>4
       DEF Elsewhere, PrecheckDuplicate, PrecheckFresh, RefuseSize, RefuseUnauthorized,
           PassPolicy, InsertViolation, ClassifyDuplicate, ClassifyStale,
           RecoverInserted, RecoverStale, AnnounceAndAck, AnchorAtBase,
           AnchorUnknown, AnchorAtKeyframe, ReadChain, Fail
<1>3. ASSUME NEW q \in Requests, GateSnapshot(q) PROVE StagedApart'
  <2>1. /\ rows' = rows /\ rev' = rev /\ pc'[q] # "staged"
        /\ \A p \in Requests \ {q} : pc'[p] = pc[p] /\ seqNo'[p] = seqNo[p]
    BY <1>0, <1>3 DEF GateSnapshot, Goto, TypeOK
  <2> QED BY <1>0, <2>1 DEF StagedApart, Collides
<1>4. ASSUME NEW q \in Requests, NEW r \in signed, Submit(q, r) PROVE StagedApart'
  <2>1. /\ rows' = rows /\ seqNo' = seqNo /\ pc'[q] # "staged"
        /\ \A p \in Requests \ {q} : pc'[p] = pc[p] /\ rev'[p] = rev[p]
    BY <1>0, <1>4 DEF Submit, Goto, TypeOK
  <2> QED BY <1>0, <2>1 DEF StagedApart, Collides
<1>5. CASE UNCHANGED vars \/ \E i \in Ids, b \in Bases, k \in BOOLEAN : Sign(i, b, k)
  BY <1>0, <1>5 DEF vars, Sign, StagedApart, Collides
<1> QED BY <1>1, <1>2, <1>3, <1>4, <1>5, Steps

-----------------------------------------------------------------------------
(* A base the gate refuses has been passed, unless the save is a replay.   *)
LEMMA RefusedIsPassed ==
    ASSUME IInv, NEW q \in Requests, pc[q] # "idle",
           HeadFor(rows) # rev[q].base, rev[q].base \in IdsOf(rows)
    PROVE  Passed(rev[q].base)
<1>1. PICK p \in rows : p.rev.id = rev[q].base  BY DEF IdsOf
<1>2. /\ MaxSeq(rows) \in Nat
      /\ SeqsOf(rows) = 1 .. MaxSeq(rows)
      /\ OnTopOf(MaxSeq(rows) + 1, HeadFor(rows))
  BY HeadIsOnTop
<1>3. p.seq \in 1 .. MaxSeq(rows)  BY <1>1, <1>2 DEF SeqsOf
<1>4. p.seq # MaxSeq(rows)
  <2> SUFFICES ASSUME p.seq = MaxSeq(rows) PROVE FALSE  OBVIOUS
  <2>1. PICK h \in rows : h.seq = MaxSeq(rows) /\ h.rev.id = HeadFor(rows)
    BY <1>2, <1>3 DEF OnTopOf
  <2>2. h = p  BY <1>1, <2>1 DEF IInv, UniqueKeys
  <2> QED BY <1>1, <2>1, <2>2
<1>5. p.seq + 1 \in SeqsOf(rows)  BY <1>2, <1>3, <1>4
<1> QED BY <1>1, <1>5 DEF SeqsOf, Passed

LEMMA GateRefuses ==
    ASSUME IInv, NEW q \in Requests, pc[q] # "idle", ~GatesPass(q)
    PROVE  RevisionExists(rev[q].id) \/ Passed(rev[q].base)
<1>1. rev[q].base \in IdsOf(rows) \union Foreign \union {NoBase}
  BY DEF IInv, CarriesRevision, SignedOnKnown
<1>2. CASE rev[q].base = NoBase /\ HeadFor(rows) # NoBase
  BY <1>2 DEF HeadFor, Passed
<1>3. CASE rev[q].base \in Foreign  BY <1>3 DEF Passed
<1> QED BY <1>1, <1>2, <1>3, RefusedIsPassed DEF GatesPass

(* The slot a pending row computed is taken: its base has been passed.     *)
LEMMA CollisionIsPassed ==
    ASSUME IInv, NEW q \in Requests, pc[q] = "insert", Collides(q, rows)
    PROVE  RevisionExists(rev[q].id) \/ Passed(rev[q].base)
<1>1. PICK r \in rows : r.seq = seqNo[q] \/ r.rev.id = rev[q].id  BY DEF Collides
<1>2. CASE r.rev.id = rev[q].id  BY <1>2 DEF RevisionExists, IdsOf
<1>3. CASE r.seq = seqNo[q]
  <2>1. seqNo[q] \in Nat \ {0} /\ OnTopOf(seqNo[q], rev[q].base)  BY DEF IInv, PendingOnTop
  <2>2. CASE seqNo[q] = 1 /\ rev[q].base = NoBase  BY <2>2, <1>1 DEF Passed
  <2>3. ASSUME NEW p \in rows, p.seq = seqNo[q] - 1, p.rev.id = rev[q].base
        PROVE  Passed(rev[q].base)
    <3>1. p.seq + 1 = seqNo[q]  BY <2>1, <2>3
    <3> QED BY <1>1, <1>3, <2>3, <3>1 DEF Passed
  <2> QED BY <2>1, <2>2, <2>3 DEF OnTopOf
<1> QED BY <1>1, <1>2, <1>3

(* Nothing is committed on a base that has been passed.                    *)
LEMMA NotPassed ==
    ASSUME IInv, NEW q \in Requests, Extended(q)
    PROVE  ~Passed(rev[q].base)
<1> SUFFICES ASSUME Passed(rev[q].base) PROVE FALSE  OBVIOUS
<1>1. MaxSeq(rows) \in Nat /\ SeqsOf(rows) = 1 .. MaxSeq(rows)  BY HeadIsOnTop
<1>2. \A r \in rows : r.seq \in 1 .. MaxSeq(rows) /\ r.rev.id \in Ids
  BY <1>1 DEF SeqsOf, IInv, TypeOK, Row, Revision
<1>3. CASE MaxSeq(rows) + 1 = 1 /\ rev[q].base = NoBase
  BY <1>1, <1>2, <1>3, CommitAssumption DEF Passed
<1>4. ASSUME NEW p \in rows, p.seq = MaxSeq(rows) + 1 - 1, p.rev.id = rev[q].base PROVE FALSE
  <2>1. PICK p1, s \in rows : p1.rev.id = rev[q].base /\ s.seq = p1.seq + 1
    BY <1>2, <1>4, CommitAssumption DEF Passed
  <2>2. p1 = p  BY <1>4, <2>1 DEF IInv, UniqueKeys
  <2> QED BY <1>1, <1>2, <1>4, <2>1, <2>2
<1>5. OnTopOf(MaxSeq(rows) + 1, rev[q].base)  BY DEF Extended
<1>6. CASE \E p \in rows : p.seq = MaxSeq(rows) + 1 - 1 /\ p.rev.id = rev[q].base
  BY <1>4, <1>6
<1> QED BY <1>1, <1>3, <1>5, <1>6 DEF OnTopOf

(* What is true of the rows and a request stays true while others move.    *)
LEMMA PassedStays ==
    ASSUME IInv, [Next]_vars, NEW base, Passed(base)
    PROVE  Passed(base)'
BY RowsGrow DEF Passed

LEMMA ExistsStays ==
    ASSUME IInv, [Next]_vars, NEW i, RevisionExists(i)
    PROVE  RevisionExists(i)'
BY RowsGrow DEF RevisionExists, IdsOf

(* No transmission of a revision commits once its base has been passed.    *)
LEMMA AbsentStays ==
    ASSUME IInv, [Next]_vars, NEW q \in Requests, pc[q] # "idle",
           ~RevisionExists(rev[q].id), Passed(rev[q].base)
    PROVE  ~RevisionExists(rev[q].id)' \/ rev'[q] # rev[q]
<1>1. CASE rows' = rows  BY <1>1 DEF RevisionExists, IdsOf
<1>2. ASSUME NEW p \in Requests, Extended(p)
      PROVE  ~RevisionExists(rev[q].id)' \/ rev'[q] # rev[q]
  <2>1. rev[p].id # rev[q].id
    <3>1. rev[p] \in signed /\ rev[q] \in signed
      BY <1>2 DEF Extended, IInv, CarriesRevision
    <3> QED BY <1>2, <3>1, NotPassed DEF IInv, SignedOnKnown
  <2> QED BY <1>2, <2>1 DEF Extended, RevisionExists, IdsOf
<1> QED BY <1>1, <1>2, RowsChange

LEMMA FailedGateStep == IInv /\ [Next]_vars => FailedGate'
<1> SUFFICES ASSUME IInv, [Next]_vars, NEW p \in Requests
             PROVE  /\ pc'[p] \in {"classify", "recover"} =>
                           RevisionExists(rev[p].id)' \/ Passed(rev[p].base)'
                    /\ pc'[p] \in {"anchor", "keyframe", "chain"} \/ answer'[p] = "stale-base" =>
                           ~RevisionExists(rev[p].id)' /\ Passed(rev[p].base)'
    BY DEF FailedGate
<1> DEFINE Failed == /\ pc[p] \in {"classify", "recover"} =>
                            RevisionExists(rev[p].id) \/ Passed(rev[p].base)
                     /\ pc[p] \in {"anchor", "keyframe", "chain"} \/ answer[p] = "stale-base" =>
                            ~RevisionExists(rev[p].id) /\ Passed(rev[p].base)
<1>0. Failed /\ TypeOK  BY DEF IInv, FailedGate
<1>1. answer[p] # "none" => pc[p] = "done"  BY DEF IInv, CarriesRevision
(* What p has learned is not undone by the growth of the chain.            *)
<1>2. ASSUME pc[p] # "idle", rev'[p] = rev[p]
      PROVE  /\ Passed(rev[p].base) => Passed(rev[p].base)'
             /\ RevisionExists(rev[p].id) => RevisionExists(rev[p].id)'
             /\ ~RevisionExists(rev[p].id) /\ Passed(rev[p].base) => ~RevisionExists(rev[p].id)'
  <2>1. Passed(rev[p].base) => \E s \in {rev[p].base} : Passed(s)'
    BY PassedStays
  <2>2. RevisionExists(rev[p].id) => \E s \in {rev[p].id} : RevisionExists(s)'
    BY ExistsStays
  <2> QED BY <1>2, <2>1, <2>2, AbsentStays DEF Passed, RevisionExists
<1> HIDE DEF Failed
<1>3. CASE pc'[p] = pc[p] /\ rev'[p] = rev[p] /\ answer'[p] = answer[p]
  BY <1>0, <1>1, <1>2, <1>3 DEF Failed
<1>4. ASSUME NEW r \in signed, Submit(p, r)
      PROVE  pc'[p] = "precheck" /\ answer'[p] # "stale-base"
  BY <1>0, <1>1, <1>4 DEF Submit, Goto, TypeOK
<1>5. CASE GateSnapshot(p) \/ GatedInsertSqlite(p)
  BY <1>0, <1>1, <1>2, <1>5, GateRefuses DEF GateSnapshot, GatedInsertSqlite, Goto, TypeOK
<1>6. CASE InsertViolation(p)
  BY <1>0, <1>1, <1>2, <1>6, CollisionIsPassed DEF InsertViolation, Goto, TypeOK
<1>7. CASE DriverRetryViolation(p)
  <2> DEFINE row == [seq |-> seqNo[p], rev |-> rev[p]]
  <2>0. row \in rows' /\ row.rev.id = rev'[p].id  BY <1>7 DEF DriverRetryViolation
  <2>1. RevisionExists(rev[p].id)'  BY <2>0 DEF RevisionExists, IdsOf
  <2> QED BY <1>0, <1>1, <1>7, <2>1 DEF DriverRetryViolation, Goto, TypeOK
<1>8. CASE ClassifyStale(p) \/ RecoverStale(p)
  BY <1>0, <1>1, <1>2, <1>8 DEF Failed, ClassifyStale, RecoverStale, Goto, TypeOK
<1>9. CASE AnchorAtBase(p) \/ AnchorUnknown(p) \/ AnchorAtKeyframe(p)
  BY <1>0, <1>1, <1>2, <1>9
     DEF Failed, AnchorAtBase, AnchorUnknown, AnchorAtKeyframe, Goto, TypeOK
<1>10. CASE ReadChain(p)
  BY <1>0, <1>1, <1>2, <1>10 DEF Failed, ReadChain, Reply, Goto, TypeOK
<1>11. CASE PrecheckDuplicate(p) \/ PrecheckFresh(p) \/ RefuseSize(p) \/ RefuseUnauthorized(p)
            \/ PassPolicy(p) \/ InsertRow(p) \/ CommitTransaction(p) \/ ClassifyDuplicate(p)
            \/ RecoverInserted(p) \/ AnnounceAndAck(p) \/ Fail(p)
  <2>1. pc'[p] \notin {"classify", "recover", "anchor", "keyframe", "chain"}
        /\ answer'[p] # "stale-base"
    BY <1>0, <1>1, <1>11
       DEF PrecheckDuplicate, PrecheckFresh, RefuseSize, RefuseUnauthorized, PassPolicy,
           InsertRow, CommitTransaction, ClassifyDuplicate, RecoverInserted, AnnounceAndAck,
           Fail, Goto, Reply, TypeOK
  <2> QED BY <2>1
<1>12. ASSUME NEW q \in Requests, q # p,
              Progress(q) \/ DriverRetryViolation(q) \/ Fail(q) \/ \E r \in signed : Submit(q, r)
       PROVE  pc'[p] = pc[p] /\ rev'[p] = rev[p] /\ answer'[p] = answer[p]
  BY <1>0, <1>12
     DEF Progress, Goto, Reply, TypeOK, Submit,
         PrecheckDuplicate, PrecheckFresh, RefuseSize, RefuseUnauthorized,
         PassPolicy, GateSnapshot, InsertRow, InsertViolation, CommitTransaction,
         DriverRetryViolation, GatedInsertSqlite, ClassifyDuplicate, ClassifyStale,
         RecoverInserted, RecoverStale, AnnounceAndAck, AnchorAtBase,
         AnchorUnknown, AnchorAtKeyframe, ReadChain, Fail
<1>13. CASE UNCHANGED vars \/ \E i \in Ids, b \in Bases, k \in BOOLEAN : Sign(i, b, k)
  BY <1>3, <1>13 DEF vars, Sign
<1> QED BY <1>3, <1>4, <1>5, <1>6, <1>7, <1>8, <1>9, <1>10, <1>11, <1>12, <1>13
        DEF Next, Step, Progress

LEMMA InsertedIsDurableStep == IInv /\ [Next]_vars => InsertedIsDurable'
<1> SUFFICES ASSUME IInv, [Next]_vars, NEW p \in Requests,
                    pc'[p] = "inserted" \/ answer'[p] \in {"ack", "duplicate"}
             PROVE  RevisionExists(rev[p].id)'
    BY DEF InsertedIsDurable
<1>0. TypeOK  BY DEF IInv
<1>1. answer[p] # "none" => pc[p] = "done"  BY DEF IInv, CarriesRevision
<1>2. CASE rev'[p] = rev[p] /\ RevisionExists(rev[p].id)
  <2>1. \E i \in {rev[p].id} : RevisionExists(i)'  BY <1>2, ExistsStays
  <2> QED BY <1>2, <2>1 DEF RevisionExists
<1>3. CASE CommitTransaction(p) \/ (GatedInsertSqlite(p) /\ GatesPass(p))
  <2>1. \E s \in {seqNo[p], MaxSeq(rows) + 1} :
            [seq |-> s, rev |-> rev[p]] \in rows' /\ rev' = rev
    BY <1>3 DEF CommitTransaction, GatedInsertSqlite
  <2>2. \E r \in rows' : r.rev.id = rev'[p].id  BY <2>1
  <2> QED BY <2>2 DEF RevisionExists, IdsOf
<1>4. CASE pc'[p] = pc[p] /\ rev'[p] = rev[p] /\ answer'[p] = answer[p]
  BY <1>2, <1>4 DEF IInv, InsertedIsDurable
<1>5. CASE PrecheckDuplicate(p) \/ ClassifyDuplicate(p) \/ RecoverInserted(p)
  BY <1>2, <1>5 DEF PrecheckDuplicate, ClassifyDuplicate, RecoverInserted
<1>6. CASE AnnounceAndAck(p)
  BY <1>2, <1>6 DEF AnnounceAndAck, Reply, Goto, IInv, InsertedIsDurable
<1>7. CASE PrecheckFresh(p) \/ RefuseSize(p) \/ RefuseUnauthorized(p)
           \/ PassPolicy(p) \/ InsertRow(p) \/ InsertViolation(p) \/ GateSnapshot(p)
           \/ (GatedInsertSqlite(p) /\ ~GatesPass(p))
           \/ DriverRetryViolation(p) \/ ClassifyStale(p) \/ RecoverStale(p)
           \/ AnchorAtBase(p) \/ AnchorUnknown(p) \/ AnchorAtKeyframe(p) \/ ReadChain(p)
           \/ Fail(p)
  BY <1>0, <1>1, <1>7
     DEF PrecheckFresh, RefuseSize, RefuseUnauthorized, PassPolicy,
         InsertRow, InsertViolation, GateSnapshot, GatedInsertSqlite,
         DriverRetryViolation, ClassifyStale, RecoverStale, AnchorAtBase, AnchorUnknown, AnchorAtKeyframe, ReadChain,
         Fail, Goto, Reply, TypeOK
<1>10. ASSUME NEW r \in signed, Submit(p, r) PROVE FALSE
  BY <1>0, <1>1, <1>10 DEF Submit, Goto, TypeOK
<1>8. ASSUME NEW q \in Requests, q # p,
             Progress(q) \/ DriverRetryViolation(q) \/ Fail(q) \/ \E r \in signed : Submit(q, r)
      PROVE  pc'[p] = pc[p] /\ rev'[p] = rev[p] /\ answer'[p] = answer[p]
  BY <1>0, <1>8
     DEF Progress, Goto, Reply, TypeOK, Submit,
         PrecheckDuplicate, PrecheckFresh, RefuseSize, RefuseUnauthorized,
         PassPolicy, GateSnapshot, InsertRow, InsertViolation, CommitTransaction,
         DriverRetryViolation, GatedInsertSqlite, ClassifyDuplicate, ClassifyStale,
         RecoverInserted, RecoverStale, AnnounceAndAck, AnchorAtBase,
         AnchorUnknown, AnchorAtKeyframe, ReadChain, Fail
<1>9. CASE UNCHANGED vars \/ \E i \in Ids, b \in Bases, k \in BOOLEAN : Sign(i, b, k)
  BY <1>4, <1>9 DEF vars, Sign
<1>11. CASE Progress(p)  BY <1>3, <1>5, <1>6, <1>7, <1>11 DEF Progress
<1>12. CASE DriverRetryViolation(p) \/ Fail(p)  BY <1>7, <1>12
<1>13. CASE \E q \in Requests : q # p /\ (Progress(q) \/ DriverRetryViolation(q) \/ Fail(q)
                                         \/ \E r \in signed : Submit(q, r))
  BY <1>4, <1>8, <1>13
<1> QED BY <1>9, <1>10, <1>11, <1>12, <1>13 DEF Next, Step

-----------------------------------------------------------------------------
LEMMA StepIInv == IInv /\ [Next]_vars => IInv'
BY TypeStep, ChainStep, NoHalfInsertStep, CarriesRevisionStep, PendingOnTopStep,
   StagedApartStep, SignedOnKnownStep, FailedGateStep, InsertedIsDurableStep DEF IInv

LEMMA Invariance == Spec => []IInv
BY InitIInv, StepIInv, PTL DEF Spec

(* The chain of rows that IInv describes is the linear one.                *)
LEMMA IInvLinear == IInv => LinearChain
<1> SUFFICES ASSUME IInv PROVE LinearChain  OBVIOUS
<1>1. PICK n \in Nat : SeqsOf(rows) = 1 .. n  BY DEF IInv, Contiguous
<1>2. \A r \in rows : r.seq \in 1 .. n  BY <1>1 DEF SeqsOf
<1>3. \A r \in rows : \A s \in 1 .. r.seq : \E p \in rows : p.seq = s
  <2> SUFFICES ASSUME NEW r \in rows, NEW s \in 1 .. r.seq PROVE s \in SeqsOf(rows)
      BY DEF SeqsOf
  <2> QED BY <1>1, <1>2
<1>4. \A r \in rows : r.seq = 1 => r.rev.base = NoBase
  BY <1>2 DEF IInv, OnTopOf
<1>5. \A r1, r2 \in rows : r2.seq = r1.seq + 1 => r2.rev.base = r1.rev.id
  BY <1>2 DEF IInv, OnTopOf, UniqueKeys
<1> QED BY <1>3, <1>4, <1>5 DEF LinearChain, IInv, UniqueKeys

(* Every reachable state has the shape the code gives its variables.       *)
THEOREM TypeCorrect == Spec => []TypeOK
<1>1. IInv => TypeOK  BY DEF IInv
<1> QED BY Invariance, <1>1, PTL

(* However many replicas commit at once, without a lock, the revisions of  *)
(* a workspace form one gap-free chain, never a fork.                      *)
THEOREM ChainStaysLinear == Spec => []LinearChain
BY Invariance, IInvLinear, PTL

(* A save acknowledged by any path of commitSave is committed for good.    *)
THEOREM AcksAreDurable == Spec => []AckedIsDurable
<1>1. IInv => AckedIsDurable  BY DEF IInv, InsertedIsDurable, AckedIsDurable
<1> QED BY Invariance, <1>1, PTL

(* A revision answered stale-base can never be committed afterwards, by    *)
(* whichever of its transmissions.                                         *)
THEOREM StaleSavesStayDead == Spec => []StaleIsFinal
<1>1. IInv => StaleIsFinal  BY DEF IInv, FailedGate, StaleIsFinal
<1> QED BY Invariance, <1>1, PTL

=============================================================================
