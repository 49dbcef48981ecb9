--------------------------- MODULE RevisionCommit ---------------------------
(***************************************************************************)
(* The relay's save pipeline for one workspace tag: commitSave of          *)
(* server-e2e/sync-handlers.ts over the gated INSERT of                    *)
(* server-e2e/db-neon.ts (many replicas on one Postgres) or                *)
(* server-e2e/db.ts (one process on SQLite), and the catch-up chain that a *)
(* stale save is answered with.  No lock is taken anywhere: the chain is   *)
(* kept linear by one statement snapshot plus the two unique indexes.      *)
(*                                                                         *)
(* A member of Requests is one call of commitSave.  It runs on any replica *)
(* and every await of the code is a step boundary, so requests of          *)
(* different replicas interleave as freely as those of one process.        *)
(* Every query of the code is WHERE workspace_tag = $1, so one tag is      *)
(* enough.  Shape validation and the signature check are assumed to pass.  *)
(***************************************************************************)
EXTENDS Naturals

CONSTANTS
    Requests,   \* calls of commitSave
    Ids,        \* content-addressed revision ids
    Foreign,    \* ids of a chain this database no longer has (wiped, moved)
    NoBase,     \* the base of a keyframe root
    Gated,      \* requests of connections the operator has not authorised
    Oversize,   \* ids whose ciphertext is over MAX_CIPHERTEXT_LEN
    Backends    \* the databases the relay is run on, of "neon" and "sqlite"

ASSUME CommitAssumption ==
    /\ NoBase \notin Ids \union Foreign
    /\ Foreign \intersect Ids = {}
    /\ Gated \subseteq Requests
    /\ Oversize \subseteq Ids
    /\ Backends \subseteq {"neon", "sqlite"}

Bases == Ids \union Foreign \union {NoBase}

(* An id is the hash of base, keyframe flag and ciphertext.                *)
Revision == [id : Ids, base : Bases, keyframe : BOOLEAN]

NoRevision == [id |-> NoBase, base |-> NoBase, keyframe |-> FALSE]

Row == [seq : Nat \ {0}, rev : {r \in Revision : r.id \notin Oversize}]

Answers == {"none", "ack", "duplicate", "stale-base", "too-large",
            "unauthorized", "failed"}

VARIABLES
    backend,    \* the database of this deployment, chosen at the start
    signed,     \* revisions the clients have signed so far
    rows,       \* committed rows of workspace_revision
    pc,         \* where each request stands
    rev,        \* the revision it carries
    seqNo,      \* the seq its gated INSERT computed, or the first seq of its catch-up
    answer,     \* what commitSave returned
    tail,       \* ids of the catch-up a stale save is answered with
    announced   \* ids broadcast to subscribers

vars == <<backend, signed, rows, pc, rev, seqNo, answer, tail, announced>>

-----------------------------------------------------------------------------
(* Queries.  Each is one statement and reads one snapshot.                 *)

IdsOf(rs) == {r.rev.id : r \in rs}
SeqsOf(rs) == {r.seq : r \in rs}

(* COALESCE((SELECT MAX(seq) ...), 0)                                      *)
MaxSeq(rs) == IF rs = {} THEN 0
              ELSE CHOOSE s \in SeqsOf(rs) : \A t \in SeqsOf(rs) : t <= s

HeadFor(rs) == IF rs = {} THEN NoBase
               ELSE (CHOOSE r \in rs : r.seq = MaxSeq(rs)).rev.id

RevisionExists(i) == i \in IdsOf(rows)

Keyframes(rs) == {r \in rs : r.rev.keyframe}

(* A row another transaction holds in the unique indexes but has not       *)
(* committed: visible to no snapshot, and inserting against it waits.      *)
Staged == {[seq |-> seqNo[q], rev |-> rev[q]] : q \in {p \in Requests : pc[p] = "staged"}}

(* Faulty variants of what follows, which the properties must catch.       *)
FaultyCollides(q, rs) == \E r \in rs : r.rev.id = rev[q].id             \* no (tag, seq) key
FaultyGatesPass(q) == ~RevisionExists(rev[q].id)                        \* no head gate

ChainFromSeq(s) == {r \in rows : r.seq >= s}

(* PRIMARY KEY (workspace_tag, seq) and UNIQUE (workspace_tag, id)         *)
Collides(q, rs) == \E r \in rs : r.seq = seqNo[q] \/ r.rev.id = rev[q].id

-----------------------------------------------------------------------------
Init ==
    /\ backend \in Backends
    /\ signed = {}
    /\ rows = {}
    /\ pc = [q \in Requests |-> "idle"]
    /\ rev = [q \in Requests |-> NoRevision]
    /\ seqNo = [q \in Requests |-> 0]
    /\ answer = [q \in Requests |-> "none"]
    /\ tail = [q \in Requests |-> {}]
    /\ announced = {}

Goto(q, from, to) == pc[q] = from /\ pc' = [pc EXCEPT ![q] = to]

Reply(q, from, kind) == Goto(q, from, "done") /\ answer' = [answer EXCEPT ![q] = kind]

(* Faulty variants of the steps below: a recovery clause that asks nothing,*)
(* or that answers as for a replay; a violation seen for one index only; a *)
(* policy check that lets ciphertexts of any length through.               *)
FaultyRecoverInserted(q) ==
    /\ Goto(q, "recover", "inserted")
    /\ UNCHANGED <<signed, rows, rev, seqNo, answer, tail, announced>>

FaultyRecoverStale(q) ==
    /\ Goto(q, "recover", "anchor")
    /\ UNCHANGED <<signed, rows, rev, seqNo, answer, tail, announced>>

SwallowingRecoverInserted(q) ==
    /\ RevisionExists(rev[q].id)
    /\ Reply(q, "recover", "duplicate")
    /\ UNCHANGED <<signed, rows, rev, seqNo, tail, announced>>

FaultyInsertViolation(q) ==
    /\ \E r \in rows : r.rev.id = rev[q].id
    /\ Goto(q, "insert", "recover")
    /\ UNCHANGED <<signed, rows, rev, seqNo, answer, tail, announced>>

LengthlessPassPolicy(q) ==
    /\ Goto(q, "policy", "commit")
    /\ UNCHANGED <<signed, rows, rev, seqNo, answer, tail, announced>>

(* A client signs a new revision.  It can only build on an id it has seen  *)
(* acknowledged or broadcast, on nothing, or on a base of a lost chain.    *)
Sign(i, b, k) ==
    /\ \A r \in signed : r.id # i
    /\ b \in IdsOf(rows) \union Foreign \union {NoBase}
    /\ signed' = signed \union {[id |-> i, base |-> b, keyframe |-> k]}
    /\ UNCHANGED <<rows, pc, rev, seqNo, answer, tail, announced>>

(* The save frame reaches a replica: first transmission or retransmission. *)
Submit(q, r) ==
    /\ Goto(q, "idle", "precheck")
    /\ rev' = [rev EXCEPT ![q] = r]
    /\ UNCHANGED <<signed, rows, seqNo, answer, tail, announced>>

(* revisionExists before the signature check: a replay is acked as is.     *)
PrecheckDuplicate(q) ==
    /\ RevisionExists(rev[q].id)
    /\ Reply(q, "precheck", "duplicate")
    /\ UNCHANGED <<signed, rows, rev, seqNo, tail, announced>>

PrecheckFresh(q) ==
    /\ ~RevisionExists(rev[q].id)
    /\ Goto(q, "precheck", "policy")
    /\ UNCHANGED <<signed, rows, rev, seqNo, answer, tail, announced>>

RefuseSize(q) ==
    /\ rev[q].id \in Oversize
    /\ Reply(q, "policy", "too-large")
    /\ UNCHANGED <<signed, rows, rev, seqNo, tail, announced>>

(* authRequired /\ ~workspaceExists(tag).  An object row would make the    *)
(* workspace exist without any revision; whether there is one is left open,*)
(* so a gated request may pass (PassPolicy) or be refused here.            *)
RefuseUnauthorized(q) ==
    /\ rev[q].id \notin Oversize
    /\ q \in Gated /\ rows = {}
    /\ Reply(q, "policy", "unauthorized")
    /\ UNCHANGED <<signed, rows, rev, seqNo, tail, announced>>

PassPolicy(q) ==
    /\ rev[q].id \notin Oversize
    /\ Goto(q, "policy", "commit")
    /\ UNCHANGED <<signed, rows, rev, seqNo, answer, tail, announced>>

(* The WHERE clause of the gated INSERT.                                   *)
GatesPass(q) == ~RevisionExists(rev[q].id) /\ HeadFor(rows) = rev[q].base

(* Both gates fail or pass, and the seq is computed, in one snapshot.      *)
GateSnapshot(q) ==
    /\ backend = "neon"
    /\ IF GatesPass(q)
         THEN /\ Goto(q, "commit", "insert")
              /\ seqNo' = [seqNo EXCEPT ![q] = MaxSeq(rows) + 1]
         ELSE Goto(q, "commit", "classify") /\ UNCHANGED seqNo
    /\ UNCHANGED <<signed, rows, rev, answer, tail, announced>>

(* The row enters the unique indexes, unless a concurrent uncommitted row  *)
(* makes the statement wait for that transaction to end.                   *)
InsertRow(q) ==
    /\ ~Collides(q, rows)
    /\ ~Collides(q, Staged)
    /\ Goto(q, "insert", "staged")
    /\ UNCHANGED <<signed, rows, rev, seqNo, answer, tail, announced>>

(* Unique violation: the transaction aborts, the catch clause runs.        *)
InsertViolation(q) ==
    /\ Collides(q, rows)
    /\ Goto(q, "insert", "recover")
    /\ UNCHANGED <<signed, rows, rev, seqNo, answer, tail, announced>>

CommitTransaction(q) ==
    /\ Goto(q, "staged", "inserted")
    /\ rows' = rows \union {[seq |-> seqNo[q], rev |-> rev[q]]}
    /\ UNCHANGED <<signed, rev, seqNo, answer, tail, announced>>

(* The row is committed, but the driver's retry layer reports it to us as  *)
(* a unique violation.                                                     *)
DriverRetryViolation(q) ==
    /\ Goto(q, "staged", "recover")
    /\ rows' = rows \union {[seq |-> seqNo[q], rev |-> rev[q]]}
    /\ UNCHANGED <<signed, rev, seqNo, answer, tail, announced>>

(* node:sqlite runs the whole gated INSERT without yielding.               *)
GatedInsertSqlite(q) ==
    /\ backend = "sqlite"
    /\ IF GatesPass(q)
         THEN /\ Goto(q, "commit", "inserted")
              /\ seqNo' = [seqNo EXCEPT ![q] = MaxSeq(rows) + 1]
              /\ rows' = rows \union {[seq |-> MaxSeq(rows) + 1, rev |-> rev[q]]}
         ELSE Goto(q, "commit", "classify") /\ UNCHANGED <<seqNo, rows>>
    /\ UNCHANGED <<signed, rev, answer, tail, announced>>

(* No row returned: read again, in a later snapshot, to tell a             *)
(* retransmission from a base the head has moved past.                     *)
ClassifyDuplicate(q) ==
    /\ RevisionExists(rev[q].id)
    /\ Reply(q, "classify", "duplicate")
    /\ UNCHANGED <<signed, rows, rev, seqNo, tail, announced>>

ClassifyStale(q) ==
    /\ ~RevisionExists(rev[q].id)
    /\ Goto(q, "classify", "anchor")
    /\ UNCHANGED <<signed, rows, rev, seqNo, answer, tail, announced>>

(* The catch clause: a row that is there counts as inserted (and is        *)
(* broadcast), whoever put it there.                                       *)
RecoverInserted(q) ==
    /\ RevisionExists(rev[q].id)
    /\ Goto(q, "recover", "inserted")
    /\ UNCHANGED <<signed, rows, rev, seqNo, answer, tail, announced>>

RecoverStale(q) ==
    /\ ~RevisionExists(rev[q].id)
    /\ Goto(q, "recover", "anchor")
    /\ UNCHANGED <<signed, rows, rev, seqNo, answer, tail, announced>>

(* broadcast and publishRevision are fire-and-forget; the ack follows.     *)
AnnounceAndAck(q) ==
    /\ Reply(q, "inserted", "ack")
    /\ announced' = announced \union {rev[q].id}
    /\ UNCHANGED <<signed, rows, rev, seqNo, tail>>

(* chainFrom, first read: the seq of the client's base.                    *)
AnchorAtBase(q) ==
    /\ RevisionExists(rev[q].base)
    /\ Goto(q, "anchor", "chain")
    /\ seqNo' = [seqNo EXCEPT ![q] = (CHOOSE r \in rows : r.rev.id = rev[q].base).seq + 1]
    /\ UNCHANGED <<signed, rows, rev, answer, tail, announced>>

AnchorUnknown(q) ==
    /\ ~RevisionExists(rev[q].base)
    /\ Goto(q, "anchor", "keyframe")
    /\ UNCHANGED <<signed, rows, rev, seqNo, answer, tail, announced>>

(* chainFrom, second read: the last keyframe, or everything.               *)
AnchorAtKeyframe(q) ==
    /\ Goto(q, "keyframe", "chain")
    /\ seqNo' = [seqNo EXCEPT ![q] = MaxSeq(Keyframes(rows))]
    /\ UNCHANGED <<signed, rows, rev, answer, tail, announced>>

(* chainFrom, last read; the rows have grown since the anchor was read.    *)
ReadChain(q) ==
    /\ Reply(q, "chain", "stale-base")
    /\ tail' = [tail EXCEPT ![q] = IdsOf(ChainFromSeq(seqNo[q]))]
    /\ UNCHANGED <<signed, rows, rev, seqNo, announced>>

(* A driver error that is no unique violation, a lost response or a crash  *)
(* of the replica: the open transaction rolls back, a committed row stays. *)
Fail(q) ==
    /\ pc[q] \notin {"idle", "done"}
    /\ pc' = [pc EXCEPT ![q] = "done"]
    /\ answer' = [answer EXCEPT ![q] = "failed"]
    /\ UNCHANGED <<signed, rows, rev, seqNo, tail, announced>>

Progress(q) ==
    \/ PrecheckDuplicate(q) \/ PrecheckFresh(q)
    \/ RefuseSize(q) \/ RefuseUnauthorized(q) \/ PassPolicy(q)
    \/ GateSnapshot(q) \/ InsertRow(q) \/ InsertViolation(q)
    \/ CommitTransaction(q) \/ GatedInsertSqlite(q)
    \/ ClassifyDuplicate(q) \/ ClassifyStale(q)
    \/ RecoverInserted(q) \/ RecoverStale(q)
    \/ AnnounceAndAck(q)
    \/ AnchorAtBase(q) \/ AnchorUnknown(q) \/ AnchorAtKeyframe(q) \/ ReadChain(q)

Step ==
    \/ \E i \in Ids, b \in Bases, k \in BOOLEAN : Sign(i, b, k)
    \/ \E q \in Requests : \/ \E r \in signed : Submit(q, r)
                           \/ Progress(q)
                           \/ DriverRetryViolation(q)
                           \/ Fail(q)

Next == Step /\ UNCHANGED backend

Spec == Init /\ [][Next]_vars

(* A handler whose promise settles is resumed by the event loop, and       *)
(* Postgres ends a lock wait when the transaction holding it ends.         *)
FairSpec == Spec /\ \A q \in Requests : WF_vars(Progress(q) /\ UNCHANGED backend)

-----------------------------------------------------------------------------
PCs == {"idle", "precheck", "policy", "commit", "insert", "staged", "inserted",
        "classify", "recover", "anchor", "keyframe", "chain", "done"}

(* Every variable has the shape the code gives it: no row of the chain     *)
(* exceeds MAX_CIPHERTEXT_LEN, by whichever way it was committed, and a    *)
(* commitSave is over exactly when it has an answer.                       *)
TypeOK ==
    /\ backend \in Backends
    /\ signed \subseteq Revision
    /\ rows \subseteq Row
    /\ pc \in [Requests -> PCs]
    /\ rev \in [Requests -> Revision \union {NoRevision}]
    /\ seqNo \in [Requests -> Nat]
    /\ answer \in [Requests -> Answers]
    /\ \A q \in Requests : answer[q] = "none" <=> pc[q] # "done"
    /\ tail \in [Requests -> SUBSET Ids]
    /\ announced \subseteq Ids

(* "Exactly one replica commits, never a silent fork" (db-neon.ts): seqs   *)
(* are gap-free from 1, and every revision builds on the one right before. *)
LinearChain ==
    /\ \A r \in rows : \A s \in 1 .. r.seq : \E p \in rows : p.seq = s
    /\ \A r1, r2 \in rows : r1.seq = r2.seq \/ r1.rev.id = r2.rev.id => r1 = r2
    /\ \A r \in rows : r.seq = 1 => r.rev.base = NoBase
    /\ \A r1, r2 \in rows : r2.seq = r1.seq + 1 => r2.rev.base = r1.rev.id

(* An ack, also of a retransmission that lost every race, is only ever     *)
(* sent for a revision that is committed and stays so.                     *)
AckedIsDurable ==
    \A q \in Requests : answer[q] \in {"ack", "duplicate"} => RevisionExists(rev[q].id)

(* A save answered stale-base is dead: no other transmission of the same   *)
(* revision, in flight or yet to come, can commit it behind the client's   *)
(* back after the client has rebased it into a new revision.               *)
StaleIsFinal ==
    \A q \in Requests : pc[q] \in {"anchor", "keyframe", "chain"} \/ answer[q] = "stale-base"
                            => ~RevisionExists(rev[q].id)

(* A stale save whose base is in the chain is answered with every revision *)
(* after that base up to some head, at least one.  An empty catch-up       *)
(* therefore means the base is unknown, which is what lets the client take *)
(* it for a lost chain and push its full state (sync-handlers.ts 248-254). *)
CatchUpAdvances ==
    \A q \in Requests : answer[q] = "stale-base" =>
        /\ rev[q].base = NoBase => tail[q] # {}
        /\ \A b \in rows : b.rev.id = rev[q].base =>
               \E h \in rows : /\ h.seq > b.seq
                               /\ tail[q] = {r.rev.id : r \in {s \in rows : s.seq \in b.seq + 1 .. h.seq}}

(* A catch-up for a base the chain does not hold is a run of the chain     *)
(* that starts at the root or at a keyframe, so that it can be applied     *)
(* without the revisions before it.                                        *)
CatchUpStandsAlone ==
    \A q \in Requests : answer[q] = "stale-base" /\ ~RevisionExists(rev[q].base) /\ tail[q] # {} =>
        \E f, h \in rows : /\ f.seq = 1 \/ f.rev.keyframe
                           /\ tail[q] = {r.rev.id : r \in {s \in rows : s.seq \in f.seq .. h.seq}}

(* What a refused client is sent lets it go on from where it stands, or    *)
(* start over, however the chain grew between the statements of commitSave *)
(* and chainFrom.                                                          *)
CatchUpSound == CatchUpAdvances /\ CatchUpStandsAlone

(* Subscribers hear of a revision only once it is committed, and a         *)
(* committed revision stays unannounced only while the request that put it *)
(* there is still under way, or because that request failed: no path       *)
(* through the recovery clause swallows a broadcast.                       *)
NoSwallowedBroadcast ==
    /\ announced \subseteq IdsOf(rows)
    /\ \A r \in rows : r.rev.id \notin announced =>
           \E q \in Requests : /\ rev[q] = r.rev
                               /\ pc[q] \in {"inserted", "recover"} \/ answer[q] = "failed"

(* Nobody is left behind: the refused client can go on from its catch-up,  *)
(* and the subscribers hear of what was committed.                         *)
NobodyLeftBehind == CatchUpSound /\ NoSwallowedBroadcast

(* Every save is answered, also one whose insert waits for another         *)
(* transaction to end.                                                     *)
EverySaveAnswered == \A q \in Requests : pc[q] = "precheck" ~> pc[q] = "done"

-----------------------------------------------------------------------------
(* The abstract chain these steps implement.                               *)
Log == [n \in 1 .. MaxSeq(rows) |-> (CHOOSE r \in rows : r.seq = n).rev]

Chain == INSTANCE RevisionChain WITH
            log <- Log,
            answers <- {[req |-> q, kind |-> answer[q], rev |-> rev[q], tail |-> tail[q]] :
                            q \in {p \in Requests : answer[p] # "none"}}

(* What every replica together does is what one serial chain would do.     *)
ImplementsChain == Chain!Spec

=============================================================================
