------------------------------ MODULE ObjStore ------------------------------
(***************************************************************************)
(* The byte plane of one stored object: server-e2e/objstore/store.ts       *)
(* (beginPut, commitPut, abortPut, deleteObject), the REST upload of       *)
(* rest.ts that drives it and the garbage collector of reaper.ts, over a   *)
(* database row and a blob backend that share no transaction.  No lock is  *)
(* taken: the row changes by compare-and-set on (version, incarnation),    *)
(* bytes are content-addressed, and age protects what is in use.           *)
(*                                                                         *)
(* A put is one put-begin: one staging id and, since every encryption uses *)
(* a fresh nonce, one content hash.  Its token is a bearer capability, so  *)
(* several uploads (PUT requests, retries or replays) may carry it.        *)
(*                                                                         *)
(* Time is what the code compares: whether a timestamp is more than the    *)
(* staging TTL (one hour) in the past.  A timestamp becomes old by         *)
(* ExpireRow and ExpireBlob; their guards are the timing assumptions.      *)
(***************************************************************************)
EXTENDS Naturals

CONSTANTS
    Puts,       \* put-begins: staging ids and content hashes
    Uploads,    \* PUT requests
    Deletes,    \* delete requests
    Reapers,    \* replicas that run the reaper
    Deployments,
                \* what a behaviour is given: the backend, "fs" or "vercel";
                \* the replicas, processes that serve uploads; whether tokens
                \* may be presented more than once (replays); and whether an
                \* upload's body may take longer than the TTL (slow)
    None

(* A live row; an incarnation is a random id, here the upload that minted  *)
(* it.  NoRow is the absence of a row, and the null precondition.          *)
Row == [version : Nat \ {0}, inc : Uploads, put : Puts]
NoRow == [version |-> 0, inc |-> None, put |-> None]
Key(r) == [version |-> r.version, inc |-> r.inc]
Keys == [version : Nat, inc : Uploads \union {None}]

ASSUME ObjStoreAssumption ==
    /\ None \notin Puts \union Uploads /\ None \notin Keys
    /\ \A d \in Deployments :
         /\ d.backend \in {"fs", "vercel"} /\ None \notin d.replicas
         /\ d.backend = "fs" => \E w \in d.replicas : d.replicas = {w}
         /\ d.replays \in BOOLEAN /\ d.slow \in BOOLEAN /\ ~(d.replays /\ d.slow)

VARIABLES
    deployment, \* the one this behaviour runs on, fixed
    live,       \* the row of workspace_object
    past,       \* every row there has been (history)
    rows,       \* puts whose staging row exists
    want,       \* the precondition stored in it; None before the begin
    staged,     \* staging blob of each put: "none", "partial" or "whole"
    blobs,      \* live blob of each put's hash, likewise
    oldRows,    \* staging rows whose begun_at is older than the TTL
    oldBlobs,   \* live blobs last modified more than the TTL ago
    renewedBy,  \* the upload that last refreshed begun_at
    expired,    \* puts whose token has expired
    pc, token, at, answer,      \* uploads: stage, put, replica, reply
    dpc, dkey,                  \* deletes: stage, precondition
    rpc, cutRows, cutBlobs, todo, pick, aborted, listed
                \* reapers: stage, what is old as of the start of the sweep,
                \* what is left of the current listing, what is being removed,
                \* the reapers that have lost a sweep half-way, and whether
                \* this workspace is in the sweep's liveTags, then its topLevel

byteVars == <<staged, blobs>>
rowVars == <<live, past>>
stagingVars == <<rows, want, renewedBy>>
ageVars == <<oldRows, oldBlobs, expired>>
uploadVars == <<pc, token, at, answer>>
deleteVars == <<dpc, dkey>>
sweepVars == <<rpc, cutRows, cutBlobs, todo, pick, aborted, listed>>
vars == <<deployment, rowVars, stagingVars, byteVars, ageVars, uploadVars, deleteVars, sweepVars>>

Init ==
    /\ deployment \in Deployments
    /\ live = NoRow
    /\ past = {}
    /\ rows = {}
    /\ want = [p \in Puts |-> None]
    /\ staged = [p \in Puts |-> "none"]
    /\ blobs = [p \in Puts |-> "none"]
    /\ oldRows = {}
    /\ oldBlobs = {}
    /\ renewedBy = [p \in Puts |-> None]
    /\ expired = {}
    /\ pc = [u \in Uploads |-> "idle"]
    /\ token = [u \in Uploads |-> None]
    /\ at = [u \in Uploads |-> None]
    /\ answer = [u \in Uploads |-> "none"]
    /\ dpc = [d \in Deletes |-> "idle"]
    /\ dkey = [d \in Deletes |-> Key(NoRow)]
    /\ rpc = [r \in Reapers |-> "idle"]
    /\ cutRows = [r \in Reapers |-> {}]
    /\ cutBlobs = [r \in Reapers |-> {}]
    /\ todo = [r \in Reapers |-> {}]
    /\ pick = [r \in Reapers |-> None]
    /\ aborted = {}
    /\ listed = [r \in Reapers |-> {}]

Goto(u, from, to) == pc[u] = from /\ pc' = [pc EXCEPT ![u] = to]

(* The request ends, or first runs abortPut, with this reply.              *)
End(u, from, to, reply) == Goto(u, from, to) /\ answer' = [answer EXCEPT ![u] = reply]

Put(p, f, s) == [f EXCEPT ![p] = s]

(* begun_at of p, or the time its live blob was modified, becomes now.     *)
RenewRow(p) ==
    /\ oldRows' = oldRows \ {p}
    /\ cutRows' = [r \in Reapers |-> cutRows[r] \ {p}]

RenewBlob(p) ==
    /\ oldBlobs' = oldBlobs \ {p}
    /\ cutBlobs' = [r \in Reapers |-> cutBlobs[r] \ {p}]

(* inFlightSids of one process.                                            *)
Holding == {"body", "stat", "refresh", "select", "compare", "promote", "cas",
            "unstage", "unrow", "abort", "abortrow"}
InFlightSids(w) == {token[u] : u \in {v \in Uploads : at[v] = w /\ pc[v] \in Holding}}

-----------------------------------------------------------------------------
(* The blob backends.  The file system's writer creates or truncates the   *)
(* staging file at once; the hosted store's shows nothing before the whole *)
(* body is in.  A file unlinked while it is written stays gone.            *)
OpenStagingWriter(p) ==
    staged' = IF deployment.backend = "fs" THEN Put(p, staged, "partial") ELSE staged

FinalizeWriter(p) ==
    staged' = IF deployment.backend = "fs" /\ staged[p] = "none" THEN staged ELSE Put(p, staged, "whole")

StatStaging(p) == staged[p]

(* Promotion makes the staging bytes the live ones: a rename takes the     *)
(* staging file away, a copy leaves it.                                    *)
RenameStagedToLive(p) ==
    /\ blobs' = Put(p, blobs, staged[p])
    /\ staged' = Put(p, staged, "none")

CopyStagedToLive(p) ==
    /\ blobs' = Put(p, blobs, staged[p])
    /\ UNCHANGED staged

ListLiveBlobs == {p \in Puts : blobs[p] # "none"}
ListStagingIds == {p \in Puts : staged[p] # "none"}

(* listWorkspaceTags: a begin makes a directory that nobody removes; the   *)
(* hosted store's folders are there while something is in them.            *)
WorkspaceIsListed ==
    IF deployment.backend = "fs" THEN \E p \in Puts : want[p] # None
                                 ELSE ListLiveBlobs \union ListStagingIds # {}

-----------------------------------------------------------------------------
(* put-begin.  The check of the precondition is advisory; a begin that     *)
(* fails it changes nothing.                                               *)
Begin(p) ==
    /\ want[p] = None
    /\ want' = [want EXCEPT ![p] = Key(live)]
    /\ rows' = rows \union {p}
    /\ UNCHANGED <<deployment, rowVars, renewedBy, byteVars, ageVars, uploadVars, deleteVars, sweepVars>>

(* A PUT with a valid token reaches a replica.                             *)
Arrive(u, p, w) ==
    /\ want[p] # None /\ p \notin expired
    /\ deployment.replays \/ \A v \in Uploads : token[v] # p
    /\ Goto(u, "idle", "precheck")
    /\ token' = [token EXCEPT ![u] = p]
    /\ at' = [at EXCEPT ![u] = w]
    /\ UNCHANGED <<deployment, rowVars, stagingVars, byteVars, ageVars, answer, deleteVars, sweepVars>>

(* Staging-row precheck, awaited before the single-writer guard is taken.  *)
Precheck(u) ==
    /\ IF token[u] \in rows THEN Goto(u, "precheck", "guard") /\ UNCHANGED answer
                            ELSE End(u, "precheck", "done", "gone")
    /\ UNCHANGED <<deployment, rowVars, stagingVars, byteVars, ageVars, token, at, deleteVars, sweepVars>>

RefuseConcurrent(u) ==
    /\ token[u] \in InFlightSids(at[u])
    /\ End(u, "guard", "done", "conflict")
    /\ UNCHANGED <<deployment, rowVars, stagingVars, byteVars, ageVars, token, at, deleteVars, sweepVars>>

(* Without the single-writer guard.                                        *)
UnguardedAdmit(u) ==
    /\ Goto(u, "guard", "body")
    /\ OpenStagingWriter(token[u])
    /\ UNCHANGED <<deployment, rowVars, stagingVars, blobs, ageVars, token, at, answer, deleteVars, sweepVars>>

(* The single-writer guard, then the writer.                               *)
Admit(u) ==
    /\ token[u] \notin InFlightSids(at[u])
    /\ Goto(u, "guard", "body")
    /\ OpenStagingWriter(token[u])
    /\ UNCHANGED <<deployment, rowVars, stagingVars, blobs, ageVars, token, at, answer, deleteVars, sweepVars>>

(* The whole body has been written.                                        *)
BodyDone(u) ==
    /\ Goto(u, "body", "stat")
    /\ FinalizeWriter(token[u])
    /\ UNCHANGED <<deployment, rowVars, stagingVars, blobs, ageVars, token, at, answer, deleteVars, sweepVars>>

(* The client aborts, the idle timeout fires, or the disk fills up.        *)
BodyFails(u) ==
    /\ End(u, "body", "abort", "aborted")
    /\ UNCHANGED <<deployment, rowVars, stagingVars, byteVars, ageVars, token, at, deleteVars, sweepVars>>

Stat(u) ==
    /\ pc[u] = "stat"
    /\ IF StatStaging(token[u]) = "whole" THEN Goto(u, "stat", "refresh") /\ UNCHANGED answer
                                          ELSE End(u, "stat", "abort", "io-error")
    /\ UNCHANGED <<deployment, rowVars, stagingVars, byteVars, ageVars, token, at, deleteVars, sweepVars>>

(* refreshStagingBegunAt: an UPDATE, so nothing when the row is gone.      *)
Refresh(u) ==
    /\ Goto(u, "refresh", "select")
    /\ IF token[u] \in rows
         THEN RenewRow(token[u]) /\ renewedBy' = [renewedBy EXCEPT ![token[u]] = u]
         ELSE UNCHANGED <<oldRows, cutRows, renewedBy>>
    /\ UNCHANGED <<deployment, rowVars, rows, want, byteVars, oldBlobs, expired, token, at, answer,
                   deleteVars, rpc, cutBlobs, todo, pick, aborted, listed>>

(* commitPut: the staging row, then the live row, then the promote.        *)
SelectStaging(u) ==
    /\ IF token[u] \in rows THEN Goto(u, "select", "compare") /\ UNCHANGED answer
                            ELSE End(u, "select", "abort", "gone")
    /\ UNCHANGED <<deployment, rowVars, stagingVars, byteVars, ageVars, token, at, deleteVars, sweepVars>>

Compare(u) ==
    /\ pc[u] = "compare"
    /\ IF Key(live) = want[token[u]] THEN Goto(u, "compare", "promote") /\ UNCHANGED answer
                                     ELSE End(u, "compare", "abort", "conflict")
    /\ UNCHANGED <<deployment, rowVars, stagingVars, byteVars, ageVars, token, at, deleteVars, sweepVars>>

(* A copy is new; a rename keeps the time of the body, which is less than  *)
(* the TTL ago.                                                            *)
Promote(u) ==
    LET p == token[u] IN
    /\ pc[u] = "promote"
    /\ IF staged[p] = "none"
         THEN End(u, "promote", "abort", "io-error") /\ UNCHANGED <<byteVars, oldBlobs, cutBlobs>>
         ELSE /\ Goto(u, "promote", "cas") /\ UNCHANGED answer
              /\ IF deployment.backend = "fs" THEN RenameStagedToLive(p) ELSE CopyStagedToLive(p)
              /\ RenewBlob(p)
    /\ UNCHANGED <<deployment, rowVars, stagingVars, oldRows, expired, token, at, deleteVars,
                   rpc, cutRows, todo, pick, aborted, listed>>

(* An incarnation that is the same for every first write.                  *)
UnfreshWritten(u) ==
    [version |-> want[token[u]].version + 1, inc |-> CHOOSE v \in Uploads : TRUE,
     put |-> token[u]]

(* insertLiveIfAbsent with a fresh incarnation, or updateLiveCAS.          *)
Written(u) ==
    [version |-> want[token[u]].version + 1,
     inc |-> IF want[token[u]] = Key(NoRow) THEN u ELSE want[token[u]].inc,
     put |-> token[u]]

Write(u) ==
    /\ live' = Written(u)
    /\ past' = past \union {Written(u)}

CasWins(u) == pc[u] = "cas" /\ Key(live) = want[token[u]]

Cas(u) ==
    /\ IF CasWins(u) THEN Write(u) /\ Goto(u, "cas", "unstage") /\ UNCHANGED answer
                     ELSE End(u, "cas", "abort", "conflict") /\ UNCHANGED rowVars
    /\ UNCHANGED <<deployment, stagingVars, byteVars, ageVars, token, at, deleteVars, sweepVars>>

(* The statement lands, but its answer is lost: reported as an io-error.   *)
CasAnswerLost(u) ==
    /\ CasWins(u)
    /\ Write(u)
    /\ End(u, "cas", "abort", "fault")
    /\ UNCHANGED <<deployment, stagingVars, byteVars, ageVars, token, at, deleteVars, sweepVars>>

(* The backend or the database refuses a step of the commit.               *)
Fault(u) ==
    /\ pc[u] \in {"stat", "promote", "cas"}
    /\ pc' = [pc EXCEPT ![u] = "abort"]
    /\ answer' = [answer EXCEPT ![u] = "fault"]
    /\ UNCHANGED <<deployment, rowVars, stagingVars, byteVars, ageVars, token, at, deleteVars, sweepVars>>

(* After the commit, or in abortPut: the staging blob, then its row.       *)
Unlinking(u) == Goto(u, "unstage", "unrow") \/ Goto(u, "abort", "abortrow")

UnlinkStaging(u) ==
    /\ Unlinking(u)
    /\ staged' = Put(token[u], staged, "none")
    /\ UNCHANGED <<deployment, rowVars, stagingVars, blobs, ageVars, token, at, answer, deleteVars, sweepVars>>

(* A failed unlink is logged and passed over: the blob outlives its row.   *)
UnlinkFails(u) ==
    /\ Unlinking(u)
    /\ UNCHANGED <<deployment, rowVars, stagingVars, byteVars, ageVars, token, at, answer, deleteVars, sweepVars>>

DeleteStaging(u) ==
    /\ End(u, "unrow", "done", "ok") \/ (Goto(u, "abortrow", "done") /\ UNCHANGED answer)
    /\ rows' = rows \ {token[u]}
    /\ UNCHANGED <<deployment, rowVars, want, renewedBy, byteVars, ageVars, token, at, deleteVars, sweepVars>>

(* The process crashes, or an unexpected rejection skips the cleanup.      *)
Die(u) ==
    /\ pc[u] \notin {"idle", "done"}
    /\ pc' = [pc EXCEPT ![u] = "done"]
    /\ answer' = [answer EXCEPT ![u] = "died"]
    /\ UNCHANGED <<deployment, rowVars, stagingVars, byteVars, ageVars, token, at, deleteVars, sweepVars>>

-----------------------------------------------------------------------------
(* deleteObject; the client names a row it has seen.  The bytes are left   *)
(* to the reaper.                                                          *)
DeleteRead(d) ==
    /\ dpc[d] = "idle" /\ live # NoRow
    /\ dpc' = [dpc EXCEPT ![d] = "drop"]
    /\ dkey' = [dkey EXCEPT ![d] = Key(live)]
    /\ UNCHANGED <<deployment, rowVars, stagingVars, byteVars, ageVars, uploadVars, sweepVars>>

DeleteDrop(d) ==
    /\ dpc[d] = "drop"
    /\ dpc' = [dpc EXCEPT ![d] = IF Key(live) = dkey[d] THEN "deleted" ELSE "conflict"]
    /\ live' = IF Key(live) = dkey[d] THEN NoRow ELSE live
    /\ UNCHANGED <<deployment, past, stagingVars, byteVars, ageVars, uploadVars, dkey, sweepVars>>

-----------------------------------------------------------------------------
(* reapOrphans.  Each listing, read, row delete and unlink is awaited.     *)
RGoto(r, from, to) == rpc[r] = from /\ rpc' = [rpc EXCEPT ![r] = to]

StartSweep(r) ==
    /\ RGoto(r, "idle", "livetags")
    /\ cutRows' = [cutRows EXCEPT ![r] = oldRows]
    /\ cutBlobs' = [cutBlobs EXCEPT ![r] = oldBlobs]
    /\ UNCHANGED <<deployment, rowVars, stagingVars, byteVars, ageVars, uploadVars, deleteVars,
                   todo, pick, aborted, listed>>

(* Pass 1 covers the workspaces with a row, then those the backend still   *)
(* holds something of although no row names them any more.                 *)
ListLiveTags(r) ==
    /\ IF live # NoRow
         THEN RGoto(r, "livetags", "listblobs") /\ listed' = [listed EXCEPT ![r] = {"live"}]
         ELSE RGoto(r, "livetags", "toplevel") /\ UNCHANGED listed
    /\ UNCHANGED <<deployment, rowVars, stagingVars, byteVars, ageVars, uploadVars, deleteVars,
                   cutRows, cutBlobs, todo, pick, aborted>>

(* Workspaces without rows are passed over.                                *)
RowboundListTopLevel(r) ==
    /\ RGoto(r, "toplevel", "listrows")
    /\ listed' = [listed EXCEPT ![r] = IF WorkspaceIsListed THEN {"top"} ELSE {}]
    /\ UNCHANGED <<deployment, rowVars, stagingVars, byteVars, ageVars, uploadVars, deleteVars,
                   cutRows, cutBlobs, todo, pick, aborted>>

ListTopLevel(r) ==
    /\ RGoto(r, "toplevel", IF WorkspaceIsListed /\ "live" \notin listed[r] THEN "listblobs"
                                                                         ELSE "listrows")
    /\ listed' = [listed EXCEPT ![r] = IF WorkspaceIsListed THEN {"top"} ELSE {}]
    /\ UNCHANGED <<deployment, rowVars, stagingVars, byteVars, ageVars, uploadVars, deleteVars,
                   cutRows, cutBlobs, todo, pick, aborted>>

(* Where the sweep goes on after the blobs of a workspace.                 *)
AfterGc(r) == IF "top" \in listed[r] THEN "listrows" ELSE "toplevel"

(* Without the grace window.                                               *)
GracelessListBlobs(r) ==
    /\ RGoto(r, "listblobs", IF ListLiveBlobs = {} THEN AfterGc(r) ELSE "refs")
    /\ todo' = [todo EXCEPT ![r] = ListLiveBlobs]
    /\ UNCHANGED <<deployment, rowVars, stagingVars, byteVars, ageVars, uploadVars, deleteVars,
                   cutRows, cutBlobs, pick, aborted, listed>>

(* Blobs older than the grace window, which is the TTL.                    *)
ListBlobs(r) ==
    /\ RGoto(r, "listblobs", IF ListLiveBlobs = {} THEN AfterGc(r) ELSE "refs")
    /\ todo' = [todo EXCEPT ![r] = ListLiveBlobs \intersect cutBlobs[r]]
    /\ UNCHANGED <<deployment, rowVars, stagingVars, byteVars, ageVars, uploadVars, deleteVars,
                   cutRows, cutBlobs, pick, aborted, listed>>

SnapshotRefs(r) ==
    /\ RGoto(r, "refs", "gc")
    /\ todo' = [todo EXCEPT ![r] = @ \ {live.put}]
    /\ UNCHANGED <<deployment, rowVars, stagingVars, byteVars, ageVars, uploadVars, deleteVars,
                   cutRows, cutBlobs, pick, aborted, listed>>

(* The next of a listing is left alone, or is to be removed.               *)
Consider(r, p, from, keep, to) ==
    /\ p \in todo[r]
    /\ todo' = [todo EXCEPT ![r] = @ \ {p}]
    /\ IF keep THEN rpc[r] = from /\ UNCHANGED <<rpc, pick>>
               ELSE RGoto(r, from, to) /\ pick' = [pick EXCEPT ![r] = p]

ListDone(r, from, to) ==
    /\ todo[r] = {} /\ RGoto(r, from, to)
    /\ UNCHANGED <<deployment, rowVars, stagingVars, byteVars, ageVars, uploadVars, deleteVars,
                   cutRows, cutBlobs, todo, pick, aborted, listed>>

(* References are read again just before the unlink.                       *)
GcCheck(r, p) ==
    /\ Consider(r, p, "gc", live.put = p, "unlinklive")
    /\ UNCHANGED <<deployment, rowVars, stagingVars, byteVars, ageVars, uploadVars, deleteVars,
                   cutRows, cutBlobs, aborted, listed>>

GcUnlink(r) ==
    /\ RGoto(r, "unlinklive", "gc")
    /\ blobs' = Put(pick[r], blobs, "none")
    /\ pick' = [pick EXCEPT ![r] = None]
    /\ UNCHANGED <<deployment, rowVars, stagingVars, staged, ageVars, uploadVars, deleteVars,
                   cutRows, cutBlobs, todo, aborted, listed>>

(* Pass 2: stale rows; the delete asks again whether the row is stale.     *)
ListRows(r) ==
    /\ RGoto(r, "listrows", "stale")
    /\ todo' = [todo EXCEPT ![r] = rows \intersect cutRows[r]]
    /\ UNCHANGED <<deployment, rowVars, stagingVars, byteVars, ageVars, uploadVars, deleteVars,
                   cutRows, cutBlobs, pick, aborted, listed>>

(* A delete that does not ask again whether the row is stale.              *)
DeleteListed(r, p) ==
    /\ Consider(r, p, "stale", p \notin rows, "unlinkstale")
    /\ rows' = rows \ {p}
    /\ UNCHANGED <<deployment, rowVars, want, renewedBy, byteVars, ageVars, uploadVars, deleteVars,
                   cutRows, cutBlobs, aborted, listed>>

DeleteIfStale(r, p) ==
    /\ Consider(r, p, "stale", p \notin rows \intersect cutRows[r], "unlinkstale")
    /\ rows' = rows \ ({p} \intersect cutRows[r])
    /\ UNCHANGED <<deployment, rowVars, want, renewedBy, byteVars, ageVars, uploadVars, deleteVars,
                   cutRows, cutBlobs, aborted, listed>>

(* Staging blobs without a row.                                            *)
ListStaging(r) ==
    /\ RGoto(r, "liststaging", "orphans")
    /\ todo' = [todo EXCEPT ![r] = ListStagingIds]
    /\ UNCHANGED <<deployment, rowVars, stagingVars, byteVars, ageVars, uploadVars, deleteVars,
                   cutRows, cutBlobs, pick, aborted, listed>>

OrphanCheck(r, p) ==
    /\ Consider(r, p, "orphans", p \in rows, "unlinkorphan")
    /\ UNCHANGED <<deployment, rowVars, stagingVars, byteVars, ageVars, uploadVars, deleteVars,
                   cutRows, cutBlobs, aborted, listed>>

ReapStaging(r) ==
    /\ RGoto(r, "unlinkstale", "stale") \/ RGoto(r, "unlinkorphan", "orphans")
    /\ staged' = Put(pick[r], staged, "none")
    /\ pick' = [pick EXCEPT ![r] = None]
    /\ UNCHANGED <<deployment, rowVars, stagingVars, blobs, ageVars, uploadVars, deleteVars,
                   cutRows, cutBlobs, todo, aborted, listed>>

(* What a sweep holds in its variables goes with it.                       *)
Forget(r) ==
    /\ cutRows' = [cutRows EXCEPT ![r] = {}]
    /\ cutBlobs' = [cutBlobs EXCEPT ![r] = {}]
    /\ listed' = [listed EXCEPT ![r] = {}]

(* Staging blobs are looked for in the workspaces of topLevel only.        *)
SweepEnds(r) ==
    /\ todo[r] = {}
    /\ RGoto(r, "orphans", "idle") \/ ("top" \notin listed[r] /\ RGoto(r, "stale", "idle"))
    /\ Forget(r)
    /\ UNCHANGED <<deployment, rowVars, stagingVars, byteVars, ageVars, uploadVars, deleteVars,
                   todo, pick, aborted>>

(* A listing or a query rejects, or the process dies: the sweep is left as *)
(* it stands, and a later one starts over.                                 *)
SweepAborts(r) ==
    /\ rpc[r] # "idle" /\ r \notin aborted
    /\ aborted' = aborted \union {r}
    /\ rpc' = [rpc EXCEPT ![r] = "idle"]
    /\ todo' = [todo EXCEPT ![r] = {}]
    /\ pick' = [pick EXCEPT ![r] = None]
    /\ Forget(r)
    /\ UNCHANGED <<deployment, rowVars, stagingVars, byteVars, ageVars, uploadVars, deleteVars>>

Sweep(r) ==
    \/ StartSweep(r) \/ ListLiveTags(r) \/ ListTopLevel(r)
    \/ ListBlobs(r) \/ SnapshotRefs(r) \/ GcUnlink(r)
    \/ ListRows(r) \/ ListStaging(r) \/ ReapStaging(r)
    \/ \E p \in Puts : GcCheck(r, p) \/ DeleteIfStale(r, p) \/ OrphanCheck(r, p)
    \/ ListDone(r, "gc", AfterGc(r))
    \/ "top" \in listed[r] /\ ListDone(r, "stale", "liststaging")
    \/ SweepEnds(r)

-----------------------------------------------------------------------------
Underway(u) == pc[u] \notin {"idle", "done"}

(* The TTL leaves no time for a token to be presented (five minutes from   *)
(* the begin) and its upload to end, unless bodies are slow.               *)
Quiet(p) == deployment.slow \/ \A u \in Uploads : token[u] = p => ~Underway(u)

(* More than the TTL has passed since begun_at.  Assumed: an upload that   *)
(* has refreshed its row is done within the TTL.                           *)
ExpireRow(p) ==
    /\ want[p] # None /\ p \notin oldRows
    /\ renewedBy[p] # None => ~Underway(renewedBy[p])
    /\ Quiet(p)
    /\ oldRows' = oldRows \union {p}
    /\ expired' = expired \union {p}
    /\ UNCHANGED <<deployment, rowVars, stagingVars, byteVars, oldBlobs, uploadVars, deleteVars, sweepVars>>

(* More than the TTL has passed since the bytes were written.  Assumed: an *)
(* upload's compare-and-set is over within the TTL of its last byte.       *)
ExpireBlob(p) ==
    /\ blobs[p] # "none" /\ p \notin oldBlobs
    /\ \A u \in Uploads : token[u] = p => pc[u] # "cas"
    /\ Quiet(p)
    /\ oldBlobs' = oldBlobs \union {p}
    /\ expired' = expired \union {p}
    /\ UNCHANGED <<deployment, rowVars, stagingVars, byteVars, oldRows, uploadVars, deleteVars, sweepVars>>

Upload(u) ==
    \/ Precheck(u) \/ RefuseConcurrent(u) \/ Admit(u) \/ BodyDone(u) \/ BodyFails(u)
    \/ Stat(u) \/ Refresh(u) \/ SelectStaging(u) \/ Compare(u) \/ Promote(u) \/ Cas(u)
    \/ UnlinkStaging(u) \/ DeleteStaging(u)

Next ==
    \/ \E p \in Puts : Begin(p) \/ ExpireRow(p) \/ ExpireBlob(p)
    \/ \E u \in Uploads :
          \/ \E p \in Puts, w \in deployment.replicas : Arrive(u, p, w)
          \/ Upload(u)
          \/ CasAnswerLost(u) \/ Fault(u) \/ UnlinkFails(u) \/ Die(u)
    \/ \E d \in Deletes : DeleteRead(d) \/ DeleteDrop(d)
    \/ \E r \in Reapers : Sweep(r) \/ SweepAborts(r)

Spec == Init /\ [][Next]_vars

(* The event loop resumes what is ready, a body ends or times out, the     *)
(* reaper's timer fires again, and time passes.                            *)
Fairness ==
    /\ \A u \in Uploads : WF_vars(Upload(u))
    /\ \A r \in Reapers : WF_vars(Sweep(r))
    /\ \A p \in Puts : WF_vars(ExpireRow(p)) /\ WF_vars(ExpireBlob(p))

FairSpec == Spec /\ Fairness

-----------------------------------------------------------------------------
Blob == {"none", "partial", "whole"}

(* What inFlightSids is for: in one process, no two uploads of a staging   *)
(* id are past the guard at once, from the opening of the writer to the    *)
(* end of the cleanup, however the requests that carry the token end.      *)
SingleWriter ==
    \A u, v \in Uploads :
        pc[u] \in Holding /\ pc[v] \in Holding /\ at[u] = at[v] /\ token[u] = token[v] => u = v

(* Every variable has the shape the code gives it, and the guard set of a  *)
(* process names each of its uploads once.                                 *)
TypeOK ==
    /\ SingleWriter
    /\ live \in Row \union {NoRow} /\ past \subseteq Row
    /\ rows \subseteq Puts
    /\ want \in [Puts -> Keys \union {None}]
    /\ staged \in [Puts -> Blob] /\ blobs \in [Puts -> Blob]
    /\ oldRows \subseteq Puts /\ oldBlobs \subseteq Puts /\ expired \subseteq Puts
    /\ renewedBy \in [Puts -> Uploads \union {None}]
    /\ pc \in [Uploads -> {"idle", "precheck", "guard", "done"} \union Holding]
    /\ token \in [Uploads -> Puts \union {None}]
    /\ deployment \in Deployments
    /\ at \in [Uploads -> deployment.replicas \union {None}]
    /\ answer \in [Uploads -> {"none", "ok", "conflict", "gone", "io-error", "aborted",
                               "fault", "died"}]
    /\ dpc \in [Deletes -> {"idle", "drop", "deleted", "conflict"}]
    /\ dkey \in [Deletes -> Keys]
    /\ rpc \in [Reapers -> {"idle", "livetags", "toplevel", "listblobs", "refs", "gc",
                            "unlinklive", "listrows", "stale", "unlinkstale", "liststaging",
                            "orphans", "unlinkorphan"}]
    /\ listed \in [Reapers -> SUBSET {"live", "top"}]
    /\ cutRows \in [Reapers -> SUBSET Puts] /\ cutBlobs \in [Reapers -> SUBSET Puts]
    /\ todo \in [Reapers -> SUBSET Puts] /\ aborted \subseteq Reapers
    /\ pick \in [Reapers -> Puts \union {None}]

(* The live row always has its bytes, all of them: whatever uploads race,  *)
(* die or are replayed, and whatever the reaper removes meanwhile, a row   *)
(* never points at nothing or at a truncated upload.                       *)
LiveIsReadable == live # NoRow => blobs[live.put] = "whole"

(* A (version, incarnation) pair names one ciphertext for ever, deletes    *)
(* and re-creations included: what download tokens, preconditions and the  *)
(* clients' watermarks take it for.                                        *)
VersionNamesContent == \A r1, r2 \in past : Key(r1) = Key(r2) => r1 = r2

(* A put-begin changes the object at most once, however often its token    *)
(* is presented ("PUT tokens are single-use", server-e2e/README.md 586).   *)
TokenCommitsOnce == \A r1, r2 \in past : r1.put = r2.put => r1 = r2

Alone(u) == \A v \in Uploads \ {u} : token[v] # token[u]

(* Once an upload whose token nobody else uses has refreshed its staging   *)
(* row, the reaper takes neither row nor bytes from under it, even when    *)
(* the sweep had listed the row as stale before: the upload ends in a      *)
(* commit, an honest conflict or a fault of the store.                     *)
RefreshedPutSurvives ==
    \A u \in Uploads : token[u] # None /\ renewedBy[token[u]] = u /\ Alone(u) =>
        answer[u] \notin {"gone", "io-error"}

(* An upload answered with success is the row, or was and has been         *)
(* replaced or deleted since; one answered with a conflict, or cut short   *)
(* before the compare-and-set, has changed nothing; and none is answered   *)
(* "gone" because the reaper took what the upload had refreshed.           *)
AnswersAreTrue ==
    /\ RefreshedPutSurvives
    /\ \A u \in Uploads :
        /\ answer[u] = "ok" => \E r \in past : r.put = token[u]
        /\ answer[u] \in {"conflict", "gone", "io-error", "aborted"} /\ Alone(u) =>
               \A r \in past : r.put # token[u]

(* Nothing leaks: staging rows and blobs go, and so do bytes that no row   *)
(* names, whichever request was cut short and whichever sweep was.         *)
StagingReclaimed ==
    \A p \in Puts : p \in rows \/ staged[p] # "none" ~> p \notin rows /\ staged[p] = "none"

BytesReclaimed ==
    \A p \in Puts : blobs[p] # "none" ~> blobs[p] = "none" \/ live.put = p

NothingLeaks == StagingReclaimed /\ BytesReclaimed

=============================================================================
