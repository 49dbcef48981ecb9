# Verification of the triage relay and its clients

`@preventive/triage` is a triage client and its servers. The end-to-end relay
(`server-e2e/`) stores, per workspace, an append-only chain of encrypted
revisions and a set of encrypted objects. It cannot read either. Several
replicas may serve one database, and the code takes **no lock anywhere**:
correctness rests on compare-and-set statements, unique indexes,
content-addressing, ages and the order in which handlers await. The clients
(`client/sync/`) rebase, cache and reconnect on top of what the relay answers.
This directory models the relay's data paths, the client's half of both
planes, the transport between them, the life of a relay process and one
migration of the managed server; it checks them with TLC and proves with
TLAPS the revision chain and its refinement, the hub, the object store's byte
plane, presence, the process and report storage.

Paths below are relative to the repository (`src/`).

## 1. Inventory

| Component | State | Operations | Hard behaviour | What makes it correct | Status |
|---|---|---|---|---|---|
| Revision commit: `server-e2e/sync-handlers.ts`, `db.ts`, `db-neon.ts`, `db-revision-sql.ts` | table `workspace_revision` | `commitSave`, `commitRevision`, `chainFrom` | replicas racing on one head, retransmissions, driver retries, crash between commit and broadcast | one linear chain; truthful answers; catch-ups that can be applied | **modelled** (`RevisionCommit`), **proved** with its refinement |
| Subscribe hub: `hub.ts`, `handleSubscribe` | subscriber sets, pause buffer, newest lookup per workspace | subscribe, broadcast, pause, close | snapshot against live broadcasts, replaced lookups, hung reads, buffer overflow | no gap between snapshot and broadcasts; the pause is released | **modelled** (`SubscribeHub`), **proved** |
| Object store: `objstore/store.ts`, `rest.ts`, `reaper.ts` | live and staging rows, live and staging blobs, `inFlightSids` | put-begin, upload, commit, abort, delete, reap | two stores without a transaction, replays, replicas, slow bodies, crashes, GC against commit | rows keep their bytes; versions name one content; nothing leaks | **partly** (`ObjStore`): no GET, cap; safety **proved** |
| Object store handlers and blob backends: `handlers.ts`, `blob*.ts`, `fs.ts` | none of their own | begin, delete, fetch; write, rename, copy, unlink | as above | as above | **partly**, inside `ObjStore` |
| Tokens, mint endpoints, Neon adapter, start-up: `tokens.ts`, `rest-mint.ts`, `fetch-mint-guard.ts`, `store-neon.ts`, `init.ts`, `sign.ts` | recently seen mint requests, the sweep queue | mint, verify, sweep | window arithmetic; sweeps at shutdown | each request is admitted once while fresh; no sweep outlives the database | **partly**: the sweep queue (`RelayProcess`) |
| Cross-instance bus: `bus-receiver.ts`, `pubsub.ts` | the LISTEN client, its connect attempt, pending handlers | connect, dispatch, reconnect, stop | hung handshakes, stop against reconnect, sessions that end twice | stop leaks nothing; the connection recovers | **partly** (`NotifyBus`), **proved** |
| Socket and SSE servers: `ws-server.ts`, `sse-*.ts`, `peer.ts`, `auth.ts` | peers, in-flight count, SSE sessions and their current response | accept, dispatch, swap, close, authenticate | in-flight cap, response swap, replica hops | the cap holds; a session has one stream | **partly** (`RelayProcess`, `SyncTransport`) |
| Relay shell: `app.ts`, `http.ts`, `lifecycle.ts`, ... | phase of the disposal, in-flight set | routing, graceful disposal | peers that never answer, jobs started during the drain | the disposal ends and closes the database last | **partly** (`RelayProcess`), safety **proved** |
| Client triage sync: `triage-sync.ts`, `triage-changeset.ts`, `triage-session-store.ts`, `triage-state-projection.ts` | base state and revision, live state, pending save, ladder flags, persisted copy | edit, send, ack, chain, error, resync, reset, busy retry, reload | edits during awaits, late acks, REST saves, reset ladder, reconnect | no edit lost or undone; clients converge on the chain | **partly** (`TriageSession`) |
| Client object store and presence: `objstore.ts`, `objstore-presence.js`, `presence-cache.js` | inventory, watermark, baselines, the lock's queue | discover, fetch, replace, upload, delete, re-check | reordered broadcasts, snapshots, answers; writers of one file | the copy follows the cloud and edits are kept | **partly** (`ReportPresence`), in part **proved** |
| Client transports: `socket-transport.ts`, `sse-transport.ts` | socket, nonce, auth flow, reconnect timer; POST numbers, readers | acquire, release, lock, reconnect, fall back, POST, read, authenticate | late events of old sockets, parallel responses, dialogs that outlive a socket | one live stream, in order; the flow ends with a true answer | **partly** (`SyncTransport`) |
| Managed server, report storage: `storage-encryption.ts`, `storage-maintenance.ts`, `storage-db.ts`, `report-store.ts`, ... | report rows, policy row, objects | upload, read, convert, delete, activate, migrate, clean up | instances with and without the key, conversions against activation, lost commits | readable throughout; no plaintext in the end | **partly** (`ReportStorage`), safety **proved** |
| Managed server, the rest (`server-managed/`) | its own database | REST over GitHub data | leases, caches | | not modelled |
| Client cryptography, storage, workspaces | | | | | not modelled |
| `common/`, `risk/`, `ui/`, `server-common/` | | pure functions, rendering, start-up | | | not modelled |

Interaction: the client's transport carries both planes over a WebSocket or,
when upgrades do not get through, over SSE POSTs. A save reaches `commitSave`
through it or through `POST /api/sync/save`. A committed revision is broadcast
through the hub to the sockets of the same process, and its id is published on
the bus; other instances re-fetch the row and broadcast it through their own
hub. A subscribe joins the hub and is answered with the object inventory and
the chain after the client's base; `triage-sync` folds the chain into its base
and rebases, `objstore` merges the inventory, and presence fetches what is new.
Object metadata takes the control plane (put-begin, delete), bytes take the
REST plane under a token. The reaper runs on a timer in each replica. A
disposal drains all of it and closes the database.

Each model takes its neighbours as what their own models show them to be:
`TriageSession` has a relay that answers from one chain (`RevisionCommit`) and
sends the snapshot first (`SubscribeHub`); `ReportPresence` has a row changed by
compare-and-set (`ObjStore`); both have a connection that is up or down with
frames in order while it is up, which is what `SyncTransport` is about.

The hazards behind the properties are listed in `PROJECT.json`, each at its
line, with the properties that would catch it.

## 2. Modules

```
RevisionChain            what the chain promises          (abstract)
   ^ implements
RevisionCommit           commitSave and both backends
   ^ EXTENDS                          ^ EXTENDS
MCRevisionCommit                      RevisionCommit_proofs  (TLAPS)
                                         ^ EXTENDS
                                      RevisionChain_proofs   (TLAPS)
SubscribeHub   <- MCSubscribeHub,     SubscribeHub_proofs    (TLAPS)
ObjStore       <- MCObjStore,         ObjStore_proofs        (TLAPS)
ReportPresence <- MCReportPresence,   ReportPresence_proofs  (TLAPS)
TriageSession  <- MCTriageSession
SyncTransport  <- MCSyncTransport,    SyncTransport_proofs   (TLAPS)
ReportStorage  <- MCReportStorage,    ReportStorage_proofs   (TLAPS)
NotifyBus      the LISTEN connection
   ^ EXTENDS
RelayProcess   the process around it
   ^ EXTENDS                          ^ EXTENDS
MCRelayProcess                        RelayProcess_proofs    (TLAPS)
```

Some operators are variants of an action with a plausible bug of the code in
it: they are called `Faulty...` or after what they lack, as the comment above
each says. No specification uses them; they show that each property can fail.

The larger modules write the functions of the code that run without an await as
operators from a record (a session, a client, a world) to the record they
leave, and make every await a step boundary. What a behaviour is given (which
edits, which faults, how often) is chosen by `Init` from the constant
`Scenarios` and stays a variable of it, so that one run covers many small
instances.

### RevisionCommit

One member of `Requests` is one call of `commitSave`, on any replica. Every
`await` is a step boundary, so interleavings of replicas and of handlers in one
process are the same thing. Every query is `WHERE workspace_tag = $1`, so one
workspace is enough.

| Model | Code |
|---|---|
| `rows`, `signed`, `announced` | `workspace_revision`; frames the clients have signed; ids broadcast |
| `PrecheckDuplicate`, `PrecheckFresh` | `revisionExists` before the signature check (196-199) |
| `RefuseSize`, `RefuseUnauthorized`, `PassPolicy` | size and first-save gates (204-221) |
| `GateSnapshot`, `InsertRow`, `InsertViolation`, `CommitTransaction` | the gated INSERT on Postgres: one snapshot for gates and seq, then the unique indexes (which wait for uncommitted rows), then the commit |
| `GatedInsertSqlite` | the same in one synchronous step of `node:sqlite` |
| `DriverRetryViolation`, `RecoverInserted`, `RecoverStale` | the row is committed but reported as a violation; the catch clause |
| `ClassifyDuplicate`, `ClassifyStale` | no row returned: later reads tell why |
| `AnchorAtBase`, `AnchorUnknown`, `AnchorAtKeyframe`, `ReadChain` | the statements of `chainFrom` |
| `Fail` | driver error, lost answer or crash at any point; an open transaction rolls back |

`Foreign` ids are bases of a chain the database no longer has. Revisions are
content-addressed: an id determines base, keyframe flag and payload.
`RevisionChain` is the abstract chain: `Commit` is a compare-and-set on the
head, and answers are consistent with it. `Log` is the refinement mapping.
`DriverRetryViolation` covers both backends' clause although only Postgres has
an asynchronous driver.

### SubscribeHub

One socket, several workspaces and calls of `handleSubscribe` (`Lookups`); a
workspace's chain is the number of its revisions, as `RevisionCommit` shows it
to be one chain. `Receive` to `Reply` follow `handleSubscribe` await by await;
`Finish` is its `finally` block; `Release` is the idempotent `resume` of
`pauseBroadcasts`; `FanOut` is the hub's, including the overflow that terminates
the socket. `Announce` delivers a local broadcast or a re-fetched remote one in
any order; `NotifyLost` drops a remote one. Acks of the socket's own saves
bypass the pause, as `send` does.

### ObjStore

One resource. A member of `Puts` is one put-begin (a staging id and a content
hash: each encryption has a fresh nonce), a member of `Uploads` one PUT request
carrying some put's token, on some replica.

| Model | Code |
|---|---|
| `Begin` | `beginPut`; the precondition it stores may be outdated by the time of the commit |
| `Arrive`, `Precheck`, `RefuseConcurrent`, `Admit` | token check, staging-row precheck, `inFlightSids` of that process |
| `BodyDone`, `BodyFails`, `Stat`, `Refresh` | `runUploadAndCommit` |
| `SelectStaging`, `Compare`, `Promote`, `Cas`, `CasAnswerLost` | `commitPut`, one action per await |
| `UnlinkStaging`, `UnlinkFails`, `DeleteStaging` | cleanup of a commit, or `abortPut`; a failed unlink is logged and passed over (fs.ts 58-67, `buildUnlink`) |
| `OpenStagingWriter`, `FinalizeWriter`, `StatStaging`, `RenameStagedToLive`, `CopyStagedToLive`, `ListLiveBlobs`, `ListStagingIds` | the two blob backends, as far as they differ: a file appears truncated when it is opened and moves when promoted; a hosted object appears whole and is copied |
| `Fault`, `Die` | a refused backend call; a crash or rejection that skips the cleanup |
| `DeleteRead`, `DeleteDrop` | `deleteObject` |
| `StartSweep`, `ListLiveTags`, `ListBlobs` ... `UnlinkLive`, `ListTopLevel` | `reapOrphans` (1): the workspaces that rows name, then those of the listing of the bytes' top level, so that bytes whose last row is gone are met too (186-203) |
| `ListRows` ... `SweepEnds`, `SweepAborts` | the rest of `reapOrphans`: stale staging rows, staging blobs without a row; one action per statement or unlink; a sweep may be cut short |
| `ExpireRow`, `ExpireBlob` | more than the TTL passes |

Time is only what the code compares: whether a timestamp is more than one hour
old. A sweep uses the ages at its start (`staleBefore`, `now`), and a timestamp
renewed later is no longer old for it. The assumptions, as guards of the two
ageing actions:

* an upload that has refreshed its staging row ends within the TTL;
* the compare-and-set follows the last byte within the TTL;
* a deployment that is not `slow`: a token's presentation and its upload fit in
  the TTL. Tokens live five minutes and Node ends a request after five minutes
  by default. A `slow` deployment lifts this, without replays: a replayed token
  whose body takes an hour, after a first upload that failed right after its
  promote, would leave a row whose bytes are collected. Both limits together
  rule it out, and the assumption on `Deployments` says so.

`deployment` is the backend, the replicas, and whether there are replays and
slow bodies.

### TriageSession

The session of one workspace on each client, against one relay.

| Model | Code (`client/sync/triage-sync.ts` unless said) |
|---|---|
| `session[c]` | the `Session`: `baseState`, `base`, the live triage, `pending`, `pendingSave`, the flags of the ladder, `savesSinceKeyframe`, the handler under way (`job`) |
| `applyChangeset`, `computeChangeset`, `rebaseLocalState`, `ApplyRevision` | `triage-changeset.ts`, `triage-state-projection.ts` |
| `UserEdits`, `notify`, `SessionWritten` | an edit and the debounced notification; the write of local storage |
| `Signed`, `Encrypted`, `EncryptFails` | the awaits of `trySendSubscribe` and `trySendSave`, with the checks after them |
| `handleAck`, `AckPersisted`, `handleSaveError`, `BusyRetry`, `dismissError` | acks, refusals, the resync and full-state reset ladder, the busy timer |
| `handleChain`, `ChainVerified`, `ConflictsResolved`, `ChainPersisted` | `handleChain` await by await: verification, the conflict dialog, `applyOverlayAndPersist` |
| `RelayHandlesPost`, `PostAnswered`, `PostFails` | saves over REST in SSE mode: the answer may land anywhere among the broadcasts, or be lost after the commit |
| `Connect`, `Disconnect`, `OrphanEnds`, `Reload` | reconnects, a write that outlasts one, a page reload |
| `RelayHandlesSave`, `RelayHandlesSubscribe`, `DeliverLate`, `Wipe` | the relay: one chain; a broadcast behind a later one; a lost database |

Signatures verify, ids are content addresses, and every finding is in the
session's scope.

### ReportPresence

One report of one workspace on one client; other members act on the relay's
row.

| Model | Code (`client/sync/objstore-presence.js` unless said) |
|---|---|
| `row`, `wire`, `held`, `subscription`, `unannounced` | the relay: row, broadcasts, the snapshot of a subscribe (`objstore.ts` seed and watermark) |
| `client` | the entry: inventory, `seen`, `remoteMeta`, baselines in memory and cached, discovery, the queue of the report's lock |
| `openWorkspace`, `ReceiveMessage` | boot, `onPut`, `onDeleted`, the session inventory's merge |
| `DiscoveryServed`, `DiscoveryAnswered`, `Attach` | the first fetch of a report and its attachment |
| `StartJob`, `JobServed`, `JobAnswered`, `CompareCopies`, `BeginSave`, `SaveLands`, `SaveRecorded` | the writers that queue on the report's lock, await by await |
| `ReadForUpload`, `PutArrives`, `PutAnswered`, `PutRefused` | uploads and their answers, which are outside the order of the broadcasts |
| `Delete`, `DeleteArrives`, `DeleteAnswered`, `DeleteLocally`, `LeaveWorkspace`, `Navigate` | delete everywhere: the cloud's row, the file, the membership, or no further once the user has turned to another view (`ui/view/ingest.js` 1190-1205) |
| `RecheckBegins`, `ListCached`, `RecheckServed`, `RecheckAnswered`, `RecoverReport`, `Resolve` | a re-check: a fresh listing or, if it does not come, the cached one; the fetch; the repair of a row that could not be fetched from a local copy as long as it (which TLC takes any copy to be or not to be); the user's choice |
| `SaveLocally`, `ReplaceSaves`, `ReplaceUploads` | local saves and the import's Replace (`ui/view/ingest.js`) |
| `Reload`, `Drop`, `FetchFails`, `ChangeFails` | faults |

### SyncTransport

One client's transport, its consumers taken together, and the relay's end: the
WebSocket connections, and the SSE sessions of one or two replicas. A stream is
a connection, or a POST with its response; `streams` has both directions of it.

| Model | Code |
|---|---|
| `transport`, `NewSocket` | the closure of `createSocketTransport`; the fields of an `SseTransport` |
| `acquire` ... `close`, `resetCachedReplayGuard` | the functions of the transport |
| `tryOpen`, `SocketClosed`, `DropSocket`, `ReconnectTimer` | opening, the close event with its fallback to SSE, reconnects |
| `runAuthFlow`, `settleAuthResponse`, `DialogAnswered`, `PasswordStored` | `runAuthFlow`, one step per await; a flow is stale once `socket !== startSocket` |
| `handleMessage`, `Hear` | `handleMessage`: challenge, session restart, authentication, the rest to the consumers |
| `flush`, `FlushStopsWaiting`, `PostAnswered`, `PostFails` | `flush` around its await of the POST in flight |
| `ReadEvent`, `dispatchOrderedEvent`, `ResponseEnds` | `consumeStream`; the watchdog ends a response that broke off |
| `handlePost`, `createSession`, `attachResponse`, `dispatchBody` | `sse-server.ts`, `sse-session.ts` |
| `handleAuthenticate`, `Dispatch`, `HandlerEnds` | `auth.ts` and the dispatcher of `ws-server.ts`; handlers end in any order, a frame under another session's nonce is dropped |
| `RelayCloses`, `RelayNotices`, `Cut`, `HeartbeatTimesOut`, `CloseEvent` | graceful and other ends of a connection, seen by either side in its own time |

Events are read one per step. `consumeStream` dispatches those of one chunk in one turn
(`sse-transport.ts` 395-396), which is a run of such steps with nothing in between; that a
continuation may also run between two of them is the case of a chunk of one event.

A session is named by its challenge nonce. Events are numbered within their
session, which is how `OneStream` tells their order. `slipped`, `coalesced`,
`declined` and `misled` are histories of what the exemptions of the properties
are about (see the observations).

### NotifyBus and RelayProcess

`NotifyBus` is the LISTEN connection of `pubsub.ts`: `tryConnect`, `Connected`,
`Listening`, `AttemptFails`, `Wake` are the connect loop with its backoff;
`ErrorEvent`, `Relink`, `EndSettles` the error listener and `reconnect`;
`Dispatch`, `HandlerEnds` the notifications; `StopBegins`, `AttemptAwaited`,
`StopReturns` the awaits of `stop`. Each session of the driver is an element, so
that a session nobody refers to any more shows.

`RelayProcess` adds peers on both transports (`Connect`, `Receive` under the
in-flight cap, `HubCloses`, `PeerLeaves`), REST requests, sweeps, and the
disposal of `lifecycle.ts` and `closeDb`: `Dispose`, `GraceFires`,
`ReaperStopped`, `HttpClosed`, `WssClosed`, `RequestsDrained`, `DatabaseClosed`,
with the process's own listener or embedded in a host's. A handler is a job that
uses the database while it runs. The two compose by conjunction: a step of the
bus leaves the rest of the process alone, and `RequestsDrained` and `StopBegins`
are one step.

### ReportStorage

One report of the managed server: its row, the policy row, and two objects
(`br`, `orig`). Processes are uploads, reads, deletes and migration workers, of
instances with and without the master key. `Activate` enables encryption at any
time; `Proceed` is one await of a process; `LoseAck` and `Crash` are faults. A
read of a report that has only an original converts it, as
`report-store.ts` does; an upload writes the object before its row and asks
afterwards, when the commit's answer was lost, whether to remove it
(`http.ts` 1443); a worker goes row by row, path by path, and then through the
inventory of objects without rows. A conversion reads its row once it has
published (`Finish`) and, if the row is gone, takes the publication back in a
further step (`Undo`, `storage-encryption.ts` 133-134), which may fail; a lookup that fails when an upload
asks for its row keeps the bytes (`http.ts` 1444). An upload makes a fresh id
(`randomUUID()`, `http.ts` 1427), so it is the only one of its report and finds
nothing stored of it, which `StorageAssumption` says of the scenarios.

## 3. Runs

Every property has a mutant in `PROJECT.json`: a plausible bug of the code that
TLC finds to violate it.

| Run | Instance | Distinct states | Shows |
|---|---|---|---|
| `commit_neon` | 3 requests, 3 ids, 1 foreign base, Postgres | 151,818 | linear chain, durable acks, final stale answers, nobody left behind, and `RevisionCommit` implements `RevisionChain` |
| `commit_answered` | 2 requests (one gated), 3 ids (one oversize), both backends, fair | 137,906 | the same refinement with refusals and on SQLite; no oversized revision is committed; every save is answered |
| `hub_joins` | 1 workspace with 3 lookups and 1 revision, 1 with 2 and 2, 2 with 2 and 1; buffer of 1; fair | 657,080 | the join is seamless, the hub matches the socket, nobody waits for ever |
| `objstore_fs` | 2 puts, 2 uploads, 1 delete, 1 reaper; file system, with replays or with bodies that outlast the TTL | 3,804,687 | no two uploads of a process write one staging file, rows keep their bytes, versions name one content, answers are true |
| `objstore_backends` | 1 put, 2 uploads, 1 delete, 1 reaper; file system, and hosted store with 2 replicas; fair | 832,502 | the same for the bytes of the hosted store; staging and unreferenced bytes are reclaimed, of workspaces that no row names too |
| `objstore_token` | 1 put, 2 uploads on 2 replicas, no reaper | violation | see Finding |
| `session_safety` | 2 clients, 2 findings, 2 fields; 10 scenarios: crossed edits, REST saves, a lost REST answer, a failure (drop, busy or refusal), encryptions that fail (against a peer, or again and again), a late broadcast, a reload, a lost chain, a write that outlasts a reconnect | 1,571,799 | bases are states of the chain, changes are attributed, nothing is forgotten, rest is final |
| `session_settles` | 2 clients; a lost chain or a busy relay, a write that outlasts a reconnect; fair | 456,262 | the ladder, retries and send slots all end |
| `presence_reconciles` | 24 scenarios of 2 to 3 events out of peers' puts and deletes, saves, uploads, replaces, deletes, re-checks, reloads, drops, failures; fair | 538,112 | baselines are true, the cloud is followed, edits are kept, catch-ups end |
| `transport_holds` | 14 scenarios: handles, URLs and locks; hops, cuts, goodbyes and stalls under two POSTs and a broadcast; passwords cached, typed, mistyped, cancelled; fair | 654,971 | accepted is authorized, events come in order, the client ends up connected exactly if it should be |
| `process_drains` | 1 socket, 1 stream, 2 jobs, cap 1, 1 notification, 2 failures; with and without its own listener; fair | 523,518 | nothing strays, the disposal ends, the bus recovers |
| `storage_migrates` | 16 casts of 3 processes with at most one fault; fair | 384,781 | reads are sound, plaintext is gone, the migration ends |

### Bounds

Commit: three requests allow a winner, a loser and a retransmission of either;
three ids a base, its successor and a rival; a lost chain needs one foreign id.
For `EverySaveAnswered` two requests are enough: a request waits only for the
holder of an index entry. An insert takes both entries in one step, so that two
that hold one each and wait for the other are outside the model: Postgres fills
the indexes of a table in one order, which nothing here checks.

Hub: three lookups allow a replacement of a replacement (with one revision);
two revisions, the second a keyframe, distinguish a catch-up from the base, from
a keyframe and from the root. A buffer of one payload overflows at the second.

Object store: two puts give a rival or a successor, and one delete a
re-creation. One reaper is enough because sweeps only add removals of what is
old, and each removal asks again.

Sessions: two clients on the same field meet every branch of the merge; a second
field and a second finding keep the merge from being all or nothing. One fault
per behaviour, out of the scenario's kinds, except that encryptions may fail
again and again. `MaxFailures = 2` stands for `maxConsecutiveFailures = 5` (346):
it is the least threshold with a failure below it, which the code passes over in
silence, and one that reaches it. `KeyframeInterval = 3`: a peer that
completes an interval before a client's first subscribe makes that client start
from a keyframe with edits of its own, which is the observation on keyframes
below and not what these properties are about.

Presence: one report, at most three events of users, peers and faults per
behaviour. Late announcements occur in scenarios without deletes only (see the
observations). One scenario has a delete and a re-check of the same user's, so
that either may be carried out, answered and announced within the other.

Transport: six streams (a step that opens one waits until two are free), three
session names (reused when nothing names them any more), two replicas of one
session each, so that the session cap is met; two flushes waiting at a time.
Each scenario bounds how often the user, the network and the relay interfere.

Process: two failures of the LISTEN connection give a failure during a
reconnect; one socket, one stream, two jobs and a cap of one give a refused
frame and a job that starts during the drain.

Storage: three processes, one of them usually a worker, cross at two of each
pair's awaits. A conditional put is a check followed by a rename for both
backends, as on disk: a superset of what the hosted store's atomic one does.
Objects are taken one by one; the cursor over prefixes is left out.

Deadlock checking is off everywhere: requests, lookups and scenarios end, and a
finished instance has nothing left to do.

### Fairness

`RevisionCommit`: weak fairness of each request's own steps (the event loop
resumes a settled promise, Postgres ends a lock wait when the holder ends); not
of `Sign`, `Submit`, `Fail` or driver retries. `SubscribeHub`: weak fairness of a
lookup's steps only while it is the newest or still verifying (the read of an
obsolete lookup may hang), of broadcasts and of the close event. `ObjStore`:
weak fairness of each upload (a body ends or runs into the idle timeout), of the
reaper (a timer; its unlinks succeed, but a sweep may be cut short once per
replica) and of the passing of time. `TriageSession`, `ReportPresence`: weak
fairness of what the code and the relay do by themselves, the reconnect
included, never of faults, and of users in one place: `Settles` of the sessions
assumes that an open conflict dialog is answered (`ConflictsResolved`), since until
then the session holds its handler. `SyncTransport`: the event loops go on, the
user answers the dialog in the end, and each end learns of a dead connection, by
heartbeat, watchdog or TCP keepalive. `RelayProcess`: whatever the process awaits
settles, except a handshake the network has swallowed; a closing peer need not
answer, but a client accepted during the shutdown gets no pong
(`ws-server.ts:118` returns before the ping) and closes. `ReportStorage`:
requests and transactions go on and maintenance runs again, hourly or on
traffic.

### Finding

`objstore_token`: the README of the relay says that PUT tokens are single-use
because `commitPut` deletes the staging row (`server-e2e/README.md:586-587`), and
`rest.ts:111-113` that a duplicate on another replica loses the CAS. The staging
row is deleted only after the CAS. A duplicate on another replica that has read
it by then commits the same put again if a delete lands in between, and the
deleted object is back. Within one process the `inFlightSids` guard prevents
it. The passing runs do not claim `TokenCommitsOnce`.

### Observations

Behaviours met while modelling that no run claims one way or the other. Each is
either exempted by name in the property it would touch, or outside the instance.

Sessions (`client/sync/triage-sync.ts`):

* an encryption that fails below the threshold shows no error, restores no pending
  save and arms no retry (1070-1092), unless something was queued meanwhile (1089): the
  edit rests unsent, with nothing to show for it, until the next edit or reconnect,
  while 342-344 speak of retrying up to five times. `RestIsFinal` exempts sessions whose
  count of failures is not zero; at the threshold, and after a success, it applies.
  A keyframe that is due goes out with nothing to send (1004), against 334-335;
* a write that outlasts a reconnect suppresses the notification of an edit made
  on the new connection (1259, 1287) and returns before it takes the edit up
  (1290, against 1291-1293); that edit goes out with the next one.
  `RestIsAgreement` exempts it (`orphan`).

Presence (`client/sync/objstore-presence.js`):

* a replace broadcast during the first fetch overwrites a local copy that was
  never compared (1586-1587, 1128-1133, 957-959), against "Reports with no
  baseline are never overwritten on a guess" (276-278). `KeepsEdits` therefore
  speaks of reconciled copies only;
* an upload acknowledged over REST whose socket drops before the echo gets no
  event from `seedInventory`; a put broadcast that arrives after the delete's
  (`rest.ts:286`) leaves a listing without an object until the next inventory;
* a save between the comparison and the write is overwritten; an automatic write
  under an upload that has already read the file leaves two copies that differ,
  unflagged until the next open;
* a stale discovery that was rejected leaves a file unattached until the next
  open; a reload in the middle of a first download leaves an unattached copy that is
  flagged later;
* a re-check knows of a delete by its broadcast only. One that fetched the report
  before the user's own delete, queued behind it, found the file gone and passed its
  check before the broadcast came writes the report back (2302-2304, 2342-2349), and the
  user finds a deleted file again; 2372-2376 say that such a fetch settles as "missing"
  before anything is written. Here the history `wiped` of `DeletedStaysDeleted` ends;
  a check made once the broadcast is here must stop the write;
* a re-check that lists a row, has its fetch answered "not found" because the row has
  just been deleted (`fetchByTag` returns `null` for that too, `objstore.ts` 994)
  and has not heard the broadcast takes the bytes to be lost and stores a local copy of
  the same length again (2282-2285, 2450-2487), attached to the workspace or not;
  2249-2252 and 2277-2281 rule that out. It counts as `astray`, and as storing the report
  again.

Transport (`client/sync/socket-transport.ts`, `sse-transport.ts`, `objstore.ts`):

* a password dialog survives a change of socket (337-338); callers on the new
  socket join it, and what is typed is discarded, against 25-28 and 340-342. The
  next edit or reconnect asks again (`coalesced`);
* two flushes that wait for the same POST both resume and POST concurrently,
  against "Concurrent POSTs are disallowed" (179-180); a superseded reader's error
  is dropped although its frames are lost (425-437, against 452) (`slipped`);
* after a hop to another replica the old session's response is still read: events
  of two sessions interleave, an older frame can shut the new session down, and
  events of a session can precede its challenge;
* a hop can leave the session the consumers are connected under without the
  password that another session has accepted; the adapter repeats the password
  on every POST, so the next one authorizes it (`AwaitsPassword`);
* a wrong cached password rides on every POST; a late refusal settles a newer,
  correct attempt, the relay answers nothing to an authorized session, and
  `runAuthFlow` waits until the connection drops (`misled`). It also returns true
  without looking at the socket again after storing the password;
* `wsPutBegin` (691-716) assumes that the nonce does not change on one socket,
  which an SSE session restart breaks: the retried begin runs into its timeout.

Process: a WebSocket accepted while the drain awaits a sweep, after the terminate
timer has fired, is not terminated by the server (`http.ts:241-279` has no
shutdown gate; compare `lifecycle.ts:40-41`). The bus receiver's re-fetch of a put
can be broadcast after a later delete.

Storage:

* a conversion that read "off" can publish a plaintext object after activation,
  and so can a delete that gives up without a key (`stray` in `PlaintextIsGone`;
  compare `STORAGE-ENCRYPTION.md:102-103`);
* a cold read asks for both paths at once and can see neither while another
  instance converts, which is answered as unavailable; `openEncrypted` can read a
  bare row just before completion and report a missing key once;
* a slow worker's advance sets `complete` back for a moment; a failed removal of
  the bytes of a row whose migration failed, after the inventory was completed,
  leaves them in place.

## 4. Proofs

`RevisionCommit_proofs` proves for every set of requests and ids and either
backend, from `CommitAssumption` alone:

* `TypeCorrect`: `Spec => []TypeOK`, which says too that no row exceeds the size limit;
* `ChainStaysLinear`: `Spec => []LinearChain`;
* `AcksAreDurable`: `Spec => []AckedIsDurable`;
* `StaleSavesStayDead`: `Spec => []StaleIsFinal`.

This is the argument the comment in `db-neon.ts` (236-269) makes informally and
says has not been exercised against a real Postgres. None of the four is
inductive. `IInv` adds:

* seqs in use are `1..n` (`Contiguous`) and both indexes are unique, so that
  `MAX(seq) + 1` is the slot after the head;
* `PendingOnTop`: a computed seq stays the slot right after the base, however
  much the chain grows meanwhile, because rows are never dropped or renumbered:
  if the slot is taken, the insert collides;
* `StagedApart`: uncommitted rows collide neither with rows nor with each other;
* `FailedGate`: a gate that failed, or a violation, means that the revision is
  committed or that its base has been `Passed`: its slot is taken, or it will
  never be in the chain. `Passed` is stable, which makes a stale answer final.
  `SignedOnKnown` (a client builds on an id it has seen) is needed here.

Each conjunct has its own step lemma; `Invariance` combines them.

`RevisionChain_proofs` adds, on the same assumption:

* `NobodyIsLeftBehind`: `Spec => []NobodyLeftBehind`: the tail of a stale-base
  answer is a gap-free run that starts behind the client's base, or at the first
  revision or a keyframe, and ends at a head of the chain; and a committed
  revision is broadcast, or still in the hands of a request, or its request failed;
* `ReplicasImplementChain`: `Spec => Chain!Spec`, the refinement of
  `RevisionChain` under `Log`.

`chainFrom` reads its anchor and its rows in two statements. `CatchUpInv` says
what the first leaves for the second: the anchor is a row (`Anchored`), and since
rows are never dropped, a run read later is still behind it. `BlankTails` keeps
tails out of the other answers. The refinement is shown action by action:
`InsertRow` and its synchronous twin append to `Log` only when the row becomes
visible; `LogReadsTheRows` proves the mapping, which picks each row by its seq,
well-defined from `IInv`; answers map to the abstract answers. The abstract
specification has no fairness, so its `Spec` is the whole of what is promised.

`SubscribeHub_proofs` proves for any number of workspaces, revisions and lookups,
from `HubAssumption`:

* `TypeCorrect`: `Spec => []TypeOK`: the pause depth stays a natural number and the
  buffer within its limit;
* `HubMatchesItsSocket`: `Spec => []HubMatchesSocket`;
* `JoinsAreSeamless`: `Spec => JoinIsSeamless`, an invariant and two action properties:
  no revision between catch-up and broadcasts, no broadcast ahead of the catch-up, no
  word from an obsolete lookup.

`CurrentHolds` is what `handleSubscribe` never writes down: the newest lookup of
a workspace is exactly the one that has not released its pause, so that the
depth is the number of workspaces being read (`Books`, by cardinality of
finite sets), and a lookup that was replaced can do nothing to the socket. For
the seam, `EntrySound` follows a catch-up from its first row to its reply, and
`TailPending` says that whatever was committed after a lookup read its rows is
unsent, in the pause buffer or sent: the hub was joined before the read.

`ObjStore_proofs` proves for any puts, uploads, deletes and reapers, from
`ObjStoreAssumption`:

* `TypeCorrect`: `Spec => []TypeOK`, the single writer of a process included;
* `VersionsNameContent`: `Spec => []VersionNamesContent`;
* `LiveRowHasItsBytes`: `Spec => []LiveIsReadable`;
* `AnswersTellTheTruth`: `Spec => []AnswersAreTrue`.

The assumption says that the file system serves one process
(`server-e2e/README.md:120`, 149-152) and that no deployment has both
replayed tokens and bodies that outlast the TTL (section 2 says why); the timing
assumptions given there are guards of the ageing actions. The argument has four
layers. `StoreInv` is the types, with the single writer of each process (`SingleWriter`:
the guard is taken and the other uploads turned away in one step), and that an upload
knows its put and is answered once. `VersionInv`: an incarnation is minted by one upload, and the live row is the
newest of its incarnation. `BytesInv`: bytes are promoted whole and by one
put, and an object the reaper has in hand is `Spent`, which is to say that it is
past the TTL and no upload of its put will write the row any more. This is what
makes the reaper's unlocked passes safe: between its check of the row and the
unlink only a put that is not spent can become the live one.
`AnswerInv`: a row was written by an upload that was answered with success or
learned nothing, a refreshed row is not stale, and what an upload alone on its
token refreshed stays in place until it ends.

`ReportPresence_proofs` proves for any scenarios, contents and numbers of events,
from `PresenceAssumption`:

* `TypeCorrect`: `Spec => []TypeOK`;
* `BaselinesAreTrue`: `Spec => []BaselineIsTrue`;
* `EditsAreKept`: `Spec => KeepsEdits`, an action property.

`PresenceInv` says that a client is honest about the rows the cloud has held
(`HonestClients(past)`): each queued job knows a row it fetched or the one its
upload made, only the job at the head of the lock's queue has started, and a
synced baseline names such a row with its bytes. `past` only grows, so honesty
is monotone and one lemma per function of `objstore-presence.js` suffices.
`AnswerAwaited` ties the answer of a delete to the job that waits for it.
`WriteInv` adds what the order of the awaits gives: no automatic write before
the first snapshot (`BootIsQuiet`), and one under way had compared the file with
a copy the cloud has held, or the copy was never reconciled (`Safe`).

`RelayProcess_proofs` proves for any sockets, streams, jobs, cap and number of
failures, from `BusAssumption` and `ProcessAssumption`:

* `TypeCorrect`: `Spec => []TypeOK`;
* `NothingStrays`: `Spec => []NothingStray`: an open LISTEN connection is the
  client or on its way to its end; until it is stopped the bus is up or getting
  there; and when the database is closed, no request, sweep, handler or connect
  loop runs.

`ProcessInv` is `BusInv` with the shell's type, the cap and `Drained`. `BusInv`
carries what `pubsub.ts` relies on without saying so: `connectAttempt` stands
for exactly one loop (`OneLoop`), a loop holds the client it opened
(`LoopHoldsClient`), at most one reconnect is under way (`OneReconnect`), the
client is up or being connected (`ClientIsUp`), a name in use has been
made (`UsedIsMade`), and once stopped nothing is installed any more
(`StopIsFinal`). Without them a step of `stop()` between two awaits of
`reconnect()` could not be shown to leave no connection behind.

`ReportStorage_proofs` proves for any casts of uploads, readers, conversions,
deletes and workers, with or without the key, and any fault, from
`StorageAssumption`:

* `TypeCorrect`: `Spec => []TypeOK`;
* `ReadsStaySound`: `Spec => []ReadsAreSound`;
* `PlaintextGoes`: `Spec => []PlaintextIsGone`.

The awaits of a conversion, a delete and a worker interleave without a lock, so
the invariant says what each process may still do from the place it has reached.
`TypeInv` is the types, with the places each role can be at. `LifeInv` is what
never goes back: activation, the row's life, that an upload under way has its
bytes in place, and that an inventory removes plaintext only. `BytesInv` is about
the object a reader is given: ciphertext is written only under a key the row
has allocated (`CipherHasKey`, for bytes at rest, in hand and about to be
published), an original that has been superseded is encrypted or gone before its
row is marked, and while a row is live there is an object for it. `OrphanInv`
is about what nobody lists: plaintext of a report that is not live is `Leaving`,
which is to say that a process under way will remove it, or the inventory will see
it, or a conversion that finds the report gone at its re-check will take its
publication back. None of the properties is inductive without the
others: a delete may remove only what no later publication restores.

`SyncTransport_proofs` proves for any streams, sessions, replicas and scenarios,
from `TransportAssumption`:

* `TypeCorrect`: `Spec => []TypeOK`;
* `AcceptedStaysAuthorized`: `Spec => []AcceptedIsAuthorized`: a password the flow
  takes for accepted is the operator's, and its session is authorized or is going to
  be by the next POST.

Each synchronous function of the client is a lemma about the world it is given and
the one it leaves (`Sound`, `Honest`), and each step of the relay one about streams
and sessions (`Vouched`), so that an action's proof is the composition of the
functions it calls. `TypeInv` adds to the types what they rest on: a nonce belongs to a
socket that has left connecting (`NonceHeld`), the reconnect timer to a
transport that wants a connection and has none (`Reconnects`), streams to a
socket of their kind, a WebSocket to exactly one (`OwnsItsOwn`); POSTs are
numbered up to the last (`Numbered`); a stream is told nothing before the relay
has taken it and is gone once both ends are done with it (`Shapes`); each
session writes to a response of its own that has not ended (`Served`, which a
response swap and the end of a connection would break without the other); a flow
that is not stale has a socket (`FlowHeld`).

An answer carries no password: "authenticated" on a WebSocket says nothing of which
frame it answers, and on an SSE response the relay may say it of a session that an
earlier POST opened. `AuthInv` says of every queue why the client may nevertheless
take it for the answer to what it asked last. On a WebSocket everything is of the
one session it is connected under, and that session has no other (`Wire`);
at most one authenticate frame, or after it one answer, is under way, and only
while the flow awaits it (`Pending`): a flow that ended with its frame unanswered
would let the next one be settled by the wrong answer. On responses the relay
answers yes to a body with the right password only (`BodiesAnswered`), and
a session that writes to one is open (`BodiesOpen`), as is any whose yes is on its
way (`Authorizes`). Every POST repeats the socket's password, so once
a POST had the right one all later POSTs have it (`RightStays`), and the flow in hand
gave it (`Repeats`), unless a late refusal has settled an attempt with the right one
(`misled`, see section 3). A response older than the last one heard is not heard any
more (`dispatchOrderedEvent`), so that a yes that settles such an attempt is to a
POST that had it. `KeepsRight` and `KeepsOpen` are what is left of this when the flow
asks whether to keep the password.

The inductive invariants of the hub, of presence, of storage and of the transport were
checked by TLC before they were proved, the first two on instances of their runs (657,080
and 538,112 states), the third on all casts of two processes (630,034); that of the
transport on the first 9.6 million states of an instance with more scenarios than its
run, which TLC did not finish.

Only model-checked:

* `CloudIsFollowed` of `ReportPresence`: it holds in the listed scenarios and not in
  all (late announcements and deletes, see the observations), so there is no theorem
  for every scenario to prove;
* `BaseIsChainState` and `ChangesAttributed` of `TriageSession`: states are folds
  over a chain, and facts about them for every chain need induction over
  data; `RestIsFinal` stands beside them;
* `OneStream` of `SyncTransport`, an action property: the order of the events that
  reach the consumers, across sessions and hops, needs an invariant about the numbers
  in every queue at once, which no proof covers yet;
* the liveness properties, `NothingLeaks` included, which like `ENABLED` and what
  recursive definitions compute are out of the prover's reach.

## 5. Not modelled

* `FetchMintGuard` and its window arithmetic, the streaming GET and the resource
  cap of the object store, the bus's own publishing query, sign-in detection at
  proxies and the mode probe of the client transport;
* the managed server except report storage: REST handlers over single
  transactions, build leases, the upstream cache;
* cryptography (a primitive is assumed to do what it says), browser storage, the
  user interface, risk rules and `common/`: pure functions, rendering and I/O,
  without the interleavings these models are for.

Most of the repository's lines are in the last two groups, so the models stand
for a small share of the lines and for most of its concurrent protocols.

## 6. Plan

Models: broadcast order of puts and deletes across replicas, with the client's
inventory merge; the `FetchMintGuard` window; build leases and the upstream
cache of the managed server.

Proofs: the single stream of `SyncTransport`; the types of
`TriageSession` and what of `RestIsFinal` does not depend on the folds.

## 7. Running

```
tlc -config MCRevisionCommit_neon.cfg MCRevisionCommit
tlapm RevisionCommit_proofs.tla
tlapm RevisionChain_proofs.tla
tlapm SubscribeHub_proofs.tla
tlapm ObjStore_proofs.tla
tlapm ReportPresence_proofs.tla
tlapm RelayProcess_proofs.tla
tlapm ReportStorage_proofs.tla
tlapm SyncTransport_proofs.tla
```
