--------------------------- MODULE ReportPresence ---------------------------
(***************************************************************************)
(* One report of a workspace as one client keeps it: the copy on disk, the *)
(* cloud's row, and client/sync/objstore-presence.js between the two, on   *)
(* the session inventory of client/sync/objstore.ts.  Other members act on *)
(* the relay's row, which ObjStore models in detail; here a put is one     *)
(* compare-and-set.  The relay's broadcasts reach the client in order.     *)
(*                                                                         *)
(* The client is a record; functions that run without an await are         *)
(* operators from a client to the client they leave, and every await of    *)
(* the code is a step boundary.  The writers of the copy queue on the      *)
(* report's lock, each holding it until its last step.                     *)
(*                                                                         *)
(* Contents are numbered as they are made; two contents are the same       *)
(* report when they are equal.  Payloads decrypt, decompress and analyze.  *)
(***************************************************************************)
EXTENDS Naturals, Sequences, FiniteSets

CONSTANT Scenarios  \* the bounds of a behaviour, how often each thing happens:
                    \* peers' puts and deletes, the user's saves, replaces,
                    \* uploads, deletes and rechecks, reloads of the page, drops
                    \* of the socket, failures of a request; and whether a put
                    \* may be announced late

Kinds == {"peerPuts", "peerDeletes", "saves", "replaces", "uploads", "deletes",
          "rechecks", "reloads", "drops", "failures"}

ASSUME PresenceAssumption ==
    \A x \in Scenarios : x.late \in BOOLEAN /\ \A k \in Kinds : x[k] \in Nat

VARIABLES
    left,          \* what the scenario still allows
    row,           \* the relay's row of the report
    past,          \* every row there has been (history)
    unannounced,   \* committed puts whose broadcast the relay has yet to send
    subscription,  \* "off", "paused" while the snapshot is read, or "open"
    wire,          \* messages on their way to the client
    held,          \* broadcasts held back until the snapshot is sent
    disk,          \* the local copy, 0 if there is none
    claimed,       \* whether the workspace lists the report
    made,          \* contents made so far
    session,       \* "closed", "boot" or "open"
    client,        \* the entry of objstore-presence, below
    hold,          \* a Replace: "no", "saved", "uploading"
    deleting,      \* what a delete still has to do here once the cloud's half is
                   \* done: "nothing", "file" (and membership), or "membership"
    recheck,       \* a re-check, below
    wiped,         \* the cloud carried out a delete of the user's, and since then
                   \* nobody, a re-check included, has stored the report again, no
                   \* re-check has passed its check before the broadcast came, and
                   \* the user has not left the delete half done (history)
    astray         \* this session has lost track of the cloud (history): a request
                   \* failed or was refused for good, the echo of an upload of its
                   \* own went with the socket, a delete or an upload of the
                   \* user's crossed an automatic write, a re-check took a row
                   \* that had been deleted for a damaged one

relayVars == <<row, past, unannounced>>
linkVars == <<subscription, wire, held>>
localVars == <<disk, claimed, made>>
userVars == <<hold, deleting, recheck>>
historyVars == <<wiped, astray>>
vars == <<left, relayVars, linkVars, localVars, session, client, userVars, historyVars>>

(* A version within an incarnation of the row, and its absence.            *)
Keys == [version : Nat, inc : Nat]
NoKey == [version |-> 0, inc |-> 0]
Rows == [version : Nat, inc : Nat, content : Nat]
NoRow == [version |-> 0, inc |-> 0, content |-> 0]
KeyOf(r) == [version |-> r.version, inc |-> r.inc]

(* The cloud state the local copy was last reconciled with, and the hash   *)
(* of the copy then (synced baselines only).                               *)
Baselines == [version : Nat, inc : Nat, synced : BOOLEAN, hash : Nat]
NoBaseline == [version |-> 0, inc |-> 0, synced |-> FALSE, hash |-> 0]

(* Holders and waiters of the report's lock.                               *)
Job(kind) == [kind |-> kind, phase |-> "start", got |-> NoRow, read |-> 0, attempt |-> 0]
ReplaceJob(attempt) == [Job("replace") EXCEPT !.attempt = attempt]
PutJob(content, kind) == [Job(kind) EXCEPT !.read = content]

NoFetch == [phase |-> "idle", from |-> NoKey, got |-> NoRow]
NoRecheck == [phase |-> "no", got |-> NoRow, compared |-> NoKey]

NewClient(baseline) ==
    [inventory |-> NoKey, seen |-> NoKey, remote |-> NoKey, named |-> FALSE,
     baseline |-> NoBaseline, saved |-> baseline, localChanged |-> FALSE,
     checkDue |-> FALSE, discovery |-> NoFetch, queue |-> <<>>, deletedDuringRecheck |-> FALSE]

Spend(kind) == left[kind] > 0 /\ left' = [left EXCEPT ![kind] = @ - 1]

-----------------------------------------------------------------------------
(* Local-copy reconciliation.                                              *)

remoteMovedPast(baseline, remote) ==
    /\ baseline # NoBaseline /\ remote # NoKey
    /\ baseline.inc # remote.inc \/ remote.version > baseline.version

baselineIs(baseline, remote) == baseline.synced /\ KeyOf(baseline) = KeyOf(remote)

localChangedSince(baseline, hash) ==
    baseline.synced /\ baseline.hash # 0 /\ hash # 0 /\ baseline.hash # hash

(* Faulty variant: a later cloud state settles a recorded difference.      *)
OnlyKnownChanges(baseline, hash) == localChangedSince(baseline, hash)

(* Would taking a different cloud copy discard something of the user's?    *)
keepsLocalCopy(baseline, hash) ==
    (baseline # NoBaseline /\ ~baseline.synced) \/ localChangedSince(baseline, hash)

needsRecheck(c) ==
    /\ c.remote # NoKey
    /\ c.localChanged \/ (c.baseline # NoBaseline /\ ~c.baseline.synced)

(* Faulty variant: the cloud state known by now, not the one fetched.      *)
BaselineOfLatest(c, key, synced, hash) ==
    LET b == [version |-> IF c.remote = NoKey THEN key.version ELSE c.remote.version,
              inc |-> IF c.remote = NoKey THEN key.inc ELSE c.remote.inc,
              synced |-> synced, hash |-> IF synced THEN hash ELSE 0]
    IN  [c EXCEPT !.baseline = b, !.saved = b, !.localChanged = FALSE]

(* Faulty variant: a difference is recorded with the local hash.           *)
BaselineWithHash(c, key, synced, hash) ==
    LET b == [version |-> key.version, inc |-> key.inc, synced |-> synced, hash |-> hash]
    IN  [c EXCEPT !.baseline = b, !.saved = b, !.localChanged = FALSE]

(* setBaseline and the savePresenceCache that follows each of its calls.   *)
setBaseline(c, key, synced, hash) ==
    LET b == [version |-> key.version, inc |-> key.inc, synced |-> synced,
              hash |-> IF synced THEN hash ELSE 0]
    IN  [c EXCEPT !.baseline = b, !.saved = b, !.localChanged = FALSE]

(* Faulty variant: the highest version, of whichever incarnation.          *)
HighestVersion(c, key) == IF c.remote.version >= key.version THEN c ELSE [c EXCEPT !.remote = key]

noteRemoteMeta(c, key) ==
    IF c.remote.inc = key.inc /\ c.remote.version >= key.version THEN c
    ELSE [c EXCEPT !.remote = key]

noteVersion(c, key) ==
    IF c.seen.inc = key.inc /\ c.seen.version >= key.version THEN c ELSE [c EXCEPT !.seen = key]

(* assertFreshOrLater rejects what the session has seen a later version of.*)
RolledBack(c, r) == r # NoRow /\ c.seen.inc = r.inc /\ r.version < c.seen.version

Enqueue(c, job) == [c EXCEPT !.queue = Append(@, job)]

maybeApplyRemoteReplace(c, attempt) ==
    IF c.remote = NoKey THEN c ELSE Enqueue(c, ReplaceJob(attempt))

CatchUp(c, attempt) ==
    IF remoteMovedPast(c.baseline, c.remote) THEN maybeApplyRemoteReplace(c, attempt) ELSE c

(* One fetchByTag at a time, unless the copy is known and reconciled.      *)
ensureRemoteNames(c) ==
    IF \/ c.remote = NoKey
       \/ c.named /\ claimed /\ disk # 0 /\ c.baseline # NoBaseline
       \/ c.discovery # NoFetch
      THEN c
      ELSE [c EXCEPT !.discovery = [phase |-> "ask", from |-> c.remote, got |-> NoRow]]

onPut(c, key) ==
    LET isReplace == c.remote # NoKey /\ (c.remote.inc # key.inc \/ key.version > c.remote.version)
        noted == noteRemoteMeta(c, key)
    IN  IF isReplace THEN maybeApplyRemoteReplace(noted, 0) ELSE ensureRemoteNames(noted)

(* The baseline is kept, so that a re-upload is seen as new content.       *)
onDeleted(c) ==
    [c EXCEPT !.remote = NoKey, !.named = FALSE, !.saved = c.baseline, !.deletedDuringRecheck = TRUE]

(* The end of the boot: what the inventory and the cache say; the sweep    *)
(* for what moved while this client was away; the scan of the local copy.  *)
finishBoot(c) ==
    LET baseline == IF c.inventory # NoKey \/ claimed THEN c.saved ELSE NoBaseline
        listed == [c EXCEPT !.remote = c.inventory, !.baseline = baseline, !.saved = baseline,
                            !.named = claimed /\ c.inventory # NoKey]
        swept == CatchUp(ensureRemoteNames(listed), 0)
    IN  IF claimed /\ baseline.hash # 0 THEN Enqueue(swept, Job("check")) ELSE swept

(* A snapshot in the middle of a session is told as the events it implies. *)
seedInventory(c, key) ==
    LET old == c.inventory
        current == IF key.inc # 0 /\ old.inc = key.inc /\ old.version >= key.version THEN old ELSE key
        seeded == [c EXCEPT !.inventory = current]
        noted == IF current = NoKey THEN seeded ELSE noteVersion(seeded, current)
        gone == IF old = NoKey \/ current.inc = old.inc THEN noted
                ELSE onDeleted(IF current = NoKey THEN [noted EXCEPT !.seen = NoKey] ELSE noted)
    IN  IF session = "boot" THEN finishBoot(noted)
        ELSE IF current \in {NoKey, old} THEN gone ELSE onPut(gone, current)

(* onTransportMessage.                                                     *)
onPutMessage(c, key) ==
    IF c.inventory.inc = key.inc /\ c.inventory.version > key.version THEN c
    ELSE onPut([noteVersion(c, key) EXCEPT !.inventory = key], key)

onDeletedMessage(c, key) ==
    LET current == IF c.inventory # NoKey THEN c.inventory ELSE c.seen IN
    IF current # NoKey /\ (current.inc # key.inc \/ current.version > key.version) THEN c
    ELSE onDeleted([c EXCEPT !.inventory = NoKey, !.seen = NoKey])

-----------------------------------------------------------------------------
(* The relay's row and its broadcasts, which a paused socket gets after    *)
(* the snapshot.                                                           *)

(* What goes to this client alone, and what to all who are subscribed.     *)
Deliver(answers, broadcasts) ==
    /\ wire' = wire \o answers \o (IF subscription = "open" THEN broadcasts ELSE <<>>)
    /\ held' = IF subscription = "paused" THEN held \o broadcasts ELSE held
    /\ UNCHANGED subscription

Put(key) == <<[type |-> "put", key |-> key]>>
Deleted(key) == <<[type |-> "deleted", key |-> key]>>
Answer == <<[type |-> "answer", key |-> NoKey]>>

Incarnations == {r.inc : r \in past}

Stored(content) ==
    [version |-> row.version + 1,
     inc |-> IF row = NoRow THEN 1 + Cardinality(Incarnations) ELSE row.inc,
     content |-> content]

(* A put commits; its broadcast follows the removal of the staging state.  *)
Commit(content) ==
    /\ row' = Stored(content)
    /\ past' = past \union {Stored(content)}
    /\ wiped' = FALSE
    /\ IF left.late
         THEN unannounced' = unannounced \union {KeyOf(Stored(content))} /\ UNCHANGED linkVars
         ELSE Deliver(<<>>, Put(KeyOf(Stored(content)))) /\ UNCHANGED unannounced

Announce(key) ==
    /\ unannounced' = unannounced \ {key}
    /\ Deliver(<<>>, Put(key))
    /\ UNCHANGED <<left, row, past, localVars, session, client, userVars, historyVars>>

(* The subscribe ack: the inventory as it is, then what was held back.     *)
SendSnapshot ==
    /\ subscription = "paused"
    /\ subscription' = "open"
    /\ wire' = Append(wire, [type |-> "snapshot", key |-> KeyOf(row)]) \o held
    /\ held' = <<>>
    /\ UNCHANGED <<left, relayVars, localVars, session, client, userVars, historyVars>>

(* Another member stores a new report, or one the cloud has held.          *)
PeerPut ==
    /\ Spend("peerPuts")
    /\ \E content \in {made + 1} \union {r.content : r \in past} :
         Commit(content) /\ made' = IF content > made THEN content ELSE made
    /\ UNCHANGED <<disk, claimed, session, client, userVars, astray>>

PeerDelete ==
    /\ row # NoRow
    /\ Spend("peerDeletes")
    /\ row' = NoRow
    /\ Deliver(<<>>, Deleted(KeyOf(row)))
    /\ UNCHANGED <<past, unannounced, localVars, session, client, userVars, historyVars>>

-----------------------------------------------------------------------------
(* Messages and discovery.                                                 *)

ReceiveMessage ==
    /\ session # "closed" /\ wire # <<>> /\ Head(wire).type # "answer"
    /\ LET m == Head(wire) IN
         /\ client' = CASE m.type = "put" -> onPutMessage(client, m.key)
                        [] m.type = "deleted" -> onDeletedMessage(client, m.key)
                        [] m.type = "snapshot" -> seedInventory(client, m.key)
         /\ session' = IF m.type = "snapshot" THEN "open" ELSE session
         /\ recheck' = IF m.type # "snapshot" \/ recheck.phase # "list" THEN recheck
                       ELSE IF m.key = NoKey THEN NoRecheck ELSE [recheck EXCEPT !.phase = "ask"]
    /\ wire' = Tail(wire)
    /\ UNCHANGED <<left, relayVars, subscription, held, localVars, hold, deleting, historyVars>>

(* A discovery that found nothing goes again if the cloud moved meanwhile. *)
Discovered(c, r) ==
    LET rest == [c EXCEPT !.discovery = NoFetch]
        noted == noteVersion(rest, KeyOf(r))
    IN  IF r = NoRow \/ RolledBack(c, r)
          THEN IF c.remote \in {NoKey, c.discovery.from} THEN rest ELSE ensureRemoteNames(rest)
          ELSE IF c.remote = NoKey THEN noted
          ELSE Enqueue([noted EXCEPT !.named = TRUE], [Job("auto") EXCEPT !.got = r])

DiscoveryServed ==
    /\ client.discovery.phase = "ask"
    /\ client' = [client EXCEPT !.discovery = [@ EXCEPT !.phase = "served", !.got = row]]
    /\ UNCHANGED <<left, relayVars, linkVars, localVars, session, userVars, historyVars>>

DiscoveryAnswered ==
    /\ client.discovery.phase = "served"
    /\ client' = Discovered(client, client.discovery.got)
    /\ astray' = (astray \/ (RolledBack(client, client.discovery.got)
                               /\ client'.discovery = NoFetch))
    /\ UNCHANGED <<left, relayVars, linkVars, localVars, session, userVars, wiped>>

-----------------------------------------------------------------------------
(* The jobs under the report's lock.                                       *)

Current == Head(client.queue)
Holds(phase) == client.queue # <<>> /\ Current.phase = phase
Step(c, job) == [c EXCEPT !.queue = <<job>> \o Tail(@)]
Left(c) == [c EXCEPT !.queue = Tail(@)]

(* stillWanted: by the broadcasts a re-check saw, or by the inventory.     *)
StillWanted(c, job) ==
    CASE job.kind = "recheck" -> ~c.deletedDuringRecheck
      [] job.kind \in {"resolve", "uploadOver"} -> TRUE
      [] job.kind \in {"replace", "auto"} -> c.remote # NoKey

(* Faulty variant: the catch-up is not bounded.                            *)
EndlessCatchUp(c, job) ==
    CASE job.kind \in {"replace", "auto"} -> CatchUp(Left(c), 0)
      [] job.kind = "replacePut" -> Enqueue(Left(c), Job("check"))
      [] OTHER -> Left(c)

(* A job that ran to its end, and what it queues.                          *)
Ended(c, job) ==
    CASE job.kind = "auto" -> CatchUp(Left(c), 0)
      [] job.kind = "replace" /\ job.attempt < 2 -> CatchUp(Left(c), job.attempt + 1)
      [] job.kind = "replacePut" -> Enqueue(Left(c), Job("check"))
      [] OTHER -> Left(c)

(* What the end of a job means to the user: a hold is released, a delete   *)
(* goes on, a re-check reports.                                            *)
Tell(job, differs) ==
    /\ hold' = IF job.kind = "replacePut" THEN "no" ELSE hold
    /\ deleting' = IF job.kind = "delete" THEN "file" ELSE deleting
    /\ recheck' = IF job.kind # "recheck" THEN recheck
                  ELSE IF differs THEN [NoRecheck EXCEPT !.phase = "differs", !.compared = KeyOf(job.got)]
                  ELSE NoRecheck

GoOn(c) == client' = c /\ UNCHANGED userVars
Stop(c, job) == client' = c /\ Tell(job, FALSE)
To(phase, job) == GoOn(Step(client, [job EXCEPT !.phase = phase]))

olderThanKnown(c, got) ==
    \E known \in {c.baseline, c.remote} : known.inc = got.inc /\ known.version > got.version

(* checkLocalCopy under the lock: flag or unflag a change of the copy.     *)
CheckLocalCopy(c) ==
    IF hold # "no" \/ ~c.baseline.synced \/ c.baseline.hash = 0 \/ disk = 0 THEN c
    ELSE [c EXCEPT !.localChanged = c.baseline.hash # disk]

StartJob ==
    /\ Holds("start")
    /\ LET job == Current IN
       \/ /\ job.kind = "replace"
          /\ IF client.remote = NoKey
                  \/ (client.baseline.synced /\ ~remoteMovedPast(client.baseline, client.remote))
               THEN Stop(Left(client), job) ELSE To("ask", job)
       \/ /\ job.kind = "auto"
          /\ IF client.remote = NoKey THEN Stop(Left(client), job)
             ELSE To(IF disk = 0 THEN "write" ELSE IF claimed THEN "compare" ELSE "attach", job)
       \/ job.kind = "check" /\ Stop(Left(CheckLocalCopy(client)), job)
       \/ job.kind \in {"put", "replacePut"} /\ To("put", job)
       \/ job.kind = "delete" /\ To("remove", job)
       \/ job.kind = "recheck" /\ To(IF olderThanKnown(client, job.got) THEN "ask" ELSE "compare", job)
       \/ job.kind = "resolve" /\ To("ask", job)        \* keeping the cloud's copy
       \/ job.kind = "uploadOver" /\ To("upload", job)  \* keeping ours
    /\ UNCHANGED <<left, relayVars, linkVars, localVars, session, historyVars>>

JobServed ==
    /\ Holds("ask")
    /\ client' = Step(client, [Current EXCEPT !.phase = "served", !.got = row])
    /\ UNCHANGED <<left, relayVars, linkVars, localVars, session, userVars, historyVars>>

JobAnswered ==
    /\ Holds("served")
    /\ LET job == Current  r == job.got IN
         /\ astray' = (astray \/ RolledBack(client, r))
         /\ IF r = NoRow \/ RolledBack(client, r) THEN Stop(Left(client), job)
            ELSE LET noted == noteVersion(client, KeyOf(r)) IN
                 IF ~StillWanted(noted, job) THEN Stop(Left(noted), job)
                 ELSE GoOn(Step([noted EXCEPT !.named = @ \/ job.kind = "replace"],
                                [job EXCEPT !.phase = "compare"]))
    /\ UNCHANGED <<left, relayVars, linkVars, localVars, session, wiped>>

(* A detached copy is attached as it is, and compared unless it has been.  *)
Attach ==
    /\ Holds("attach")
    /\ claimed' = TRUE
    /\ LET job == Current IN
         Stop(Ended(IF client.baseline # NoBaseline \/ disk = 0 THEN client
                    ELSE setBaseline(client, job.got, disk = job.got.content, disk), job), job)
    /\ UNCHANGED <<left, relayVars, linkVars, disk, made, session, historyVars>>

(* compareLocal, and what each path makes of the answer: job.read is the   *)
(* copy as it is compared.                                                 *)
Same(job) == job.read = job.got.content
Moved(job) == remoteMovedPast(client.baseline, job.got)
Keeps(job) == keepsLocalCopy(client.baseline, job.read)
Known(job) == baselineIs(client.baseline, job.got) /\ client.baseline.hash = job.read
Recorded(job, synced) == setBaseline(client, job.got, synced, job.read)
End(c, job) == Stop(Ended(c, job), job)

applyRemoteBytes(job) ==
    IF Same(job) THEN End(Recorded(job, TRUE), job)
    ELSE IF job.kind = "replace" /\ job.read # 0 /\ Keeps(job) THEN End(Recorded(job, FALSE), job)
    ELSE To("write", job)

reconcileClaimedCopy(job) ==
    IF job.read = 0 THEN End(client, job)
    ELSE IF Same(job) THEN End(IF Known(job) THEN client ELSE Recorded(job, TRUE), job)
    ELSE IF Moved(job) /\ ~Keeps(job) THEN To("write", job)
    ELSE IF client.baseline = NoBaseline \/ Moved(job) THEN End(Recorded(job, FALSE), job)
    ELSE End([client EXCEPT !.localChanged = @ \/ localChangedSince(client.baseline, job.read)], job)

reconcileRecheckedReport(job) ==
    IF Same(job) THEN End(IF Known(job) THEN client ELSE Recorded(job, TRUE), job)
    ELSE IF job.read # 0 /\ baselineIs(client.baseline, job.got) THEN To("upload", job)
    ELSE IF job.read = 0 \/ (Moved(job) /\ ~Keeps(job)) THEN To("write", job)
    ELSE client' = Left(Recorded(job, FALSE)) /\ Tell(job, TRUE)

CompareCopies ==
    /\ Holds("compare")
    /\ LET job == [Current EXCEPT !.read = disk] IN
         IF ~StillWanted(client, job) THEN End(client, job)
         ELSE \/ job.kind \in {"replace", "resolve"} /\ applyRemoteBytes(job)
              \/ job.kind = "auto" /\ reconcileClaimedCopy(job)
              \/ job.kind = "recheck" /\ reconcileRecheckedReport(job)
    /\ UNCHANGED <<left, relayVars, linkVars, localVars, session, historyVars>>

(* The payload is found to be a report; a delete may have come meanwhile.  *)
(* A re-check knows of a delete by its broadcast only, and passes if it    *)
(* comes between the carrying out of the delete and the broadcast.         *)
BeginSave ==
    /\ Holds("write")
    /\ LET job == Current IN
         /\ wiped' = (wiped /\ ~(job.kind = "recheck" /\ ~client.deletedDuringRecheck))
         /\ IF StillWanted(client, job) THEN To("save", job)
            ELSE Stop(Ended(client, job), job)
    /\ UNCHANGED <<left, relayVars, linkVars, localVars, session, astray>>

SaveLands ==
    /\ Holds("save")
    /\ disk' = Current.got.content
    /\ To("saved", Current)
    /\ astray' = (astray \/ \E i \in 2..Len(client.queue) : client.queue[i].kind = "put")
    /\ UNCHANGED <<left, relayVars, linkVars, claimed, made, session, wiped>>

(* A new report is attached once saved, unless it was deleted meanwhile.   *)
SaveRecorded ==
    /\ Holds("saved")
    /\ LET job == Current
           new == job.kind = "auto" /\ job.read = 0
           recorded == setBaseline(client, job.got, TRUE, job.got.content)
       IN  /\ Stop(Ended(IF new /\ client.remote = NoKey THEN client ELSE recorded, job), job)
           /\ claimed' = (claimed \/ (new /\ client.remote # NoKey))
    /\ UNCHANGED <<left, relayVars, linkVars, disk, made, session, historyVars>>

(* uploadLocalCopy: the copy as it is now, over the state it was compared  *)
(* with.                                                                   *)
ReadForUpload ==
    /\ Holds("upload")
    /\ LET job == Current IN
         IF disk = 0 \/ ~StillWanted(client, job) THEN Stop(Left(client), job)
         ELSE GoOn(Step(client, [job EXCEPT !.phase = "put", !.read = disk]))
    /\ UNCHANGED <<left, relayVars, linkVars, localVars, session, historyVars>>

(* The precondition of a put: what it was compared with, or, for putFile,  *)
(* that there is no row, and on a conflict the row there is.               *)
Precondition(job) == KeyOf(job.got)

PutArrives ==
    /\ Holds("put")
    /\ LET job == Current  met == Precondition(job) = KeyOf(row) IN
         /\ IF met THEN Commit(job.read) ELSE UNCHANGED <<relayVars, linkVars, wiped>>
         /\ GoOn(Step(client, [job EXCEPT !.phase = IF met THEN "stored" ELSE "conflict",
                                          !.got = IF met THEN Stored(job.read) ELSE row]))
    /\ UNCHANGED <<left, localVars, session, astray>>

recordOwnUpload(c, job) == setBaseline(c, job.got, TRUE, job.read)

PutAnswered ==
    /\ Holds("stored")
    /\ LET job == Current
           key == KeyOf(job.got)
           created == key.version = 1
           noted == noteVersion(IF created THEN [client EXCEPT !.seen = NoKey] ELSE client, key)
           recorded == recordOwnUpload([noted EXCEPT !.inventory = key], job)
           own == job.kind \in {"put", "replacePut"}
       IN  Stop(Ended(IF own THEN CatchUp(recorded, 0) ELSE recorded, job), job)
    /\ UNCHANGED <<left, relayVars, linkVars, localVars, session, historyVars>>

(* retryOnConflict: putFile goes again, once, over the row it was told of. *)
PutRefused ==
    /\ Holds("conflict")
    /\ LET job == Current
           told == IF job.got = NoRow THEN client ELSE noteVersion(client, KeyOf(job.got))
       IN  IF job.kind \in {"put", "replacePut"} /\ job.attempt = 0 /\ job.got # NoRow
             THEN GoOn(Step(told, [job EXCEPT !.phase = "put", !.attempt = 1]))
             ELSE Stop(Ended(told, job), job)
    /\ UNCHANGED <<left, relayVars, linkVars, localVars, session, historyVars>>

(* deleteFromRemote: first as if there were no row, then the row there is. *)
(* The answer comes by the socket, before the broadcast.                   *)
DeleteArrives ==
    /\ Holds("remove")
    /\ LET job == Current  met == KeyOf(job.got) = KeyOf(row) IN
         /\ Deliver(Answer, IF met /\ row # NoRow THEN Deleted(KeyOf(row)) ELSE <<>>)
         /\ row' = IF met THEN NoRow ELSE row
         /\ wiped' = (wiped \/ met)
         /\ GoOn(Step(client, [job EXCEPT !.phase = IF met THEN "removed" ELSE "kept", !.got = row]))
    /\ UNCHANGED <<left, past, unannounced, localVars, session, astray>>

(* The tag and its baseline go before the broadcast arrives; the cache     *)
(* keeps them until then.                                                  *)
Forget(c) ==
    [c EXCEPT !.inventory = NoKey, !.seen = NoKey, !.remote = NoKey, !.named = FALSE,
              !.baseline = NoBaseline]

DeleteAnswered ==
    /\ wire # <<>> /\ Head(wire).type = "answer"
    /\ wire' = Tail(wire)
    /\ LET job == Current
           told == IF job.got = NoRow THEN client ELSE noteVersion(client, KeyOf(job.got))
       IN  IF job.phase = "removed" THEN Stop(Left(Forget(client)), job)
           ELSE IF job.attempt = 0 /\ job.got # NoRow
             THEN GoOn(Step(told, [job EXCEPT !.phase = "remove", !.attempt = 1]))
             ELSE Stop(Left(told), job)
    /\ UNCHANGED <<left, relayVars, subscription, held, localVars, session, historyVars>>

-----------------------------------------------------------------------------
(* The user.                                                               *)

DeleteUnderWay ==
    deleting # "nothing" \/ \E i \in 1..Len(client.queue) : client.queue[i].kind = "delete"

Idle == hold = "no" /\ deleting = "nothing" /\ ~\E i \in 1..Len(client.queue) :
            client.queue[i].kind \in {"put", "replacePut", "delete", "uploadOver"}

(* The file-mutation hook.  A save during one of the entry's own is        *)
(* counted and checked afterwards, an announced one when it is released.   *)
Noticed(announced) ==
    IF session = "closed" \/ (announced /\ ~Holds("save")) THEN client
    ELSE [client EXCEPT !.checkDue = TRUE]

Save(announced) ==
    /\ made' = made + 1
    /\ disk' = made + 1
    /\ client' = Noticed(announced)
    /\ wiped' = FALSE

(* A save nobody uploads.                                                  *)
SaveLocally ==
    /\ Spend("saves")
    /\ Save(hold # "no")
    /\ claimed' = TRUE
    /\ UNCHANGED <<relayVars, linkVars, session, userVars, astray>>

(* The Replace of an import: announce, save, read back, upload, release.   *)
ReplaceSaves ==
    /\ claimed /\ disk # 0 /\ Idle
    /\ Spend("replaces")
    /\ Save(TRUE)
    /\ hold' = "saved"
    /\ UNCHANGED <<relayVars, linkVars, claimed, session, deleting, recheck, astray>>

ReplaceUploads ==
    /\ hold = "saved" /\ session = "open" /\ disk # 0
    /\ hold' = "uploading"
    /\ client' = Enqueue(client, PutJob(disk, "replacePut"))
    /\ UNCHANGED <<left, relayVars, linkVars, localVars, session, deleting, recheck, historyVars>>

Upload ==
    /\ session = "open" /\ claimed /\ disk # 0 /\ Idle
    /\ Spend("uploads")
    /\ client' = Enqueue(client, PutJob(disk, "put"))
    /\ UNCHANGED <<relayVars, linkVars, localVars, session, userVars, historyVars>>

(* deleteCurrent: the cloud's copy, then the local one and the membership. *)
Delete ==
    /\ session = "open" /\ disk # 0 /\ Idle
    /\ Spend("deletes")
    /\ client' = Enqueue(client, Job("delete"))
    /\ UNCHANGED <<relayVars, linkVars, localVars, session, userVars, historyVars>>

DeleteLocally ==
    /\ deleting = "file"
    /\ deleting' = "membership"
    /\ disk' = 0
    /\ client' = [client EXCEPT !.localChanged = FALSE]
    /\ astray' = (astray \/ client.remote # NoKey)
    /\ UNCHANGED <<left, relayVars, linkVars, claimed, made, session, hold, recheck, wiped>>

LeaveWorkspace ==
    /\ deleting = "membership"
    /\ deleting' = "nothing"
    /\ claimed' = FALSE
    /\ astray' = (astray \/ client.remote # NoKey)
    /\ UNCHANGED <<left, relayVars, linkVars, disk, made, session, client, hold, recheck, wiped>>

(* The user turns to another view, and the delete goes no further.         *)
Navigate ==
    /\ deleting # "nothing"
    /\ deleting' = "nothing"
    /\ wiped' = FALSE
    /\ UNCHANGED <<left, relayVars, linkVars, localVars, session, client, hold, recheck, astray>>

CheckComesDue ==
    /\ session # "closed" /\ client.checkDue
    /\ client' = Enqueue([client EXCEPT !.checkDue = FALSE], Job("check"))
    /\ UNCHANGED <<left, relayVars, linkVars, localVars, session, userVars, historyVars>>

(* recheckRemoteStorage: a fresh listing by a fresh subscribe, a fetch of  *)
(* what is listed, the comparison under the lock, the user's choice.       *)
RecheckBegins ==
    /\ session = "open" /\ subscription = "open" /\ recheck.phase \in {"no", "differs"}
    /\ Spend("rechecks")
    /\ recheck' = [NoRecheck EXCEPT !.phase = "list"]
    /\ client' = [client EXCEPT !.deletedDuringRecheck = FALSE]
    /\ subscription' = "paused"
    /\ UNCHANGED <<relayVars, wire, held, localVars, session, hold, deleting, historyVars>>

(* freshRemoteListing: no answer in time, so what the session knows counts.*)
ListCached ==
    /\ recheck.phase = "list"
    /\ Spend("failures")
    /\ recheck' = IF client.inventory = NoKey THEN NoRecheck ELSE [recheck EXCEPT !.phase = "ask"]
    /\ UNCHANGED <<relayVars, linkVars, localVars, session, client, hold, deleting, historyVars>>

RecheckServed ==
    /\ recheck.phase = "ask"
    /\ recheck' = [recheck EXCEPT !.phase = "served", !.got = row]
    /\ UNCHANGED <<left, relayVars, linkVars, localVars, session, client, hold, deleting, historyVars>>

(* recoverReport: a row that is listed and cannot be fetched is stored     *)
(* again from a local copy as long as it, attached or not, unless a delete *)
(* has been seen.                                                          *)
RecoverReport ==
    /\ disk # 0 /\ ~client.deletedDuringRecheck
    /\ client' = Enqueue(client, PutJob(disk, "put"))
    /\ astray' = TRUE

RecheckAnswered ==
    /\ recheck.phase = "served"
    /\ LET r == recheck.got  noted == noteVersion(client, KeyOf(r)) IN
       \/ r = NoRow /\ recheck' = NoRecheck /\ RecoverReport
       \/ /\ IF r = NoRow \/ RolledBack(client, r) THEN recheck' = NoRecheck /\ UNCHANGED client
             ELSE IF ~claimed THEN recheck' = NoRecheck /\ client' = noted
             ELSE /\ recheck' = [recheck EXCEPT !.phase = "queued"]
                  /\ client' = Enqueue(noted, [Job("recheck") EXCEPT !.got = r])
          /\ UNCHANGED astray
    /\ UNCHANGED <<left, relayVars, linkVars, localVars, session, hold, deleting, wiped>>

(* resolveReportDifference.                                                *)
Resolve ==
    /\ recheck.phase = "differs" /\ session = "open"
    /\ \E kind \in {"resolve", "uploadOver"} :
         client' = Enqueue(client, [Job(kind) EXCEPT !.got = [version |-> recheck.compared.version,
                                                   inc |-> recheck.compared.inc, content |-> 0]])
    /\ recheck' = NoRecheck
    /\ UNCHANGED <<left, relayVars, linkVars, localVars, session, hold, deleting, historyVars>>

-----------------------------------------------------------------------------
(* Sessions, reloads and failures.                                         *)

openWorkspace ==
    /\ session = "closed" /\ subscription = "off"
    /\ session' = "boot"
    /\ subscription' = "paused"
    /\ astray' = FALSE
    /\ UNCHANGED <<left, relayVars, wire, held, localVars, client, userVars, wiped>>

(* The page goes, and with it all but the disk, the membership and the     *)
(* cache; a save under way lands or does not.                              *)
Reload ==
    /\ session # "closed"
    /\ Spend("reloads")
    /\ session' = "closed"
    /\ subscription' = "off" /\ wire' = <<>> /\ held' = <<>>
    /\ disk' \in IF Holds("save") THEN {disk, Current.got.content} ELSE {disk}
    /\ client' = NewClient(client.saved)
    /\ hold' = "no" /\ deleting' = "nothing" /\ recheck' = NoRecheck
    /\ wiped' = (wiped /\ ~DeleteUnderWay)
    /\ UNCHANGED <<relayVars, claimed, made, astray>>

(* The socket drops; the transport connects and subscribes again.          *)
Drop ==
    /\ session = "open" /\ recheck.phase # "list"
    /\ Spend("drops")
    /\ astray' = (astray \/ client.inventory # client.remote \/ Holds("stored"))
    /\ subscription' = "paused" /\ wire' = <<>> /\ held' = <<>>
    /\ IF Holds("removed") \/ Holds("kept") THEN Stop(Left(client), Current)
       ELSE UNCHANGED <<client, userVars>>
    /\ wiped' = (wiped /\ ~Holds("removed"))
    /\ UNCHANGED <<relayVars, localVars, session>>

(* A request fails: a fetch, or a put or delete, before it is carried out  *)
(* or after.                                                               *)
FetchFails ==
    /\ Spend("failures")
    /\ \/ client.discovery.phase = "ask" /\ client' = Discovered(client, NoRow) /\ UNCHANGED userVars
       \/ Holds("ask") /\ Stop(Left(client), Current)
       \/ recheck.phase = "ask" /\ recheck' = NoRecheck /\ UNCHANGED <<client, hold, deleting>>
    /\ astray' = TRUE
    /\ UNCHANGED <<relayVars, linkVars, localVars, session, wiped>>

ChangeFails ==
    /\ Spend("failures")
    /\ \E phase \in {"put", "stored", "remove"} :
         Holds(phase) /\ Stop(Ended(client, Current), Current)
    /\ astray' = TRUE
    /\ UNCHANGED <<relayVars, linkVars, localVars, session, wiped>>

-----------------------------------------------------------------------------

(* A report the cloud holds or not, and a local copy of it, another report *)
(* by its name, attached or not, or none.                                  *)
Init ==
    /\ left \in Scenarios
    /\ row \in {NoRow, [version |-> 1, inc |-> 1, content |-> 1]}
    /\ past = {row} \ {NoRow}
    /\ unannounced = {}
    /\ subscription = "off" /\ wire = <<>> /\ held = <<>>
    /\ disk \in {0, 2} /\ claimed \in BOOLEAN /\ (claimed => disk # 0)
    /\ made = 2
    /\ session = "closed"
    /\ client = NewClient(NoBaseline)
    /\ hold = "no" /\ deleting = "nothing" /\ recheck = NoRecheck
    /\ wiped = FALSE /\ astray = FALSE

(* What the code and the relay do of themselves.                           *)
Progress ==
    \/ \E key \in unannounced : Announce(key)
    \/ SendSnapshot \/ ReceiveMessage
    \/ DiscoveryServed \/ DiscoveryAnswered
    \/ StartJob \/ JobServed \/ JobAnswered
    \/ Attach \/ CompareCopies \/ BeginSave \/ SaveLands \/ SaveRecorded
    \/ ReadForUpload \/ PutArrives \/ PutAnswered \/ PutRefused
    \/ DeleteArrives \/ DeleteAnswered
    \/ ReplaceUploads \/ DeleteLocally \/ LeaveWorkspace \/ CheckComesDue
    \/ RecheckServed \/ RecheckAnswered
    \/ openWorkspace

Next ==
    \/ Progress
    \/ PeerPut \/ PeerDelete
    \/ SaveLocally \/ ReplaceSaves \/ Upload \/ Delete \/ Navigate \/ RecheckBegins \/ Resolve
    \/ ListCached \/ Reload \/ Drop \/ FetchFails \/ ChangeFails

Spec == Init /\ [][Next]_vars
FairSpec == Spec /\ WF_vars(Progress)

-----------------------------------------------------------------------------

Jobs == [kind : {"replace", "auto", "check", "put", "replacePut", "delete", "recheck",
                 "resolve", "uploadOver"},
         phase : {"start", "ask", "served", "attach", "compare", "write", "save", "saved",
                  "upload", "put", "stored", "conflict", "remove", "removed", "kept"},
         got : Rows, read : Nat, attempt : 0..2]

(* Types; and a baseline carries a hash exactly if it is synced, which     *)
(* setBaseline keeps (localChangedSince relies on it).                     *)
TypeOK ==
    /\ row \in Rows /\ past \subseteq Rows /\ unannounced \subseteq Keys
    /\ subscription \in {"off", "paused", "open"}
    /\ \A q \in {wire, held} : \A i \in 1..Len(q) : q[i].key \in Keys
    /\ disk \in Nat /\ claimed \in BOOLEAN /\ made \in Nat
    /\ session \in {"closed", "boot", "open"}
    /\ client.inventory \in Keys /\ client.seen \in Keys /\ client.remote \in Keys
    /\ \A b \in {client.baseline, client.saved} : b \in Baselines /\ (b.synced <=> b.hash # 0)
    /\ \A i \in 1..Len(client.queue) : client.queue[i] \in Jobs
    /\ hold \in {"no", "saved", "uploading"} /\ deleting \in {"nothing", "file", "membership"}

(* A synced baseline, in memory or cached, names bytes the cloud held at   *)
(* that very version, whatever arrived while they were fetched, compared,  *)
(* saved or uploaded (setBaseline's callers).                              *)
BaselineIsTrue ==
    \A b \in {client.baseline, client.saved} :
        b.synced => [version |-> b.version, inc |-> b.inc, content |-> b.hash] \in past

Reached == {r.content : r \in past}

(* keepsLocalCopy: an automatic write over a copy that was reconciled once *)
(* replaces only bytes the cloud has held, so that nothing of the user's   *)
(* is lost (unless the copy changes under the write).                      *)
KeepsEdits ==
    [][Holds("save") /\ Current.kind \in {"replace", "auto", "recheck"} /\ disk' # disk
         /\ Current.read = disk /\ client.baseline # NoBaseline
         => disk \in {0} \union Reached]_vars

AtRest ==
    /\ session = "open" /\ subscription = "open" /\ wire = <<>> /\ unannounced = {}
    /\ client.queue = <<>> /\ client.discovery = NoFetch /\ ~client.checkDue
    /\ hold = "no" /\ deleting = "nothing" /\ recheck.phase \in {"no", "differs"}

(* Once all is quiet and the session has lost track of nothing, a report   *)
(* the cloud holds is attached here, and its copy equals the cloud's or is *)
(* flagged for a re-check: what the badge says is so (the onPut paths,     *)
(* finishBoot's sweep, the catch-ups of Ended).                            *)
CopiesAgree ==
    AtRest /\ ~astray /\ row # NoRow => claimed /\ (disk = row.content \/ needsRecheck(client))

(* remoteMeta, which needsRecheck and every catch-up compare with, is then *)
(* the relay's row: snapshots, broadcasts and the client's own answers     *)
(* have merged to the right state (noteRemoteMeta, seedInventory).         *)
InventoryAgrees == AtRest /\ ~astray => client.remote = KeyOf(row)

(* What the user deleted everywhere is not brought back by a fetch or a    *)
(* write that was under way (deleteFromRemote's drop of the tag), nor by a *)
(* re-check that checks once the delete's broadcast is here (stillWanted). *)
(* One that checks between the cloud's delete and the broadcast does write *)
(* the report back, which the comment on olderThanKnown rules out; wiped   *)
(* ends there.                                                             *)
DeletedStaysDeleted == wiped /\ ~DeleteUnderWay => disk = 0 /\ ~claimed

(* The client follows the cloud: at rest its inventory is the relay's row  *)
(* and its copy equals the cloud's or is flagged; a delete stays, at rest  *)
(* or not, whatever fetch, broadcast, snapshot or answer crossed it.       *)
CloudIsFollowed == CopiesAgree /\ InventoryAgrees /\ DeletedStaysDeleted

(* The client comes to rest over and over again: the catch-ups, the        *)
(* discoveries that go again and the queue of the lock all end.            *)
Settles == []<>(session = "closed" \/ AtRest)

=============================================================================
