--------------------------- MODULE ReportStorage ---------------------------
(***************************************************************************)
(* The bytes of one report of the managed server while storage encryption  *)
(* is enabled under traffic: server-managed/storage-encryption.ts,         *)
(* storage-maintenance.ts, storage-db.ts and report-store.ts.              *)
(*                                                                         *)
(* A report has up to two objects, the compressed one every upload writes  *)
(* and the original an older release left, and a row whose data key and    *)
(* encrypted flag say how to read them.  An instance started with the      *)
(* master key is keyed; one started before it keeps running without.       *)
(* Requests, deletes and migration workers of both kinds interleave at     *)
(* every await.                                                            *)
(*                                                                         *)
(* Objects hold the report as plaintext or as ciphertext under the row's   *)
(* key; no original begins with the ciphertext's magic bytes.              *)
(***************************************************************************)
EXTENDS Naturals

CONSTANTS
    Procs,     \* requests and maintenance workers
    Scenarios  \* what is stored at first, each process's role and instance, and
               \* the one fault a behaviour may have

Roles == {"none", "upload", "read", "migrate", "delete"}
Faults == {"none", "put", "ack", "unlink", "crash"}

Nobody == "nobody"

(* An upload makes a fresh id, so it is the only one of its report, which  *)
(* nothing is stored of before.                                            *)
ASSUME StorageAssumption ==
    /\ Nobody \notin Procs
    /\ \A x \in Scenarios :
          /\ x.stored \in {"nothing", "original", "compressed", "both"}
          /\ x.role \in [Procs -> Roles] /\ x.keyed \in [Procs -> BOOLEAN]
          /\ x.fault \in Faults
          /\ \A p, q \in Procs : x.role[p] = "upload" /\ x.role[q] = "upload" => p = q
          /\ \A p \in Procs : x.role[p] = "upload" => x.stored = "nothing"

VARIABLES
    sc,       \* the scenario
    row,      \* the row of managed_report
    policy,   \* the row of managed_storage_encryption
    lock,     \* the process that holds the database's writer lock over a commit
    file,     \* the object at each path
    at,       \* where each process is
    loc,      \* its variables
    copy,     \* a read's two lookups, below
    answer,   \* what a read has answered
    faulted,  \* the fault has happened (history)
    stray     \* plaintext was left to a keyless instance's mercy (history): it
              \* published a conversion, or gave up a delete, after activation

bytesVars == <<file, stray>>
procVars == <<at, loc, copy, answer>>
vars == <<sc, row, policy, lock, bytesVars, procVars, faulted>>

(* The paths of a report, the one migration takes first.                   *)
Paths == {"br", "orig"}
FirstPath == "br"

NoRow == [is |-> "none", key |-> FALSE, enc |-> FALSE]
NoObject == [form |-> "none", version |-> 0]
NoLookup == [at |-> "idle", row |-> NoRow, complete |-> FALSE, got |-> NoObject, tries |-> 0]
Blank == [got |-> NoObject, tries |-> 0, cursor |-> "start",
          path |-> FirstPath, todo |-> {}, found |-> FALSE]

(* Attempts a read or a conversion makes at an object that changes.        *)
Attempts == 3

-----------------------------------------------------------------------------
(* Initial state: the report as an older release stored it, its conversion *)
(* perhaps interrupted, or not there yet.                                  *)
Plain(there) == [form |-> IF there THEN "plain" ELSE "none", version |-> 0]

Entry == [none |-> "done", upload |-> "put", read |-> "start", migrate |-> "rest",
          delete |-> "delete"]

Init ==
    /\ sc \in Scenarios
    /\ row = [NoRow EXCEPT !.is = IF sc.stored = "nothing" THEN "none" ELSE "live"]
    /\ policy = [enabled |-> FALSE, cursor |-> "start", complete |-> FALSE, cleaned |-> FALSE]
    /\ lock = Nobody
    /\ file = [q \in Paths |->
                 Plain(sc.stored = "both"
                       \/ sc.stored = (IF q = "orig" THEN "original" ELSE "compressed"))]
    /\ at = [p \in Procs |-> Entry[sc.role[p]]]
    /\ loc = [p \in Procs |-> Blank]
    /\ copy = [p \in Procs |-> [q \in Paths |-> NoLookup]]
    /\ answer = [p \in Procs |-> "none"]
    /\ faulted = FALSE /\ stray = FALSE

-----------------------------------------------------------------------------
(* Helpers.                                                                *)

keyed(p) == sc.keyed[p]
MayFail(f) == sc.fault = f /\ ~faulted

Goto(p, place) == at' = [at EXCEPT ![p] = place]
Keep(p, vals) == loc' = [loc EXCEPT ![p] = vals]

(* A process is over; its variables go.                                    *)
Leave(p, place) == Goto(p, place) /\ Keep(p, Blank)

Write(q, form) == file' = [file EXCEPT ![q] = [form |-> form, version |-> @.version + 1]]
Remove(q) == file' = [file EXCEPT ![q].form = "none"]
There(q) == file[q].form # "none"

(* The fence every plaintext write re-reads after it, mode(true): an       *)
(* instance that has the key found encryption enabled when it started.     *)
FenceIsOff == ~policy.enabled

(* A header that shows ciphertext is never taken for the report's bytes.   *)
LooksEncrypted(object) == object.form = "cipher"

(* A put: it lands, or fails with or without having landed.                *)
Put(p, q, form, next, failed) ==
    \/ Write(q, form) /\ next /\ UNCHANGED faulted
    \/ /\ MayFail("put") /\ faulted' = TRUE
       /\ Write(q, form) \/ UNCHANGED file
       /\ failed

-----------------------------------------------------------------------------
(* Uploads: the object first, then the row.                                *)

UploadPut(p) ==
    /\ at[p] = "put" /\ (keyed(p) => policy.enabled)
    /\ Put(p, "br", IF keyed(p) THEN "cipher" ELSE "plain",
           Goto(p, IF keyed(p) THEN "insert" ELSE "fence"),
           Goto(p, IF keyed(p) THEN "done" ELSE "discard"))
    /\ UNCHANGED <<sc, row, policy, lock, stray, loc, copy, answer>>

UploadFence(p) ==
    /\ at[p] = "fence"
    /\ Goto(p, IF FenceIsOff THEN "insert" ELSE "discard")
    /\ UNCHANGED <<sc, row, policy, lock, bytesVars, loc, copy, answer, faulted>>

(* discardPlaintextWrite compares the bytes and removes that version only. *)
Discard(p) ==
    /\ at[p] = "discard"
    /\ IF file["br"].form = "plain" THEN Remove("br") ELSE UNCHANGED file
    /\ Leave(p, "done")
    /\ UNCHANGED <<sc, row, policy, lock, stray, copy, answer, faulted>>

(* insertOrReuseReport under the writer lock: the same report is there     *)
(* already, the data key does not fit the policy, or the row is committed. *)
InsertValid(p) == keyed(p) = policy.enabled

ReleasedEarly(p) == Nobody                         \* a lock not held to the commit
LockedBy(p) == p

Insert(p) ==
    /\ at[p] = "insert" /\ lock = Nobody
    /\ \/ Goto(p, "drop") /\ UNCHANGED lock
       \/ IF InsertValid(p) THEN Goto(p, "commit") /\ lock' = LockedBy(p)
                            ELSE Goto(p, "resolve") /\ UNCHANGED lock
    /\ UNCHANGED <<sc, row, policy, bytesVars, loc, copy, answer, faulted>>

(* The connection is lost while the commit is under way.                   *)
LoseAck(p) ==
    /\ at[p] = "commit" /\ MayFail("ack") /\ faulted' = TRUE
    /\ Goto(p, "resolve")
    /\ UNCHANGED <<sc, row, policy, lock, bytesVars, loc, copy, answer>>

(* The database commits, or gives up a transaction whose client is gone.   *)
Commit(p) ==
    /\ lock = p /\ lock' = Nobody
    /\ \/ row' = [is |-> "live", key |-> keyed(p), enc |-> keyed(p)]
       \/ faulted /\ UNCHANGED row
    /\ IF at[p] = "commit" THEN Goto(p, "done") ELSE UNCHANGED at
    /\ UNCHANGED <<sc, policy, bytesVars, loc, copy, answer, faulted>>

(* resolveReportUpload takes the writer lock, so a commit under way counts; *)
(* when the lost connection fails it too, the candidate is kept.           *)
UnlockedResolve == TRUE                            \* a plain read of the row
CanResolve == lock = Nobody

Resolve(p) ==
    /\ at[p] = "resolve"
    /\ \/ CanResolve /\ Goto(p, IF row.is = "none" THEN "drop" ELSE "done") /\ UNCHANGED faulted
       \/ sc.fault = "ack" /\ faulted' = TRUE /\ Goto(p, "done")
    /\ UNCHANGED <<sc, row, policy, lock, bytesVars, loc, copy, answer>>

-----------------------------------------------------------------------------
(* Deletes: the row first, then both objects, each if it can be.  A        *)
(* keyless instance that finds encryption on gives up.                     *)

DeleteRow(p) ==
    /\ at[p] = "delete" /\ lock = Nobody /\ row.is = "live" /\ (keyed(p) => policy.enabled)
    /\ row' = [NoRow EXCEPT !.is = "gone"]
    /\ Goto(p, "drop")
    /\ UNCHANGED <<sc, policy, lock, bytesVars, loc, copy, answer, faulted>>

DropStarts(p) ==
    /\ at[p] = "drop"
    /\ \/ Goto(p, "dropping") /\ Keep(p, [Blank EXCEPT !.todo = Paths]) /\ UNCHANGED stray
       \/ ~keyed(p) /\ policy.enabled /\ Leave(p, "done") /\ stray' = TRUE
    /\ UNCHANGED <<sc, row, policy, lock, file, copy, answer, faulted>>

Drop(p, q) ==
    /\ at[p] = "dropping" /\ q \in loc[p].todo
    /\ \/ Remove(q) /\ UNCHANGED faulted
       \/ MayFail("unlink") /\ faulted' = TRUE /\ UNCHANGED file
    /\ IF loc[p].todo = {q} THEN Leave(p, "done")
                            ELSE Keep(p, [loc[p] EXCEPT !.todo = @ \ {q}]) /\ UNCHANGED at
    /\ UNCHANGED <<sc, row, policy, lock, stray, copy, answer>>

-----------------------------------------------------------------------------
(* Reads.  Both objects are looked up at once; each lookup of a keyed      *)
(* instance reads the row, the policy while the row is unmarked, then the  *)
(* object, and settles on what it may give away or starts over.            *)

ReadStart(p) ==
    /\ at[p] = "start" /\ row.is = "live" /\ (keyed(p) => policy.enabled)
    /\ Goto(p, "reading")
    /\ copy' = [copy EXCEPT ![p] = [q \in Paths |->
                  [NoLookup EXCEPT !.at = IF keyed(p) THEN "row" ELSE "object"]]]
    /\ UNCHANGED <<sc, row, policy, lock, bytesVars, loc, answer, faulted>>

Lookup(p, q, place, new) ==
    /\ at[p] = "reading" /\ copy[p][q].at = place
    /\ copy' = [copy EXCEPT ![p][q] = new]
    /\ UNCHANGED <<sc, row, policy, lock, bytesVars, at, loc, answer, faulted>>

Settle(outcome) == [NoLookup EXCEPT !.at = outcome]

StartOver(look) ==
    IF look.tries + 1 = Attempts THEN Settle("error")
                                 ELSE [NoLookup EXCEPT !.at = "row", !.tries = look.tries + 1]

LookupRow(p, q) ==
    Lookup(p, q, "row",
           IF row.is # "live" THEN Settle("null")
           ELSE [copy[p][q] EXCEPT !.row = row, !.at = IF row.enc THEN "object" ELSE "state"])

LookupState(p, q) ==
    Lookup(p, q, "state", [copy[p][q] EXCEPT !.complete = policy.complete, !.at = "object"])

(* Ciphertext met without the key re-reads the policy and fails.           *)
KeylessOutcome(object) ==
    IF object.form = "none" THEN "null"
    ELSE IF LooksEncrypted(object) THEN "error"
    ELSE IF object.form = "plain" THEN "bytes" ELSE "ciphertext"

KeyedOutcome(look, object) ==
    CASE object.form = "none" -> Settle("null")
      [] object.form # "none" /\ (look.row.enc \/ look.complete) ->
           Settle(IF LooksEncrypted(object) /\ look.row.key THEN "bytes" ELSE "error")
      [] LooksEncrypted(object) /\ ~look.row.enc /\ ~look.complete ->
           IF look.row.key THEN Settle("bytes") ELSE [look EXCEPT !.at = "again"]
      [] object.form = "plain" /\ ~look.row.enc /\ ~look.complete ->
           [look EXCEPT !.got = object, !.at = "reopen"]

LookupObject(p, q) ==
    Lookup(p, q, "object", IF keyed(p) THEN KeyedOutcome(copy[p][q], file[q])
                                       ELSE Settle(KeylessOutcome(file[q])))

(* The key may have been allocated since the row was read.                 *)
LookupAgain(p, q) ==
    Lookup(p, q, "again", IF row.is = "live" /\ row.key THEN StartOver(copy[p][q])
                                                        ELSE Settle("error"))

(* Verified plaintext is given away from the very version verified.        *)
LookupReopen(p, q) ==
    Lookup(p, q, "reopen", IF file[q] = copy[p][q].got THEN Settle("bytes")
                                                       ELSE StartOver(copy[p][q]))

Settled(look) == look.at \in {"bytes", "ciphertext", "null", "error"}

Answer(p, what) ==
    /\ answer' = [answer EXCEPT ![p] = what]
    /\ copy' = [copy EXCEPT ![p] = [q \in Paths |-> NoLookup]]

(* The original answers where it is still there, after its conversion.     *)
ReadDecides(p) ==
    LET original == copy[p]["orig"].at  compressed == copy[p]["br"].at IN
    /\ at[p] = "reading" /\ \A q \in Paths : Settled(copy[p][q])
    /\ IF original = "bytes"
       THEN Goto(p, "verify") /\ Answer(p, "none")
       ELSE /\ Goto(p, "done")
            /\ Answer(p, IF original = "null" THEN compressed ELSE original)
    /\ UNCHANGED <<sc, row, policy, lock, bytesVars, loc, faulted>>

-----------------------------------------------------------------------------
(* Conversion of an original by the read that met it.  The read answers    *)
(* with the bytes only when the compressed object has taken its place.     *)

Converts(p, place) == at[p] = place /\ UNCHANGED <<sc, copy>>

Gives(p, what) == Leave(p, "done") /\ answer' = [answer EXCEPT ![p] = what]

Retry(p) ==
    IF loc[p].tries + 1 = Attempts
    THEN Gives(p, "error")
    ELSE /\ Goto(p, "policy") /\ Keep(p, [Blank EXCEPT !.tries = loc[p].tries + 1])
         /\ UNCHANGED answer

Verify(p) ==
    /\ Converts(p, "verify")
    /\ IF row.is = "live" THEN Goto(p, "policy") /\ UNCHANGED <<loc, answer>> ELSE Gives(p, "error")
    /\ UNCHANGED <<row, policy, lock, bytesVars, faulted>>

ReadPolicy(p) ==
    /\ Converts(p, "policy")
    /\ IF keyed(p) \/ FenceIsOff THEN Goto(p, "row") /\ UNCHANGED <<loc, answer>>
                                 ELSE Gives(p, "error")
    /\ UNCHANGED <<row, policy, lock, bytesVars, faulted>>

(* ensureStorageDataKey under the writer lock, or a plain read of the row. *)
EnsureKey(p) == row' = IF row.is = "live" THEN [row EXCEPT !.key = TRUE] ELSE row

ReadRow(p) ==
    /\ Converts(p, "row")
    /\ IF keyed(p) THEN lock = Nobody /\ EnsureKey(p) ELSE UNCHANGED row
    /\ IF row.is = "live"
       THEN Goto(p, "look") /\ UNCHANGED <<loc, answer>>
       ELSE Gives(p, "error")
    /\ UNCHANGED <<policy, lock, bytesVars, faulted>>

(* What is at the compressed path decides: plaintext is replaced by a      *)
(* keyed instance, ciphertext stays, and a keyless instance starts over.   *)
LookAtCompressed(p) ==
    /\ Converts(p, "look")
    /\ IF LooksEncrypted(file["br"]) /\ ~keyed(p) THEN Retry(p)
       ELSE /\ Goto(p, IF file["br"].form = "none" THEN "publish"
                       ELSE IF keyed(p) /\ file["br"].form = "plain" THEN "replace" ELSE "recheck")
            /\ Keep(p, [loc[p] EXCEPT !.got = file["br"]])
            /\ UNCHANGED answer
    /\ UNCHANGED <<row, policy, lock, bytesVars, faulted>>

(* Creation never replaces an object that appeared meanwhile.              *)
CreateOnly == ~There("br")

Publish(p) ==
    /\ Converts(p, "publish")
    /\ IF CreateOnly
       THEN /\ Put(p, "br", IF keyed(p) THEN "cipher" ELSE "plain",
                   Goto(p, "recheck") /\ UNCHANGED <<loc, answer>>, Gives(p, "error"))
            /\ stray' = (stray \/ (~keyed(p) /\ policy.enabled))
       ELSE Retry(p) /\ UNCHANGED <<bytesVars, faulted>>
    /\ UNCHANGED <<row, policy, lock>>

(* A replacement compares the version, then renames over it.               *)
Replace(p) ==
    /\ Converts(p, "replace")
    /\ IF file["br"] = loc[p].got THEN Goto(p, "rename") /\ UNCHANGED <<loc, answer>> ELSE Retry(p)
    /\ UNCHANGED <<row, policy, lock, bytesVars, faulted>>

Rename(p) ==
    /\ Converts(p, "rename")
    /\ Put(p, "br", "cipher", Goto(p, "recheck") /\ UNCHANGED <<loc, answer>>, Gives(p, "error"))
    /\ UNCHANGED <<row, policy, lock, stray>>

Recheck(p) ==
    /\ Converts(p, "recheck")
    /\ IF keyed(p) \/ FenceIsOff THEN Goto(p, "finish") /\ UNCHANGED <<loc, answer>>
                                 ELSE Gives(p, "error")
    /\ UNCHANGED <<row, policy, lock, bytesVars, faulted>>

(* The row is read once more: of a deleted report nothing may stay.        *)
LeavingFinish(p) ==                                \* only the read fails
    /\ Converts(p, "finish")
    /\ IF row.is = "live" THEN Goto(p, "unlink") /\ UNCHANGED <<loc, answer>> ELSE Gives(p, "error")
    /\ UNCHANGED <<row, policy, lock, bytesVars, faulted>>

Finish(p) ==
    /\ Converts(p, "finish")
    /\ Goto(p, IF row.is = "live" THEN "unlink" ELSE "undo")
    /\ UNCHANGED <<row, policy, lock, bytesVars, loc, answer, faulted>>

Undo(p) ==
    /\ Converts(p, "undo")
    /\ \/ Remove("br") /\ UNCHANGED faulted
       \/ MayFail("unlink") /\ faulted' = TRUE /\ UNCHANGED file
    /\ Gives(p, "error")
    /\ UNCHANGED <<row, policy, lock, stray>>

RemoveOriginal(p) ==
    /\ Converts(p, "unlink")
    /\ \/ /\ Remove("orig") /\ UNCHANGED faulted
          /\ IF keyed(p) THEN Goto(p, "marking") /\ UNCHANGED <<loc, answer>> ELSE Gives(p, "bytes")
       \/ MayFail("unlink") /\ faulted' = TRUE /\ Gives(p, "error") /\ UNCHANGED file
    /\ UNCHANGED <<row, policy, lock, stray>>

(* markStorageEncrypted under the writer lock.                             *)
MarkRow == row' = IF row.is = "live" /\ row.key THEN [row EXCEPT !.enc = TRUE] ELSE row

Mark(p) ==
    /\ Converts(p, "marking") /\ lock = Nobody
    /\ MarkRow /\ Gives(p, "bytes")
    /\ UNCHANGED <<policy, lock, bytesVars, faulted>>

-----------------------------------------------------------------------------
(* Activation, in a writer transaction of the first keyed start-up.        *)

Activate ==
    /\ lock = Nobody /\ ~policy.enabled /\ \E p \in Procs : keyed(p)
    /\ policy' = [policy EXCEPT !.enabled = TRUE]
    /\ UNCHANGED <<sc, row, lock, bytesVars, procVars, faulted>>

-----------------------------------------------------------------------------
(* Migration: a pass over the pending rows, each checkpointed whatever     *)
(* became of it, then the inventory.  Workers may overlap.                 *)

Pending == row.is = "live" /\ ~row.enc

Works(p, place) == at[p] = place /\ UNCHANGED <<sc, copy, answer>>

MigrationStarts(p) ==
    /\ Works(p, "rest") /\ policy.enabled /\ ~(policy.complete /\ policy.cleaned)
    /\ Goto(p, "pass")
    /\ UNCHANGED <<row, policy, lock, loc, bytesVars, faulted>>

ReadState(p) ==
    /\ Works(p, "pass")
    /\ Goto(p, IF policy.complete THEN "inventory" ELSE "list")
    /\ Keep(p, [Blank EXCEPT !.cursor = policy.cursor])
    /\ UNCHANGED <<row, policy, lock, bytesVars, faulted>>

ListRows(p) ==
    /\ Works(p, "list")
    /\ Goto(p, IF Pending /\ loc[p].cursor = "start" THEN "key" ELSE "end")
    /\ UNCHANGED <<row, policy, lock, loc, bytesVars, faulted>>

(* A pass that ends is complete only when no row is left pending.          *)
PassIsEnough == TRUE                               \* failed rows count as done
NothingPending == ~Pending

PassEnds(p) ==
    /\ Works(p, "end") /\ lock = Nobody
    /\ policy' = IF policy.cursor = loc[p].cursor
                 THEN [policy EXCEPT !.cursor = "start", !.complete = NothingPending] ELSE policy
    /\ Leave(p, "inventory")
    /\ UNCHANGED <<row, lock, bytesVars, faulted>>

MigrateKey(p) ==
    /\ Works(p, "key") /\ lock = Nobody
    /\ EnsureKey(p)
    /\ Goto(p, IF Pending THEN "migrate" ELSE "checkpoint")
    /\ UNCHANGED <<policy, lock, loc, bytesVars, faulted>>

(* After the object at path: the original's turn, or the row's mark.       *)
NextPath(p, found) ==
    IF loc[p].path = FirstPath
    THEN Goto(p, "migrate") /\ Keep(p, [loc[p] EXCEPT !.path = "orig", !.found = found])
    ELSE Goto(p, IF found THEN "mark" ELSE "checkpoint") /\ UNCHANGED loc

MigrateObject(p) ==
    LET object == file[loc[p].path] IN
    /\ Works(p, "migrate")
    /\ IF object.form = "plain"
       THEN Goto(p, "encrypt") /\ Keep(p, [loc[p] EXCEPT !.got = object])
       ELSE NextPath(p, loc[p].found \/ LooksEncrypted(object))
    /\ UNCHANGED <<row, policy, lock, bytesVars, faulted>>

Encrypt(p) ==
    /\ Works(p, "encrypt")
    /\ Goto(p, IF file[loc[p].path] = loc[p].got THEN "overwrite" ELSE "checkpoint")
    /\ UNCHANGED <<row, policy, lock, loc, bytesVars, faulted>>

Overwrite(p) ==
    /\ Works(p, "overwrite")
    /\ Put(p, loc[p].path, "cipher", Goto(p, "reread"), Goto(p, "checkpoint"))
    /\ UNCHANGED <<row, policy, lock, loc, stray>>

(* The replacement is read back before it counts.                          *)
ReadBack(p) ==
    /\ Works(p, "reread")
    /\ IF LooksEncrypted(file[loc[p].path]) THEN NextPath(p, TRUE)
                                            ELSE Goto(p, "checkpoint") /\ UNCHANGED loc
    /\ UNCHANGED <<row, policy, lock, bytesVars, faulted>>

MarkMigrated(p) ==
    /\ Works(p, "mark") /\ lock = Nobody
    /\ MarkRow /\ Goto(p, "checkpoint")
    /\ UNCHANGED <<policy, lock, loc, bytesVars, faulted>>

(* The row's position is saved if no other worker has moved the cursor.    *)
Checkpoint(p) ==
    /\ Works(p, "checkpoint") /\ lock = Nobody
    /\ policy' = IF policy.cursor = loc[p].cursor
                 THEN [policy EXCEPT !.cursor = "row", !.complete = FALSE] ELSE policy
    /\ Leave(p, "pass")
    /\ UNCHANGED <<row, lock, bytesVars, faulted>>

(* The inventory lists the objects and removes the plaintext no row owns.  *)
InventoryState(p) ==
    /\ Works(p, "inventory")
    /\ Goto(p, IF policy.cleaned THEN "rest" ELSE "listing")
    /\ UNCHANGED <<row, policy, lock, loc, bytesVars, faulted>>

ListObjects(p) ==
    /\ Works(p, "listing")
    /\ Goto(p, "inspect") /\ Keep(p, [Blank EXCEPT !.todo = {q \in Paths : There(q)}])
    /\ UNCHANGED <<row, policy, lock, bytesVars, faulted>>

Owned == row.is = "live"

CheckOwner(p, q) ==
    /\ Works(p, "inspect") /\ q \in loc[p].todo
    /\ Goto(p, IF Owned THEN "inspect" ELSE "weigh")
    /\ Keep(p, [loc[p] EXCEPT !.todo = @ \ {q}, !.path = q])
    /\ UNCHANGED <<row, policy, lock, bytesVars, faulted>>

Weigh(p) ==
    LET object == file[loc[p].path] IN
    /\ Works(p, "weigh")
    /\ IF There(loc[p].path) /\ ~LooksEncrypted(object)
       THEN Goto(p, "sweep") /\ Keep(p, [loc[p] EXCEPT !.got = object])
       ELSE Goto(p, "inspect") /\ UNCHANGED loc
    /\ UNCHANGED <<row, policy, lock, bytesVars, faulted>>

(* Only the version inspected is removed; another one ends the batch.      *)
Sweep(p) ==
    /\ Works(p, "sweep")
    /\ \/ /\ ~There(loc[p].path) \/ file[loc[p].path] = loc[p].got
          /\ Remove(loc[p].path)
          /\ Goto(p, "inspect") /\ Keep(p, [loc[p] EXCEPT !.found = TRUE, !.got = NoObject])
          /\ UNCHANGED faulted
       \/ /\ There(loc[p].path) /\ file[loc[p].path] # loc[p].got
          /\ Leave(p, "rest") /\ UNCHANGED <<file, faulted>>
       \/ /\ MayFail("unlink") /\ faulted' = TRUE
          /\ Leave(p, "rest") /\ UNCHANGED file
    /\ UNCHANGED <<row, policy, lock, stray>>

(* An inventory is done when a whole pass had nothing to remove.  The      *)
(* cursor over the prefixes, whose compare-and-set discards the outcome of *)
(* an overtaken worker, is left out: every outcome counts.                 *)
InventoryEnds(p) ==
    /\ Works(p, "inspect") /\ loc[p].todo = {} /\ lock = Nobody
    /\ policy' = [policy EXCEPT !.cleaned = ~loc[p].found]
    /\ Leave(p, "inventory")
    /\ UNCHANGED <<row, lock, bytesVars, faulted>>

-----------------------------------------------------------------------------
(* The process or its invocation ends in the middle; a transaction it has  *)
(* begun to commit may still go either way.                                *)
Crash(p) ==
    /\ MayFail("crash") /\ faulted' = TRUE
    /\ at[p] \notin {"done", "rest"}
    /\ Leave(p, IF sc.role[p] = "migrate" THEN "rest" ELSE "done")
    /\ copy' = [copy EXCEPT ![p] = [q \in Paths |-> NoLookup]]
    /\ UNCHANGED <<sc, row, policy, lock, bytesVars, answer>>

Upload(p) ==
    \/ UploadPut(p) \/ UploadFence(p) \/ Discard(p)
    \/ Insert(p) \/ Commit(p) \/ Resolve(p)

Delete(p) == DeleteRow(p) \/ DropStarts(p) \/ \E q \in Paths : Drop(p, q)

Read(p) ==
    \/ ReadStart(p) \/ ReadDecides(p)
    \/ \E q \in Paths :
          \/ LookupRow(p, q) \/ LookupState(p, q) \/ LookupObject(p, q)
          \/ LookupAgain(p, q) \/ LookupReopen(p, q)

Convert(p) ==
    \/ Verify(p) \/ ReadPolicy(p) \/ ReadRow(p) \/ LookAtCompressed(p)
    \/ Publish(p) \/ Replace(p) \/ Rename(p) \/ Recheck(p)
    \/ Finish(p) \/ Undo(p) \/ RemoveOriginal(p) \/ Mark(p)

Migrate(p) ==
    \/ MigrationStarts(p) \/ ReadState(p) \/ ListRows(p) \/ PassEnds(p)
    \/ MigrateKey(p) \/ MigrateObject(p) \/ Encrypt(p) \/ Overwrite(p)
    \/ ReadBack(p) \/ MarkMigrated(p) \/ Checkpoint(p)

Inventory(p) ==
    \/ InventoryState(p) \/ ListObjects(p) \/ Weigh(p) \/ Sweep(p) \/ InventoryEnds(p)
    \/ \E q \in Paths : CheckOwner(p, q)

Proceed(p) == Upload(p) \/ Delete(p) \/ Read(p) \/ Convert(p) \/ Migrate(p) \/ Inventory(p)

Next == Activate \/ \E p \in Procs : Proceed(p) \/ LoseAck(p) \/ Crash(p)

Spec == Init /\ [][Next]_vars

(* Requests go on, transactions end, and maintenance runs again and again. *)
FairSpec == Spec /\ \A p \in Procs : WF_vars(Proceed(p))

-----------------------------------------------------------------------------
(* Properties.                                                             *)

Forms == {"none", "plain", "cipher"}
Outcomes == {"none", "bytes", "ciphertext", "null", "error"}

(* Type invariant.  A client that waits for its commit has the writer lock, *)
(* and a row marked encrypted has its key.                                 *)
TypeOK ==
    /\ sc \in Scenarios
    /\ row \in [is : {"none", "live", "gone"}, key : BOOLEAN, enc : BOOLEAN] /\ (row.enc => row.key)
    /\ policy \in [enabled : BOOLEAN, cursor : {"start", "row"}, complete : BOOLEAN,
                   cleaned : BOOLEAN]
    /\ file \in [Paths -> [form : Forms, version : Nat]]
    /\ lock \in Procs \union {Nobody}
    /\ \A p \in Procs : at[p] = "commit" => lock = p
    /\ loc \in [Procs -> [got : [form : Forms, version : Nat], tries : 0..2,
                          cursor : {"start", "row"}, path : Paths, todo : SUBSET Paths,
                          found : BOOLEAN]]
    /\ \A p \in Procs : \A q \in Paths : copy[p][q].tries \in 0..2
    /\ answer \in [Procs -> Outcomes]
    /\ {faulted, stray} \subseteq BOOLEAN

(* The object the next cold read answers with.                             *)
Answering == IF There("orig") THEN "orig" ELSE "br"

(* A listed report can be read: the object that answers is one that its    *)
(* row and the policy let a keyed instance read.                           *)
StaysReadable ==
    row.is = "live" =>
        /\ There(Answering)
        /\ file[Answering].form = "plain" => ~row.enc /\ ~policy.complete
        /\ file[Answering].form = "cipher" => row.key

(* No reader is handed ciphertext, however stale its view of the policy.   *)
NoCiphertextServed == \A p \in Procs : answer[p] # "ciphertext"

(* Whatever crashes, is retried or is under way, a listed report is there  *)
(* to be read, and what a reader gets for it is the report: uploads, their *)
(* reconciliation, conversions and migration never take away or mislabel   *)
(* the object that answers (insert of handleUploadReport, openEncrypted).  *)
ReadsAreSound == StaysReadable /\ NoCiphertextServed

(* A row marked encrypted owns no plaintext, at either path.               *)
MarkedIsEncrypted ==
    row.is = "live" /\ row.enc /\ ~stray => \A q \in Paths : file[q].form # "plain"

(* When all is at rest, a deleted report and a refused upload have left no *)
(* object where encryption was never enabled, and no plaintext once the    *)
(* inventory is done.                                                      *)
NothingLeftBehind ==
    /\ \A p \in Procs : at[p] \in {"done", "rest"}
    /\ row.is # "live" /\ (policy.enabled => policy.cleaned)
    /\ ~faulted /\ ~stray
    => \A q \in Paths : file[q].form \in IF policy.enabled THEN {"none", "cipher"} ELSE {"none"}

(* Plaintext goes where it may not stay: a report marked encrypted has     *)
(* none, at the path that answers or the other, and one that is no longer  *)
(* listed leaves none, whatever conversion, delete and activation crossed  *)
(* (finishReportConversion, markStorageEncrypted, putPlaintext).  Faults   *)
(* and conversions a keyless instance publishes too late are excused.      *)
PlaintextIsGone == MarkedIsEncrypted /\ NothingLeftBehind

(* Liveness: once enabled, encryption is carried through: migration and    *)
(* inventory end for good, with no row pending and, unless a fault or a    *)
(* late keyless instance left some, no plaintext (migrateStorage).         *)
MigrationEnds ==
    policy.enabled ~>
        []( /\ policy.complete /\ policy.cleaned /\ ~Pending
            /\ faulted \/ stray \/ \A q \in Paths : file[q].form # "plain" )

=============================================================================
