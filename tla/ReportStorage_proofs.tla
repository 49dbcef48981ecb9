------------------------ MODULE ReportStorage_proofs ------------------------
(***************************************************************************)
(* However many readers, deletes and migration workers, keyed or not,      *)
(* cross one upload or one another and the activation: a listed report     *)
(* stays readable, and plaintext does not stay where it may not.           *)
(***************************************************************************)
EXTENDS ReportStorage, TLAPS

(* Where a process of each role can be.                                    *)
UploadPlaces == {"put", "fence", "insert", "commit", "resolve", "discard"}
DropPlaces == {"drop", "dropping"}
ConvertPlaces == {"verify", "policy", "row", "look", "publish", "replace", "rename",
                  "recheck", "finish", "undo", "unlink", "marking"}
RowPlaces == {"migrate", "encrypt", "overwrite", "reread", "mark"}
WorkPlaces == RowPlaces \union {"pass", "list", "end", "key", "checkpoint", "inventory",
                                "listing", "inspect", "weigh", "sweep"}

Places == [none |-> {"done"},
           upload |-> UploadPlaces \union DropPlaces \union {"done"},
           read |-> ConvertPlaces \union {"start", "reading", "done"},
           migrate |-> WorkPlaces \union {"rest"},
           delete |-> DropPlaces \union {"delete", "done"}]

Objects == [form : Forms, version : Nat]
Rows == [is : {"none", "live", "gone"}, key : BOOLEAN, enc : BOOLEAN]

(* A lookup keeps only plaintext, and never ends with raw ciphertext.      *)
Looks == [at : {"idle", "row", "state", "object", "again", "reopen", "bytes", "null", "error"},
          row : Rows, complete : BOOLEAN, got : Objects, tries : 0..2]

Shapes ==
    /\ at \in [Procs -> UNION {Places[r] : r \in Roles}]
    /\ \A p \in Procs : at[p] \in Places[sc.role[p]]
    /\ copy \in [Procs -> [Paths -> Looks]]
    /\ \A p \in Procs : answer[p] # "ciphertext"

TypeInv == TypeOK /\ Shapes

-----------------------------------------------------------------------------
IsLive == row.is = "live"

(* What is done or recorded only after activation; a keyless transaction   *)
(* holds activation off.                                                   *)
OnlyEnabled ==
    \/ policy.complete \/ policy.cleaned \/ row.key
    \/ lock # Nobody /\ keyed(lock)
    \/ \E p \in Procs : \/ at[p] \in WorkPlaces
                        \/ keyed(p) /\ at[p] \notin {Entry[sc.role[p]], "done"}

Activation ==
    /\ OnlyEnabled => policy.enabled
    /\ lock # Nobody /\ ~keyed(lock) => ~policy.enabled

(* The row is not listed and will not be: deleted, or its upload is over.  *)
RowIsOver ==
    \/ row.is = "gone"
    \/ /\ row.is = "none" /\ lock = Nobody
       /\ \A p \in Procs : at[p] \notin {"put", "fence", "insert"}

(* The row begins with its upload's commit and ends with a delete, and a   *)
(* conversion is undone only after that.                                   *)
RowLife ==
    /\ row.is = "none" => sc.stored = "nothing"
    /\ row.is = "none" =>
          \A p \in Procs : at[p] \notin ConvertPlaces \union RowPlaces \union {"reading"}
    /\ \A p \in Procs : at[p] \in {"put", "fence", "insert", "discard"} =>
          row.is = "none" /\ lock = Nobody
    /\ lock # Nobody => /\ row.is = "none" /\ sc.role[lock] = "upload"
                        /\ at[lock] \in {"commit", "resolve", "done"}
    /\ \A p \in Procs : at[p] \in DropPlaces => RowIsOver
    /\ \A p \in Procs : at[p] = "undo" => row.is = "gone"

(* The bytes of an upload are there until its row is.                      *)
Own(p) == IF keyed(p) THEN "cipher" ELSE "plain"

UploadHasBytes ==
    /\ \A p \in Procs : at[p] = "fence" =>
          ~keyed(p) /\ (~policy.enabled => file["br"].form = "plain")
    /\ \A p \in Procs : at[p] = "insert" /\ InsertValid(p) => file["br"].form = Own(p)
    /\ lock # Nobody => file["br"].form = Own(lock)

(* An uploaded report has no original, and nothing converts it.            *)
OriginalIsOut == ~There("orig")
NoConversion ==
    \A p \in Procs : /\ at[p] \notin ConvertPlaces
                     /\ at[p] \in {"encrypt", "overwrite"} => loc[p].path = "br"
NoneRead == \A p \in Procs : copy[p]["orig"].at \notin {"again", "reopen", "bytes"}

NoOriginal == sc.stored = "nothing" => OriginalIsOut /\ NoConversion /\ NoneRead

(* The inventory removes plaintext, and only that.                         *)
OnlyPlainIsSwept == \A p \in Procs : at[p] = "sweep" => loc[p].got.form = "plain"

LifeInv == Activation /\ RowLife /\ UploadHasBytes /\ NoOriginal /\ OnlyPlainIsSwept

-----------------------------------------------------------------------------
(* Who encrypts has the row's key.                                         *)
Encrypts(p) ==
    \/ keyed(p) /\ at[p] \in {"look", "publish", "replace", "rename", "recheck", "finish",
                              "unlink", "marking"}
    \/ at[p] \in RowPlaces

KeyedBytes == IsLive /\ (\E q \in Paths : file[q].form = "cipher") => row.key
KeyedWork == IsLive /\ (\E p \in Procs : Encrypts(p)) => row.key
KeyedUpload ==
    row.is = "none" /\ (\E q \in Paths : file[q].form = "cipher") =>
        \A p \in Procs : sc.role[p] = "upload" => keyed(p)
KeyedReplace == \A p \in Procs : at[p] \in {"replace", "rename", "marking"} => keyed(p)

CipherHasKey == KeyedBytes /\ KeyedWork /\ KeyedUpload /\ KeyedReplace

(* A conversion past its publication has the compressed object, of a keyed *)
(* instance encrypted.                                                     *)
Published ==
    \A p \in Procs : IsLive /\ at[p] \in {"recheck", "finish", "unlink", "marking"} =>
        There("br") /\ (keyed(p) => file["br"].form = "cipher")

(* A worker that is past the compressed object, and one about to mark.     *)
Past(p) == at[p] = "mark" \/ (at[p] \in RowPlaces /\ loc[p].path = "orig")

(* A report that counts as encrypted, or is about to, has no plaintext     *)
(* original, and no plaintext compressed object either, but for one that   *)
(* was published late, before which the original stays.                    *)
OriginalEncrypted ==
    IsLive /\ (row.enc \/ \E p \in Procs : at[p] \in {"mark", "marking"}) =>
        file["orig"].form # "plain"

CompressedEncrypted ==
    IsLive /\ (row.enc \/ \E p \in Procs : Past(p)) /\ file["br"].form = "plain" =>
        /\ There("orig") /\ stray
        /\ \A p \in Procs : at[p] \notin {"finish", "unlink"}

CompleteIsMarked == IsLive /\ policy.complete => row.enc

(* A worker takes up a row at the compressed object.                       *)
RowsBegin == \A p \in Procs : at[p] \in {"list", "key"} => loc[p].path = FirstPath

(* The inventory removes nothing of a listed report: the row it has found  *)
(* missing may have come since, but encrypted.                             *)
SweepsOrphans ==
    \A p \in Procs : at[p] \in {"weigh", "sweep"} /\ IsLive => row.enc /\ sc.stored = "nothing"

BytesInv ==
    /\ CipherHasKey /\ Published /\ SweepsOrphans /\ RowsBegin
    /\ OriginalEncrypted /\ CompressedEncrypted /\ CompleteIsMarked
    /\ IsLive => There("orig") \/ There("br")

-----------------------------------------------------------------------------
(* Someone is about to remove the object at q of a report not listed.      *)
Removes(p, q) ==
    \/ at[p] = "drop"
    \/ at[p] = "dropping" /\ q \in loc[p].todo
    \/ /\ row.is = "none" /\ q = "br"
       /\ at[p] \in {"fence", "insert", "commit", "resolve", "discard"}

(* A worker's inventory cannot end without having removed something.       *)
Sees(p, q) ==
    at[p] \in {"inspect", "weigh", "sweep"} =>
        \/ loc[p].found \/ q \in loc[p].todo
        \/ at[p] \in {"weigh", "sweep"} /\ loc[p].path = q

Excused == faulted \/ stray

(* Plaintext of a report not listed is on its way out.                     *)
Leaving(q) ==
    \/ \E p \in Procs : Removes(p, q)
    \/ policy.enabled /\ ~policy.cleaned /\ \A p \in Procs : Sees(p, q)
    \/ ~policy.enabled /\ q = "br" /\ \E p \in Procs : at[p] \in {"recheck", "finish", "undo"}

NoOrphan == ~IsLive /\ ~Excused => \A q \in Paths : file[q].form = "plain" => Leaving(q)

CipherIsEnabled == (\E q \in Paths : file[q].form = "cipher") => policy.enabled

OrphanInv == NoOrphan /\ CipherIsEnabled

-----------------------------------------------------------------------------
(* The scenario never changes.                                             *)
LEMMA ScenarioIsFixed == ASSUME [Next]_vars PROVE sc' = sc
<1>1. ASSUME NEW p \in Procs, Upload(p) \/ Delete(p) \/ LoseAck(p) \/ Crash(p) PROVE sc' = sc
  BY <1>1 DEF Upload, Delete, LoseAck, Crash, UploadPut, UploadFence, Discard, Insert, Commit,
     Resolve, DeleteRow, DropStarts, Drop
<1>2. ASSUME NEW p \in Procs, Read(p) PROVE sc' = sc
  BY <1>2 DEF Read, ReadStart, ReadDecides, Lookup, LookupRow, LookupState, LookupObject,
     LookupAgain, LookupReopen
<1>3. ASSUME NEW p \in Procs, Convert(p) PROVE sc' = sc
  BY <1>3 DEF Convert, Converts, Verify, ReadPolicy, ReadRow, LookAtCompressed, Publish,
     Replace, Rename, Recheck, Finish, Undo, RemoveOriginal, Mark
<1>4. ASSUME NEW p \in Procs, Migrate(p) \/ Inventory(p) PROVE sc' = sc
  BY <1>4 DEF Migrate, Inventory, Works, MigrationStarts, ReadState, ListRows, PassEnds,
     MigrateKey, MigrateObject, Encrypt, Overwrite, ReadBack, MarkMigrated, Checkpoint,
     InventoryState, ListObjects, CheckOwner, Weigh, Sweep, InventoryEnds
<1>5. CASE Activate \/ UNCHANGED vars
  BY <1>5 DEF Activate, vars
<1>6. QED
  BY <1>1, <1>2, <1>3, <1>4, <1>5 DEF Next, Proceed

(* What the assumption says of the scenario at hand.                       *)
LEMMA ScenarioFacts ==
    ASSUME TypeOK
    PROVE  /\ Nobody \notin Procs
           /\ sc.stored \in {"nothing", "original", "compressed", "both"}
           /\ sc.role \in [Procs -> Roles] /\ sc.keyed \in [Procs -> BOOLEAN]
           /\ \A p, q \in Procs : sc.role[p] = "upload" /\ sc.role[q] = "upload" => p = q
           /\ \A p \in Procs : sc.role[p] = "upload" => sc.stored = "nothing"
           /\ \A p \in Procs : keyed(p) \in BOOLEAN /\ keyed(p) = sc.keyed[p]
<1>1. sc \in Scenarios
  BY DEF TypeOK
<1>2. QED
  BY <1>1, StorageAssumption DEF keyed

(* A place tells the role of who is there, and a role its places.          *)
LEMMA RoleOfPlace ==
    ASSUME TypeInv, NEW p \in Procs
    PROVE  /\ at[p] \in UploadPlaces => sc.role[p] = "upload"
           /\ at[p] \in DropPlaces => sc.role[p] \in {"upload", "delete"}
           /\ at[p] = "delete" => sc.role[p] = "delete"
           /\ at[p] \in ConvertPlaces \union {"start", "reading"} => sc.role[p] = "read"
           /\ at[p] \in WorkPlaces \union {"rest"} <=> sc.role[p] = "migrate"
           /\ sc.role[p] = "none" => at[p] = "done"
<1>1. sc.role[p] \in {"none", "upload", "read", "migrate", "delete"}
  BY ScenarioFacts DEF TypeInv, Roles
<1>2. at[p] \in Places[sc.role[p]]
  BY DEF TypeInv, Shapes
<1>3. QED
  BY <1>1, <1>2 DEF Places, UploadPlaces, DropPlaces, ConvertPlaces, RowPlaces, WorkPlaces

(* Where the processes of a role may go.                                   *)
LEMMA PlacesOfRoles ==
    ASSUME TypeInv, NEW p \in Procs, NEW r \in Roles, NEW x \in Places[r], r = sc.role[p],
           sc' = sc, at' = [at EXCEPT ![p] = x]
    PROVE  /\ at' \in [Procs -> UNION {Places[s] : s \in Roles}]
           /\ \A s \in Procs : at'[s] \in Places[sc'.role[s]]
<1>1. at \in [Procs -> UNION {Places[s] : s \in Roles}]
      /\ \A s \in Procs : at[s] \in Places[sc.role[s]]
  BY DEF TypeInv, Shapes
<1>2. x \in UNION {Places[s] : s \in Roles}
  OBVIOUS
<1>3. QED
  BY <1>1, <1>2

(* The places of each role, one by one.                                    *)
LEMMA PlacesAre ==
    /\ Places["none"] = {"done"}
    /\ Places["upload"] = {"put", "fence", "insert", "commit", "resolve", "discard",
                           "drop", "dropping", "done"}
    /\ Places["read"] = {"verify", "policy", "row", "look", "publish", "replace", "rename",
                         "recheck", "finish", "undo", "unlink", "marking", "start", "reading",
                         "done"}
    /\ Places["migrate"] = {"migrate", "encrypt", "overwrite", "reread", "mark", "pass",
                            "list", "end", "key", "checkpoint", "inventory", "listing",
                            "inspect", "weigh", "sweep", "rest"}
    /\ Places["delete"] = {"drop", "dropping", "delete", "done"}
BY DEF Places, UploadPlaces, DropPlaces, ConvertPlaces, RowPlaces, WorkPlaces

(* A step moves one process, to a place of its role.                       *)
Moves(p) == \E x \in Places[sc.role[p]] : at' = [at EXCEPT ![p] = x]

FilesTyped == file \in [Paths -> Objects]

(* What a write and a removal leave at each path.                          *)
LEMMA Written ==
    ASSUME FilesTyped, NEW q \in Paths, NEW form \in Forms, Write(q, form)
    PROVE  /\ FilesTyped' /\ file'[q].form = form
           /\ \A r \in Paths : r # q => file'[r] = file[r]
<1>1. file' = [file EXCEPT ![q] = [form |-> form, version |-> file[q].version + 1]]
  BY DEF Write
<1>2. file[q] \in Objects /\ [form |-> form, version |-> file[q].version + 1] \in Objects
  BY DEF FilesTyped, Objects
<1>3. QED
  BY <1>1, <1>2 DEF FilesTyped

(* A removal leaves the other path alone.                                  *)
LEMMA Removed ==
    ASSUME FilesTyped, NEW q \in Paths, Remove(q)
    PROVE  /\ FilesTyped' /\ file'[q].form = "none"
           /\ \A r \in Paths : r # q => file'[r] = file[r]
<1>1. file[q] \in Objects /\ [form |-> "none", version |-> file[q].version] \in Objects
  BY DEF FilesTyped, Objects, Forms
<1>2. [file[q] EXCEPT !.form = "none"] = [form |-> "none", version |-> file[q].version]
  BY <1>1 DEF Objects
<1>3. file' = [file EXCEPT ![q] = [file[q] EXCEPT !.form = "none"]]
  BY DEF Remove
<1>4. QED
  BY <1>1, <1>2, <1>3 DEF FilesTyped

(* The stored state is typed.                                              *)
StoreTyped ==
    /\ row \in Rows /\ (row.enc => row.key)
    /\ policy \in [enabled : BOOLEAN, cursor : {"start", "row"}, complete : BOOLEAN,
                   cleaned : BOOLEAN]
    /\ FilesTyped
    /\ lock \in Procs \union {Nobody}
    /\ faulted \in BOOLEAN /\ stray \in BOOLEAN

Variables == [got : [form : Forms, version : Nat], tries : 0..2, cursor : {"start", "row"},
              path : Paths, todo : SUBSET Paths, found : BOOLEAN]

(* Every step keeps the types of what is stored.                           *)
LEMMA StoreStep == ASSUME TypeInv, [Next]_vars PROVE StoreTyped'
<1>0. StoreTyped /\ loc \in [Procs -> Variables]
  BY DEF TypeInv, TypeOK, StoreTyped, FilesTyped, Rows, Objects, Variables
<1>1. ASSUME NEW p \in Procs, UploadFence(p) \/ Resolve(p) \/ LoseAck(p) PROVE StoreTyped'
  BY <1>1, <1>0 DEF UploadFence, Resolve, LoseAck, FenceIsOff, bytesVars, CanResolve,
     MayFail, StoreTyped, FilesTyped, Rows
<1>2. ASSUME NEW p \in Procs, ReadStart(p) \/ ReadDecides(p) PROVE StoreTyped'
  BY <1>2, <1>0 DEF ReadStart, ReadDecides, NoLookup, bytesVars, Answer, NoRow,
     StoreTyped, FilesTyped, Rows
<1>3. ASSUME NEW p \in Procs, NEW q \in Paths, LookupRow(p, q) \/ LookupState(p, q) \/
   LookupObject(p, q) \/ LookupAgain(p, q) \/ LookupReopen(p, q) PROVE StoreTyped'
  BY <1>3, <1>0 DEF LookupRow, LookupState, LookupObject, LookupAgain, LookupReopen,
     Lookup, Settle, KeyedOutcome, StartOver, bytesVars, NoLookup, NoRow, StoreTyped,
     FilesTyped, Rows
<1>4. ASSUME NEW p \in Procs, Verify(p) \/ ReadPolicy(p) \/ LookAtCompressed(p) \/
   Replace(p) \/ Recheck(p) PROVE StoreTyped'
  BY <1>4, <1>0 DEF Verify, ReadPolicy, LookAtCompressed, Replace, Recheck, Converts,
     Gives, bytesVars, FenceIsOff, Retry, Leave, StoreTyped, FilesTyped, Rows
<1>5. ASSUME NEW p \in Procs, MigrationStarts(p) \/ ReadState(p) \/ ListRows(p) \/
   MigrateObject(p) \/ Encrypt(p) \/ ReadBack(p) PROVE StoreTyped'
  BY <1>5, <1>0 DEF MigrationStarts, ReadState, ListRows, MigrateObject, Encrypt,
     ReadBack, Works, bytesVars, Pending, NextPath, StoreTyped, FilesTyped, Rows
<1>6. ASSUME NEW p \in Procs, InventoryState(p) \/ ListObjects(p) \/ Weigh(p) PROVE
   StoreTyped'
  BY <1>6, <1>0 DEF InventoryState, ListObjects, Weigh, Works, bytesVars, StoreTyped,
     FilesTyped, Rows
<1>7. ASSUME NEW p \in Procs, NEW q \in Paths, CheckOwner(p, q) PROVE StoreTyped'
  BY <1>7, <1>0 DEF CheckOwner, Works, Owned, bytesVars, StoreTyped, FilesTyped, Rows
<1>8. ASSUME NEW p \in Procs, UploadPut(p) PROVE StoreTyped'
  BY <1>8, <1>0, Written DEF UploadPut, Put, MayFail, StoreTyped, FilesTyped, Rows, Paths,
     Forms
<1>9. ASSUME NEW p \in Procs, Discard(p) PROVE StoreTyped'
  BY <1>9, <1>0, Removed DEF Discard, Leave, StoreTyped, FilesTyped, Rows, Paths, Forms
<1>10. ASSUME NEW p \in Procs, Insert(p) PROVE StoreTyped'
  BY <1>10, <1>0, ScenarioFacts DEF Insert, InsertValid, LockedBy, bytesVars, StoreTyped,
     FilesTyped, Rows
<1>11. ASSUME NEW p \in Procs, Commit(p) PROVE StoreTyped'
  <2>1. keyed(p) \in BOOLEAN
    BY ScenarioFacts DEF TypeInv
  <2>2. [is |-> "live", key |-> keyed(p), enc |-> keyed(p)] \in Rows
    BY <2>1, Zenon DEF Rows
  <2>3. row' \in Rows /\ (row'.enc => row'.key)
    BY <1>11, <1>0, <2>2 DEF Commit, StoreTyped
  <2>4. QED
    BY <1>11, <1>0, <2>3 DEF Commit, bytesVars, StoreTyped, FilesTyped
<1>12. ASSUME NEW p \in Procs, DeleteRow(p) PROVE StoreTyped'
  BY <1>12, <1>0 DEF DeleteRow, NoRow, bytesVars, StoreTyped, FilesTyped, Rows
<1>13. ASSUME NEW p \in Procs, DropStarts(p) PROVE StoreTyped'
  BY <1>13, <1>0 DEF DropStarts, Leave, StoreTyped, FilesTyped, Rows
<1>14. ASSUME NEW p \in Procs, NEW q \in Paths, Drop(p, q) PROVE StoreTyped'
  BY <1>14, <1>0, Removed DEF Drop, MayFail, Leave, StoreTyped, FilesTyped, Rows
<1>15. ASSUME NEW p \in Procs, ReadRow(p) PROVE StoreTyped'
  BY <1>15, <1>0 DEF ReadRow, Converts, EnsureKey, Gives, bytesVars, Leave, StoreTyped,
     FilesTyped, Rows
<1>16. ASSUME NEW p \in Procs, Publish(p) PROVE StoreTyped'
  BY <1>16, <1>0, Written DEF Publish, Converts, Put, Gives, Retry, bytesVars, MayFail,
     Leave, StoreTyped, FilesTyped, Rows, Paths, Forms
<1>17. ASSUME NEW p \in Procs, Rename(p) PROVE StoreTyped'
  BY <1>17, <1>0, Written DEF Rename, Converts, Put, Gives, MayFail, Leave, StoreTyped,
     FilesTyped, Rows, Paths, Forms
<1>18. ASSUME NEW p \in Procs, Finish(p) \/ Undo(p) PROVE StoreTyped'
  BY <1>18, <1>0, Removed DEF Finish, Undo, Converts, Gives, MayFail, bytesVars, Leave,
     StoreTyped, FilesTyped, Rows, Paths, Forms
<1>19. ASSUME NEW p \in Procs, RemoveOriginal(p) PROVE StoreTyped'
  BY <1>19, <1>0, Removed DEF RemoveOriginal, Converts, Gives, MayFail, Leave, StoreTyped,
     FilesTyped, Rows, Paths, Forms
<1>20. ASSUME NEW p \in Procs, Mark(p) PROVE StoreTyped'
  BY <1>20, <1>0 DEF Mark, Converts, MarkRow, Gives, bytesVars, Leave, StoreTyped,
     FilesTyped, Rows
<1>21. ASSUME NEW p \in Procs, PassEnds(p) PROVE StoreTyped'
  BY <1>21, <1>0, ScenarioFacts DEF PassEnds, Works, NothingPending, Leave, bytesVars,
     Pending, StoreTyped, FilesTyped, Rows
<1>22. ASSUME NEW p \in Procs, MigrateKey(p) PROVE StoreTyped'
  <2>1. row \in Rows /\ (row.enc => row.key) /\ EnsureKey(p)
    BY <1>22, <1>0 DEF MigrateKey, StoreTyped
  <2>2. row' \in Rows /\ (row'.enc => row'.key)
    BY <2>1 DEF EnsureKey, Rows
  <2>3. UNCHANGED <<policy, lock, file, stray, faulted>>
    BY <1>22 DEF MigrateKey, bytesVars
  <2>4. QED
    BY <1>0, <2>2, <2>3 DEF StoreTyped, FilesTyped
<1>23. ASSUME NEW p \in Procs, Overwrite(p) PROVE StoreTyped'
  <2>1. loc[p].path \in Paths /\ "cipher" \in Forms /\ FilesTyped
    BY <1>0 DEF Variables, Forms, StoreTyped
  <2>2. (Write(loc[p].path, "cipher") \/ UNCHANGED file) /\ faulted' \in {faulted, TRUE}
    BY <1>23 DEF Overwrite, Put
  <2>3. FilesTyped'
    BY <2>1, <2>2, Written DEF FilesTyped
  <2>4. UNCHANGED <<row, policy, lock, stray>>
    BY <1>23 DEF Overwrite
  <2>5. QED
    BY <1>0, <2>2, <2>3, <2>4 DEF StoreTyped
<1>24. ASSUME NEW p \in Procs, MarkMigrated(p) PROVE StoreTyped'
  BY <1>24, <1>0 DEF MarkMigrated, Works, MarkRow, bytesVars, StoreTyped, FilesTyped, Rows
<1>25. ASSUME NEW p \in Procs, Checkpoint(p) PROVE StoreTyped'
  BY <1>25, <1>0 DEF Checkpoint, Works, Leave, bytesVars, StoreTyped, FilesTyped, Rows
<1>26. ASSUME NEW p \in Procs, Sweep(p) PROVE StoreTyped'
  <2>1. loc[p].path \in Paths
    BY <1>0 DEF Variables
  <2>2. QED
    BY <1>26, <1>0, <2>1, Removed DEF Sweep, Works, Leave, MayFail, StoreTyped, FilesTyped
<1>27. ASSUME NEW p \in Procs, InventoryEnds(p) PROVE StoreTyped'
  BY <1>27, <1>0, ScenarioFacts DEF InventoryEnds, Works, Leave, bytesVars, StoreTyped,
     FilesTyped, Rows, Variables
<1>28. ASSUME NEW p \in Procs, Crash(p) PROVE StoreTyped'
  BY <1>28, <1>0 DEF Crash, MayFail, Leave, NoLookup, bytesVars, NoRow, StoreTyped,
     FilesTyped, Rows
<1>29. CASE Activate \/ UNCHANGED vars
  BY <1>29, <1>0 DEF Activate, vars, bytesVars, procVars, StoreTyped, FilesTyped
<1>30. ASSUME NEW p \in Procs, Upload(p) PROVE StoreTyped'
  BY <1>30, <1>1, <1>8, <1>9, <1>10, <1>11 DEF Upload
<1>31. ASSUME NEW p \in Procs, Delete(p) PROVE StoreTyped'
  BY <1>31, <1>12, <1>13, <1>14 DEF Delete
<1>32. ASSUME NEW p \in Procs, Read(p) PROVE StoreTyped'
  BY <1>32, <1>2, <1>3 DEF Read
<1>33. ASSUME NEW p \in Procs, Convert(p) PROVE StoreTyped'
  BY <1>33, <1>4, <1>15, <1>16, <1>17, <1>18, <1>19, <1>20 DEF Convert
<1>34. ASSUME NEW p \in Procs, Migrate(p) PROVE StoreTyped'
  BY <1>34, <1>5, <1>21, <1>22, <1>23, <1>24, <1>25 DEF Migrate
<1>35. ASSUME NEW p \in Procs, Inventory(p) PROVE StoreTyped'
  BY <1>35, <1>6, <1>7, <1>26, <1>27 DEF Inventory
<1>36. QED
  BY <1>29, <1>30, <1>31, <1>32, <1>33, <1>34, <1>35, <1>1, <1>28 DEF Next, Proceed

(* Nobody leaves the places of his role.                                   *)
LEMMA MovesStep == ASSUME TypeInv, [Next]_vars PROVE at' = at \/ \E p \in Procs : Moves(p)
<1>1. ASSUME NEW p \in Procs, UploadFence(p) \/ Resolve(p) \/ LoseAck(p) PROVE at' = at \/
   Moves(p)
  BY <1>1, ScenarioFacts, RoleOfPlace, PlacesAre DEF UploadFence, Resolve, LoseAck, Goto,
     Moves, UploadPlaces
<1>2. ASSUME NEW p \in Procs, UploadPut(p) \/ Discard(p) PROVE at' = at \/ Moves(p)
  BY <1>2, ScenarioFacts, RoleOfPlace, PlacesAre DEF UploadPut, Discard, Put, Goto, Leave,
     Moves, UploadPlaces
<1>3. ASSUME NEW p \in Procs, Insert(p) \/ Commit(p) PROVE at' = at \/ Moves(p)
  BY <1>3, ScenarioFacts, RoleOfPlace, PlacesAre DEF Insert, Commit, Goto, Moves,
     UploadPlaces
<1>4. ASSUME NEW p \in Procs, DeleteRow(p) PROVE at' = at \/ Moves(p)
  BY <1>4, ScenarioFacts, RoleOfPlace, PlacesAre DEF DeleteRow, Goto, Moves
<1>5. ASSUME NEW p \in Procs, DropStarts(p) PROVE at' = at \/ Moves(p)
  BY <1>5, ScenarioFacts, RoleOfPlace, PlacesAre DEF DropStarts, Goto, Leave, Moves,
     DropPlaces
<1>6. ASSUME NEW p \in Procs, NEW q \in Paths, Drop(p, q) PROVE at' = at \/ Moves(p)
  BY <1>6, ScenarioFacts, RoleOfPlace, PlacesAre DEF Drop, Leave, Goto, Moves, DropPlaces
<1>7. ASSUME NEW p \in Procs, ReadStart(p) \/ ReadDecides(p) PROVE at' = at \/ Moves(p)
  BY <1>7, ScenarioFacts, RoleOfPlace, PlacesAre DEF ReadStart, ReadDecides, Goto,
     NoLookup, Settled, Answer, Moves, ConvertPlaces
<1>8. ASSUME NEW p \in Procs, NEW q \in Paths, LookupRow(p, q) \/ LookupState(p, q) \/
   LookupObject(p, q) \/ LookupAgain(p, q) \/ LookupReopen(p, q) PROVE at' = at \/ Moves(p)
  BY <1>8, ScenarioFacts, RoleOfPlace, PlacesAre DEF LookupRow, LookupState, LookupObject,
     LookupAgain, LookupReopen, Lookup, Settle, KeyedOutcome, StartOver, NoLookup, Moves,
     ConvertPlaces
<1>9. ASSUME NEW p \in Procs, Verify(p) \/ ReadPolicy(p) \/ ReadRow(p) PROVE at' = at \/
   Moves(p)
  BY <1>9, ScenarioFacts, RoleOfPlace, PlacesAre DEF Verify, ReadPolicy, ReadRow,
     Converts, Goto, Gives, Leave, Moves, ConvertPlaces
<1>10. ASSUME NEW p \in Procs, LookAtCompressed(p) \/ Publish(p) PROVE at' = at \/ Moves(p)
  BY <1>10, ScenarioFacts, RoleOfPlace, PlacesAre DEF LookAtCompressed, Publish, Converts,
     Retry, Goto, Put, Gives, Leave, Moves, ConvertPlaces
<1>11. ASSUME NEW p \in Procs, Replace(p) \/ Rename(p) \/ Recheck(p) PROVE at' = at \/
   Moves(p)
  BY <1>11, ScenarioFacts, RoleOfPlace, PlacesAre DEF Replace, Rename, Recheck, Converts,
     Goto, Retry, Put, Gives, Leave, Moves, ConvertPlaces
<1>12. ASSUME NEW p \in Procs, Finish(p) \/ Undo(p) \/ RemoveOriginal(p) \/ Mark(p) PROVE
   at' = at \/
   Moves(p)
  BY <1>12, ScenarioFacts, RoleOfPlace, PlacesAre DEF Finish, Undo, RemoveOriginal, Mark,
     Converts, Goto, Gives, Leave, Moves, ConvertPlaces
<1>13. ASSUME NEW p \in Procs, MigrationStarts(p) \/ ReadState(p) \/ ListRows(p) \/
   PassEnds(p) PROVE at' = at \/ Moves(p)
  BY <1>13, ScenarioFacts, RoleOfPlace, PlacesAre DEF MigrationStarts, ReadState,
     ListRows, PassEnds, Works, Goto, Leave, Moves, WorkPlaces, RowPlaces
<1>14. ASSUME NEW p \in Procs, MigrateKey(p) \/ MigrateObject(p) PROVE at' = at \/ Moves(p)
  BY <1>14, ScenarioFacts, RoleOfPlace, PlacesAre DEF MigrateKey, MigrateObject, Works,
     Goto, NextPath, Moves, WorkPlaces, RowPlaces
<1>15. ASSUME NEW p \in Procs, Encrypt(p) \/ Overwrite(p) \/ ReadBack(p) PROVE at' = at \/
   Moves(p)
  BY <1>15, ScenarioFacts, RoleOfPlace, PlacesAre DEF Encrypt, Overwrite, ReadBack, Works,
     Goto, Put, NextPath, Moves, WorkPlaces, RowPlaces
<1>16. ASSUME NEW p \in Procs, MarkMigrated(p) \/ Checkpoint(p) PROVE at' = at \/ Moves(p)
  BY <1>16, ScenarioFacts, RoleOfPlace, PlacesAre DEF MarkMigrated, Checkpoint, Works,
     Goto, Leave, Moves, WorkPlaces, RowPlaces
<1>17. ASSUME NEW p \in Procs, InventoryState(p) \/ ListObjects(p) \/ InventoryEnds(p) PROVE
   at' = at \/ Moves(p)
  BY <1>17, ScenarioFacts, RoleOfPlace, PlacesAre DEF InventoryState, ListObjects,
     InventoryEnds, Works, Goto, Leave, Moves, WorkPlaces, RowPlaces
<1>18. ASSUME NEW p \in Procs, NEW q \in Paths, CheckOwner(p, q) PROVE at' = at \/ Moves(p)
  BY <1>18, ScenarioFacts, RoleOfPlace, PlacesAre DEF CheckOwner, Works, Goto, Moves,
     WorkPlaces, RowPlaces
<1>19. ASSUME NEW p \in Procs, Weigh(p) \/ Sweep(p) PROVE at' = at \/ Moves(p)
  BY <1>19, ScenarioFacts, RoleOfPlace, PlacesAre DEF Weigh, Sweep, Works, Goto, Leave,
     Moves, WorkPlaces, RowPlaces
<1>20. ASSUME NEW p \in Procs, Crash(p) PROVE at' = at \/ Moves(p)
  <2>1. (IF sc.role[p] = "migrate" THEN "rest" ELSE "done") \in Places[sc.role[p]]
    BY ScenarioFacts, PlacesAre DEF TypeInv, Roles
  <2>2. QED
    BY <1>20, <2>1 DEF Crash, Leave, Goto, Moves
<1>21. CASE Activate \/ UNCHANGED vars
  BY <1>21 DEF Activate, vars, bytesVars, procVars
<1>22. ASSUME NEW p \in Procs, Upload(p) PROVE at' = at \/ Moves(p)
  BY <1>22, <1>1, <1>2, <1>3 DEF Upload
<1>23. ASSUME NEW p \in Procs, Delete(p) PROVE at' = at \/ Moves(p)
  BY <1>23, <1>4, <1>5, <1>6 DEF Delete
<1>24. ASSUME NEW p \in Procs, Read(p) PROVE at' = at \/ Moves(p)
  BY <1>24, <1>7, <1>8 DEF Read
<1>25. ASSUME NEW p \in Procs, Convert(p) PROVE at' = at \/ Moves(p)
  BY <1>25, <1>9, <1>10, <1>11, <1>12 DEF Convert
<1>26. ASSUME NEW p \in Procs, Migrate(p) PROVE at' = at \/ Moves(p)
  BY <1>26, <1>13, <1>14, <1>15, <1>16 DEF Migrate
<1>27. ASSUME NEW p \in Procs, Inventory(p) PROVE at' = at \/ Moves(p)
  BY <1>27, <1>17, <1>18, <1>19 DEF Inventory
<1>28. QED
  BY <1>21, <1>22, <1>23, <1>24, <1>25, <1>26, <1>27, <1>1, <1>20 DEF Next, Proceed

LocTyped == loc \in [Procs -> Variables]

(* The variables of a process with some of them changed.                   *)
LEMMA ChangedVariables ==
    ASSUME NEW v \in Variables, NEW o \in Objects, NEW b \in BOOLEAN, NEW q \in Paths,
           NEW T \in SUBSET Paths, NEW n \in 0..2
    PROVE  /\ [v EXCEPT !.got = o] \in Variables
           /\ [v EXCEPT !.tries = n] \in Variables
           /\ [v EXCEPT !.todo = T] \in Variables
           /\ [v EXCEPT !.todo = T, !.path = q] \in Variables
           /\ [v EXCEPT !.path = q, !.found = b] \in Variables
           /\ [v EXCEPT !.found = b, !.got = o] \in Variables
BY DEF Variables, Objects

(* The variables of each process are typed: an attempt is counted only     *)
(* below the last one.                                                     *)
LEMMA VariablesStep == ASSUME TypeInv, [Next]_vars PROVE LocTyped'
<1>0. LocTyped /\ file \in [Paths -> Objects]
  BY DEF TypeInv, TypeOK, LocTyped, Variables, Objects
<1>b. Blank \in Variables
  BY DEF Blank, NoObject, FirstPath, Paths, Forms, Variables
<1>k. ASSUME NEW p \in Procs, NEW v \in Variables, Keep(p, v) PROVE LocTyped'
  BY <1>0, <1>k DEF Keep, LocTyped
<1>v. ASSUME NEW p \in Procs
      PROVE  loc[p] \in Variables /\ loc[p].path \in Paths /\ file[loc[p].path] \in Objects
             /\ loc[p].found \in BOOLEAN /\ loc[p].tries \in 0..2
  BY <1>0 DEF LocTyped, Variables
<1>l. ASSUME NEW p \in Procs, Leave(p, "done") \/ Leave(p, "rest") PROVE LocTyped'
  BY <1>b, <1>k, <1>l DEF Leave
<1>g. ASSUME NEW p \in Procs, NEW x, Gives(p, x) PROVE LocTyped'
  BY <1>l, <1>g DEF Gives
<1>r. ASSUME NEW p \in Procs, Retry(p) PROVE LocTyped'
  <2>1. CASE loc[p].tries + 1 = Attempts
    BY <1>r, <1>g, <2>1 DEF Retry
  <2>2. CASE loc[p].tries + 1 # Attempts
    <3>1. loc[p].tries + 1 \in 0..2
      BY <1>v, <2>2 DEF Attempts
    <3>2. [Blank EXCEPT !.tries = loc[p].tries + 1] \in Variables
      BY <1>b, <3>1 DEF Variables
    <3>3. QED
      BY <1>r, <1>k, <2>2, <3>2 DEF Retry
  <2>3. QED
    BY <2>1, <2>2
<1>n. ASSUME NEW p \in Procs, NEW b \in BOOLEAN, NextPath(p, b) PROVE LocTyped'
  <2>1. [loc[p] EXCEPT !.path = "orig", !.found = b] \in Variables
    BY <1>v DEF Variables, Paths
  <2>2. QED
    BY <1>0, <1>n, <1>k, <2>1 DEF NextPath, LocTyped
<1>1. ASSUME NEW p \in Procs, UploadPut(p) \/ UploadFence(p) \/ Insert(p) \/ Commit(p) \/
   Resolve(p) \/ LoseAck(p) PROVE LocTyped'
  BY <1>1, <1>0 DEF UploadPut, UploadFence, Insert, Commit, Resolve, LoseAck, Put,
     LocTyped
<1>2. ASSUME NEW p \in Procs, DeleteRow(p) PROVE LocTyped'
  BY <1>2, <1>0 DEF DeleteRow, LocTyped
<1>3. ASSUME NEW p \in Procs, ReadStart(p) \/ ReadDecides(p) PROVE LocTyped'
  BY <1>3, <1>0 DEF ReadStart, ReadDecides, LocTyped
<1>4. ASSUME NEW p \in Procs, NEW q \in Paths, LookupRow(p, q) \/ LookupState(p, q) \/
   LookupObject(p, q) \/ LookupAgain(p, q) \/ LookupReopen(p, q) PROVE LocTyped'
  BY <1>4, <1>0 DEF LookupRow, LookupState, LookupObject, LookupAgain, LookupReopen,
     Lookup, LocTyped
<1>5. ASSUME NEW p \in Procs, MigrationStarts(p) \/ ListRows(p) \/ MigrateKey(p) \/
   Encrypt(p) \/ Overwrite(p) \/ MarkMigrated(p) PROVE LocTyped'
  BY <1>5, <1>0 DEF MigrationStarts, ListRows, MigrateKey, Encrypt, Overwrite,
     MarkMigrated, Works, Put, LocTyped
<1>6. ASSUME NEW p \in Procs, InventoryState(p) PROVE LocTyped'
  BY <1>6, <1>0 DEF InventoryState, Works, LocTyped
<1>7. ASSUME NEW p \in Procs, Discard(p) PROVE LocTyped'
  BY <1>7, <1>l DEF Discard
<1>8. ASSUME NEW p \in Procs, DropStarts(p) PROVE LocTyped'
  <2>1. [Blank EXCEPT !.todo = Paths] \in Variables
    BY <1>b DEF Variables
  <2>2. QED
    BY <1>8, <1>k, <1>l, <2>1 DEF DropStarts
<1>9. ASSUME NEW p \in Procs, NEW q \in Paths, Drop(p, q) PROVE LocTyped'
  <2>1. [loc[p] EXCEPT !.todo = @ \ {q}] \in Variables
    BY <1>v DEF Variables
  <2>2. QED
    BY <1>9, <1>k, <1>l, <2>1 DEF Drop
<1>10. ASSUME NEW p \in Procs, Verify(p) \/ ReadPolicy(p) \/ ReadRow(p) PROVE LocTyped'
  BY <1>10, <1>0, <1>g DEF Verify, ReadPolicy, ReadRow, Converts, LocTyped
<1>11. ASSUME NEW p \in Procs, LookAtCompressed(p) PROVE LocTyped'
  <2>1. [loc[p] EXCEPT !.got = file["br"]] \in Variables
    BY <1>0, <1>v DEF Variables, Objects, Paths
  <2>2. QED
    BY <1>11, <1>k, <1>r, <2>1 DEF LookAtCompressed
<1>12. ASSUME NEW p \in Procs, Publish(p) \/ Replace(p) \/ Rename(p) PROVE LocTyped'
  BY <1>12, <1>0, <1>g, <1>r DEF Publish, Replace, Rename, Converts, Put, LocTyped
<1>13. ASSUME NEW p \in Procs, Recheck(p) \/ Finish(p) \/ Undo(p) PROVE LocTyped'
  BY <1>13, <1>0, <1>g DEF Recheck, Finish, Undo, Converts, LocTyped
<1>14. ASSUME NEW p \in Procs, RemoveOriginal(p) \/ Mark(p) PROVE LocTyped'
  BY <1>14, <1>0, <1>g DEF RemoveOriginal, Mark, Converts, LocTyped
<1>15. ASSUME NEW p \in Procs, ReadState(p) PROVE LocTyped'
  <2>1. [Blank EXCEPT !.cursor = policy.cursor] \in Variables
    BY <1>b DEF TypeInv, TypeOK, Variables
  <2>2. QED
    BY <1>15, <1>k, <2>1 DEF ReadState
<1>16. ASSUME NEW p \in Procs, PassEnds(p) \/ Checkpoint(p) PROVE LocTyped'
  BY <1>16, <1>b, <1>k DEF PassEnds, Checkpoint, Works, Leave, Keep
<1>17. ASSUME NEW p \in Procs, MigrateObject(p) PROVE LocTyped'
  <2>1. [loc[p] EXCEPT !.got = file[loc[p].path]] \in Variables
    BY <1>v DEF Variables, Objects
  <2>2. QED
    BY <1>17, <1>k, <1>n, <1>v, <2>1 DEF MigrateObject, LooksEncrypted
<1>18. ASSUME NEW p \in Procs, ReadBack(p) PROVE LocTyped'
  BY <1>18, <1>0, <1>n DEF ReadBack, Works, LocTyped
<1>19. ASSUME NEW p \in Procs, ListObjects(p) PROVE LocTyped'
  <2>1. [Blank EXCEPT !.todo = {q \in Paths : There(q)}] \in Variables
    BY <1>b DEF Variables
  <2>2. QED
    BY <1>19, <1>k, <2>1 DEF ListObjects
<1>20. ASSUME NEW p \in Procs, NEW q \in Paths, CheckOwner(p, q) PROVE LocTyped'
  <2>1. [loc[p] EXCEPT !.todo = @ \ {q}, !.path = q] \in Variables
    BY <1>v DEF Variables
  <2>2. QED
    BY <1>20, <1>k, <2>1 DEF CheckOwner
<1>21. ASSUME NEW p \in Procs, Weigh(p) PROVE LocTyped'
  <2>1. [loc[p] EXCEPT !.got = file[loc[p].path]] \in Variables
    BY <1>v DEF Variables, Objects
  <2>2. QED
    BY <1>21, <1>0, <1>k, <2>1 DEF Weigh, LocTyped
<1>22. ASSUME NEW p \in Procs, Sweep(p) PROVE LocTyped'
  <2>1. [loc[p] EXCEPT !.found = TRUE, !.got = NoObject] \in Variables
    BY <1>v DEF Variables, NoObject, Forms
  <2>2. QED
    BY <1>22, <1>k, <1>l, <2>1 DEF Sweep
<1>23. ASSUME NEW p \in Procs, InventoryEnds(p) PROVE LocTyped'
  BY <1>23, <1>b, <1>k DEF InventoryEnds, Works, Leave, Keep
<1>24. ASSUME NEW p \in Procs, Crash(p) PROVE LocTyped'
  BY <1>24, <1>b, <1>k DEF Crash, Leave, Keep
<1>25. CASE Activate \/ UNCHANGED vars
  BY <1>25, <1>0 DEF Activate, vars, bytesVars, procVars, LocTyped
<1>26. ASSUME NEW p \in Procs, Upload(p) PROVE LocTyped'
  BY <1>26, <1>1, <1>7 DEF Upload
<1>27. ASSUME NEW p \in Procs, Delete(p) PROVE LocTyped'
  BY <1>27, <1>2, <1>8, <1>9 DEF Delete
<1>28. ASSUME NEW p \in Procs, Read(p) PROVE LocTyped'
  BY <1>28, <1>3, <1>4 DEF Read
<1>29. ASSUME NEW p \in Procs, Convert(p) PROVE LocTyped'
  BY <1>29, <1>10, <1>11, <1>12, <1>13, <1>14 DEF Convert
<1>30. ASSUME NEW p \in Procs, Migrate(p) PROVE LocTyped'
  BY <1>30, <1>5, <1>15, <1>16, <1>17, <1>18 DEF Migrate
<1>31. ASSUME NEW p \in Procs, Inventory(p) PROVE LocTyped'
  BY <1>31, <1>6, <1>19, <1>20, <1>21, <1>22, <1>23 DEF Inventory
<1>32. QED
  BY <1>25, <1>26, <1>27, <1>28, <1>29, <1>30, <1>31, <1>1, <1>24 DEF Next, Proceed

LookPlaces == {"idle", "row", "state", "object", "again", "reopen", "bytes", "null", "error"}

(* A lookup begins with no attempt made.                                   *)
LEMMA ZeroAttempts == 0 \in 0..2
OBVIOUS

(* What each step of a lookup makes of it.                                 *)
LEMMA SettleTyped ==
    ASSUME NEW x \in LookPlaces, NEW n \in 0..2
    PROVE  /\ [NoLookup EXCEPT !.at = x] \in Looks
           /\ [NoLookup EXCEPT !.at = x, !.tries = n] \in Looks
<1>1. NoRow \in Rows /\ NoObject \in Objects
  BY DEF NoRow, NoObject, Rows, Objects, Forms
<1>2. NoLookup \in Looks
  BY <1>1, ZeroAttempts DEF NoLookup, Looks
<1>3. QED
  BY <1>2 DEF Looks, LookPlaces

(* What an object makes of a lookup, with the key and without it.          *)
LEMMA OutcomeTyped ==
    ASSUME NEW look \in Looks, NEW object \in Objects
    PROVE  StartOver(look) \in Looks /\ KeyedOutcome(look, object) \in Looks
           /\ KeylessOutcome(object) \in LookPlaces
<1>1. look.tries \in 0..2 /\ look.row \in Rows /\ object.form \in {"none", "plain", "cipher"}
  BY DEF Looks, Objects, Forms
<1>2. StartOver(look) \in Looks
  <2>1. CASE look.tries + 1 = Attempts
    BY <2>1, SettleTyped DEF StartOver, Settle, LookPlaces
  <2>2. CASE look.tries + 1 # Attempts
    <3>1. look.tries + 1 \in 0..2
      BY <1>1, <2>2 DEF Attempts
    <3>2. QED
      BY <2>2, <3>1, SettleTyped DEF StartOver, LookPlaces
  <2>3. QED
    BY <2>1, <2>2
<1>3. /\ [look EXCEPT !.at = "again"] \in Looks
      /\ [look EXCEPT !.got = object, !.at = "reopen"] \in Looks
  BY DEF Looks
<1>4. \A x \in LookPlaces : Settle(x) \in Looks
  BY SettleTyped, ZeroAttempts DEF Settle
<1>5. KeyedOutcome(look, object) \in Looks
  BY <1>1, <1>3, <1>4 DEF KeyedOutcome, LooksEncrypted, LookPlaces
<1>6. KeylessOutcome(object) \in LookPlaces
  BY <1>1 DEF KeylessOutcome, LooksEncrypted, LookPlaces
<1>7. QED
  BY <1>2, <1>5, <1>6

(* The lookups are typed, and no answer is raw ciphertext.                 *)
LooksTyped ==
    /\ copy \in [Procs -> [Paths -> Looks]]
    /\ answer \in [Procs -> Outcomes \ {"ciphertext"}]

(* Every step keeps the types of the lookups and the answers.              *)
LEMMA LooksStep == ASSUME TypeInv, [Next]_vars PROVE LooksTyped'
<1>0. LooksTyped /\ file \in [Paths -> Objects] /\ row \in Rows /\ policy.complete \in BOOLEAN
  BY DEF TypeInv, TypeOK, Shapes, LooksTyped, Objects, Rows
<1>i. NoLookup \in Looks
  BY DEF NoLookup, NoRow, NoObject, Looks, Rows, Objects, Forms
<1>s. \A x \in LookPlaces : Settle(x) \in Looks
  BY SettleTyped, ZeroAttempts DEF Settle
<1>l. ASSUME NEW p \in Procs, NEW q \in Paths, NEW new \in Looks,
             copy' = [copy EXCEPT ![p][q] = new], UNCHANGED answer
      PROVE  LooksTyped'
  BY <1>0, <1>l DEF LooksTyped
<1>1. ASSUME NEW p \in Procs, UploadPut(p) \/ UploadFence(p) \/ Discard(p) \/ Insert(p) \/
   Commit(p) \/ Resolve(p) \/ LoseAck(p) PROVE LooksTyped'
  BY <1>1, <1>0 DEF UploadPut, UploadFence, Discard, Insert, Commit, Resolve, LoseAck,
     Put, Leave, LooksTyped
<1>2. ASSUME NEW p \in Procs, DeleteRow(p) \/ DropStarts(p) PROVE LooksTyped'
  BY <1>2, <1>0 DEF DeleteRow, DropStarts, Leave, LooksTyped
<1>3. ASSUME NEW p \in Procs, NEW q \in Paths, Drop(p, q) PROVE LooksTyped'
  BY <1>3, <1>0 DEF Drop, Leave, LooksTyped
<1>4. ASSUME NEW p \in Procs, ReadStart(p) PROVE LooksTyped'
  <2>1. [NoLookup EXCEPT !.at = IF keyed(p) THEN "row" ELSE "object"] \in Looks
    BY SettleTyped DEF LookPlaces
  <2>2. QED
    BY <1>4, <1>0, <2>1 DEF ReadStart, LooksTyped
<1>5. ASSUME NEW p \in Procs, NEW q \in Paths, LookupRow(p, q) PROVE LooksTyped'
  <2>1. copy[p][q] \in Looks
    BY <1>0 DEF LooksTyped
  <2>2. [copy[p][q] EXCEPT !.row = row, !.at = IF row.enc THEN "object" ELSE "state"] \in Looks
    BY <1>0, <2>1 DEF Looks
  <2>3. Settle("null") \in Looks
    BY <1>s DEF LookPlaces
  <2>4. QED
    BY <1>5, <1>l, <2>2, <2>3 DEF LookupRow, Lookup
<1>6. ASSUME NEW p \in Procs, NEW q \in Paths, LookupState(p, q) PROVE LooksTyped'
  <2>1. copy[p][q] \in Looks
    BY <1>0 DEF LooksTyped
  <2>2. [copy[p][q] EXCEPT !.complete = policy.complete, !.at = "object"] \in Looks
    BY <1>0, <2>1 DEF Looks
  <2>3. QED
    BY <1>6, <1>l, <2>2 DEF LookupState, Lookup
<1>7. ASSUME NEW p \in Procs, NEW q \in Paths, LookupObject(p, q) PROVE LooksTyped'
  <2>1. copy[p][q] \in Looks /\ file[q] \in Objects
    BY <1>0 DEF LooksTyped
  <2>2. KeyedOutcome(copy[p][q], file[q]) \in Looks /\ Settle(KeylessOutcome(file[q])) \in Looks
    BY <2>1, OutcomeTyped, <1>s
  <2>3. QED
    BY <1>7, <1>l, <2>2 DEF LookupObject, Lookup
<1>8. ASSUME NEW p \in Procs, NEW q \in Paths, LookupAgain(p, q) \/ LookupReopen(p, q)
     PROVE  LooksTyped'
  <2>1. copy[p][q] \in Looks /\ file[q] \in Objects
    BY <1>0 DEF LooksTyped
  <2>2. StartOver(copy[p][q]) \in Looks /\ Settle("error") \in Looks /\ Settle("bytes") \in Looks
    BY <2>1, OutcomeTyped, <1>s DEF LookPlaces
  <2>3. QED
    BY <1>8, <1>l, <2>2 DEF LookupAgain, LookupReopen, Lookup
<1>9. ASSUME NEW p \in Procs, ReadDecides(p) PROVE LooksTyped'
  <2>1. \A q \in Paths : copy[p][q] \in Looks /\ Settled(copy[p][q])
    BY <1>0, <1>9 DEF LooksTyped, ReadDecides
  <2>2. \A q \in Paths : copy[p][q].at \in Outcomes \ {"ciphertext"}
    BY <2>1 DEF Looks, Settled, Outcomes
  <2>3. QED
    BY <1>9, <1>0, <1>i, <2>2 DEF ReadDecides, Answer, LooksTyped, Outcomes, Paths
<1>10. ASSUME NEW p \in Procs, Verify(p) \/ ReadPolicy(p) \/ ReadRow(p) \/
   LookAtCompressed(p) \/ Publish(p) PROVE LooksTyped'
  BY <1>10, <1>0 DEF Verify, ReadPolicy, ReadRow, LookAtCompressed, Publish, Converts,
     Gives, Retry, Put, Leave, LooksTyped, Outcomes
<1>11. ASSUME NEW p \in Procs, Replace(p) \/ Rename(p) \/ Recheck(p) \/ Finish(p) \/ Undo(p) \/
   RemoveOriginal(p) \/ Mark(p) PROVE LooksTyped'
  BY <1>11, <1>0 DEF Replace, Rename, Recheck, Finish, Undo, RemoveOriginal, Mark, Converts,
     Retry, Put, Gives, Leave, LooksTyped, Outcomes
<1>12. ASSUME NEW p \in Procs, MigrationStarts(p) \/ ReadState(p) \/ ListRows(p) \/
   PassEnds(p) \/ MigrateKey(p) \/ MigrateObject(p) \/ Encrypt(p) \/ Overwrite(p) \/
   ReadBack(p) \/ MarkMigrated(p) \/ Checkpoint(p) PROVE LooksTyped'
  BY <1>12, <1>0 DEF MigrationStarts, ReadState, ListRows, PassEnds, MigrateKey,
     MigrateObject, Encrypt, Overwrite, ReadBack, MarkMigrated, Checkpoint, Works, Leave,
     NextPath, Put, LooksTyped
<1>13. ASSUME NEW p \in Procs, InventoryState(p) \/ ListObjects(p) \/ Weigh(p) \/ Sweep(p)
   \/ InventoryEnds(p) PROVE LooksTyped'
  BY <1>13, <1>0 DEF InventoryState, ListObjects, Weigh, Sweep, InventoryEnds, Works,
     Leave, LooksTyped
<1>14. ASSUME NEW p \in Procs, NEW q \in Paths, CheckOwner(p, q) PROVE LooksTyped'
  BY <1>14, <1>0 DEF CheckOwner, Works, LooksTyped
<1>15. ASSUME NEW p \in Procs, Crash(p) PROVE LooksTyped'
  BY <1>15, <1>0, <1>i DEF Crash, LooksTyped
<1>16. CASE Activate \/ UNCHANGED vars
  BY <1>16, <1>0 DEF Activate, vars, bytesVars, procVars, LooksTyped
<1>17. ASSUME NEW p \in Procs, Upload(p) PROVE LooksTyped'
  BY <1>17, <1>1 DEF Upload
<1>18. ASSUME NEW p \in Procs, Delete(p) PROVE LooksTyped'
  BY <1>18, <1>2, <1>3 DEF Delete
<1>19. ASSUME NEW p \in Procs, Read(p) PROVE LooksTyped'
  BY <1>19, <1>4, <1>5, <1>6, <1>7, <1>8, <1>9 DEF Read
<1>20. ASSUME NEW p \in Procs, Convert(p) PROVE LooksTyped'
  BY <1>20, <1>10, <1>11 DEF Convert
<1>21. ASSUME NEW p \in Procs, Migrate(p) PROVE LooksTyped'
  BY <1>21, <1>12 DEF Migrate
<1>22. ASSUME NEW p \in Procs, Inventory(p) PROVE LooksTyped'
  BY <1>22, <1>13, <1>14 DEF Inventory
<1>23. QED
  BY <1>16, <1>17, <1>18, <1>19, <1>20, <1>21, <1>22, <1>1, <1>15 DEF Next, Proceed

(* A client that waits for its commit has the writer lock.                 *)
LEMMA CommitStep ==
    ASSUME TypeInv, [Next]_vars PROVE \A s \in Procs : at'[s] = "commit" => lock' = s
<1>0. /\ at \in [Procs -> UNION {Places[r] : r \in Roles}]
      /\ \A s \in Procs : at[s] = "commit" => lock = s
      /\ \A s \in Procs : s # Nobody
  BY ScenarioFacts DEF TypeInv, TypeOK, Shapes
<1>1. ASSUME NEW p \in Procs, UploadPut(p) \/ UploadFence(p) \/ Discard(p) PROVE \A s \in
   Procs : at'[s] = "commit" => lock' = s
  BY <1>1, <1>0 DEF UploadPut, UploadFence, Discard, Put, Goto, Leave
<1>2. ASSUME NEW p \in Procs, Insert(p) PROVE \A s \in Procs : at'[s] = "commit" => lock' =
   s
  BY <1>2, <1>0 DEF Insert, Goto, LockedBy
<1>3. ASSUME NEW p \in Procs, Commit(p) PROVE \A s \in Procs : at'[s] = "commit" => lock' =
   s
  BY <1>3, <1>0 DEF Commit, Goto
<1>4. ASSUME NEW p \in Procs, Resolve(p) \/ LoseAck(p) PROVE \A s \in Procs : at'[s] =
   "commit" => lock' = s
  BY <1>4, <1>0 DEF Resolve, LoseAck, CanResolve, Goto
<1>5. ASSUME NEW p \in Procs, DeleteRow(p) \/ DropStarts(p) PROVE \A s \in Procs : at'[s] =
   "commit" => lock' = s
  BY <1>5, <1>0 DEF DeleteRow, DropStarts, Goto, Leave
<1>6. ASSUME NEW p \in Procs, NEW q \in Paths, Drop(p, q) PROVE \A s \in Procs : at'[s] =
   "commit" => lock' = s
  BY <1>6, <1>0 DEF Drop, Leave, Goto
<1>7. ASSUME NEW p \in Procs, ReadStart(p) \/ ReadDecides(p) PROVE \A s \in Procs : at'[s] =
   "commit" => lock' = s
  BY <1>7, <1>0 DEF ReadStart, ReadDecides, Goto, NoLookup, Settled, Answer
<1>8. ASSUME NEW p \in Procs, NEW q \in Paths, LookupRow(p, q) \/ LookupState(p, q) \/
   LookupObject(p, q) \/ LookupAgain(p, q) \/ LookupReopen(p, q) PROVE \A s \in Procs :
   at'[s] = "commit" => lock' = s
  BY <1>8, <1>0 DEF LookupRow, LookupState, LookupObject, LookupAgain, LookupReopen,
     Lookup, Settle, KeyedOutcome, StartOver, NoLookup
<1>9. ASSUME NEW p \in Procs, Verify(p) \/ ReadPolicy(p) \/ ReadRow(p) \/
   LookAtCompressed(p) \/ Publish(p) PROVE \A s \in Procs : at'[s] = "commit" => lock' = s
  BY <1>9, <1>0 DEF Verify, ReadPolicy, ReadRow, LookAtCompressed, Publish, Converts,
     Goto, Gives, Retry, Put, Leave
<1>10. ASSUME NEW p \in Procs, Replace(p) \/ Rename(p) \/ Recheck(p) \/ Finish(p) \/ Undo(p) \/
   RemoveOriginal(p) \/ Mark(p) PROVE \A s \in Procs : at'[s] = "commit" => lock' = s
  BY <1>10, <1>0 DEF Replace, Rename, Recheck, Finish, Undo, RemoveOriginal, Mark, Converts,
     Goto, Retry, Put, Gives, Leave
<1>11. ASSUME NEW p \in Procs, MigrationStarts(p) \/ ReadState(p) \/ ListRows(p) \/
   PassEnds(p) \/ MigrateKey(p) \/ MigrateObject(p) PROVE \A s \in Procs : at'[s] = "commit"
   => lock' = s
  BY <1>11, <1>0 DEF MigrationStarts, ReadState, ListRows, PassEnds, MigrateKey,
     MigrateObject, Works, Goto, Leave, NextPath
<1>12. ASSUME NEW p \in Procs, Encrypt(p) \/ Overwrite(p) \/ ReadBack(p) \/ MarkMigrated(p)
   \/ Checkpoint(p) PROVE \A s \in Procs : at'[s] = "commit" => lock' = s
  BY <1>12, <1>0 DEF Encrypt, Overwrite, ReadBack, MarkMigrated, Checkpoint, Works, Goto,
     Put, NextPath, Leave
<1>13. ASSUME NEW p \in Procs, InventoryState(p) \/ ListObjects(p) \/ Weigh(p) \/ Sweep(p)
   \/ InventoryEnds(p) PROVE \A s \in Procs : at'[s] = "commit" => lock' = s
  BY <1>13, <1>0 DEF InventoryState, ListObjects, Weigh, Sweep, InventoryEnds, Works,
     Goto, Leave
<1>14. ASSUME NEW p \in Procs, NEW q \in Paths, CheckOwner(p, q) PROVE \A s \in Procs :
   at'[s] = "commit" => lock' = s
  BY <1>14, <1>0 DEF CheckOwner, Works, Goto
<1>15. ASSUME NEW p \in Procs, Crash(p) PROVE \A s \in Procs : at'[s] = "commit" => lock' =
   s
  BY <1>15, <1>0 DEF Crash, Leave, NoLookup, Goto
<1>16. CASE Activate \/ UNCHANGED vars
  BY <1>16, <1>0 DEF Activate, vars, bytesVars, procVars
<1>17. ASSUME NEW p \in Procs, Upload(p) PROVE \A s \in Procs : at'[s] = "commit" => lock' =
   s
  BY <1>17, <1>1, <1>2, <1>3, <1>4 DEF Upload
<1>18. ASSUME NEW p \in Procs, Delete(p) PROVE \A s \in Procs : at'[s] = "commit" => lock' =
   s
  BY <1>18, <1>5, <1>6 DEF Delete
<1>19. ASSUME NEW p \in Procs, Read(p) PROVE \A s \in Procs : at'[s] = "commit" => lock' = s
  BY <1>19, <1>7, <1>8 DEF Read
<1>20. ASSUME NEW p \in Procs, Convert(p) PROVE \A s \in Procs : at'[s] = "commit" => lock'
   = s
  BY <1>20, <1>9, <1>10 DEF Convert
<1>21. ASSUME NEW p \in Procs, Migrate(p) PROVE \A s \in Procs : at'[s] = "commit" => lock'
   = s
  BY <1>21, <1>11, <1>12 DEF Migrate
<1>22. ASSUME NEW p \in Procs, Inventory(p) PROVE \A s \in Procs : at'[s] = "commit" =>
   lock' = s
  BY <1>22, <1>13, <1>14 DEF Inventory
<1>23. QED
  BY <1>16, <1>17, <1>18, <1>19, <1>20, <1>21, <1>22, <1>4, <1>15 DEF Next, Proceed

(* Type correctness, step by step.                                         *)
LEMMA TypeStep == TypeInv /\ [Next]_vars => TypeInv'
<1> SUFFICES ASSUME TypeInv, [Next]_vars PROVE TypeInv'
  OBVIOUS
<1>1. StoreTyped' /\ LocTyped' /\ LooksTyped'
  BY StoreStep, VariablesStep, LooksStep
<1>2. sc' = sc /\ sc \in Scenarios
  BY ScenarioIsFixed DEF TypeInv, TypeOK
<1>3. \A s \in Procs : at'[s] = "commit" => lock' = s
  BY CommitStep
<1>4. /\ at' \in [Procs -> UNION {Places[r] : r \in Roles}]
      /\ \A s \in Procs : at'[s] \in Places[sc'.role[s]]
  <2>1. CASE at' = at
    BY <1>2, <2>1 DEF TypeInv, Shapes
  <2>2. ASSUME NEW p \in Procs, Moves(p)
        PROVE  /\ at' \in [Procs -> UNION {Places[r] : r \in Roles}]
               /\ \A s \in Procs : at'[s] \in Places[sc'.role[s]]
    <3>1. sc.role[p] \in Roles
      BY ScenarioFacts DEF TypeInv
    <3>2. PICK x \in Places[sc.role[p]] : at' = [at EXCEPT ![p] = x]
      BY <2>2 DEF Moves
    <3>3. QED
      BY <1>2, <3>1, <3>2, PlacesOfRoles
  <2>3. QED
    BY <2>1, <2>2, MovesStep
<1>5. \A p \in Procs : \A q \in Paths : copy'[p][q].tries \in 0..2
  BY <1>1 DEF LooksTyped, Looks
<1>6. answer' \in [Procs -> Outcomes] /\ \A p \in Procs : answer'[p] # "ciphertext"
  BY <1>1 DEF LooksTyped
<1>7. TypeOK'
  BY <1>1, <1>2, <1>3, <1>5, <1>6
  DEF TypeOK, StoreTyped, FilesTyped, LocTyped, Rows, Objects, Variables
<1>8. Shapes'
  BY <1>1, <1>4, <1>6 DEF Shapes, LooksTyped
<1>9. QED
  BY <1>7, <1>8 DEF TypeInv

(* The state is typed at first.                                            *)
LEMMA TypeInit == Init => TypeInv
<1> SUFFICES ASSUME Init PROVE TypeInv
  OBVIOUS
<1>1. sc \in Scenarios
  BY DEF Init
<1>2. sc.role \in [Procs -> Roles]
  BY <1>1, StorageAssumption
<1>3. \A p \in Procs : Entry[sc.role[p]] \in Places[sc.role[p]]
  BY <1>2, PlacesAre DEF Entry, Roles
<1>4. at = [p \in Procs |-> Entry[sc.role[p]]]
  BY DEF Init
<1>5. /\ at \in [Procs -> UNION {Places[r] : r \in Roles}]
      /\ \A p \in Procs : at[p] \in Places[sc.role[p]]
  BY <1>2, <1>3, <1>4
<1>6. NoLookup \in Looks /\ Blank \in Variables
  BY DEF NoLookup, NoRow, NoObject, Looks, Rows, Objects, Forms, Blank, FirstPath, Paths,
     Variables
<1>7. copy \in [Procs -> [Paths -> Looks]] /\ loc \in [Procs -> Variables]
  BY <1>6 DEF Init
<1>8. \A p \in Procs : \A q \in Paths : copy[p][q].tries \in 0..2
  BY <1>7 DEF Looks
<1>9. \A p \in Procs : at[p] # "commit"
  <2>1. \A r \in Roles : Entry[r] \in {"done", "put", "start", "rest", "delete"}
    BY DEF Entry, Roles
  <2>2. QED
    BY <1>2, <1>4, <2>1
<1>10. file \in [Paths -> [form : Forms, version : Nat]]
  BY DEF Init, Plain, Forms
<1>11. /\ row \in [is : {"none", "live", "gone"}, key : BOOLEAN, enc : BOOLEAN]
       /\ (row.enc => row.key)
  BY DEF Init, NoRow
<1>12. TypeOK
  BY <1>1, <1>7, <1>8, <1>9, <1>10, <1>11 DEF Init, TypeOK, Outcomes, Variables
<1>13. Shapes
  BY <1>5, <1>7 DEF Init, Shapes
<1>14. QED
  BY <1>12, <1>13 DEF TypeInv

-----------------------------------------------------------------------------
(* Where a process of each role begins.                                    *)
LEMMA EntryAre ==
    /\ Entry["none"] = "done" /\ Entry["upload"] = "put" /\ Entry["read"] = "start"
    /\ Entry["migrate"] = "rest" /\ Entry["delete"] = "delete"
BY DEF Entry

(* Only activation enables encryption, and nothing disables it.            *)
LEMMA PolicyStep ==
    ASSUME TypeInv, [Next]_vars, ~Activate PROVE policy'.enabled = policy.enabled
<1>0. /\ policy \in [enabled : BOOLEAN, cursor : {"start", "row"}, complete : BOOLEAN,
                      cleaned : BOOLEAN]
      /\ \A p \in Procs : loc[p].found \in BOOLEAN
  BY DEF TypeInv, TypeOK
<1>1. ASSUME NEW p \in Procs, UploadPut(p) \/ UploadFence(p) \/ Discard(p) \/ Insert(p) \/
   Commit(p) \/ Resolve(p) \/ LoseAck(p) PROVE policy'.enabled = policy.enabled
  BY <1>1, <1>0 DEF UploadPut, UploadFence, Discard, Insert, Commit, Resolve, LoseAck,
     Put, FenceIsOff, Leave, InsertValid
<1>2. ASSUME NEW p \in Procs, DeleteRow(p) \/ DropStarts(p) PROVE policy'.enabled =
   policy.enabled
  BY <1>2, <1>0 DEF DeleteRow, DropStarts, Leave
<1>3. ASSUME NEW p \in Procs, NEW q \in Paths, Drop(p, q) PROVE policy'.enabled =
   policy.enabled
  BY <1>3, <1>0 DEF Drop, Leave
<1>4. ASSUME NEW p \in Procs, ReadStart(p) \/ ReadDecides(p) PROVE policy'.enabled =
   policy.enabled
  BY <1>4, <1>0 DEF ReadStart, ReadDecides
<1>5. ASSUME NEW p \in Procs, NEW q \in Paths, LookupRow(p, q) \/ LookupState(p, q) \/
   LookupObject(p, q) \/ LookupAgain(p, q) \/ LookupReopen(p, q) PROVE policy'.enabled =
   policy.enabled
  BY <1>5, <1>0 DEF LookupRow, LookupState, LookupObject, LookupAgain, LookupReopen,
     Lookup
<1>6. ASSUME NEW p \in Procs, Verify(p) \/ ReadPolicy(p) \/ ReadRow(p) \/
   LookAtCompressed(p) \/ Publish(p) \/ Replace(p) \/ Rename(p) \/ Recheck(p)
   \/ Finish(p) \/ Undo(p)
   \/ RemoveOriginal(p) \/ Mark(p) PROVE policy'.enabled = policy.enabled
  BY <1>6, <1>0 DEF Verify, ReadPolicy, ReadRow, LookAtCompressed, Publish, Replace,
     Rename, Recheck, Finish, Undo, RemoveOriginal, Mark, Converts, Gives, FenceIsOff, Retry,
     Put, Leave
<1>7. ASSUME NEW p \in Procs, MigrationStarts(p) \/ ReadState(p) \/ ListRows(p) \/
   MigrateKey(p) \/ MigrateObject(p) \/ Encrypt(p) \/ Overwrite(p) \/ ReadBack(p) \/
   MarkMigrated(p) PROVE policy'.enabled = policy.enabled
  BY <1>7, <1>0 DEF MigrationStarts, ReadState, ListRows, MigrateKey, MigrateObject,
     Encrypt, Overwrite, ReadBack, MarkMigrated, Works, NextPath, Put
<1>8. ASSUME NEW p \in Procs, PassEnds(p) PROVE policy'.enabled = policy.enabled
  BY <1>8, <1>0 DEF PassEnds, Works, Leave
<1>9. ASSUME NEW p \in Procs, Checkpoint(p) PROVE policy'.enabled = policy.enabled
  BY <1>9, <1>0 DEF Checkpoint, Works, Leave
<1>10. ASSUME NEW p \in Procs, InventoryState(p) \/ ListObjects(p) \/ Weigh(p) \/ Sweep(p)
   PROVE policy'.enabled = policy.enabled
  BY <1>10, <1>0 DEF InventoryState, ListObjects, Weigh, Sweep, Works, Leave
<1>11. ASSUME NEW p \in Procs, NEW q \in Paths, CheckOwner(p, q) PROVE policy'.enabled =
   policy.enabled
  BY <1>11, <1>0 DEF CheckOwner, Works
<1>12. ASSUME NEW p \in Procs, InventoryEnds(p) PROVE policy'.enabled = policy.enabled
  BY <1>12, <1>0 DEF InventoryEnds, Works, Leave
<1>13. ASSUME NEW p \in Procs, Crash(p) PROVE policy'.enabled = policy.enabled
  BY <1>13, <1>0 DEF Crash, Leave
<1>14. CASE UNCHANGED vars
  BY <1>14 DEF vars, bytesVars, procVars
<1>15. ASSUME NEW p \in Procs, Upload(p) PROVE policy'.enabled = policy.enabled
  BY <1>15, <1>1 DEF Upload
<1>16. ASSUME NEW p \in Procs, Delete(p) PROVE policy'.enabled = policy.enabled
  BY <1>16, <1>2, <1>3 DEF Delete
<1>17. ASSUME NEW p \in Procs, Read(p) PROVE policy'.enabled = policy.enabled
  BY <1>17, <1>4, <1>5 DEF Read
<1>18. ASSUME NEW p \in Procs, Convert(p) PROVE policy'.enabled = policy.enabled
  BY <1>18, <1>6 DEF Convert
<1>19. ASSUME NEW p \in Procs, Migrate(p) PROVE policy'.enabled = policy.enabled
  BY <1>19, <1>7, <1>8, <1>9 DEF Migrate
<1>20. ASSUME NEW p \in Procs, Inventory(p) PROVE policy'.enabled = policy.enabled
  BY <1>20, <1>10, <1>11, <1>12 DEF Inventory
<1>21. QED
  BY <1>14, <1>15, <1>16, <1>17, <1>18, <1>19, <1>20, <1>1, <1>13 DEF Next, Proceed

(* The writer lock is taken to commit a row that fits the policy.          *)
LEMMA LockStep ==
    ASSUME TypeInv, [Next]_vars
    PROVE  \/ lock' = lock \/ lock' = Nobody
           \/ \E p \in Procs : Insert(p) /\ InsertValid(p) /\ lock' = p
<1>1. ASSUME NEW p \in Procs, UploadPut(p) \/ UploadFence(p) \/ Discard(p) \/ Commit(p) \/
   Resolve(p) \/ LoseAck(p) PROVE lock' \in {lock, Nobody} \/ (Insert(p) /\ InsertValid(p)
   /\ lock' = p)
  BY <1>1 DEF UploadPut, UploadFence, Discard, Commit, Resolve, LoseAck, Put, Leave,
     CanResolve
<1>2. ASSUME NEW p \in Procs, Insert(p) PROVE lock' \in {lock, Nobody} \/ (Insert(p) /\
   InsertValid(p) /\ lock' = p)
  BY <1>2 DEF Insert, LockedBy
<1>3. ASSUME NEW p \in Procs, DeleteRow(p) \/ DropStarts(p) PROVE lock' \in {lock, Nobody}
   \/ (Insert(p) /\ InsertValid(p) /\ lock' = p)
  BY <1>3 DEF DeleteRow, DropStarts, Leave
<1>4. ASSUME NEW p \in Procs, NEW q \in Paths, Drop(p, q) PROVE lock' \in {lock, Nobody} \/
   (Insert(p) /\ InsertValid(p) /\ lock' = p)
  BY <1>4 DEF Drop, Leave
<1>5. ASSUME NEW p \in Procs, ReadStart(p) \/ ReadDecides(p) PROVE lock' \in {lock, Nobody}
   \/ (Insert(p) /\ InsertValid(p) /\ lock' = p)
  BY <1>5 DEF ReadStart, ReadDecides
<1>6. ASSUME NEW p \in Procs, NEW q \in Paths, LookupRow(p, q) \/ LookupState(p, q) \/
   LookupObject(p, q) \/ LookupAgain(p, q) \/ LookupReopen(p, q) PROVE lock' \in {lock,
   Nobody} \/ (Insert(p) /\ InsertValid(p) /\ lock' = p)
  BY <1>6 DEF LookupRow, LookupState, LookupObject, LookupAgain, LookupReopen, Lookup
<1>7. ASSUME NEW p \in Procs, Verify(p) \/ ReadPolicy(p) \/ ReadRow(p) \/
   LookAtCompressed(p) \/ Publish(p) \/ Replace(p) \/ Rename(p) \/ Recheck(p)
   \/ Finish(p) \/ Undo(p)
   \/ RemoveOriginal(p) \/ Mark(p) PROVE lock' \in {lock, Nobody} \/ (Insert(p) /\
   InsertValid(p) /\ lock' = p)
  BY <1>7 DEF Verify, ReadPolicy, ReadRow, LookAtCompressed, Publish, Replace, Rename,
     Recheck, Finish, Undo, RemoveOriginal, Mark, Converts, Gives, Retry, Put, Leave
<1>8. ASSUME NEW p \in Procs, MigrationStarts(p) \/ ReadState(p) \/ ListRows(p) \/
   PassEnds(p) \/ MigrateKey(p) \/ MigrateObject(p) \/ Encrypt(p) \/ Overwrite(p) \/
   ReadBack(p) \/ MarkMigrated(p) \/ Checkpoint(p) PROVE lock' \in {lock, Nobody} \/
   (Insert(p) /\ InsertValid(p) /\ lock' = p)
  BY <1>8 DEF MigrationStarts, ReadState, ListRows, PassEnds, MigrateKey, MigrateObject,
     Encrypt, Overwrite, ReadBack, MarkMigrated, Checkpoint, Works, Leave, NextPath, Put
<1>9. ASSUME NEW p \in Procs, InventoryState(p) \/ ListObjects(p) \/ Weigh(p) \/ Sweep(p) \/
   InventoryEnds(p) PROVE lock' \in {lock, Nobody} \/ (Insert(p) /\ InsertValid(p) /\ lock'
   = p)
  BY <1>9 DEF InventoryState, ListObjects, Weigh, Sweep, InventoryEnds, Works, Leave
<1>10. ASSUME NEW p \in Procs, NEW q \in Paths, CheckOwner(p, q) PROVE lock' \in {lock,
   Nobody} \/ (Insert(p) /\ InsertValid(p) /\ lock' = p)
  BY <1>10 DEF CheckOwner, Works
<1>11. ASSUME NEW p \in Procs, Crash(p) PROVE lock' \in {lock, Nobody} \/ (Insert(p) /\
   InsertValid(p) /\ lock' = p)
  BY <1>11 DEF Crash, Leave
<1>12. CASE Activate \/ UNCHANGED vars
  BY <1>12 DEF Activate, vars, bytesVars, procVars
<1>13. ASSUME NEW p \in Procs, Upload(p) PROVE lock' \in {lock, Nobody} \/ (Insert(p) /\
   InsertValid(p) /\ lock' = p)
  BY <1>13, <1>1, <1>2 DEF Upload
<1>14. ASSUME NEW p \in Procs, Delete(p) PROVE lock' \in {lock, Nobody} \/ (Insert(p) /\
   InsertValid(p) /\ lock' = p)
  BY <1>14, <1>3, <1>4 DEF Delete
<1>15. ASSUME NEW p \in Procs, Read(p) PROVE lock' \in {lock, Nobody} \/ (Insert(p) /\
   InsertValid(p) /\ lock' = p)
  BY <1>15, <1>5, <1>6 DEF Read
<1>16. ASSUME NEW p \in Procs, Convert(p) PROVE lock' \in {lock, Nobody} \/ (Insert(p) /\
   InsertValid(p) /\ lock' = p)
  BY <1>16, <1>7 DEF Convert
<1>17. ASSUME NEW p \in Procs, Migrate(p) PROVE lock' \in {lock, Nobody} \/ (Insert(p) /\
   InsertValid(p) /\ lock' = p)
  BY <1>17, <1>8 DEF Migrate
<1>18. ASSUME NEW p \in Procs, Inventory(p) PROVE lock' \in {lock, Nobody} \/ (Insert(p) /\
   InsertValid(p) /\ lock' = p)
  BY <1>18, <1>9, <1>10 DEF Inventory
<1>19. QED
  BY <1>12, <1>13, <1>14, <1>15, <1>16, <1>17, <1>18, <1>1, <1>11 DEF Next, Proceed

(* What is kept for after activation is done after it: the fence that      *)
(* every keyless write and commit re-reads.                                *)
LEMMA ActivationStep == ASSUME TypeInv, Activation, [Next]_vars PROVE Activation'
<1>0. /\ sc' = sc /\ sc.role \in [Procs -> Roles]
      /\ lock \in Procs \union {Nobody} /\ Nobody \notin Procs
      /\ at \in [Procs -> UNION {Places[r] : r \in Roles}]
  BY ScenarioIsFixed, ScenarioFacts DEF TypeInv, TypeOK, Shapes
<1>1. CASE Activate
  BY <1>0, <1>1 DEF Activate, Activation, keyed, bytesVars, procVars
<1>2. CASE ~Activate /\ policy.enabled
  <2>1. policy'.enabled
    BY <1>2, PolicyStep
  <2>2. ASSUME lock' # Nobody PROVE keyed(lock')
    <3>1. lock' = lock => keyed(lock)
      BY <1>2, <2>2 DEF Activation
    <3>2. ASSUME NEW p \in Procs, InsertValid(p) PROVE keyed(p)
      BY <1>2, <3>2 DEF InsertValid
    <3>3. QED
      BY <2>2, <3>1, <3>2, LockStep
  <2>3. QED
    BY <1>0, <2>1, <2>2 DEF Activation, keyed
<1>3. CASE ~Activate /\ ~policy.enabled
  <2>1. ~policy'.enabled
    BY <1>3, PolicyStep
  <2>2. /\ ~policy.complete /\ ~policy.cleaned /\ ~row.key
        /\ lock # Nobody => ~sc.keyed[lock]
        /\ \A s \in Procs : at[s] \notin WorkPlaces
        /\ \A s \in Procs : sc.keyed[s] => at[s] \in {Entry[sc.role[s]], "done"}
    BY <1>3 DEF Activation, OnlyEnabled, keyed
  <2>3. ASSUME NEW s \in Procs, sc.keyed[s]
        PROVE  at[s] \in {"done", "put", "start", "rest", "delete"}
    BY <1>0, <2>2, <2>3, EntryAre DEF Roles
  <2>4. ASSUME NEW p \in Procs, UploadPut(p) \/ UploadFence(p) \/ Discard(p) PROVE
     ~OnlyEnabled'
    BY <2>4, <2>1, <2>2, <2>3, <1>0 DEF UploadPut, UploadFence, Discard, Put, Goto,
       FenceIsOff, Leave, OnlyEnabled, WorkPlaces, RowPlaces, keyed
  <2>5. ASSUME NEW p \in Procs, Insert(p) PROVE ~OnlyEnabled'
    BY <2>5, <2>1, <2>2, <2>3, <1>0 DEF Insert, Nobody, Goto, InsertValid, LockedBy,
       OnlyEnabled, WorkPlaces, RowPlaces, keyed
  <2>6. ASSUME NEW p \in Procs, Commit(p) PROVE ~OnlyEnabled'
    BY <2>6, <2>1, <2>2, <2>3, <1>0 DEF Commit, Nobody, Goto, OnlyEnabled, WorkPlaces,
       RowPlaces, keyed
  <2>7. ASSUME NEW p \in Procs, Resolve(p) \/ LoseAck(p) PROVE ~OnlyEnabled'
    BY <2>7, <2>1, <2>2, <2>3, <1>0 DEF Resolve, LoseAck, CanResolve, Goto, Nobody,
       OnlyEnabled, WorkPlaces, RowPlaces, keyed
  <2>8. ASSUME NEW p \in Procs, DeleteRow(p) \/ DropStarts(p) PROVE ~OnlyEnabled'
    BY <2>8, <2>1, <2>2, <2>3, <1>0 DEF DeleteRow, DropStarts, Nobody, NoRow, Goto,
       Leave, OnlyEnabled, WorkPlaces, RowPlaces, keyed
  <2>9. ASSUME NEW p \in Procs, NEW q \in Paths, Drop(p, q) PROVE ~OnlyEnabled'
    BY <2>9, <2>1, <2>2, <2>3, <1>0 DEF Drop, Leave, Goto, OnlyEnabled, WorkPlaces,
       RowPlaces, keyed
  <2>10. ASSUME NEW p \in Procs, ReadStart(p) \/ ReadDecides(p) PROVE ~OnlyEnabled'
    BY <2>10, <2>1, <2>2, <2>3, <1>0 DEF ReadStart, ReadDecides, Goto, NoLookup,
       Settled, Answer, NoRow, OnlyEnabled, WorkPlaces, RowPlaces, keyed
  <2>11. ASSUME NEW p \in Procs, NEW q \in Paths, LookupRow(p, q) \/ LookupState(p, q) \/
     LookupObject(p, q) \/ LookupAgain(p, q) \/ LookupReopen(p, q) PROVE ~OnlyEnabled'
    BY <2>11, <2>1, <2>2, <2>3, <1>0 DEF LookupRow, LookupState, LookupObject,
       LookupAgain, LookupReopen, Lookup, Settle, KeyedOutcome, StartOver, NoLookup,
       NoRow, OnlyEnabled, WorkPlaces, RowPlaces, keyed
  <2>12. ASSUME NEW p \in Procs, Verify(p) \/ ReadPolicy(p) \/ ReadRow(p) \/
     LookAtCompressed(p) \/ Publish(p) \/ Replace(p) PROVE ~OnlyEnabled'
    BY <2>12, <2>1, <2>2, <2>3, <1>0 DEF Verify, ReadPolicy, ReadRow, LookAtCompressed,
       Publish, Replace, Converts, Goto, Gives, FenceIsOff, Nobody, EnsureKey, Retry,
       Put, Leave, OnlyEnabled, WorkPlaces, RowPlaces, keyed
  <2>13. ASSUME NEW p \in Procs, Rename(p) \/ Recheck(p) \/ Finish(p) \/ Undo(p)
     \/ RemoveOriginal(p)
     \/ Mark(p) PROVE ~OnlyEnabled'
    BY <2>13, <2>1, <2>2, <2>3, <1>0 DEF Rename, Recheck, Finish, Undo, RemoveOriginal, Mark,
       Converts, Put, Goto, Gives, FenceIsOff, Nobody, MarkRow, Leave, OnlyEnabled,
       WorkPlaces, RowPlaces, keyed
  <2>14. ASSUME NEW p \in Procs, MigrationStarts(p) \/ ReadState(p) \/ ListRows(p) \/
     PassEnds(p) \/ MigrateKey(p) \/ MigrateObject(p) \/ Encrypt(p) \/ Overwrite(p) \/
     ReadBack(p) \/ MarkMigrated(p) \/ Checkpoint(p) PROVE ~OnlyEnabled'
    BY <2>14, <2>1, <2>2, <2>3, <1>0 DEF MigrationStarts, ReadState, ListRows, PassEnds,
       MigrateKey, MigrateObject, Encrypt, Overwrite, ReadBack, MarkMigrated,
       Checkpoint, Works, Goto, Pending, Nobody, NothingPending, Leave, EnsureKey,
       NextPath, Put, MarkRow, OnlyEnabled, WorkPlaces, RowPlaces, keyed
  <2>15. ASSUME NEW p \in Procs, InventoryState(p) \/ ListObjects(p) \/ Weigh(p) \/
     Sweep(p) \/ InventoryEnds(p) PROVE ~OnlyEnabled'
    BY <2>15, <2>1, <2>2, <2>3, <1>0 DEF InventoryState, ListObjects, Weigh, Sweep,
       InventoryEnds, Works, Goto, Leave, Nobody, OnlyEnabled, WorkPlaces, RowPlaces,
       keyed
  <2>16. ASSUME NEW p \in Procs, NEW q \in Paths, CheckOwner(p, q) PROVE ~OnlyEnabled'
    BY <2>16, <2>1, <2>2, <2>3, <1>0 DEF CheckOwner, Works, Goto, Owned, OnlyEnabled,
       WorkPlaces, RowPlaces, keyed
  <2>17. ASSUME NEW p \in Procs, Crash(p) PROVE ~OnlyEnabled'
    BY <2>17, <2>1, <2>2, <2>3, <1>0, EntryAre DEF Crash, Leave, NoLookup, Goto, NoRow,
       OnlyEnabled, WorkPlaces, RowPlaces, keyed, Roles
  <2>18. ASSUME UNCHANGED vars PROVE ~OnlyEnabled'
    BY <2>18, <2>2, <1>0 DEF vars, bytesVars, procVars, OnlyEnabled, keyed
  <2>19. ASSUME NEW p \in Procs, Upload(p) PROVE ~OnlyEnabled'
    BY <2>19, <2>4, <2>5, <2>6, <2>7 DEF Upload
  <2>20. ASSUME NEW p \in Procs, Delete(p) PROVE ~OnlyEnabled'
    BY <2>20, <2>8, <2>9 DEF Delete
  <2>21. ASSUME NEW p \in Procs, Read(p) PROVE ~OnlyEnabled'
    BY <2>21, <2>10, <2>11 DEF Read
  <2>22. ASSUME NEW p \in Procs, Convert(p) PROVE ~OnlyEnabled'
    BY <2>22, <2>12, <2>13 DEF Convert
  <2>23. ASSUME NEW p \in Procs, Migrate(p) PROVE ~OnlyEnabled'
    BY <2>23, <2>14 DEF Migrate
  <2>24. ASSUME NEW p \in Procs, Inventory(p) PROVE ~OnlyEnabled'
    BY <2>24, <2>15, <2>16 DEF Inventory
  <2>25. ~OnlyEnabled'
    BY <1>3, <2>18, <2>19, <2>20, <2>21, <2>22, <2>23, <2>24, <2>7, <2>17 DEF Next, Proceed
  <2>26. QED
    BY <2>1, <2>25 DEF Activation
<1>4. QED
  BY <1>1, <1>2, <1>3

(* The row is committed, deleted, or gains its key and its mark.           *)
RowGrows ==
    /\ row.is = "live" /\ row'.is = "live" /\ (row.key => row'.key) /\ (row.enc => row'.enc)
    /\ row'.enc => row.enc \/ (file' = file /\ \E p \in Procs : at[p] \in {"mark", "marking"})

(* A row once listed keeps its key and its mark until it is deleted.       *)
LEMMA RowStep ==
    ASSUME TypeInv, [Next]_vars
    PROVE  row' = row \/ RowGrows \/ \E p \in Procs : Commit(p) \/ DeleteRow(p)
<1>0. row \in [is : {"none", "live", "gone"}, key : BOOLEAN, enc : BOOLEAN]
  BY DEF TypeInv, TypeOK
<1>1. ASSUME NEW p \in Procs, UploadPut(p) \/ UploadFence(p) \/ Discard(p) \/ Insert(p) \/
   Resolve(p) \/ LoseAck(p) PROVE row' = row \/ RowGrows \/ Commit(p) \/ DeleteRow(p)
  BY <1>1 DEF UploadPut, UploadFence, Discard, Insert, Resolve, LoseAck, Put, Leave,
     Nobody
<1>2. ASSUME NEW p \in Procs, Commit(p) \/ DeleteRow(p)
     PROVE  row' = row \/ RowGrows \/ Commit(p) \/ DeleteRow(p)
  BY <1>2
<1>3. ASSUME NEW p \in Procs, DropStarts(p) PROVE row' = row \/ RowGrows \/ Commit(p) \/
   DeleteRow(p)
  BY <1>3 DEF DropStarts, Leave
<1>4. ASSUME NEW p \in Procs, NEW q \in Paths, Drop(p, q) PROVE row' = row \/ RowGrows \/
   Commit(p) \/ DeleteRow(p)
  BY <1>4 DEF Drop, Leave
<1>5. ASSUME NEW p \in Procs, ReadStart(p) \/ ReadDecides(p) PROVE row' = row \/ RowGrows \/
   Commit(p) \/ DeleteRow(p)
  BY <1>5 DEF ReadStart, ReadDecides, NoLookup, Answer
<1>6. ASSUME NEW p \in Procs, NEW q \in Paths, LookupRow(p, q) \/ LookupState(p, q) \/
   LookupObject(p, q) \/ LookupAgain(p, q) \/ LookupReopen(p, q) PROVE row' = row \/
   RowGrows \/ Commit(p) \/ DeleteRow(p)
  BY <1>6 DEF LookupRow, LookupState, LookupObject, LookupAgain, LookupReopen, Lookup,
     Settle, KeyedOutcome, StartOver, NoLookup
<1>7. ASSUME NEW p \in Procs, Verify(p) \/ ReadPolicy(p) \/ LookAtCompressed(p) \/
   Publish(p) \/ Replace(p) \/ Rename(p) \/ Recheck(p) \/ Finish(p) \/ Undo(p)
     \/ RemoveOriginal(p)
   PROVE row' = row \/ RowGrows \/ Commit(p) \/ DeleteRow(p)
  BY <1>7 DEF Verify, ReadPolicy, LookAtCompressed, Publish, Replace, Rename, Recheck,
     Finish, Undo, RemoveOriginal, Converts, Gives, Retry, Put, Leave
<1>8. ASSUME NEW p \in Procs, ReadRow(p) PROVE row' = row \/ RowGrows \/ Commit(p) \/
   DeleteRow(p)
  BY <1>8, <1>0 DEF ReadRow, Converts, Nobody, EnsureKey, Gives, Leave, RowGrows,
     bytesVars, Works
<1>9. ASSUME NEW p \in Procs, Mark(p) PROVE row' = row \/ RowGrows \/ Commit(p) \/
   DeleteRow(p)
  BY <1>9, <1>0 DEF Mark, Converts, Nobody, MarkRow, Gives, Leave, RowGrows, bytesVars,
     Works
<1>10. ASSUME NEW p \in Procs, MigrationStarts(p) \/ ReadState(p) \/ ListRows(p) \/
   PassEnds(p) \/ MigrateObject(p) \/ Encrypt(p) \/ Overwrite(p) \/ ReadBack(p) \/
   Checkpoint(p) PROVE row' = row \/ RowGrows \/ Commit(p) \/ DeleteRow(p)
  BY <1>10 DEF MigrationStarts, ReadState, ListRows, PassEnds, MigrateObject, Encrypt,
     Overwrite, ReadBack, Checkpoint, Works, Pending, Nobody, NothingPending, Leave,
     NextPath, Put
<1>11. ASSUME NEW p \in Procs, MigrateKey(p) PROVE row' = row \/ RowGrows \/ Commit(p) \/
   DeleteRow(p)
  BY <1>11, <1>0 DEF MigrateKey, Works, Nobody, EnsureKey, Pending, RowGrows, bytesVars,
     Converts
<1>12. ASSUME NEW p \in Procs, MarkMigrated(p) PROVE row' = row \/ RowGrows \/ Commit(p) \/
   DeleteRow(p)
  BY <1>12, <1>0 DEF MarkMigrated, Works, Nobody, MarkRow, RowGrows, bytesVars, Converts
<1>13. ASSUME NEW p \in Procs, InventoryState(p) \/ ListObjects(p) \/ Weigh(p) \/ Sweep(p)
   \/ InventoryEnds(p) PROVE row' = row \/ RowGrows \/ Commit(p) \/ DeleteRow(p)
  BY <1>13 DEF InventoryState, ListObjects, Weigh, Sweep, InventoryEnds, Works, Leave,
     Nobody
<1>14. ASSUME NEW p \in Procs, NEW q \in Paths, CheckOwner(p, q) PROVE row' = row \/
   RowGrows \/ Commit(p) \/ DeleteRow(p)
  BY <1>14 DEF CheckOwner, Works, Owned
<1>15. ASSUME NEW p \in Procs, Crash(p) PROVE row' = row \/ RowGrows \/ Commit(p) \/
   DeleteRow(p)
  BY <1>15 DEF Crash, Leave, NoLookup
<1>16. CASE Activate \/ UNCHANGED vars
  BY <1>16 DEF Activate, vars, bytesVars, procVars
<1>17. ASSUME NEW p \in Procs, Upload(p) PROVE row' = row \/ RowGrows \/ Commit(p) \/
   DeleteRow(p)
  BY <1>17, <1>1, <1>2 DEF Upload
<1>18. ASSUME NEW p \in Procs, Delete(p) PROVE row' = row \/ RowGrows \/ Commit(p) \/
   DeleteRow(p)
  BY <1>18, <1>2, <1>3, <1>4 DEF Delete
<1>19. ASSUME NEW p \in Procs, Read(p) PROVE row' = row \/ RowGrows \/ Commit(p) \/
   DeleteRow(p)
  BY <1>19, <1>5, <1>6 DEF Read
<1>20. ASSUME NEW p \in Procs, Convert(p) PROVE row' = row \/ RowGrows \/ Commit(p) \/
   DeleteRow(p)
  BY <1>20, <1>7, <1>8, <1>9 DEF Convert
<1>21. ASSUME NEW p \in Procs, Migrate(p) PROVE row' = row \/ RowGrows \/ Commit(p) \/
   DeleteRow(p)
  BY <1>21, <1>10, <1>11, <1>12 DEF Migrate
<1>22. ASSUME NEW p \in Procs, Inventory(p) PROVE row' = row \/ RowGrows \/ Commit(p) \/
   DeleteRow(p)
  BY <1>22, <1>13, <1>14 DEF Inventory
<1>23. QED
  BY <1>16, <1>17, <1>18, <1>19, <1>20, <1>21, <1>22, <1>1, <1>15 DEF Next, Proceed

(* One upload, and what it does alone.                                     *)
LEMMA OneUpload ==
    ASSUME TypeInv, NEW p \in Procs, NEW s \in Procs,
           at[p] \in UploadPlaces, at[s] \in UploadPlaces
    PROVE  p = s
BY RoleOfPlace, ScenarioFacts DEF TypeInv

(* Every step keeps to the life of the row: the upload commits it, and     *)
(* only then is it read, converted, migrated or deleted.                   *)
LEMMA RowLifeStep == ASSUME TypeInv, RowLife, [Next]_vars PROVE RowLife'
<1>0. /\ sc' = sc /\ lock \in Procs \union {Nobody} /\ Nobody \notin Procs
      /\ at \in [Procs -> UNION {Places[r] : r \in Roles}]
      /\ row \in [is : {"none", "live", "gone"}, key : BOOLEAN, enc : BOOLEAN]
  BY ScenarioIsFixed, ScenarioFacts DEF TypeInv, TypeOK, Shapes
<1>u. \A p, s \in Procs : at[p] \in UploadPlaces /\ at[s] \in UploadPlaces => p = s
  BY OneUpload
<1>r. \A p \in Procs : at[p] \in UploadPlaces => sc.role[p] = "upload"
  BY RoleOfPlace
<1>1. ASSUME NEW p \in Procs, UploadPut(p) \/ UploadFence(p) \/ Discard(p) PROVE RowLife'
  BY <1>1, <1>0, <1>u, <1>r DEF UploadPut, UploadFence, Discard, Put, Goto, Leave,
     RowLife, RowIsOver, UploadPlaces, DropPlaces, ConvertPlaces, RowPlaces
<1>2. ASSUME NEW p \in Procs, Insert(p) PROVE RowLife'
  BY <1>2, <1>0, <1>u, <1>r DEF Insert, Nobody, Goto, LockedBy, RowLife, RowIsOver,
     UploadPlaces, DropPlaces, ConvertPlaces, RowPlaces
<1>3. ASSUME NEW p \in Procs, Commit(p) PROVE RowLife'
  BY <1>3, <1>0, <1>u, <1>r DEF Commit, Nobody, Goto, RowLife, RowIsOver, UploadPlaces,
     DropPlaces, ConvertPlaces, RowPlaces
<1>4. ASSUME NEW p \in Procs, Resolve(p) PROVE RowLife'
  BY <1>4, <1>0, <1>u, <1>r DEF Resolve, CanResolve, Goto, Nobody, RowLife, RowIsOver,
     UploadPlaces, DropPlaces, ConvertPlaces, RowPlaces
<1>5. ASSUME NEW p \in Procs, LoseAck(p) PROVE RowLife'
  BY <1>5, <1>0, <1>u, <1>r DEF LoseAck, Goto, RowLife, RowIsOver, UploadPlaces,
     DropPlaces, ConvertPlaces, RowPlaces
<1>6. ASSUME NEW p \in Procs, DeleteRow(p) PROVE RowLife'
  BY <1>6, <1>0, <1>u, <1>r DEF DeleteRow, Nobody, NoRow, Goto, RowLife, RowIsOver,
     UploadPlaces, DropPlaces, ConvertPlaces, RowPlaces
<1>7. ASSUME NEW p \in Procs, DropStarts(p) PROVE RowLife'
  BY <1>7, <1>0, <1>u, <1>r DEF DropStarts, Goto, Leave, RowLife, RowIsOver, UploadPlaces,
     DropPlaces, ConvertPlaces, RowPlaces
<1>8. ASSUME NEW p \in Procs, NEW q \in Paths, Drop(p, q) PROVE RowLife'
  BY <1>8, <1>0, <1>u, <1>r DEF Drop, Leave, Goto, RowLife, RowIsOver, UploadPlaces,
     DropPlaces, ConvertPlaces, RowPlaces
<1>9. ASSUME NEW p \in Procs, ReadStart(p) PROVE RowLife'
  BY <1>9, <1>0, <1>u, <1>r DEF ReadStart, Goto, NoLookup, NoRow, RowLife, RowIsOver,
     UploadPlaces, DropPlaces, ConvertPlaces, RowPlaces
<1>10. ASSUME NEW p \in Procs, ReadDecides(p) PROVE RowLife'
  BY <1>10, <1>0, <1>u, <1>r DEF ReadDecides, Settled, Goto, Answer, NoLookup, NoRow,
     RowLife, RowIsOver, UploadPlaces, DropPlaces, ConvertPlaces, RowPlaces
<1>11. ASSUME NEW p \in Procs, NEW q \in Paths, LookupRow(p, q) \/ LookupState(p, q) \/
   LookupObject(p, q) \/ LookupAgain(p, q) \/ LookupReopen(p, q) PROVE RowLife'
  BY <1>11, <1>0, <1>u, <1>r DEF LookupRow, LookupState, LookupObject, LookupAgain,
     LookupReopen, Lookup, Settle, KeyedOutcome, StartOver, NoLookup, NoRow, RowLife,
     RowIsOver, UploadPlaces, DropPlaces, ConvertPlaces, RowPlaces
<1>12. ASSUME NEW p \in Procs, Verify(p) \/ ReadPolicy(p) \/ ReadRow(p) \/
   LookAtCompressed(p) \/ Publish(p) PROVE RowLife'
  BY <1>12, <1>0, <1>u, <1>r DEF Verify, ReadPolicy, ReadRow, LookAtCompressed, Publish,
     Converts, Goto, Gives, Nobody, EnsureKey, Retry, Put, Leave, RowLife, RowIsOver,
     UploadPlaces, DropPlaces, ConvertPlaces, RowPlaces
<1>13. ASSUME NEW p \in Procs, Replace(p) \/ Rename(p) \/ Recheck(p) \/ Finish(p) \/ Undo(p) \/
   RemoveOriginal(p) \/ Mark(p) PROVE RowLife'
  BY <1>13, <1>0, <1>u, <1>r DEF Replace, Rename, Recheck, Finish, Undo, RemoveOriginal, Mark,
     Converts, Goto, Retry, Put, Gives, Nobody, MarkRow, Leave, RowLife, RowIsOver,
     UploadPlaces, DropPlaces, ConvertPlaces, RowPlaces
<1>14. ASSUME NEW p \in Procs, MigrationStarts(p) \/ ReadState(p) \/ ListRows(p) \/
   PassEnds(p) \/ MigrateKey(p) PROVE RowLife'
  BY <1>14, <1>0, <1>u, <1>r DEF MigrationStarts, ReadState, ListRows, PassEnds,
     MigrateKey, Works, Goto, Pending, Nobody, NothingPending, Leave, EnsureKey, RowLife,
     RowIsOver, UploadPlaces, DropPlaces, ConvertPlaces, RowPlaces
<1>15. ASSUME NEW p \in Procs, MigrateObject(p) \/ Encrypt(p) \/ Overwrite(p) \/ ReadBack(p)
   \/ MarkMigrated(p) \/ Checkpoint(p) PROVE RowLife'
  BY <1>15, <1>0, <1>u, <1>r DEF MigrateObject, Encrypt, Overwrite, ReadBack,
     MarkMigrated, Checkpoint, Works, Goto, NextPath, Put, Nobody, MarkRow, Leave,
     RowLife, RowIsOver, UploadPlaces, DropPlaces, ConvertPlaces, RowPlaces
<1>16. ASSUME NEW p \in Procs, InventoryState(p) \/ ListObjects(p) \/ Weigh(p) \/ Sweep(p)
   \/ InventoryEnds(p) PROVE RowLife'
  BY <1>16, <1>0, <1>u, <1>r DEF InventoryState, ListObjects, Weigh, Sweep, InventoryEnds,
     Works, Goto, Leave, Nobody, RowLife, RowIsOver, UploadPlaces, DropPlaces,
     ConvertPlaces, RowPlaces
<1>17. ASSUME NEW p \in Procs, NEW q \in Paths, CheckOwner(p, q) PROVE RowLife'
  BY <1>17, <1>0, <1>u, <1>r DEF CheckOwner, Works, Goto, Owned, RowLife, RowIsOver,
     UploadPlaces, DropPlaces, ConvertPlaces, RowPlaces
<1>18. ASSUME NEW p \in Procs, Crash(p) PROVE RowLife'
  BY <1>18, <1>0, <1>u, <1>r DEF Crash, Leave, NoLookup, Goto, NoRow, RowLife, RowIsOver,
     UploadPlaces, DropPlaces, ConvertPlaces, RowPlaces
<1>19. CASE Activate \/ UNCHANGED vars
  BY <1>19, <1>0 DEF Activate, vars, bytesVars, procVars, RowLife, RowIsOver
<1>20. ASSUME NEW p \in Procs, Upload(p) PROVE RowLife'
  BY <1>20, <1>1, <1>2, <1>3, <1>4 DEF Upload
<1>21. ASSUME NEW p \in Procs, Delete(p) PROVE RowLife'
  BY <1>21, <1>6, <1>7, <1>8 DEF Delete
<1>22. ASSUME NEW p \in Procs, Read(p) PROVE RowLife'
  BY <1>22, <1>9, <1>10, <1>11 DEF Read
<1>23. ASSUME NEW p \in Procs, Convert(p) PROVE RowLife'
  BY <1>23, <1>12, <1>13 DEF Convert
<1>24. ASSUME NEW p \in Procs, Migrate(p) PROVE RowLife'
  BY <1>24, <1>14, <1>15 DEF Migrate
<1>25. ASSUME NEW p \in Procs, Inventory(p) PROVE RowLife'
  BY <1>25, <1>16, <1>17 DEF Inventory
<1>26. QED
  BY <1>19, <1>20, <1>21, <1>22, <1>23, <1>24, <1>25, <1>5, <1>18 DEF Next, Proceed

(* The inventory never comes to sweep ciphertext.                          *)
LEMMA SweptStep == ASSUME TypeInv, OnlyPlainIsSwept, [Next]_vars PROVE OnlyPlainIsSwept'
<1>0. /\ at \in [Procs -> UNION {Places[r] : r \in Roles}] /\ file \in [Paths -> Objects]
      /\ loc \in [Procs -> Variables]
  BY DEF TypeInv, TypeOK, Shapes, Objects, Variables
<1>1. ASSUME NEW p \in Procs, UploadPut(p) \/ UploadFence(p) \/ Discard(p) PROVE
   OnlyPlainIsSwept'
  BY <1>1, <1>0 DEF UploadPut, UploadFence, Discard, Put, Goto, Leave, Keep,
     OnlyPlainIsSwept
<1>2. ASSUME NEW p \in Procs, Insert(p) \/ Commit(p) \/ Resolve(p) \/ LoseAck(p) PROVE
   OnlyPlainIsSwept'
  BY <1>2, <1>0 DEF Insert, Commit, Resolve, LoseAck, Goto, OnlyPlainIsSwept
<1>3. ASSUME NEW p \in Procs, DeleteRow(p) \/ DropStarts(p) PROVE OnlyPlainIsSwept'
  BY <1>3, <1>0 DEF DeleteRow, DropStarts, Goto, Keep, Leave, OnlyPlainIsSwept
<1>4. ASSUME NEW p \in Procs, NEW q \in Paths, Drop(p, q) PROVE OnlyPlainIsSwept'
  BY <1>4, <1>0 DEF Drop, Leave, Keep, Goto, OnlyPlainIsSwept
<1>5. ASSUME NEW p \in Procs, ReadStart(p) \/ ReadDecides(p) PROVE OnlyPlainIsSwept'
  BY <1>5, <1>0 DEF ReadStart, ReadDecides, Goto, NoLookup, Settled, Answer,
     OnlyPlainIsSwept
<1>6. ASSUME NEW p \in Procs, NEW q \in Paths, LookupRow(p, q) \/ LookupState(p, q) \/
   LookupObject(p, q) \/ LookupAgain(p, q) \/ LookupReopen(p, q) PROVE OnlyPlainIsSwept'
  BY <1>6, <1>0 DEF LookupRow, LookupState, LookupObject, LookupAgain, LookupReopen,
     Lookup, Settle, KeyedOutcome, StartOver, NoLookup, OnlyPlainIsSwept
<1>7. ASSUME NEW p \in Procs, Verify(p) \/ ReadPolicy(p) \/ ReadRow(p) \/
   LookAtCompressed(p) \/ Publish(p) PROVE OnlyPlainIsSwept'
  BY <1>7, <1>0 DEF Verify, ReadPolicy, ReadRow, LookAtCompressed, Publish, Converts,
     Goto, Gives, Retry, Keep, Put, Leave, OnlyPlainIsSwept
<1>8. ASSUME NEW p \in Procs, Replace(p) \/ Rename(p) \/ Recheck(p) \/ Finish(p) \/ Undo(p) \/
   RemoveOriginal(p) \/ Mark(p) PROVE OnlyPlainIsSwept'
  BY <1>8, <1>0 DEF Replace, Rename, Recheck, Finish, Undo, RemoveOriginal, Mark, Converts,
     Goto, Retry, Put, Gives, Keep, Leave, OnlyPlainIsSwept
<1>9. ASSUME NEW p \in Procs, MigrationStarts(p) \/ ReadState(p) \/ ListRows(p) \/
   PassEnds(p) \/ MigrateKey(p) PROVE OnlyPlainIsSwept'
  BY <1>9, <1>0 DEF MigrationStarts, ReadState, ListRows, PassEnds, MigrateKey, Works,
     Goto, Keep, Leave, OnlyPlainIsSwept
<1>10. ASSUME NEW p \in Procs, MigrateObject(p) \/ Encrypt(p) \/ Overwrite(p) \/ ReadBack(p)
   \/ MarkMigrated(p) \/ Checkpoint(p) PROVE OnlyPlainIsSwept'
  BY <1>10, <1>0 DEF MigrateObject, Encrypt, Overwrite, ReadBack, MarkMigrated,
     Checkpoint, Works, Goto, Keep, NextPath, Put, Leave, OnlyPlainIsSwept
<1>11. ASSUME NEW p \in Procs, InventoryState(p) \/ ListObjects(p) \/ Sweep(p) \/
   InventoryEnds(p) PROVE OnlyPlainIsSwept'
  BY <1>11, <1>0 DEF InventoryState, ListObjects, Sweep, InventoryEnds, Works, Goto, Keep,
     Leave, OnlyPlainIsSwept
<1>12. ASSUME NEW p \in Procs, Weigh(p) PROVE OnlyPlainIsSwept'
  <2>1. loc[p].path \in Paths
    BY <1>0 DEF Variables
  <2>2. file[loc[p].path].form \in {"none", "plain", "cipher"}
    BY <1>0, <2>1 DEF Objects, Forms
  <2>3. QED
    BY <1>12, <1>0, <2>2 DEF Weigh, Works, Goto, Keep, There, LooksEncrypted, Variables,
       OnlyPlainIsSwept
<1>13. ASSUME NEW p \in Procs, NEW q \in Paths, CheckOwner(p, q) PROVE OnlyPlainIsSwept'
  BY <1>13, <1>0 DEF CheckOwner, Works, Goto, Keep, OnlyPlainIsSwept
<1>14. ASSUME NEW p \in Procs, Crash(p) PROVE OnlyPlainIsSwept'
  BY <1>14, <1>0 DEF Crash, Leave, NoLookup, Goto, Keep, OnlyPlainIsSwept
<1>15. CASE Activate \/ UNCHANGED vars
  BY <1>15, <1>0 DEF Activate, vars, bytesVars, procVars, OnlyPlainIsSwept
<1>16. ASSUME NEW p \in Procs, Upload(p) PROVE OnlyPlainIsSwept'
  BY <1>16, <1>1, <1>2 DEF Upload
<1>17. ASSUME NEW p \in Procs, Delete(p) PROVE OnlyPlainIsSwept'
  BY <1>17, <1>3, <1>4 DEF Delete
<1>18. ASSUME NEW p \in Procs, Read(p) PROVE OnlyPlainIsSwept'
  BY <1>18, <1>5, <1>6 DEF Read
<1>19. ASSUME NEW p \in Procs, Convert(p) PROVE OnlyPlainIsSwept'
  BY <1>19, <1>7, <1>8 DEF Convert
<1>20. ASSUME NEW p \in Procs, Migrate(p) PROVE OnlyPlainIsSwept'
  BY <1>20, <1>9, <1>10 DEF Migrate
<1>21. ASSUME NEW p \in Procs, Inventory(p) PROVE OnlyPlainIsSwept'
  BY <1>21, <1>11, <1>12, <1>13 DEF Inventory
<1>22. QED
  BY <1>15, <1>16, <1>17, <1>18, <1>19, <1>20, <1>21, <1>2, <1>14 DEF Next, Proceed

(* No step gives an uploaded report an original.                           *)
LEMMA NoOriginalStep == ASSUME TypeInv, NoOriginal, [Next]_vars PROVE NoOriginal'
<1> SUFFICES ASSUME OriginalIsOut, NoConversion, NoneRead
             PROVE  OriginalIsOut' /\ NoConversion' /\ NoneRead'
  BY ScenarioIsFixed DEF NoOriginal
<1>0. /\ at \in [Procs -> UNION {Places[r] : r \in Roles}] /\ FilesTyped
      /\ loc \in [Procs -> Variables] /\ copy \in [Procs -> [Paths -> Looks]]
  BY DEF TypeInv, TypeOK, Shapes, FilesTyped, Objects, Variables
<1>n. file["orig"].form = "none" /\ "orig" \in Paths /\ "br" \in Paths
  BY DEF OriginalIsOut, There, Paths
<1>1. OriginalIsOut'
  <2>1. ASSUME NEW p \in Procs, UploadPut(p) \/ Discard(p) PROVE OriginalIsOut'
    BY <2>1, <1>0, <1>n, Written, Removed DEF UploadPut, Discard, Put, Remove, Leave,
       Write, OriginalIsOut, There, Forms
  <2>2. ASSUME NEW p \in Procs, UploadFence(p) \/ Insert(p) \/ Commit(p) \/ Resolve(p) \/
     LoseAck(p) PROVE OriginalIsOut'
    BY <2>2, <1>0, <1>n DEF UploadFence, Insert, Commit, Resolve, LoseAck, bytesVars,
       OriginalIsOut, There
  <2>3. ASSUME NEW p \in Procs, DeleteRow(p) \/ DropStarts(p) PROVE OriginalIsOut'
    BY <2>3, <1>0, <1>n DEF DeleteRow, DropStarts, bytesVars, Leave, OriginalIsOut,
       There
  <2>4. ASSUME NEW p \in Procs, NEW q \in Paths, Drop(p, q) PROVE OriginalIsOut'
    BY <2>4, <1>0, <1>n, Removed DEF Drop, Remove, Leave, OriginalIsOut, There
  <2>5. ASSUME NEW p \in Procs, ReadStart(p) \/ ReadDecides(p) PROVE OriginalIsOut'
    BY <2>5, <1>0, <1>n DEF ReadStart, ReadDecides, bytesVars, OriginalIsOut, There
  <2>6. ASSUME NEW p \in Procs, NEW q \in Paths, LookupRow(p, q) \/ LookupState(p, q) \/
     LookupObject(p, q) \/ LookupAgain(p, q) \/ LookupReopen(p, q) PROVE OriginalIsOut'
    BY <2>6, <1>0, <1>n DEF LookupRow, LookupState, LookupObject, LookupAgain,
       LookupReopen, Lookup, bytesVars, OriginalIsOut, There
  <2>7. ASSUME NEW p \in Procs, Verify(p) \/ ReadPolicy(p) \/ ReadRow(p) \/
     LookAtCompressed(p) \/ Publish(p) \/ Replace(p) \/ Rename(p) \/ Recheck(p) \/
     Finish(p) \/ Undo(p) \/ RemoveOriginal(p) \/ Mark(p) PROVE OriginalIsOut'
    BY <2>7, <1>0, <1>n DEF Verify, ReadPolicy, ReadRow, LookAtCompressed, Publish,
       Replace, Rename, Recheck, Finish, Undo, RemoveOriginal, Mark, Converts, Gives,
       bytesVars, Retry, CreateOnly, Put, Remove, Leave, There, Write, OriginalIsOut,
       NoConversion, ConvertPlaces
  <2>8. ASSUME NEW p \in Procs, MigrationStarts(p) \/ ReadState(p) \/ ListRows(p) \/
     PassEnds(p) \/ MigrateKey(p) \/ MarkMigrated(p) \/ Checkpoint(p) PROVE OriginalIsOut'
    BY <2>8, <1>0, <1>n DEF MigrationStarts, ReadState, ListRows, PassEnds, MigrateKey,
       MarkMigrated, Checkpoint, Works, bytesVars, Leave, OriginalIsOut, There
  <2>9. ASSUME NEW p \in Procs, MigrateObject(p) \/ Encrypt(p) \/ ReadBack(p) PROVE
     OriginalIsOut'
    BY <2>9, <1>0, <1>n DEF MigrateObject, Encrypt, ReadBack, Works, NextPath,
       bytesVars, OriginalIsOut, There
  <2>10. ASSUME NEW p \in Procs, Overwrite(p) PROVE OriginalIsOut'
    BY <2>10, <1>0, <1>n, Written DEF Overwrite, Works, Put, Write, OriginalIsOut,
       There, Forms, NoConversion
  <2>11. ASSUME NEW p \in Procs, InventoryState(p) \/ ListObjects(p) \/ InventoryEnds(p)
     \/ Weigh(p) PROVE OriginalIsOut'
    BY <2>11, <1>0, <1>n DEF InventoryState, ListObjects, InventoryEnds, Weigh, Works,
       bytesVars, There, Leave, OriginalIsOut
  <2>12. ASSUME NEW p \in Procs, Sweep(p) PROVE OriginalIsOut'
    BY <2>12, <1>0, <1>n, Removed DEF Sweep, Works, There, Remove, Leave, OriginalIsOut,
       Variables
  <2>13. ASSUME NEW p \in Procs, NEW q \in Paths, CheckOwner(p, q) PROVE OriginalIsOut'
    BY <2>13, <1>0, <1>n DEF CheckOwner, Works, bytesVars, OriginalIsOut, There
  <2>14. ASSUME NEW p \in Procs, Crash(p) PROVE OriginalIsOut'
    BY <2>14, <1>0, <1>n DEF Crash, Leave, bytesVars, OriginalIsOut, There
  <2>15. CASE Activate \/ UNCHANGED vars
    BY <2>15, <1>n DEF Activate, vars, bytesVars, procVars, OriginalIsOut, There
  <2>16. ASSUME NEW p \in Procs, Upload(p) PROVE OriginalIsOut'
    BY <2>16, <2>1, <2>2 DEF Upload
  <2>17. ASSUME NEW p \in Procs, Delete(p) PROVE OriginalIsOut'
    BY <2>17, <2>3, <2>4 DEF Delete
  <2>18. ASSUME NEW p \in Procs, Read(p) PROVE OriginalIsOut'
    BY <2>18, <2>5, <2>6 DEF Read
  <2>19. ASSUME NEW p \in Procs, Convert(p) PROVE OriginalIsOut'
    BY <2>19, <2>7 DEF Convert
  <2>20. ASSUME NEW p \in Procs, Migrate(p) PROVE OriginalIsOut'
    BY <2>20, <2>8, <2>9, <2>10 DEF Migrate
  <2>21. ASSUME NEW p \in Procs, Inventory(p) PROVE OriginalIsOut'
    BY <2>21, <2>11, <2>12, <2>13 DEF Inventory
  <2>22. QED
    BY <2>15, <2>16, <2>17, <2>18, <2>19, <2>20, <2>21, <2>2, <2>14 DEF Next, Proceed
<1>2. NoConversion'
  <2>1. ASSUME NEW p \in Procs, UploadPut(p) \/ UploadFence(p) \/ Discard(p) PROVE
     NoConversion'
    BY <2>1, <1>0 DEF UploadPut, UploadFence, Discard, Put, Goto, Leave, Keep,
       NoConversion, ConvertPlaces
  <2>2. ASSUME NEW p \in Procs, Insert(p) \/ Commit(p) \/ Resolve(p) \/ LoseAck(p) PROVE
     NoConversion'
    BY <2>2, <1>0 DEF Insert, Commit, Resolve, LoseAck, Goto, NoConversion,
       ConvertPlaces
  <2>3. ASSUME NEW p \in Procs, DeleteRow(p) \/ DropStarts(p) PROVE NoConversion'
    BY <2>3, <1>0 DEF DeleteRow, DropStarts, Goto, Keep, Leave, NoConversion,
       ConvertPlaces
  <2>4. ASSUME NEW p \in Procs, NEW q \in Paths, Drop(p, q) PROVE NoConversion'
    BY <2>4, <1>0 DEF Drop, Leave, Keep, Goto, NoConversion, ConvertPlaces
  <2>5. ASSUME NEW p \in Procs, ReadStart(p) PROVE NoConversion'
    BY <2>5, <1>0 DEF ReadStart, Goto, NoLookup, NoConversion, ConvertPlaces
  <2>6. ASSUME NEW p \in Procs, ReadDecides(p) PROVE NoConversion'
    BY <2>6, <1>0, <1>n DEF ReadDecides, Settled, Goto, Answer, NoLookup, NoConversion,
       ConvertPlaces, NoneRead
  <2>7. ASSUME NEW p \in Procs, NEW q \in Paths, LookupRow(p, q) \/ LookupState(p, q) \/
     LookupObject(p, q) \/ LookupAgain(p, q) \/ LookupReopen(p, q) PROVE NoConversion'
    BY <2>7, <1>0 DEF LookupRow, LookupState, LookupObject, LookupAgain, LookupReopen,
       Lookup, Settle, KeyedOutcome, StartOver, NoLookup, NoConversion, ConvertPlaces
  <2>8. ASSUME NEW p \in Procs, Verify(p) \/ ReadPolicy(p) \/ ReadRow(p) \/
     LookAtCompressed(p) \/ Publish(p) \/ Replace(p) \/ Rename(p) \/ Recheck(p) \/
     Finish(p) \/ Undo(p) \/ RemoveOriginal(p) \/ Mark(p) PROVE NoConversion'
    BY <2>8, <1>0 DEF Verify, ReadPolicy, ReadRow, LookAtCompressed, Publish, Replace,
       Rename, Recheck, Finish, Undo, RemoveOriginal, Mark, Converts, Goto, Gives, Retry,
       Keep, Put, Leave, NoConversion, ConvertPlaces
  <2>9. ASSUME NEW p \in Procs, MigrationStarts(p) \/ ReadState(p) \/ ListRows(p) \/
     PassEnds(p) \/ MigrateKey(p) \/ MarkMigrated(p) \/ Checkpoint(p) PROVE NoConversion'
    BY <2>9, <1>0 DEF MigrationStarts, ReadState, ListRows, PassEnds, MigrateKey,
       MarkMigrated, Checkpoint, Works, Goto, Keep, Leave, NoConversion, ConvertPlaces
  <2>10. ASSUME NEW p \in Procs, MigrateObject(p) PROVE NoConversion'
    <3>1. loc[p].path \in {"br", "orig"}
      BY <1>0 DEF Variables, Paths
    <3>2. file[loc[p].path].form = "plain" => loc[p].path = "br"
      BY <1>n, <3>1
    <3>3. QED
      BY <2>10, <1>0, <3>2 DEF MigrateObject, Works, NextPath, Goto, Keep, Variables,
         NoConversion, ConvertPlaces
  <2>11. ASSUME NEW p \in Procs, Encrypt(p) \/ Overwrite(p) \/ ReadBack(p) PROVE
     NoConversion'
    BY <2>11, <1>0 DEF Encrypt, Overwrite, ReadBack, Works, Goto, Put, NextPath, Keep,
       NoConversion, ConvertPlaces
  <2>12. ASSUME NEW p \in Procs, InventoryState(p) \/ ListObjects(p) \/ InventoryEnds(p)
     \/ Weigh(p) \/ Sweep(p) PROVE NoConversion'
    BY <2>12, <1>0 DEF InventoryState, ListObjects, InventoryEnds, Weigh, Sweep, Works,
       Goto, Keep, Leave, NoConversion, ConvertPlaces
  <2>13. ASSUME NEW p \in Procs, NEW q \in Paths, CheckOwner(p, q) PROVE NoConversion'
    BY <2>13, <1>0 DEF CheckOwner, Works, Goto, Keep, NoConversion, ConvertPlaces
  <2>14. ASSUME NEW p \in Procs, Crash(p) PROVE NoConversion'
    BY <2>14, <1>0 DEF Crash, Leave, NoLookup, Goto, Keep, NoConversion, ConvertPlaces
  <2>15. CASE Activate \/ UNCHANGED vars
    BY <2>15, <1>0 DEF Activate, vars, bytesVars, procVars, NoConversion
  <2>16. ASSUME NEW p \in Procs, Upload(p) PROVE NoConversion'
    BY <2>16, <2>1, <2>2 DEF Upload
  <2>17. ASSUME NEW p \in Procs, Delete(p) PROVE NoConversion'
    BY <2>17, <2>3, <2>4 DEF Delete
  <2>18. ASSUME NEW p \in Procs, Read(p) PROVE NoConversion'
    BY <2>18, <2>5, <2>6, <2>7 DEF Read
  <2>19. ASSUME NEW p \in Procs, Convert(p) PROVE NoConversion'
    BY <2>19, <2>8 DEF Convert
  <2>20. ASSUME NEW p \in Procs, Migrate(p) PROVE NoConversion'
    BY <2>20, <2>9, <2>10, <2>11 DEF Migrate
  <2>21. ASSUME NEW p \in Procs, Inventory(p) PROVE NoConversion'
    BY <2>21, <2>12, <2>13 DEF Inventory
  <2>22. QED
    BY <2>15, <2>16, <2>17, <2>18, <2>19, <2>20, <2>21, <2>2, <2>14 DEF Next, Proceed
<1>3. NoneRead'
  <2>1. ASSUME NEW p \in Procs, UploadPut(p) \/ UploadFence(p) \/ Discard(p) \/ Insert(p)
     \/ Commit(p) \/ Resolve(p) \/ LoseAck(p) PROVE NoneRead'
    BY <2>1, <1>0 DEF UploadPut, UploadFence, Discard, Insert, Commit, Resolve, LoseAck,
       Put, Leave, NoneRead
  <2>2. ASSUME NEW p \in Procs, DeleteRow(p) \/ DropStarts(p) PROVE NoneRead'
    BY <2>2, <1>0 DEF DeleteRow, DropStarts, Leave, NoneRead
  <2>3. ASSUME NEW p \in Procs, NEW q \in Paths, Drop(p, q) PROVE NoneRead'
    BY <2>3, <1>0 DEF Drop, Leave, NoneRead
  <2>4. ASSUME NEW p \in Procs, ReadStart(p) PROVE NoneRead'
    BY <2>4, <1>0, <1>n DEF ReadStart, NoLookup, NoneRead
  <2>5. ASSUME NEW p \in Procs, ReadDecides(p) PROVE NoneRead'
    BY <2>5, <1>0, <1>n DEF ReadDecides, Answer, NoLookup, NoneRead
  <2>6. ASSUME NEW p \in Procs, NEW q \in Paths, LookupRow(p, q) PROVE NoneRead'
    <3>1. Settle("null").at = "null"
      BY DEF Settle, NoLookup
    <3>2. copy[p][q] \in Looks
      BY <1>0
    <3>3. [copy[p][q] EXCEPT !.row = row, !.at = IF row.enc THEN "object" ELSE "state"].at
             \in {"object", "state"}
      BY <3>2 DEF Looks
    <3>4. QED
      BY <2>6, <1>0, <3>1, <3>3 DEF LookupRow, Lookup, NoneRead
  <2>7. ASSUME NEW p \in Procs, NEW q \in Paths, LookupState(p, q) PROVE NoneRead'
    BY <2>7, <1>0 DEF LookupState, Lookup, NoneRead
  <2>8. ASSUME NEW p \in Procs, NEW q \in Paths, LookupObject(p, q) PROVE NoneRead'
    <3>1. q = "orig" => KeyedOutcome(copy[p][q], file[q]) = Settle("null")
                        /\ KeylessOutcome(file[q]) = "null"
      BY <1>n DEF KeyedOutcome, KeylessOutcome, LooksEncrypted
    <3>2. Settle("null").at = "null"
      BY DEF Settle, NoLookup
    <3>3. QED
      BY <2>8, <1>0, <3>1, <3>2 DEF LookupObject, Lookup, NoneRead
  <2>9. ASSUME NEW p \in Procs, NEW q \in Paths, LookupAgain(p, q) PROVE NoneRead'
    BY <2>9, <1>0 DEF LookupAgain, Lookup, NoneRead
  <2>10. ASSUME NEW p \in Procs, NEW q \in Paths, LookupReopen(p, q) PROVE NoneRead'
    BY <2>10, <1>0 DEF LookupReopen, Lookup, NoneRead
  <2>11. ASSUME NEW p \in Procs, Verify(p) \/ ReadPolicy(p) \/ ReadRow(p) \/
     LookAtCompressed(p) \/ Publish(p) \/ Replace(p) \/ Rename(p) \/ Recheck(p) \/
     Finish(p) \/ Undo(p) \/ RemoveOriginal(p) \/ Mark(p) PROVE NoneRead'
    BY <2>11, <1>0 DEF Verify, ReadPolicy, ReadRow, LookAtCompressed, Publish, Replace,
       Rename, Recheck, Finish, Undo, RemoveOriginal, Mark, Converts, Gives, Retry, Put,
       Leave, NoneRead
  <2>12. ASSUME NEW p \in Procs, MigrationStarts(p) \/ ReadState(p) \/ ListRows(p) \/
     PassEnds(p) \/ MigrateKey(p) \/ MigrateObject(p) \/ Encrypt(p) \/ Overwrite(p) \/
     ReadBack(p) \/ MarkMigrated(p) \/ Checkpoint(p) PROVE NoneRead'
    BY <2>12, <1>0 DEF MigrationStarts, ReadState, ListRows, PassEnds, MigrateKey,
       MigrateObject, Encrypt, Overwrite, ReadBack, MarkMigrated, Checkpoint, Works,
       Leave, NextPath, Put, NoneRead
  <2>13. ASSUME NEW p \in Procs, InventoryState(p) \/ ListObjects(p) \/ InventoryEnds(p)
     \/ Weigh(p) \/ Sweep(p) PROVE NoneRead'
    BY <2>13, <1>0 DEF InventoryState, ListObjects, InventoryEnds, Weigh, Sweep, Works,
       Leave, NoneRead
  <2>14. ASSUME NEW p \in Procs, NEW q \in Paths, CheckOwner(p, q) PROVE NoneRead'
    BY <2>14, <1>0 DEF CheckOwner, Works, NoneRead
  <2>15. ASSUME NEW p \in Procs, Crash(p) PROVE NoneRead'
    BY <2>15, <1>0, <1>n DEF Crash, Leave, NoLookup, NoneRead
  <2>16. CASE Activate \/ UNCHANGED vars
    BY <2>16, <1>0 DEF Activate, vars, bytesVars, procVars, NoneRead
  <2>17. ASSUME NEW p \in Procs, Upload(p) PROVE NoneRead'
    BY <2>17, <2>1 DEF Upload
  <2>18. ASSUME NEW p \in Procs, Delete(p) PROVE NoneRead'
    BY <2>18, <2>2, <2>3 DEF Delete
  <2>19. ASSUME NEW p \in Procs, Read(p) PROVE NoneRead'
    BY <2>19, <2>4, <2>5, <2>6, <2>7, <2>8, <2>9, <2>10 DEF Read
  <2>20. ASSUME NEW p \in Procs, Convert(p) PROVE NoneRead'
    BY <2>20, <2>11 DEF Convert
  <2>21. ASSUME NEW p \in Procs, Migrate(p) PROVE NoneRead'
    BY <2>21, <2>12 DEF Migrate
  <2>22. ASSUME NEW p \in Procs, Inventory(p) PROVE NoneRead'
    BY <2>22, <2>13, <2>14 DEF Inventory
  <2>23. QED
    BY <2>16, <2>17, <2>18, <2>19, <2>20, <2>21, <2>22, <2>1, <2>15 DEF Next, Proceed
<1>4. QED
  BY <1>1, <1>2, <1>3

(* While an upload is on its way to its commit nobody else handles bytes.  *)
LEMMA UploadIsAlone ==
    ASSUME TypeInv, RowLife,
           lock # Nobody \/ \E p \in Procs : at[p] \in {"fence", "insert"}
    PROVE  \A p \in Procs : at[p] \notin ConvertPlaces \union RowPlaces \union DropPlaces
BY ScenarioFacts DEF TypeInv, TypeOK, RowLife, RowIsOver, ConvertPlaces, RowPlaces, DropPlaces

(* Nobody takes the bytes of an upload under way to its commit.            *)
LEMMA UploadBytesStep ==
    ASSUME TypeInv, Activation, RowLife, OnlyPlainIsSwept, UploadHasBytes, [Next]_vars
    PROVE  UploadHasBytes'
<1>0. /\ sc' = sc /\ lock \in Procs \union {Nobody} /\ Nobody \notin Procs
      /\ at \in [Procs -> UNION {Places[r] : r \in Roles}] /\ FilesTyped
      /\ loc \in [Procs -> Variables]
      /\ policy \in [enabled : BOOLEAN, cursor : {"start", "row"}, complete : BOOLEAN,
                     cleaned : BOOLEAN]
      /\ sc.role \in [Procs -> Roles] /\ sc.keyed \in [Procs -> BOOLEAN]
  BY ScenarioIsFixed, ScenarioFacts
  DEF TypeInv, TypeOK, Shapes, FilesTyped, Objects, Variables
<1>u. \A p, s \in Procs : at[p] \in UploadPlaces /\ at[s] \in UploadPlaces => p = s
  BY OneUpload
<1>a. lock # Nobody \/ (\E p \in Procs : at[p] \in {"fence", "insert"})
      => \A p \in Procs : at[p] \notin ConvertPlaces \union RowPlaces \union DropPlaces
  BY UploadIsAlone
<1>l. \A p \in Procs : at[p] \in {"put", "fence", "insert", "discard"} => lock = Nobody
  BY DEF RowLife
<1>r. \A p \in Procs : at[p] = "insert" => sc.role[p] = "upload"
  BY RoleOfPlace DEF UploadPlaces
<1>b. "br" \in Paths
  BY DEF Paths
<1>1. ASSUME NEW p \in Procs, UploadPut(p) PROVE UploadHasBytes'
  BY <1>1, <1>0, <1>a, <1>u, <1>l, <1>b, Written DEF UploadPut, Put, Goto, Write,
     UploadHasBytes, Own, InsertValid, keyed, UploadPlaces, Forms
<1>2. ASSUME NEW p \in Procs, UploadFence(p) \/ Discard(p) PROVE UploadHasBytes'
  BY <1>2, <1>0, <1>a, <1>u, <1>l, <1>b, Removed DEF UploadFence, Discard, Goto,
     FenceIsOff, bytesVars, Remove, Leave, UploadHasBytes, Own, InsertValid, keyed,
     UploadPlaces
<1>3. ASSUME NEW p \in Procs, Insert(p) PROVE UploadHasBytes'
  BY <1>3, <1>0, <1>a, <1>u, <1>l, <1>b DEF Insert, Nobody, Goto, InsertValid, LockedBy,
     bytesVars, UploadHasBytes, Own, keyed, UploadPlaces
<1>4. ASSUME NEW p \in Procs, Commit(p) PROVE UploadHasBytes'
  BY <1>4, <1>0, <1>a, <1>u, <1>l, <1>b DEF Commit, Nobody, Goto, bytesVars,
     UploadHasBytes, Own, InsertValid, keyed, UploadPlaces
<1>5. ASSUME NEW p \in Procs, Resolve(p) \/ LoseAck(p) PROVE UploadHasBytes'
  BY <1>5, <1>0, <1>a, <1>u, <1>l, <1>b DEF Resolve, LoseAck, CanResolve, Goto, bytesVars,
     Nobody, UploadHasBytes, Own, InsertValid, keyed, UploadPlaces
<1>6. ASSUME NEW p \in Procs, DeleteRow(p) \/ DropStarts(p) PROVE UploadHasBytes'
  BY <1>6, <1>0, <1>a DEF DeleteRow, DropStarts, Nobody, Goto, bytesVars, Leave,
     UploadHasBytes, Own, InsertValid, keyed
<1>7. ASSUME NEW p \in Procs, NEW q \in Paths, Drop(p, q) PROVE UploadHasBytes'
  BY <1>7, <1>0, <1>a DEF Drop, Remove, Leave, Goto, UploadHasBytes, Own, InsertValid,
     keyed, DropPlaces
<1>8. ASSUME NEW p \in Procs, ReadStart(p) \/ ReadDecides(p) PROVE UploadHasBytes'
  BY <1>8, <1>0, <1>a DEF ReadStart, ReadDecides, Goto, NoLookup, bytesVars, Settled,
     Answer, UploadHasBytes, Own, InsertValid, keyed
<1>9. ASSUME NEW p \in Procs, NEW q \in Paths, LookupRow(p, q) \/ LookupState(p, q) \/
   LookupObject(p, q) \/ LookupAgain(p, q) \/ LookupReopen(p, q) PROVE UploadHasBytes'
  BY <1>9, <1>0, <1>a DEF LookupRow, LookupState, LookupObject, LookupAgain, LookupReopen,
     Lookup, Settle, KeyedOutcome, StartOver, bytesVars, NoLookup, UploadHasBytes, Own,
     InsertValid, keyed
<1>10. ASSUME NEW p \in Procs, Verify(p) \/ ReadPolicy(p) \/ ReadRow(p) \/
   LookAtCompressed(p) \/ Publish(p) PROVE UploadHasBytes'
  BY <1>10, <1>0, <1>a DEF Verify, ReadPolicy, ReadRow, LookAtCompressed, Publish,
     Converts, Goto, Gives, bytesVars, FenceIsOff, Nobody, Retry, CreateOnly, Put, Leave,
     There, Write, UploadHasBytes, Own, InsertValid, keyed, ConvertPlaces, RowPlaces
<1>11. ASSUME NEW p \in Procs, Replace(p) \/ Rename(p) \/ Recheck(p) \/ Finish(p) \/ Undo(p) \/
   RemoveOriginal(p) \/ Mark(p) PROVE UploadHasBytes'
  BY <1>11, <1>0, <1>a DEF Replace, Rename, Recheck, Finish, Undo, RemoveOriginal, Mark,
     Converts, Goto, Retry, bytesVars, Put, Gives, FenceIsOff, Remove, Nobody, Write,
     Leave, UploadHasBytes, Own, InsertValid, keyed, ConvertPlaces, RowPlaces
<1>12. ASSUME NEW p \in Procs, MigrationStarts(p) \/ ReadState(p) \/ ListRows(p) \/
   MigrateKey(p) \/ MarkMigrated(p) PROVE UploadHasBytes'
  BY <1>12, <1>0, <1>a DEF MigrationStarts, ReadState, ListRows, MigrateKey, MarkMigrated,
     Works, Goto, bytesVars, Nobody, UploadHasBytes, Own, InsertValid, keyed
<1>13. ASSUME NEW p \in Procs, PassEnds(p) PROVE UploadHasBytes'
  BY <1>13, <1>0, <1>a DEF PassEnds, Works, Nobody, Leave, bytesVars, Goto,
     UploadHasBytes, Own, InsertValid, keyed
<1>14. ASSUME NEW p \in Procs, Checkpoint(p) PROVE UploadHasBytes'
  BY <1>14, <1>0, <1>a DEF Checkpoint, Works, Nobody, Leave, bytesVars, Goto,
     UploadHasBytes, Own, InsertValid, keyed
<1>15. ASSUME NEW p \in Procs, MigrateObject(p) \/ Encrypt(p) \/ ReadBack(p) PROVE
   UploadHasBytes'
  BY <1>15, <1>0, <1>a DEF MigrateObject, Encrypt, ReadBack, Works, Goto, NextPath,
     bytesVars, UploadHasBytes, Own, InsertValid, keyed, ConvertPlaces, RowPlaces
<1>16. ASSUME NEW p \in Procs, Overwrite(p) PROVE UploadHasBytes'
  BY <1>16, <1>0, <1>a DEF Overwrite, Works, Put, Goto, Write, UploadHasBytes, Own,
     InsertValid, keyed, ConvertPlaces, RowPlaces
<1>17. ASSUME NEW p \in Procs, InventoryState(p) \/ ListObjects(p) \/ InventoryEnds(p) \/
   Weigh(p) PROVE UploadHasBytes'
  BY <1>17, <1>0, <1>a DEF InventoryState, ListObjects, InventoryEnds, Weigh, Works, Goto,
     bytesVars, There, Nobody, Leave, UploadHasBytes, Own, InsertValid, keyed
<1>18. ASSUME NEW p \in Procs, Sweep(p) PROVE UploadHasBytes'
  <2>1. loc[p].path \in Paths /\ loc[p].got.form = "plain" /\ policy.enabled
    BY <1>18, <1>0 DEF Sweep, Works, Variables, OnlyPlainIsSwept, Activation, OnlyEnabled,
       WorkPlaces
  <2>2. file'["br"] = file["br"] \/ file["br"].form # "cipher"
    <3>1. file' = file \/ (Remove(loc[p].path)
                           /\ (~There(loc[p].path) \/ file[loc[p].path] = loc[p].got))
      BY <1>18 DEF Sweep
    <3>2. CASE loc[p].path = "br"
      BY <2>1, <3>1, <3>2 DEF There
    <3>3. CASE loc[p].path # "br"
      BY <1>0, <1>b, <2>1, <3>1, <3>3, Removed
    <3>4. QED
      BY <3>2, <3>3
  <2>3. lock # Nobody => sc.keyed[lock]
    BY <2>1 DEF Activation, keyed
  <2>4. QED
    BY <1>18, <1>0, <2>1, <2>2, <2>3
    DEF Sweep, Works, Goto, Leave, UploadHasBytes, Own, InsertValid, keyed
<1>19. ASSUME NEW p \in Procs, NEW q \in Paths, CheckOwner(p, q) PROVE UploadHasBytes'
  BY <1>19, <1>0, <1>a DEF CheckOwner, Works, Goto, bytesVars, UploadHasBytes, Own,
     InsertValid, keyed
<1>20. ASSUME NEW p \in Procs, Crash(p) PROVE UploadHasBytes'
  BY <1>20, <1>0, <1>a DEF Crash, Leave, NoLookup, bytesVars, Goto, UploadHasBytes, Own,
     InsertValid, keyed
<1>21. CASE Activate \/ UNCHANGED vars
  <2>1. CASE Activate
    <3>1. lock = Nobody /\ ~policy.enabled /\ policy'.enabled /\ UNCHANGED <<sc, lock, at, file>>
      BY <1>0, <2>1 DEF Activate, bytesVars, procVars
    <3>2. \A p \in Procs : at[p] = "insert" => ~sc.keyed[p]
      BY <1>0, <1>r, <3>1, EntryAre DEF Activation, OnlyEnabled, keyed
    <3>3. QED
      BY <1>0, <3>1, <3>2 DEF UploadHasBytes, Own, InsertValid, keyed
  <2>2. CASE UNCHANGED vars
    BY <1>0, <2>2 DEF vars, bytesVars, procVars, UploadHasBytes, Own, InsertValid, keyed
  <2>3. QED
    BY <1>21, <2>1, <2>2
<1>22. ASSUME NEW p \in Procs, Upload(p) PROVE UploadHasBytes'
  BY <1>22, <1>1, <1>2, <1>3, <1>4, <1>5 DEF Upload
<1>23. ASSUME NEW p \in Procs, Delete(p) PROVE UploadHasBytes'
  BY <1>23, <1>6, <1>7 DEF Delete
<1>24. ASSUME NEW p \in Procs, Read(p) PROVE UploadHasBytes'
  BY <1>24, <1>8, <1>9 DEF Read
<1>25. ASSUME NEW p \in Procs, Convert(p) PROVE UploadHasBytes'
  BY <1>25, <1>10, <1>11 DEF Convert
<1>26. ASSUME NEW p \in Procs, Migrate(p) PROVE UploadHasBytes'
  BY <1>26, <1>12, <1>13, <1>14, <1>15, <1>16 DEF Migrate
<1>27. ASSUME NEW p \in Procs, Inventory(p) PROVE UploadHasBytes'
  BY <1>27, <1>17, <1>18, <1>19 DEF Inventory
<1>28. QED
  BY <1>21, <1>22, <1>23, <1>24, <1>25, <1>26, <1>27, <1>5, <1>20 DEF Next, Proceed

(* Every step keeps the life of the row and the upload's bytes.            *)
LEMMA LifeStep == ASSUME TypeInv, LifeInv, [Next]_vars PROVE LifeInv'
<1>1. Activation /\ RowLife /\ UploadHasBytes /\ NoOriginal /\ OnlyPlainIsSwept
  BY DEF LifeInv
<1>2. Activation' /\ RowLife' /\ UploadHasBytes' /\ NoOriginal' /\ OnlyPlainIsSwept'
  BY <1>1, ActivationStep, RowLifeStep, UploadBytesStep, NoOriginalStep, SweptStep
<1>3. QED
  BY <1>2 DEF LifeInv

(* They hold at first.                                                     *)
LEMMA LifeInit == Init => LifeInv
<1> SUFFICES ASSUME Init PROVE LifeInv
  OBVIOUS
<1>0. TypeInv
  BY TypeInit
<1>1. /\ sc.role \in [Procs -> Roles] /\ Nobody \notin Procs
      /\ \A p \in Procs : sc.role[p] = "upload" => sc.stored = "nothing"
      /\ sc.stored \in {"nothing", "original", "compressed", "both"}
  BY <1>0, ScenarioFacts DEF TypeInv
<1>2. ASSUME NEW p \in Procs
      PROVE  /\ at[p] = Entry[sc.role[p]] /\ at[p] \in {"done", "put", "start", "rest", "delete"}
             /\ at[p] = "put" => sc.role[p] = "upload"
             /\ at[p] = "rest" => sc.role[p] = "migrate"
             /\ \A q \in Paths : copy[p][q].at = "idle"
  BY <1>1, EntryAre DEF Init, Roles, NoLookup
<1>3. /\ lock = Nobody /\ ~policy.complete /\ ~policy.cleaned /\ ~row.key
      /\ row.is = (IF sc.stored = "nothing" THEN "none" ELSE "live")
      /\ sc.stored = "nothing" => ~There("orig")
  BY DEF Init, NoRow, Paths, Plain, There
<1>4. Activation
  BY <1>2, <1>3 DEF Activation, OnlyEnabled, WorkPlaces, RowPlaces
<1>5. RowLife
  BY <1>1, <1>2, <1>3 DEF RowLife, ConvertPlaces, RowPlaces, DropPlaces
<1>6. UploadHasBytes /\ OnlyPlainIsSwept
  BY <1>2, <1>3 DEF UploadHasBytes, OnlyPlainIsSwept
<1>7. NoOriginal
  BY <1>2, <1>3 DEF NoOriginal, OriginalIsOut, NoConversion, NoneRead, ConvertPlaces, Paths
<1>8. QED
  BY <1>4, <1>5, <1>6, <1>7 DEF LifeInv

-----------------------------------------------------------------------------
(* What the steps below need of the state.                                 *)
Frame ==
    /\ sc.role \in [Procs -> Roles] /\ sc.keyed \in [Procs -> BOOLEAN]
    /\ lock \in Procs \union {Nobody} /\ Nobody \notin Procs
    /\ at \in [Procs -> UNION {Places[r] : r \in Roles}] /\ FilesTyped
    /\ loc \in [Procs -> Variables]
    /\ row \in Rows /\ (row.enc => row.key)
    /\ policy \in [enabled : BOOLEAN, cursor : {"start", "row"}, complete : BOOLEAN,
                   cleaned : BOOLEAN]

(* It follows from the types.                                              *)
LEMMA FrameHolds == TypeInv => Frame
BY ScenarioFacts
DEF TypeInv, TypeOK, Shapes, Frame, FilesTyped, Objects, Rows, Variables

(* An upload has no row yet, and whoever drops the objects no row any more. *)
LEMMA NotListed ==
    ASSUME LifeInv, NEW p \in Procs,
           at[p] \in {"put", "fence", "insert", "discard"} \union DropPlaces \/ lock # Nobody
    PROVE  row.is # "live"
BY DEF LifeInv, RowLife, RowIsOver

(* Only a keyed process replaces an object or marks a row.                 *)
LEMMA KeyedReplaceStep == ASSUME TypeInv, KeyedReplace, [Next]_vars PROVE KeyedReplace'
<1>0. Frame /\ sc' = sc
  BY FrameHolds, ScenarioIsFixed
<1>1. ASSUME NEW p \in Procs, UploadPut(p) \/ Discard(p) \/ UploadFence(p) \/ Insert(p) \/
   Commit(p) \/ Resolve(p) \/ LoseAck(p) PROVE KeyedReplace'
  BY <1>1, <1>0 DEF UploadPut, Discard, UploadFence, Insert, Commit, Resolve, LoseAck,
     Put, Goto, Leave, Frame, KeyedReplace, keyed
<1>2. ASSUME NEW p \in Procs, DeleteRow(p) \/ DropStarts(p) PROVE KeyedReplace'
  BY <1>2, <1>0 DEF DeleteRow, DropStarts, Goto, Leave, Frame, KeyedReplace, keyed
<1>3. ASSUME NEW p \in Procs, NEW q \in Paths, Drop(p, q) PROVE KeyedReplace'
  BY <1>3, <1>0 DEF Drop, Leave, Goto, Frame, KeyedReplace, keyed
<1>4. ASSUME NEW p \in Procs, ReadStart(p) \/ ReadDecides(p) PROVE KeyedReplace'
  BY <1>4, <1>0 DEF ReadStart, ReadDecides, Goto, NoLookup, Settled, Answer, Frame,
     KeyedReplace, keyed
<1>5. ASSUME NEW p \in Procs, NEW q \in Paths, LookupRow(p, q) \/ LookupState(p, q) \/
   LookupObject(p, q) \/ LookupAgain(p, q) \/ LookupReopen(p, q) PROVE KeyedReplace'
  BY <1>5, <1>0 DEF LookupRow, LookupState, LookupObject, LookupAgain, LookupReopen,
     Lookup, Settle, KeyedOutcome, StartOver, NoLookup, Frame, KeyedReplace, keyed
<1>6. ASSUME NEW p \in Procs, Verify(p) \/ ReadPolicy(p) \/ ReadRow(p) PROVE KeyedReplace'
  BY <1>6, <1>0 DEF Verify, ReadPolicy, ReadRow, Converts, Goto, Gives, Leave, Frame,
     KeyedReplace, keyed
<1>7. ASSUME NEW p \in Procs, LookAtCompressed(p) PROVE KeyedReplace'
  BY <1>7, <1>0 DEF LookAtCompressed, Converts, Retry, Goto, Gives, Leave, Frame,
     KeyedReplace, keyed
<1>8. ASSUME NEW p \in Procs, Publish(p) \/ Replace(p) PROVE KeyedReplace'
  BY <1>8, <1>0 DEF Publish, Replace, Converts, Put, Goto, Gives, Retry, Leave, Frame,
     KeyedReplace, keyed
<1>9. ASSUME NEW p \in Procs, Rename(p) \/ Recheck(p) \/ Finish(p) \/ Undo(p) PROVE KeyedReplace'
  BY <1>9, <1>0 DEF Rename, Recheck, Finish, Undo, Converts, Put, Goto, Gives, Leave, Frame,
     KeyedReplace, keyed
<1>10. ASSUME NEW p \in Procs, RemoveOriginal(p) \/ Mark(p) PROVE KeyedReplace'
  BY <1>10, <1>0 DEF RemoveOriginal, Mark, Converts, Goto, Gives, Leave, Frame,
     KeyedReplace, keyed
<1>11. ASSUME NEW p \in Procs, MigrationStarts(p) \/ ReadState(p) \/ ListRows(p) \/
   PassEnds(p) \/ Checkpoint(p) \/ MigrateKey(p) PROVE KeyedReplace'
  BY <1>11, <1>0 DEF MigrationStarts, ReadState, ListRows, PassEnds, Checkpoint,
     MigrateKey, Works, Goto, Leave, Frame, KeyedReplace, keyed
<1>12. ASSUME NEW p \in Procs, MigrateObject(p) \/ Encrypt(p) \/ ReadBack(p) \/ Overwrite(p)
   \/ MarkMigrated(p) PROVE KeyedReplace'
  BY <1>12, <1>0 DEF MigrateObject, Encrypt, ReadBack, Overwrite, MarkMigrated, Works,
     Goto, NextPath, Put, Frame, KeyedReplace, keyed
<1>13. ASSUME NEW p \in Procs, InventoryState(p) \/ ListObjects(p) \/ InventoryEnds(p) \/
   Weigh(p) \/ Sweep(p) PROVE KeyedReplace'
  BY <1>13, <1>0 DEF InventoryState, ListObjects, InventoryEnds, Weigh, Sweep, Works,
     Goto, Leave, Frame, KeyedReplace, keyed
<1>14. ASSUME NEW p \in Procs, NEW q \in Paths, CheckOwner(p, q) PROVE KeyedReplace'
  BY <1>14, <1>0 DEF CheckOwner, Works, Goto, Frame, KeyedReplace, keyed
<1>15. ASSUME NEW p \in Procs, Crash(p) PROVE KeyedReplace'
  BY <1>15, <1>0 DEF Crash, Leave, NoLookup, Goto, Frame, KeyedReplace, keyed
<1>16. CASE Activate \/ UNCHANGED vars
  BY <1>16, <1>0 DEF Activate, vars, bytesVars, procVars, KeyedReplace, keyed
<1>17. ASSUME NEW p \in Procs, Upload(p) PROVE KeyedReplace'
  BY <1>17, <1>1 DEF Upload
<1>18. ASSUME NEW p \in Procs, Delete(p) PROVE KeyedReplace'
  BY <1>18, <1>2, <1>3 DEF Delete
<1>19. ASSUME NEW p \in Procs, Read(p) PROVE KeyedReplace'
  BY <1>19, <1>4, <1>5 DEF Read
<1>20. ASSUME NEW p \in Procs, Convert(p) PROVE KeyedReplace'
  BY <1>20, <1>6, <1>7, <1>8, <1>9, <1>10 DEF Convert
<1>21. ASSUME NEW p \in Procs, Migrate(p) PROVE KeyedReplace'
  BY <1>21, <1>11, <1>12 DEF Migrate
<1>22. ASSUME NEW p \in Procs, Inventory(p) PROVE KeyedReplace'
  BY <1>22, <1>13, <1>14 DEF Inventory
<1>23. QED
  BY <1>16, <1>17, <1>18, <1>19, <1>20, <1>21, <1>22, <1>1, <1>15 DEF Next, Proceed

(* Who encrypts has encrypted before, or has just seen to the row's key.   *)
Enters == \A s \in Procs : Encrypts(s)' => Encrypts(s) \/ row'.is # "live" \/ row'.key

(* Every step of a conversion and of a worker sees to the key first.       *)
LEMMA EntersStep == ASSUME TypeInv, [Next]_vars PROVE Enters
<1>0. Frame /\ sc' = sc
  BY FrameHolds, ScenarioIsFixed
<1>1. ASSUME NEW p \in Procs, UploadPut(p) \/ Discard(p) \/ UploadFence(p) \/ Insert(p) \/
   Commit(p) \/ Resolve(p) \/ LoseAck(p) PROVE Enters
  BY <1>1, <1>0 DEF UploadPut, Discard, UploadFence, Insert, Commit, Resolve, LoseAck,
     Put, Goto, Leave, Nobody, Frame, Enters, Encrypts, keyed, RowPlaces
<1>2. ASSUME NEW p \in Procs, DeleteRow(p) \/ DropStarts(p) PROVE Enters
  BY <1>2, <1>0 DEF DeleteRow, DropStarts, Nobody, Goto, Leave, Frame, Enters, Encrypts,
     keyed, RowPlaces
<1>3. ASSUME NEW p \in Procs, NEW q \in Paths, Drop(p, q) PROVE Enters
  BY <1>3, <1>0 DEF Drop, Leave, Goto, Frame, Enters, Encrypts, keyed, RowPlaces
<1>4. ASSUME NEW p \in Procs, ReadStart(p) \/ ReadDecides(p) PROVE Enters
  BY <1>4, <1>0 DEF ReadStart, ReadDecides, Goto, NoLookup, Settled, Answer, Frame,
     Enters, Encrypts, keyed, RowPlaces
<1>5. ASSUME NEW p \in Procs, NEW q \in Paths, LookupRow(p, q) \/ LookupState(p, q) \/
   LookupObject(p, q) \/ LookupAgain(p, q) \/ LookupReopen(p, q) PROVE Enters
  BY <1>5, <1>0 DEF LookupRow, LookupState, LookupObject, LookupAgain, LookupReopen,
     Lookup, Settle, KeyedOutcome, StartOver, NoLookup, Frame, Enters, Encrypts, keyed,
     RowPlaces
<1>6. ASSUME NEW p \in Procs, Verify(p) \/ ReadPolicy(p) PROVE Enters
  BY <1>6, <1>0 DEF Verify, ReadPolicy, Converts, Goto, Gives, Leave, Frame, Enters,
     Encrypts, keyed, RowPlaces
<1>7. ASSUME NEW p \in Procs, ReadRow(p) PROVE Enters
  <2>1. CASE row.is = "live" /\ keyed(p)
    BY <1>7, <2>1, <1>0 DEF ReadRow, EnsureKey, Enters, Frame, Rows
  <2>2. CASE ~(row.is = "live" /\ keyed(p))
    BY <1>7, <2>2, <1>0 DEF ReadRow, Converts, EnsureKey, Goto, Gives, Leave, Enters,
       Encrypts, keyed,
       RowPlaces, Frame
  <2>3. QED
    BY <2>1, <2>2
<1>8. ASSUME NEW p \in Procs, LookAtCompressed(p) PROVE Enters
  BY <1>8, <1>0 DEF LookAtCompressed, Converts, Retry, Goto, Gives, Leave, Frame, Enters,
     Encrypts, keyed, RowPlaces
<1>9. ASSUME NEW p \in Procs, Publish(p) PROVE Enters
  BY <1>9, <1>0 DEF Publish, Converts, Put, Goto, Gives, Retry, Leave, Frame, Enters,
     Encrypts, keyed, RowPlaces
<1>10. ASSUME NEW p \in Procs, Replace(p) \/ Rename(p) \/ Recheck(p) PROVE Enters
  BY <1>10, <1>0 DEF Replace, Rename, Recheck, Converts, Goto, Retry, Put, Gives, Leave,
     Frame, Enters, Encrypts, keyed, RowPlaces
<1>11. ASSUME NEW p \in Procs, Finish(p) \/ Undo(p) \/ RemoveOriginal(p) \/ Mark(p) PROVE Enters
  BY <1>11, <1>0 DEF Finish, Undo, RemoveOriginal, Mark, Converts, Goto, Gives, Nobody, Leave,
     Frame, Enters, Encrypts, keyed, RowPlaces
<1>12. ASSUME NEW p \in Procs, MigrationStarts(p) \/ ReadState(p) \/ ListRows(p) \/
   PassEnds(p) \/ Checkpoint(p) PROVE Enters
  BY <1>12, <1>0 DEF MigrationStarts, ReadState, ListRows, PassEnds, Checkpoint, Works,
     Goto, Nobody, Leave, Frame, Enters, Encrypts, keyed, RowPlaces
<1>13. ASSUME NEW p \in Procs, MigrateKey(p) PROVE Enters
  <2>1. CASE row.is = "live"
    BY <1>13, <2>1, <1>0 DEF MigrateKey, EnsureKey, Enters, Frame, Rows
  <2>2. CASE row.is # "live"
    BY <1>13, <2>2, <1>0 DEF MigrateKey, Works, EnsureKey, Pending, Goto, Enters,
       Encrypts, keyed,
       RowPlaces, Frame
  <2>3. QED
    BY <2>1, <2>2
<1>14. ASSUME NEW p \in Procs, MigrateObject(p) \/ Encrypt(p) \/ ReadBack(p) \/ Overwrite(p)
   \/ MarkMigrated(p) PROVE Enters
  BY <1>14, <1>0 DEF MigrateObject, Encrypt, ReadBack, Overwrite, MarkMigrated, Works,
     Goto, NextPath, Put, Nobody, Frame, Enters, Encrypts, keyed, RowPlaces
<1>15. ASSUME NEW p \in Procs, InventoryState(p) \/ ListObjects(p) \/ InventoryEnds(p) \/
   Weigh(p) \/ Sweep(p) PROVE Enters
  BY <1>15, <1>0 DEF InventoryState, ListObjects, InventoryEnds, Weigh, Sweep, Works,
     Goto, Nobody, Leave, Frame, Enters, Encrypts, keyed, RowPlaces
<1>16. ASSUME NEW p \in Procs, NEW q \in Paths, CheckOwner(p, q) PROVE Enters
  BY <1>16, <1>0 DEF CheckOwner, Works, Goto, Frame, Enters, Encrypts, keyed, RowPlaces
<1>17. ASSUME NEW p \in Procs, Crash(p) PROVE Enters
  BY <1>17, <1>0 DEF Crash, Leave, NoLookup, Goto, Frame, Enters, Encrypts, keyed,
     RowPlaces
<1>18. CASE Activate \/ UNCHANGED vars
  BY <1>18, <1>0 DEF Activate, vars, bytesVars, procVars, Enters, Encrypts, keyed
<1>19. ASSUME NEW p \in Procs, Upload(p) PROVE Enters
  BY <1>19, <1>1 DEF Upload
<1>20. ASSUME NEW p \in Procs, Delete(p) PROVE Enters
  BY <1>20, <1>2, <1>3 DEF Delete
<1>21. ASSUME NEW p \in Procs, Read(p) PROVE Enters
  BY <1>21, <1>4, <1>5 DEF Read
<1>22. ASSUME NEW p \in Procs, Convert(p) PROVE Enters
  BY <1>22, <1>6, <1>7, <1>8, <1>9, <1>10, <1>11 DEF Convert
<1>23. ASSUME NEW p \in Procs, Migrate(p) PROVE Enters
  BY <1>23, <1>12, <1>13, <1>14 DEF Migrate
<1>24. ASSUME NEW p \in Procs, Inventory(p) PROVE Enters
  BY <1>24, <1>15, <1>16 DEF Inventory
<1>25. QED
  BY <1>18, <1>19, <1>20, <1>21, <1>22, <1>23, <1>24, <1>1, <1>17 DEF Next, Proceed

(* A report that is listed was so before, or its upload commits it.        *)
CommitsOf(p) ==
    /\ Commit(p) /\ lock = p /\ row.is = "none" /\ sc.role[p] = "upload" /\ sc.stored = "nothing"
    /\ row' = [is |-> "live", key |-> keyed(p), enc |-> keyed(p)]
    /\ UNCHANGED <<policy, file, stray, loc, copy>>
    /\ \A s \in Procs : at'[s] \in {at[s], "done"}

(* No other step lists a report.                                           *)
LEMMA Listed ==
    ASSUME TypeInv, LifeInv, [Next]_vars, row'.is = "live"
    PROVE  \/ row.is = "live" /\ (row.key => row'.key) /\ (row.enc => row'.enc)
           \/ \E p \in Procs : CommitsOf(p)
<1>0. Frame
  BY FrameHolds
<1>1. CASE row' = row
  BY <1>1
<1>2. CASE RowGrows
  BY <1>2 DEF RowGrows
<1>3. ASSUME NEW p \in Procs, DeleteRow(p) PROVE FALSE
  BY <1>3 DEF DeleteRow, NoRow
<1>4. ASSUME NEW p \in Procs, Commit(p), row' # row PROVE CommitsOf(p)
  <2>1. lock = p /\ lock # Nobody
    BY <1>0, <1>4 DEF Commit, Frame
  <2>2. row.is = "none" /\ sc.role[p] = "upload" /\ sc.stored = "nothing"
    BY <2>1 DEF LifeInv, RowLife
  <2>3. \A s \in Procs : at'[s] \in {at[s], "done"}
    BY <1>0, <1>4 DEF Commit, Goto, Frame
  <2>4. QED
    BY <1>4, <2>1, <2>2, <2>3 DEF Commit, CommitsOf, bytesVars
<1>5. QED
  BY <1>1, <1>2, <1>3, <1>4, RowStep

(* Whoever encrypts a listed report has its key, after every step.         *)
LEMMA KeyedWorkStep == ASSUME TypeInv, LifeInv, KeyedWork, [Next]_vars PROVE KeyedWork'
<1> SUFFICES ASSUME row'.is = "live", NEW s \in Procs, Encrypts(s)' PROVE row'.key
  BY DEF KeyedWork, IsLive
<1>1. Encrypts(s) \/ row'.key
  BY EntersStep DEF Enters
<1>2. Encrypts(s) => row.is # "none"
  BY DEF LifeInv, RowLife, Encrypts, ConvertPlaces
<1>3. row.is = "live" /\ Encrypts(s) => row.key
  BY DEF KeyedWork, IsLive
<1>4. QED
  BY <1>1, <1>2, <1>3, Listed DEF CommitsOf

(* Who changes an object, and how.                                         *)
Writes(p, q) ==
    \/ at[p] = "put" /\ q = "br" /\ file'[q].form = Own(p) /\ (keyed(p) => policy.enabled)
          /\ (at'[p] \in {"fence", "insert"} \/ faulted')
    \/ at[p] = "discard" /\ q = "br" /\ file'[q].form = "none"
    \/ at[p] = "dropping" /\ q \in loc[p].todo /\ file'[q].form = "none"
    \/ at[p] = "publish" /\ q = "br" /\ ~There("br") /\ file'[q].form = Own(p)
          /\ stray' = (stray \/ (~keyed(p) /\ policy.enabled))
          /\ (at'[p] = "recheck" \/ faulted')
    \/ at[p] = "rename" /\ q = "br" /\ file'[q].form = "cipher"
    \/ at[p] = "undo" /\ q = "br" /\ file'[q].form = "none"
    \/ at[p] = "unlink" /\ q = "orig" /\ file'[q].form = "none"
    \/ at[p] = "overwrite" /\ q = loc[p].path /\ file'[q].form = "cipher"
    \/ at[p] = "sweep" /\ q = loc[p].path /\ file'[q].form = "none"
          /\ (~There(q) \/ file[q] = loc[p].got)

(* Nobody else changes an object.                                          *)
LEMMA WhoWrites ==
    ASSUME TypeInv, [Next]_vars, NEW x \in Paths
    PROVE  file'[x] = file[x] \/ \E p \in Procs : Writes(p, x)
<1>0. Frame
  BY FrameHolds
<1>1. ASSUME NEW p \in Procs, UploadPut(p) PROVE file'[x] = file[x] \/ Writes(p, x)
  BY <1>1, <1>0, Written DEF UploadPut, Put, Write, Frame, Writes, Forms, Own, keyed,
     Paths, Variables, There, Goto
<1>2. ASSUME NEW p \in Procs, Discard(p) PROVE file'[x] = file[x] \/ Writes(p, x)
  BY <1>2, <1>0, Removed DEF Discard, Remove, Leave, Frame, Writes, Forms, Own, keyed,
     Paths, Variables, There
<1>3. ASSUME NEW p \in Procs, UploadFence(p) \/ Insert(p) \/ Commit(p) \/ Resolve(p) \/
   LoseAck(p) PROVE file'[x] = file[x] \/ Writes(p, x)
  BY <1>3 DEF UploadFence, Insert, Commit, Resolve, LoseAck, bytesVars
<1>4. ASSUME NEW p \in Procs, DeleteRow(p) \/ DropStarts(p) PROVE file'[x] = file[x] \/
   Writes(p, x)
  BY <1>4 DEF DeleteRow, DropStarts, bytesVars, Leave
<1>5. ASSUME NEW p \in Procs, NEW q \in Paths, Drop(p, q) PROVE file'[x] = file[x] \/
   Writes(p, x)
  BY <1>5, <1>0, Removed DEF Drop, Remove, Leave, Frame, Writes, Forms, Own, keyed, Paths,
     Variables, There
<1>6. ASSUME NEW p \in Procs, ReadStart(p) \/ ReadDecides(p) PROVE file'[x] = file[x] \/
   Writes(p, x)
  BY <1>6 DEF ReadStart, ReadDecides, bytesVars
<1>7. ASSUME NEW p \in Procs, NEW q \in Paths, LookupRow(p, q) \/ LookupState(p, q) \/
   LookupObject(p, q) \/ LookupAgain(p, q) \/ LookupReopen(p, q) PROVE file'[x] = file[x] \/
   Writes(p, x)
  BY <1>7 DEF LookupRow, LookupState, LookupObject, LookupAgain, LookupReopen, Lookup,
     bytesVars
<1>8. ASSUME NEW p \in Procs, Verify(p) \/ ReadPolicy(p) \/ ReadRow(p) \/
   LookAtCompressed(p) \/ Replace(p) \/ Recheck(p) \/ Mark(p) PROVE file'[x] = file[x] \/
   Writes(p, x)
  BY <1>8 DEF Verify, ReadPolicy, ReadRow, LookAtCompressed, Replace, Recheck, Mark,
     Converts, Gives, bytesVars, Retry, Leave
<1>9. ASSUME NEW p \in Procs, Publish(p) PROVE file'[x] = file[x] \/ Writes(p, x)
  BY <1>9, <1>0, Written DEF Publish, Converts, CreateOnly, Put, Gives, Retry, bytesVars,
     There, Write, Leave, Frame, Writes, Forms, Own, keyed, Paths, Variables, Goto
<1>10. ASSUME NEW p \in Procs, Rename(p) PROVE file'[x] = file[x] \/ Writes(p, x)
  BY <1>10, <1>0, Written DEF Rename, Converts, Put, Gives, Write, Leave, Frame, Writes,
     Forms, Own, keyed, Paths, Variables, There
<1>11. ASSUME NEW p \in Procs, Finish(p) \/ Undo(p) PROVE file'[x] = file[x] \/ Writes(p, x)
  BY <1>11, <1>0, Removed DEF Finish, Undo, Converts, Gives, bytesVars, Leave, Frame, Writes,
     Forms, Own, keyed, Paths, Variables, There
<1>12. ASSUME NEW p \in Procs, RemoveOriginal(p) PROVE file'[x] = file[x] \/ Writes(p, x)
  BY <1>12, <1>0, Removed DEF RemoveOriginal, Converts, Remove, Gives, Leave, Frame,
     Writes, Forms, Own, keyed, Paths, Variables, There
<1>13. ASSUME NEW p \in Procs, MigrationStarts(p) \/ ReadState(p) \/ ListRows(p) \/
   PassEnds(p) \/ Checkpoint(p) \/ MigrateKey(p) \/ MigrateObject(p) \/ Encrypt(p) \/
   ReadBack(p) \/ MarkMigrated(p) PROVE file'[x] = file[x] \/ Writes(p, x)
  BY <1>13 DEF MigrationStarts, ReadState, ListRows, PassEnds, Checkpoint, MigrateKey,
     MigrateObject, Encrypt, ReadBack, MarkMigrated, Works, bytesVars, Leave, NextPath
<1>14. ASSUME NEW p \in Procs, Overwrite(p) PROVE file'[x] = file[x] \/ Writes(p, x)
  BY <1>14, <1>0, Written DEF Overwrite, Works, Put, Write, Frame, Writes, Forms, Own,
     keyed, Paths, Variables, There
<1>15. ASSUME NEW p \in Procs, InventoryState(p) \/ ListObjects(p) \/ InventoryEnds(p) \/
   Weigh(p) PROVE file'[x] = file[x] \/ Writes(p, x)
  BY <1>15 DEF InventoryState, ListObjects, InventoryEnds, Weigh, Works, bytesVars, There,
     Leave
<1>16. ASSUME NEW p \in Procs, Sweep(p) PROVE file'[x] = file[x] \/ Writes(p, x)
  BY <1>16, <1>0, Removed DEF Sweep, Works, There, Remove, Leave, Frame, Writes, Forms,
     Own, keyed, Paths, Variables
<1>17. ASSUME NEW p \in Procs, NEW q \in Paths, CheckOwner(p, q) PROVE file'[x] = file[x] \/
   Writes(p, x)
  BY <1>17 DEF CheckOwner, Works, bytesVars
<1>18. ASSUME NEW p \in Procs, Crash(p) PROVE file'[x] = file[x] \/ Writes(p, x)
  BY <1>18 DEF Crash, Leave, bytesVars
<1>19. CASE Activate \/ UNCHANGED vars
  BY <1>19 DEF Activate, vars, bytesVars, procVars
<1>20. ASSUME NEW p \in Procs, Upload(p) PROVE file'[x] = file[x] \/ Writes(p, x)
  BY <1>20, <1>1, <1>2, <1>3 DEF Upload
<1>21. ASSUME NEW p \in Procs, Delete(p) PROVE file'[x] = file[x] \/ Writes(p, x)
  BY <1>21, <1>4, <1>5 DEF Delete
<1>22. ASSUME NEW p \in Procs, Read(p) PROVE file'[x] = file[x] \/ Writes(p, x)
  BY <1>22, <1>6, <1>7 DEF Read
<1>23. ASSUME NEW p \in Procs, Convert(p) PROVE file'[x] = file[x] \/ Writes(p, x)
  BY <1>23, <1>8, <1>9, <1>10, <1>11, <1>12 DEF Convert
<1>24. ASSUME NEW p \in Procs, Migrate(p) PROVE file'[x] = file[x] \/ Writes(p, x)
  BY <1>24, <1>13, <1>14 DEF Migrate
<1>25. ASSUME NEW p \in Procs, Inventory(p) PROVE file'[x] = file[x] \/ Writes(p, x)
  BY <1>25, <1>15, <1>16, <1>17 DEF Inventory
<1>26. QED
  BY <1>19, <1>20, <1>21, <1>22, <1>23, <1>24, <1>25, <1>3, <1>18 DEF Next, Proceed

(* What a process that comes to a place has seen or done.                  *)
ArrivesToFinish(s) ==
    /\ at'[s] \in {"recheck", "finish", "unlink", "marking"} =>
           \/ at[s] \in {"recheck", "finish", "unlink", "marking"}
           \/ file'["br"].form # "none" /\ (keyed(s) => file'["br"].form = "cipher")
    /\ at'[s] \in {"finish", "unlink"} =>
           \/ at[s] \in {"finish", "unlink"}
           \/ at[s] = "recheck" /\ (keyed(s) \/ ~policy.enabled)
    /\ at'[s] = "marking" => at[s] = "marking" \/ file'["orig"].form # "plain"

ArrivesAtWork(s) ==
    /\ at'[s] = "mark" => at[s] = "mark" \/ file'["orig"].form # "plain"
    /\ Past(s)' => Past(s) \/ file'["br"].form # "plain"
    /\ at'[s] \in {"weigh", "sweep"} => at[s] \in {"weigh", "sweep"} \/ row'.is # "live"

(* Nobody comes to the end of a conversion otherwise.                      *)
LEMMA ArrivesToFinishStep ==
    ASSUME TypeInv, KeyedReplace, [Next]_vars, NEW s \in Procs
    PROVE  ArrivesToFinish(s)
<1>0. Frame
  BY FrameHolds
<1>f. \A q \in Paths : file[q].form \in {"none", "plain", "cipher"}
  BY <1>0 DEF Frame, FilesTyped, Objects, Forms
<1>1. ASSUME NEW p \in Procs, UploadPut(p) \/ Discard(p) \/ UploadFence(p) \/ Insert(p)
   PROVE ArrivesToFinish(s)
  BY <1>1, <1>0 DEF UploadPut, Discard, UploadFence, Insert, Put, Goto, Leave,
     ArrivesToFinish, Frame, keyed
<1>2. ASSUME NEW p \in Procs, Commit(p) \/ Resolve(p) \/ LoseAck(p) PROVE ArrivesToFinish(s)
  BY <1>2, <1>0 DEF Commit, Resolve, LoseAck, Goto, ArrivesToFinish, Frame, keyed
<1>3. ASSUME NEW p \in Procs, DeleteRow(p) \/ DropStarts(p) PROVE ArrivesToFinish(s)
  BY <1>3, <1>0 DEF DeleteRow, DropStarts, Goto, Leave, ArrivesToFinish, Frame, keyed
<1>4. ASSUME NEW p \in Procs, NEW q \in Paths, Drop(p, q) PROVE ArrivesToFinish(s)
  BY <1>4, <1>0 DEF Drop, Leave, Goto, ArrivesToFinish, Frame, keyed
<1>5. ASSUME NEW p \in Procs, ReadStart(p) \/ ReadDecides(p) PROVE ArrivesToFinish(s)
  BY <1>5, <1>0 DEF ReadStart, ReadDecides, Goto, NoLookup, Settled, Answer,
     ArrivesToFinish, Frame, keyed
<1>6. ASSUME NEW p \in Procs, NEW q \in Paths, LookupRow(p, q) \/ LookupState(p, q) \/
   LookupObject(p, q) \/ LookupAgain(p, q) \/ LookupReopen(p, q) PROVE ArrivesToFinish(s)
  BY <1>6, <1>0 DEF LookupRow, LookupState, LookupObject, LookupAgain, LookupReopen,
     Lookup, Settle, KeyedOutcome, StartOver, NoLookup, ArrivesToFinish, Frame, keyed
<1>7. ASSUME NEW p \in Procs, Verify(p) \/ ReadPolicy(p) \/ ReadRow(p) PROVE
   ArrivesToFinish(s)
  BY <1>7, <1>0 DEF Verify, ReadPolicy, ReadRow, Converts, Goto, Gives, Leave,
     ArrivesToFinish, Frame, keyed
<1>8. ASSUME NEW p \in Procs, LookAtCompressed(p) PROVE ArrivesToFinish(s)
  BY <1>8, <1>0, <1>f DEF LookAtCompressed, Converts, Retry, Goto, Gives, Leave,
     ArrivesToFinish, Frame, keyed, Paths, LooksEncrypted, bytesVars
<1>9. ASSUME NEW p \in Procs, Publish(p) PROVE ArrivesToFinish(s)
  BY <1>9, <1>0, Written DEF Publish, Converts, CreateOnly, Put, Goto, Gives, Retry,
     There, Leave, ArrivesToFinish, Frame, keyed, Paths, Forms
<1>10. ASSUME NEW p \in Procs, Replace(p) PROVE ArrivesToFinish(s)
  BY <1>10, <1>0 DEF Replace, Converts, Goto, Retry, Gives, Leave, ArrivesToFinish, Frame,
     keyed
<1>11. ASSUME NEW p \in Procs, Rename(p) PROVE ArrivesToFinish(s)
  BY <1>11, <1>0, Written DEF Rename, Converts, Put, Goto, Gives, Leave, ArrivesToFinish,
     Frame, keyed, Paths, Forms, KeyedReplace
<1>12. ASSUME NEW p \in Procs, Recheck(p) \/ Finish(p) \/ Undo(p) PROVE ArrivesToFinish(s)
  BY <1>12, <1>0 DEF Recheck, Finish, Undo, Converts, FenceIsOff, Goto, Gives, Leave,
     ArrivesToFinish, Frame, keyed
<1>13. ASSUME NEW p \in Procs, RemoveOriginal(p) PROVE ArrivesToFinish(s)
  BY <1>13, <1>0, Removed DEF RemoveOriginal, Converts, Goto, Gives, Leave,
     ArrivesToFinish, Frame, keyed, Paths
<1>14. ASSUME NEW p \in Procs, Mark(p) PROVE ArrivesToFinish(s)
  BY <1>14, <1>0 DEF Mark, Converts, Gives, Leave, Goto, ArrivesToFinish, Frame, keyed
<1>15. ASSUME NEW p \in Procs, MigrationStarts(p) \/ ReadState(p) \/ ListRows(p) \/
   PassEnds(p) \/ Checkpoint(p) \/ MigrateKey(p) PROVE ArrivesToFinish(s)
  BY <1>15, <1>0 DEF MigrationStarts, ReadState, ListRows, PassEnds, Checkpoint,
     MigrateKey, Works, Goto, Leave, ArrivesToFinish, Frame, keyed
<1>16. ASSUME NEW p \in Procs, MigrateObject(p) \/ Encrypt(p) \/ ReadBack(p) \/ Overwrite(p)
   \/ MarkMigrated(p) PROVE ArrivesToFinish(s)
  BY <1>16, <1>0 DEF MigrateObject, Encrypt, ReadBack, Overwrite, MarkMigrated, Works,
     Goto, NextPath, Put, ArrivesToFinish, Frame, keyed
<1>17. ASSUME NEW p \in Procs, InventoryState(p) \/ ListObjects(p) \/ InventoryEnds(p) \/
   Weigh(p) \/ Sweep(p) PROVE ArrivesToFinish(s)
  BY <1>17, <1>0 DEF InventoryState, ListObjects, InventoryEnds, Weigh, Sweep, Works,
     Goto, Leave, ArrivesToFinish, Frame, keyed
<1>18. ASSUME NEW p \in Procs, NEW q \in Paths, CheckOwner(p, q) PROVE ArrivesToFinish(s)
  BY <1>18, <1>0 DEF CheckOwner, Works, Goto, ArrivesToFinish, Frame, keyed
<1>19. ASSUME NEW p \in Procs, Crash(p) PROVE ArrivesToFinish(s)
  BY <1>19, <1>0 DEF Crash, Leave, NoLookup, Goto, ArrivesToFinish, Frame, keyed
<1>20. CASE Activate \/ UNCHANGED vars
  BY <1>20, <1>0 DEF Activate, vars, bytesVars, procVars, ArrivesToFinish, keyed
<1>21. ASSUME NEW p \in Procs, Upload(p) PROVE ArrivesToFinish(s)
  BY <1>21, <1>1, <1>2 DEF Upload
<1>22. ASSUME NEW p \in Procs, Delete(p) PROVE ArrivesToFinish(s)
  BY <1>22, <1>3, <1>4 DEF Delete
<1>23. ASSUME NEW p \in Procs, Read(p) PROVE ArrivesToFinish(s)
  BY <1>23, <1>5, <1>6 DEF Read
<1>24. ASSUME NEW p \in Procs, Convert(p) PROVE ArrivesToFinish(s)
  BY <1>24, <1>7, <1>8, <1>9, <1>10, <1>11, <1>12, <1>13, <1>14 DEF Convert
<1>25. ASSUME NEW p \in Procs, Migrate(p) PROVE ArrivesToFinish(s)
  BY <1>25, <1>15, <1>16 DEF Migrate
<1>26. ASSUME NEW p \in Procs, Inventory(p) PROVE ArrivesToFinish(s)
  BY <1>26, <1>17, <1>18 DEF Inventory
<1>27. QED
  BY <1>20, <1>21, <1>22, <1>23, <1>24, <1>25, <1>26, <1>2, <1>19 DEF Next, Proceed

(* Nobody comes to mark or to sweep otherwise.                             *)
LEMMA ArrivesAtWorkStep ==
    ASSUME TypeInv, RowsBegin, [Next]_vars, NEW s \in Procs
    PROVE  ArrivesAtWork(s)
<1>0. Frame
  BY FrameHolds
<1>p. \A p \in Procs : loc[p].path \in {"br", "orig"}
  BY <1>0 DEF Frame, Variables, Paths
<1>1. ASSUME NEW p \in Procs, UploadPut(p) \/ Discard(p) \/ UploadFence(p) \/ Insert(p)
   PROVE ArrivesAtWork(s)
  BY <1>1, <1>0 DEF UploadPut, Discard, UploadFence, Insert, Put, Goto, Leave, Keep,
     ArrivesAtWork, Past, RowPlaces, Frame
<1>2. ASSUME NEW p \in Procs, Commit(p) \/ Resolve(p) \/ LoseAck(p) PROVE ArrivesAtWork(s)
  BY <1>2, <1>0 DEF Commit, Resolve, LoseAck, Goto, ArrivesAtWork, Past, RowPlaces, Frame
<1>3. ASSUME NEW p \in Procs, DeleteRow(p) \/ DropStarts(p) PROVE ArrivesAtWork(s)
  BY <1>3, <1>0 DEF DeleteRow, DropStarts, Goto, Keep, Leave, ArrivesAtWork, Past,
     RowPlaces, Frame
<1>4. ASSUME NEW p \in Procs, NEW q \in Paths, Drop(p, q) PROVE ArrivesAtWork(s)
  BY <1>4, <1>0 DEF Drop, Leave, Keep, Goto, ArrivesAtWork, Past, RowPlaces, Frame
<1>5. ASSUME NEW p \in Procs, ReadStart(p) \/ ReadDecides(p) PROVE ArrivesAtWork(s)
  BY <1>5, <1>0 DEF ReadStart, ReadDecides, Goto, NoLookup, Settled, Answer,
     ArrivesAtWork, Past, RowPlaces, Frame
<1>6. ASSUME NEW p \in Procs, NEW q \in Paths, LookupRow(p, q) \/ LookupState(p, q) \/
   LookupObject(p, q) \/ LookupAgain(p, q) \/ LookupReopen(p, q) PROVE ArrivesAtWork(s)
  BY <1>6, <1>0 DEF LookupRow, LookupState, LookupObject, LookupAgain, LookupReopen,
     Lookup, Settle, KeyedOutcome, StartOver, NoLookup, ArrivesAtWork, Past, RowPlaces,
     Frame
<1>7. ASSUME NEW p \in Procs, Verify(p) \/ ReadPolicy(p) \/ ReadRow(p) \/
   LookAtCompressed(p) \/ Publish(p) PROVE ArrivesAtWork(s)
  BY <1>7, <1>0 DEF Verify, ReadPolicy, ReadRow, LookAtCompressed, Publish, Converts,
     Goto, Gives, Retry, Keep, Put, Leave, ArrivesAtWork, Past, RowPlaces, Frame
<1>8. ASSUME NEW p \in Procs, Replace(p) \/ Rename(p) \/ Recheck(p) PROVE ArrivesAtWork(s)
  BY <1>8, <1>0 DEF Replace, Rename, Recheck, Converts, Goto, Retry, Put, Gives, Keep,
     Leave, ArrivesAtWork, Past, RowPlaces, Frame
<1>9. ASSUME NEW p \in Procs, Finish(p) \/ Undo(p) \/ RemoveOriginal(p) \/ Mark(p) PROVE
   ArrivesAtWork(s)
  BY <1>9, <1>0 DEF Finish, Undo, RemoveOriginal, Mark, Converts, Goto, Gives, Leave, Keep,
     ArrivesAtWork, Past, RowPlaces, Frame
<1>10. ASSUME NEW p \in Procs, MigrationStarts(p) \/ ReadState(p) \/ ListRows(p) \/
   PassEnds(p) \/ Checkpoint(p) PROVE ArrivesAtWork(s)
  BY <1>10, <1>0 DEF MigrationStarts, ReadState, ListRows, PassEnds, Checkpoint, Works,
     Goto, Keep, Leave, ArrivesAtWork, Past, RowPlaces, Frame
<1>11. ASSUME NEW p \in Procs, MigrateKey(p) PROVE ArrivesAtWork(s)
  BY <1>11, <1>0 DEF MigrateKey, Works, Goto, ArrivesAtWork, Past, RowPlaces, Frame,
     RowsBegin, FirstPath
<1>12. ASSUME NEW p \in Procs, MigrateObject(p) PROVE ArrivesAtWork(s)
  <2>1. /\ file' = file
        /\ \/ loc'[p].path = loc[p].path /\ at' = [at EXCEPT ![p] = "encrypt"]
           \/ at' = [at EXCEPT ![p] = "checkpoint"]
           \/ /\ file[loc[p].path].form # "plain"
              /\ \/ loc[p].path = "br" /\ at' = [at EXCEPT ![p] = "migrate"]
                 \/ loc[p].path # "br" /\ at' = [at EXCEPT ![p] = "mark"]
        /\ at[p] \in {"migrate", "reread"} /\ \A r \in Procs : r # p => loc'[r] = loc[r]
    BY <1>12, <1>0 DEF MigrateObject, Works, NextPath, Goto, Keep, FirstPath,
       LooksEncrypted, bytesVars, Frame,
       Variables
  <2>2. CASE s # p
    BY <1>0, <2>1, <2>2 DEF ArrivesAtWork, Past, RowPlaces, Frame
  <2>3. CASE s = p
    BY <1>0, <1>p, <2>1, <2>3 DEF ArrivesAtWork, Past, RowPlaces, Frame
  <2>4. QED
    BY <2>2, <2>3
<1>13. ASSUME NEW p \in Procs, Encrypt(p) PROVE ArrivesAtWork(s)
  BY <1>13, <1>0 DEF Encrypt, Works, Goto, ArrivesAtWork, Past, RowPlaces, Frame
<1>14. ASSUME NEW p \in Procs, ReadBack(p) PROVE ArrivesAtWork(s)
  <2>1. /\ file' = file
        /\ \/ loc'[p].path = loc[p].path /\ at' = [at EXCEPT ![p] = "encrypt"]
           \/ at' = [at EXCEPT ![p] = "checkpoint"]
           \/ /\ file[loc[p].path].form # "plain"
              /\ \/ loc[p].path = "br" /\ at' = [at EXCEPT ![p] = "migrate"]
                 \/ loc[p].path # "br" /\ at' = [at EXCEPT ![p] = "mark"]
        /\ at[p] \in {"migrate", "reread"} /\ \A r \in Procs : r # p => loc'[r] = loc[r]
    BY <1>14, <1>0 DEF ReadBack, Works, NextPath, Goto, Keep, FirstPath, LooksEncrypted,
       bytesVars, Frame,
       Variables
  <2>2. CASE s # p
    BY <1>0, <2>1, <2>2 DEF ArrivesAtWork, Past, RowPlaces, Frame
  <2>3. CASE s = p
    BY <1>0, <1>p, <2>1, <2>3 DEF ArrivesAtWork, Past, RowPlaces, Frame
  <2>4. QED
    BY <2>2, <2>3
<1>15. ASSUME NEW p \in Procs, Overwrite(p) PROVE ArrivesAtWork(s)
  BY <1>15, <1>0 DEF Overwrite, Works, Put, Goto, ArrivesAtWork, Past, RowPlaces, Frame
<1>16. ASSUME NEW p \in Procs, MarkMigrated(p) PROVE ArrivesAtWork(s)
  BY <1>16, <1>0 DEF MarkMigrated, Works, Goto, ArrivesAtWork, Past, RowPlaces, Frame
<1>17. ASSUME NEW p \in Procs, InventoryState(p) \/ ListObjects(p) \/ InventoryEnds(p) \/
   Weigh(p) \/ Sweep(p) PROVE ArrivesAtWork(s)
  BY <1>17, <1>0 DEF InventoryState, ListObjects, InventoryEnds, Weigh, Sweep, Works,
     Goto, Keep, Leave, ArrivesAtWork, Past, RowPlaces, Frame
<1>18. ASSUME NEW p \in Procs, NEW q \in Paths, CheckOwner(p, q) PROVE ArrivesAtWork(s)
  BY <1>18, <1>0 DEF CheckOwner, Works, Goto, Keep, ArrivesAtWork, Past, RowPlaces, Frame,
     Owned, bytesVars
<1>19. ASSUME NEW p \in Procs, Crash(p) PROVE ArrivesAtWork(s)
  BY <1>19, <1>0 DEF Crash, Leave, NoLookup, Goto, Keep, ArrivesAtWork, Past, RowPlaces,
     Frame
<1>20. CASE Activate \/ UNCHANGED vars
  BY <1>20, <1>0 DEF Activate, vars, bytesVars, procVars, ArrivesAtWork, Past, RowPlaces
<1>21. ASSUME NEW p \in Procs, Upload(p) PROVE ArrivesAtWork(s)
  BY <1>21, <1>1, <1>2 DEF Upload
<1>22. ASSUME NEW p \in Procs, Delete(p) PROVE ArrivesAtWork(s)
  BY <1>22, <1>3, <1>4 DEF Delete
<1>23. ASSUME NEW p \in Procs, Read(p) PROVE ArrivesAtWork(s)
  BY <1>23, <1>5, <1>6 DEF Read
<1>24. ASSUME NEW p \in Procs, Convert(p) PROVE ArrivesAtWork(s)
  BY <1>24, <1>7, <1>8, <1>9 DEF Convert
<1>25. ASSUME NEW p \in Procs, Migrate(p) PROVE ArrivesAtWork(s)
  BY <1>25, <1>10, <1>11, <1>12, <1>13, <1>14, <1>15, <1>16 DEF Migrate
<1>26. ASSUME NEW p \in Procs, Inventory(p) PROVE ArrivesAtWork(s)
  BY <1>26, <1>17, <1>18 DEF Inventory
<1>27. QED
  BY <1>20, <1>21, <1>22, <1>23, <1>24, <1>25, <1>26, <1>2, <1>19 DEF Next, Proceed

(* Ciphertext of a listed report has its key: who encrypts has seen to it, *)
(* and the bytes a keyed upload wrote get theirs with the row.             *)
LEMMA NewCiphertext ==
    ASSUME TypeInv, KeyedReplace, [Next]_vars, NEW q \in Paths,
           file'[q].form = "cipher", file[q].form # "cipher"
    PROVE  \E p \in Procs : Encrypts(p) \/ (at[p] = "put" /\ keyed(p))
<1>1. PICK p \in Procs : Writes(p, q)
  BY WhoWrites
<1>2. QED
  BY <1>1 DEF Writes, Own, Encrypts, RowPlaces, KeyedReplace

(* A keyed upload's ciphertext and its key are listed together.            *)
LEMMA KeyedBytesStep ==
    ASSUME TypeInv, LifeInv, CipherHasKey, [Next]_vars PROVE KeyedBytes' /\ KeyedUpload'
<1>0. Frame /\ sc' = sc /\ KeyedReplace
  BY FrameHolds, ScenarioIsFixed DEF CipherHasKey
<1>1. KeyedBytes'
  <2> SUFFICES ASSUME row'.is = "live", NEW q \in Paths, file'[q].form = "cipher" PROVE row'.key
    BY DEF KeyedBytes, IsLive
  <2>1. CASE row.is = "live" /\ (row.key => row'.key)
    <3>1. CASE file[q].form = "cipher"
      BY <2>1, <3>1 DEF CipherHasKey, KeyedBytes, IsLive
    <3>2. CASE file[q].form # "cipher"
      <4>1. PICK p \in Procs : Encrypts(p) \/ at[p] = "put"
        BY <1>0, <3>2, NewCiphertext
      <4>2. at[p] # "put"
        BY <2>1, NotListed
      <4>3. QED
        BY <2>1, <4>1, <4>2 DEF CipherHasKey, KeyedWork, IsLive
    <3>3. QED
      BY <3>1, <3>2
  <2>2. ASSUME NEW p \in Procs, CommitsOf(p) PROVE row'.key
    <3>1. row.is = "none" /\ sc.role[p] = "upload" /\ file[q].form = "cipher"
      BY <2>2 DEF CommitsOf
    <3>2. keyed(p)
      BY <3>1 DEF CipherHasKey, KeyedUpload
    <3>3. QED
      BY <2>2, <3>2 DEF CommitsOf
  <2>3. QED
    BY <2>1, <2>2, Listed
<1>2. KeyedUpload'
  <2> SUFFICES ASSUME row'.is = "none", NEW q \in Paths, file'[q].form = "cipher",
                      NEW s \in Procs, sc.role[s] = "upload"
               PROVE  keyed(s)
    BY <1>0 DEF KeyedUpload, keyed
  <2>1. row.is = "none"
    BY RowStep DEF RowGrows, Commit, DeleteRow, NoRow
  <2>2. CASE file[q].form = "cipher"
    BY <2>1, <2>2 DEF CipherHasKey, KeyedUpload
  <2>3. CASE file[q].form # "cipher"
    <3>1. PICK p \in Procs : Encrypts(p) \/ (at[p] = "put" /\ keyed(p))
      BY <1>0, <2>3, NewCiphertext
    <3>2. ~Encrypts(p)
      BY <2>1 DEF LifeInv, RowLife, Encrypts, ConvertPlaces
    <3>3. sc.role[p] = "upload"
      BY <3>1, <3>2, RoleOfPlace DEF UploadPlaces
    <3>4. p = s
      BY <3>3, ScenarioFacts DEF TypeInv
    <3>5. QED
      BY <3>1, <3>2, <3>4
  <2>4. QED
    BY <2>2, <2>3
<1>3. QED
  BY <1>1, <1>2

(* Every step keeps the key of the ciphertext.                             *)
LEMMA CipherHasKeyStep ==
    ASSUME TypeInv, LifeInv, CipherHasKey, [Next]_vars PROVE CipherHasKey'
<1>1. KeyedBytes' /\ KeyedUpload'
  BY KeyedBytesStep
<1>2. KeyedWork' /\ KeyedReplace'
  BY KeyedWorkStep, KeyedReplaceStep DEF CipherHasKey
<1>3. QED
  BY <1>1, <1>2 DEF CipherHasKey

-----------------------------------------------------------------------------
(* Who changes the form of an object of a listed report: no upload, no     *)
(* delete and no inventory.                                                *)
LEMMA ListedBytes ==
    ASSUME TypeInv, LifeInv, BytesInv, [Next]_vars, row.is = "live",
           NEW q \in Paths, file'[q].form # file[q].form
    PROVE  \E p \in Procs :
              \/ q = "br" /\ at[p] = "publish" /\ ~There("br") /\ file'[q].form = Own(p)
                    /\ stray' = (stray \/ (~keyed(p) /\ policy.enabled))
              \/ at[p] \in {"rename", "overwrite"} /\ file'[q].form = "cipher"
              \/ q = "orig" /\ at[p] = "unlink" /\ file'[q].form = "none"
<1>1. PICK p \in Procs : Writes(p, q)
  BY WhoWrites
<1>2. at[p] \notin {"put", "discard", "dropping", "undo"}
  BY NotListed DEF DropPlaces, LifeInv, RowLife
<1>3. ASSUME at[p] = "sweep", file[q] = loc[p].got PROVE FALSE
  <2>1. row.enc /\ sc.stored = "nothing" /\ ~There("orig")
    BY <1>3 DEF BytesInv, SweepsOrphans, IsLive, LifeInv, NoOriginal, OriginalIsOut
  <2>2. file["br"].form # "plain"
    BY <2>1 DEF BytesInv, CompressedEncrypted, IsLive
  <2>3. file[q].form = "plain"
    BY <1>3 DEF LifeInv, OnlyPlainIsSwept
  <2>4. QED
    BY <2>1, <2>2, <2>3 DEF Paths, There
<1>4. ASSUME at[p] = "sweep", ~There(q), file'[q].form = "none" PROVE FALSE
  BY <1>4 DEF There
<1>5. QED
  BY <1>1, <1>2, <1>3, <1>4 DEF Writes

(* Plaintext once left behind stays recorded.                              *)
LEMMA StrayStays == ASSUME TypeInv, [Next]_vars, stray PROVE stray'
<1>1. ASSUME NEW p \in Procs, UploadPut(p) \/ UploadFence(p) \/ Discard(p) \/ Insert(p) \/
   Commit(p) \/ Resolve(p) \/ LoseAck(p) PROVE stray'
  BY <1>1 DEF UploadPut, UploadFence, Discard, Insert, Commit, Resolve, LoseAck, Put,
     bytesVars, Leave
<1>2. ASSUME NEW p \in Procs, DeleteRow(p) PROVE stray'
  BY <1>2 DEF DeleteRow, bytesVars
<1>3. ASSUME NEW p \in Procs, DropStarts(p) PROVE stray'
  BY <1>3 DEF DropStarts, Leave
<1>4. ASSUME NEW p \in Procs, NEW q \in Paths, Drop(p, q) PROVE stray'
  BY <1>4 DEF Drop, Leave
<1>5. ASSUME NEW p \in Procs, ReadStart(p) \/ ReadDecides(p) PROVE stray'
  BY <1>5 DEF ReadStart, ReadDecides, bytesVars
<1>6. ASSUME NEW p \in Procs, NEW q \in Paths, LookupRow(p, q) \/ LookupState(p, q) \/
   LookupObject(p, q) \/ LookupAgain(p, q) \/ LookupReopen(p, q) PROVE stray'
  BY <1>6 DEF LookupRow, LookupState, LookupObject, LookupAgain, LookupReopen, Lookup,
     bytesVars
<1>7. ASSUME NEW p \in Procs, Verify(p) \/ ReadPolicy(p) \/ ReadRow(p) \/
   LookAtCompressed(p) \/ Replace(p) \/ Rename(p) \/ Recheck(p) \/ Finish(p) \/ Undo(p) \/
   RemoveOriginal(p) \/ Mark(p) PROVE stray'
  BY <1>7 DEF Verify, ReadPolicy, ReadRow, LookAtCompressed, Replace, Rename, Recheck,
     Finish, Undo, RemoveOriginal, Mark, Converts, Gives, bytesVars, Retry, Put, Leave
<1>8. ASSUME NEW p \in Procs, Publish(p) PROVE stray'
  BY <1>8 DEF Publish, Converts, CreateOnly, Put, Gives, Retry, bytesVars, There, Leave
<1>9. ASSUME NEW p \in Procs, MigrationStarts(p) \/ ReadState(p) \/ ListRows(p) \/
   PassEnds(p) \/ MigrateKey(p) \/ MigrateObject(p) \/ Encrypt(p) \/ Overwrite(p) \/
   ReadBack(p) \/ MarkMigrated(p) \/ Checkpoint(p) PROVE stray'
  BY <1>9 DEF MigrationStarts, ReadState, ListRows, PassEnds, MigrateKey, MigrateObject,
     Encrypt, Overwrite, ReadBack, MarkMigrated, Checkpoint, Works, bytesVars, Leave,
     NextPath, Put
<1>10. ASSUME NEW p \in Procs, InventoryState(p) \/ ListObjects(p) \/ Weigh(p) \/ Sweep(p)
   \/ InventoryEnds(p) PROVE stray'
  BY <1>10 DEF InventoryState, ListObjects, Weigh, Sweep, InventoryEnds, Works, bytesVars,
     Leave
<1>11. ASSUME NEW p \in Procs, NEW q \in Paths, CheckOwner(p, q) PROVE stray'
  BY <1>11 DEF CheckOwner, Works, bytesVars
<1>12. ASSUME NEW p \in Procs, Crash(p) PROVE stray'
  BY <1>12 DEF Crash, Leave, bytesVars
<1>13. CASE Activate \/ UNCHANGED vars
  BY <1>13 DEF Activate, vars, bytesVars, procVars
<1>14. ASSUME NEW p \in Procs, Upload(p) PROVE stray'
  BY <1>14, <1>1 DEF Upload
<1>15. ASSUME NEW p \in Procs, Delete(p) PROVE stray'
  BY <1>15, <1>2, <1>3, <1>4 DEF Delete
<1>16. ASSUME NEW p \in Procs, Read(p) PROVE stray'
  BY <1>16, <1>5, <1>6 DEF Read
<1>17. ASSUME NEW p \in Procs, Convert(p) PROVE stray'
  BY <1>17, <1>7, <1>8 DEF Convert
<1>18. ASSUME NEW p \in Procs, Migrate(p) PROVE stray'
  BY <1>18, <1>9 DEF Migrate
<1>19. ASSUME NEW p \in Procs, Inventory(p) PROVE stray'
  BY <1>19, <1>10, <1>11 DEF Inventory
<1>20. QED
  BY <1>13, <1>14, <1>15, <1>16, <1>17, <1>18, <1>19, <1>1, <1>12 DEF Next, Proceed

(* A pass is found complete only when the row is not pending.              *)
PassCompletes == policy'.complete => policy.complete \/ (~Pending /\ row' = row)

(* No other step completes a pass.                                         *)
LEMMA PassCompletesStep == ASSUME TypeInv, [Next]_vars PROVE PassCompletes
<1>0. Frame
  BY FrameHolds
<1>1. ASSUME NEW p \in Procs, UploadPut(p) \/ UploadFence(p) \/ Discard(p) \/ Insert(p) \/
   Commit(p) \/ Resolve(p) \/ LoseAck(p) PROVE PassCompletes
  BY <1>1 DEF UploadPut, UploadFence, Discard, Insert, Commit, Resolve, LoseAck, Put,
     FenceIsOff, Leave, InsertValid, PassCompletes
<1>2. ASSUME NEW p \in Procs, DeleteRow(p) \/ DropStarts(p) PROVE PassCompletes
  BY <1>2 DEF DeleteRow, DropStarts, Leave, PassCompletes
<1>3. ASSUME NEW p \in Procs, NEW q \in Paths, Drop(p, q) PROVE PassCompletes
  BY <1>3 DEF Drop, Leave, PassCompletes
<1>4. ASSUME NEW p \in Procs, ReadStart(p) \/ ReadDecides(p) PROVE PassCompletes
  BY <1>4 DEF ReadStart, ReadDecides, PassCompletes
<1>5. ASSUME NEW p \in Procs, NEW q \in Paths, LookupRow(p, q) \/ LookupState(p, q) \/
   LookupObject(p, q) \/ LookupAgain(p, q) \/ LookupReopen(p, q) PROVE PassCompletes
  BY <1>5 DEF LookupRow, LookupState, LookupObject, LookupAgain, LookupReopen, Lookup,
     PassCompletes
<1>6. ASSUME NEW p \in Procs, Verify(p) \/ ReadPolicy(p) \/ ReadRow(p) \/
   LookAtCompressed(p) \/ Publish(p) \/ Replace(p) \/ Rename(p) \/ Recheck(p)
   \/ Finish(p) \/ Undo(p)
   \/ RemoveOriginal(p) \/ Mark(p) PROVE PassCompletes
  BY <1>6 DEF Verify, ReadPolicy, ReadRow, LookAtCompressed, Publish, Replace, Rename,
     Recheck, Finish, Undo, RemoveOriginal, Mark, Converts, Gives, FenceIsOff, Retry, Put,
     Leave, PassCompletes
<1>7. ASSUME NEW p \in Procs, MigrationStarts(p) \/ ReadState(p) \/ ListRows(p) \/
   MigrateKey(p) \/ MigrateObject(p) \/ Encrypt(p) \/ Overwrite(p) \/ ReadBack(p) \/
   MarkMigrated(p) PROVE PassCompletes
  BY <1>7 DEF MigrationStarts, ReadState, ListRows, MigrateKey, MigrateObject, Encrypt,
     Overwrite, ReadBack, MarkMigrated, Works, NextPath, Put, PassCompletes
<1>8. ASSUME NEW p \in Procs, PassEnds(p) PROVE PassCompletes
  BY <1>8, <1>0 DEF PassEnds, Works, NothingPending, Leave, Pending, PassCompletes, Frame
<1>9. ASSUME NEW p \in Procs, Checkpoint(p) PROVE PassCompletes
  BY <1>9, <1>0 DEF Checkpoint, Works, Leave, PassCompletes, Frame
<1>10. ASSUME NEW p \in Procs, InventoryState(p) \/ ListObjects(p) \/ Weigh(p) \/ Sweep(p)
   PROVE PassCompletes
  BY <1>10 DEF InventoryState, ListObjects, Weigh, Sweep, Works, Leave, PassCompletes
<1>11. ASSUME NEW p \in Procs, NEW q \in Paths, CheckOwner(p, q) PROVE PassCompletes
  BY <1>11 DEF CheckOwner, Works, PassCompletes
<1>12. ASSUME NEW p \in Procs, InventoryEnds(p) PROVE PassCompletes
  BY <1>12, <1>0 DEF InventoryEnds, Works, Leave, PassCompletes, Frame
<1>13. ASSUME NEW p \in Procs, Crash(p) PROVE PassCompletes
  BY <1>13 DEF Crash, Leave, PassCompletes
<1>14. CASE Activate \/ UNCHANGED vars
  BY <1>14, <1>0 DEF Activate, vars, bytesVars, procVars, PassCompletes, Frame
<1>15. ASSUME NEW p \in Procs, Upload(p) PROVE PassCompletes
  BY <1>15, <1>1 DEF Upload
<1>16. ASSUME NEW p \in Procs, Delete(p) PROVE PassCompletes
  BY <1>16, <1>2, <1>3 DEF Delete
<1>17. ASSUME NEW p \in Procs, Read(p) PROVE PassCompletes
  BY <1>17, <1>4, <1>5 DEF Read
<1>18. ASSUME NEW p \in Procs, Convert(p) PROVE PassCompletes
  BY <1>18, <1>6 DEF Convert
<1>19. ASSUME NEW p \in Procs, Migrate(p) PROVE PassCompletes
  BY <1>19, <1>7, <1>8, <1>9 DEF Migrate
<1>20. ASSUME NEW p \in Procs, Inventory(p) PROVE PassCompletes
  BY <1>20, <1>10, <1>11, <1>12 DEF Inventory
<1>21. QED
  BY <1>14, <1>15, <1>16, <1>17, <1>18, <1>19, <1>20, <1>1, <1>13 DEF Next, Proceed

(* A worker lists and locks a row with its variables as they were made.    *)
LEMMA RowsBeginStep ==
    ASSUME TypeInv, RowsBegin, [Next]_vars, NEW s \in Procs, at'[s] \in {"list", "key"}
    PROVE  loc'[s].path = FirstPath
<1>0. Frame
  BY FrameHolds
<1>1. ASSUME NEW p \in Procs, UploadPut(p) \/ Discard(p) \/ UploadFence(p) \/ Insert(p)
   PROVE loc'[s].path = FirstPath
  BY <1>1, <1>0 DEF UploadPut, Discard, UploadFence, Insert, Put, Goto, Leave, Keep,
     RowsBegin, FirstPath, Frame
<1>2. ASSUME NEW p \in Procs, Commit(p) \/ Resolve(p) \/ LoseAck(p) PROVE loc'[s].path =
   FirstPath
  BY <1>2, <1>0 DEF Commit, Resolve, LoseAck, Goto, RowsBegin, FirstPath, Frame
<1>3. ASSUME NEW p \in Procs, DeleteRow(p) \/ DropStarts(p) PROVE loc'[s].path = FirstPath
  BY <1>3, <1>0 DEF DeleteRow, DropStarts, Goto, Keep, Leave, RowsBegin, FirstPath, Frame
<1>4. ASSUME NEW p \in Procs, NEW q \in Paths, Drop(p, q) PROVE loc'[s].path = FirstPath
  BY <1>4, <1>0 DEF Drop, Leave, Keep, Goto, RowsBegin, FirstPath, Frame
<1>5. ASSUME NEW p \in Procs, ReadStart(p) \/ ReadDecides(p) PROVE loc'[s].path = FirstPath
  BY <1>5, <1>0 DEF ReadStart, ReadDecides, Goto, NoLookup, Settled, Answer, RowsBegin,
     FirstPath, Frame
<1>6. ASSUME NEW p \in Procs, NEW q \in Paths, LookupRow(p, q) \/ LookupState(p, q) \/
   LookupObject(p, q) \/ LookupAgain(p, q) \/ LookupReopen(p, q) PROVE loc'[s].path =
   FirstPath
  BY <1>6, <1>0 DEF LookupRow, LookupState, LookupObject, LookupAgain, LookupReopen,
     Lookup, Settle, KeyedOutcome, StartOver, NoLookup, RowsBegin, FirstPath, Frame
<1>7. ASSUME NEW p \in Procs, Verify(p) \/ ReadPolicy(p) \/ ReadRow(p) PROVE loc'[s].path =
   FirstPath
  BY <1>7, <1>0 DEF Verify, ReadPolicy, ReadRow, Converts, Goto, Gives, Leave, Keep,
     RowsBegin, FirstPath, Frame
<1>8. ASSUME NEW p \in Procs, LookAtCompressed(p) \/ Publish(p) PROVE loc'[s].path =
   FirstPath
  BY <1>8, <1>0 DEF LookAtCompressed, Publish, Converts, Retry, Goto, Keep, Put, Gives,
     Leave, RowsBegin, FirstPath, Frame
<1>9. ASSUME NEW p \in Procs, Replace(p) \/ Rename(p) \/ Recheck(p) PROVE loc'[s].path =
   FirstPath
  BY <1>9, <1>0 DEF Replace, Rename, Recheck, Converts, Goto, Retry, Put, Gives, Keep,
     Leave, RowsBegin, FirstPath, Frame
<1>10. ASSUME NEW p \in Procs, Finish(p) \/ Undo(p) \/ RemoveOriginal(p) \/ Mark(p) PROVE
   loc'[s].path
   = FirstPath
  BY <1>10, <1>0 DEF Finish, Undo, RemoveOriginal, Mark, Converts, Goto, Gives, Leave, Keep,
     RowsBegin, FirstPath, Frame
<1>11. ASSUME NEW p \in Procs, MigrationStarts(p) \/ ListRows(p) PROVE loc'[s].path =
   FirstPath
  BY <1>11, <1>0 DEF MigrationStarts, ListRows, Works, Goto, RowsBegin, FirstPath, Frame
<1>12. ASSUME NEW p \in Procs, ReadState(p) PROVE loc'[s].path = FirstPath
  BY <1>12, <1>0 DEF ReadState, Works, Goto, Keep, RowsBegin, FirstPath, Frame, Blank,
     Variables
<1>13. ASSUME NEW p \in Procs, PassEnds(p) \/ Checkpoint(p) PROVE loc'[s].path = FirstPath
  BY <1>13, <1>0 DEF PassEnds, Checkpoint, Works, Leave, Goto, Keep, RowsBegin, FirstPath,
     Frame
<1>14. ASSUME NEW p \in Procs, MigrateKey(p) PROVE loc'[s].path = FirstPath
  BY <1>14, <1>0 DEF MigrateKey, Works, Goto, RowsBegin, FirstPath, Frame
<1>15. ASSUME NEW p \in Procs, MigrateObject(p) \/ Encrypt(p) \/ ReadBack(p) PROVE
   loc'[s].path = FirstPath
  BY <1>15, <1>0 DEF MigrateObject, Encrypt, ReadBack, Works, Goto, Keep, NextPath,
     RowsBegin, FirstPath, Frame
<1>16. ASSUME NEW p \in Procs, Overwrite(p) PROVE loc'[s].path = FirstPath
  BY <1>16, <1>0 DEF Overwrite, Works, Put, Goto, RowsBegin, FirstPath, Frame
<1>17. ASSUME NEW p \in Procs, MarkMigrated(p) PROVE loc'[s].path = FirstPath
  BY <1>17, <1>0 DEF MarkMigrated, Works, Goto, RowsBegin, FirstPath, Frame
<1>18. ASSUME NEW p \in Procs, InventoryState(p) \/ ListObjects(p) \/ InventoryEnds(p) \/
   Weigh(p) \/ Sweep(p) PROVE loc'[s].path = FirstPath
  BY <1>18, <1>0 DEF InventoryState, ListObjects, InventoryEnds, Weigh, Sweep, Works,
     Goto, Keep, Leave, RowsBegin, FirstPath, Frame
<1>19. ASSUME NEW p \in Procs, NEW q \in Paths, CheckOwner(p, q) PROVE loc'[s].path =
   FirstPath
  BY <1>19, <1>0 DEF CheckOwner, Works, Goto, Keep, RowsBegin, FirstPath, Frame
<1>20. ASSUME NEW p \in Procs, Crash(p) PROVE loc'[s].path = FirstPath
  BY <1>20, <1>0 DEF Crash, Leave, NoLookup, Goto, Keep, RowsBegin, FirstPath, Frame
<1>21. CASE Activate \/ UNCHANGED vars
  BY <1>21, <1>0 DEF Activate, vars, bytesVars, procVars, RowsBegin, FirstPath, Frame
<1>22. ASSUME NEW p \in Procs, Upload(p) PROVE loc'[s].path = FirstPath
  BY <1>22, <1>1, <1>2 DEF Upload
<1>23. ASSUME NEW p \in Procs, Delete(p) PROVE loc'[s].path = FirstPath
  BY <1>23, <1>3, <1>4 DEF Delete
<1>24. ASSUME NEW p \in Procs, Read(p) PROVE loc'[s].path = FirstPath
  BY <1>24, <1>5, <1>6 DEF Read
<1>25. ASSUME NEW p \in Procs, Convert(p) PROVE loc'[s].path = FirstPath
  BY <1>25, <1>7, <1>8, <1>9, <1>10 DEF Convert
<1>26. ASSUME NEW p \in Procs, Migrate(p) PROVE loc'[s].path = FirstPath
  BY <1>26, <1>11, <1>12, <1>13, <1>14, <1>15, <1>16, <1>17 DEF Migrate
<1>27. ASSUME NEW p \in Procs, Inventory(p) PROVE loc'[s].path = FirstPath
  BY <1>27, <1>18, <1>19 DEF Inventory
<1>28. QED
  BY <1>21, <1>22, <1>23, <1>24, <1>25, <1>26, <1>27, <1>2, <1>20 DEF Next, Proceed

(* A commit finds the row not there and the bytes of its upload.           *)
LEMMA CommitFinds ==
    ASSUME TypeInv, LifeInv, NEW p \in Procs, CommitsOf(p)
    PROVE  /\ file'["br"].form = Own(p) /\ file'["orig"].form = "none"
           /\ \A s \in Procs : at'[s] \notin ConvertPlaces \union RowPlaces
           /\ policy'.complete \/ (\E s \in Procs : at'[s] \in WorkPlaces) => keyed(p)
<1>1. /\ lock = p /\ lock # Nobody /\ row.is = "none" /\ sc.stored = "nothing"
      /\ file' = file /\ policy' = policy /\ \A s \in Procs : at'[s] \in {at[s], "done"}
  BY FrameHolds DEF CommitsOf, Frame
<1>2. file["br"].form = Own(p) /\ file["orig"].form = "none"
  BY <1>1 DEF LifeInv, UploadHasBytes, NoOriginal, OriginalIsOut, There
<1>3. \A s \in Procs : at'[s] \notin ConvertPlaces \union RowPlaces
  BY <1>1 DEF LifeInv, RowLife, ConvertPlaces, RowPlaces
<1>4. ASSUME policy'.complete \/ \E s \in Procs : at'[s] \in WorkPlaces PROVE keyed(p)
  <2>1. policy.complete \/ \E s \in Procs : at[s] \in WorkPlaces
    BY <1>1, <1>4 DEF WorkPlaces, RowPlaces
  <2>2. policy.enabled
    BY <2>1 DEF LifeInv, Activation, OnlyEnabled
  <2>3. QED
    BY <1>1, <2>2 DEF LifeInv, Activation
<1>5. QED
  BY <1>1, <1>2, <1>3, <1>4

(* A published object stays until its conversion is over.                  *)
LEMMA PublishedStep == ASSUME TypeInv, LifeInv, BytesInv, [Next]_vars PROVE Published'
<1> DEFINE Late == {"recheck", "finish", "unlink", "marking"}
<1>0. sc' = sc /\ Published /\ KeyedReplace
  BY ScenarioIsFixed DEF BytesInv, CipherHasKey
<1> SUFFICES ASSUME row'.is = "live", NEW s \in Procs, at'[s] \in Late
             PROVE  file'["br"].form # "none" /\ (keyed(s) => file'["br"].form = "cipher")
  BY <1>0 DEF Published, IsLive, There, keyed
<1>1. ASSUME NEW p \in Procs, CommitsOf(p) PROVE FALSE
  BY <1>1, CommitFinds DEF ConvertPlaces
<1>2. CASE row.is = "live"
  <2>1. CASE at[s] \notin Late
    BY <1>0, <2>1, ArrivesToFinishStep DEF ArrivesToFinish
  <2>2. CASE at[s] \in Late
    <3>1. There("br") /\ (keyed(s) => file["br"].form = "cipher")
      BY <1>0, <1>2, <2>2 DEF Published, IsLive
    <3>2. CASE file'["br"].form = file["br"].form
      BY <3>1, <3>2 DEF There
    <3>3. CASE file'["br"].form # file["br"].form
      BY <1>2, <3>1, <3>3, ListedBytes DEF Paths
    <3>4. QED
      BY <3>2, <3>3
  <2>3. QED
    BY <2>1, <2>2
<1>3. QED
  BY <1>1, <1>2, Listed

(* No plaintext original of a report that counts as encrypted.             *)
LEMMA OriginalEncryptedStep ==
    ASSUME TypeInv, LifeInv, BytesInv, [Next]_vars PROVE OriginalEncrypted'
<1> SUFFICES ASSUME row'.is = "live", file'["orig"].form = "plain",
                    row'.enc \/ \E p \in Procs : at'[p] \in {"mark", "marking"}
             PROVE  FALSE
  BY DEF OriginalEncrypted, IsLive
<1>0. OriginalEncrypted /\ KeyedReplace /\ RowsBegin
  BY DEF BytesInv, CipherHasKey
<1>1. ASSUME NEW p \in Procs, CommitsOf(p) PROVE FALSE
  BY <1>1, CommitFinds
<1>2. CASE row.is = "live"
  <2>1. file["orig"].form = "plain"
    <3>1. CASE file'["orig"].form # file["orig"].form
      BY <1>2, <3>1, ListedBytes DEF Paths
    <3>2. QED
      BY <3>1
  <2>2. ~row.enc /\ \A p \in Procs : at[p] \notin {"mark", "marking"}
    BY <1>0, <1>2, <2>1 DEF OriginalEncrypted, IsLive
  <2>3. ~row'.enc
    <3>1. ASSUME NEW p \in Procs, Commit(p) \/ DeleteRow(p) PROVE FALSE
      <4>1. CASE Commit(p)
        BY <1>2, <4>1, NotListed, FrameHolds DEF Commit, Frame
      <4>2. CASE DeleteRow(p)
        BY <4>2 DEF DeleteRow, NoRow
      <4>3. QED
        BY <3>1, <4>1, <4>2
    <3>2. QED
      BY <2>2, <3>1, RowStep DEF RowGrows
  <2>4. \A p \in Procs : at'[p] \notin {"mark", "marking"}
    BY <1>0, <2>2, ArrivesAtWorkStep, ArrivesToFinishStep DEF ArrivesAtWork, ArrivesToFinish
  <2>5. QED
    BY <2>3, <2>4
<1>3. QED
  BY <1>1, <1>2, Listed

(* Nor a plaintext compressed object, unless it was published late.        *)
LEMMA CompressedEncryptedStep ==
    ASSUME TypeInv, LifeInv, BytesInv, [Next]_vars PROVE CompressedEncrypted'
<1> SUFFICES ASSUME row'.is = "live", file'["br"].form = "plain",
                    row'.enc \/ \E p \in Procs : Past(p)'
             PROVE  /\ file'["orig"].form # "none" /\ stray'
                    /\ \A p \in Procs : at'[p] \notin {"finish", "unlink"}
  BY DEF CompressedEncrypted, IsLive, There
<1>0. /\ Frame /\ KeyedReplace /\ RowsBegin /\ Published /\ CompressedEncrypted
      /\ There("orig") \/ There("br") \/ row.is # "live"
  BY FrameHolds DEF BytesInv, CipherHasKey, IsLive
<1>1. ASSUME NEW p \in Procs, CommitsOf(p) PROVE FALSE
  <2>1. ~keyed(p) /\ \A s \in Procs : at'[s] \notin RowPlaces
    BY <1>1, CommitFinds DEF Own
  <2>2. \A s \in Procs : ~Past(s)'
    BY <2>1 DEF Past, RowPlaces
  <2>3. QED
    BY <1>1, <2>1, <2>2 DEF CommitsOf
<1>2. CASE row.is = "live"
  <2>1. row.enc \/ \E p \in Procs : Past(p)
    <3>1. ASSUME NEW p \in Procs, Past(p)' PROVE Past(p)
      BY <1>0, <3>1, ArrivesAtWorkStep DEF ArrivesAtWork
    <3>2. ASSUME NEW p \in Procs, at[p] = "marking", file' = file PROVE FALSE
      BY <1>0, <1>2, <3>2 DEF Published, KeyedReplace, IsLive
    <3>3. ASSUME NEW p \in Procs, at[p] = "mark" PROVE Past(p)
      BY <3>3 DEF Past
    <3>4. ASSUME NEW p \in Procs, Commit(p) \/ DeleteRow(p) PROVE FALSE
      <4>1. CASE Commit(p)
        BY <1>0, <1>2, <4>1, NotListed DEF Commit, Frame
      <4>2. CASE DeleteRow(p)
        BY <4>2 DEF DeleteRow, NoRow
      <4>3. QED
        BY <3>4, <4>1, <4>2
    <3>5. CASE row'.enc
      BY <3>2, <3>3, <3>4, <3>5, RowStep DEF RowGrows
    <3>6. QED
      BY <3>1, <3>5
  <2>2. policy.enabled
    BY <1>0, <2>1 DEF Frame, LifeInv, Activation, OnlyEnabled, Past, WorkPlaces, RowPlaces
  <2>3. CASE file["br"].form = "plain"
    <3>1. There("orig") /\ stray /\ \A p \in Procs : at[p] \notin {"finish", "unlink"}
      BY <1>0, <1>2, <2>1, <2>3 DEF CompressedEncrypted, IsLive
    <3>2. file'["orig"].form # "none"
      <4>1. CASE file'["orig"].form # file["orig"].form
        BY <1>2, <3>1, <4>1, ListedBytes DEF Paths
      <4>2. QED
        BY <3>1, <4>1 DEF There
    <3>3. ASSUME NEW p \in Procs, at'[p] \in {"finish", "unlink"} PROVE FALSE
      <4>1. at[p] = "recheck" /\ keyed(p)
        BY <1>0, <2>2, <3>1, <3>3, ArrivesToFinishStep DEF ArrivesToFinish
      <4>2. QED
        BY <1>0, <1>2, <2>3, <4>1 DEF Published, IsLive
    <3>4. QED
      BY <3>1, <3>2, <3>3, StrayStays
  <2>4. CASE file["br"].form # "plain"
    <3>1. ~There("br") /\ stray'
      BY <1>2, <2>2, <2>4, ListedBytes DEF Paths, Own
    <3>2. /\ There("orig")
          /\ \A p \in Procs : at[p] \notin {"recheck", "finish", "unlink", "marking"}
      BY <1>0, <1>2, <3>1 DEF Published, IsLive
    <3>3. file'["orig"].form # "none"
      <4>1. CASE file'["orig"].form # file["orig"].form
        BY <1>2, <3>2, <4>1, ListedBytes DEF Paths
      <4>2. QED
        BY <3>2, <4>1 DEF There
    <3>4. \A p \in Procs : at'[p] \notin {"finish", "unlink"}
      BY <1>0, <3>2, ArrivesToFinishStep DEF ArrivesToFinish
    <3>5. QED
      BY <3>1, <3>3, <3>4
  <2>5. QED
    BY <2>3, <2>4
<1>3. QED
  BY <1>1, <1>2, Listed

(* Migration is complete only over marked rows.                            *)
LEMMA CompleteIsMarkedStep ==
    ASSUME TypeInv, LifeInv, BytesInv, [Next]_vars PROVE CompleteIsMarked'
<1> SUFFICES ASSUME row'.is = "live", policy'.complete PROVE row'.enc
  BY DEF CompleteIsMarked, IsLive
<1>1. ASSUME NEW p \in Procs, CommitsOf(p) PROVE row'.enc
  BY <1>1, CommitFinds DEF CommitsOf
<1>2. CASE row.is = "live" /\ (row.enc => row'.enc)
  <2>1. CASE policy.complete
    BY <1>2, <2>1 DEF BytesInv, CompleteIsMarked, IsLive
  <2>2. CASE ~Pending /\ row' = row
    BY <1>2, <2>2 DEF Pending
  <2>3. QED
    BY <2>1, <2>2, PassCompletesStep DEF PassCompletes
<1>3. QED
  BY <1>1, <1>2, Listed

(* The inventory is after a report that is not listed, or not pending.     *)
LEMMA SweepsOrphansStep ==
    ASSUME TypeInv, LifeInv, BytesInv, [Next]_vars PROVE SweepsOrphans'
<1>0. sc' = sc /\ SweepsOrphans /\ RowsBegin
  BY ScenarioIsFixed DEF BytesInv
<1> SUFFICES ASSUME row'.is = "live", NEW s \in Procs, at'[s] \in {"weigh", "sweep"}
             PROVE  row'.enc /\ sc.stored = "nothing"
  BY <1>0 DEF SweepsOrphans, IsLive
<1>1. ASSUME NEW p \in Procs, CommitsOf(p) PROVE row'.enc /\ sc.stored = "nothing"
  <2>1. at'[s] \in WorkPlaces
    BY DEF WorkPlaces
  <2>2. QED
    BY <1>1, <2>1, CommitFinds DEF CommitsOf
<1>2. CASE row.is = "live" /\ (row.enc => row'.enc)
  BY <1>0, <1>2, ArrivesAtWorkStep DEF ArrivesAtWork, SweepsOrphans, IsLive
<1>3. QED
  BY <1>1, <1>2, Listed

(* A listed report keeps an object.                                        *)
LEMMA ReachStep ==
    ASSUME TypeInv, LifeInv, BytesInv, [Next]_vars, row'.is = "live"
    PROVE  file'["orig"].form # "none" \/ file'["br"].form # "none"
<1>1. ASSUME NEW p \in Procs, CommitsOf(p) PROVE file'["br"].form # "none"
  BY <1>1, CommitFinds DEF Own
<1>2. CASE row.is = "live"
  <2>1. CASE There("br")
    <3>1. CASE file'["br"].form # file["br"].form
      BY <1>2, <3>1, ListedBytes DEF Paths, Own
    <3>2. QED
      BY <2>1, <3>1 DEF There
  <2>2. CASE ~There("br")
    <3>1. There("orig") /\ \A p \in Procs : at[p] # "unlink"
      BY <1>2, <2>2 DEF BytesInv, Published, IsLive
    <3>2. CASE file'["orig"].form # file["orig"].form
      BY <1>2, <3>1, <3>2, ListedBytes DEF Paths
    <3>3. QED
      BY <3>1, <3>2 DEF There
  <2>3. QED
    BY <2>1, <2>2
<1>3. QED
  BY <1>1, <1>2, Listed

(* What is known of the bytes of a listed report is kept by every step.    *)
LEMMA BytesStep == ASSUME TypeInv, LifeInv, BytesInv, [Next]_vars PROVE BytesInv'
<1>1. CipherHasKey'
  BY CipherHasKeyStep DEF BytesInv
<1>2. RowsBegin'
  BY RowsBeginStep DEF BytesInv, RowsBegin
<1>3. IsLive' => There("orig")' \/ There("br")'
  BY ReachStep DEF IsLive, There
<1>4. QED
  BY <1>1, <1>2, <1>3, PublishedStep, OriginalEncryptedStep, CompressedEncryptedStep,
     CompleteIsMarkedStep, SweepsOrphansStep
  DEF BytesInv

-----------------------------------------------------------------------------
(* At first there is no ciphertext, and nobody is about his work.          *)
LEMMA BytesInit == Init => BytesInv
<1> SUFFICES ASSUME Init PROVE BytesInv
  OBVIOUS
<1>0. sc.role \in [Procs -> Roles] /\ sc.stored \in {"nothing", "original", "compressed", "both"}
  BY TypeInit, ScenarioFacts DEF TypeInv
<1>1. \A p \in Procs : at[p] \in {"done", "put", "start", "rest", "delete"}
  BY <1>0, EntryAre DEF Init, Roles
<1>2. /\ ~row.enc /\ ~policy.complete
      /\ row.is = "live" => sc.stored # "nothing"
      /\ \A q \in Paths : file[q].form # "cipher"
  BY DEF Init, NoRow, Plain
<1>3. row.is = "live" => There("orig") \/ There("br")
  BY <1>0, <1>2 DEF Init, Paths, Plain, There
<1>4. CipherHasKey
  BY <1>1, <1>2 DEF CipherHasKey, KeyedBytes, KeyedWork, KeyedUpload, KeyedReplace, Encrypts,
     RowPlaces
<1>5. Published /\ SweepsOrphans /\ RowsBegin /\ CompleteIsMarked
  BY <1>1, <1>2 DEF Published, SweepsOrphans, RowsBegin, CompleteIsMarked
<1>6. OriginalEncrypted /\ CompressedEncrypted
  BY <1>1, <1>2 DEF OriginalEncrypted, CompressedEncrypted, Past, RowPlaces
<1>7. QED
  BY <1>3, <1>4, <1>5, <1>6 DEF BytesInv, IsLive

(* What a listed report is read by: the object that answers is there, and  *)
(* in a form its row and the policy allow.                                 *)
LEMMA BytesAreReadable == ASSUME TypeInv, BytesInv PROVE ReadsAreSound
<1>1. NoCiphertextServed
  BY DEF TypeInv, Shapes, NoCiphertextServed
<1>2. ASSUME row.is = "live" PROVE There(Answering)
  BY <1>2 DEF BytesInv, IsLive, Answering
<1>3. ASSUME row.is = "live", file[Answering].form = "plain" PROVE ~row.enc /\ ~policy.complete
  <2>1. ~row.enc
    BY <1>3 DEF BytesInv, OriginalEncrypted, CompressedEncrypted, IsLive, Answering
  <2>2. QED
    BY <1>3, <2>1 DEF BytesInv, CompleteIsMarked, IsLive
<1>4. ASSUME row.is = "live", file[Answering].form = "cipher" PROVE row.key
  BY <1>4 DEF BytesInv, CipherHasKey, KeyedBytes, IsLive, Answering, Paths
<1>5. QED
  BY <1>1, <1>2, <1>3, <1>4 DEF ReadsAreSound, StaysReadable

(* A marked row's report has no plaintext, but what was left behind.       *)
LEMMA BytesAreMarked == ASSUME BytesInv PROVE MarkedIsEncrypted
BY DEF BytesInv, OriginalEncrypted, CompressedEncrypted, IsLive, MarkedIsEncrypted, Paths

-----------------------------------------------------------------------------
(* A fault that has happened stays recorded.                               *)
LEMMA FaultStays == ASSUME TypeInv, [Next]_vars, faulted PROVE faulted'
<1>1. ASSUME NEW p \in Procs, UploadPut(p) \/ UploadFence(p) \/ Discard(p) \/ Insert(p) \/
   Commit(p) \/ Resolve(p) \/ LoseAck(p) PROVE faulted'
  BY <1>1 DEF UploadPut, UploadFence, Discard, Insert, Commit, Resolve, LoseAck, Put,
     Leave, MayFail
<1>2. ASSUME NEW p \in Procs, DeleteRow(p) \/ DropStarts(p) PROVE faulted'
  BY <1>2 DEF DeleteRow, DropStarts, Leave
<1>3. ASSUME NEW p \in Procs, NEW q \in Paths, Drop(p, q) PROVE faulted'
  BY <1>3 DEF Drop, MayFail, Leave
<1>4. ASSUME NEW p \in Procs, ReadStart(p) \/ ReadDecides(p) PROVE faulted'
  BY <1>4 DEF ReadStart, ReadDecides
<1>5. ASSUME NEW p \in Procs, NEW q \in Paths, LookupRow(p, q) \/ LookupState(p, q) \/
   LookupObject(p, q) \/ LookupAgain(p, q) \/ LookupReopen(p, q) PROVE faulted'
  BY <1>5 DEF LookupRow, LookupState, LookupObject, LookupAgain, LookupReopen, Lookup
<1>6. ASSUME NEW p \in Procs, Verify(p) \/ ReadPolicy(p) \/ ReadRow(p) \/
   LookAtCompressed(p) \/ Publish(p) \/ Replace(p) \/ Rename(p) \/ Recheck(p)
   \/ Finish(p) \/ Undo(p)
   \/ RemoveOriginal(p) \/ Mark(p) PROVE faulted'
  BY <1>6 DEF Verify, ReadPolicy, ReadRow, LookAtCompressed, Publish, Replace, Rename,
     Recheck, Finish, Undo, RemoveOriginal, Mark, Converts, Gives, Retry, Put, MayFail, Leave
<1>7. ASSUME NEW p \in Procs, MigrationStarts(p) \/ ReadState(p) \/ ListRows(p) \/
   PassEnds(p) \/ MigrateKey(p) \/ MigrateObject(p) \/ Encrypt(p) \/ Overwrite(p) \/
   ReadBack(p) \/ MarkMigrated(p) \/ Checkpoint(p) PROVE faulted'
  BY <1>7 DEF MigrationStarts, ReadState, ListRows, PassEnds, MigrateKey, MigrateObject,
     Encrypt, Overwrite, ReadBack, MarkMigrated, Checkpoint, Works, Leave, NextPath, Put,
     MayFail
<1>8. ASSUME NEW p \in Procs, InventoryState(p) \/ ListObjects(p) \/ Weigh(p) \/ Sweep(p) \/
   InventoryEnds(p) PROVE faulted'
  BY <1>8 DEF InventoryState, ListObjects, Weigh, Sweep, InventoryEnds, Works, Leave,
     MayFail
<1>9. ASSUME NEW p \in Procs, NEW q \in Paths, CheckOwner(p, q) PROVE faulted'
  BY <1>9 DEF CheckOwner, Works
<1>10. ASSUME NEW p \in Procs, Crash(p) PROVE faulted'
  BY <1>10 DEF Crash, MayFail, Leave
<1>11. CASE Activate \/ UNCHANGED vars
  BY <1>11 DEF Activate, vars, bytesVars, procVars
<1>12. ASSUME NEW p \in Procs, Upload(p) PROVE faulted'
  BY <1>12, <1>1 DEF Upload
<1>13. ASSUME NEW p \in Procs, Delete(p) PROVE faulted'
  BY <1>13, <1>2, <1>3 DEF Delete
<1>14. ASSUME NEW p \in Procs, Read(p) PROVE faulted'
  BY <1>14, <1>4, <1>5 DEF Read
<1>15. ASSUME NEW p \in Procs, Convert(p) PROVE faulted'
  BY <1>15, <1>6 DEF Convert
<1>16. ASSUME NEW p \in Procs, Migrate(p) PROVE faulted'
  BY <1>16, <1>7 DEF Migrate
<1>17. ASSUME NEW p \in Procs, Inventory(p) PROVE faulted'
  BY <1>17, <1>8, <1>9 DEF Inventory
<1>18. QED
  BY <1>11, <1>12, <1>13, <1>14, <1>15, <1>16, <1>17, <1>1, <1>10 DEF Next, Proceed

(* Who is about to remove an object goes on to, unless he is excused.      *)
LEMMA RemovesStep ==
    ASSUME TypeInv, LifeInv, [Next]_vars, row'.is # "live", ~Excused',
           NEW s \in Procs, NEW x \in Paths, Removes(s, x)
    PROVE  \/ Removes(s, x)' \/ file'[x].form = "none"
           \/ at[s] = "discard" /\ file[x].form # "plain" /\ file' = file
<1>0. Frame
  BY FrameHolds
<1>a. at[s] \in {"drop", "dropping", "fence", "insert", "commit", "resolve", "discard"}
  BY DEF Removes
<1>b. row.is # "live" => row' = row
  <2>1. \A p \in Procs : ~DeleteRow(p) \/ row.is = "live"
    BY DEF DeleteRow
  <2>2. ASSUME NEW p \in Procs, Commit(p) PROVE row' = row
    BY <2>2 DEF Commit
  <2>3. QED
    BY <2>1, <2>2, RowStep DEF RowGrows
<1>c. row.is # "live"
  BY NotListed DEF Removes, DropPlaces
<1> DEFINE Goal == \/ Removes(s, x)' \/ file'[x].form = "none"
                   \/ at[s] = "discard" /\ file[x].form # "plain" /\ file' = file
<1>1. ASSUME NEW p \in Procs, UploadPut(p) PROVE Goal
  BY <1>1, <1>0, <1>a, <1>b, <1>c DEF UploadPut, Put, Goto, Write, MayFail, Removes,
     Frame, Excused
<1>2. ASSUME NEW p \in Procs, Discard(p) PROVE Goal
  BY <1>2, <1>0, <1>a, <1>b, <1>c, Removed DEF Discard, Remove, Leave, Goto, Keep,
     Removes, Frame, Excused, Paths
<1>3. ASSUME NEW p \in Procs, UploadFence(p) PROVE Goal
  BY <1>3, <1>0, <1>a, <1>b, <1>c DEF UploadFence, Goto, Removes, Frame, Excused
<1>4. ASSUME NEW p \in Procs, Insert(p) PROVE Goal
  BY <1>4, <1>0, <1>a, <1>b, <1>c DEF Insert, Goto, Removes, Frame, Excused, Nobody
<1>5. ASSUME NEW p \in Procs, Commit(p) PROVE Goal
  BY <1>5, <1>0, <1>a, <1>b, <1>c DEF Commit, Goto, bytesVars, Removes, Frame, Excused
<1>6. ASSUME NEW p \in Procs, Resolve(p) PROVE Goal
  BY <1>6, <1>0, <1>a, <1>b, <1>c DEF Resolve, Goto, Removes, Frame, Excused
<1>7. ASSUME NEW p \in Procs, LoseAck(p) PROVE Goal
  BY <1>7, <1>0, <1>a, <1>b, <1>c DEF LoseAck, MayFail, Goto, bytesVars, Removes, Frame,
     Excused
<1>8. ASSUME NEW p \in Procs, DeleteRow(p) PROVE Goal
  BY <1>8, <1>0, <1>a, <1>b, <1>c DEF DeleteRow, Goto, Removes, Frame, Excused
<1>9. ASSUME NEW p \in Procs, DropStarts(p) PROVE Goal
  <2>1. CASE s # p
    BY <1>9, <1>0, <1>a, <1>b, <1>c, <2>1 DEF DropStarts, Goto, Keep, Leave, Removes, Frame
  <2>2. CASE s = p
    <3>1. ~stray'
      BY DEF Excused
    <3>2. at'[p] = "dropping" /\ loc'[p].todo = Paths
      BY <1>9, <1>0, <3>1 DEF DropStarts, Goto, Keep, Frame, Blank
    <3>3. QED
      BY <2>2, <3>2 DEF Removes
  <2>3. QED
    BY <2>1, <2>2
<1>10. ASSUME NEW p \in Procs, NEW q \in Paths, Drop(p, q) PROVE Goal
  <2>1. CASE s # p
    BY <1>10, <1>0, <1>a, <1>b, <1>c, <2>1 DEF Drop, Goto, Keep, Leave, Removes, Frame
  <2>2. CASE s = p /\ x = q
    BY <1>10, <1>0, <2>2, Removed DEF Drop, MayFail, Frame, Excused
  <2>3. CASE s = p /\ x # q
    <3>1. at[p] = "dropping" /\ x \in loc[p].todo
      BY <1>10, <2>3 DEF Drop, Removes
    <3>2. at'[p] = "dropping" /\ loc'[p].todo = loc[p].todo \ {q}
      BY <1>10, <1>0, <2>3, <3>1 DEF Drop, Keep, Frame, Variables
    <3>3. QED
      BY <2>3, <3>1, <3>2 DEF Removes
  <2>4. QED
    BY <2>1, <2>2, <2>3
<1>11. ASSUME NEW p \in Procs, ReadStart(p) \/ ReadDecides(p) PROVE Goal
  BY <1>11, <1>0, <1>a, <1>b, <1>c DEF ReadStart, ReadDecides, Goto, NoLookup, Settled,
     Answer, Removes, Frame, Excused
<1>12. ASSUME NEW p \in Procs, NEW q \in Paths, LookupRow(p, q) \/ LookupState(p, q) \/
   LookupObject(p, q) \/ LookupAgain(p, q) \/ LookupReopen(p, q) PROVE Goal
  BY <1>12, <1>0, <1>a, <1>b, <1>c DEF LookupRow, LookupState, LookupObject, LookupAgain,
     LookupReopen, Lookup, Settle, KeyedOutcome, StartOver, NoLookup, Removes, Frame,
     Excused
<1>13. ASSUME NEW p \in Procs, Verify(p) \/ ReadPolicy(p) \/ ReadRow(p) PROVE Goal
  BY <1>13, <1>0, <1>a, <1>b, <1>c DEF Verify, ReadPolicy, ReadRow, Converts, Goto, Gives,
     Leave, Keep, Removes, Frame, Excused
<1>14. ASSUME NEW p \in Procs, LookAtCompressed(p) \/ Publish(p) PROVE Goal
  BY <1>14, <1>0, <1>a, <1>b, <1>c DEF LookAtCompressed, Publish, Converts, Retry, Goto,
     Keep, Put, Gives, Leave, Removes, Frame, Excused
<1>15. ASSUME NEW p \in Procs, Replace(p) \/ Rename(p) \/ Recheck(p) PROVE Goal
  BY <1>15, <1>0, <1>a, <1>b, <1>c DEF Replace, Rename, Recheck, Converts, Goto, Retry,
     Put, Gives, Keep, Leave, Removes, Frame, Excused
<1>16. ASSUME NEW p \in Procs, Finish(p) \/ Undo(p) \/ RemoveOriginal(p) \/ Mark(p) PROVE Goal
  BY <1>16, <1>0, <1>a, <1>b, <1>c DEF Finish, Undo, RemoveOriginal, Mark, Converts, Goto,
     Gives, Leave, Keep, Removes, Frame, Excused
<1>17. ASSUME NEW p \in Procs, MigrationStarts(p) \/ ReadState(p) \/ ListRows(p) \/
   PassEnds(p) \/ Checkpoint(p) \/ MigrateKey(p) PROVE Goal
  BY <1>17, <1>0, <1>a, <1>b, <1>c DEF MigrationStarts, ReadState, ListRows, PassEnds,
     Checkpoint, MigrateKey, Works, Goto, Keep, Leave, Removes, Frame, Excused
<1>18. ASSUME NEW p \in Procs, MigrateObject(p) \/ Encrypt(p) \/ ReadBack(p) \/ Overwrite(p)
   \/ MarkMigrated(p) PROVE Goal
  BY <1>18, <1>0, <1>a, <1>b, <1>c DEF MigrateObject, Encrypt, ReadBack, Overwrite,
     MarkMigrated, Works, Goto, Keep, NextPath, Put, Removes, Frame, Excused
<1>19. ASSUME NEW p \in Procs, InventoryState(p) \/ ListObjects(p) \/ InventoryEnds(p) \/
   Weigh(p) \/ Sweep(p) PROVE Goal
  BY <1>19, <1>0, <1>a, <1>b, <1>c DEF InventoryState, ListObjects, InventoryEnds, Weigh,
     Sweep, Works, Goto, Keep, Leave, Removes, Frame, Excused
<1>20. ASSUME NEW p \in Procs, NEW q \in Paths, CheckOwner(p, q) PROVE Goal
  BY <1>20, <1>0, <1>a, <1>b, <1>c DEF CheckOwner, Works, Goto, Keep, Removes, Frame,
     Excused
<1>21. ASSUME NEW p \in Procs, Crash(p) PROVE Goal
  BY <1>21, <1>0, <1>a, <1>b, <1>c DEF Crash, MayFail, Leave, NoLookup, bytesVars, Goto,
     Keep, Removes, Frame, Excused
<1>22. CASE Activate \/ UNCHANGED vars
  BY <1>22, <1>0, <1>a, <1>b, <1>c DEF Activate, vars, bytesVars, procVars, Removes,
     Frame, Excused
<1>23. ASSUME NEW p \in Procs, Upload(p) PROVE Goal
  BY <1>23, <1>1, <1>2, <1>3, <1>4, <1>5, <1>6 DEF Upload
<1>24. ASSUME NEW p \in Procs, Delete(p) PROVE Goal
  BY <1>24, <1>8, <1>9, <1>10 DEF Delete
<1>25. ASSUME NEW p \in Procs, Read(p) PROVE Goal
  BY <1>25, <1>11, <1>12 DEF Read
<1>26. ASSUME NEW p \in Procs, Convert(p) PROVE Goal
  BY <1>26, <1>13, <1>14, <1>15, <1>16 DEF Convert
<1>27. ASSUME NEW p \in Procs, Migrate(p) PROVE Goal
  BY <1>27, <1>17, <1>18 DEF Migrate
<1>28. ASSUME NEW p \in Procs, Inventory(p) PROVE Goal
  BY <1>28, <1>19, <1>20 DEF Inventory
<1>29. QED
  BY <1>22, <1>23, <1>24, <1>25, <1>26, <1>27, <1>28, <1>7, <1>21 DEF Next, Proceed

(* The inventory does not miss plaintext that stays where it is.           *)
LEMMA SeesStep ==
    ASSUME TypeInv, [Next]_vars, row.is # "live", ~Excused',
           NEW s \in Procs, NEW x \in Paths, file[x].form = "plain", file'[x].form = "plain",
           Sees(s, x)
    PROVE  Sees(s, x)'
<1>0. Frame
  BY FrameHolds
<1>1. ASSUME NEW p \in Procs, UploadPut(p) \/ Discard(p) \/ UploadFence(p) \/ Insert(p)
   PROVE Sees(s, x)'
  BY <1>1, <1>0 DEF UploadPut, Discard, UploadFence, Insert, Put, Goto, Leave, Keep, Sees,
     Frame
<1>2. ASSUME NEW p \in Procs, Commit(p) \/ Resolve(p) \/ LoseAck(p) PROVE Sees(s, x)'
  BY <1>2, <1>0 DEF Commit, Resolve, LoseAck, Goto, Sees, Frame
<1>3. ASSUME NEW p \in Procs, DeleteRow(p) \/ DropStarts(p) PROVE Sees(s, x)'
  BY <1>3, <1>0 DEF DeleteRow, DropStarts, Goto, Keep, Leave, Sees, Frame
<1>4. ASSUME NEW p \in Procs, NEW q \in Paths, Drop(p, q) PROVE Sees(s, x)'
  BY <1>4, <1>0 DEF Drop, Leave, Keep, Goto, Sees, Frame
<1>5. ASSUME NEW p \in Procs, ReadStart(p) \/ ReadDecides(p) PROVE Sees(s, x)'
  BY <1>5, <1>0 DEF ReadStart, ReadDecides, Goto, NoLookup, Settled, Answer, Sees, Frame
<1>6. ASSUME NEW p \in Procs, NEW q \in Paths, LookupRow(p, q) \/ LookupState(p, q) \/
   LookupObject(p, q) \/ LookupAgain(p, q) \/ LookupReopen(p, q) PROVE Sees(s, x)'
  BY <1>6, <1>0 DEF LookupRow, LookupState, LookupObject, LookupAgain, LookupReopen,
     Lookup, Settle, KeyedOutcome, StartOver, NoLookup, Sees, Frame
<1>7. ASSUME NEW p \in Procs, Verify(p) \/ ReadPolicy(p) \/ ReadRow(p) PROVE Sees(s, x)'
  BY <1>7, <1>0 DEF Verify, ReadPolicy, ReadRow, Converts, Goto, Gives, Leave, Keep, Sees,
     Frame
<1>8. ASSUME NEW p \in Procs, LookAtCompressed(p) \/ Publish(p) PROVE Sees(s, x)'
  BY <1>8, <1>0 DEF LookAtCompressed, Publish, Converts, Retry, Goto, Keep, Put, Gives,
     Leave, Sees, Frame
<1>9. ASSUME NEW p \in Procs, Replace(p) \/ Rename(p) \/ Recheck(p) PROVE Sees(s, x)'
  BY <1>9, <1>0 DEF Replace, Rename, Recheck, Converts, Goto, Retry, Put, Gives, Keep,
     Leave, Sees, Frame
<1>10. ASSUME NEW p \in Procs, Finish(p) \/ Undo(p) \/ RemoveOriginal(p) \/ Mark(p) PROVE
   Sees(s, x)'
  BY <1>10, <1>0 DEF Finish, Undo, RemoveOriginal, Mark, Converts, Goto, Gives, Leave, Keep,
     Sees, Frame
<1>11. ASSUME NEW p \in Procs, MigrationStarts(p) \/ ReadState(p) \/ ListRows(p) \/
   PassEnds(p) \/ Checkpoint(p) \/ MigrateKey(p) PROVE Sees(s, x)'
  BY <1>11, <1>0 DEF MigrationStarts, ReadState, ListRows, PassEnds, Checkpoint,
     MigrateKey, Works, Goto, Keep, Leave, Sees, Frame
<1>12. ASSUME NEW p \in Procs, MigrateObject(p) \/ Encrypt(p) \/ ReadBack(p) \/ Overwrite(p)
   \/ MarkMigrated(p) PROVE Sees(s, x)'
  BY <1>12, <1>0 DEF MigrateObject, Encrypt, ReadBack, Overwrite, MarkMigrated, Works,
     Goto, Keep, NextPath, Put, Sees, Frame
<1>13. ASSUME NEW p \in Procs, InventoryState(p) PROVE Sees(s, x)'
  BY <1>13, <1>0 DEF InventoryState, Works, Goto, Sees, Frame
<1>14. ASSUME NEW p \in Procs, ListObjects(p) PROVE Sees(s, x)'
  BY <1>14, <1>0 DEF ListObjects, Works, Goto, Keep, Sees, Frame, There, Variables
<1>15. ASSUME NEW p \in Procs, InventoryEnds(p) PROVE Sees(s, x)'
  BY <1>15, <1>0 DEF InventoryEnds, Works, Leave, Goto, Keep, Sees, Frame
<1>16. ASSUME NEW p \in Procs, Weigh(p) PROVE Sees(s, x)'
  <2>1. CASE s # p
    BY <1>16, <1>0, <2>1 DEF Weigh, Works, Goto, Keep, Sees, Frame
  <2>2. CASE s = p /\ loc[p].path = x
    BY <1>16, <1>0, <2>2 DEF Weigh, Works, Goto, Keep, Sees, Frame, There, LooksEncrypted,
       Variables
  <2>3. CASE s = p /\ loc[p].path # x
    <3>1. loc[p].found \/ x \in loc[p].todo
      BY <1>16, <2>3 DEF Weigh, Works, Sees
    <3>2. loc'[p].found = loc[p].found /\ loc'[p].todo = loc[p].todo
      BY <1>16, <1>0 DEF Weigh, Keep, Frame, Variables
    <3>3. QED
      BY <2>3, <3>1, <3>2 DEF Sees
  <2>4. QED
    BY <2>1, <2>2, <2>3
<1>17. ASSUME NEW p \in Procs, Sweep(p) PROVE Sees(s, x)'
  <2>1. CASE s # p
    BY <1>17, <1>0, <2>1 DEF Sweep, Works, Goto, Keep, Leave, Sees, Frame
  <2>2. CASE s = p
    <3>1. loc'[p].found = TRUE \/ at'[p] = "rest"
      <4>1. Keep(p, [loc[p] EXCEPT !.found = TRUE, !.got = NoObject]) \/ Goto(p, "rest")
        BY <1>17 DEF Sweep, Leave
      <4>2. loc[p] \in Variables /\ loc \in [Procs -> Variables]
        BY <1>0 DEF Frame
      <4>3. CASE Keep(p, [loc[p] EXCEPT !.found = TRUE, !.got = NoObject])
        BY <4>2, <4>3 DEF Keep, Variables
      <4>4. CASE Goto(p, "rest")
        BY <1>0, <4>4 DEF Goto, Frame
      <4>5. QED
        BY <4>1, <4>3, <4>4
    <3>2. QED
      BY <2>2, <3>1 DEF Sees
  <2>3. QED
    BY <2>1, <2>2
<1>18. ASSUME NEW p \in Procs, NEW q \in Paths, CheckOwner(p, q) PROVE Sees(s, x)'
  BY <1>18, <1>0 DEF CheckOwner, Works, Goto, Keep, Sees, Frame, Owned, Variables
<1>19. ASSUME NEW p \in Procs, Crash(p) PROVE Sees(s, x)'
  BY <1>19, <1>0 DEF Crash, Leave, NoLookup, Goto, Keep, Sees, Frame
<1>20. CASE Activate \/ UNCHANGED vars
  BY <1>20, <1>0 DEF Activate, vars, bytesVars, procVars, Sees, Frame
<1>21. ASSUME NEW p \in Procs, Upload(p) PROVE Sees(s, x)'
  BY <1>21, <1>1, <1>2 DEF Upload
<1>22. ASSUME NEW p \in Procs, Delete(p) PROVE Sees(s, x)'
  BY <1>22, <1>3, <1>4 DEF Delete
<1>23. ASSUME NEW p \in Procs, Read(p) PROVE Sees(s, x)'
  BY <1>23, <1>5, <1>6 DEF Read
<1>24. ASSUME NEW p \in Procs, Convert(p) PROVE Sees(s, x)'
  BY <1>24, <1>7, <1>8, <1>9, <1>10 DEF Convert
<1>25. ASSUME NEW p \in Procs, Migrate(p) PROVE Sees(s, x)'
  BY <1>25, <1>11, <1>12 DEF Migrate
<1>26. ASSUME NEW p \in Procs, Inventory(p) PROVE Sees(s, x)'
  BY <1>26, <1>13, <1>14, <1>15, <1>16, <1>17, <1>18 DEF Inventory
<1>27. QED
  BY <1>20, <1>21, <1>22, <1>23, <1>24, <1>25, <1>26, <1>2, <1>19 DEF Next, Proceed

(* It does not end clean while there is plaintext before it.               *)
LEMMA UncleanStays ==
    ASSUME TypeInv, [Next]_vars, ~policy.cleaned, NEW x \in Paths, \A p \in Procs : Sees(p, x)
    PROVE  ~policy'.cleaned
<1>0. Frame
  BY FrameHolds
<1>1. ASSUME NEW p \in Procs, UploadPut(p) \/ UploadFence(p) \/ Discard(p) \/ Insert(p) \/
   Commit(p) \/ Resolve(p) \/ LoseAck(p) PROVE ~policy'.cleaned
  BY <1>1 DEF UploadPut, UploadFence, Discard, Insert, Commit, Resolve, LoseAck, Put,
     FenceIsOff, Leave, InsertValid
<1>2. ASSUME NEW p \in Procs, DeleteRow(p) \/ DropStarts(p) PROVE ~policy'.cleaned
  BY <1>2 DEF DeleteRow, DropStarts, Leave
<1>3. ASSUME NEW p \in Procs, NEW q \in Paths, Drop(p, q) PROVE ~policy'.cleaned
  BY <1>3 DEF Drop, Leave
<1>4. ASSUME NEW p \in Procs, ReadStart(p) \/ ReadDecides(p) PROVE ~policy'.cleaned
  BY <1>4 DEF ReadStart, ReadDecides
<1>5. ASSUME NEW p \in Procs, NEW q \in Paths, LookupRow(p, q) \/ LookupState(p, q) \/
   LookupObject(p, q) \/ LookupAgain(p, q) \/ LookupReopen(p, q) PROVE ~policy'.cleaned
  BY <1>5 DEF LookupRow, LookupState, LookupObject, LookupAgain, LookupReopen, Lookup
<1>6. ASSUME NEW p \in Procs, Verify(p) \/ ReadPolicy(p) \/ ReadRow(p) \/
   LookAtCompressed(p) \/ Publish(p) \/ Replace(p) \/ Rename(p) \/ Recheck(p)
   \/ Finish(p) \/ Undo(p)
   \/ RemoveOriginal(p) \/ Mark(p) PROVE ~policy'.cleaned
  BY <1>6 DEF Verify, ReadPolicy, ReadRow, LookAtCompressed, Publish, Replace, Rename,
     Recheck, Finish, Undo, RemoveOriginal, Mark, Converts, Gives, FenceIsOff, Retry, Put, Leave
<1>7. ASSUME NEW p \in Procs, MigrationStarts(p) \/ ReadState(p) \/ ListRows(p) \/
   MigrateKey(p) \/ MigrateObject(p) \/ Encrypt(p) \/ Overwrite(p) \/ ReadBack(p) \/
   MarkMigrated(p) PROVE ~policy'.cleaned
  BY <1>7 DEF MigrationStarts, ReadState, ListRows, MigrateKey, MigrateObject, Encrypt,
     Overwrite, ReadBack, MarkMigrated, Works, NextPath, Put
<1>8. ASSUME NEW p \in Procs, PassEnds(p) PROVE ~policy'.cleaned
  BY <1>8, <1>0 DEF PassEnds, Works, Leave, Frame, NothingPending
<1>9. ASSUME NEW p \in Procs, Checkpoint(p) PROVE ~policy'.cleaned
  BY <1>9, <1>0 DEF Checkpoint, Works, Leave, Frame
<1>10. ASSUME NEW p \in Procs, InventoryState(p) \/ ListObjects(p) \/ Weigh(p) \/ Sweep(p)
   PROVE ~policy'.cleaned
  BY <1>10 DEF InventoryState, ListObjects, Weigh, Sweep, Works, Leave
<1>11. ASSUME NEW p \in Procs, NEW q \in Paths, CheckOwner(p, q) PROVE ~policy'.cleaned
  BY <1>11 DEF CheckOwner, Works
<1>12. ASSUME NEW p \in Procs, InventoryEnds(p) PROVE ~policy'.cleaned
  BY <1>12, <1>0 DEF InventoryEnds, Works, Leave, Frame, Sees
<1>13. ASSUME NEW p \in Procs, Crash(p) PROVE ~policy'.cleaned
  BY <1>13 DEF Crash, Leave
<1>14. CASE Activate \/ UNCHANGED vars
  BY <1>14, <1>0 DEF Activate, vars, bytesVars, procVars, Frame
<1>15. ASSUME NEW p \in Procs, Upload(p) PROVE ~policy'.cleaned
  BY <1>15, <1>1 DEF Upload
<1>16. ASSUME NEW p \in Procs, Delete(p) PROVE ~policy'.cleaned
  BY <1>16, <1>2, <1>3 DEF Delete
<1>17. ASSUME NEW p \in Procs, Read(p) PROVE ~policy'.cleaned
  BY <1>17, <1>4, <1>5 DEF Read
<1>18. ASSUME NEW p \in Procs, Convert(p) PROVE ~policy'.cleaned
  BY <1>18, <1>6 DEF Convert
<1>19. ASSUME NEW p \in Procs, Migrate(p) PROVE ~policy'.cleaned
  BY <1>19, <1>7, <1>8, <1>9 DEF Migrate
<1>20. ASSUME NEW p \in Procs, Inventory(p) PROVE ~policy'.cleaned
  BY <1>20, <1>10, <1>11, <1>12 DEF Inventory
<1>21. QED
  BY <1>14, <1>15, <1>16, <1>17, <1>18, <1>19, <1>20, <1>1, <1>13 DEF Next, Proceed

(* A conversion of a deleted report takes back what it published.          *)
LEMMA TakesBack ==
    ASSUME TypeInv, [Next]_vars, row.is # "live", ~policy.enabled, ~Excused',
           NEW s \in Procs, at[s] \in {"recheck", "finish", "undo"}
    PROVE  at'[s] \in {"recheck", "finish", "undo"} \/ file'["br"].form = "none"
<1>0. Frame
  BY FrameHolds
<1> DEFINE Goal == at'[s] \in {"recheck", "finish", "undo"} \/ file'["br"].form = "none"
<1>1. ASSUME NEW p \in Procs, UploadPut(p) \/ Discard(p) \/ UploadFence(p) \/ Insert(p) \/
   Commit(p) \/ Resolve(p) \/ LoseAck(p) PROVE Goal
  BY <1>1, <1>0 DEF UploadPut, Discard, UploadFence, Insert, Commit, Resolve, LoseAck,
     Put, Goto, Leave, Frame, Excused
<1>2. ASSUME NEW p \in Procs, DeleteRow(p) \/ DropStarts(p) PROVE Goal
  BY <1>2, <1>0 DEF DeleteRow, DropStarts, Goto, Leave, Frame, Excused
<1>3. ASSUME NEW p \in Procs, NEW q \in Paths, Drop(p, q) PROVE Goal
  BY <1>3, <1>0 DEF Drop, Leave, Goto, Frame, Excused
<1>4. ASSUME NEW p \in Procs, ReadStart(p) \/ ReadDecides(p) PROVE Goal
  BY <1>4, <1>0 DEF ReadStart, ReadDecides, Goto, NoLookup, Settled, Answer, Frame,
     Excused
<1>5. ASSUME NEW p \in Procs, NEW q \in Paths, LookupRow(p, q) \/ LookupState(p, q) \/
   LookupObject(p, q) \/ LookupAgain(p, q) \/ LookupReopen(p, q) PROVE Goal
  BY <1>5, <1>0 DEF LookupRow, LookupState, LookupObject, LookupAgain, LookupReopen,
     Lookup, Settle, KeyedOutcome, StartOver, NoLookup, Frame, Excused
<1>6. ASSUME NEW p \in Procs, Verify(p) \/ ReadPolicy(p) \/ ReadRow(p) PROVE Goal
  BY <1>6, <1>0 DEF Verify, ReadPolicy, ReadRow, Converts, Goto, Gives, Leave, Frame,
     Excused
<1>7. ASSUME NEW p \in Procs, LookAtCompressed(p) \/ Publish(p) PROVE Goal
  BY <1>7, <1>0 DEF LookAtCompressed, Publish, Converts, Retry, Goto, Put, Gives, Leave,
     Frame, Excused
<1>8. ASSUME NEW p \in Procs, Replace(p) \/ Rename(p) PROVE Goal
  BY <1>8, <1>0 DEF Replace, Rename, Converts, Goto, Retry, Put, Gives, Leave, Frame,
     Excused
<1>9. ASSUME NEW p \in Procs, Recheck(p) PROVE Goal
  BY <1>9, <1>0 DEF Recheck, Converts, FenceIsOff, Goto, Gives, bytesVars, Leave, Frame,
     Excused
<1>10. ASSUME NEW p \in Procs, Finish(p) \/ Undo(p) PROVE Goal
  BY <1>10, <1>0, Removed DEF Finish, Undo, Converts, Goto, Remove, Gives, Leave, Frame,
     Excused, Paths
<1>11. ASSUME NEW p \in Procs, RemoveOriginal(p) \/ Mark(p) PROVE Goal
  BY <1>11, <1>0 DEF RemoveOriginal, Mark, Converts, Goto, Gives, Leave, Frame, Excused
<1>12. ASSUME NEW p \in Procs, MigrationStarts(p) \/ ReadState(p) \/ ListRows(p) \/
   PassEnds(p) \/ Checkpoint(p) \/ MigrateKey(p) PROVE Goal
  BY <1>12, <1>0 DEF MigrationStarts, ReadState, ListRows, PassEnds, Checkpoint,
     MigrateKey, Works, Goto, Leave, Frame, Excused
<1>13. ASSUME NEW p \in Procs, MigrateObject(p) \/ Encrypt(p) \/ ReadBack(p) \/ Overwrite(p)
   \/ MarkMigrated(p) PROVE Goal
  BY <1>13, <1>0 DEF MigrateObject, Encrypt, ReadBack, Overwrite, MarkMigrated, Works,
     Goto, NextPath, Put, Frame, Excused
<1>14. ASSUME NEW p \in Procs, InventoryState(p) \/ ListObjects(p) \/ InventoryEnds(p) \/
   Weigh(p) \/ Sweep(p) PROVE Goal
  BY <1>14, <1>0 DEF InventoryState, ListObjects, InventoryEnds, Weigh, Sweep, Works,
     Goto, Leave, Frame, Excused
<1>15. ASSUME NEW p \in Procs, NEW q \in Paths, CheckOwner(p, q) PROVE Goal
  BY <1>15, <1>0 DEF CheckOwner, Works, Goto, Frame, Excused
<1>16. ASSUME NEW p \in Procs, Crash(p) PROVE Goal
  BY <1>16, <1>0 DEF Crash, MayFail, Leave, NoLookup, Goto, Frame, Excused
<1>17. CASE Activate \/ UNCHANGED vars
  BY <1>17, <1>0 DEF Activate, vars, bytesVars, procVars, Frame, Excused
<1>18. ASSUME NEW p \in Procs, Upload(p) PROVE Goal
  BY <1>18, <1>1 DEF Upload
<1>19. ASSUME NEW p \in Procs, Delete(p) PROVE Goal
  BY <1>19, <1>2, <1>3 DEF Delete
<1>20. ASSUME NEW p \in Procs, Read(p) PROVE Goal
  BY <1>20, <1>4, <1>5 DEF Read
<1>21. ASSUME NEW p \in Procs, Convert(p) PROVE Goal
  BY <1>21, <1>6, <1>7, <1>8, <1>9, <1>10, <1>11 DEF Convert
<1>22. ASSUME NEW p \in Procs, Migrate(p) PROVE Goal
  BY <1>22, <1>12, <1>13 DEF Migrate
<1>23. ASSUME NEW p \in Procs, Inventory(p) PROVE Goal
  BY <1>23, <1>14, <1>15 DEF Inventory
<1>24. QED
  BY <1>17, <1>18, <1>19, <1>20, <1>21, <1>22, <1>23, <1>1, <1>16 DEF Next, Proceed

-----------------------------------------------------------------------------
(* Who encrypts does so after activation.                                  *)
LEMMA EncryptsEnabled ==
    ASSUME TypeInv, LifeInv, NEW p \in Procs, Encrypts(p) PROVE policy.enabled
<1>1. Entry[sc.role[p]] \in {"done", "put", "start", "rest", "delete"}
  BY ScenarioFacts, EntryAre DEF TypeInv, Roles
<1>2. at[p] \in WorkPlaces \/ (keyed(p) /\ at[p] \notin {Entry[sc.role[p]], "done"})
  BY <1>1 DEF Encrypts, WorkPlaces, RowPlaces
<1>3. QED
  BY <1>2 DEF LifeInv, Activation, OnlyEnabled

(* So there is ciphertext only after activation.                           *)
LEMMA CipherIsEnabledStep ==
    ASSUME TypeInv, LifeInv, KeyedReplace, CipherIsEnabled, [Next]_vars PROVE CipherIsEnabled'
<1> SUFFICES ASSUME NEW q \in Paths, file'[q].form = "cipher" PROVE policy'.enabled
  BY DEF CipherIsEnabled
<1>1. policy.enabled
  <2>1. CASE file[q].form = "cipher"
    BY <2>1 DEF CipherIsEnabled
  <2>2. CASE file[q].form # "cipher"
    <3>1. PICK p \in Procs : Writes(p, q)
      BY <2>2, WhoWrites
    <3>2. Encrypts(p) \/ (at[p] = "put" /\ keyed(p) /\ policy.enabled)
      BY <3>1 DEF Writes, Own, Encrypts, RowPlaces, KeyedReplace
    <3>3. QED
      BY <3>2, EncryptsEnabled
  <2>3. QED
    BY <2>1, <2>2
<1>2. QED
  BY <1>1, PolicyStep DEF Activate

(* A row not listed, then or now, is the same row, or has been deleted.    *)
LEMMA RowNotListed ==
    ASSUME TypeInv, LifeInv, [Next]_vars, row'.is # "live"
    PROVE  row' = row \/ \E p \in Procs : DeleteRow(p)
<1>1. ASSUME NEW p \in Procs, Commit(p) PROVE row' = row
  BY <1>1 DEF Commit
<1>2. QED
  BY <1>1, RowStep DEF RowGrows

(* Plaintext of a report not listed stays on its way out, whatever step    *)
(* leaves it behind or crosses its removal.                                *)
LEMMA NoOrphanStep ==
    ASSUME TypeInv, LifeInv, BytesInv, OrphanInv, [Next]_vars PROVE NoOrphan'
<1> SUFFICES ASSUME row'.is # "live", ~Excused', NEW x \in Paths, file'[x].form = "plain"
             PROVE  Leaving(x)'
  BY DEF NoOrphan, IsLive
<1>0. ~Excused /\ Frame
  BY FaultStays, StrayStays, FrameHolds DEF Excused
<1>1. CASE row.is = "live"
  <2>1. PICK p \in Procs : DeleteRow(p)
    BY <1>1, RowNotListed
  <2>2. at'[p] = "drop"
    BY <1>0, <2>1 DEF DeleteRow, Goto, Frame
  <2>3. QED
    BY <2>2 DEF Leaving, Removes
<1>2. CASE row.is # "live" /\ file[x].form # "plain"
  <2>1. PICK p \in Procs : Writes(p, x)
    BY <1>2, WhoWrites
  <2>2. /\ x = "br" /\ ~keyed(p)
        /\ \/ at[p] = "put" /\ at'[p] \in {"fence", "insert"}
           \/ at[p] = "publish" /\ at'[p] = "recheck" /\ ~policy.enabled
    BY <2>1 DEF Writes, Own, Excused
  <2>3. CASE at[p] = "put"
    <3>1. row.is = "none" /\ row' = row
      BY <1>2, <2>3, RowNotListed DEF LifeInv, RowLife, DeleteRow
    <3>2. QED
      BY <2>2, <2>3, <3>1 DEF Leaving, Removes
  <2>4. CASE at[p] = "publish"
    <3>1. ~policy'.enabled
      BY <1>2, <2>2, <2>4, PolicyStep DEF Activate, bytesVars
    <3>2. QED
      BY <2>2, <2>4, <3>1 DEF Leaving
  <2>5. QED
    BY <2>2, <2>3, <2>4
<1>3. CASE row.is # "live" /\ file[x].form = "plain"
  <2>1. ASSUME NEW s \in Procs, Removes(s, x) PROVE Leaving(x)'
    BY <1>3, <2>1, RemovesStep DEF Leaving
  <2>2. ASSUME policy.enabled, ~policy.cleaned, \A p \in Procs : Sees(p, x) PROVE Leaving(x)'
    <3>1. policy'.enabled
      BY <2>2, PolicyStep DEF Activate
    <3>2. ~policy'.cleaned
      BY <2>2, UncleanStays
    <3>3. \A p \in Procs : Sees(p, x)'
      BY <1>3, <2>2, SeesStep
    <3>4. QED
      BY <3>1, <3>2, <3>3 DEF Leaving
  <2>3. ASSUME ~policy.enabled, x = "br", NEW s \in Procs,
               at[s] \in {"recheck", "finish", "undo"}
        PROVE  Leaving(x)'
    <3>1. CASE Activate
      <4>1. policy'.enabled /\ ~policy'.cleaned /\ at' = at /\ loc' = loc
        BY <1>0, <2>3, <3>1 DEF Activate, procVars, Frame, LifeInv, Activation, OnlyEnabled
      <4>2. \A p \in Procs : at[p] \notin WorkPlaces
        BY <2>3 DEF LifeInv, Activation, OnlyEnabled
      <4>3. \A p \in Procs : Sees(p, x)'
        BY <4>1, <4>2 DEF Sees, WorkPlaces
      <4>4. QED
        BY <4>1, <4>3 DEF Leaving
    <3>2. CASE ~Activate
      <4>1. ~policy'.enabled
        BY <2>3, <3>2, PolicyStep
      <4>2. at'[s] \in {"recheck", "finish", "undo"}
        BY <1>3, <2>3, TakesBack
      <4>3. QED
        BY <2>3, <4>1, <4>2 DEF Leaving
    <3>3. QED
      BY <3>1, <3>2
  <2>4. Leaving(x)
    BY <1>0, <1>3 DEF OrphanInv, NoOrphan, IsLive
  <2>5. QED
    BY <2>1, <2>2, <2>3, <2>4 DEF Leaving
<1>4. QED
  BY <1>1, <1>2, <1>3

(* At first there is no object without a row.                              *)
LEMMA OrphanInit == Init => OrphanInv
<1> SUFFICES ASSUME Init PROVE OrphanInv
  OBVIOUS
<1>1. \A q \in Paths : file[q].form # "cipher"
  BY DEF Init, Plain
<1>2. ASSUME row.is # "live", NEW q \in Paths PROVE file[q].form # "plain"
  BY <1>2 DEF Init, Plain, Paths
<1>3. QED
  BY <1>1, <1>2 DEF OrphanInv, NoOrphan, CipherIsEnabled, IsLive

(* When all is at rest nobody is about to remove anything, so that there   *)
(* is nothing to remove.                                                   *)
LEMMA RestIsClean == ASSUME TypeInv, OrphanInv PROVE NothingLeftBehind
<1> SUFFICES ASSUME \A p \in Procs : at[p] \in {"done", "rest"}, row.is # "live",
                    policy.enabled => policy.cleaned, ~faulted, ~stray, NEW q \in Paths
             PROVE  file[q].form \in IF policy.enabled THEN {"none", "cipher"} ELSE {"none"}
  BY DEF NothingLeftBehind
<1>1. file[q].form \in {"none", "plain", "cipher"}
  BY FrameHolds DEF Frame, FilesTyped, Objects, Forms
<1>2. file[q].form # "plain"
  BY DEF OrphanInv, NoOrphan, IsLive, Excused, Leaving, Removes
<1>3. file[q].form = "cipher" => policy.enabled
  BY DEF OrphanInv, CipherIsEnabled
<1>4. QED
  BY <1>1, <1>2, <1>3

-----------------------------------------------------------------------------
(* All of it is true of every state that can be reached.                   *)
StorageInv == TypeInv /\ LifeInv /\ BytesInv /\ OrphanInv

(* It holds at first.                                                      *)
LEMMA StorageInit == Init => StorageInv
BY TypeInit, LifeInit, BytesInit, OrphanInit DEF StorageInv

(* Every step keeps it.                                                    *)
LEMMA StorageStep == StorageInv /\ [Next]_vars => StorageInv'
<1> SUFFICES ASSUME TypeInv, LifeInv, BytesInv, OrphanInv, [Next]_vars PROVE StorageInv'
  BY DEF StorageInv
<1>1. TypeInv' /\ LifeInv' /\ BytesInv'
  BY TypeStep, LifeStep, BytesStep
<1>2. CipherIsEnabled'
  BY CipherIsEnabledStep DEF BytesInv, CipherHasKey, OrphanInv
<1>3. QED
  BY <1>1, <1>2, NoOrphanStep DEF StorageInv, OrphanInv

(* So it is an invariant of the specification.                             *)
LEMMA StorageAlways == Spec => []StorageInv
<1>1. QED
  BY StorageInit, StorageStep, PTL DEF Spec

(* Every variable has its type; a client that waits for its commit has the *)
(* writer lock, and a row marked encrypted has its key (handleUploadReport, *)
(* markStorageEncrypted).                                                  *)
THEOREM TypeCorrect == Spec => []TypeOK
<1>1. StorageInv => TypeOK
  BY DEF StorageInv, TypeInv
<1>2. QED
  BY <1>1, StorageAlways, PTL

(* However many readers, deletes and migration workers cross an upload or  *)
(* one another and the activation, and whatever fails: a listed report is  *)
(* there to be read, and no reader is handed ciphertext (handleUploadReport, *)
(* openEncrypted, convertStoredReport).                                    *)
THEOREM ReadsStaySound == Spec => []ReadsAreSound
<1>1. StorageInv => ReadsAreSound
  BY BytesAreReadable DEF StorageInv
<1>2. QED
  BY <1>1, StorageAlways, PTL

(* Plaintext of a report marked encrypted is gone, and at rest so is what  *)
(* deleted reports and refused uploads leave (finishReportConversion,      *)
(* markStorageEncrypted, cleanupLegacy).                                   *)
THEOREM PlaintextGoes == Spec => []PlaintextIsGone
<1>1. StorageInv => PlaintextIsGone
  BY BytesAreMarked, RestIsClean DEF StorageInv, PlaintextIsGone
<1>2. QED
  BY <1>1, StorageAlways, PTL

=============================================================================
