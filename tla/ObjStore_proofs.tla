--------------------------- MODULE ObjStore_proofs ---------------------------
(***************************************************************************)
(* However many uploads carry however many tokens, die or are replayed,    *)
(* and whatever any number of reapers removes meanwhile: a version names   *)
(* one content for ever, the live row has its bytes, and every answer of   *)
(* the byte plane is true.                                                 *)
(***************************************************************************)
EXTENDS ObjStore, TLAPS

(* The stages of an upload behind the compare-and-set, and those between   *)
(* the check of the staged bytes and their promotion.                      *)
Over == {"unstage", "unrow", "abort", "abortrow", "done"}
Committing == {"refresh", "select", "compare", "promote"}

(* The puts that have been begun.                                          *)
Begun == {p \in Puts : want[p] # None}

(* An upload knows its put and its replica, and is answered once.          *)
Uploading ==
    \A u \in Uploads :
        /\ pc[u] = "idle" <=> token[u] = None
        /\ token[u] # None => token[u] \in Begun /\ at[u] \in deployment.replicas
        /\ pc[u] \notin {"abort", "abortrow", "done"} => answer[u] = "none"

StoreInv == TypeOK /\ Uploading

-----------------------------------------------------------------------------
(* The incarnations of rows were minted by uploads whose write is behind   *)
(* them, and no row of the live incarnation is newer than the live row.    *)
MintedOnce == \A r \in past : pc[r.inc] \in Over

LiveIsNewest ==
    live # NoRow => /\ live \in past
                    /\ \A r \in past : r.inc = live.inc => r.version <= live.version

VersionInv == MintedOnce /\ LiveIsNewest /\ VersionNamesContent

-----------------------------------------------------------------------------
(* On the file system one upload at a time works on a staging file.        *)
OneWriter ==
    deployment.backend = "fs" =>
        \A u, v \in Uploads :
            token[u] = token[v] /\ pc[u] \in Holding /\ pc[v] \in Holding => u = v

(* What is promoted is never a truncated upload.                           *)
BytesAreWhole ==
    /\ \A p \in Puts : blobs[p] # "partial"
    /\ \A p \in Puts : deployment.backend # "fs" => staged[p] # "partial"
    /\ \A u \in Uploads : pc[u] \in Committing => staged[token[u]] # "partial"

(* Bytes were promoted by an upload; a token of one that is not replayed   *)
(* has one upload.                                                         *)
PromotedByOne ==
    /\ \A p \in Puts : blobs[p] # "none" =>
           \E u \in Uploads : token[u] = p /\ pc[u] \in Over \union {"cas"}
    /\ ~deployment.replays =>
           \A u, v \in Uploads : token[u] = token[v] /\ token[u] # None => u = v

(* No upload of p writes the row any more.                                 *)
Spent(p) == p \in expired /\ \A u \in Uploads : token[u] = p => pc[u] \in Over

(* The reaper only ever has bytes in hand whose put is spent, and no row   *)
(* names those it is about to unlink.                                      *)
OldIsSpent ==
    /\ \A p \in oldBlobs : Spent(p)
    /\ \A r \in Reapers :
          /\ \A p \in cutBlobs[r] : Spent(p)
          /\ rpc[r] \in {"refs", "gc", "unlinklive"} => \A p \in todo[r] : Spent(p)
          /\ rpc[r] = "unlinklive" => pick[r] \in Puts /\ Spent(pick[r]) /\ live.put # pick[r]

(* A row about to be written has its bytes.                                *)
CasHasBytes == \A u \in Uploads : pc[u] = "cas" => blobs[token[u]] # "none"

BytesInv ==
    OneWriter /\ BytesAreWhole /\ PromotedByOne /\ OldIsSpent /\ CasHasBytes /\ LiveIsReadable

-----------------------------------------------------------------------------
(* A row was written by an upload of its put, which was answered with      *)
(* success or learned nothing.                                             *)
WroteIt(u) == \/ pc[u] \in {"unstage", "unrow"}
              \/ pc[u] \in Over /\ answer[u] \in {"ok", "fault", "died"}

RowsHaveWriters == \A r \in past : \E u \in Uploads : token[u] = r.put /\ WroteIt(u)

SuccessIsReal ==
    \A u \in Uploads : pc[u] \in {"unstage", "unrow"} \/ answer[u] = "ok" =>
        \E r \in past : r.put = token[u]

(* Staging state exists only of puts that have been begun, and the reaper  *)
(* unlinks only staging blobs whose row is gone.                           *)
StagingIsBegun ==
    /\ rows \subseteq Begun
    /\ \A p \in Puts : staged[p] # "none" => p \in Begun
    /\ \A r \in Reapers :
          /\ rpc[r] \in {"stale", "orphans", "unlinkstale", "unlinkorphan"} =>
                 todo[r] \subseteq Begun
          /\ rpc[r] \in {"unlinkstale", "unlinkorphan"} => pick[r] \in Begun \ rows

(* A row refreshed by an upload under way is not stale.                    *)
RefreshedIsFresh ==
    \A p \in Puts : renewedBy[p] # None =>
        /\ token[renewedBy[p]] = p
        /\ pc[renewedBy[p]] \in {"select", "compare", "promote", "cas"} \union Over
        /\ Underway(renewedBy[p]) => p \notin oldRows /\ \A r \in Reapers : p \notin cutRows[r]

(* What an upload nobody interferes with has refreshed stays in place.     *)
RefreshedStays ==
    \A u \in Uploads : Alone(u) =>
        /\ pc[u] \in Committing /\ token[u] \in rows => staged[token[u]] # "none"
        /\ pc[u] \in Committing /\ renewedBy[token[u]] = u => token[u] \in rows

AnswerInv ==
    /\ RowsHaveWriters /\ SuccessIsReal
    /\ StagingIsBegun /\ RefreshedIsFresh /\ RefreshedStays /\ RefreshedPutSurvives

-----------------------------------------------------------------------------
(* What a step can do to each part of the state.                           *)

(* The steps of one upload.                                                *)
Acts(u) == Upload(u) \/ CasAnswerLost(u) \/ Fault(u) \/ UnlinkFails(u) \/ Die(u)

(* The listings of workspaces, and the ends of the passes of a sweep.      *)
ListTags(r) == ListLiveTags(r) \/ ListTopLevel(r)

Closes(r) ==
    \/ ListDone(r, "gc", AfterGc(r))
    \/ "top" \in listed[r] /\ ListDone(r, "stale", "liststaging")
    \/ SweepEnds(r)

(* No step changes the deployment a behaviour began with. *)
LEMMA DeploymentIsFixed == [Next]_vars => deployment' = deployment
<1> SUFFICES ASSUME [Next]_vars PROVE deployment' = deployment  OBVIOUS
<1>1. ASSUME NEW p \in Puts, Begin(p) \/ ExpireRow(p) \/ ExpireBlob(p)
      PROVE  deployment' = deployment
  BY <1>1 DEF Begin, ExpireRow, ExpireBlob
<1>2. ASSUME NEW u \in Uploads, NEW p \in Puts, NEW w, Arrive(u, p, w)
      PROVE  deployment' = deployment
  BY <1>2 DEF Arrive
<1>3. ASSUME NEW u \in Uploads, Acts(u) PROVE deployment' = deployment
  BY <1>3
  DEF Acts, Upload, Precheck, RefuseConcurrent, Admit, BodyDone, BodyFails, Stat, Refresh,
      SelectStaging, Compare, Promote, Cas, UnlinkStaging, DeleteStaging, CasAnswerLost, Fault,
      UnlinkFails, Die
<1>4. ASSUME NEW d \in Deletes, DeleteRead(d) \/ DeleteDrop(d) PROVE deployment' = deployment
  BY <1>4 DEF DeleteRead, DeleteDrop
<1>5. ASSUME NEW r \in Reapers, Sweep(r) \/ SweepAborts(r) PROVE deployment' = deployment
  BY <1>5
  DEF Sweep, StartSweep, ListTags, ListLiveTags, ListTopLevel, ListBlobs, SnapshotRefs,
      GcCheck, GcUnlink, ListRows, DeleteIfStale, ListStaging, OrphanCheck, ReapStaging,
      Closes, ListDone, AfterGc, SweepEnds, Forget, SweepAborts
<1>6. CASE UNCHANGED vars  BY <1>6 DEF vars
<1> QED BY <1>1, <1>2, <1>3, <1>4, <1>5, <1>6 DEF Next, Acts

(* The row changes by a compare-and-set or by a delete.                    *)
LEMMA RowChanges ==
    ASSUME [Next]_vars
    PROVE  \/ UNCHANGED rowVars
           \/ \E u \in Uploads : CasWins(u) /\ Write(u) /\ (Cas(u) \/ CasAnswerLost(u))
           \/ live' = NoRow /\ UNCHANGED <<past, uploadVars, byteVars, sweepVars>>
<1> USE DEF rowVars
<1>1. ASSUME NEW p \in Puts, Begin(p) \/ ExpireRow(p) \/ ExpireBlob(p) PROVE UNCHANGED rowVars
  BY <1>1 DEF Begin, ExpireRow, ExpireBlob
<1>2. ASSUME NEW u \in Uploads, NEW p \in Puts, NEW w, Arrive(u, p, w) PROVE UNCHANGED rowVars
  BY <1>2 DEF Arrive
<1>3. ASSUME NEW u \in Uploads, Upload(u), ~Cas(u) PROVE UNCHANGED rowVars
  BY <1>3
  DEF Upload, Precheck, RefuseConcurrent, Admit, BodyDone, BodyFails, Stat, Refresh,
      SelectStaging, Compare, Promote, UnlinkStaging, DeleteStaging
<1>4. ASSUME NEW u \in Uploads, Cas(u)
      PROVE  UNCHANGED rowVars \/ (CasWins(u) /\ Write(u))
  BY <1>4 DEF Cas
<1>5. ASSUME NEW u \in Uploads, CasAnswerLost(u) PROVE CasWins(u) /\ Write(u)
  BY <1>5 DEF CasAnswerLost
<1>6. ASSUME NEW u \in Uploads, Fault(u) \/ UnlinkFails(u) \/ Die(u) PROVE UNCHANGED rowVars
  BY <1>6 DEF Fault, UnlinkFails, Die
<1>7. ASSUME NEW d \in Deletes, DeleteRead(d) \/ DeleteDrop(d)
      PROVE  \/ UNCHANGED rowVars
             \/ live' = NoRow /\ UNCHANGED <<past, uploadVars, byteVars, sweepVars>>
  BY <1>7 DEF DeleteRead, DeleteDrop
<1>8. ASSUME NEW r \in Reapers, Sweep(r) \/ SweepAborts(r) PROVE UNCHANGED rowVars
  BY <1>8
  DEF Sweep, StartSweep, ListTags, ListLiveTags, ListTopLevel, ListBlobs, SnapshotRefs,
      GcCheck, GcUnlink, ListRows, DeleteIfStale, ListStaging, OrphanCheck, ReapStaging,
      Closes, ListDone, AfterGc, SweepEnds, Forget, SweepAborts
<1>9. CASE UNCHANGED vars  BY <1>9 DEF vars
<1> QED BY <1>1, <1>2, <1>3, <1>4, <1>5, <1>6, <1>7, <1>8, <1>9 DEF Next

(* An upload rests, arrives or acts.                                       *)
LEMMA UploadMoves ==
    ASSUME TypeOK, [Next]_vars, NEW u \in Uploads
    PROVE  \/ pc'[u] = pc[u] /\ token'[u] = token[u] /\ at'[u] = at[u] /\ answer'[u] = answer[u]
           \/ \E p \in Puts, w \in deployment.replicas : Arrive(u, p, w)
           \/ Acts(u) /\ token'[u] = token[u] /\ at'[u] = at[u]
<1> DEFINE Rests(k) == /\ pc'[k] = pc[k] /\ token'[k] = token[k]
                       /\ at'[k] = at[k] /\ answer'[k] = answer[k]
<1> USE DEF uploadVars, Goto, End
<1>1. ASSUME UNCHANGED uploadVars PROVE Rests(u)
  BY <1>1
<1>2. ASSUME NEW p \in Puts, Begin(p) \/ ExpireRow(p) \/ ExpireBlob(p) PROVE Rests(u)
  BY <1>2 DEF Begin, ExpireRow, ExpireBlob
<1>3. ASSUME NEW v \in Uploads, NEW p \in Puts, NEW w \in deployment.replicas, Arrive(v, p, w)
      PROVE  v = u \/ Rests(u)
  BY <1>3 DEF Arrive, TypeOK
<1>4. ASSUME NEW v \in Uploads, Acts(v) PROVE token' = token /\ at' = at /\ (v = u \/ Rests(u))
  <2>1. token' = token /\ at' = at
    BY <1>4
    DEF Acts, Upload, Precheck, RefuseConcurrent, Admit, BodyDone, BodyFails, Stat, Refresh,
        SelectStaging, Compare, Promote, Cas, UnlinkStaging, DeleteStaging, CasAnswerLost,
        Fault, UnlinkFails, Die
  <2>2. ASSUME v # u PROVE pc'[u] = pc[u] /\ answer'[u] = answer[u]
    BY <1>4, <2>2
    DEF TypeOK, Acts, Upload, Precheck, RefuseConcurrent, Admit, BodyDone, BodyFails, Stat,
        Refresh, SelectStaging, Compare, Promote, Cas, UnlinkStaging, DeleteStaging,
        CasAnswerLost, Fault, UnlinkFails, Die, Unlinking
  <2> QED BY <2>1, <2>2
<1>5. ASSUME NEW d \in Deletes, DeleteRead(d) \/ DeleteDrop(d) PROVE Rests(u)
  BY <1>5 DEF DeleteRead, DeleteDrop
<1>6. ASSUME NEW r \in Reapers, Sweep(r) \/ SweepAborts(r) PROVE Rests(u)
  BY <1>6
  DEF Sweep, StartSweep, ListTags, ListLiveTags, ListTopLevel, ListBlobs, SnapshotRefs,
      GcCheck, GcUnlink, ListRows, DeleteIfStale, ListStaging, OrphanCheck, ReapStaging,
      Closes, ListDone, AfterGc, SweepEnds, Forget, SweepAborts
<1>7. CASE UNCHANGED vars  BY <1>7 DEF vars
<1> QED BY <1>2, <1>3, <1>4, <1>5, <1>6, <1>7 DEF Next, Acts

(* The stages an upload goes through, and what it is answered on the way.  *)
LEMMA ActsAdvance ==
    ASSUME TypeOK, NEW u \in Uploads, Acts(u)
    PROVE  /\ pc[u] \notin {"idle", "done"}
           /\ \/ /\ answer'[u] = answer[u]
                 /\ <<pc[u], pc'[u]>> \in
                        {<<"precheck", "guard">>, <<"guard", "body">>, <<"body", "stat">>,
                         <<"stat", "refresh">>, <<"refresh", "select">>, <<"select", "compare">>,
                         <<"compare", "promote">>, <<"promote", "cas">>, <<"cas", "unstage">>,
                         <<"unstage", "unrow">>, <<"abort", "abortrow">>, <<"abortrow", "done">>}
              \/ pc[u] = "unrow" /\ pc'[u] = "done" /\ answer'[u] = "ok"
              \/ pc[u] = "precheck" /\ pc'[u] = "done" /\ answer'[u] = "gone"
              \/ pc[u] = "guard" /\ pc'[u] = "done" /\ answer'[u] = "conflict"
              \/ pc[u] = "body" /\ pc'[u] = "abort" /\ answer'[u] = "aborted"
              \/ pc[u] \in {"stat", "promote"} /\ pc'[u] = "abort" /\ answer'[u] = "io-error"
              \/ pc[u] = "select" /\ pc'[u] = "abort" /\ answer'[u] = "gone"
              \/ pc[u] \in {"compare", "cas"} /\ pc'[u] = "abort" /\ answer'[u] = "conflict"
              \/ pc[u] \in {"stat", "promote", "cas"} /\ pc'[u] = "abort" /\ answer'[u] = "fault"
              \/ pc'[u] = "done" /\ answer'[u] = "died"
<1> USE DEF Goto, End, TypeOK
<1>1. CASE \/ Precheck(u) \/ RefuseConcurrent(u) \/ Admit(u) \/ BodyDone(u) \/ BodyFails(u)
           \/ Stat(u)
  BY <1>1 DEF Precheck, RefuseConcurrent, Admit, BodyDone, BodyFails, Stat
<1>2. CASE Refresh(u) \/ SelectStaging(u) \/ Compare(u) \/ Promote(u)
  BY <1>2 DEF Refresh, SelectStaging, Compare, Promote
<1>3. CASE Cas(u) \/ CasAnswerLost(u) \/ Fault(u) \/ Die(u)
  BY <1>3 DEF Cas, CasWins, CasAnswerLost, Fault, Die
<1>4. CASE UnlinkStaging(u) \/ UnlinkFails(u) \/ DeleteStaging(u)
  BY <1>4 DEF UnlinkStaging, UnlinkFails, DeleteStaging, Unlinking
<1> QED BY <1>1, <1>2, <1>3, <1>4 DEF Acts, Upload

(* A staging row and its precondition are written once, by the put-begin.  *)
LEMMA StagingRowChanges ==
    ASSUME [Next]_vars
    PROVE  \/ UNCHANGED <<rows, want>>
           \/ \E p \in Puts : Begin(p)
           \/ \E u \in Uploads : DeleteStaging(u) /\ UNCHANGED want
           \/ \E r \in Reapers, p \in Puts : DeleteIfStale(r, p) /\ UNCHANGED want
<1> USE DEF stagingVars
<1>1. ASSUME NEW p \in Puts, ExpireRow(p) \/ ExpireBlob(p) PROVE UNCHANGED <<rows, want>>
  BY <1>1 DEF ExpireRow, ExpireBlob
<1>2. ASSUME NEW u \in Uploads, NEW p \in Puts, NEW w, Arrive(u, p, w)
      PROVE  UNCHANGED <<rows, want>>
  BY <1>2 DEF Arrive
<1>3. ASSUME NEW u \in Uploads, Upload(u), ~DeleteStaging(u) PROVE UNCHANGED <<rows, want>>
  BY <1>3
  DEF Upload, Precheck, RefuseConcurrent, Admit, BodyDone, BodyFails, Stat, Refresh,
      SelectStaging, Compare, Promote, Cas, UnlinkStaging
<1>4. ASSUME NEW u \in Uploads, DeleteStaging(u) PROVE UNCHANGED want
  BY <1>4 DEF DeleteStaging
<1>5. ASSUME NEW u \in Uploads, CasAnswerLost(u) \/ Fault(u) \/ UnlinkFails(u) \/ Die(u)
      PROVE  UNCHANGED <<rows, want>>
  BY <1>5 DEF CasAnswerLost, Fault, UnlinkFails, Die
<1>6. ASSUME NEW d \in Deletes, DeleteRead(d) \/ DeleteDrop(d) PROVE UNCHANGED <<rows, want>>
  BY <1>6 DEF DeleteRead, DeleteDrop
<1>7. ASSUME NEW r \in Reapers, Sweep(r) \/ SweepAborts(r),
             \A p \in Puts : ~DeleteIfStale(r, p)
      PROVE  UNCHANGED <<rows, want>>
  BY <1>7
  DEF Sweep, StartSweep, ListTags, ListLiveTags, ListTopLevel, ListBlobs, SnapshotRefs,
      GcCheck, GcUnlink, ListRows, ListStaging, OrphanCheck, ReapStaging, Closes, ListDone,
      AfterGc, SweepEnds, Forget, SweepAborts
<1>8. ASSUME NEW r \in Reapers, NEW p \in Puts, DeleteIfStale(r, p) PROVE UNCHANGED want
  BY <1>8 DEF DeleteIfStale
<1>9. CASE UNCHANGED vars  BY <1>9 DEF vars
<1> QED BY <1>1, <1>2, <1>3, <1>4, <1>5, <1>6, <1>7, <1>8, <1>9 DEF Next

(* The compare key of a row, and of no row, is a key and never the None of  *)
(* an unset variable.                                                       *)
LEMMA KeyIsKey == TypeOK => Key(live) \in Keys /\ Key(NoRow) \in Keys /\ Key(live) # None
BY ObjStoreAssumption DEF TypeOK, Key, Keys, Row, NoRow

(* A begun put stays begun, with the precondition it began with.           *)
LEMMA BegunStays ==
    ASSUME TypeOK, [Next]_vars
    PROVE  /\ \A p \in Puts : want[p] # None => want'[p] = want[p]
           /\ Begun \subseteq Begun'
<1>1. ASSUME NEW q \in Puts, Begin(q), NEW p \in Puts, want[p] # None PROVE want'[p] = want[p]
  BY <1>1 DEF Begin, TypeOK
<1>2. \A p \in Puts : want[p] # None => want'[p] = want[p]
  BY <1>1, StagingRowChanges
<1> QED BY <1>2 DEF Begun

-----------------------------------------------------------------------------
(* Types.                                                                  *)

Stages == {"idle", "precheck", "guard", "done"} \union Holding
Answers == {"none", "ok", "conflict", "gone", "io-error", "aborted", "fault", "died"}

(* What a winning compare-and-set writes is a row that follows the live    *)
(* one.                                                                    *)
LEMMA WrittenFollows ==
    ASSUME StoreInv, NEW u \in Uploads, CasWins(u)
    PROVE  /\ Written(u) \in Row /\ Written(u).put = token[u] /\ token[u] \in Puts
           /\ live = NoRow => Written(u).inc = u
           /\ live # NoRow => /\ live \in Row /\ Written(u).inc = live.inc
                              /\ Written(u).version = live.version + 1
<1>1. TypeOK /\ Uploading  BY DEF StoreInv
<1>2. token[u] \in Puts /\ want[token[u]] = Key(live)
  BY <1>1 DEF CasWins, Uploading, Begun
<1>3. Written(u) = [version |-> live.version + 1,
                    inc |-> IF Key(live) = Key(NoRow) THEN u ELSE live.inc, put |-> token[u]]
  BY <1>2 DEF Written, Key
<1>4. live = NoRow => live.version = 0  BY DEF NoRow
<1>5. live # NoRow => /\ live \in Row /\ live.version \in Nat \ {0} /\ live.inc \in Uploads
                      /\ Key(live) # Key(NoRow)
  BY <1>1 DEF TypeOK, Row, NoRow, Key
<1> QED BY <1>2, <1>3, <1>4, <1>5 DEF Row

(* An upload comes to hold its staging file only through the guard.        *)
LEMMA EntersThroughGuard ==
    ASSUME TypeOK, [Next]_vars, NEW u \in Uploads, pc'[u] \in Holding
    PROVE  at'[u] = at[u] /\ token'[u] = token[u] /\ (pc[u] \in Holding \/ Admit(u))
<1>1. ~ \E p \in Puts, w \in deployment.replicas : Arrive(u, p, w)
  BY DEF Arrive, Goto, Holding, TypeOK
<1>2. CASE Acts(u) /\ token'[u] = token[u] /\ at'[u] = at[u]
  <2>1. pc[u] \in Holding \/ pc[u] = "guard"  BY <1>2, ActsAdvance DEF Holding
  <2>2. ASSUME pc[u] = "guard", ~Admit(u) PROVE FALSE
    BY <1>2, <2>2
    DEF TypeOK, Holding, Goto, End, Acts, Upload, Precheck, RefuseConcurrent, BodyDone,
        BodyFails, Stat, Refresh, SelectStaging, Compare, Promote, Cas, CasWins,
        UnlinkStaging, DeleteStaging, CasAnswerLost, Fault, UnlinkFails, Die, Unlinking
  <2> QED BY <1>2, <2>1, <2>2
<1> QED BY <1>1, <1>2, UploadMoves

(* Every step leaves each upload of a process past the guard of its own.   *)
LEMMA SingleWriterStep == TypeOK /\ [Next]_vars => SingleWriter'
<1> SUFFICES ASSUME TypeOK, [Next]_vars, NEW u \in Uploads, NEW v \in Uploads,
                    pc'[u] \in Holding, pc'[v] \in Holding,
                    at'[u] = at'[v], token'[u] = token'[v]
             PROVE  u = v
  BY DEF SingleWriter
<1>1. /\ at[u] = at[v] /\ token[u] = token[v]
      /\ pc[u] \in Holding \/ Admit(u)
      /\ pc[v] \in Holding \/ Admit(v)
  BY EntersThroughGuard
<1>2. CASE pc[u] \in Holding /\ pc[v] \in Holding  BY <1>1, <1>2 DEF TypeOK, SingleWriter
<1>3. CASE pc[u] \in Holding /\ Admit(v)  BY <1>1, <1>3 DEF Admit, InFlightSids
<1>4. CASE Admit(u) /\ pc[v] \in Holding  BY <1>1, <1>4 DEF Admit, InFlightSids
<1>5. CASE Admit(u) /\ Admit(v)  BY <1>5 DEF Admit, Goto, TypeOK, Holding
<1> QED BY <1>1, <1>2, <1>3, <1>4, <1>5

(* Every step keeps every variable in its type. *)
LEMMA TypeStep == StoreInv /\ [Next]_vars => TypeOK'
<1> SUFFICES ASSUME StoreInv, [Next]_vars PROVE TypeOK'  OBVIOUS
<1>0. TypeOK /\ Uploading /\ SingleWriter'  BY SingleWriterStep DEF StoreInv
<1> USE DEF byteVars, rowVars, stagingVars, ageVars, uploadVars, deleteVars, sweepVars, Goto, End
<1>1. ASSUME NEW p \in Puts, Begin(p) \/ ExpireRow(p) \/ ExpireBlob(p) PROVE TypeOK'
  BY <1>0, <1>1, KeyIsKey DEF TypeOK, Begin, ExpireRow, ExpireBlob
<1>2. ASSUME NEW u \in Uploads, NEW p \in Puts, NEW w \in deployment.replicas, Arrive(u, p, w)
      PROVE  TypeOK'
  BY <1>0, <1>2 DEF TypeOK, Arrive
<1>3. ASSUME NEW u \in Uploads, Acts(u) PROVE TypeOK'
  <2>1. token[u] \in Puts  BY <1>0, <1>3, ActsAdvance DEF Uploading, Begun
  <2>2. pc' \in [Uploads -> Stages] /\ answer' \in [Uploads -> Answers]
    BY <1>0, <1>3
    DEF TypeOK, Stages, Answers, Holding, Acts, Upload, Precheck, RefuseConcurrent, Admit,
        BodyDone, BodyFails, Stat, Refresh, SelectStaging, Compare, Promote, Cas, UnlinkStaging,
        DeleteStaging, CasAnswerLost, Fault, UnlinkFails, Die, Unlinking
  <2>3. CASE \/ Precheck(u) \/ RefuseConcurrent(u) \/ BodyFails(u) \/ Stat(u) \/ SelectStaging(u)
             \/ Compare(u) \/ Fault(u) \/ UnlinkFails(u) \/ Die(u)
    BY <1>0, <2>2, <2>3
    DEF TypeOK, Stages, Answers, Precheck, RefuseConcurrent, BodyFails, Stat, SelectStaging,
        Compare, Fault, UnlinkFails, Die
  <2>4. CASE Admit(u) \/ BodyDone(u) \/ UnlinkStaging(u)
    BY <1>0, <2>1, <2>2, <2>4
    DEF TypeOK, Stages, Answers, Admit, BodyDone, UnlinkStaging, OpenStagingWriter,
        FinalizeWriter, Put, Blob
  <2>5. CASE Refresh(u)
    BY <1>0, <2>1, <2>2, <2>5 DEF TypeOK, Stages, Answers, Refresh, RenewRow
  <2>6. CASE Promote(u)
    BY <1>0, <2>1, <2>2, <2>6
    DEF TypeOK, Stages, Answers, Promote, RenameStagedToLive, CopyStagedToLive, RenewBlob,
        Put, Blob
  <2>7. CASE Cas(u) \/ CasAnswerLost(u)
    <3>1. live' \in Row \union {NoRow} /\ past' \subseteq Row
      BY <1>0, <2>7, WrittenFollows DEF TypeOK, Cas, CasAnswerLost, Write
    <3> QED BY <1>0, <2>2, <2>7, <3>1 DEF TypeOK, Stages, Answers, Cas, CasAnswerLost
  <2>8. CASE DeleteStaging(u)
    BY <1>0, <2>2, <2>8 DEF TypeOK, Stages, Answers, DeleteStaging
  <2> QED BY <1>3, <2>3, <2>4, <2>5, <2>6, <2>7, <2>8 DEF Acts, Upload
<1>4. ASSUME NEW d \in Deletes, DeleteRead(d) \/ DeleteDrop(d) PROVE TypeOK'
  BY <1>0, <1>4, KeyIsKey DEF TypeOK, DeleteRead, DeleteDrop
<1>5. ASSUME NEW r \in Reapers, Sweep(r) \/ SweepAborts(r) PROVE TypeOK'
  <2> USE DEF RGoto, Consider
  <2>1. CASE \/ StartSweep(r) \/ ListTags(r) \/ ListBlobs(r) \/ SnapshotRefs(r)
             \/ ListRows(r) \/ ListStaging(r)
    BY <1>0, <2>1
    DEF TypeOK, StartSweep, ListTags, ListLiveTags, ListTopLevel, AfterGc, ListBlobs,
        SnapshotRefs, ListRows, ListStaging, ListLiveBlobs, ListStagingIds
  <2>2. CASE GcUnlink(r) \/ ReapStaging(r)
    BY <1>0, <2>2 DEF TypeOK, GcUnlink, ReapStaging, Put, Blob
  <2>3. ASSUME NEW p \in Puts, GcCheck(r, p) \/ OrphanCheck(r, p) PROVE TypeOK'
    BY <1>0, <2>3 DEF TypeOK, GcCheck, OrphanCheck
  <2>4. ASSUME NEW p \in Puts, DeleteIfStale(r, p) PROVE TypeOK'
    BY <1>0, <2>4 DEF TypeOK, DeleteIfStale
  <2>5. CASE Closes(r) \/ SweepAborts(r)
    BY <1>0, <2>5 DEF TypeOK, Closes, ListDone, AfterGc, SweepEnds, Forget, SweepAborts
  <2> QED BY <1>5, <2>1, <2>2, <2>3, <2>4, <2>5 DEF Sweep, Closes, ListTags
<1>6. CASE UNCHANGED vars  BY <1>0, <1>6 DEF TypeOK, vars
<1> QED BY <1>1, <1>2, <1>3, <1>4, <1>5, <1>6 DEF Next, Acts

(* Every step keeps the bytes and the process of a running upload known. *)
LEMMA UploadingStep == StoreInv /\ [Next]_vars => Uploading'
<1> SUFFICES ASSUME StoreInv, [Next]_vars, NEW u \in Uploads
             PROVE  /\ pc'[u] = "idle" <=> token'[u] = None
                    /\ token'[u] # None =>
                           token'[u] \in Begun' /\ at'[u] \in deployment'.replicas
                    /\ pc'[u] \notin {"abort", "abortrow", "done"} => answer'[u] = "none"
  BY DEF Uploading
<1>0. TypeOK /\ Uploading /\ deployment' = deployment /\ Begun \subseteq Begun'
  BY DeploymentIsFixed, BegunStays DEF StoreInv
<1>1. CASE pc'[u] = pc[u] /\ token'[u] = token[u] /\ at'[u] = at[u] /\ answer'[u] = answer[u]
  BY <1>0, <1>1 DEF Uploading
<1>2. ASSUME NEW p \in Puts, NEW w \in deployment.replicas, Arrive(u, p, w)
      PROVE  /\ pc'[u] # "idle" /\ token'[u] \in Begun' /\ at'[u] \in deployment'.replicas
             /\ answer'[u] = "none" /\ token'[u] # None
  <2>1. p \in Begun /\ p # None  BY <1>2, ObjStoreAssumption DEF Arrive, Begun
  <2> QED BY <1>0, <1>2, <2>1 DEF Arrive, TypeOK, Uploading, Goto
<1>3. CASE Acts(u) /\ token'[u] = token[u] /\ at'[u] = at[u]
  BY <1>0, <1>3, ActsAdvance DEF Uploading
<1> QED BY <1>0, <1>1, <1>2, <1>3, UploadMoves

(* The empty store satisfies the first invariant. *)
LEMMA StoreInit == Init => StoreInv
BY KeyIsKey, ObjStoreAssumption
DEF Init, StoreInv, TypeOK, SingleWriter, Uploading, Holding, Blob, Keys, Key, NoRow, Row

(* Every step keeps the first invariant. *)
LEMMA StoreStep == StoreInv /\ [Next]_vars => StoreInv'
BY TypeStep, UploadingStep DEF StoreInv

(* The first invariant holds in every state. *)
LEMMA StoreInvHolds == Spec => []StoreInv
BY StoreInit, StoreStep, PTL DEF Spec

(* The variables of the byte plane keep the shape the code gives them.     *)
THEOREM TypeCorrect == Spec => []TypeOK
<1>1. StoreInv => TypeOK  BY DEF StoreInv
<1> QED BY <1>1, StoreInvHolds, PTL

-----------------------------------------------------------------------------
(* Versions.                                                               *)

(* An upload never comes back from behind its write.                       *)
LEMMA OverStays ==
    ASSUME StoreInv, [Next]_vars, NEW u \in Uploads, pc[u] \in Over
    PROVE  pc'[u] \in Over /\ token'[u] = token[u]
<1>1. TypeOK  BY DEF StoreInv
<1>2. ~ \E p \in Puts, w \in deployment.replicas : Arrive(u, p, w)  BY DEF Arrive, Goto, Over
<1>3. CASE Acts(u) /\ token'[u] = token[u]  BY <1>1, <1>3, ActsAdvance DEF Over
<1> QED BY <1>1, <1>2, <1>3, UploadMoves

(* A compare-and-set that lands ends the upload's writing.                 *)
LEMMA CasIsOver ==
    ASSUME StoreInv, NEW u \in Uploads, Cas(u) \/ CasAnswerLost(u), CasWins(u)
    PROVE  /\ pc[u] = "cas" /\ pc'[u] \in {"unstage", "abort"}
           /\ UNCHANGED <<token, byteVars, ageVars, sweepVars>>
           /\ \A v \in Uploads \ {u} : pc'[v] = pc[v] /\ answer'[v] = answer[v]
           /\ answer'[u] = IF pc'[u] = "unstage" THEN answer[u] ELSE "fault"
BY DEF StoreInv, TypeOK, Cas, CasAnswerLost, CasWins, Goto, End

(* Every step keeps versions minted once and the live one the newest. *)
LEMMA VersionStep == StoreInv /\ VersionInv /\ [Next]_vars => VersionInv'
<1> SUFFICES ASSUME StoreInv, VersionInv, [Next]_vars PROVE VersionInv'  OBVIOUS
<1>0. TypeOK /\ past \subseteq Row  BY DEF StoreInv, TypeOK
<1>1. \A r \in past : r.inc \in Uploads /\ pc'[r.inc] \in Over
  BY <1>0, OverStays DEF VersionInv, MintedOnce, Row
<1>2. CASE UNCHANGED rowVars
  BY <1>1, <1>2 DEF VersionInv, MintedOnce, LiveIsNewest, VersionNamesContent, rowVars
<1>3. CASE live' = NoRow /\ past' = past
  BY <1>1, <1>3 DEF VersionInv, MintedOnce, LiveIsNewest, VersionNamesContent
<1>4. ASSUME NEW u \in Uploads, CasWins(u), Write(u), Cas(u) \/ CasAnswerLost(u)
      PROVE  VersionInv'
  <2> DEFINE w == Written(u)
  <2>1. /\ w \in Row
        /\ live = NoRow => w.inc = u
        /\ live # NoRow => live \in Row /\ w.inc = live.inc /\ w.version = live.version + 1
    BY <1>4, WrittenFollows
  <2>2. live' = w /\ past' = past \union {w}  BY <1>4 DEF Write
  <2>3. pc[u] = "cas" /\ pc'[u] \in Over  BY <1>4, CasIsOver DEF Over
  <2>4. \A r \in past : r.inc # u  BY <2>3 DEF VersionInv, MintedOnce, Over
  <2> HIDE DEF w
  <2>5. \A r \in past : r.inc = w.inc => r.version < w.version
    <3>1. CASE live = NoRow  BY <2>1, <2>4, <3>1
    <3>2. CASE live # NoRow
      <4> TAKE r \in past
      <4>1. r.version \in Nat /\ live.version \in Nat  BY <1>0, <2>1, <3>2 DEF Row
      <4>2. r.inc = live.inc => r.version <= live.version
        BY <3>2 DEF VersionInv, LiveIsNewest
      <4> QED BY <2>1, <3>2, <4>1, <4>2
    <3> QED BY <3>1, <3>2
  <2>6. \A r \in past \union {w} : r.version \in Nat  BY <1>0, <2>1 DEF Row
  <2>7. w.inc = u \/ (live # NoRow /\ live \in past /\ w.inc = live.inc)
    BY <2>1 DEF VersionInv, LiveIsNewest
  <2>8. MintedOnce'  BY <1>1, <2>2, <2>3, <2>7 DEF MintedOnce
  <2>9. LiveIsNewest'  BY <2>2, <2>5, <2>6 DEF LiveIsNewest
  <2>10. VersionNamesContent'
    <3> SUFFICES ASSUME NEW r1 \in past', NEW r2 \in past', Key(r1) = Key(r2) PROVE r1 = r2
      BY DEF VersionNamesContent, Key
    <3>1. r1.version = r2.version /\ r1.inc = r2.inc  BY DEF Key
    <3>2. CASE r1 \in past /\ r2 \in past  BY <3>2 DEF VersionInv, VersionNamesContent
    <3>3. CASE r1 = w \/ r2 = w  BY <2>2, <2>5, <2>6, <3>1, <3>3
    <3> QED BY <2>2, <3>2, <3>3
  <2> QED BY <2>8, <2>9, <2>10 DEF VersionInv
<1> QED BY <1>2, <1>3, <1>4, RowChanges

(* The invariant of the versions holds in every state. *)
LEMMA VersionInvHolds == Spec => []VersionInv
<1>1. Init => VersionInv
  BY DEF Init, VersionInv, MintedOnce, LiveIsNewest, VersionNamesContent
<1> QED BY <1>1, VersionStep, StoreInvHolds, PTL DEF Spec

(* Whatever begins, commits, lost answers, deletes and re-creations follow *)
(* one another: commitPut's compare-and-set and its fresh incarnations     *)
(* never give two ciphertexts one (version, incarnation).                  *)
THEOREM VersionsNameContent == Spec => []VersionNamesContent
<1>1. VersionInv => VersionNamesContent  BY DEF VersionInv
<1> QED BY <1>1, VersionInvHolds, PTL

-----------------------------------------------------------------------------
(* Bytes.                                                                  *)

(* A live blob changes by a promotion or by the collector.                 *)
LEMMA BlobChanges ==
    ASSUME [Next]_vars
    PROVE  \/ UNCHANGED blobs
           \/ \E u \in Uploads : Promote(u)
           \/ \E r \in Reapers : GcUnlink(r)
<1> USE DEF byteVars
<1>1. ASSUME NEW p \in Puts, Begin(p) \/ ExpireRow(p) \/ ExpireBlob(p) PROVE UNCHANGED blobs
  BY <1>1 DEF Begin, ExpireRow, ExpireBlob
<1>2. ASSUME NEW u \in Uploads, NEW p \in Puts, NEW w, Arrive(u, p, w) PROVE UNCHANGED blobs
  BY <1>2 DEF Arrive
<1>3. ASSUME NEW u \in Uploads, Acts(u), ~Promote(u) PROVE UNCHANGED blobs
  BY <1>3
  DEF Acts, Upload, Precheck, RefuseConcurrent, Admit, BodyDone, BodyFails, Stat, Refresh,
      SelectStaging, Compare, Cas, UnlinkStaging, DeleteStaging, CasAnswerLost, Fault,
      UnlinkFails, Die
<1>4. ASSUME NEW d \in Deletes, DeleteRead(d) \/ DeleteDrop(d) PROVE UNCHANGED blobs
  BY <1>4 DEF DeleteRead, DeleteDrop
<1>5. ASSUME NEW r \in Reapers, Sweep(r) \/ SweepAborts(r), ~GcUnlink(r) PROVE UNCHANGED blobs
  BY <1>5
  DEF Sweep, StartSweep, ListTags, ListLiveTags, ListTopLevel, ListBlobs, SnapshotRefs,
      GcCheck, ListRows, DeleteIfStale, ListStaging, OrphanCheck, ReapStaging, Closes,
      ListDone, AfterGc, SweepEnds, Forget, SweepAborts
<1>6. CASE UNCHANGED vars  BY <1>6 DEF vars
<1> QED BY <1>1, <1>2, <1>3, <1>4, <1>5, <1>6 DEF Next, Acts

(* A staging blob changes by its uploads or by the reaper.                 *)
LEMMA StagedChanges ==
    ASSUME [Next]_vars
    PROVE  \/ UNCHANGED staged
           \/ \E u \in Uploads : Admit(u) \/ BodyDone(u) \/ Promote(u) \/ UnlinkStaging(u)
           \/ \E r \in Reapers : ReapStaging(r)
<1> USE DEF byteVars
<1>1. ASSUME NEW p \in Puts, Begin(p) \/ ExpireRow(p) \/ ExpireBlob(p) PROVE UNCHANGED staged
  BY <1>1 DEF Begin, ExpireRow, ExpireBlob
<1>2. ASSUME NEW u \in Uploads, NEW p \in Puts, NEW w, Arrive(u, p, w) PROVE UNCHANGED staged
  BY <1>2 DEF Arrive
<1>3. ASSUME NEW u \in Uploads, Acts(u),
             ~Admit(u), ~BodyDone(u), ~Promote(u), ~UnlinkStaging(u)
      PROVE  UNCHANGED staged
  BY <1>3
  DEF Acts, Upload, Precheck, RefuseConcurrent, BodyFails, Stat, Refresh, SelectStaging,
      Compare, Cas, DeleteStaging, CasAnswerLost, Fault, UnlinkFails, Die
<1>4. ASSUME NEW d \in Deletes, DeleteRead(d) \/ DeleteDrop(d) PROVE UNCHANGED staged
  BY <1>4 DEF DeleteRead, DeleteDrop
<1>5. ASSUME NEW r \in Reapers, Sweep(r) \/ SweepAborts(r), ~ReapStaging(r)
      PROVE  UNCHANGED staged
  BY <1>5
  DEF Sweep, StartSweep, ListTags, ListLiveTags, ListTopLevel, ListBlobs, SnapshotRefs,
      GcCheck, GcUnlink, ListRows, DeleteIfStale, ListStaging, OrphanCheck, Closes, ListDone,
      AfterGc, SweepEnds, Forget, SweepAborts
<1>6. CASE UNCHANGED vars  BY <1>6 DEF vars
<1> QED BY <1>1, <1>2, <1>3, <1>4, <1>5, <1>6 DEF Next, Acts

(* Bytes become old by ExpireBlob, and a sweep takes what is old when it   *)
(* starts; a token that has expired stays so.                              *)
LEMMA BlobAgeChanges ==
    ASSUME TypeOK, [Next]_vars
    PROVE  /\ expired \subseteq expired'
           /\ oldBlobs' \subseteq oldBlobs \/ \E p \in Puts : ExpireBlob(p)
           /\ \A r \in Reapers : cutBlobs'[r] \subseteq cutBlobs[r] \union oldBlobs
<1> USE DEF ageVars, sweepVars
<1>1. ASSUME NEW p \in Puts, Begin(p) \/ ExpireRow(p)
      PROVE  expired \subseteq expired' /\ UNCHANGED <<oldBlobs, cutBlobs>>
  BY <1>1 DEF Begin, ExpireRow
<1>2. ASSUME NEW p \in Puts, ExpireBlob(p)
      PROVE  expired \subseteq expired' /\ UNCHANGED cutBlobs
  BY <1>2 DEF ExpireBlob
<1>3. ASSUME NEW u \in Uploads, NEW p \in Puts, NEW w, Arrive(u, p, w)
      PROVE  UNCHANGED <<expired, oldBlobs, cutBlobs>>
  BY <1>3 DEF Arrive
<1>4. ASSUME NEW u \in Uploads, Acts(u), ~Promote(u)
      PROVE  UNCHANGED <<expired, oldBlobs, cutBlobs>>
  BY <1>4
  DEF Acts, Upload, Precheck, RefuseConcurrent, Admit, BodyDone, BodyFails, Stat, Refresh,
      SelectStaging, Compare, Cas, UnlinkStaging, DeleteStaging, CasAnswerLost, Fault,
      UnlinkFails, Die
<1>5. ASSUME NEW u \in Uploads, Promote(u)
      PROVE  /\ UNCHANGED expired /\ oldBlobs' \subseteq oldBlobs
             /\ \A r \in Reapers : cutBlobs'[r] \subseteq cutBlobs[r]
  BY <1>5 DEF Promote, RenewBlob
<1>6. ASSUME NEW d \in Deletes, DeleteRead(d) \/ DeleteDrop(d)
      PROVE  UNCHANGED <<expired, oldBlobs, cutBlobs>>
  BY <1>6 DEF DeleteRead, DeleteDrop
<1>7. ASSUME NEW r \in Reapers, Sweep(r) \/ SweepAborts(r), ~StartSweep(r)
      PROVE  /\ UNCHANGED <<expired, oldBlobs>>
             /\ \A s \in Reapers : cutBlobs'[s] \subseteq cutBlobs[s]
  BY <1>7
  DEF TypeOK, Sweep, ListTags, ListLiveTags, ListTopLevel, ListBlobs, SnapshotRefs, GcCheck,
      GcUnlink, ListRows, DeleteIfStale, ListStaging, OrphanCheck, ReapStaging, Closes,
      ListDone, AfterGc, SweepEnds, Forget, SweepAborts
<1>8. ASSUME NEW r \in Reapers, StartSweep(r)
      PROVE  /\ UNCHANGED <<expired, oldBlobs>>
             /\ \A s \in Reapers : cutBlobs'[s] \subseteq cutBlobs[s] \union oldBlobs
  BY <1>8 DEF StartSweep, TypeOK
<1>9. CASE UNCHANGED vars  BY <1>9 DEF vars
<1> QED BY <1>1, <1>2, <1>3, <1>4, <1>5, <1>6, <1>7, <1>8, <1>9 DEF Next, Acts

(* A reaper rests or sweeps.                                               *)
LEMMA SweepMoves ==
    ASSUME TypeOK, [Next]_vars, NEW r \in Reapers
    PROVE  \/ rpc'[r] = rpc[r] /\ todo'[r] = todo[r] /\ pick'[r] = pick[r]
           \/ Sweep(r) \/ SweepAborts(r)
<1> DEFINE Rests(k) == rpc'[k] = rpc[k] /\ todo'[k] = todo[k] /\ pick'[k] = pick[k]
<1> USE DEF sweepVars
<1>1. ASSUME NEW p \in Puts, Begin(p) \/ ExpireRow(p) \/ ExpireBlob(p) PROVE Rests(r)
  BY <1>1 DEF Begin, ExpireRow, ExpireBlob
<1>2. ASSUME NEW u \in Uploads, NEW p \in Puts, NEW w, Arrive(u, p, w) PROVE Rests(r)
  BY <1>2 DEF Arrive
<1>3. ASSUME NEW u \in Uploads, Acts(u) PROVE Rests(r)
  BY <1>3
  DEF Acts, Upload, Precheck, RefuseConcurrent, Admit, BodyDone, BodyFails, Stat, Refresh,
      SelectStaging, Compare, Promote, Cas, UnlinkStaging, DeleteStaging, CasAnswerLost, Fault,
      UnlinkFails, Die
<1>4. ASSUME NEW d \in Deletes, DeleteRead(d) \/ DeleteDrop(d) PROVE Rests(r)
  BY <1>4 DEF DeleteRead, DeleteDrop
<1>5. ASSUME NEW s \in Reapers, Sweep(s) \/ SweepAborts(s), s # r PROVE Rests(r)
  <2> USE DEF TypeOK, RGoto, Consider
  <2>1. CASE \/ StartSweep(s) \/ ListTags(s) \/ ListBlobs(s) \/ SnapshotRefs(s)
             \/ ListRows(s) \/ ListStaging(s) \/ GcUnlink(s) \/ ReapStaging(s) \/ SweepAborts(s)
    BY <1>5, <2>1
    DEF StartSweep, ListTags, ListLiveTags, ListTopLevel, ListBlobs, SnapshotRefs, ListRows,
        ListStaging, GcUnlink, ReapStaging, SweepAborts
  <2>2. ASSUME NEW p \in Puts, GcCheck(s, p) \/ OrphanCheck(s, p) \/ DeleteIfStale(s, p)
        PROVE  Rests(r)
    BY <1>5, <2>2 DEF GcCheck, OrphanCheck, DeleteIfStale
  <2>3. CASE Closes(s)
    BY <1>5, <2>3 DEF Closes, ListDone, AfterGc, SweepEnds, Forget
  <2> QED BY <1>5, <2>1, <2>2, <2>3 DEF Sweep, Closes, ListTags
<1>6. CASE UNCHANGED vars  BY <1>6 DEF vars
<1> QED BY <1>1, <1>2, <1>3, <1>4, <1>5, <1>6 DEF Next, Acts

(* Every step keeps one writer per staging object while it may still be     *)
(* written: the file system has one process, whose guard sees them all.    *)
LEMMA OneWriterStep == StoreInv /\ [Next]_vars => OneWriter'
<1> SUFFICES ASSUME StoreInv', deployment'.backend = "fs",
                    NEW u \in Uploads, NEW v \in Uploads, token'[u] = token'[v],
                    pc'[u] \in Holding, pc'[v] \in Holding
             PROVE  u = v
  BY StoreStep DEF OneWriter
<1>1. token'[u] # None /\ token'[v] # None  BY DEF StoreInv, Uploading, Holding
<1>2. at'[u] \in deployment'.replicas /\ at'[v] \in deployment'.replicas
  BY <1>1 DEF StoreInv, Uploading
<1>3. at'[u] = at'[v]
  <2>1. deployment' \in Deployments  BY DEF StoreInv, TypeOK
  <2>2. PICK w \in deployment'.replicas : deployment'.replicas = {w}
    BY <2>1, ObjStoreAssumption
  <2> QED BY <1>2, <2>2
<1> QED BY <1>3 DEF StoreInv, TypeOK, SingleWriter

(* The process of the file system backend admits no second writer.         *)
LEMMA AdmittedAlone ==
    ASSUME StoreInv, deployment.backend = "fs", NEW u \in Uploads, Admit(u),
           NEW v \in Uploads, pc[v] \in Holding
    PROVE  token[v] # token[u]
<1>1. TypeOK /\ Uploading  BY DEF StoreInv
<1>2. token[u] # None /\ token[v] # None
  BY <1>1 DEF Uploading, Admit, Goto, Holding
<1>3. at[u] \in deployment.replicas /\ at[v] \in deployment.replicas
  BY <1>1, <1>2 DEF Uploading
<1>4. PICK w \in deployment.replicas : deployment.replicas = {w}
  BY <1>1, ObjStoreAssumption DEF TypeOK
<1>5. at[u] = at[v]  BY <1>3, <1>4
<1>6. token[u] \notin InFlightSids(at[u])  BY DEF Admit
<1> QED BY <1>5, <1>6 DEF InFlightSids

(* A promotion that goes through, and one that finds nothing.              *)
LEMMA PromoteMoves ==
    ASSUME StoreInv, NEW u \in Uploads, Promote(u)
    PROVE  /\ pc[u] = "promote" /\ token[u] \in Puts
           /\ \A p \in Puts : p # token[u] => blobs'[p] = blobs[p] /\ staged'[p] = staged[p]
           /\ \/ pc'[u] = "cas" /\ staged[token[u]] # "none" /\ blobs'[token[u]] = staged[token[u]]
              \/ pc'[u] = "abort" /\ UNCHANGED <<blobs, staged>>
           /\ staged'[token[u]] \in {staged[token[u]], "none"}
<1>1. TypeOK /\ pc[u] = "promote" /\ token[u] \in Puts
  BY DEF StoreInv, TypeOK, Uploading, Promote, Begun
<1> QED BY <1>1
        DEF TypeOK, Promote, Goto, End, RenameStagedToLive, CopyStagedToLive, Put, byteVars

(* Only the file system's writer leaves part of a body where others see it.*)
LEMMA PartialIsBeingWritten ==
    ASSUME StoreInv, [Next]_vars, NEW p \in Puts, staged'[p] = "partial"
    PROVE  \/ staged[p] = "partial"
           \/ /\ deployment.backend = "fs"
              /\ \E u \in Uploads : Admit(u) /\ token[u] = p
<1>1. TypeOK /\ Uploading  BY DEF StoreInv
<1>2. ASSUME NEW u \in Uploads, Admit(u) \/ BodyDone(u) \/ UnlinkStaging(u)
      PROVE  token[u] \in Puts
  <2>1. pc[u] # "idle"  BY <1>2 DEF Admit, BodyDone, UnlinkStaging, Unlinking, Goto
  <2> QED BY <1>1, <2>1 DEF Uploading, Begun
<1>3. ASSUME NEW u \in Uploads, Admit(u)
      PROVE  staged[p] = "partial" \/ (deployment.backend = "fs" /\ token[u] = p)
  BY <1>1, <1>2, <1>3 DEF Admit, OpenStagingWriter, Put, TypeOK
<1>4. ASSUME NEW u \in Uploads, BodyDone(u) PROVE staged[p] = "partial"
  BY <1>1, <1>2, <1>4 DEF BodyDone, FinalizeWriter, Put, TypeOK
<1>5. ASSUME NEW u \in Uploads, Promote(u) PROVE staged[p] = "partial"
  BY <1>5, PromoteMoves
<1>6. ASSUME NEW u \in Uploads, UnlinkStaging(u) PROVE staged[p] = "partial"
  BY <1>1, <1>2, <1>6 DEF UnlinkStaging, Put, TypeOK
<1>7. ASSUME NEW r \in Reapers, ReapStaging(r) PROVE staged[p] = "partial"
  BY <1>1, <1>7 DEF ReapStaging, Put, TypeOK
<1> QED BY <1>3, <1>4, <1>5, <1>6, <1>7, StagedChanges

(* Every step leaves no half-written object that anything will read. *)
LEMMA WholeStep == StoreInv /\ BytesAreWhole /\ [Next]_vars => BytesAreWhole'
<1> SUFFICES ASSUME StoreInv, BytesAreWhole, [Next]_vars PROVE BytesAreWhole'  OBVIOUS
<1>1. TypeOK /\ Uploading /\ deployment' = deployment  BY DeploymentIsFixed DEF StoreInv
<1>2. ASSUME NEW p \in Puts PROVE blobs'[p] # "partial"
  <2>1. ASSUME NEW u \in Uploads, Promote(u) PROVE blobs'[p] # "partial"
    BY <1>2, <2>1, PromoteMoves DEF BytesAreWhole, Committing
  <2>2. ASSUME NEW r \in Reapers, GcUnlink(r) PROVE blobs'[p] # "partial"
    BY <1>1, <2>2 DEF GcUnlink, Put, TypeOK, BytesAreWhole
  <2>3. CASE UNCHANGED blobs  BY <2>3 DEF BytesAreWhole
  <2> QED BY <2>1, <2>2, <2>3, BlobChanges
<1>3. ASSUME NEW p \in Puts, deployment'.backend # "fs" PROVE staged'[p] # "partial"
  BY <1>1, <1>3, PartialIsBeingWritten DEF BytesAreWhole
<1>4. ASSUME NEW u \in Uploads, pc'[u] \in Committing PROVE staged'[token'[u]] # "partial"
  <2>1. token'[u] = token[u] /\ pc[u] \in Holding /\ token[u] \in Puts
    <3>1. token'[u] = token[u] /\ (pc[u] \in Holding \/ Admit(u))
      BY <1>1, <1>4, EntersThroughGuard DEF Committing, Holding
    <3>2. ~Admit(u)  BY <1>1, <1>4 DEF Admit, Goto, TypeOK, Committing
    <3> QED BY <1>1, <3>1, <3>2 DEF Uploading, Begun, Holding
  <2>2. staged[token[u]] # "partial"
    <3>1. CASE pc[u] \in Committing  BY <3>1 DEF BytesAreWhole
    <3>2. CASE pc[u] \notin Committing
      <4>1. Acts(u)
        <5>1. ~ \E p \in Puts, w \in deployment.replicas : Arrive(u, p, w)
          BY <2>1 DEF Arrive, Goto, Holding
        <5> QED BY <1>1, <1>4, <3>2, <5>1, UploadMoves
      <4>2. pc[u] = "stat" /\ pc'[u] = "refresh" /\ answer'[u] = answer[u]
        BY <1>1, <1>4, <3>2, <4>1, ActsAdvance DEF Committing
      <4>3. Stat(u)
        BY <1>1, <4>1, <4>2
        DEF TypeOK, Goto, End, Acts, Upload, Precheck, RefuseConcurrent, Admit, BodyDone,
            BodyFails, Refresh, SelectStaging, Compare, Promote, Cas, CasWins, UnlinkStaging,
            DeleteStaging, CasAnswerLost, Fault, UnlinkFails, Die, Unlinking
      <4> QED BY <1>1, <4>2, <4>3 DEF Stat, StatStaging, End, Goto, TypeOK
    <3> QED BY <3>1, <3>2
  <2>3. ASSUME deployment.backend = "fs", NEW v \in Uploads, Admit(v), token[v] = token[u]
        PROVE  FALSE
    BY <2>1, <2>3, AdmittedAlone
  <2> QED BY <2>1, <2>2, <2>3, PartialIsBeingWritten
<1> QED BY <1>2, <1>3, <1>4 DEF BytesAreWhole

(* Every step leaves each live object promoted by one put. *)
LEMMA PromotedStep == StoreInv /\ PromotedByOne /\ [Next]_vars => PromotedByOne'
<1> SUFFICES ASSUME StoreInv, PromotedByOne, [Next]_vars PROVE PromotedByOne'  OBVIOUS
<1>1. TypeOK /\ Uploading /\ deployment' = deployment  BY DeploymentIsFixed DEF StoreInv
<1>2. ASSUME NEW u \in Uploads, pc[u] \in Over \union {"cas"}
      PROVE  pc'[u] \in Over \union {"cas"} /\ token'[u] = token[u]
  <2>1. ~ \E p \in Puts, w \in deployment.replicas : Arrive(u, p, w)
    BY <1>2 DEF Arrive, Goto, Over
  <2> QED BY <1>1, <1>2, <2>1, UploadMoves, ActsAdvance DEF Over
<1>3. ASSUME NEW p \in Puts, blobs'[p] # "none"
      PROVE  \E u \in Uploads : token'[u] = p /\ pc'[u] \in Over \union {"cas"}
  <2>1. CASE blobs[p] # "none"  BY <1>2, <2>1 DEF PromotedByOne
  <2>2. CASE blobs[p] = "none"
    <3>1. ~ \E r \in Reapers : GcUnlink(r)  BY <1>1, <1>3, <2>2 DEF GcUnlink, Put, TypeOK
    <3>2. PICK u \in Uploads : Promote(u)  BY <1>3, <2>2, <3>1, BlobChanges
    <3>3. token[u] = p /\ pc'[u] = "cas"  BY <1>3, <2>2, <3>2, PromoteMoves
    <3>4. token'[u] = token[u]  BY <3>2 DEF Promote
    <3> QED BY <3>3, <3>4
  <2> QED BY <2>1, <2>2
<1>4. ASSUME ~deployment'.replays, NEW u \in Uploads, NEW v \in Uploads,
             token'[u] = token'[v], token'[u] # None
      PROVE  u = v
  <2>1. ASSUME NEW k \in Uploads
        PROVE  \/ token'[k] = token[k]
               \/ \E p \in Puts, w \in deployment.replicas : Arrive(k, p, w)
    BY <1>1, UploadMoves
  <2>2. ASSUME NEW k \in Uploads, NEW p \in Puts, NEW w, Arrive(k, p, w)
        PROVE  /\ token'[k] = p
               /\ \A i \in Uploads : token[i] # p /\ (i # k => token'[i] = token[i])
    BY <1>1, <1>4, <2>2 DEF Arrive, TypeOK
  <2> QED BY <1>1, <1>4, <2>1, <2>2 DEF PromotedByOne
<1> QED BY <1>3, <1>4 DEF PromotedByOne

(* A put that is spent stays spent: its token is presented to no upload    *)
(* again.                                                                  *)
LEMMA SpentStays ==
    ASSUME StoreInv, [Next]_vars, NEW p \in Puts, Spent(p)
    PROVE  Spent(p)'
<1>1. TypeOK  BY DEF StoreInv
<1>2. p \in expired'  BY <1>1, BlobAgeChanges DEF Spent
<1>3. ASSUME NEW u \in Uploads, token'[u] = p PROVE pc'[u] \in Over
  <2>1. ~ \E q \in Puts, w \in deployment.replicas : Arrive(u, q, w)
    BY <1>1, <1>3 DEF Arrive, Spent, TypeOK
  <2>2. token[u] = p  BY <1>1, <1>3, <2>1, UploadMoves
  <2> QED BY <2>2, OverStays DEF Spent
<1> QED BY <1>2, <1>3 DEF Spent

(* Bytes become old only when every upload of their put is over.           *)
LEMMA ExpiredIsSpent ==
    ASSUME StoreInv, PromotedByOne, NEW p \in Puts, ExpireBlob(p)
    PROVE  Spent(p)' /\ oldBlobs' = oldBlobs \union {p}
<1>1. TypeOK /\ Uploading  BY DEF StoreInv
<1>2. p # None /\ deployment \in Deployments  BY <1>1, ObjStoreAssumption DEF TypeOK
<1>3. \A u \in Uploads : token[u] = p => pc[u] \in Over
  <2>1. CASE ~deployment.slow
    BY <1>1, <1>2, <2>1 DEF ExpireBlob, Quiet, Underway, Over, Uploading
  <2>2. CASE deployment.slow
    <3>1. ~deployment.replays  BY <1>2, <2>2, ObjStoreAssumption
    <3>2. PICK v \in Uploads : token[v] = p /\ pc[v] \in Over \union {"cas"}
      BY DEF ExpireBlob, PromotedByOne
    <3>3. pc[v] \in Over  BY <3>2 DEF ExpireBlob
    <3>4. \A u \in Uploads : token[u] = p => u = v  BY <1>2, <3>1, <3>2 DEF PromotedByOne
    <3> QED BY <3>3, <3>4
  <2> QED BY <2>1, <2>2
<1> QED BY <1>3 DEF ExpireBlob, Spent, uploadVars

(* Every step leaves the objects of an old put spent. *)
LEMMA SpentStep ==
    StoreInv /\ PromotedByOne /\ OldIsSpent /\ [Next]_vars => OldIsSpent'
<1> SUFFICES ASSUME StoreInv, PromotedByOne, OldIsSpent, [Next]_vars PROVE OldIsSpent'
  OBVIOUS
<1>1. TypeOK /\ TypeOK'  BY TypeStep DEF StoreInv
<1>2. \A p \in oldBlobs : p \in Puts /\ Spent(p)'
  BY <1>1, SpentStays DEF TypeOK, OldIsSpent
<1>3. ASSUME NEW p \in oldBlobs' PROVE Spent(p)'
  <2>1. CASE p \in oldBlobs  BY <1>2, <2>1
  <2>2. CASE p \notin oldBlobs
    <3>1. PICK q \in Puts : ExpireBlob(q)  BY <1>1, <1>3, <2>2, BlobAgeChanges
    <3>2. oldBlobs' = oldBlobs \union {q} /\ Spent(q)'  BY <3>1, ExpiredIsSpent
    <3> QED BY <1>3, <2>2, <3>2
  <2> QED BY <2>1, <2>2
<1>4. ASSUME NEW r \in Reapers, NEW p \in cutBlobs'[r] PROVE Spent(p)'
  <2>1. CASE p \in oldBlobs  BY <1>2, <2>1
  <2>2. CASE p \in cutBlobs[r]
    <3>1. p \in Puts /\ Spent(p)  BY <1>1, <2>2 DEF OldIsSpent, TypeOK
    <3> QED BY <3>1, SpentStays
  <2> QED BY <1>1, <1>4, <2>1, <2>2, BlobAgeChanges
<1>5. ASSUME NEW r \in Reapers, rpc'[r] \in {"refs", "gc", "unlinklive"}
      PROVE  todo'[r] \subseteq todo[r] \union cutBlobs[r] /\
             (rpc[r] \in {"refs", "gc", "unlinklive"} \/ todo'[r] \subseteq cutBlobs[r])
  <2> USE DEF RGoto, Consider, TypeOK
  <2>1. CASE Sweep(r)
    <3>1. CASE StartSweep(r) \/ ListTags(r) \/ ListRows(r) \/ ListStaging(r) \/ ReapStaging(r)
      BY <1>1, <1>5, <3>1
      DEF StartSweep, ListTags, ListLiveTags, ListTopLevel, ListRows, ListStaging,
          ReapStaging
    <3>2. CASE ListBlobs(r) \/ SnapshotRefs(r) \/ GcUnlink(r)
      BY <1>1, <3>2 DEF ListBlobs, SnapshotRefs, GcUnlink
    <3>3. ASSUME NEW p \in Puts, GcCheck(r, p) \/ DeleteIfStale(r, p) \/ OrphanCheck(r, p)
          PROVE  rpc[r] \in {"refs", "gc", "unlinklive"} /\ todo'[r] \subseteq todo[r]
      BY <1>1, <1>5, <3>3 DEF GcCheck, DeleteIfStale, OrphanCheck
    <3>4. CASE Closes(r)
      BY <1>1, <1>5, <3>4 DEF Closes, ListDone, AfterGc, SweepEnds, Forget
    <3> QED BY <2>1, <3>1, <3>2, <3>3, <3>4 DEF Sweep, Closes, ListTags
  <2>2. CASE SweepAborts(r)  BY <1>1, <1>5, <2>2 DEF SweepAborts
  <2>3. CASE rpc'[r] = rpc[r] /\ todo'[r] = todo[r]  BY <1>5, <2>3
  <2> QED BY <1>1, <2>1, <2>2, <2>3, SweepMoves
<1>6. ASSUME NEW r \in Reapers, rpc'[r] \in {"refs", "gc", "unlinklive"}, NEW p \in todo'[r]
      PROVE  Spent(p)'
  <2>1. p \in Puts /\ Spent(p)  BY <1>1, <1>5, <1>6 DEF OldIsSpent, TypeOK
  <2> QED BY <2>1, SpentStays
<1>7. ASSUME NEW r \in Reapers, rpc'[r] = "unlinklive"
      PROVE  \/ rpc[r] = "unlinklive" /\ pick'[r] = pick[r]
             \/ /\ rpc[r] = "gc" /\ pick'[r] \in todo[r] /\ pick'[r] \in Puts
                /\ live.put # pick'[r] /\ UNCHANGED live
  <2> USE DEF RGoto, Consider, TypeOK
  <2>1. CASE Sweep(r)
    <3>1. CASE \/ StartSweep(r) \/ ListTags(r) \/ ListBlobs(r) \/ SnapshotRefs(r) \/ GcUnlink(r)
               \/ ListRows(r) \/ ListStaging(r) \/ ReapStaging(r)
      BY <1>1, <1>7, <3>1
      DEF StartSweep, ListTags, ListLiveTags, ListTopLevel, AfterGc, ListBlobs, SnapshotRefs,
          GcUnlink, ListRows, ListStaging, ReapStaging
    <3>2. ASSUME NEW p \in Puts, GcCheck(r, p)
          PROVE  /\ rpc[r] = "gc" /\ pick'[r] \in todo[r] /\ pick'[r] \in Puts
                 /\ live.put # pick'[r] /\ UNCHANGED live
      BY <1>1, <1>7, <3>2 DEF GcCheck, rowVars
    <3>3. ASSUME NEW p \in Puts, DeleteIfStale(r, p) \/ OrphanCheck(r, p) PROVE FALSE
      BY <1>1, <1>7, <3>3 DEF DeleteIfStale, OrphanCheck
    <3>4. CASE Closes(r)
      BY <1>1, <1>7, <3>4 DEF Closes, ListDone, AfterGc, SweepEnds, Forget
    <3> QED BY <2>1, <3>1, <3>2, <3>3, <3>4 DEF Sweep, Closes, ListTags
  <2>2. CASE SweepAborts(r)  BY <1>1, <1>7, <2>2 DEF SweepAborts
  <2>3. CASE rpc'[r] = rpc[r] /\ pick'[r] = pick[r]  BY <1>7, <2>3
  <2> QED BY <1>1, <2>1, <2>2, <2>3, SweepMoves
<1>8. ASSUME NEW p \in Puts, Spent(p), live.put # p PROVE live'.put # p
  <2>1. CASE UNCHANGED rowVars  BY <1>8, <2>1 DEF rowVars
  <2>2. ASSUME NEW u \in Uploads, CasWins(u), Write(u) PROVE live'.put # p
    <3>1. live'.put = token[u] /\ pc[u] = "cas"
      BY <2>2, WrittenFollows DEF Write, CasWins
    <3> QED BY <1>8, <3>1 DEF Spent, Over
  <2>3. CASE live' = NoRow  BY <1>8, <2>3, ObjStoreAssumption DEF NoRow
  <2> QED BY <2>1, <2>2, <2>3, RowChanges
<1>9. ASSUME NEW r \in Reapers, rpc'[r] = "unlinklive"
      PROVE  pick'[r] \in Puts /\ Spent(pick[r])' /\ live'.put # pick'[r]
  <2>1. PICK p : p = pick'[r]  OBVIOUS
  <2>2. p \in Puts /\ Spent(p) /\ live.put # p
    BY <1>7, <1>9, <2>1 DEF OldIsSpent
  <2>3. Spent(p)' /\ live'.put # p  BY <1>8, <2>2, SpentStays
  <2> QED BY <2>1, <2>2, <2>3 DEF Spent
<1> QED BY <1>3, <1>4, <1>6, <1>9 DEF OldIsSpent

(* Bytes vanish only under the collector's hand, and it never has those of *)
(* the live row, or of a row about to be written, in hand.                 *)
LEMMA BytesVanish ==
    ASSUME StoreInv, OldIsSpent, [Next]_vars, NEW p \in Puts, blobs[p] # "none",
           blobs'[p] = "none"
    PROVE  Spent(p) /\ live.put # p
<1>1. TypeOK  BY DEF StoreInv
<1>2. ~ \E u \in Uploads : Promote(u)
  <2>1. ASSUME NEW u \in Uploads, Promote(u) PROVE FALSE  BY <2>1, PromoteMoves
  <2> QED BY <2>1
<1>3. PICK r \in Reapers : GcUnlink(r)  BY <1>2, BlobChanges
<1>4. pick[r] = p /\ rpc[r] = "unlinklive"  BY <1>1, <1>3 DEF GcUnlink, Put, TypeOK, RGoto
<1> QED BY <1>4 DEF OldIsSpent

(* Whatever runs, the bytes an upload is about to commit are there. *)
LEMMA CasHasBytesStep ==
    StoreInv /\ OldIsSpent /\ CasHasBytes /\ [Next]_vars => CasHasBytes'
<1> SUFFICES ASSUME StoreInv, OldIsSpent, CasHasBytes, [Next]_vars,
                    NEW u \in Uploads, pc'[u] = "cas"
             PROVE  blobs'[token'[u]] # "none"
  BY DEF CasHasBytes
<1>1. TypeOK /\ Uploading  BY DEF StoreInv
<1>2. token'[u] = token[u] /\ pc[u] \in Holding /\ token[u] \in Puts
  <2>1. token'[u] = token[u] /\ (pc[u] \in Holding \/ Admit(u))
    BY <1>1, EntersThroughGuard DEF Holding
  <2>2. ~Admit(u)  BY <1>1 DEF Admit, Goto, TypeOK
  <2> QED BY <1>1, <2>1, <2>2 DEF Uploading, Begun, Holding
<1>3. CASE pc[u] = "cas"
  <2>1. blobs[token[u]] # "none" /\ ~Spent(token[u])
    BY <1>3 DEF CasHasBytes, Spent, Over
  <2> QED BY <1>2, <2>1, BytesVanish
<1>4. CASE pc[u] # "cas"
  <2>1. ~ \E p \in Puts, w \in deployment.replicas : Arrive(u, p, w)
    BY <1>2 DEF Arrive, Goto, Holding
  <2>2. Acts(u)  BY <1>1, <1>4, <2>1, UploadMoves
  <2>3. pc[u] = "promote"  BY <1>1, <1>4, <2>2, ActsAdvance
  <2>4. Promote(u)
    BY <1>1, <2>2, <2>3
    DEF TypeOK, Goto, End, Acts, Upload, Precheck, RefuseConcurrent, Admit, BodyDone, BodyFails,
        Stat, Refresh, SelectStaging, Compare, Cas, CasWins, UnlinkStaging, DeleteStaging,
        CasAnswerLost, Fault, UnlinkFails, Die, Unlinking
  <2> QED BY <1>2, <2>4, PromoteMoves
<1> QED BY <1>3, <1>4

(* Every step leaves the live row with its bytes, whole. *)
LEMMA LiveStep ==
    StoreInv /\ BytesInv /\ BytesAreWhole' /\ [Next]_vars => LiveIsReadable'
<1> SUFFICES ASSUME StoreInv, BytesInv, BytesAreWhole', [Next]_vars, live' # NoRow
             PROVE  blobs'[live'.put] = "whole"
  BY DEF LiveIsReadable
<1>1. TypeOK /\ TypeOK' /\ OldIsSpent /\ LiveIsReadable
  BY TypeStep DEF StoreInv, BytesInv
<1>2. live'.put \in Puts  BY <1>1 DEF TypeOK, Row
<1>3. SUFFICES blobs'[live'.put] # "none"
  BY <1>1, <1>2, <1>3 DEF BytesAreWhole, TypeOK, Blob
<1>4. CASE UNCHANGED rowVars
  <2>1. live' = live /\ blobs[live.put] # "none"
    BY <1>1, <1>4 DEF rowVars, LiveIsReadable
  <2> QED BY <1>1, <1>2, <2>1, BytesVanish
<1>5. ASSUME NEW u \in Uploads, CasWins(u), Write(u), Cas(u) \/ CasAnswerLost(u)
      PROVE  blobs'[live'.put] # "none"
  <2>1. live'.put = token[u]  BY <1>5, WrittenFollows DEF Write
  <2>2. pc[u] = "cas" /\ blobs' = blobs  BY <1>5, CasIsOver DEF byteVars
  <2> QED BY <2>1, <2>2 DEF BytesInv, CasHasBytes
<1> QED BY <1>4, <1>5, RowChanges

(* Every step keeps the invariant of the bytes. *)
LEMMA BytesStep == StoreInv /\ BytesInv /\ [Next]_vars => BytesInv'
BY OneWriterStep, WholeStep, PromotedStep, SpentStep, CasHasBytesStep, LiveStep DEF BytesInv

(* The invariant of the bytes holds in every state. *)
LEMMA BytesInvHolds == Spec => []BytesInv
<1>1. Init => BytesInv
  BY ObjStoreAssumption
  DEF Init, BytesInv, OneWriter, BytesAreWhole, PromotedByOne, OldIsSpent, CasHasBytes,
      LiveIsReadable, Holding, Committing
<1> QED BY <1>1, BytesStep, StoreInvHolds, PTL DEF Spec

(* Whatever uploads race, die or are replayed on either backend, however   *)
(* slow their bodies, and whatever the reapers remove meanwhile: the row a *)
(* client is given names bytes that are there, all of them.                *)
THEOREM LiveRowHasItsBytes == Spec => []LiveIsReadable
<1>1. BytesInv => LiveIsReadable  BY DEF BytesInv
<1> QED BY <1>1, BytesInvHolds, PTL

-----------------------------------------------------------------------------
(* Answers.                                                                *)

(* begun_at is refreshed by an upload, grows old by ExpireRow, and a sweep *)
(* takes what is old when it starts.                                       *)
LEMMA RowAgeChanges ==
    ASSUME TypeOK, [Next]_vars
    PROVE  \/ \E u \in Uploads : Refresh(u)
           \/ /\ UNCHANGED renewedBy
              /\ oldRows' \subseteq oldRows \/ \E p \in Puts : ExpireRow(p)
              /\ \A r \in Reapers : cutRows'[r] \subseteq cutRows[r] \union oldRows
<1> USE DEF ageVars, sweepVars, stagingVars
<1>1. ASSUME NEW p \in Puts, Begin(p) \/ ExpireBlob(p)
      PROVE  UNCHANGED <<renewedBy, oldRows, cutRows>>
  BY <1>1 DEF Begin, ExpireBlob
<1>2. ASSUME NEW p \in Puts, ExpireRow(p) PROVE UNCHANGED <<renewedBy, cutRows>>
  BY <1>2 DEF ExpireRow
<1>3. ASSUME NEW u \in Uploads, NEW p \in Puts, NEW w, Arrive(u, p, w)
      PROVE  UNCHANGED <<renewedBy, oldRows, cutRows>>
  BY <1>3 DEF Arrive
<1>4. ASSUME NEW u \in Uploads, Acts(u), ~Refresh(u)
      PROVE  UNCHANGED <<renewedBy, oldRows, cutRows>>
  BY <1>4
  DEF Acts, Upload, Precheck, RefuseConcurrent, Admit, BodyDone, BodyFails, Stat, Promote,
      SelectStaging, Compare, Cas, UnlinkStaging, DeleteStaging, CasAnswerLost, Fault,
      UnlinkFails, Die
<1>5. ASSUME NEW d \in Deletes, DeleteRead(d) \/ DeleteDrop(d)
      PROVE  UNCHANGED <<renewedBy, oldRows, cutRows>>
  BY <1>5 DEF DeleteRead, DeleteDrop
<1>6. ASSUME NEW r \in Reapers, Sweep(r) \/ SweepAborts(r), ~StartSweep(r)
      PROVE  /\ UNCHANGED <<renewedBy, oldRows>>
             /\ \A s \in Reapers : cutRows'[s] \subseteq cutRows[s]
  BY <1>6
  DEF TypeOK, Sweep, ListTags, ListLiveTags, ListTopLevel, ListBlobs, SnapshotRefs, GcCheck,
      GcUnlink, ListRows, DeleteIfStale, ListStaging, OrphanCheck, ReapStaging, Closes,
      ListDone, AfterGc, SweepEnds, Forget, SweepAborts
<1>7. ASSUME NEW r \in Reapers, StartSweep(r)
      PROVE  /\ UNCHANGED <<renewedBy, oldRows>>
             /\ \A s \in Reapers : cutRows'[s] \subseteq cutRows[s] \union oldRows
  BY <1>7 DEF StartSweep, TypeOK
<1>8. CASE UNCHANGED vars  BY <1>8 DEF vars
<1> QED BY <1>1, <1>2, <1>3, <1>4, <1>5, <1>6, <1>7, <1>8 DEF Next, Acts

(* Which step it was, from the stages it led between.                      *)
LEMMA WhichAct ==
    ASSUME TypeOK, NEW u \in Uploads, Acts(u)
    PROVE  /\ pc[u] = "stat" /\ pc'[u] = "refresh" => Stat(u)
           /\ pc[u] = "refresh" /\ pc'[u] = "select" => Refresh(u)
           /\ pc[u] = "select" /\ answer'[u] = "gone" => SelectStaging(u)
           /\ pc[u] = "promote" /\ answer'[u] = "io-error" => Promote(u)
           /\ pc[u] = "cas" /\ pc'[u] = "unstage" => Cas(u) /\ CasWins(u)
<1> USE DEF TypeOK, Goto, End
<1>1. CASE \/ Precheck(u) \/ RefuseConcurrent(u) \/ Admit(u) \/ BodyDone(u) \/ BodyFails(u)
           \/ Stat(u) \/ Refresh(u)
  BY <1>1 DEF Precheck, RefuseConcurrent, Admit, BodyDone, BodyFails, Stat, Refresh
<1>2. CASE SelectStaging(u) \/ Compare(u) \/ Promote(u)
  BY <1>2 DEF SelectStaging, Compare, Promote
<1>3. CASE Cas(u) \/ CasAnswerLost(u) \/ Fault(u) \/ Die(u)
  BY <1>3 DEF Cas, CasWins, CasAnswerLost, Fault, Die
<1>4. CASE UnlinkStaging(u) \/ UnlinkFails(u) \/ DeleteStaging(u)
  BY <1>4 DEF UnlinkStaging, UnlinkFails, DeleteStaging, Unlinking
<1> QED BY <1>1, <1>2, <1>3, <1>4 DEF Acts, Upload

(* An upload that has written is never told that it has not.               *)
LEMMA WritersStay ==
    ASSUME StoreInv, [Next]_vars, NEW u \in Uploads, WroteIt(u)
    PROVE  WroteIt(u)' /\ token'[u] = token[u]
<1>1. TypeOK /\ pc[u] \in Over  BY DEF StoreInv, WroteIt, Over
<1>2. ~ \E p \in Puts, w \in deployment.replicas : Arrive(u, p, w)
  BY <1>1 DEF Arrive, Goto, Over
<1>3. CASE Acts(u) /\ token'[u] = token[u]
  BY <1>1, <1>3, ActsAdvance DEF Over, WroteIt
<1> QED BY <1>1, <1>2, <1>3, UploadMoves DEF WroteIt

(* Written rows are never forgotten.                                       *)
LEMMA PastGrows == [Next]_vars => past \subseteq past'
BY RowChanges DEF rowVars, Write

(* Every step leaves each row written by an upload that won its compare-    *)
(* and-set.                                                                 *)
LEMMA WritersStep == StoreInv /\ RowsHaveWriters /\ [Next]_vars => RowsHaveWriters'
<1> SUFFICES ASSUME StoreInv, RowsHaveWriters, [Next]_vars, NEW r \in past'
             PROVE  \E u \in Uploads : token'[u] = r.put /\ WroteIt(u)'
  BY DEF RowsHaveWriters
<1>1. CASE r \in past
  <2>1. PICK u \in Uploads : token[u] = r.put /\ WroteIt(u)  BY <1>1 DEF RowsHaveWriters
  <2> QED BY <2>1, WritersStay
<1>2. ASSUME NEW u \in Uploads, CasWins(u), Write(u), Cas(u) \/ CasAnswerLost(u), r = Written(u)
      PROVE  \E v \in Uploads : token'[v] = r.put /\ WroteIt(v)'
  <2>1. r.put = token[u]  BY <1>2, WrittenFollows
  <2>2. token' = token /\ WroteIt(u)'  BY <1>2, CasIsOver DEF WroteIt, Over
  <2> QED BY <2>1, <2>2
<1> QED BY <1>1, <1>2, RowChanges DEF rowVars, Write

(* Every step leaves each success answered for a put that is in. *)
LEMMA SuccessStep == StoreInv /\ SuccessIsReal /\ [Next]_vars => SuccessIsReal'
<1> SUFFICES ASSUME StoreInv, SuccessIsReal, [Next]_vars, NEW u \in Uploads,
                    pc'[u] \in {"unstage", "unrow"} \/ answer'[u] = "ok"
             PROVE  \E r \in past' : r.put = token'[u]
  BY DEF SuccessIsReal
<1>1. TypeOK /\ Uploading /\ past \subseteq past'  BY PastGrows DEF StoreInv
<1>2. CASE token'[u] = token[u] /\ (pc[u] \in {"unstage", "unrow"} \/ answer[u] = "ok")
  BY <1>1, <1>2 DEF SuccessIsReal
<1>3. ASSUME NEW p \in Puts, NEW w, Arrive(u, p, w) PROVE FALSE
  BY <1>1, <1>3 DEF Arrive, Goto, TypeOK, Uploading
<1>4. CASE Acts(u) /\ token'[u] = token[u] /\ pc[u] = "cas" /\ pc'[u] = "unstage"
  <2>1. Cas(u) /\ CasWins(u)  BY <1>1, <1>4, WhichAct
  <2>2. Written(u) \in past' /\ Written(u).put = token[u]
    BY <2>1, WrittenFollows DEF Cas, Write
  <2> QED BY <1>4, <2>2
<1> QED BY <1>1, <1>2, <1>3, <1>4, UploadMoves, ActsAdvance

(* A staging row is never added after the begin.                           *)
LEMMA NoRowReturns ==
    ASSUME StoreInv, [Next]_vars, NEW p \in Begun, p \in rows'
    PROVE  p \in rows
BY StagingRowChanges DEF Begin, Begun, DeleteStaging, DeleteIfStale

(* Every step leaves each staging row to a put that was begun. *)
LEMMA BegunStep == StoreInv /\ StagingIsBegun /\ [Next]_vars => StagingIsBegun'
<1> SUFFICES ASSUME StoreInv, StagingIsBegun, [Next]_vars PROVE StagingIsBegun'  OBVIOUS
<1>1. TypeOK /\ TypeOK' /\ Uploading /\ Begun \subseteq Begun'
  BY TypeStep, BegunStays DEF StoreInv
<1>2. rows' \subseteq Begun'
  <2>1. ASSUME NEW q \in Puts, Begin(q) PROVE rows' \subseteq Begun'
    <3>1. want'[q] # None  BY <1>1, <2>1, KeyIsKey DEF Begin, TypeOK
    <3> QED BY <1>1, <2>1, <3>1 DEF StagingIsBegun, Begun, Begin
  <2> QED BY <1>1, <2>1, StagingRowChanges DEF StagingIsBegun, DeleteStaging, DeleteIfStale
<1>3. ASSUME NEW p \in Puts, staged'[p] # "none" PROVE p \in Begun'
  <2>1. CASE staged[p] # "none"  BY <1>1, <2>1 DEF StagingIsBegun
  <2>2. ASSUME NEW u \in Uploads, Admit(u) \/ BodyDone(u) \/ UnlinkStaging(u)
        PROVE  staged[p] # "none" \/ token[u] = p
    BY <1>1, <1>3, <2>2
    DEF Admit, BodyDone, UnlinkStaging, OpenStagingWriter, FinalizeWriter, Put, TypeOK
  <2>3. ASSUME NEW u \in Uploads, Promote(u) PROVE staged[p] # "none"
    BY <1>3, <2>3, PromoteMoves
  <2>4. ASSUME NEW r \in Reapers, ReapStaging(r) PROVE staged[p] # "none"
    BY <1>1, <1>3, <2>4 DEF ReapStaging, Put, TypeOK
  <2>5. ASSUME NEW u \in Uploads, token[u] = p PROVE p \in Begun'
    BY <1>1, <2>5, ObjStoreAssumption DEF Uploading
  <2> QED BY <1>3, <2>1, <2>2, <2>3, <2>4, <2>5, StagedChanges
<1>4. ASSUME NEW r \in Reapers,
             rpc'[r] \in {"stale", "orphans", "unlinkstale", "unlinkorphan"}
      PROVE  todo'[r] \subseteq Begun
  <2> USE DEF RGoto, Consider, TypeOK
  <2>1. CASE rpc'[r] = rpc[r] /\ todo'[r] = todo[r]  BY <1>4, <2>1 DEF StagingIsBegun
  <2>2. CASE \/ StartSweep(r) \/ ListTags(r) \/ ListBlobs(r) \/ SnapshotRefs(r)
             \/ GcUnlink(r) \/ SweepAborts(r)
    BY <1>1, <1>4, <2>2
    DEF StartSweep, ListTags, ListLiveTags, ListTopLevel, ListBlobs, SnapshotRefs, GcUnlink,
        SweepAborts
  <2>3. CASE ListRows(r)  BY <1>1, <2>3 DEF ListRows, StagingIsBegun
  <2>4. CASE ListStaging(r)
    BY <1>1, <2>4 DEF ListStaging, ListStagingIds, StagingIsBegun
  <2>5. CASE ReapStaging(r)  BY <1>1, <2>5 DEF ReapStaging, StagingIsBegun
  <2>6. ASSUME NEW p \in Puts, GcCheck(r, p) PROVE FALSE
    BY <1>1, <1>4, <2>6 DEF GcCheck
  <2>7. ASSUME NEW p \in Puts, DeleteIfStale(r, p) \/ OrphanCheck(r, p)
        PROVE  todo'[r] \subseteq Begun
    <3>1. rpc[r] \in {"stale", "orphans"} /\ todo'[r] = todo[r] \ {p}
      BY <1>1, <2>7 DEF DeleteIfStale, OrphanCheck
    <3> QED BY <3>1 DEF StagingIsBegun
  <2>8. CASE Closes(r)
    BY <1>1, <1>4, <2>8 DEF Closes, ListDone, AfterGc, SweepEnds, Forget
  <2> QED BY <1>1, <2>1, <2>2, <2>3, <2>4, <2>5, <2>6, <2>7, <2>8, SweepMoves
      DEF Sweep, Closes, ListTags
<1>5. ASSUME NEW r \in Reapers, rpc'[r] \in {"unlinkstale", "unlinkorphan"}
      PROVE  pick'[r] \in Begun \ rows'
  <2> USE DEF RGoto, Consider, TypeOK
  <2>1. CASE rpc'[r] = rpc[r] /\ pick'[r] = pick[r]
    <3>1. pick[r] \in Begun \ rows  BY <1>5, <2>1 DEF StagingIsBegun
    <3> QED BY <2>1, <3>1, NoRowReturns
  <2>2. CASE \/ StartSweep(r) \/ ListTags(r) \/ ListBlobs(r) \/ SnapshotRefs(r)
             \/ GcUnlink(r) \/ SweepAborts(r) \/ ListRows(r) \/ ListStaging(r) \/ ReapStaging(r)
    BY <1>1, <1>5, <2>2
    DEF StartSweep, ListTags, ListLiveTags, ListTopLevel, AfterGc, ListBlobs, SnapshotRefs,
        GcUnlink, SweepAborts, ListRows, ListStaging, ReapStaging
  <2>3. ASSUME NEW p \in Puts, GcCheck(r, p) PROVE FALSE
    BY <1>1, <1>5, <2>3 DEF GcCheck
  <2>4. ASSUME NEW p \in Puts, DeleteIfStale(r, p) PROVE pick'[r] \in Begun \ rows'
    <3>1. rpc[r] = "stale" /\ p \in todo[r]  BY <1>1, <2>4 DEF DeleteIfStale
    <3>2. p \in rows \intersect cutRows[r] /\ pick'[r] = p /\ rows' = rows \ {p}
      BY <1>1, <1>5, <2>4, <3>1 DEF DeleteIfStale
    <3> QED BY <3>1, <3>2 DEF StagingIsBegun
  <2>5. ASSUME NEW p \in Puts, OrphanCheck(r, p) PROVE pick'[r] \in Begun \ rows'
    <3>1. rpc[r] = "orphans" /\ p \in todo[r]  BY <1>1, <2>5 DEF OrphanCheck
    <3>2. p \notin rows /\ pick'[r] = p /\ rows' = rows
      BY <1>1, <1>5, <2>5, <3>1 DEF OrphanCheck, stagingVars
    <3> QED BY <3>1, <3>2 DEF StagingIsBegun
  <2>6. CASE Closes(r)
    BY <1>1, <1>5, <2>6 DEF Closes, ListDone, AfterGc, SweepEnds, Forget
  <2> QED BY <1>1, <2>1, <2>2, <2>3, <2>4, <2>5, <2>6, SweepMoves
      DEF Sweep, Closes, ListTags
<1> QED BY <1>1, <1>2, <1>3, <1>4, <1>5 DEF StagingIsBegun

(* Time does not pass over what an upload under way has refreshed.         *)
LEMMA FreshStep == StoreInv /\ RefreshedIsFresh /\ [Next]_vars => RefreshedIsFresh'
<1> SUFFICES ASSUME StoreInv, RefreshedIsFresh, [Next]_vars,
                    NEW p \in Puts, renewedBy'[p] # None
             PROVE  /\ token'[renewedBy'[p]] = p
                    /\ pc'[renewedBy'[p]] \in {"select", "compare", "promote", "cas"} \union Over
                    /\ pc'[renewedBy'[p]] \notin {"idle", "done"} =>
                           p \notin oldRows' /\ \A r \in Reapers : p \notin cutRows'[r]
  BY DEF RefreshedIsFresh, Underway
<1>1. TypeOK /\ Uploading  BY DEF StoreInv
<1>2. ASSUME NEW u \in Uploads, Refresh(u), token[u] \in rows, p = token[u]
      PROVE  /\ renewedBy'[p] = u /\ token'[u] = p /\ pc'[u] = "select"
             /\ p \notin oldRows' /\ \A r \in Reapers : p \notin cutRows'[r]
  BY <1>1, <1>2 DEF Refresh, RenewRow, Goto, TypeOK
<1>3. CASE renewedBy'[p] = renewedBy[p]
           /\ (oldRows' \subseteq oldRows \/ \E q \in Puts : ExpireRow(q))
           /\ (\A r \in Reapers : cutRows'[r] \subseteq cutRows[r] \union oldRows)
  <2> DEFINE v == renewedBy[p]
  <2>1. /\ v \in Uploads /\ v # None /\ renewedBy[p] = v /\ token[v] = p /\ p # None
        /\ pc[v] \in {"select", "compare", "promote", "cas"} \union Over
        /\ Underway(v) => p \notin oldRows /\ \A r \in Reapers : p \notin cutRows[r]
    BY <1>1, <1>3, ObjStoreAssumption DEF RefreshedIsFresh, TypeOK
  <2> HIDE DEF v
  <2>2. ~ \E q \in Puts, w \in deployment.replicas : Arrive(v, q, w)
    BY <2>1 DEF Arrive, Goto, Over
  <2>3. /\ token'[v] = p /\ pc'[v] \in {"select", "compare", "promote", "cas"} \union Over
        /\ pc'[v] # "done" => pc[v] # "done"
    BY <1>1, <2>1, <2>2, UploadMoves, ActsAdvance DEF Over
  <2>4. ASSUME pc'[v] # "done"
        PROVE  p \notin oldRows' /\ \A r \in Reapers : p \notin cutRows'[r]
    <3>1. Underway(v)  BY <2>1, <2>3, <2>4 DEF Underway, Over
    <3>2. ASSUME NEW q \in Puts, ExpireRow(q) PROVE p \notin oldRows'
      <4>1. q # p  BY <2>1, <3>1, <3>2 DEF ExpireRow
      <4> QED BY <2>1, <3>1, <3>2, <4>1 DEF ExpireRow
    <3> QED BY <1>3, <2>1, <3>1, <3>2
  <2>5. renewedBy'[p] = v  BY <1>3 DEF v
  <2> QED BY <2>3, <2>4, <2>5
<1>4. ASSUME NEW u \in Uploads, Refresh(u), ~(token[u] \in rows /\ p = token[u])
      PROVE  /\ renewedBy'[p] = renewedBy[p] /\ oldRows' \subseteq oldRows
             /\ \A r \in Reapers : cutRows'[r] \subseteq cutRows[r]
  BY <1>1, <1>4 DEF Refresh, RenewRow, TypeOK
<1> QED BY <1>1, <1>2, <1>3, <1>4, RowAgeChanges

(* While nobody else holds its token, what an upload has refreshed is      *)
(* taken by nobody: no cleanup but its own removes the row or the bytes.   *)
LEMMA AloneStays ==
    ASSUME StoreInv, [Next]_vars, NEW u \in Uploads, token[u] # None, token'[u] = token[u],
           Alone(u)'
    PROVE  Alone(u)
<1>1. TypeOK /\ Uploading  BY DEF StoreInv
<1>2. ASSUME NEW v \in Uploads, v # u, token[v] = token[u] PROVE FALSE
  <2>1. ~ \E p \in Puts, w \in deployment.replicas : Arrive(v, p, w)
    BY <1>1, <1>2 DEF Arrive, Goto, Uploading
  <2>2. token'[v] = token[v]  BY <1>1, <2>1, UploadMoves
  <2> QED BY <1>2, <2>2 DEF Alone
<1> QED BY <1>2 DEF Alone

(* While the only uploader of a token commits, its staging object stays. *)
LEMMA StagedStays ==
    ASSUME StoreInv, StagingIsBegun, [Next]_vars, NEW u \in Uploads, Alone(u),
           pc[u] \in Committing, pc'[u] \in Committing, token[u] \in rows,
           staged[token[u]] # "none"
    PROVE  staged'[token[u]] # "none"
<1>1. TypeOK /\ Uploading /\ token[u] \in Puts
  BY DEF StoreInv, TypeOK, Uploading, Begun, Committing
<1>2. ASSUME NEW v \in Uploads, Admit(v) \/ BodyDone(v) \/ UnlinkStaging(v)
      PROVE  staged'[token[u]] # "none"
  <2>1. v # u  BY <1>1, <1>2 DEF Admit, BodyDone, UnlinkStaging, Unlinking, Goto, Committing
  <2>2. token[v] # token[u]  BY <2>1 DEF Alone
  <2> QED BY <1>1, <1>2, <2>2
          DEF Admit, BodyDone, UnlinkStaging, OpenStagingWriter, FinalizeWriter, Put, TypeOK
<1>3. ASSUME NEW v \in Uploads, Promote(v) PROVE staged'[token[u]] # "none"
  <2>1. v # u  BY <1>3, PromoteMoves DEF Committing
  <2> QED BY <1>1, <1>3, <2>1, PromoteMoves DEF Alone
<1>4. ASSUME NEW r \in Reapers, ReapStaging(r) PROVE staged'[token[u]] # "none"
  <2>1. pick[r] # token[u]  BY <1>4 DEF ReapStaging, RGoto, StagingIsBegun
  <2> QED BY <1>1, <1>4, <2>1 DEF ReapStaging, Put, TypeOK
<1> QED BY <1>2, <1>3, <1>4, StagedChanges

(* While the only uploader of a token commits, the row it refreshed stays. *)
LEMMA RowStays ==
    ASSUME StoreInv, RefreshedIsFresh, [Next]_vars, NEW u \in Uploads, Alone(u),
           pc[u] \in Committing, pc'[u] \in Committing, token[u] \in rows,
           renewedBy[token[u]] = u
    PROVE  token[u] \in rows'
<1>1. TypeOK /\ token[u] \in Puts /\ u # None
  BY ObjStoreAssumption DEF StoreInv, TypeOK
<1>2. \A r \in Reapers : token[u] \notin cutRows[r]
  BY <1>1 DEF RefreshedIsFresh, Underway, Committing
<1>3. ASSUME NEW v \in Uploads, DeleteStaging(v) PROVE token[u] \in rows'
  <2>1. v # u  BY <1>1, <1>3 DEF DeleteStaging, End, Goto, Committing
  <2> QED BY <1>3, <2>1 DEF DeleteStaging, Alone
<1>4. ASSUME NEW r \in Reapers, NEW p \in Puts, DeleteIfStale(r, p) PROVE token[u] \in rows'
  BY <1>2, <1>4 DEF DeleteIfStale
<1>5. ASSUME NEW p \in Puts, Begin(p) PROVE token[u] \in rows'  BY <1>5 DEF Begin
<1> QED BY <1>3, <1>4, <1>5, StagingRowChanges

(* Every step leaves a refreshed row and its object to the upload that      *)
(* refreshed it.                                                            *)
LEMMA StaysStep == StoreInv /\ AnswerInv /\ [Next]_vars => RefreshedStays'
<1> SUFFICES ASSUME StoreInv, AnswerInv, [Next]_vars, NEW u \in Uploads, Alone(u)',
                    pc'[u] \in Committing
             PROVE  /\ token'[u] \in rows' => staged'[token'[u]] # "none"
                    /\ renewedBy'[token'[u]] = u => token'[u] \in rows'
  BY DEF RefreshedStays
<1>1. /\ TypeOK /\ Uploading /\ StagingIsBegun /\ RefreshedIsFresh /\ RefreshedIsFresh'
      /\ RefreshedStays /\ u # None
  BY FreshStep, ObjStoreAssumption DEF StoreInv, AnswerInv, TypeOK
<1>2. ~ \E p \in Puts, w \in deployment.replicas : Arrive(u, p, w)
  BY <1>1 DEF Arrive, Goto, Committing, TypeOK
<1>3. /\ token'[u] = token[u] /\ pc[u] \in Committing \union {"stat"}
      /\ pc[u] = "stat" => Stat(u) /\ pc'[u] = "refresh"
      /\ pc[u] = "refresh" => pc'[u] = "refresh" \/ Refresh(u)
  BY <1>1, <1>2, UploadMoves, ActsAdvance, WhichAct DEF Committing
<1>4. token[u] \in Begun /\ token[u] \in Puts /\ token[u] # None
  BY <1>1, <1>3, ObjStoreAssumption DEF Uploading, Begun, Committing
<1>5. Alone(u)  BY <1>3, <1>4, AloneStays
<1>6. ASSUME token[u] \in rows' PROVE staged'[token[u]] # "none"
  <2>1. token[u] \in rows  BY <1>4, <1>6, NoRowReturns
  <2>2. CASE pc[u] = "stat"
    <3>1. Stat(u) /\ pc'[u] # "abort"  BY <1>3, <2>2
    <3> QED BY <1>1, <3>1 DEF Stat, StatStaging, End, Goto, byteVars, TypeOK
  <2>3. CASE pc[u] \in Committing
    <3>1. staged[token[u]] # "none"  BY <1>1, <1>5, <2>1, <2>3 DEF RefreshedStays
    <3> QED BY <1>1, <1>5, <2>1, <2>3, <3>1, StagedStays
  <2> QED BY <1>3, <2>2, <2>3
<1>7. ASSUME renewedBy'[token[u]] = u PROVE token[u] \in rows'
  <2>1. pc'[u] \in {"select", "compare", "promote"}
    BY <1>1, <1>4, <1>7 DEF RefreshedIsFresh, Committing, Over
  <2>2. CASE pc[u] = "refresh"
    <3>1. Refresh(u)  BY <1>3, <2>1, <2>2
    <3>2. renewedBy[token[u]] # u
      BY <1>1, <1>4, <2>2 DEF RefreshedIsFresh, Over
    <3>3. token[u] \in rows  BY <1>7, <3>1, <3>2 DEF Refresh
    <3> QED BY <3>1, <3>3 DEF Refresh
  <2>3. CASE pc[u] # "refresh"
    <3>1. pc[u] \in Committing  BY <1>3, <2>1, <2>3
    <3>2. ASSUME NEW v \in Uploads, Refresh(v), token[v] \in rows, token[u] = token[v]
          PROVE  FALSE
      <4>1. v # u  BY <2>3, <3>2 DEF Refresh, Goto
      <4> QED BY <1>5, <3>2, <4>1 DEF Alone
    <3>3. renewedBy[token[u]] = u
      <4>1. ASSUME NEW v \in Uploads, Refresh(v) PROVE renewedBy'[token[u]] = renewedBy[token[u]]
        BY <1>1, <1>4, <3>2, <4>1 DEF Refresh, TypeOK
      <4> QED BY <1>1, <1>7, <4>1, RowAgeChanges
    <3>4. token[u] \in rows  BY <1>1, <1>5, <3>1, <3>3 DEF RefreshedStays
    <3> QED BY <1>1, <1>5, <3>1, <3>3, <3>4, RowStays
  <2> QED BY <2>2, <2>3
<1> QED BY <1>3, <1>6, <1>7

(* So an upload nobody interferes with is told of a loss only by a store   *)
(* that failed it.                                                         *)
LEMMA SurvivesStep == StoreInv /\ AnswerInv /\ [Next]_vars => RefreshedPutSurvives'
<1> SUFFICES ASSUME StoreInv, AnswerInv, [Next]_vars, NEW u \in Uploads, token'[u] # None,
                    renewedBy'[token'[u]] = u, Alone(u)'
             PROVE  answer'[u] \notin {"gone", "io-error"}
  BY DEF RefreshedPutSurvives
<1>1. /\ TypeOK /\ TypeOK' /\ Uploading /\ RefreshedIsFresh /\ RefreshedIsFresh'
      /\ RefreshedStays /\ RefreshedPutSurvives /\ u # None
  BY TypeStep, FreshStep, ObjStoreAssumption DEF StoreInv, AnswerInv, TypeOK
<1>2. pc'[u] \in {"select", "compare", "promote", "cas"} \union Over
  BY <1>1 DEF RefreshedIsFresh, TypeOK
<1>3. ~ \E p \in Puts, w \in deployment.replicas : Arrive(u, p, w)
  BY <1>1, <1>2 DEF Arrive, Goto, Over, TypeOK
<1>4. token'[u] = token[u] /\ token[u] \in Puts  BY <1>1, <1>3, UploadMoves DEF TypeOK
<1>5. Alone(u)  BY <1>4, AloneStays
<1>6. CASE answer'[u] = answer[u] /\ renewedBy[token[u]] = u
  BY <1>1, <1>4, <1>5, <1>6 DEF RefreshedPutSurvives
<1>7. ASSUME renewedBy[token[u]] # u PROVE answer'[u] = "none"
  <2>1. PICK v \in Uploads : Refresh(v) /\ token[v] = token[u]
    <3>1. ASSUME NEW v \in Uploads, Refresh(v), token[v] # token[u]
          PROVE  renewedBy'[token[u]] = renewedBy[token[u]]
      BY <1>1, <1>4, <3>1 DEF Refresh, TypeOK
    <3> QED BY <1>1, <1>4, <1>7, <3>1, RowAgeChanges
  <2>2. v = u  BY <1>5, <2>1 DEF Alone
  <2> QED BY <1>1, <2>1, <2>2 DEF Refresh, Goto, Uploading
<1>8. CASE answer'[u] # answer[u] /\ renewedBy[token[u]] = u
  <2>1. Acts(u)  BY <1>1, <1>3, <1>8, UploadMoves
  <2>2. pc[u] \in {"select", "compare", "promote", "cas"} \union Over
    BY <1>1, <1>4, <1>8 DEF RefreshedIsFresh
  <2>3. ASSUME pc[u] = "select", answer'[u] = "gone" PROVE FALSE
    <3>1. token[u] \in rows  BY <1>1, <1>5, <1>8, <2>3 DEF RefreshedStays, Committing
    <3>2. SelectStaging(u)  BY <1>1, <2>1, <2>3, WhichAct
    <3> QED BY <1>8, <2>3, <3>1, <3>2 DEF SelectStaging
  <2>4. ASSUME pc[u] = "promote", answer'[u] = "io-error" PROVE FALSE
    <3>1. token[u] \in rows  BY <1>1, <1>5, <1>8, <2>4 DEF RefreshedStays, Committing
    <3>2. staged[token[u]] # "none"
      BY <1>1, <1>5, <2>4, <3>1 DEF RefreshedStays, Committing
    <3>3. Promote(u)  BY <1>1, <2>1, <2>4, WhichAct
    <3> QED BY <1>8, <2>4, <3>2, <3>3 DEF Promote
  <2> QED BY <1>1, <1>8, <2>1, <2>2, <2>3, <2>4, ActsAdvance DEF Over
<1> QED BY <1>6, <1>7, <1>8

(* The invariant of the answers holds in every state. *)
LEMMA AnswerInvHolds == Spec => []AnswerInv
<1>1. Init => AnswerInv
  BY ObjStoreAssumption
  DEF Init, AnswerInv, RowsHaveWriters, SuccessIsReal, StagingIsBegun, RefreshedIsFresh,
      RefreshedStays, RefreshedPutSurvives, Begun, Committing
<1>2. StoreInv /\ AnswerInv /\ [Next]_vars => AnswerInv'
  BY WritersStep, SuccessStep, BegunStep, FreshStep, StaysStep, SurvivesStep DEF AnswerInv
<1> QED BY <1>1, <1>2, StoreInvHolds, PTL DEF Spec

(* Success means the row was written, a refusal that nobody's write hides  *)
(* behind it, and "gone" is never said of an upload that had refreshed its *)
(* staging row: commitPut, abortPut and the reaper, in whatever order.     *)
THEOREM AnswersTellTheTruth == Spec => []AnswersAreTrue
<1>1. StoreInv /\ AnswerInv => AnswersAreTrue
  <2> SUFFICES ASSUME StoreInv, AnswerInv, NEW u \in Uploads
               PROVE  /\ answer[u] = "ok" => \E r \in past : r.put = token[u]
                      /\ answer[u] \in {"conflict", "gone", "io-error", "aborted"} /\ Alone(u) =>
                             \A r \in past : r.put # token[u]
    BY DEF AnswersAreTrue, AnswerInv
  <2>1. answer[u] = "ok" => \E r \in past : r.put = token[u]  BY DEF AnswerInv, SuccessIsReal
  <2>2. ASSUME answer[u] \in {"conflict", "gone", "io-error", "aborted"}, Alone(u),
               NEW r \in past, r.put = token[u]
        PROVE  FALSE
    <3>1. PICK v \in Uploads : token[v] = r.put /\ WroteIt(v)
      BY DEF AnswerInv, RowsHaveWriters
    <3>2. v = u  BY <2>2, <3>1 DEF Alone
    <3> QED BY <2>2, <3>1, <3>2 DEF WroteIt, StoreInv, Uploading
  <2> QED BY <2>1, <2>2
<1> QED BY <1>1, StoreInvHolds, AnswerInvHolds, PTL

=============================================================================
