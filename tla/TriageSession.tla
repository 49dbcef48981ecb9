--------------------------- MODULE TriageSession ---------------------------
(***************************************************************************)
(* The client's half of triage sync: the per-workspace Session of          *)
(* client/sync/triage-sync.ts, one per client, over a relay that keeps one *)
(* revision chain for the workspace.                                       *)
(*                                                                         *)
(* A session is a record, and the functions that run without an await are  *)
(* operators from a session to the session they leave; every await of the  *)
(* code (signing, encryption, verification, the conflict dialog, the write *)
(* of local storage) is a step boundary.  The relay answers each frame in  *)
(* one step, which RevisionCommit and SubscribeHub show it may be taken to *)
(* do.  Signatures, content ids and decryption are assumed to verify, and  *)
(* every finding is in the scope of the session.                           *)
(***************************************************************************)
EXTENDS Naturals, FiniteSets, SequencesExt

CONSTANTS
    Clients,
    Findings,          \* finding ids of the workspace
    Fields,            \* color, comment, fix, ...: the fields rebased one by one
    None,              \* an absent value, revision or job
    KeyframeInterval,  \* keyframeInterval
    MaxFailures,       \* maxConsecutiveFailures
    Resolver,          \* whether a hydrationConflictResolver is installed
    Scenarios          \* what a behaviour is given: the edits its users make, each
                       \* once, as [by, id, field, value]; the kinds of fault one
                       \* of which may happen, once (encryption may go on
                       \* failing); and whether saves go over the REST plane

AllFaults == {"disconnect", "orphan", "reload", "late", "busy", "refuse", "crypto", "wipe", "rest"}

ASSUME SessionAssumption ==
    /\ KeyframeInterval \in Nat \ {0} /\ MaxFailures \in Nat \ {0} /\ Resolver \in BOOLEAN
    /\ \A x \in Scenarios : x.faults \subseteq AllFaults /\ x.sse \in BOOLEAN

VARIABLES
    session,      \* the Session of each client
    outbox,       \* frames of each client the relay has not read
    inbox,        \* frames sent to each client, then its messageQueue
    posts,        \* REST saves of each client that have not been answered
    chain,        \* the relay's revisions
    subscribers,  \* clients whose socket the relay broadcasts to
    late,         \* broadcasts a lossy bus still holds back: <<client, revision>>
    disk,         \* the persisted session of each client, and a write not made yet
    todo,         \* edits the users have not made
    faults,       \* kinds of fault one of which may still happen
    scenario      \* the scenario of this behaviour, fixed

vars == <<session, outbox, inbox, posts, chain, subscribers, late, disk, todo, faults, scenario>>
relay == <<chain, subscribers, late>>

-----------------------------------------------------------------------------
(* triage-changeset.ts: states, changesets, the three-way merge.           *)

Entry == [Fields -> {None} \union {e.value : e \in scenario.edits}]
NoEntry == [p \in Fields |-> None]
NoTriage == [i \in Findings |-> NoEntry]

(* A changeset replaces whole entries; deleting one leaves NoEntry.        *)
applyChangeset(base, cs) == [i \in Findings |-> IF i \in DOMAIN cs THEN cs[i] ELSE base[i]]

computeChangeset(base, target) == [i \in {j \in Findings : base[j] # target[j]} |-> target[i]]

changesetEmpty(cs) == DOMAIN cs = {}

(* A keyframe's changeset is taken against the empty state.                *)
ApplyRevision(base, kf, cs) == applyChangeset(IF kf THEN NoTriage ELSE base, cs)

(* Faulty variant: a finding edited in one field is kept whole.            *)
EntryWiseRebase(base, local, remote, preserve) ==
    [i \in Findings |-> IF i \in preserve \/ base[i] # local[i] THEN local[i] ELSE remote[i]]

(* Replay the fields changed from base, or all of a preserved finding.     *)
rebaseLocalState(base, local, remote, preserve) ==
    [i \in Findings |-> [p \in Fields |->
        IF i \in preserve \/ base[i][p] # local[i][p] THEN local[i][p] ELSE remote[i][p]]]

(* The fields both sides changed from old, each in its own way.            *)
collectChainConflicts(local, old, new, preserve) ==
    {x \in Findings \X Fields :
        LET was == old[x[1]][x[2]]  mine == local[x[1]][x[2]]  theirs == new[x[1]][x[2]] IN
        (x[1] \in preserve \/ mine # was) /\ theirs # was /\ mine # theirs}

(* The live state once the fields of picked took the chain's value, except *)
(* those that no longer hold what the dialog showed.                       *)
applyHydrationDecisions(live, shown, new, picked) ==
    [i \in Findings |-> [p \in Fields |->
        IF <<i, p>> \in picked /\ live[i][p] = shown[i][p] THEN new[i][p] ELSE live[i][p]]]

(* Fill the gaps of the live state from a restored base.                   *)
hydrateStateFromBaseState(live, base) ==
    [i \in Findings |-> [p \in Fields |-> IF live[i][p] = None THEN base[i][p] ELSE live[i][p]]]

-----------------------------------------------------------------------------
(* The session.                                                            *)

RevIds == Clients \X Nat

NewSession ==
    [live |-> NoTriage, base |-> None, baseState |-> NoTriage, hasBase |-> FALSE,
     applied |-> {}, since |-> 0, pending |-> None, pendingSave |-> FALSE,
     encrypting |-> None, receiving |-> FALSE, job |-> None, signing |-> {},
     subscribed |-> FALSE, resyncAttempted |-> FALSE, staleResetAttempted |-> FALSE,
     failures |-> 0, error |-> None, busyRetry |-> FALSE, dirty |-> FALSE,
     online |-> FALSE, suppressed |-> FALSE, minted |-> 0]

(* Faulty variant: a save in flight does not take the slot.                *)
OpenSendSlot(s) == s.encrypting # None \/ s.receiving

(* What a reload restores.                                                 *)
Persisted(s) == [base |-> s.base, baseState |-> s.baseState, since |-> s.since, hasBase |-> s.hasBase]

Bumped(since) == IF since < KeyframeInterval THEN since + 1 ELSE KeyframeInterval

SendSlotTaken(s) == s.pending # None \/ s.encrypting # None \/ s.receiving

(* trySendSave up to its await: start to encrypt what the live state adds. *)
trySendSave(s) ==
    LET isKeyframe == s.since >= KeyframeInterval
        changeset == computeChangeset(IF isKeyframe THEN NoTriage ELSE s.baseState, s.live)
    IN  CASE s.error # None -> s
          [] s.error = None /\ SendSlotTaken(s) -> [s EXCEPT !.pendingSave = TRUE]
          [] s.error = None /\ ~SendSlotTaken(s) ->
               IF ~s.online \/ (changesetEmpty(changeset) /\ ~isKeyframe) THEN s
               ELSE [s EXCEPT !.encrypting = [base |-> s.base, kf |-> isKeyframe, cs |-> changeset]]

(* The queued save that a finished await or a timer kicks.                 *)
FlushPendingSave(s) ==
    IF s.pendingSave /\ s.pending = None /\ ~s.receiving /\ s.error = None
      THEN trySendSave([s EXCEPT !.pendingSave = FALSE])
      ELSE s

(* trySendSubscribe up to its await: start to sign the current base.       *)
trySendSubscribe(s, force) ==
    IF s.online /\ (force \/ ~s.subscribed)
      THEN [s EXCEPT !.signing = @ \union {s.base}]
      ELSE s

(* The recovery both ladders end in: push the full state against no base,  *)
(* and keep baseState as the baseline of the merge.                        *)
DropAnchor(s) ==
    [s EXCEPT !.base = None, !.applied = {}, !.since = KeyframeInterval,
              !.pending = None, !.resyncAttempted = FALSE]

-----------------------------------------------------------------------------
(* The relay.                                                              *)

Spend(kind) == kind \in faults /\ faults' = {}

head == IF chain = <<>> THEN None ELSE Last(chain).id

Committed == {chain[n].id : n \in DOMAIN chain}

(* The rows after from, or from the latest keyframe on if it is unknown.   *)
chainFrom(from) ==
    IF from \in Committed
      THEN SubSeq(chain, 1 + CHOOSE n \in DOMAIN chain : chain[n].id = from, Len(chain))
      ELSE LET keyframes == {n \in DOMAIN chain : chain[n].kf} IN
           IF keyframes = {} THEN chain ELSE SubSeq(chain, Max(keyframes), Len(chain))

(* Frames the relay sends; for is the save a REST answer is tied to.       *)
State(revs, for) == [type |-> "state", revs |-> revs, for |-> for]
Ack(rev, for) == [type |-> "ack", base |-> rev.base, id |-> rev.id, for |-> for]
Error(rev, reason, for) == [type |-> "error", base |-> rev.base, reason |-> reason, for |-> for]

(* What a save is answered with: a repeated id is acknowledged again, and  *)
(* one on an outdated base gets the catch-up before the error.             *)
SaveAnswer(rev, for) ==
    IF rev.id \in Committed \/ rev.base = head
      THEN <<Ack(rev, for)>>
      ELSE <<State(chainFrom(rev.base), for), Error(rev, "stale-base", for)>>

Commits(rev) == rev.id \notin Committed /\ rev.base = head

(* Commit rev and broadcast it, except to those the bus holds it back from; *)
(* answered is inbox with the answer to the save.                          *)
CommitAndBroadcast(rev, answered, except) ==
    IF ~Commits(rev)
      THEN inbox' = answered /\ UNCHANGED <<chain, late, faults>>
      ELSE \E held \in {{}} \union {{d} : d \in subscribers \ except} :
             /\ IF held = {} THEN UNCHANGED faults ELSE Spend("late")
             /\ late' = late \union {<<d, rev>> : d \in held}
             /\ chain' = Append(chain, rev)
             /\ inbox' = [d \in Clients |->
                           IF d \in subscribers \ (except \union held)
                             THEN Append(answered[d], State(<<rev>>, None))
                             ELSE answered[d]]

(* A held-back broadcast arrives after all, behind later ones.             *)
DeliverLate(c) ==
    \E b \in late :
        /\ b[1] = c
        /\ late' = late \ {b}
        /\ inbox' = IF c \in subscribers
                      THEN [inbox EXCEPT ![c] = Append(@, State(<<b[2]>>, None))]
                      ELSE inbox
        /\ UNCHANGED <<session, outbox, posts, chain, subscribers, disk, todo, faults, scenario>>

RelayHandlesSave(c) ==
    /\ outbox[c] # <<>> /\ Head(outbox[c]).type = "save"
    /\ LET rev == Head(outbox[c]).rev
           answer(frames) == [inbox EXCEPT ![c] = @ \o frames] IN
       /\ outbox' = [outbox EXCEPT ![c] = Tail(@)]
       /\ \/ CommitAndBroadcast(rev, answer(SaveAnswer(rev, None)), {c})
          \/ /\ \/ Spend("busy") /\ inbox' = answer(<<Error(rev, "busy", None)>>)
                \/ Spend("refuse") /\ inbox' = answer(<<Error(rev, "too-large", None)>>)
             /\ UNCHANGED <<chain, late>>
    /\ UNCHANGED <<session, posts, subscribers, disk, todo, scenario>>

RelayHandlesSubscribe(c) ==
    /\ outbox[c] # <<>> /\ Head(outbox[c]).type = "subscribe"
    /\ outbox' = [outbox EXCEPT ![c] = Tail(@)]
    /\ subscribers' = subscribers \union {c}
    /\ inbox' = [inbox EXCEPT ![c] =
                   Append(@, State(chainFrom(Head(outbox[c]).from), None))]
    /\ UNCHANGED <<session, posts, chain, late, disk, todo, faults, scenario>>

(* The relay handles a POSTed save; the answer travels on its own.         *)
RelayHandlesPost(c) ==
    \E p \in posts[c] :
        /\ p.answer = <<>>
        /\ posts' = [posts EXCEPT ![c] =
                       (@ \ {p}) \union {[p EXCEPT !.answer = SaveAnswer(p.rev, p.rev.id)]}]
        /\ CommitAndBroadcast(p.rev, inbox, {})
        /\ UNCHANGED <<session, outbox, subscribers, disk, todo, scenario>>

(* The relay's database is gone (wiped, moved).                            *)
Wipe ==
    /\ Spend("wipe")
    /\ chain # <<>>
    /\ chain' = <<>>
    /\ UNCHANGED <<session, outbox, inbox, posts, subscribers, late, disk, todo, scenario>>

-----------------------------------------------------------------------------
(* Steps of a client.  persistSession schedules a write of the base; the   *)
(* triage itself is in local storage as soon as it is live.  Only a reload *)
(* reads the disk.                                                         *)

persistSession(c, s) ==
    disk' = IF "reload" \in faults THEN [disk EXCEPT ![c].queued = Persisted(s)] ELSE disk

Become(c, s) == session' = [session EXCEPT ![c] = s]

Local == <<outbox, inbox, posts, relay, todo, faults, scenario>>

(* The user sets or clears a field; saveTriage will notify when it is done. *)
UserEdits(c) ==
    \E e \in todo :
        /\ e.by = c
        /\ todo' = todo \ {e}
        /\ Become(c, [session[c] EXCEPT !.live[e.id][e.field] = e.value, !.dirty = TRUE])
        /\ UNCHANGED <<outbox, inbox, posts, relay, disk, faults, scenario>>

Suppressed(s) == s.suppressed \/ (s.job # None /\ s.job.stage = "persist")

(* notify, at the tail of saveTriage.                                      *)
notify(c) ==
    LET s == session[c] IN
    /\ s.dirty
    /\ Become(c, IF Suppressed(s) THEN [s EXCEPT !.dirty = FALSE]
                 ELSE trySendSave([s EXCEPT !.dirty = FALSE]))
    /\ UNCHANGED <<Local, disk>>

(* A write of the session blob gets its lock.                              *)
SessionWritten(c) ==
    /\ disk[c].queued # None
    /\ disk' = [disk EXCEPT ![c] = [saved |-> @.queued, queued |-> None]]
    /\ UNCHANGED <<session, Local>>

Signed(c) ==
    \E from \in session[c].signing :
        /\ Become(c, [session[c] EXCEPT !.signing = @ \ {from}, !.subscribed = TRUE])
        /\ outbox' = [outbox EXCEPT ![c] = Append(@, [type |-> "subscribe", from |-> from])]
        /\ UNCHANGED <<inbox, posts, relay, disk, todo, faults, scenario>>

(* dispatchSave.                                                           *)
dispatchSave(c, rev) ==
    IF scenario.sse
      THEN /\ posts' = [posts EXCEPT ![c] = @ \union {[rev |-> rev, answer |-> <<>>, waiting |-> TRUE]}]
           /\ UNCHANGED outbox
      ELSE /\ outbox' = [outbox EXCEPT ![c] = Append(@, [type |-> "save", rev |-> rev])]
           /\ UNCHANGED posts

(* The end of trySendSave's await.  A base that moved, or a chain being    *)
(* applied, sends the save back to the queue.                              *)
Encrypted(c) ==
    LET s == session[c]
        id == <<c, s.minted + 1>>
        e == s.encrypting
        done == [s EXCEPT !.encrypting = None] IN
    /\ e # None
    /\ IF s.base # e.base \/ s.receiving
         THEN /\ Become(c, FlushPendingSave([done EXCEPT !.pendingSave = TRUE]))
              /\ UNCHANGED <<outbox, posts>>
         ELSE /\ Become(c, [done EXCEPT !.minted = @ + 1, !.pendingSave = FALSE, !.failures = 0,
                              !.error = None,
                              !.pending = [id |-> id, base |-> e.base, kf |-> e.kf, cs |-> e.cs]])
              /\ dispatchSave(c, [id |-> id, base |-> e.base, kf |-> e.kf, cs |-> e.cs])
    /\ UNCHANGED <<inbox, relay, disk, todo, faults, scenario>>

(* Encryption or signing throws, as often as it likes with a bad key.  At  *)
(* the threshold the session gives up; below it only a queued save is sent *)
(* again, and nothing is shown.                                            *)
EncryptFails(c) ==
    LET s == session[c] IN
    /\ s.encrypting # None
    /\ "crypto" \in faults /\ faults' = {"crypto"}
    /\ Become(c, FlushPendingSave(
         [s EXCEPT !.encrypting = None, !.failures = @ + 1,
                   !.error = IF s.failures + 1 >= MaxFailures THEN "encrypt" ELSE @]))
    /\ UNCHANGED <<outbox, inbox, posts, relay, disk, todo, scenario>>

(* The timer armBusyRetry set.                                             *)
BusyRetry(c) ==
    /\ session[c].busyRetry
    /\ Become(c, FlushPendingSave([session[c] EXCEPT !.busyRetry = FALSE]))
    /\ UNCHANGED <<Local, disk>>

dismissError(c) ==
    LET cleared == [session[c] EXCEPT !.error = None, !.failures = 0] IN
    /\ session[c].error # None
    /\ Become(c, trySendSave(trySendSubscribe(cleared, FALSE)))
    /\ UNCHANGED <<Local, disk>>

-----------------------------------------------------------------------------
(* Handlers of the message queue: one at a time, each up to its await.     *)

(* The frame at the head of the queue, once no handler is running.         *)
Handling(c, type) ==
    /\ session[c].job = None
    /\ inbox[c] # <<>> /\ Head(inbox[c]).type = type
    /\ inbox' = [inbox EXCEPT ![c] = Tail(@)]
    /\ UNCHANGED <<outbox, posts, relay, todo, faults, scenario>>

(* A REST answer counts only while the save it answers is pending.         *)
Outdated(s, m) == m.for \notin {None} \union {r.id : r \in {s.pending} \ {None}}

(* Faulty variants: the ack folds in edits made after the save was sent; a *)
(* busy relay is not retried, or its answer leaves the slot taken.         *)
FoldLive(s) ==
    [s EXCEPT !.base = s.pending.id, !.baseState = s.live, !.hasBase = TRUE,
              !.applied = @ \union {s.pending.id}, !.since = IF s.pending.kf THEN 0 ELSE Bumped(@),
              !.pending = None, !.staleResetAttempted = FALSE,
              !.job = [kind |-> "ack", stage |-> "persist"]]

UnretriedSaveError(s, reason) ==
    CASE reason = "busy" -> [s EXCEPT !.pending = None, !.pendingSave = TRUE]
      [] reason = "stale-base" /\ ~s.staleResetAttempted ->
           trySendSave([DropAnchor(s) EXCEPT !.staleResetAttempted = TRUE, !.pendingSave = FALSE])
      [] OTHER -> [s EXCEPT !.pending = None, !.failures = @ + 1, !.error = reason]

StuckSaveError(s, reason) ==
    CASE reason = "busy" -> [s EXCEPT !.pendingSave = TRUE, !.busyRetry = TRUE]
      [] reason = "stale-base" /\ ~s.staleResetAttempted ->
           trySendSave([DropAnchor(s) EXCEPT !.staleResetAttempted = TRUE, !.pendingSave = FALSE])
      [] OTHER -> [s EXCEPT !.pending = None, !.failures = @ + 1, !.error = reason]

(* An ack for our pending save: its changeset becomes part of the base.    *)
FoldPending(s) ==
    [s EXCEPT !.base = s.pending.id,
              !.baseState = ApplyRevision(@, s.pending.kf, s.pending.cs),
              !.hasBase = TRUE,
              !.applied = @ \union {s.pending.id},
              !.since = IF s.pending.kf THEN 0 ELSE Bumped(@),
              !.pending = None,
              !.staleResetAttempted = FALSE,
              !.job = [kind |-> "ack", stage |-> "persist"]]

handleAck(c) ==
    LET s == session[c]
        m == Head(inbox[c]) IN
    /\ Handling(c, "ack")
    /\ \/ /\ Outdated(s, m)
          /\ UNCHANGED <<session, disk>>
       \/ /\ ~Outdated(s, m) /\ s.pending # None
          /\ IF m.id = s.pending.id /\ m.base = s.pending.base
               THEN Become(c, FoldPending(s)) /\ persistSession(c, FoldPending(s))
               ELSE UNCHANGED <<session, disk>>
       \/ /\ ~Outdated(s, m) /\ s.pending = None
          /\ Become(c, IF m.id = s.base THEN s ELSE trySendSave([s EXCEPT !.pendingSave = TRUE]))
          /\ UNCHANGED disk

(* The ack is persisted: flush what the user did during the round trip.    *)
AckPersisted(c) ==
    LET s == session[c]
        done == [s EXCEPT !.job = None] IN
    /\ s.job # None /\ s.job.stage = "persist" /\ s.job.kind = "ack"
    /\ Become(c, IF s.pendingSave \/ s.live # s.baseState
                   THEN trySendSave([done EXCEPT !.pendingSave = FALSE]) ELSE done)
    /\ UNCHANGED <<Local, disk>>

(* handleSaveError: a busy relay is retried, a base the relay has lost is  *)
(* dropped once per recovery, anything else stops the session.             *)
AfterSaveError(s, reason) ==
    LET cleared == [s EXCEPT !.pending = None] IN
    CASE reason = "busy" -> [cleared EXCEPT !.pendingSave = TRUE, !.busyRetry = TRUE]
      [] reason = "stale-base" /\ ~s.staleResetAttempted ->
           trySendSave([DropAnchor(s) EXCEPT !.staleResetAttempted = TRUE, !.pendingSave = FALSE])
      [] OTHER -> [cleared EXCEPT !.failures = @ + 1, !.error = reason]

handleSaveError(c) ==
    LET s == session[c]
        m == Head(inbox[c]) IN
    /\ Handling(c, "error")
    /\ IF Outdated(s, m) \/ s.pending = None \/ s.pending.base # m.base
         THEN UNCHANGED <<session, disk>>
         ELSE /\ Become(c, AfterSaveError(s, m.reason))
              /\ IF m.reason = "stale-base" /\ ~s.staleResetAttempted
                   THEN persistSession(c, DropAnchor(s)) ELSE UNCHANGED disk

(* handleChain.  An empty chain answers a gap recovery: we are at the head. *)
CaughtUp(s) ==
    IF ~s.resyncAttempted THEN s
    ELSE IF s.pending = None
      THEN trySendSave([s EXCEPT !.resyncAttempted = FALSE, !.pendingSave = FALSE])
      ELSE [s EXCEPT !.resyncAttempted = FALSE]

handleChain(c) ==
    LET s == session[c]
        m == Head(inbox[c]) IN
    /\ Handling(c, "state")
    /\ Become(c,
         CASE Outdated(s, m) -> s
           [] ~Outdated(s, m) /\ m.revs = <<>> -> CaughtUp(s)
           [] ~Outdated(s, m) /\ m.revs # <<>> ->
                [s EXCEPT !.receiving = TRUE,
                          !.job = [kind |-> "chain", stage |-> "verify", revs |-> m.revs,
                                   local |-> s.live]])
    /\ UNCHANGED disk

(* applyChainToBase on a candidate a of the session known: skip what was   *)
(* applied before, stop for good at a break of the chain.                  *)
ApplyNext(known, a, rev) ==
    IF ~a.ok \/ rev.id \in known \union a.applied \union {a.base} THEN a
    ELSE IF IF a.base = None THEN rev.base = None \/ rev.kf ELSE rev.base = a.base
      THEN [a EXCEPT !.base = rev.id,
                     !.state = ApplyRevision(@, rev.kf, rev.cs),
                     !.applied = @ \union {rev.id},
                     !.since = IF rev.kf THEN 0 ELSE Bumped(@)]
      ELSE [a EXCEPT !.ok = FALSE]

applyChainToBase(s, revs) ==
    FoldLeft(LAMBDA a, rev : ApplyNext(s.applied, a, rev),
             [base |-> s.base, state |-> s.baseState, applied |-> {}, since |-> s.since, ok |-> TRUE],
             revs)

(* Whether the chain carries our own pending save.                         *)
EchoesPending(s, cand) == s.pending # None /\ s.pending.id \in cand.applied

(* What the local edits are measured against while cand is merged, and the *)
(* findings kept whole because the base was dropped, not advanced.         *)
overlayBase(s, cand) ==
    IF EchoesPending(s, cand) THEN ApplyRevision(s.baseState, s.pending.kf, s.pending.cs)
    ELSE s.baseState

preserveKnownIds(s, cand) ==
    IF s.base # None \/ EchoesPending(s, cand) THEN {}
    ELSE IF s.hasBase THEN Findings ELSE {i \in Findings : s.baseState[i] # NoEntry}

(* The end of handleChain, its finally block included.                     *)
ChainDone(s, ok, local) ==
    LET idle == [s EXCEPT !.job = None, !.receiving = FALSE] IN
    FlushPendingSave(
      IF ok
        THEN [idle EXCEPT !.resyncAttempted = FALSE, !.staleResetAttempted = FALSE,
                          !.pendingSave = @ \/ local # s.baseState]
        ELSE IF ~s.resyncAttempted
          THEN trySendSubscribe([idle EXCEPT !.pendingSave = FALSE, !.resyncAttempted = TRUE], TRUE)
          ELSE [DropAnchor(idle) EXCEPT !.pendingSave = TRUE])

(* Whether that end drops the base, which is persisted.                    *)
Resets(s, ok) == ~ok /\ s.resyncAttempted

(* Faulty variant: what is rebased is the state captured before the await.  *)
StaleRebased(s, cand, shown, picked) ==
    LET merged == rebaseLocalState(overlayBase(s, cand), shown, cand.state, preserveKnownIds(s, cand))
    IN [s EXCEPT !.live = applyHydrationDecisions(merged, shown, cand.state, picked),
                 !.base = cand.base, !.baseState = cand.state, !.hasBase = TRUE,
                 !.applied = @ \union cand.applied, !.since = cand.since,
                 !.pendingSave = @ \/ s.pending # None, !.pending = None,
                 !.job = [kind |-> "chain", stage |-> "persist", ok |-> cand.ok]]

(* Take cand as the base and rebase the live edits on it; the fields of    *)
(* picked take the chain's value, unless they changed since shown.         *)
Rebased(s, cand, shown, picked) ==
    LET merged == rebaseLocalState(overlayBase(s, cand), s.live, cand.state, preserveKnownIds(s, cand))
    IN [s EXCEPT !.live = applyHydrationDecisions(merged, shown, cand.state, picked),
                 !.base = cand.base, !.baseState = cand.state, !.hasBase = TRUE,
                 !.applied = @ \union cand.applied, !.since = cand.since,
                 !.pendingSave = @ \/ s.pending # None, !.pending = None,
                 !.job = [kind |-> "chain", stage |-> "persist", ok |-> cand.ok]]

(* The chain is verified and decrypted: nothing new, a conflict to show,   *)
(* or a rebase.                                                            *)
ChainVerified(c) ==
    LET s == session[c]
        cand == applyChainToBase(s, s.job.revs)
        conflicts == collectChainConflicts(s.live, overlayBase(s, cand), cand.state, preserveKnownIds(s, cand))
        ended == ChainDone([s EXCEPT !.since = cand.since], cand.ok, s.job.local) IN
    /\ s.job # None /\ s.job.stage = "verify"
    /\ IF cand.base = s.base
         THEN /\ Become(c, ended)
              /\ IF Resets(s, cand.ok) THEN persistSession(c, ended) ELSE UNCHANGED disk
         ELSE IF Resolver /\ conflicts # {}
           THEN /\ Become(c, [s EXCEPT !.job = [kind |-> "chain", stage |-> "dialog", cand |-> cand,
                                                shown |-> s.live, conflicts |-> conflicts]])
                /\ UNCHANGED disk
           ELSE /\ Become(c, Rebased(s, cand, s.live, {}))
                /\ persistSession(c, Rebased(s, cand, s.live, {}))
    /\ UNCHANGED Local

(* The user answers the conflict dialog; an unanswered field stays local.  *)
ConflictsResolved(c) ==
    LET s == session[c]
        j == s.job IN
    /\ j # None /\ j.stage = "dialog"
    /\ \E picked \in SUBSET j.conflicts :
         /\ Become(c, Rebased(s, j.cand, j.shown, picked))
         /\ persistSession(c, Rebased(s, j.cand, j.shown, picked))
    /\ UNCHANGED Local

ChainPersisted(c) ==
    LET s == session[c] IN
    /\ s.job # None /\ s.job.stage = "persist" /\ s.job.kind = "chain"
    /\ Become(c, ChainDone(s, s.job.ok, s.live))
    /\ IF Resets(s, s.job.ok) THEN persistSession(c, DropAnchor(s)) ELSE UNCHANGED disk
    /\ UNCHANGED Local

-----------------------------------------------------------------------------
(* The REST plane and the connection.                                      *)

(* The answer to a POST joins the message queue, ahead of the frames still *)
(* on the wire.                                                            *)
PostAnswered(c) ==
    \E p \in posts[c], n \in 0 .. Len(inbox[c]) :
        /\ p.answer # <<>>
        /\ posts' = [posts EXCEPT ![c] = @ \ {p}]
        /\ IF p.waiting /\ session[c].pending # None /\ session[c].pending.id = p.rev.id
             THEN inbox' = [inbox EXCEPT ![c] = SubSeq(@, 1, n) \o p.answer \o SubSeq(@, n + 1, Len(@))]
             ELSE n = 0 /\ UNCHANGED inbox
        /\ UNCHANGED <<session, outbox, relay, disk, todo, faults, scenario>>

(* A POST times out or its answer is lost: the frame is sent in band.      *)
PostFails(c) ==
    \E p \in posts[c] :
        /\ p.waiting
        /\ Spend("rest")
        /\ posts' = [posts EXCEPT ![c] = (@ \ {p}) \union
                       IF p.answer = <<>> THEN {[p EXCEPT !.waiting = FALSE]} ELSE {}]
        /\ outbox' = IF session[c].pending # None /\ session[c].pending.id = p.rev.id
                       THEN [outbox EXCEPT ![c] = Append(@, [type |-> "save", rev |-> p.rev])]
                       ELSE outbox
        /\ UNCHANGED <<session, inbox, relay, disk, todo, scenario>>

(* onTransportConnected.                                                   *)
Connect(c) ==
    LET up == [session[c] EXCEPT !.online = TRUE, !.pending = None, !.pendingSave = FALSE] IN
    /\ ~session[c].online
    /\ Become(c, trySendSave(trySendSubscribe(up, FALSE)))
    /\ UNCHANGED <<Local, disk>>

(* The socket is gone, and with it the frames both ways.                   *)
Cut(c) ==
    /\ outbox' = [outbox EXCEPT ![c] = <<>>]
    /\ inbox' = [inbox EXCEPT ![c] = <<>>]
    /\ subscribers' = subscribers \ {c}
    /\ UNCHANGED <<chain, late, todo, scenario>>

(* onTransportDisconnected: work under way belongs to an old generation;   *)
(* only the write of applyOverlayAndPersist holds suppressNotify until it  *)
(* ends, which may be after the reconnect.                                 *)
Disconnected(s, orphan) ==
    [s EXCEPT !.online = FALSE, !.encrypting = None, !.receiving = FALSE, !.job = None,
              !.signing = {}, !.pending = None, !.subscribed = FALSE, !.resyncAttempted = FALSE,
              !.staleResetAttempted = FALSE, !.pendingSave = TRUE, !.busyRetry = FALSE,
              !.suppressed = orphan]

Disconnect(c) ==
    /\ session[c].online
    /\ \/ Spend("disconnect") /\ Become(c, Disconnected(session[c], FALSE))
       \/ /\ Spend("orphan") /\ Suppressed(session[c])
          /\ Become(c, Disconnected(session[c], TRUE))
    /\ Cut(c)
    /\ disk' = [disk EXCEPT ![c].queued = None]
    /\ UNCHANGED posts

(* The write of an abandoned handler ends.                                 *)
OrphanEnds(c) ==
    /\ session[c].suppressed
    /\ Become(c, [session[c] EXCEPT !.suppressed = FALSE])
    /\ UNCHANGED <<Local, disk>>

(* The page is reloaded: openSession restores what was persisted.          *)
openSession(s, saved) ==
    [NewSession EXCEPT !.live = hydrateStateFromBaseState(s.live, saved.baseState),
                       !.base = saved.base, !.baseState = saved.baseState,
                       !.hasBase = saved.hasBase, !.since = saved.since, !.minted = s.minted]

Reload(c) ==
    /\ Spend("reload")
    /\ Become(c, openSession(session[c], disk[c].saved))
    /\ Cut(c)
    /\ disk' = [disk EXCEPT ![c].queued = None]
    /\ posts' = [posts EXCEPT ![c] = {[p EXCEPT !.waiting = FALSE] : p \in {q \in @ : q.answer = <<>>}}]

-----------------------------------------------------------------------------
Init ==
    /\ session = [c \in Clients |-> NewSession]
    /\ outbox = [c \in Clients |-> <<>>]
    /\ inbox = [c \in Clients |-> <<>>]
    /\ posts = [c \in Clients |-> {}]
    /\ chain = <<>>
    /\ subscribers = {}
    /\ late = {}
    /\ disk = [c \in Clients |-> [saved |-> Persisted(NewSession), queued |-> None]]
    /\ scenario \in Scenarios
    /\ todo = scenario.edits
    /\ faults = scenario.faults

(* What goes on by itself, as opposed to edits and to faults; an open      *)
(* dialog counts with it, which its user is assumed to answer.             *)
Progress(c) ==
    \/ notify(c) \/ SessionWritten(c) \/ Signed(c) \/ Encrypted(c) \/ BusyRetry(c)
    \/ handleAck(c) \/ AckPersisted(c) \/ handleSaveError(c) \/ handleChain(c)
    \/ ChainVerified(c) \/ ConflictsResolved(c) \/ ChainPersisted(c)
    \/ PostAnswered(c) \/ Connect(c) \/ OrphanEnds(c)
    \/ RelayHandlesSave(c) \/ RelayHandlesSubscribe(c) \/ RelayHandlesPost(c)

Next ==
    \/ \E c \in Clients :
        \/ Progress(c)
        \/ UserEdits(c) \/ dismissError(c)
        \/ EncryptFails(c) \/ PostFails(c) \/ Disconnect(c) \/ Reload(c) \/ DeliverLate(c)
    \/ Wipe

Spec == Init /\ [][Next]_vars

Fairness == \A c \in Clients : WF_vars(Progress(c))

LiveSpec == Spec /\ Fairness

-----------------------------------------------------------------------------
(* Properties.                                                             *)

Triage == [Findings -> Entry]
Changeset == UNION {[d -> Entry] : d \in SUBSET Findings}
Rev == [id : RevIds, base : {None} \union RevIds, kf : BOOLEAN, cs : Changeset]

(* Types of the state: in particular savesSinceKeyframe never passes the   *)
(* interval it is capped at, and the send slot and the encryption slot are *)
(* never taken together.                                                   *)
TypeOK ==
    /\ \A c \in Clients : LET s == session[c] IN
         /\ s.live \in Triage /\ s.baseState \in Triage
         /\ s.base \in {None} \union RevIds /\ s.applied \subseteq RevIds
         /\ s.since \in 0 .. KeyframeInterval /\ s.failures \in 0 .. MaxFailures
         /\ s.pending \in {None} \union Rev
         /\ s.pending = None \/ s.encrypting = None
         /\ \A b \in {s.hasBase, s.pendingSave, s.receiving, s.subscribed, s.resyncAttempted,
                      s.staleResetAttempted, s.busyRetry, s.dirty, s.online, s.suppressed} : b \in BOOLEAN
         /\ s.receiving <=> s.job # None /\ s.job.kind = "chain"
         /\ s.error \in {None, "encrypt", "too-large", "stale-base"}
         /\ \A n \in DOMAIN inbox[c] : inbox[c][n].type \in {"state", "ack", "error"}
         /\ \A n \in DOMAIN outbox[c] : outbox[c][n].type \in {"save", "subscribe"}
    /\ \A n \in DOMAIN chain : chain[n] \in Rev
    /\ subscribers \subseteq {c \in Clients : session[c].online}
    /\ scenario \in Scenarios /\ todo \subseteq scenario.edits /\ faults \subseteq scenario.faults

(* The scenario has a fault of one of these kinds.                         *)
MaySuffer(kinds) == scenario.faults \intersect kinds # {}

(* The state the relay's chain stands for after its nth revision.          *)
StateAfter(n) ==
    FoldLeft(LAMBDA st, rev : ApplyRevision(st, rev.kf, rev.cs), NoTriage, SubSeq(chain, 1, n))

(* The state a client takes for agreed is the state of the chain at its    *)
(* base: chains, echoes, acks and keyframes fold to what the relay holds   *)
(* (baseState and baseRevision of applyChainToBase and handleAck).         *)
BaseIsChainState ==
    \A c \in Clients, n \in DOMAIN chain :
        session[c].base = chain[n].id => session[c].baseState = StateAfter(n)

(* The user of c has given the field this value, or has cleared it.        *)
WasSet(c, i, p, v) == \E e \in scenario.edits \ todo : e.by = c /\ e.id = i /\ e.field = p /\ e.value = v

(* A revision changes a field only to what its author's own user put       *)
(* there: rebasing never re-sends a value learned from a peer, and never   *)
(* undoes one (rebaseLocalState, computeChangeset).  A reload that comes   *)
(* between the write of the triage and that of the base makes what was     *)
(* learned look like the user's own.                                       *)
OnlyOwnChanges ==
    MaySuffer({"reload", "wipe"}) \/ \A n \in DOMAIN chain : \A i \in Findings, p \in Fields :
        LET now == StateAfter(n)[i][p] IN
        now # StateAfter(n - 1)[i][p] => WasSet(chain[n].id[1], i, p, now)

(* The user's value has been part of the chain.                            *)
Landed(c, i, p, v) == \E n \in DOMAIN chain : chain[n].id[1] = c /\ StateAfter(n)[i][p] = v

(* The dialog c's user has open shows v against the peer's value.          *)
ShowsConflict(c, i, p, v) ==
    LET j == session[c].job IN
    j # None /\ j.stage = "dialog" /\ <<i, p>> \in j.conflicts /\ j.shown[i][p] = v

(* An edit the chain has not seen disappears from the screen only by       *)
(* another edit or because the user chose the peer's value in the dialog,  *)
(* whatever chain arrives while it is typed, encrypted, sent or persisted  *)
(* (captureOverlay before and after every await of handleChain).           *)
EditsSurvive ==
    [][MaySuffer({"wipe"}) \/ \A c \in Clients, i \in Findings, p \in Fields :
        LET v == session[c].live[i][p] IN
        (v # session'[c].live[i][p] /\ v # None /\ WasSet(c, i, p, v) /\ ~Landed(c, i, p, v))
            => \/ todo' # todo
               \/ Resolver /\ ShowsConflict(c, i, p, v)]_vars

(* The user is asked only about values of theirs that the chain does not   *)
(* have yet: the echo of a save is not a peer's competing change, and once *)
(* it landed a later change by a peer simply wins (overlayBase).  A lost   *)
(* connection loses that knowledge with the pending save.                  *)
ConflictsAreReal ==
    MaySuffer(AllFaults \ {"rest"}) \/ \A c \in Clients, i \in Findings, p \in Fields :
        LET v == session[c].live[i][p] IN ShowsConflict(c, i, p, v) => ~Landed(c, i, p, v)

(* The session tells its user's changes from the peers': it sends only the *)
(* former, and asks only where the two really differ.                      *)
ChangesAttributed == OnlyOwnChanges /\ ConflictsAreReal

(* Nothing of c is under way.                                              *)
Quiet(c) ==
    LET s == session[c] IN
    /\ s.online /\ s.job = None /\ s.encrypting = None /\ s.pending = None /\ s.signing = {}
    /\ ~s.dirty /\ ~s.busyRetry /\ ~s.suppressed
    /\ inbox[c] = <<>> /\ outbox[c] = <<>>
    /\ \A q \in posts[c] : ~q.waiting /\ q.answer = <<>>

(* A client at rest has no unsent edit, unless it shows an error: every    *)
(* save that is put off leaves something that will send it (pendingSave,   *)
(* the busy retry, the re-read after a write that suppressed notify).      *)
(* Two things break this rule: an encryption that failed fewer times than  *)
(* the threshold leaves its edits unsent and unreported until something    *)
(* else triggers a save, and so may a write that outlasts a reconnect.     *)
NoStrandedEdit ==
    MaySuffer({"orphan"}) \/ \A c \in Clients :
        Quiet(c) /\ session[c].error = None /\ session[c].failures = 0
            => session[c].live = session[c].baseState

(* When all clients are at rest, the bus holds nothing back and no edit is *)
(* left unsent as NoStrandedEdit says, all of them stand at the relay's    *)
(* head; a relay that lost its chain has one again once anyone saves.      *)
RestIsAgreement ==
    \/ MaySuffer({"orphan"})
    \/ late # {} \/ chain = <<>>
    \/ \E c \in Clients : ~Quiet(c) \/ session[c].error # None \/ session[c].failures > 0
    \/ \A c \in Clients : session[c].base = head /\ session[c].live = StateAfter(Len(chain))

(* Coming to rest means that nothing is left to do: no edit is unsent, and *)
(* the clients agree with the relay and so with each other.                *)
RestIsFinal == NoStrandedEdit /\ RestIsAgreement

(* With a relay that keeps its chain and a bus that delivers in order, no  *)
(* client ever gives up its base for a full push (DropAnchor).             *)
AnchorHeld ==
    [][\/ MaySuffer({"late", "wipe", "reload"})
       \/ \A c \in Clients : session[c].base # None => session'[c].base # None]_vars

(* What the session holds, typed by its user or agreed with the relay, it  *)
(* does not let go.                                                        *)
NothingForgotten == EditsSurvive /\ AnchorHeld

(* The terminal stale-base error is for a relay that keeps refusing: one   *)
(* loss of the chain is recovered from without it (staleResetAttempted).   *)
OneLossRecovers == \A c \in Clients : session[c].error # "stale-base"

(* Every client comes to rest: no save, resync, reset or retry goes on for *)
(* ever, no send slot stays taken, and one loss of the chain is recovered  *)
(* from on the way.                                                        *)
Settles == <>[](\A c \in Clients : Quiet(c)) /\ []OneLossRecovers

=============================================================================
