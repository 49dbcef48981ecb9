---------------------------- MODULE SubscribeHub ----------------------------
(***************************************************************************)
(* How one socket joins the fan-out of its workspaces: handleSubscribe of  *)
(* server-e2e/sync-handlers.ts over the registry and the pause buffer of   *)
(* server-e2e/hub.ts, while saves commit on this instance and on others.   *)
(*                                                                         *)
(* A workspace's chain is 1 .. head (RevisionCommit shows that it is one   *)
(* chain); a member of Lookups is one call of handleSubscribe, and every   *)
(* await in it is a step boundary.  The hub treats sockets independently,  *)
(* so one socket is enough; its pause is shared by all of its workspaces.  *)
(* Signature checks are assumed to pass.                                   *)
(***************************************************************************)
EXTENDS Naturals, Sequences, FiniteSets

CONSTANTS
    Tags,         \* workspaces the socket subscribes to
    Lookups,      \* calls of handleSubscribe
    None,         \* no lookup
    MaxRev,       \* bound on the revisions of one workspace
    Keyframes,    \* the revisions that are keyframes
    MaxBuffered,  \* payloads the pause buffer holds (maxBufferedBytes)
    Sizes         \* how many of them a behaviour uses: [tags, lookups, revs]

ASSUME HubAssumption ==
    /\ Lookups \subseteq Nat /\ None \notin Lookups
    /\ \A x \in Sizes : x.tags \subseteq Tags /\ x.lookups \subseteq Lookups /\ x.revs \in 0 .. MaxRev
    /\ MaxRev \in Nat /\ Keyframes \subseteq 1 .. MaxRev
    /\ MaxBuffered \in Nat

VARIABLES
    size,        \* the size of this behaviour, fixed
    head,        \* number of committed revisions of each workspace
    unsent,      \* committed revisions whose broadcast has not run yet
    lost,        \* revisions of other instances whose NOTIFY was dropped
    socket,      \* readyState, and "closed" once the close event has run
    pc,          \* where each lookup stands
    ask,         \* its workspace and the revision it resumes from (0: null or unknown)
    first,       \* first revision of the catch-up it reads
    upto,        \* last revision of the catch-up it read
    released,    \* lookups whose pause has been released
    current,     \* subscriptionLookups: the newest lookup of each workspace
    subscribed,  \* workspaces whose subscriber set holds the socket
    paused,      \* the hub's pause entry for the socket
    got,         \* revisions the client has received
    answered     \* lookups whose snapshot has been sent

conn == <<socket, subscribed>>
chain == <<size, head, unsent, lost>>
read == <<ask, first, upto>>
client == <<got, answered>>
vars == <<chain, conn, pc, read, released, current, paused, client>>

NoPause == [depth |-> 0, payloads |-> <<>>, bytes |-> 0]

Payload == [tag : Tags, rev : 1 .. MaxRev]
Message == [tag : Tags, rev : 1 .. MaxRev, from : {"self", "other"}]

Init ==
    /\ size \in Sizes
    /\ head = [t \in Tags |-> 0]
    /\ unsent = {}
    /\ lost = {}
    /\ socket = "open"
    /\ pc = [l \in Lookups |-> "idle"]
    /\ ask = [l \in Lookups |-> [tag |-> None, from |-> 0]]
    /\ first = [l \in Lookups |-> 0]
    /\ upto = [l \in Lookups |-> 0]
    /\ released = {}
    /\ current = [t \in Tags |-> None]
    /\ subscribed = {}
    /\ paused = NoPause
    /\ got = [t \in Tags |-> {}]
    /\ answered = {}

IsCurrent(l) == \E t \in Tags : current[t] = l

Live(l) == socket = "open" /\ IsCurrent(l)

Goto(l, from, to) == pc[l] = from /\ pc' = [pc EXCEPT ![l] = to]

-----------------------------------------------------------------------------
(* The hub.                                                                *)

(* What the client has once revisions s of t reach it too.                 *)
Received(g, t, s) == [g EXCEPT ![t] = @ \union s]

RevisionsIn(payloads, t) ==
    {payloads[n].rev : n \in {m \in DOMAIN payloads : payloads[m].tag = t}}

(* sendRaw of every buffered payload; nothing reaches a socket not open.   *)
Flushed(g) ==
    IF socket = "open" THEN [t \in Tags |-> g[t] \union RevisionsIn(paused.payloads, t)] ELSE g

(* The closure pauseBroadcasts returns for lookup l, run after the client  *)
(* has been sent what g holds: idempotent, and void once the pause entry   *)
(* is gone (an overflow and a close both end the socket, so no later entry *)
(* can be mistaken for it).                                                *)
Release(l, g) ==
    /\ released' = released \union {l}
    /\ IF l \in released \/ paused.depth = 0
         THEN paused' = paused /\ got' = g
         ELSE IF paused.depth > 1
           THEN paused' = [paused EXCEPT !.depth = @ - 1] /\ got' = g
           ELSE paused' = NoPause /\ got' = Flushed(g)

(* Faulty variant of fanOut: a buffer without a limit.                     *)
BoundlessFanOut(p) ==
    IF p.tag \notin subscribed
      THEN UNCHANGED <<paused, got, socket>>
      ELSE IF paused.depth = 0
        THEN /\ got' = IF socket = "open" THEN Received(got, p.tag, {p.rev}) ELSE got
             /\ UNCHANGED <<paused, socket>>
        ELSE /\ paused' = [paused EXCEPT !.bytes = @ + 1, !.payloads = Append(@, p)]
             /\ UNCHANGED <<got, socket>>

(* fanOut to the socket.                                                   *)
FanOut(p) ==
    IF p.tag \notin subscribed
      THEN UNCHANGED <<paused, got, socket>>
      ELSE IF paused.depth = 0
        THEN /\ got' = IF socket = "open" THEN Received(got, p.tag, {p.rev}) ELSE got
             /\ UNCHANGED <<paused, socket>>
        ELSE IF paused.bytes + 1 > MaxBuffered
          THEN /\ paused' = NoPause
               /\ socket' = IF socket = "open" THEN "closing" ELSE socket
               /\ UNCHANGED got
          ELSE /\ paused' = [paused EXCEPT !.bytes = @ + 1, !.payloads = Append(@, p)]
               /\ UNCHANGED <<got, socket>>

-----------------------------------------------------------------------------
(* Faulty variants of the steps below: the predecessor's pause is released *)
(* before its own is taken, or not at all; a socket that closed during the *)
(* signature check is registered; an obsolete read answers; a failed read  *)
(* leaves the client waiting.                                              *)
ReleaseFirstRegister(l) ==
    LET t == ask[l].tag IN
    /\ Goto(l, "verify", "resources")
    /\ socket = "open"
    /\ current' = [current EXCEPT ![t] = l]
    /\ subscribed' = subscribed \union {t}
    /\ released' = released \union ({current[t]} \ {None})
    /\ IF current[t] # None /\ paused.depth = 1
         THEN paused' = [NoPause EXCEPT !.depth = 1] /\ got' = Flushed(got)
         ELSE /\ paused' = [paused EXCEPT !.depth = IF current[t] # None THEN @ ELSE @ + 1]
              /\ UNCHANGED got
    /\ UNCHANGED <<chain, socket, read, answered>>

DepthLosingRegister(l) ==
    LET t == ask[l].tag IN
    /\ Goto(l, "verify", "resources")
    /\ socket = "open"
    /\ subscribed' = subscribed \union {t}
    /\ current' = [current EXCEPT ![t] = l]
    /\ paused' = [paused EXCEPT !.depth = @ + 1]
    /\ UNCHANGED <<chain, socket, read, released, client>>

SilentReadFails(l) ==
    /\ pc[l] \in {"resources", "anchor", "rows"}
    /\ pc' = [pc EXCEPT ![l] = "done"]
    /\ current' = [current EXCEPT ![ask[l].tag] = IF IsCurrent(l) THEN None ELSE @]
    /\ Release(l, got)
    /\ UNCHANGED <<chain, conn, read, answered>>

-----------------------------------------------------------------------------
(* A workspace-subscribe frame arrives; the signature check is awaited.    *)
(* Lookups are numbered in the order of their frames.                      *)
Receive(l, t, from) ==
    /\ socket = "open"
    /\ l \in size.lookups /\ t \in size.tags
    /\ \A k \in size.lookups : k < l => pc[k] # "idle"
    /\ from \in 0 .. head[t]
    /\ Goto(l, "idle", "verify")
    /\ ask' = [ask EXCEPT ![l] = [tag |-> t, from |-> from]]
    /\ UNCHANGED <<chain, conn, first, upto, released, current, paused, client>>

(* The socket closed during the check: drop, before anything is registered.*)
RejectClosed(l) ==
    /\ socket # "open"
    /\ Goto(l, "verify", "done")
    /\ UNCHANGED <<chain, conn, read, released, current, paused, client>>

(* Pause, replace and release the predecessor's pause, subscribe.          *)
Register(l) ==
    LET t == ask[l].tag
        previous == current[t]
        drop == previous # None /\ previous \notin released
    IN
    /\ Goto(l, "verify", "resources")
    /\ socket = "open"
    /\ current' = [current EXCEPT ![t] = l]
    /\ paused' = [paused EXCEPT !.depth = IF drop THEN @ ELSE @ + 1]
    /\ released' = released \union ({previous} \ {None})
    /\ subscribed' = subscribed \union {t}
    /\ UNCHANGED <<chain, socket, read, client>>

(* objstoreResources answered, and the lookup is still wanted.             *)
ResourcesRead(l) ==
    /\ Live(l)
    /\ Goto(l, "resources", "anchor")
    /\ UNCHANGED <<chain, conn, read, released, current, paused, client>>

(* chainFrom: seqOfId, then perhaps lastKeyframeSeq, then the rows.        *)
AnchorAtFrom(l) ==
    /\ ask[l].from # 0
    /\ Goto(l, "anchor", "rows")
    /\ first' = [first EXCEPT ![l] = ask[l].from + 1]
    /\ UNCHANGED <<chain, conn, ask, upto, released, current, paused, client>>

LastKeyframe(n) ==
    LET ks == Keyframes \intersect 1 .. n IN
    IF ks = {} THEN 1 ELSE CHOOSE k \in ks : \A j \in ks : j <= k

AnchorAtKeyframe(l) ==
    /\ ask[l].from = 0
    /\ Goto(l, "anchor", "rows")
    /\ first' = [first EXCEPT ![l] = LastKeyframe(head[ask[l].tag])]
    /\ UNCHANGED <<chain, conn, ask, upto, released, current, paused, client>>

ReadRows(l) ==
    /\ Goto(l, "rows", "reply")
    /\ upto' = [upto EXCEPT ![l] = head[ask[l].tag]]
    /\ UNCHANGED <<chain, conn, ask, first, released, current, paused, client>>

(* Both replies, then the finally clause: the buffered broadcasts follow.  *)
Reply(l) ==
    LET t == ask[l].tag IN
    /\ Live(l)
    /\ Goto(l, "reply", "done")
    /\ answered' = answered \union {l}
    /\ current' = [current EXCEPT ![t] = None]
    /\ Release(l, Received(got, t, first[l] .. upto[l]))
    /\ UNCHANGED <<chain, conn, read>>

(* The finally clause.                                                     *)
Finish(l) ==
    /\ current' = [current EXCEPT ![ask[l].tag] = IF IsCurrent(l) THEN None ELSE @]
    /\ Release(l, got)
    /\ UNCHANGED <<chain, subscribed, read, answered>>

(* The socket closed, or a newer subscribe took over, during the read.     *)
GiveUp(l) ==
    /\ ~Live(l)
    /\ pc[l] \in {"resources", "reply"}
    /\ pc' = [pc EXCEPT ![l] = "done"]
    /\ Finish(l)
    /\ UNCHANGED socket

(* A read throws: the client of a current lookup must reconnect, since an  *)
(* inventory it did not get would look like an empty one.                  *)
ReadFails(l) ==
    /\ pc[l] \in {"resources", "anchor", "rows"}
    /\ pc' = [pc EXCEPT ![l] = "done"]
    /\ current' = [current EXCEPT ![ask[l].tag] = IF IsCurrent(l) THEN None ELSE @]
    /\ released' = released \union {l}
    /\ IF Live(l)
         THEN /\ socket' = "closing"
              /\ paused' = IF paused.depth > 1 THEN [paused EXCEPT !.depth = @ - 1] ELSE NoPause
              /\ UNCHANGED got
         ELSE Release(l, got) /\ UNCHANGED socket
    /\ UNCHANGED <<chain, subscribed, read, answered>>

-----------------------------------------------------------------------------
(* A save commits: one of this socket, or one of another socket, of this   *)
(* or of another instance.  The broadcast comes later.                     *)
Commit(t, from) ==
    /\ t \in size.tags /\ head[t] < size.revs
    /\ from = "self" => socket = "open"
    /\ head' = [head EXCEPT ![t] = @ + 1]
    /\ unsent' = unsent \union {[tag |-> t, rev |-> head[t] + 1, from |-> from]}
    /\ UNCHANGED <<size, lost, conn, pc, read, released, current, paused, client>>

(* broadcast / broadcastLocalRaw; the sender of a save is acked instead,   *)
(* and acks are not held by the pause.                                     *)
Announce(m) ==
    /\ unsent' = unsent \ {m}
    /\ IF m.from = "self"
         THEN /\ got' = IF socket = "open" THEN Received(got, m.tag, {m.rev}) ELSE got
              /\ UNCHANGED <<paused, socket>>
         ELSE FanOut([tag |-> m.tag, rev |-> m.rev])
    /\ UNCHANGED <<size, head, lost, subscribed, pc, read, released, current, answered>>

(* The LISTEN connection was down when another instance published (a save  *)
(* of another socket of this instance is one this never happens to).       *)
NotifyLost(m) ==
    /\ m.from = "other"
    /\ unsent' = unsent \ {m}
    /\ lost' = lost \union {[tag |-> m.tag, rev |-> m.rev]}
    /\ UNCHANGED <<size, head, conn, pc, read, released, current, paused, client>>

(* The peer goes away, or the heartbeat or the backpressure cap of sendRaw *)
(* terminates the socket, at any time.                                     *)
SocketCloses ==
    /\ socket = "open"
    /\ socket' = "closing"
    /\ UNCHANGED <<chain, subscribed, pc, read, released, current, paused, client>>

(* The close event: unsubscribeAll.                                        *)
CloseEvent ==
    /\ socket = "closing"
    /\ socket' = "closed"
    /\ subscribed' = {}
    /\ paused' = NoPause
    /\ UNCHANGED <<chain, pc, read, released, current, client>>

Progress(l) ==
    \/ RejectClosed(l) \/ Register(l) \/ ResourcesRead(l)
    \/ AnchorAtFrom(l) \/ AnchorAtKeyframe(l) \/ ReadRows(l)
    \/ Reply(l) \/ GiveUp(l)

Next ==
    \/ \E l \in Lookups : \/ \E t \in Tags, n \in 0 .. MaxRev : Receive(l, t, n)
                          \/ Progress(l)
                          \/ ReadFails(l)
    \/ \E t \in Tags, o \in {"self", "other"} : Commit(t, o)
    \/ \E m \in unsent : Announce(m) \/ NotifyLost(m)
    \/ SocketCloses
    \/ CloseEvent

Spec == Init /\ [][Next]_vars

(* The event loop runs what is ready, and the reads of a lookup that is    *)
(* still wanted settle.  The read of an obsolete lookup may hang for ever. *)
Fairness ==
    /\ \A l \in Lookups : WF_vars(Progress(l) /\ (pc[l] = "verify" \/ IsCurrent(l)))
    /\ WF_vars(\E m \in unsent : Announce(m))
    /\ WF_vars(CloseEvent)

FairSpec == Spec /\ Fairness

-----------------------------------------------------------------------------
Underway == {"resources", "anchor", "rows", "reply"}

(* Every variable has the shape the code gives it.                         *)
TypeOK ==
    /\ size \in Sizes
    /\ head \in [Tags -> 0 .. MaxRev]
    /\ unsent \subseteq Message
    /\ lost \subseteq Payload
    /\ socket \in {"open", "closing", "closed"}
    /\ pc \in [Lookups -> {"idle", "verify", "done"} \union Underway]
    /\ ask \in [Lookups -> [tag : Tags \union {None}, from : 0 .. MaxRev]]
    /\ first \in [Lookups -> 0 .. MaxRev + 1]
    /\ upto \in [Lookups -> 0 .. MaxRev]
    /\ released \subseteq Lookups
    /\ current \in [Tags -> Lookups \union {None}]
    /\ subscribed \subseteq Tags
    /\ paused \in [depth : Nat, payloads : Seq(Payload), bytes : 0 .. MaxBuffered]
    /\ got \in [Tags -> SUBSET (1 .. MaxRev)]
    /\ answered \subseteq Lookups

(* The client can show revision r of t: it has it, said it had it, or has  *)
(* a later keyframe, which replaces everything before.                     *)
Covered(t, r) ==
    \/ r \in got[t]
    \/ \E l \in answered : ask[l].tag = t /\ r <= ask[l].from
    \/ \E k \in got[t] \intersect Keyframes : k >= r

(* Joining leaves no gap between the catch-up and the live broadcasts: of  *)
(* a workspace the socket is subscribed to and no lookup is reading, every *)
(* committed revision has reached the client, or is still to be broadcast  *)
(* or flushed, or its NOTIFY was lost (which a reconnect repairs).         *)
NoMissedRevision ==
    \A t \in subscribed : socket = "open" /\ current[t] = None =>
        \A r \in 1 .. head[t] :
            \/ Covered(t, r)
            \/ \E m \in unsent : m.tag = t /\ m.rev = r
            \/ r \in RevisionsIn(paused.payloads, t)
            \/ [tag |-> t, rev |-> r] \in lost

(* The pause of an open socket is held once for every workspace a lookup   *)
(* is reading, however lookups replace one another: no lookup ends with    *)
(* the pause still held, and none ends another's.                          *)
PauseMatchesLookups ==
    socket = "open" => paused.depth = Cardinality({t \in Tags : current[t] # None})

(* A socket whose close event has run is in no subscriber set and keeps no *)
(* buffer: nothing registers it again after an await.                      *)
NoDeadSubscriber == socket = "closed" => subscribed = {} /\ paused = NoPause

(* What the hub keeps of a socket is what its lookups and its state        *)
(* account for, across every await of handleSubscribe.                     *)
HubMatchesSocket == PauseMatchesLookups /\ NoDeadSubscriber

(* While a workspace's snapshot is being read, no broadcast of it reaches  *)
(* the client: it would overtake the snapshot and show revisions whose     *)
(* base the client lacks.  Only acks of its own saves pass.                *)
NothingOvertakesSnapshot ==
    [][\A t \in Tags : current[t] # None /\ current'[t] # None =>
           \A r \in got'[t] \ got[t] : [tag |-> t, rev |-> r, from |-> "self"] \in unsent]_vars

(* Once a newer subscribe has taken over, what an older read still does    *)
(* reaches nobody: it neither answers nor lets broadcasts go, so that the  *)
(* catch-up last sent is that of the lookup registered last.               *)
ObsoleteLookupsAreSilent ==
    [][\A l \in Lookups : pc[l] \in Underway /\ l \in released /\ pc'[l] # pc[l] =>
           UNCHANGED <<got, answered, paused>>]_vars

(* What a client is sent of a workspace follows its latest subscribe: the  *)
(* snapshot first, then the broadcasts held back behind it, and nothing    *)
(* from the subscribes it has replaced.                                    *)
SnapshotComesFirst == NothingOvertakesSnapshot /\ ObsoleteLookupsAreSilent

(* The seam between the catch-up and the live broadcasts: nothing falls    *)
(* into it, and nothing comes out on its wrong side.                       *)
JoinIsSeamless == []NoMissedRevision /\ SnapshotComesFirst

(* Broadcasts held back are let go although obsolete reads may hang.       *)
PauseEnds == paused.depth > 0 ~> paused.depth = 0

(* A subscribe is answered or replaced by a newer one, or the socket ends; *)
(* a failed read never leaves a client on an open socket without answer.   *)
SubscribeAnswered ==
    \A l \in Lookups :
        pc[l] = "verify" ~> \/ l \in answered
                            \/ l \in released /\ pc[l] \in Underway
                            \/ socket # "open"

(* No reader of the chain, hanging or failing, keeps a client waiting.     *)
NobodyWaitsForEver == PauseEnds /\ SubscribeAnswered

=============================================================================
