--------------------------- MODULE SyncTransport ---------------------------
(***************************************************************************)
(* The transport of one client, client/sync/socket-transport.ts, with its  *)
(* SSE fallback, sse-transport.ts, and the relay's end of both: the        *)
(* connections of ws-server.ts and the sessions of sse-server.ts, which    *)
(* outlive the POST that made them and write to the latest one's response. *)
(*                                                                         *)
(* A stream is a WebSocket connection or a POST with its response.  The    *)
(* synchronous functions of the client are operators on a world: the       *)
(* transport, what its consumers were told, and the streams.  Time is left *)
(* out: a timer that is armed fires some time.                             *)
(***************************************************************************)
EXTENDS Naturals, FiniteSets, SequencesExt

CONSTANTS
    None,
    Streams,
    Sids,         \* sessions of the relay, each named by its challenge nonce
    Replicas,
    MaxSessions,  \* maxSessions of the SSE server, per replica
    Scenarios     \* what a behaviour is given: how often each thing happens;
                  \* whether the WebSocket upgrade gets through; whether the
                  \* relay asks for a password; the password in the cache

Counts == {"acquires", "releases", "urls", "locks", "closes", "unlocks", "chatter", "data",
           "hops", "stalls", "cuts", "goodbyes", "typos", "cancels"}
Passwords == {"right", "wrong"}
Nonces == Sids \union {None}
Words == Passwords \union {None}

(* Frames of the client: authenticate has a password, others are signed.   *)
Frames == [nonce : Nonces, password : Words]
Events ==
    [type : {"session", "challenge", "authenticated", "auth-failed", "gated", "answer", "data", "close"},
     sid : Sids, n : Nat]
Flows == [at : {"cached", "wipe", "dialog", "typed", "keep"}, password : Words, stale : BOOLEAN]
Sockets ==
    [sse : BOOLEAN, state : {"connecting", "open", "closing"}, id : Nonces, password : Words,
     outbound : Seq(Frames), flushing : BOOLEAN, postSeq : Nat, dispatched : Nat, slipped : BOOLEAN]
Bodies == [id : Nonces, password : Words, frames : Seq(Frames)]
Connections ==
    [sse : BOOLEAN, mine : BOOLEAN, at : {"asked", "served", "open", "refused"}, seq : Nat, body : Bodies,
     up : Seq(Frames), down : Seq(Events), cut : BOOLEAN, closing : BOOLEAN, over : BOOLEAN,
     gone : BOOLEAN, waiting : Nat]
Sessions ==
    [replica : Replicas \union {None}, res : Streams, authed : BOOLEAN, sent : Nat, work : Seq(Frames)]

ASSUME TransportAssumption ==
    /\ None \notin Sids /\ None \notin Passwords
    /\ None \notin Flows /\ None \notin Sockets /\ None \notin Connections /\ None \notin Sessions
    /\ \A x \in Scenarios :
          /\ DOMAIN x = Counts \union {"ws", "gated", "cache"}
          /\ \A k \in Counts : x[k] \in Nat
          /\ x.ws \in BOOLEAN /\ x.gated \in BOOLEAN /\ x.cache \in Words

VARIABLES
    left,       \* what the scenario still allows
    transport,  \* the state of createSocketTransport and its socket
    consumer,   \* what the consumers were told, and owe
    streams,
    sessions    \* the relay's sessions

vars == <<left, transport, consumer, streams, sessions>>

Spend(kind) == left[kind] > 0 /\ left' = [left EXCEPT ![kind] = @ - 1]

(* The flow of runAuthFlow; stale once its socket is not the current one.  *)
Flow(at) == [at |-> at, password |-> None, stale |-> FALSE]

(* A WebSocket or an SseTransport; the fields after state are the latter's.*)
NewSocket(sse) ==
    [sse |-> sse, state |-> "connecting", id |-> None, password |-> None, outbound |-> <<>>,
     flushing |-> sse, postSeq |-> 0, dispatched |-> 0,
     slipped |-> FALSE]  \* (history) POSTs passed one another, or an old response broke off

NewStream(sse, seq, body) ==
    [sse |-> sse, mine |-> TRUE, at |-> "asked", seq |-> seq, body |-> body, up |-> <<>>,
     down |-> <<>>, cut |-> FALSE, closing |-> FALSE, over |-> FALSE, gone |-> FALSE,
     waiting |-> 0]  \* flushes that wait for its answer

NoBody == [id |-> None, password |-> None, frames |-> <<>>]

(* What the consumers see: the nonce they are connected under, the last    *)
(* event of it, whether one was skipped, whether they owe the relay a      *)
(* frame signed with that nonce and had its answer; and, for good, whether *)
(* the user gave up or a caller was handed the flow of an earlier socket.  *)
NewConsumer(c) == [c EXCEPT !.up = None, !.heard = 0, !.missed = FALSE, !.due = FALSE, !.answered = FALSE]

World == [t |-> transport, c |-> consumer, n |-> streams]
Becomes(w) == transport' = w.t /\ consumer' = w.c /\ streams' = w.n

(* Both ends are done with it.                                             *)
Swept(n) == [m \in Streams |-> IF n[m] # None /\ n[m].gone /\ n[m].over THEN None ELSE n[m]]

FreeStream(w) == CHOOSE m \in Streams : w.n[m] = None
HasRoom == Cardinality({m \in Streams : streams[m] = None}) >= 2

-----------------------------------------------------------------------------
(* Telling the consumers.                                                  *)

notifyDisconnected(w) == [w EXCEPT !.c = NewConsumer(w.c)]
notifyConnected(w, sid) == [w EXCEPT !.c = [NewConsumer(w.c) EXCEPT !.up = sid, !.due = TRUE]]

(* Events of a session they are not connected to are extra: no consumer    *)
(* counts on them, and none takes them for an answer.                      *)
Hear(w, e) ==
    IF e.sid # w.c.up THEN w
    ELSE [w EXCEPT !.c.heard = e.n, !.c.missed = @ \/ e.n # w.c.heard + 1,
                   !.c.answered = @ \/ e.type = "answer"]

-----------------------------------------------------------------------------
(* The auth flow.                                                          *)

IsOpen(t) == t.socket # None /\ t.socket.state = "open"

scheduleFlush(w) == [w EXCEPT !.t.socket.flushing = TRUE]

MyStream(w) == CHOOSE m \in Streams : w.n[m] # None /\ w.n[m].mine

(* send: an authenticate frame is kept by the SSE adapter, for every POST. *)
SendFrame(w, frame) ==
    IF w.t.socket.sse
      THEN scheduleFlush(IF frame.password # None
                           THEN [w EXCEPT !.t.socket.password = frame.password]
                           ELSE [w EXCEPT !.t.socket.outbound = Append(@, frame)])
      ELSE [w EXCEPT !.n[MyStream(w)].up = Append(@, frame)]

Authenticate(password) == [nonce |-> None, password |-> password]
Signed(nonce) == [nonce |-> nonce, password |-> None]

EndFlow(w) == [w EXCEPT !.t.flow = None]

(* The head of the loop: ask the user, if the socket is still there.       *)
AskUser(w) ==
    IF w.t.flow.stale \/ ~IsOpen(w.t) THEN EndFlow(w) ELSE [w EXCEPT !.t.flow = Flow("dialog")]

attemptAuthenticate(w, at, password) ==
    SendFrame([w EXCEPT !.t.flow = [Flow(at) EXCEPT !.password = password]], Authenticate(password))

Awaiting(t) == t.flow # None /\ t.flow.at \in {"cached", "typed"}

(* settleAuthResponse, and the flow up to its next await.                  *)
settleAuthResponse(w, ok) ==
    IF ~Awaiting(w.t) THEN w
    ELSE IF w.t.flow.at = "cached"
      THEN IF ok THEN EndFlow(w) ELSE [w EXCEPT !.t.flow = Flow("wipe"), !.t.cache = None]
      ELSE IF ok THEN [w EXCEPT !.t.flow.at = "keep", !.t.cache = w.t.flow.password] ELSE AskUser(w)

(* Callers coalesce on the flow in flight.                                 *)
runAuthFlow(w) ==
    CASE w.t.flow # None -> [w EXCEPT !.c.coalesced = @ \/ w.t.flow.stale]
      [] w.t.flow = None /\ ~IsOpen(w.t) -> w
      [] w.t.flow = None /\ IsOpen(w.t) ->
           IF w.t.cache # None /\ ~w.t.tried
             THEN attemptAuthenticate([w EXCEPT !.t.tried = TRUE], "cached", w.t.cache)
             ELSE AskUser([w EXCEPT !.t.flow = Flow("dialog")])

-----------------------------------------------------------------------------
(* Opening and closing.                                                    *)

MayOpen(t) == ~t.closed /\ ~t.locked /\ t.handles > 0 /\ t.url

(* The socket is dropped: a pending authentication fails, its flow goes    *)
(* stale, a WebSocket begins to close and the readers of a SseTransport    *)
(* are cancelled.                                                          *)
LetGo(x) == [x EXCEPT !.mine = FALSE, !.down = <<>>, !.closing = TRUE, !.gone = @ \/ x.sse, !.waiting = 0]

Unlistened(n) == Swept([m \in Streams |-> IF n[m] # None /\ n[m].mine THEN LetGo(n[m]) ELSE n[m]])
AbandonedFlow(t) == IF t.flow = None \/ Awaiting(t) THEN None ELSE [t.flow EXCEPT !.stale = TRUE]

(* Faulty variant: the nonce of the dropped socket stays.                  *)
LatchedDropSocket(w) ==
    [w EXCEPT !.t.socket = None, !.t.tried = FALSE, !.t.flow = AbandonedFlow(w.t), !.n = Unlistened(w.n)]

DropSocket(w) ==
    [w EXCEPT !.t.socket = None, !.t.nonce = None, !.t.tried = FALSE,
              !.t.flow = AbandonedFlow(w.t), !.n = Unlistened(w.n)]

teardownCurrentSocket(w) ==
    IF w.t.socket = None THEN w ELSE notifyDisconnected(DropSocket(w))

tryOpen(w, sse) ==
    IF ~MayOpen(w.t) THEN w
    ELSE LET w1 == [w EXCEPT !.t.socket = NewSocket(sse), !.t.nonce = None, !.t.tried = FALSE]
         IN  IF sse THEN w1 ELSE [w1 EXCEPT !.n[FreeStream(w)] = NewStream(FALSE, 0, NoBody)]

openSocket(w) == IF w.t.socket # None THEN w ELSE tryOpen(w, FALSE)

clearReconnect(w) == [w EXCEPT !.t.reconnecting = FALSE]
scheduleReconnect(w) == [w EXCEPT !.t.reconnecting = MayOpen(w.t)]

(* The close event: a WebSocket that never opened is followed by an        *)
(* SseTransport, which to the consumers is the same attempt.               *)
SocketClosed(w) ==
    LET w1 == DropSocket(w)  s == w.t.socket IN
    IF s.state = "connecting" /\ ~s.sse /\ ~w1.t.closed /\ w1.t.handles > 0
      THEN tryOpen(w1, TRUE)
      ELSE scheduleReconnect(notifyDisconnected(w1))

-----------------------------------------------------------------------------
(* Callers of the transport.                                               *)

acquire ==
    /\ Spend("acquires")
    /\ ~transport.closed
    /\ HasRoom
    /\ LET w == [World EXCEPT !.t.handles = @ + 1]
       IN  Becomes(IF transport.handles = 0 THEN openSocket(w) ELSE w)
    /\ UNCHANGED sessions

release ==
    /\ Spend("releases")
    /\ transport.handles > 0
    /\ LET w == [World EXCEPT !.t.handles = @ - 1]
       IN  Becomes(IF transport.handles = 1 THEN teardownCurrentSocket(clearReconnect(w)) ELSE w)
    /\ UNCHANGED sessions

(* Another URL, or none.                                                   *)
setServerUrl(url) ==
    /\ Spend("urls")
    /\ url \/ transport.url
    /\ HasRoom
    /\ Becomes(openSocket(teardownCurrentSocket(clearReconnect([World EXCEPT !.t.url = url]))))
    /\ UNCHANGED sessions

setProtocolLocked ==
    /\ Spend("locks")
    /\ HasRoom
    /\ LET w == [World EXCEPT !.t.locked = ~@]
       IN  Becomes(IF transport.locked THEN openSocket(w) ELSE teardownCurrentSocket(clearReconnect(w)))
    /\ UNCHANGED sessions

close ==
    /\ Spend("closes")
    /\ ~transport.closed
    /\ Becomes([teardownCurrentSocket(clearReconnect([World EXCEPT !.t.closed = TRUE]))
                  EXCEPT !.t.handles = 0])
    /\ UNCHANGED sessions

(* The vault is unlocked: a cached password is loaded, and the flow may    *)
(* replay it once more on this socket.                                     *)
resetCachedReplayGuard ==
    /\ Spend("unlocks")
    /\ transport' = [transport EXCEPT !.cache = "right", !.tried = FALSE]
    /\ UNCHANGED <<consumer, streams, sessions>>

(* A consumer signs a frame with the current nonce: workspace-subscribe,   *)
(* or a first save or objstore-put-begin, which the relay may gate.        *)
ConsumerSends ==
    /\ consumer.due /\ IsOpen(transport)
    /\ Becomes(SendFrame([World EXCEPT !.c.due = FALSE], Signed(transport.nonce)))
    /\ UNCHANGED <<left, sessions>>

(* Another workspace opens.                                                *)
ConsumerWants ==
    /\ Spend("chatter")
    /\ consumer.up # None /\ ~consumer.due
    /\ consumer' = [consumer EXCEPT !.due = TRUE, !.answered = FALSE]
    /\ UNCHANGED <<transport, streams, sessions>>

DialogAnswered(password) ==
    /\ transport.flow # None /\ transport.flow.at = "dialog"
    /\ CASE password = "right" -> UNCHANGED left
         [] password = "wrong" -> Spend("typos")
         [] password = None -> Spend("cancels")
    /\ Becomes(CASE transport.flow.stale -> EndFlow(World)
                 [] ~transport.flow.stale /\ password = None -> EndFlow([World EXCEPT !.c.declined = TRUE])
                 [] ~transport.flow.stale /\ password # None ->
                      IF IsOpen(transport) THEN attemptAuthenticate(World, "typed", password)
                      ELSE EndFlow(World))
    /\ UNCHANGED sessions

(* setCachedSyncPassword is written: the flow asks the user, or is done.   *)
PasswordStored ==
    /\ transport.flow # None /\ transport.flow.at \in {"wipe", "keep"}
    /\ Becomes(IF transport.flow.at = "wipe" THEN AskUser(World) ELSE EndFlow(World))
    /\ UNCHANGED <<left, sessions>>

ReconnectTimer ==
    /\ transport.reconnecting /\ HasRoom
    /\ Becomes(openSocket(clearReconnect(World)))
    /\ UNCHANGED <<left, sessions>>

-----------------------------------------------------------------------------
(* Frames from the relay.                                                  *)

handleMessage(w, e) ==
    CASE e.type = "challenge" ->
           notifyConnected([(IF w.t.nonce # None /\ w.t.nonce # e.sid THEN notifyDisconnected(w) ELSE w)
                              EXCEPT !.t.nonce = e.sid], e.sid)
      [] e.type = "authenticated" -> [Hear(settleAuthResponse(w, TRUE), e) EXCEPT !.c.due = TRUE]
      [] e.type = "auth-failed" ->
           Hear(settleAuthResponse([w EXCEPT !.c.misled = @ \/ (Awaiting(w.t) /\ w.t.flow.password = "right")], FALSE), e)
      [] e.type = "gated" -> runAuthFlow(Hear(w, e))
      [] e.type \in {"answer", "data"} -> Hear(w, e)

Taken(w, m) == [w EXCEPT !.n[m].down = Tail(@)]

(* WebSocket: the open event, then messages.                               *)
SocketOpens(m) ==
    /\ streams[m] # None /\ ~streams[m].sse /\ streams[m].mine /\ streams[m].at = "open" /\ ~streams[m].cut
    /\ transport.socket.state = "connecting"
    /\ transport' = [transport EXCEPT !.socket.state = "open"]
    /\ UNCHANGED <<left, consumer, streams, sessions>>

ReceiveMessage(m) ==
    /\ streams[m] # None /\ ~streams[m].sse /\ streams[m].mine /\ streams[m].down # <<>>
    /\ IsOpen(transport)
    /\ Becomes(handleMessage(Taken(World, m), Head(streams[m].down)))
    /\ UNCHANGED <<left, sessions>>

(* A ping goes unanswered on a dead connection.                            *)
HeartbeatTimesOut(m) ==
    /\ streams[m] # None /\ ~streams[m].sse /\ streams[m].mine /\ streams[m].cut
    /\ IsOpen(transport)
    /\ transport' = [transport EXCEPT !.socket.state = "closing"]
    /\ streams' = [streams EXCEPT ![m].closing = TRUE]
    /\ UNCHANGED <<left, consumer, sessions>>

(* A WebSocket's close event, whoever closed it.                           *)
CloseEvent(m) ==
    /\ streams[m] # None /\ ~streams[m].sse /\ ~streams[m].gone
    /\ streams[m].closing \/ streams[m].cut \/ (streams[m].over /\ streams[m].down = <<>>)
    /\ streams[m].mine => HasRoom
    /\ LET w == [World EXCEPT !.n = Swept([streams EXCEPT ![m].gone = TRUE])]
       IN  Becomes(IF streams[m].mine THEN SocketClosed([World EXCEPT !.n[m].gone = TRUE]) ELSE w)
    /\ UNCHANGED <<left, sessions>>

-----------------------------------------------------------------------------
(* The SSE adapter.                                                        *)

Issued(m) == streams[m] # None /\ streams[m].sse /\ streams[m].mine
InFlight(m) == Issued(m) /\ streams[m].seq = transport.socket.postSeq /\ streams[m].at \in {"asked", "served"}

(* The rest of flush: one POST with everything that is queued.             *)
Post(w) ==
    LET s == w.t.socket IN
    [w EXCEPT !.t.socket.postSeq = @ + 1, !.t.socket.outbound = <<>>,
              !.n[FreeStream(w)] = NewStream(TRUE, s.postSeq + 1,
                  [id |-> s.id, password |-> s.password, frames |-> s.outbound])]

(* Every flush that waited for one POST resumes when it is answered.       *)
Resume(w, flushes) == IF flushes = 0 THEN w ELSE IF flushes = 1 THEN Post(w) ELSE Post(Post(w))

flush ==
    /\ transport.socket # None /\ transport.socket.flushing
    /\ HasRoom
    /\ LET w == [World EXCEPT !.t.socket.flushing = FALSE] IN
       \/ ~(\E m \in Streams : InFlight(m)) /\ Becomes(Post(w))
       \/ \E m \in Streams : /\ InFlight(m) /\ streams[m].waiting < 2
                            /\ Becomes([w EXCEPT !.n[m].waiting = @ + 1])
    /\ UNCHANGED <<left, sessions>>

(* FLUSH_MAX_WAIT_MS: the oldest waiting flush goes ahead.                 *)
Awaited(m) == Issued(m) /\ streams[m].waiting > 0

FlushStopsWaiting ==
    /\ Spend("stalls")
    /\ HasRoom
    /\ \E m \in Streams :
          /\ Awaited(m) /\ (\A k \in Streams : Awaited(k) => streams[m].seq <= streams[k].seq)
          /\ Becomes(Post([World EXCEPT !.n[m].waiting = @ - 1]))
    /\ UNCHANGED sessions

PostAnswered(m) ==
    /\ Issued(m) /\ streams[m].at = "served" /\ ~streams[m].cut
    /\ HasRoom
    /\ Becomes(Resume([World EXCEPT !.n[m].at = "open", !.n[m].waiting = 0], streams[m].waiting))
    /\ UNCHANGED <<left, sessions>>

(* A POST that fails or is refused ends the transport, superseded or not.  *)
PostFails(m) ==
    /\ Issued(m)
    /\ streams[m].at = "refused" \/ (streams[m].cut /\ streams[m].at \in {"asked", "served"})
    /\ Becomes(SocketClosed(World))
    /\ UNCHANGED <<left, sessions>>

dispatchEvent_(w, e) ==
    CASE e.type = "session" -> [w EXCEPT !.t.socket.id = e.sid, !.t.socket.state = "open"]
      [] e.type = "close" -> SocketClosed(w)
      [] e.type \notin {"session", "close"} -> IF IsOpen(w.t) THEN handleMessage(w, e) ELSE w

(* Faulty variant: an older response is heard behind a newer one.          *)
UnorderedDispatch(w, e, seq) == dispatchEvent_(w, e)

(* Responses drain in any order, but not backwards.                        *)
dispatchOrderedEvent(w, e, seq) ==
    IF seq < w.t.socket.dispatched THEN SocketClosed(w)
    ELSE dispatchEvent_([w EXCEPT !.t.socket.dispatched = seq], e)

ReadEvent(m) ==
    /\ Issued(m) /\ streams[m].at = "open" /\ ~streams[m].cut /\ streams[m].down # <<>>
    /\ Becomes(dispatchOrderedEvent(Taken(World, m), Head(streams[m].down), streams[m].seq))
    /\ UNCHANGED <<left, sessions>>

(* The reader of a response another POST has taken over from just stops.   *)
StopReading(m) ==
    [World EXCEPT !.n = Swept([streams EXCEPT ![m].gone = TRUE, ![m].mine = FALSE, ![m].down = <<>>]),
                  !.t.socket.slipped = @ \/ streams[m].cut]

Ended(m) == streams[m].cut \/ (streams[m].over /\ streams[m].down = <<>>)

(* Faulty variant: the end of the live response is taken for a takeover.   *)
QuietResponseEnds(m) ==
    /\ Issued(m) /\ streams[m].at = "open" /\ Ended(m)
    /\ Becomes(StopReading(m))
    /\ UNCHANGED <<left, sessions>>

(* A response ends, breaks off, or stays silent for too long.              *)
ResponseEnds(m) ==
    /\ Issued(m) /\ streams[m].at = "open" /\ Ended(m)
    /\ Becomes(IF streams[m].seq = transport.socket.postSeq THEN SocketClosed(World) ELSE StopReading(m))
    /\ UNCHANGED <<left, sessions>>

-----------------------------------------------------------------------------
(* The relay.                                                              *)

Event(type, sid, n) == [type |-> type, sid |-> sid, n |-> n]

NonceOf(frames) == {frames[i].nonce : i \in DOMAIN frames}
Named ==
    {transport.nonce, consumer.up}
    \union (IF transport.socket = None THEN {} ELSE {transport.socket.id} \union NonceOf(transport.socket.outbound))
    \union UNION {{x.body.id} \union NonceOf(x.body.frames) \union NonceOf(x.up)
                  \union {x.down[i].sid : i \in DOMAIN x.down} : x \in {streams[m] : m \in Streams} \ {None}}
    \union UNION {NonceOf(x.work) : x \in {sessions[s] : s \in Sids} \ {None}}
FreeSids == {s \in Sids : sessions[s] = None /\ s \notin Named}

NewSession(r, m) == [replica |-> r, res |-> m, authed |-> FALSE, sent |-> 0, work |-> <<>>]

(* A reply or a broadcast goes to the response the session has by then.    *)
Sent(y, s, type) ==
    [y EXCEPT !.s[s].sent = @ + 1,
              !.n[y.s[s].res].down = Append(@, Event(type, s, y.s[s].sent + 1))]

(* Faulty variant: the answer does not wait for the comparison.            *)
RashAuthenticate(y, s, password) ==
    IF y.s[s].authed THEN y
    ELSE Sent([y EXCEPT !.s[s].authed = ~left.gated \/ password = "right"], s, "authenticated")

handleAuthenticate(y, s, password) ==
    IF y.s[s].authed THEN y
    ELSE IF left.gated /\ password = "wrong" THEN Sent(y, s, "auth-failed")
    ELSE Sent([y EXCEPT !.s[s].authed = TRUE], s, "authenticated")

(* authenticate is handled at once, other frames by handlers that await.   *)
Dispatch(y, s, frame) ==
    IF frame.password # None THEN handleAuthenticate(y, s, frame.password)
    ELSE [y EXCEPT !.s[s].work = Append(@, frame)]

Relay == [n |-> streams, s |-> sessions]
RelayBecomes(y) == streams' = y.n /\ sessions' = y.s

AcceptUpgrade(m) ==
    /\ streams[m] # None /\ ~streams[m].sse /\ streams[m].at = "asked" /\ ~streams[m].cut /\ ~streams[m].over
    /\ IF left.ws
         THEN /\ FreeSids # {}
              /\ LET s == CHOOSE x \in FreeSids : TRUE IN
                 RelayBecomes([Relay EXCEPT !.s[s] = NewSession(None, m), !.n[m].at = "open",
                                            !.n[m].down = <<Event("challenge", s, 0)>>])
         ELSE streams' = Swept([streams EXCEPT ![m].over = TRUE]) /\ UNCHANGED sessions
    /\ UNCHANGED <<left, transport, consumer>>

ReadFrame(m) ==
    /\ streams[m] # None /\ streams[m].up # <<>> /\ ~streams[m].cut
    /\ \E s \in Sids :
          /\ sessions[s] # None /\ sessions[s].res = m
          /\ RelayBecomes(Dispatch([Relay EXCEPT !.n[m].up = Tail(@)], s, Head(streams[m].up)))
    /\ UNCHANGED <<left, transport, consumer>>

(* attachResponse: the session writes to m from now on, its last response  *)
(* ends.                                                                   *)
attachResponse(y, s, m) ==
    LET n == [y.n EXCEPT ![m].at = "served", ![y.s[s].res].over = TRUE]
    IN  [y EXCEPT !.n = Swept(n), !.s[s].res = m]

createSession(y, s, r, m) ==
    [y EXCEPT !.s[s] = NewSession(r, m), !.n[m].at = "served",
              !.n[m].down = <<Event("session", s, 0), Event("challenge", s, 0)>>]

dispatchBody(y, s, body) ==
    LET y1 == IF body.password = None THEN y ELSE handleAuthenticate(y, s, body.password)
    IN  [y1 EXCEPT !.s[s].work = @ \o body.frames]

Known(body, r) == body.id # None /\ sessions[body.id] # None /\ sessions[body.id].replica = r
Held(r) == {s \in Sids : sessions[s] # None /\ sessions[s].replica = r}

(* The balancer sends a client's POSTs to one replica, but for its hops.   *)
Home(body) == IF body.id # None /\ sessions[body.id] # None THEN sessions[body.id].replica
              ELSE CHOOSE r \in Replicas : TRUE

handlePost(m, r) ==
    /\ streams[m] # None /\ streams[m].sse /\ streams[m].at = "asked" /\ ~streams[m].cut
    /\ LET body == streams[m].body
           passed == \E k \in Streams : Issued(k) /\ streams[k].seq > streams[m].seq /\ streams[k].at # "asked"
       IN
       /\ IF r = Home(body) THEN UNCHANGED left ELSE Spend("hops")
       /\ transport' = IF Issued(m) /\ passed THEN [transport EXCEPT !.socket.slipped = TRUE] ELSE transport
       /\ IF Known(body, r)
            THEN RelayBecomes(dispatchBody(attachResponse(Relay, body.id, m), body.id, body))
          ELSE IF Cardinality(Held(r)) < MaxSessions
            THEN /\ FreeSids # {}
                 /\ LET s == CHOOSE x \in FreeSids : TRUE IN
                    RelayBecomes(dispatchBody(createSession(Relay, s, r, m), s, body))
          ELSE streams' = Swept([streams EXCEPT ![m].at = "refused", ![m].over = TRUE]) /\ UNCHANGED sessions
    /\ UNCHANGED consumer

(* A handler answers: the nonce is wrong, the workspace is new and the     *)
(* session not authorized, or the frame is accepted.                       *)
HandlerEnds(s) ==
    /\ sessions[s] # None
    /\ \E i \in DOMAIN sessions[s].work :
          LET y == [Relay EXCEPT !.s[s].work = RemoveAt(@, i)] IN
          RelayBecomes(IF sessions[s].work[i].nonce # s THEN y
                       ELSE Sent(y, s, IF left.gated /\ ~sessions[s].authed THEN "gated" ELSE "answer"))
    /\ UNCHANGED <<left, transport, consumer>>

Broadcast(s) ==
    /\ Spend("data")
    /\ sessions[s] # None
    /\ RelayBecomes(Sent(Relay, s, "data"))
    /\ UNCHANGED <<transport, consumer>>

(* close(1001) says so on a response, and ends either kind.                *)
RelayCloses(s) ==
    /\ Spend("goodbyes")
    /\ sessions[s] # None
    /\ LET m == sessions[s].res
           last == IF streams[m].sse THEN <<Event("close", s, 0)>> ELSE <<>>
       IN  streams' = Swept([streams EXCEPT ![m].over = TRUE, ![m].down = @ \o last])
    /\ sessions' = [sessions EXCEPT ![s] = None]
    /\ UNCHANGED <<transport, consumer>>

(* The close event of a connection or response, and with it the session's; *)
(* a response that is no longer its session's is nobody's.                 *)
RelayNotices(m) ==
    /\ streams[m] # None /\ ~streams[m].over
    /\ streams[m].closing \/ streams[m].gone \/ streams[m].cut
    /\ streams' = Swept([streams EXCEPT ![m].over = TRUE])
    /\ sessions' = [s \in Sids |-> IF sessions[s] # None /\ sessions[s].res = m THEN None ELSE sessions[s]]
    /\ UNCHANGED <<left, transport, consumer>>

(* The network loses a connection; each end notices in its own time.       *)
Cut(m) ==
    /\ Spend("cuts")
    /\ streams[m] # None /\ ~streams[m].cut /\ ~streams[m].gone
    /\ streams' = [streams EXCEPT ![m].cut = TRUE]
    /\ UNCHANGED <<transport, consumer, sessions>>

-----------------------------------------------------------------------------

Init ==
    /\ left \in Scenarios
    /\ transport = [handles |-> 0, url |-> TRUE, locked |-> FALSE, closed |-> FALSE, socket |-> None,
                    nonce |-> None, reconnecting |-> FALSE, flow |-> None, tried |-> FALSE,
                    cache |-> left.cache]
    /\ consumer = [up |-> None, heard |-> 0, missed |-> FALSE, due |-> FALSE, answered |-> FALSE,
                   declined |-> FALSE, coalesced |-> FALSE, misled |-> FALSE]
    /\ streams = [m \in Streams |-> None]
    /\ sessions = [s \in Sids |-> None]

ClientStep ==
    \/ ConsumerSends \/ DialogAnswered("right") \/ PasswordStored \/ ReconnectTimer \/ flush
    \/ \E m \in Streams :
          \/ SocketOpens(m) \/ ReceiveMessage(m) \/ HeartbeatTimesOut(m) \/ CloseEvent(m)
          \/ PostAnswered(m) \/ PostFails(m) \/ ReadEvent(m) \/ ResponseEnds(m)

RelayStep ==
    \/ \E m \in Streams : AcceptUpgrade(m) \/ ReadFrame(m) \/ (\E r \in Replicas : handlePost(m, r))
    \/ \E s \in Sids : HandlerEnds(s)

Next ==
    \/ ClientStep \/ RelayStep
    \/ acquire \/ release \/ (\E url \in BOOLEAN : setServerUrl(url)) \/ setProtocolLocked \/ close
    \/ resetCachedReplayGuard \/ ConsumerWants \/ FlushStopsWaiting
    \/ DialogAnswered("wrong") \/ DialogAnswered(None)
    \/ \E s \in Sids : Broadcast(s) \/ RelayCloses(s)
    \/ \E m \in Streams : RelayNotices(m) \/ Cut(m)

Spec == Init /\ [][Next]_vars

(* The event loops go on, the user answers the dialog in the end, and each *)
(* end learns of a connection's end (heartbeat, watchdog, TCP keepalive).  *)
Fairness ==
    /\ WF_vars(ClientStep \/ RelayStep)
    /\ \A m \in Streams : WF_vars(RelayNotices(m))

FairSpec == Spec /\ Fairness

-----------------------------------------------------------------------------
(* Properties.                                                             *)

(* Types of the state: in particular the transport has a nonce only while  *)
(* it has a socket, its consumers are connected under that nonce and under *)
(* no other, and every session has a stream to write to.                   *)
TypeOK ==
    /\ DOMAIN left = Counts \union {"ws", "gated", "cache"} /\ \A k \in Counts : left[k] \in Nat
    /\ left.ws \in BOOLEAN /\ left.gated \in BOOLEAN /\ left.cache \in Words
    /\ transport \in [handles : Nat, url : BOOLEAN, locked : BOOLEAN, closed : BOOLEAN,
                      socket : Sockets \union {None}, nonce : Nonces, reconnecting : BOOLEAN,
                      flow : Flows \union {None}, tried : BOOLEAN, cache : Words]
    /\ consumer \in [up : Nonces, heard : Nat, missed : BOOLEAN, due : BOOLEAN, answered : BOOLEAN,
                     declined : BOOLEAN, coalesced : BOOLEAN, misled : BOOLEAN]
    /\ streams \in [Streams -> Connections \union {None}]
    /\ sessions \in [Sids -> Sessions \union {None}]
    /\ transport.nonce = consumer.up
    /\ transport.nonce # None => transport.socket # None
    /\ transport.socket = None \/
         /\ transport.socket.dispatched <= transport.socket.postSeq
         /\ ~transport.reconnecting
    /\ \A s \in Sids : sessions[s] # None => streams[sessions[s].res] # None

(* The order of the frames is off: POSTs have passed one another on their  *)
(* way to the relay, or the rest of a superseded response broke off.       *)
Slipped == transport.socket # None /\ transport.socket.slipped

(* When the flow takes a password for accepted, and is about to cache it   *)
(* and to tell its caller to send, the password is the operator's and the  *)
(* session the consumers are connected under is authorized, or is gone: no *)
(* answer to an earlier socket, session or attempt settles this one        *)
(* (attemptAuthenticate, settleAuthResponse and the socket checks of       *)
(* runAuthFlow).  Over SSE the answer may come from a session of another   *)
(* replica: then no POST with the password has reached this one yet, and   *)
(* the next will bring it.  Exempt is an attempt behind one that was       *)
(* settled by an older answer although its password is right (see Settles).*)
AwaitsPassword(s) ==
    /\ transport.socket.sse /\ transport.socket.password = transport.flow.password
    /\ streams[sessions[s].res].body.password # transport.flow.password

AcceptedIsAuthorized ==
    transport.flow # None /\ transport.flow.at = "keep" /\ ~transport.flow.stale /\ ~consumer.misled
      => /\ left.gated => transport.flow.password = "right"
         /\ consumer.up # None /\ sessions[consumer.up] # None =>
               sessions[consumer.up].authed \/ AwaitsPassword(consumer.up)

(* While they stay connected the consumers hear the events of a session    *)
(* forwards, although it writes them to one response after another and the *)
(* client reads those side by side (postSeq, lastDispatchedSeq).           *)
OneStream ==
    [][ consumer'.up # None /\ consumer'.up = consumer.up /\ consumer'.heard # consumer.heard
          => Slipped \/ consumer'.heard > consumer.heard ]_vars

(* Connected as wanted: the consumers are connected, have missed nothing   *)
(* of what their session sent, and have had an answer to what they signed  *)
(* for it, unless the user gave up the dialog or it was left to a flow of  *)
(* an earlier socket.                                                      *)
Connected ==
    /\ consumer.up # None
    /\ Slipped \/ ~consumer.missed
    /\ consumer.answered \/ consumer.declined \/ consumer.coalesced

(* Nothing is left at either end.                                          *)
Disconnected ==
    /\ consumer.up = None
    /\ \A m \in Streams : streams[m] = None
    /\ \A s \in Sids : sessions[s] = None

(* Whatever dropped, hopped, was refused or was cancelled on the way, the  *)
(* client ends up connected if it has reason to be, and otherwise with no  *)
(* connection, and the relay with no session, left behind; no event is     *)
(* lost without a reconnect, and the auth flow ends.  It does not end when *)
(* the answer to a wrong password, which every POST repeats, has settled   *)
(* the attempt with the right one: the relay answers that only once.       *)
Settles ==
    <>[]( /\ consumer.misled \/ transport.flow = None
          /\ IF MayOpen(transport) THEN Connected ELSE Disconnected )

=============================================================================
