----------------------------- MODULE RelayProcess -----------------------------
(***************************************************************************)
(* One process of the relay from its first connection to the close of its  *)
(* database: peers over WebSocket and SSE, the handlers they start         *)
(* (ws-server.ts, sse-server.ts), REST requests (http.ts), the reaper's    *)
(* sweeps (objstore/init.ts), the bus (NotifyBus), and graceful disposal   *)
(* (lifecycle.ts, closeDb of app.ts).                                      *)
(*                                                                         *)
(* What a handler does is the matter of RevisionCommit, SubscribeHub and   *)
(* ObjStore; here it is a job that uses the database while it runs.  All   *)
(* the jobs are tracked from the step that starts them.                    *)
(***************************************************************************)
EXTENDS NotifyBus, FiniteSets

CONSTANTS
    Sockets,      \* WebSocket connections
    Streams,      \* SSE sessions
    Jobs,         \* handlers, of frames and of REST requests
    Rest,         \* "who" asks for a REST request
    MaxInflight   \* frames of one peer handled at a time

Peers == Sockets \union Streams

ASSUME ProcessAssumption ==
    IsFiniteSet(Jobs) /\ MaxInflight \in Nat /\ Rest \notin Peers /\ None \notin Peers \union {Rest}

VARIABLES
    listening,    \* the process has its own listener, or is embedded in a host's
    phase,        \* "serving", then where dispose() stands
    timer,        \* the terminate timer of drain()
    peer,         \* readyState of each peer
    by,           \* who started each job
    running,      \* jobs running: the set inFlight
    awaited,      \* the snapshot of it that drain() awaits
    sweep         \* a sweep is running

transport == <<listening, peer>>
work == <<by, running, sweep>>
disposal == <<phase, timer, awaited>>
relayVars == <<transport, work, disposal>>
vars == <<relayVars, busVars>>

Init ==
    /\ BusInit
    /\ listening \in BOOLEAN
    /\ phase = "serving"
    /\ timer = "off"
    /\ peer = [p \in Peers |-> "none"]
    /\ by = [j \in Jobs |-> None]
    /\ running = {}
    /\ awaited = {}
    /\ sweep = FALSE

isShuttingDown == phase # "serving"

-----------------------------------------------------------------------------
(* A WebSocket is accepted until the listener or the socket server closes: *)
(* the upgrade handler does not ask whether the process is shutting down.  *)
(* A stream is not.                                                        *)
Connect(p) ==
    /\ peer[p] = "none"
    /\ phase \in IF p \in Sockets THEN {"serving", "reaper"} ELSE {"serving"}
    /\ peer' = [peer EXCEPT ![p] = "open"]
    /\ UNCHANGED <<listening, work, disposal, busVars>>

Inflight(p) == Cardinality({j \in running : by[j] = p})

Start(j, who) ==
    /\ by[j] = None
    /\ by' = [by EXCEPT ![j] = who]
    /\ running' = running \union {j}
    /\ UNCHANGED <<transport, sweep, disposal, busVars>>

(* Faulty variant of what follows: the cap is off by one.                  *)
EagerReceive(p, j) ==
    /\ ~isShuttingDown
    /\ peer[p] \in {"open", "closing"}
    /\ Inflight(p) <= MaxInflight
    /\ Start(j, p)

(* A frame; at the cap it is dropped (a save is answered busy).            *)
Receive(p, j) ==
    /\ ~isShuttingDown
    /\ peer[p] \in {"open", "closing"}
    /\ Inflight(p) < MaxInflight
    /\ Start(j, p)

(* A save over REST, an upload, a download, a mint, an npm query.          *)
Request(j) == ~isShuttingDown /\ Start(j, Rest)

JobEnds(j) ==
    /\ j \in running
    /\ running' = running \ {j}
    /\ UNCHANGED <<transport, by, sweep, disposal, busVars>>

(* The hub closes a subscriber that does not keep up: a socket then waits  *)
(* for its peer's close frame, a stream is simply ended.  One accepted     *)
(* during the shutdown cannot subscribe.                                   *)
HubCloses(p) ==
    /\ ~isShuttingDown
    /\ peer[p] = "open"
    /\ peer' = [peer EXCEPT ![p] = IF p \in Sockets THEN "closing" ELSE "closed"]
    /\ UNCHANGED <<listening, work, disposal, busVars>>

(* A peer leaves or answers the close frame, or the heartbeat ends it.     *)
PeerLeaves(p) ==
    /\ peer[p] \in {"open", "closing"}
    /\ peer' = [peer EXCEPT ![p] = "closed"]
    /\ UNCHANGED <<listening, work, disposal, busVars>>

(* The periodic sweep, or one asked for at /api/reap; one at a time.       *)
SweepStarts ==
    /\ ~isShuttingDown /\ ~sweep
    /\ sweep' = TRUE
    /\ UNCHANGED <<transport, by, running, disposal, busVars>>

SweepEnds ==
    /\ sweep
    /\ sweep' = FALSE
    /\ UNCHANGED <<transport, by, running, disposal, busVars>>

-----------------------------------------------------------------------------
(* dispose() and the start of drain(): no timers, all peers told to close. *)
Dispose ==
    /\ phase = "serving"
    /\ phase' = "reaper"
    /\ timer' = "armed"
    /\ peer' = [p \in Peers |-> IF peer[p] # "open" THEN peer[p]
                               ELSE IF p \in Sockets THEN "closing" ELSE "closed"]
    /\ UNCHANGED <<listening, work, awaited, busVars>>

(* Faulty variant of what follows: closing peers are left alone.           *)
TimidGraceFires ==
    /\ timer = "armed"
    /\ timer' = "fired"
    /\ peer' = [p \in Peers |-> IF peer[p] = "open" THEN "closed" ELSE peer[p]]
    /\ UNCHANGED <<listening, work, phase, awaited, busVars>>

(* A second of grace is over: the peers that are there are terminated, and *)
(* the connections of requests cut (their handlers run on).                *)
GraceFires ==
    /\ timer = "armed"
    /\ timer' = "fired"
    /\ peer' = [p \in Peers |-> IF peer[p] = "none" THEN "none" ELSE "closed"]
    /\ UNCHANGED <<listening, work, phase, awaited, busVars>>

(* stopReaper() has awaited the sweep.                                     *)
ReaperStopped ==
    /\ phase = "reaper" /\ ~sweep
    /\ phase' = IF listening THEN "http" ELSE "wss"
    /\ UNCHANGED <<transport, work, timer, awaited, busVars>>

NoSocket == \A p \in Sockets : peer[p] \in {"none", "closed"}

(* httpServer.close(): every connection has ended, of requests too.        *)
HttpClosed ==
    /\ phase = "http" /\ NoSocket
    /\ timer = "fired" \/ (\A j \in running : by[j] # Rest)
    /\ phase' = "wss"
    /\ UNCHANGED <<transport, work, timer, awaited, busVars>>

(* wss.close(), and the snapshot of the requests in flight.                *)
WssClosed ==
    /\ phase = "wss" /\ NoSocket
    /\ phase' = "requests"
    /\ awaited' = running
    /\ UNCHANGED <<transport, work, timer, busVars>>

(* The requests have settled; closeDb() stops the bus.                     *)
RequestsDrained ==
    /\ phase = "requests" /\ awaited \intersect running = {}
    /\ phase' = "stopping"
    /\ timer' = "off"
    /\ StopBegins
    /\ UNCHANGED <<transport, work, awaited>>

(* The bus has stopped; closeDb() closes the database.                     *)
DatabaseClosed ==
    /\ phase = "stopping" /\ stop = "done"
    /\ phase' = "closed"
    /\ UNCHANGED <<transport, work, timer, awaited, busVars>>

(* The steps of drain().                                                   *)
DisposalGoesOn == ReaperStopped \/ HttpClosed \/ WssClosed \/ RequestsDrained \/ DatabaseClosed

Next ==
    \/ BusStep /\ UNCHANGED relayVars
    \/ \E p \in Peers : \/ Connect(p) \/ HubCloses(p) \/ PeerLeaves(p)
                       \/ \E j \in Jobs : Receive(p, j)
    \/ \E j \in Jobs : Request(j) \/ JobEnds(j)
    \/ SweepStarts \/ SweepEnds
    \/ Dispose \/ GraceFires \/ DisposalGoesOn

Spec == Init /\ [][Next]_vars

(* Whatever the process awaits settles, except a handshake the network has *)
(* swallowed.  A peer need not answer a close frame; but a client that was *)
(* accepted during the shutdown gets no pong for its pings and closes.     *)
Fairness ==
    /\ WF_vars(BusProgress /\ UNCHANGED relayVars)
    /\ WF_vars(\E j \in Jobs : JobEnds(j))
    /\ WF_vars(SweepEnds)
    /\ WF_vars(GraceFires)
    /\ WF_vars(DisposalGoesOn)
    /\ \A p \in Sockets : WF_vars(isShuttingDown /\ peer[p] = "open" /\ PeerLeaves(p))

FairSpec == Spec /\ Fairness

-----------------------------------------------------------------------------
(* Every variable has the shape the code gives it; no peer has more frames *)
(* handled at a time than the cap allows.                                  *)
TypeOK ==
    /\ BusTypeOK
    /\ listening \in BOOLEAN
    /\ phase \in {"serving", "reaper", "http", "wss", "requests", "stopping", "closed"}
    /\ timer \in {"off", "armed", "fired"}
    /\ peer \in [Peers -> {"none", "open", "closing", "closed"}]
    /\ by \in [Jobs -> Peers \union {Rest, None}]
    /\ running \subseteq {j \in Jobs : by[j] # None} /\ awaited \subseteq Jobs
    /\ sweep \in BOOLEAN
    /\ \A p \in Peers : Inflight(p) <= MaxInflight

(* The database outlives everything that uses it: when it is closed, no    *)
(* request runs, no sweep, no handler of the bus and no connect loop, and  *)
(* none can start.                                                         *)
NothingOutlivesTheDatabase ==
    phase = "closed" =>
        /\ running = {} /\ ~sweep /\ NoSocket
        /\ \A m \in DOMAIN mail : mail[m] # "handled"
        /\ \A c \in Sessions : at[c] = "idle"

(* Nothing the process starts is lost sight of.                            *)
NothingStray == NoStraySession /\ BusIsAlive /\ NothingOutlivesTheDatabase

(* A disposal ends, whatever hangs at the other end of a connection.       *)
DisposalEnds == isShuttingDown ~> phase = "closed"

(* The LISTEN connection comes back: the bus ends up listening, unless the *)
(* network swallows a handshake or the process stops.                      *)
BusRecovers == <>[](stopped \/ (client # None /\ link[client] \in {"listening", "hung"}))

(* The process neither hangs in its shutdown nor stays deaf before it.     *)
ProcessSettles == DisposalEnds /\ BusRecovers

=============================================================================
