------------------------------ MODULE NotifyBus ------------------------------
(***************************************************************************)
(* The cross-instance bus of one relay process: the LISTEN connection of   *)
(* server-e2e/pubsub.ts on Postgres, with its connect loop, its            *)
(* reconnects, its handlers and its stop.  (On SQLite the bus is a no-op.) *)
(*                                                                         *)
(* A session is one Client object of the driver; they are numbered as they *)
(* are made.  Every await is a step boundary.  end() called twice on one   *)
(* session settles both callers at once, and a session that has ended      *)
(* rejects what was still awaited from it.                                 *)
(***************************************************************************)
EXTENDS Naturals

CONSTANTS
    None,         \* no session
    MaxFailures,  \* bound on the connections that fail, break or hang
    Notes         \* notifications of other instances

ASSUME BusAssumption == MaxFailures \in Nat /\ None \notin Nat

VARIABLES
    made,           \* sessions made so far
    client,         \* state.client
    link,           \* the connection of each session
    ending,         \* sessions whose end() has been called and has not settled
    at,             \* where the connectAndListen loop of each session stands
    connectAttempt, \* state.connectAttempt is set
    relinking,      \* sessions whose end() a reconnect() awaits
    stop,           \* where stop() stands; state.stopped and no handler once begun
    quitting,       \* the session whose end() it awaits, if any
    mail,           \* each notification on its way through each session
    failures        \* failures so far

connection == <<made, client, link, ending>>
loop == <<at, connectAttempt, relinking>>
stopping == <<stop, quitting>>
busVars == <<connection, loop, stopping, mail, failures>>

Sessions == 1 .. MaxFailures + 2

stopped == stop # "no"

-----------------------------------------------------------------------------
(* tryConnect up to its first await: a new session, at once the client.    *)
tryConnect(links, places) ==
    LET c == made + 1 IN
    /\ c \in Sessions
    /\ made' = c
    /\ client' = c
    /\ link' = [links EXCEPT ![c] = "connecting"]
    /\ at' = [places EXCEPT ![c] = "connect"]

(* start().                                                                *)
BusInit ==
    /\ made = 1
    /\ client = 1
    /\ link = [c \in Sessions |-> IF c = 1 THEN "connecting" ELSE "new"]
    /\ ending = {}
    /\ at = [c \in Sessions |-> IF c = 1 THEN "connect" ELSE "idle"]
    /\ connectAttempt = TRUE
    /\ relinking = {}
    /\ stop = "no"
    /\ quitting = {}
    /\ mail = [m \in Sessions \X Notes |-> "none"]
    /\ failures = 0

Fail == failures < MaxFailures /\ failures' = failures + 1

(* connect() answered: the listeners are attached and LISTEN is sent.      *)
Connected(c) ==
    /\ at[c] = "connect" /\ link[c] = "connecting"
    /\ link' = [link EXCEPT ![c] = "connected"]
    /\ at' = [at EXCEPT ![c] = "listen"]
    /\ UNCHANGED <<made, client, ending, connectAttempt, relinking, stopping, mail, failures>>

(* LISTEN answered: the loop returns.                                      *)
Listening(c) ==
    /\ at[c] = "listen" /\ link[c] = "connected"
    /\ link' = [link EXCEPT ![c] = "listening"]
    /\ at' = [at EXCEPT ![c] = "idle"]
    /\ connectAttempt' = FALSE
    /\ UNCHANGED <<made, client, ending, relinking, stopping, mail, failures>>

(* The network swallows the handshake: nothing settles but by end().       *)
Hang(c) ==
    /\ at[c] \in {"connect", "listen"} /\ link[c] \in {"connecting", "connected"}
    /\ link' = [link EXCEPT ![c] = "hung"]
    /\ Fail
    /\ UNCHANGED <<made, client, ending, loop, stopping, mail>>

(* connect() or LISTEN rejects, by itself or because the session broke or  *)
(* was ended: the catch clause ends the session.                           *)
AttemptFails(c) ==
    /\ at[c] \in {"connect", "listen"}
    /\ \/ link[c] \in {"lost", "ended"} /\ UNCHANGED failures
       \/ link[c] \in {"connecting", "connected"} /\ Fail
    /\ client' = IF client = c THEN None ELSE client
    /\ ending' = ending \union {c}
    /\ at' = [at EXCEPT ![c] = "end"]
    /\ UNCHANGED <<made, link, connectAttempt, relinking, stopping, mail>>

(* The backoff is over, or stop() cancelled it: once more, or return.      *)
Wake(c) ==
    /\ at[c] = "sleep"
    /\ IF stopped
         THEN at' = [at EXCEPT ![c] = "idle"] /\ connectAttempt' = FALSE /\ UNCHANGED <<made, client, link>>
         ELSE tryConnect(link, [at EXCEPT ![c] = "idle"]) /\ UNCHANGED connectAttempt
    /\ UNCHANGED <<ending, relinking, stopping, mail, failures>>

(* The driver reports a transport error on a session: reconnect() replaces *)
(* it, unless it is no longer the client.                                  *)
ErrorEvent(c) ==
    /\ link[c] \in {"connected", "listening"} /\ c \notin ending
    /\ Fail
    /\ link' = [link EXCEPT ![c] = "lost"]
    /\ IF client = c /\ ~stopped
         THEN client' = None /\ ending' = ending \union {c} /\ relinking' = relinking \union {c}
         ELSE UNCHANGED <<client, ending, relinking>>
    /\ UNCHANGED <<made, at, connectAttempt, stopping, mail>>

(* Faulty variant of what follows: the running loop is not looked at.      *)
RashRelink(running, links, places) ==
    IF stopped
      THEN link' = links /\ at' = places /\ connectAttempt' = running /\ UNCHANGED <<made, client>>
      ELSE tryConnect(links, places) /\ connectAttempt' = TRUE

(* reconnect() after its await, with the loop left at these places: a      *)
(* running loop will connect, otherwise a new one does, unless stopped.    *)
Relink(running, links, places) ==
    IF running \/ stopped
      THEN link' = links /\ at' = places /\ connectAttempt' = running /\ UNCHANGED <<made, client>>
      ELSE tryConnect(links, places) /\ connectAttempt' = TRUE

(* end() settles, and whoever awaits it goes on: the catch clause sleeps   *)
(* or returns, a reconnect connects, stop() turns to the loop.  What the   *)
(* session had not delivered is lost.                                      *)
EndSettles(c) ==
    LET links == [link EXCEPT ![c] = "ended"]
        returns == at[c] = "end" /\ stopped
        places == CASE returns -> [at EXCEPT ![c] = "idle"]
                    [] at[c] = "end" /\ ~stopped -> [at EXCEPT ![c] = "sleep"]
                    [] OTHER -> at
        running == connectAttempt /\ ~returns
    IN
    /\ c \in ending
    /\ ending' = ending \ {c}
    /\ relinking' = relinking \ {c}
    /\ IF c \in relinking
         THEN Relink(running, links, places)
         ELSE link' = links /\ at' = places /\ connectAttempt' = running /\ UNCHANGED <<made, client>>
    /\ quitting' = quitting \ {c}
    /\ mail' = [m \in DOMAIN mail |-> IF m[1] = c /\ mail[m] = "sent" THEN "dropped" ELSE mail[m]]
    /\ UNCHANGED <<stop, failures>>

-----------------------------------------------------------------------------
(* Another instance publishes: the sessions that listen will hear of it.   *)
Publish(n) ==
    /\ \A c \in Sessions : mail[<<c, n>>] = "none"
    /\ \E c \in Sessions : link[c] = "listening"
    /\ mail' = [m \in DOMAIN mail |-> IF m[2] = n /\ link[m[1]] = "listening" THEN "sent" ELSE mail[m]]
    /\ UNCHANGED <<connection, loop, stopping, failures>>

(* dispatchNotification: start the handler, if there still is one; it      *)
(* reads the database and broadcasts.                                      *)
Dispatch(m) ==
    /\ mail[m] = "sent" /\ link[m[1]] = "listening"
    /\ mail' = [mail EXCEPT ![m] = IF stopped THEN "dropped" ELSE "handled"]
    /\ UNCHANGED <<connection, loop, stopping, failures>>

HandlerEnds(m) ==
    /\ mail[m] = "handled"
    /\ mail' = [mail EXCEPT ![m] = "done"]
    /\ UNCHANGED <<connection, loop, stopping, failures>>

-----------------------------------------------------------------------------
(* stop() up to its first await: no handler, no sleep, no client.          *)
StopBegins ==
    /\ stop = "no"
    /\ stop' = "attempt"
    /\ quitting' = {client} \ {None}
    /\ ending' = ending \union quitting'
    /\ client' = None
    /\ UNCHANGED <<made, link, loop, mail, failures>>

(* Its client has ended, and the connect attempt has unwound.              *)
AttemptAwaited ==
    /\ stop = "attempt" /\ quitting = {} /\ ~connectAttempt
    /\ stop' = "handlers"
    /\ UNCHANGED <<connection, loop, quitting, mail, failures>>

(* The handlers under way have settled.                                    *)
StopReturns ==
    /\ stop = "handlers"
    /\ \A m \in DOMAIN mail : mail[m] # "handled"
    /\ stop' = "done"
    /\ UNCHANGED <<connection, loop, quitting, mail, failures>>

(* What goes on of itself.                                                 *)
BusProgress ==
    \/ \E c \in Sessions : \/ Connected(c) \/ Listening(c) \/ Wake(c) \/ EndSettles(c)
                           \/ link[c] \in {"lost", "ended"} /\ AttemptFails(c)
    \/ \E m \in DOMAIN mail : HandlerEnds(m)
    \/ AttemptAwaited \/ StopReturns

BusStep ==
    \/ \E c \in Sessions : \/ Connected(c) \/ Listening(c) \/ Hang(c) \/ AttemptFails(c)
                           \/ Wake(c) \/ ErrorEvent(c) \/ EndSettles(c)
    \/ \E n \in Notes : Publish(n)
    \/ \E m \in DOMAIN mail : Dispatch(m) \/ HandlerEnds(m)
    \/ AttemptAwaited \/ StopReturns

-----------------------------------------------------------------------------
BusTypeOK ==
    /\ made \in Sessions
    /\ client \in Sessions \union {None}
    /\ link \in [Sessions -> {"new", "connecting", "hung", "connected", "listening", "lost", "ended"}]
    /\ ending \subseteq Sessions /\ relinking \subseteq ending
    /\ at \in [Sessions -> {"idle", "connect", "listen", "end", "sleep"}]
    /\ connectAttempt \in BOOLEAN
    /\ stop \in {"no", "attempt", "handlers", "done"} /\ quitting \subseteq ending
    /\ mail \in [Sessions \X Notes -> {"none", "sent", "handled", "done", "dropped"}]
    /\ failures \in 0 .. MaxFailures

(* A connection that is open or opening is the client, or on its way to    *)
(* its end: no reconnect leaves a LISTEN session behind that stop() would  *)
(* not find, and no two of them hear the same notification.                *)
NoStraySession ==
    \A c \in Sessions :
        link[c] \in {"connecting", "hung", "connected", "listening"} => c = client \/ c \in ending

(* Until it is stopped, the bus is up or getting there: a reconnect that   *)
(* finds a loop running can rely on it.                                    *)
BusIsAlive ==
    \/ stopped \/ relinking # {} \/ \E c \in Sessions : at[c] # "idle"
    \/ client # None /\ link[client] = "listening"

=============================================================================
