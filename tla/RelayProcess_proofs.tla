------------------------- MODULE RelayProcess_proofs -------------------------
(***************************************************************************)
(* However its connections fail, a relay process loses no LISTEN session,  *)
(* never stops reconnecting, and closes its database last: for any number  *)
(* of peers, requests, failures and notifications.                         *)
(***************************************************************************)
EXTENDS RelayProcess, FiniteSetTheorems, TLAPS

Looping(c) == at[c] # "idle"

(* What has a loop, is the client or is ending has been made: the next     *)
(* session is fresh.                                                       *)
UsedIsMade == \A c \in Sessions : Looping(c) \/ c = client \/ c \in ending => c <= made

(* connectAttempt stands for the one loop there is.                        *)
OneLoop ==
    /\ connectAttempt <=> \E c \in Sessions : Looping(c)
    /\ \A c, d \in Sessions : Looping(c) /\ Looping(d) => c = d

(* The session a loop works on is the client, until it fails or is ended.  *)
LoopHoldsClient ==
    \A c \in Sessions :
        /\ Looping(c) => client \in {c, None}
        /\ at[c] \in {"end", "sleep"} => client = None
        /\ at[c] \in {"connect", "listen"} =>
               client = c \/ stopped \/ c \in relinking \/ link[c] \in {"lost", "ended"}

(* One reconnect at a time; while it awaits the end of the old session     *)
(* there is no client, and a loop can only be failing on that session.     *)
OneReconnect ==
    /\ \A c, d \in relinking : c = d
    /\ relinking # {} => client = None
    /\ \A c \in relinking, d \in Sessions : Looping(d) => c = d /\ at[d] # "sleep"

(* A client is up or being connected, and is never ending.                 *)
ClientIsUp ==
    /\ client \notin ending
    /\ client # None => link[client] = "listening" \/ Looping(client)
    /\ client = None => stopped \/ relinking # {} \/ \E c \in Sessions : Looping(c)

(* What stop() has done stays done.                                        *)
StopIsFinal ==
    /\ stopped => client = None
    /\ stop \in {"handlers", "done"} => ~connectAttempt
    /\ stop = "done" => \A m \in DOMAIN mail : mail[m] # "handled"

BusInv ==
    /\ BusTypeOK
    /\ NoStraySession
    /\ UsedIsMade
    /\ OneLoop
    /\ LoopHoldsClient
    /\ OneReconnect
    /\ ClientIsUp
    /\ StopIsFinal

-----------------------------------------------------------------------------
(* start() establishes the invariant of the bus.                           *)
LEMMA BusInvInit == BusInit => BusInv
<1> USE BusAssumption
<1> SUFFICES ASSUME BusInit PROVE BusInv  OBVIOUS
<1>1. 1 \in Sessions /\ None \notin Sessions  BY DEF Sessions
<1>2. BusTypeOK  BY <1>1 DEF BusInit, BusTypeOK
<1> QED BY <1>1, <1>2 DEF BusInit, BusInv, NoStraySession, UsedIsMade, OneLoop, LoopHoldsClient, OneReconnect, ClientIsUp, StopIsFinal, Looping, stopped, Sessions

(* Every step of the bus preserves its invariant: one lemma per action,    *)
(* one step per conjunct.                                                  *)
LEMMA ConnectedStep ==
    ASSUME BusInv, NEW c \in Sessions, Connected(c)
    PROVE  BusInv'
<1> USE BusAssumption DEF BusInv, Sessions, stopped, Looping, Connected, stopping
<1>0. None \notin Sessions  OBVIOUS
<1>1. BusTypeOK'  BY DEF BusTypeOK
<1> USE DEF BusTypeOK
<1>2. NoStraySession'  BY DEF NoStraySession
<1>3. UsedIsMade'  BY DEF UsedIsMade
<1>4. OneLoop'  BY DEF OneLoop
<1>5. LoopHoldsClient'  BY DEF LoopHoldsClient, OneLoop, OneReconnect
<1>6. OneReconnect'  BY DEF OneReconnect, LoopHoldsClient
<1>7. ClientIsUp'  BY <1>0 DEF ClientIsUp, LoopHoldsClient, OneReconnect, OneLoop
<1>8. StopIsFinal'  BY DEF StopIsFinal, OneLoop
<1> QED BY <1>1, <1>2, <1>3, <1>4, <1>5, <1>6, <1>7, <1>8

LEMMA ListeningStep ==
    ASSUME BusInv, NEW c \in Sessions, Listening(c)
    PROVE  BusInv'
<1> USE BusAssumption DEF BusInv, Sessions, stopped, Looping, Listening, stopping
<1>0. None \notin Sessions  OBVIOUS
<1>1. BusTypeOK'  BY DEF BusTypeOK
<1> USE DEF BusTypeOK
<1>2. NoStraySession'  BY DEF NoStraySession
<1>3. UsedIsMade'  BY DEF UsedIsMade
<1>4. OneLoop'  BY DEF OneLoop
<1>5. LoopHoldsClient'  BY DEF LoopHoldsClient, OneLoop, OneReconnect
<1>6. OneReconnect'  BY DEF OneReconnect, LoopHoldsClient
<1>7. ClientIsUp'  BY <1>0 DEF ClientIsUp, LoopHoldsClient, OneReconnect, OneLoop
<1>8. StopIsFinal'  BY DEF StopIsFinal, OneLoop
<1> QED BY <1>1, <1>2, <1>3, <1>4, <1>5, <1>6, <1>7, <1>8

LEMMA HangStep ==
    ASSUME BusInv, NEW c \in Sessions, Hang(c)
    PROVE  BusInv'
<1> USE BusAssumption DEF BusInv, Sessions, stopped, Looping, Hang, Fail, loop, stopping
<1>0. None \notin Sessions  OBVIOUS
<1>1. BusTypeOK'  BY DEF BusTypeOK
<1> USE DEF BusTypeOK
<1>2. NoStraySession'  BY DEF NoStraySession
<1>3. UsedIsMade'  BY DEF UsedIsMade
<1>4. OneLoop'  BY DEF OneLoop
<1>5. LoopHoldsClient'  BY DEF LoopHoldsClient, OneLoop, OneReconnect
<1>6. OneReconnect'  BY DEF OneReconnect, LoopHoldsClient
<1>7. ClientIsUp'  BY <1>0 DEF ClientIsUp, LoopHoldsClient, OneReconnect, OneLoop
<1>8. StopIsFinal'  BY DEF StopIsFinal, OneLoop
<1> QED BY <1>1, <1>2, <1>3, <1>4, <1>5, <1>6, <1>7, <1>8

LEMMA AttemptFailsStep ==
    ASSUME BusInv, NEW c \in Sessions, AttemptFails(c)
    PROVE  BusInv'
<1> USE BusAssumption DEF BusInv, Sessions, stopped, Looping, AttemptFails, Fail, stopping
<1>0. None \notin Sessions  OBVIOUS
<1>1. BusTypeOK'  BY DEF BusTypeOK
<1> USE DEF BusTypeOK
<1>2. NoStraySession'  BY DEF NoStraySession
<1>3. UsedIsMade'  BY DEF UsedIsMade
<1>4. OneLoop'  BY DEF OneLoop
<1>5. LoopHoldsClient'  BY DEF LoopHoldsClient, OneLoop, OneReconnect
<1>6. OneReconnect'  BY DEF OneReconnect, LoopHoldsClient
<1>7. ClientIsUp'
  <2>1. CASE client = c  BY <1>0, <2>1 DEF ClientIsUp
  <2>2. CASE client # c  BY <1>0, <2>2 DEF ClientIsUp
  <2> QED BY <2>1, <2>2
<1>8. StopIsFinal'  BY DEF StopIsFinal, OneLoop
<1> QED BY <1>1, <1>2, <1>3, <1>4, <1>5, <1>6, <1>7, <1>8

LEMMA WakeStep ==
    ASSUME BusInv, NEW c \in Sessions, Wake(c)
    PROVE  BusInv'
<1> USE BusAssumption DEF BusInv, Sessions, stopped, Looping, Wake, tryConnect, stopping
<1>0. None \notin Sessions  OBVIOUS
<1>1. BusTypeOK'  BY DEF BusTypeOK
<1> USE DEF BusTypeOK
<1>2. NoStraySession'  BY DEF NoStraySession, LoopHoldsClient, UsedIsMade
<1>3. UsedIsMade'  BY DEF UsedIsMade
<1>4. OneLoop'  BY DEF OneLoop
<1>5. LoopHoldsClient'  BY DEF LoopHoldsClient, OneLoop, OneReconnect
<1>6. OneReconnect'  BY DEF OneReconnect, LoopHoldsClient
<1>7. ClientIsUp'  BY <1>0 DEF ClientIsUp, LoopHoldsClient, OneReconnect, OneLoop, UsedIsMade
<1>8. StopIsFinal'  BY DEF StopIsFinal, OneLoop
<1> QED BY <1>1, <1>2, <1>3, <1>4, <1>5, <1>6, <1>7, <1>8

LEMMA ErrorEventStep ==
    ASSUME BusInv, NEW c \in Sessions, ErrorEvent(c)
    PROVE  BusInv'
<1> USE BusAssumption DEF BusInv, Sessions, stopped, Looping, ErrorEvent, Fail, stopping
<1>0. None \notin Sessions  OBVIOUS
<1>1. BusTypeOK'
  <2>1. link' \in [Sessions -> {"new", "connecting", "hung", "connected", "listening", "lost", "ended"}]
    BY DEF BusTypeOK
  <2>2. failures' \in 0 .. MaxFailures  BY DEF BusTypeOK
  <2>3. client' \in Sessions \union {None}  BY DEF BusTypeOK
  <2>4. ending' \subseteq Sessions /\ relinking' \subseteq ending' /\ quitting' \subseteq ending'
    BY DEF BusTypeOK
  <2>5. UNCHANGED <<made, at, connectAttempt, stop, mail>>  OBVIOUS
  <2> HIDE DEF Sessions, ErrorEvent
  <2> QED BY <2>1, <2>2, <2>3, <2>4, <2>5 DEF BusTypeOK
<1> USE DEF BusTypeOK
<1>2. NoStraySession'  BY DEF NoStraySession
<1>3. UsedIsMade'  BY DEF UsedIsMade
<1>4. OneLoop'  BY DEF OneLoop
<1>5. LoopHoldsClient'  BY DEF LoopHoldsClient, OneLoop, OneReconnect
<1>6. OneReconnect'
  <2>1. CASE client = c /\ ~stopped
    <3>1. relinking = {}  BY <1>0, <2>1 DEF OneReconnect
    <3>2. relinking' = {c} /\ client' = None /\ at' = at  BY <2>1, <3>1
    <3>3. \A d \in Sessions : Looping(d) => d = c /\ at[d] # "sleep"  BY <1>0, <2>1 DEF LoopHoldsClient
    <3> QED BY <3>2, <3>3 DEF OneReconnect
  <2>2. CASE ~(client = c /\ ~stopped)  BY <2>2 DEF OneReconnect
  <2> QED BY <2>1, <2>2
<1>7. ClientIsUp'
  <2>1. CASE client = c /\ ~stopped  BY <1>0, <2>1 DEF ClientIsUp
  <2>2. CASE ~(client = c /\ ~stopped)  BY <1>0, <2>2 DEF ClientIsUp, StopIsFinal
  <2> QED BY <2>1, <2>2
<1>8. StopIsFinal'  BY DEF StopIsFinal, OneLoop
<1> QED BY <1>1, <1>2, <1>3, <1>4, <1>5, <1>6, <1>7, <1>8

LEMMA PublishStep ==
    ASSUME BusInv, NEW n \in Notes, Publish(n)
    PROVE  BusInv'
<1> USE BusAssumption DEF BusInv, Sessions, stopped, Looping, Publish, connection, loop, stopping
<1>0. None \notin Sessions  OBVIOUS
<1>1. BusTypeOK'  BY DEF BusTypeOK
<1> USE DEF BusTypeOK
<1>2. NoStraySession'  BY DEF NoStraySession
<1>3. UsedIsMade'  BY DEF UsedIsMade
<1>4. OneLoop'  BY DEF OneLoop
<1>5. LoopHoldsClient'  BY DEF LoopHoldsClient, OneLoop, OneReconnect
<1>6. OneReconnect'  BY DEF OneReconnect, LoopHoldsClient
<1>7. ClientIsUp'  BY <1>0 DEF ClientIsUp, LoopHoldsClient, OneReconnect, OneLoop
<1>8. StopIsFinal'  BY DEF StopIsFinal, OneLoop
<1> QED BY <1>1, <1>2, <1>3, <1>4, <1>5, <1>6, <1>7, <1>8

LEMMA DispatchStep ==
    ASSUME BusInv, NEW m \in Sessions \X Notes, Dispatch(m)
    PROVE  BusInv'
<1> USE BusAssumption DEF BusInv, Sessions, stopped, Looping, Dispatch, connection, loop, stopping
<1>0. None \notin Sessions  OBVIOUS
<1>1. BusTypeOK'  BY DEF BusTypeOK
<1> USE DEF BusTypeOK
<1>2. NoStraySession'  BY DEF NoStraySession
<1>3. UsedIsMade'  BY DEF UsedIsMade
<1>4. OneLoop'  BY DEF OneLoop
<1>5. LoopHoldsClient'  BY DEF LoopHoldsClient, OneLoop, OneReconnect
<1>6. OneReconnect'  BY DEF OneReconnect, LoopHoldsClient
<1>7. ClientIsUp'  BY <1>0 DEF ClientIsUp, LoopHoldsClient, OneReconnect, OneLoop
<1>8. StopIsFinal'  BY DEF StopIsFinal, OneLoop
<1> QED BY <1>1, <1>2, <1>3, <1>4, <1>5, <1>6, <1>7, <1>8

LEMMA HandlerEndsStep ==
    ASSUME BusInv, NEW m \in Sessions \X Notes, HandlerEnds(m)
    PROVE  BusInv'
<1> USE BusAssumption DEF BusInv, Sessions, stopped, Looping, HandlerEnds, connection, loop, stopping
<1>0. None \notin Sessions  OBVIOUS
<1>1. BusTypeOK'  BY DEF BusTypeOK
<1> USE DEF BusTypeOK
<1>2. NoStraySession'  BY DEF NoStraySession
<1>3. UsedIsMade'  BY DEF UsedIsMade
<1>4. OneLoop'  BY DEF OneLoop
<1>5. LoopHoldsClient'  BY DEF LoopHoldsClient, OneLoop, OneReconnect
<1>6. OneReconnect'  BY DEF OneReconnect, LoopHoldsClient
<1>7. ClientIsUp'  BY <1>0 DEF ClientIsUp, LoopHoldsClient, OneReconnect, OneLoop
<1>8. StopIsFinal'  BY DEF StopIsFinal, OneLoop
<1> QED BY <1>1, <1>2, <1>3, <1>4, <1>5, <1>6, <1>7, <1>8

LEMMA StopBeginsStep ==
    ASSUME BusInv, StopBegins
    PROVE  BusInv'
<1> USE BusAssumption DEF BusInv, Sessions, stopped, Looping, StopBegins, loop
<1>0. None \notin Sessions  OBVIOUS
<1>1. BusTypeOK'  BY DEF BusTypeOK
<1> USE DEF BusTypeOK
<1>2. NoStraySession'  BY DEF NoStraySession
<1>3. UsedIsMade'  BY DEF UsedIsMade
<1>4. OneLoop'  BY DEF OneLoop
<1>5. LoopHoldsClient'  BY DEF LoopHoldsClient, OneLoop, OneReconnect
<1>6. OneReconnect'  BY DEF OneReconnect, LoopHoldsClient
<1>7. ClientIsUp'  BY <1>0 DEF ClientIsUp, LoopHoldsClient, OneReconnect, OneLoop
<1>8. StopIsFinal'  BY DEF StopIsFinal, OneLoop
<1> QED BY <1>1, <1>2, <1>3, <1>4, <1>5, <1>6, <1>7, <1>8

LEMMA AttemptAwaitedStep ==
    ASSUME BusInv, AttemptAwaited
    PROVE  BusInv'
<1> USE BusAssumption DEF BusInv, Sessions, stopped, Looping, AttemptAwaited, connection, loop
<1>0. None \notin Sessions  OBVIOUS
<1>1. BusTypeOK'  BY DEF BusTypeOK
<1> USE DEF BusTypeOK
<1>2. NoStraySession'  BY DEF NoStraySession
<1>3. UsedIsMade'  BY DEF UsedIsMade
<1>4. OneLoop'  BY DEF OneLoop
<1>5. LoopHoldsClient'  BY DEF LoopHoldsClient, OneLoop, OneReconnect
<1>6. OneReconnect'  BY DEF OneReconnect, LoopHoldsClient
<1>7. ClientIsUp'  BY <1>0 DEF ClientIsUp, LoopHoldsClient, OneReconnect, OneLoop
<1>8. StopIsFinal'  BY DEF StopIsFinal, OneLoop
<1> QED BY <1>1, <1>2, <1>3, <1>4, <1>5, <1>6, <1>7, <1>8

LEMMA StopReturnsStep ==
    ASSUME BusInv, StopReturns
    PROVE  BusInv'
<1> USE BusAssumption DEF BusInv, Sessions, stopped, Looping, StopReturns, connection, loop
<1>0. None \notin Sessions  OBVIOUS
<1>1. BusTypeOK'  BY DEF BusTypeOK
<1> USE DEF BusTypeOK
<1>2. NoStraySession'  BY DEF NoStraySession
<1>3. UsedIsMade'  BY DEF UsedIsMade
<1>4. OneLoop'  BY DEF OneLoop
<1>5. LoopHoldsClient'  BY DEF LoopHoldsClient, OneLoop, OneReconnect
<1>6. OneReconnect'  BY DEF OneReconnect, LoopHoldsClient
<1>7. ClientIsUp'  BY <1>0 DEF ClientIsUp, LoopHoldsClient, OneReconnect, OneLoop
<1>8. StopIsFinal'  BY DEF StopIsFinal, OneLoop
<1> QED BY <1>1, <1>2, <1>3, <1>4, <1>5, <1>6, <1>7, <1>8

(* What ends with end() whoever awaits it.                                 *)
EndsEither(c) ==
    /\ c \in ending
    /\ ending' = ending \ {c}
    /\ relinking' = relinking \ {c}
    /\ quitting' = quitting \ {c}
    /\ mail' = [m \in DOMAIN mail |-> IF m[1] = c /\ mail[m] = "sent" THEN "dropped" ELSE mail[m]]
    /\ UNCHANGED <<stop, failures>>

(* end() settles, and nobody connects anew for it ...                      *)
EndsQuietly(c) ==
    /\ EndsEither(c)
    /\ link' = [link EXCEPT ![c] = "ended"]
    /\ at' = [at EXCEPT ![c] = IF @ # "end" THEN @ ELSE IF stopped THEN "idle" ELSE "sleep"]
    /\ connectAttempt' = (connectAttempt /\ ~(at[c] = "end" /\ stopped))
    /\ UNCHANGED <<made, client>>
    /\ c \in relinking => stopped \/ connectAttempt

(* ... or the reconnect that awaited it does.                              *)
EndsInReconnect(c) ==
    /\ EndsEither(c)
    /\ c \in relinking /\ ~stopped /\ ~connectAttempt
    /\ made + 1 \in Sessions /\ made' = made + 1 /\ client' = made + 1
    /\ link' = [link EXCEPT ![c] = "ended", ![made + 1] = "connecting"]
    /\ at' = [at EXCEPT ![made + 1] = "connect"]
    /\ connectAttempt'

LEMMA EndsQuietlyStep ==
    ASSUME BusInv, NEW c \in Sessions, EndsQuietly(c)
    PROVE  BusInv'
<1> USE BusAssumption DEF BusInv, Sessions, stopped, Looping, EndsQuietly, EndsEither
<1>0. None \notin Sessions  OBVIOUS
<1>1. BusTypeOK'  BY DEF BusTypeOK
<1> USE DEF BusTypeOK
<1>2. NoStraySession'  BY DEF NoStraySession
<1>3. UsedIsMade'  BY DEF UsedIsMade
<1>4. OneLoop'  BY DEF OneLoop
<1>5. LoopHoldsClient'  BY DEF LoopHoldsClient, OneLoop, OneReconnect
<1>6. OneReconnect'  BY DEF OneReconnect, LoopHoldsClient
<1>7. ClientIsUp'
  <2>1. CASE client # None  BY <1>0, <2>1 DEF ClientIsUp
  <2>2. CASE client = None /\ c \in relinking
    <3>1. CASE stopped  BY <1>0, <2>2, <3>1 DEF ClientIsUp
    <3>2. CASE ~stopped /\ connectAttempt
      <4>1. PICK d \in Sessions : at[d] # "idle"  BY <3>2 DEF OneLoop
      <4>2. at'[d] # "idle"  BY <3>2, <4>1
      <4> QED BY <1>0, <2>2, <4>2 DEF ClientIsUp
    <3> QED BY <2>2, <3>1, <3>2
  <2>3. CASE client = None /\ c \notin relinking
    <3>1. CASE stopped \/ relinking # {}  BY <1>0, <2>3, <3>1 DEF ClientIsUp
    <3>2. CASE ~stopped /\ relinking = {}
      <4>1. PICK d \in Sessions : at[d] # "idle"  BY <2>3, <3>2 DEF ClientIsUp
      <4>2. at'[d] # "idle"  BY <3>2, <4>1
      <4> QED BY <1>0, <2>3, <4>2 DEF ClientIsUp
    <3> QED BY <3>1, <3>2
  <2> QED BY <2>1, <2>2, <2>3
<1>8. StopIsFinal'  BY DEF StopIsFinal, OneLoop
<1> QED BY <1>1, <1>2, <1>3, <1>4, <1>5, <1>6, <1>7, <1>8

LEMMA EndsInReconnectStep ==
    ASSUME BusInv, NEW c \in Sessions, EndsInReconnect(c)
    PROVE  BusInv'
<1> USE BusAssumption DEF BusInv, Sessions, stopped, Looping, EndsInReconnect, EndsEither
<1>0. None \notin Sessions  OBVIOUS
<1>1. BusTypeOK'  BY DEF BusTypeOK
<1> USE DEF BusTypeOK
<1>2. NoStraySession'  BY <1>0 DEF NoStraySession, OneReconnect, UsedIsMade
<1>3. UsedIsMade'  BY DEF UsedIsMade
<1>4. OneLoop'  BY DEF OneLoop
<1>5. LoopHoldsClient'  BY DEF LoopHoldsClient, OneLoop, OneReconnect
<1>6. OneReconnect'  BY DEF OneReconnect, LoopHoldsClient
<1>7. ClientIsUp'  BY <1>0 DEF ClientIsUp, UsedIsMade
<1>8. StopIsFinal'  BY DEF StopIsFinal, OneLoop
<1> QED BY <1>1, <1>2, <1>3, <1>4, <1>5, <1>6, <1>7, <1>8

LEMMA EndSettlesStep ==
    ASSUME BusInv, NEW c \in Sessions, EndSettles(c)
    PROVE  BusInv'
<1>1. EndsEither(c)  BY DEF EndSettles, EndsEither
<1>2. link \in [Sessions -> {"new", "connecting", "hung", "connected", "listening", "lost", "ended"}]
      /\ at \in [Sessions -> {"idle", "connect", "listen", "end", "sleep"}]
      /\ connectAttempt \in BOOLEAN /\ made \in Sessions
  BY DEF BusInv, BusTypeOK
<1>3. CASE c \in relinking /\ ~stopped /\ ~connectAttempt
  <2>1. at[c] = "idle"  BY <1>3 DEF BusInv, OneLoop, Looping
  <2>2. EndsInReconnect(c)
    BY <1>1, <1>2, <1>3, <2>1 DEF EndSettles, Relink, tryConnect, EndsInReconnect
  <2> QED BY <2>2, EndsInReconnectStep
<1>4. CASE ~(c \in relinking /\ ~stopped /\ ~connectAttempt)
  <2>1. EndsQuietly(c)
    <3>1. CASE at[c] = "end" /\ stopped
      BY <1>1, <1>2, <1>4, <3>1 DEF EndSettles, Relink, EndsQuietly
    <3>2. CASE at[c] = "end" /\ ~stopped
      BY <1>1, <1>2, <1>4, <3>2 DEF EndSettles, Relink, EndsQuietly
    <3>3. CASE at[c] # "end"
      BY <1>1, <1>2, <1>4, <3>3 DEF EndSettles, Relink, EndsQuietly
    <3> QED BY <3>1, <3>2, <3>3
  <2> QED BY <2>1, EndsQuietlyStep
<1> QED BY <1>3, <1>4

(* No step of the bus by itself disturbs its invariant, or begins or       *)
(* undoes a stop().                                                        *)
LEMMA BusStepKeeps ==
    ASSUME BusInv, BusStep
    PROVE  BusInv' /\ (stopped' <=> stopped) /\ (stop = "done" => stop' = "done")
<1>1. DOMAIN mail = Sessions \X Notes  BY DEF BusInv, BusTypeOK
<1>2. BusInv'
  BY <1>1, ConnectedStep, ListeningStep, HangStep, AttemptFailsStep, WakeStep, ErrorEventStep, EndSettlesStep,
     PublishStep, DispatchStep, HandlerEndsStep, AttemptAwaitedStep, StopReturnsStep DEF BusStep
<1>3. UNCHANGED stop \/ AttemptAwaited \/ StopReturns
  BY DEF BusStep, stopping, Connected, Listening, Hang, AttemptFails, Wake, ErrorEvent, EndSettles,
         Publish, Dispatch, HandlerEnds
<1> QED BY <1>2, <1>3 DEF stopped, AttemptAwaited, StopReturns

LEMMA BusInvStutters == ASSUME BusInv, UNCHANGED busVars PROVE BusInv'
BY DEF busVars, connection, loop, stopping, BusInv, BusTypeOK, NoStraySession, UsedIsMade, OneLoop, LoopHoldsClient,
       OneReconnect, ClientIsUp, StopIsFinal, Looping, stopped

(* A client that is up, a loop that runs or a reconnect that will start    *)
(* one: the bus is alive.                                                  *)
LEMMA BusLives == BusInv => BusIsAlive
<1> SUFFICES ASSUME BusInv PROVE BusIsAlive  OBVIOUS
<1>1. CASE client = None  BY <1>1 DEF BusInv, ClientIsUp, BusIsAlive, Looping
<1>2. CASE client # None
  <2>1. client \in Sessions  BY <1>2 DEF BusInv, BusTypeOK
  <2> QED BY <1>2, <2>1 DEF BusInv, ClientIsUp, BusIsAlive, Looping
<1> QED BY <1>1, <1>2

-----------------------------------------------------------------------------
(* What TypeOK says of the variables of the process itself.                *)
RelayTypeOK ==
    /\ listening \in BOOLEAN
    /\ phase \in {"serving", "reaper", "http", "wss", "requests", "stopping", "closed"}
    /\ timer \in {"off", "armed", "fired"}
    /\ peer \in [Peers -> {"none", "open", "closing", "closed"}]
    /\ by \in [Jobs -> Peers \union {Rest, None}]
    /\ running \subseteq {j \in Jobs : by[j] # None} /\ awaited \subseteq Jobs
    /\ sweep \in BOOLEAN

CapHolds == \A p \in Peers : Inflight(p) <= MaxInflight

(* What each phase of the disposal has waited for does not come back.      *)
Drained ==
    /\ phase \notin {"serving", "reaper"} => ~sweep
    /\ phase \in {"requests", "stopping", "closed"} => NoSocket /\ running \subseteq awaited
    /\ phase \in {"stopping", "closed"} => running = {}
    /\ stopped <=> phase \in {"stopping", "closed"}
    /\ phase = "closed" => stop = "done"

ProcessInv == BusInv /\ RelayTypeOK /\ CapHolds /\ Drained

LEMMA ProcessInvInit == Init => ProcessInv
<1> SUFFICES ASSUME Init PROVE ProcessInv  OBVIOUS
<1>1. BusInv  BY BusInvInit DEF Init
<1>2. RelayTypeOK  BY DEF Init, RelayTypeOK
<1>3. CapHolds
  <2>1. \A p \in Peers : {j \in running : by[j] = p} = {}  BY DEF Init
  <2> QED BY <2>1, FS_EmptySet, ProcessAssumption DEF CapHolds, Inflight
<1>4. Drained  BY DEF Init, Drained, BusInit, stopped
<1> QED BY <1>1, <1>2, <1>3, <1>4 DEF ProcessInv

(* Fewer jobs of the same peers keep under the cap.                        *)
LEMMA FewerJobs ==
    ASSUME RelayTypeOK, CapHolds, running' \subseteq running, by' = by
    PROVE  CapHolds'
<1> SUFFICES ASSUME NEW p \in Peers PROVE Inflight(p)' <= MaxInflight  BY DEF CapHolds
<1> DEFINE S == {j \in running : by[j] = p}
<1> DEFINE T == {j \in running' : by[j] = p}
<1>1. IsFiniteSet(S) /\ T \subseteq S
  BY FS_Subset, ProcessAssumption DEF RelayTypeOK
<1>2. Cardinality(T) <= Cardinality(S) /\ Cardinality(T) \in Nat /\ Cardinality(S) \in Nat
  BY <1>1, FS_Subset, FS_CardinalityType
<1>3. Cardinality(S) <= MaxInflight  BY DEF CapHolds, Inflight
<1>4. Inflight(p)' = Cardinality(T)  BY DEF Inflight
<1> HIDE DEF S, T
<1> QED BY <1>2, <1>3, <1>4, ProcessAssumption

(* A new job is one more of the peer that starts it, and of nobody else.   *)
LEMMA OneMoreJob ==
    ASSUME RelayTypeOK, CapHolds, NEW j \in Jobs, NEW who \in Peers \union {Rest}, Start(j, who),
           who \in Peers => Inflight(who) < MaxInflight
    PROVE  CapHolds'
<1> SUFFICES ASSUME NEW p \in Peers PROVE Inflight(p)' <= MaxInflight  BY DEF CapHolds
<1> DEFINE S == {i \in running : by[i] = p}
<1> DEFINE T == {i \in running' : by'[i] = p}
<1>1. IsFiniteSet(S) /\ Cardinality(S) \in Nat
  BY FS_Subset, FS_CardinalityType, ProcessAssumption DEF RelayTypeOK
<1>2. j \notin running  BY DEF Start, RelayTypeOK
<1>3. Cardinality(S) = Inflight(p) /\ Cardinality(T) = Inflight(p)'  BY DEF Inflight
<1>4. CASE p = who
  <2>1. T = S \union {j} /\ j \notin S  BY <1>2, <1>4 DEF Start, RelayTypeOK
  <2>2. Cardinality(T) = Cardinality(S) + 1  BY <1>1, <2>1, FS_AddElement
  <2> HIDE DEF S, T
  <2> QED BY <1>1, <1>3, <1>4, <2>2, ProcessAssumption
<1>5. CASE p # who
  <2>1. T = S  BY <1>2, <1>5 DEF Start, RelayTypeOK
  <2> QED BY <1>3, <2>1 DEF CapHolds
<1> QED BY <1>4, <1>5

LEMMA StartStep ==
    ASSUME ProcessInv, ~isShuttingDown, NEW j \in Jobs, NEW who \in Peers \union {Rest}, Start(j, who),
           who \in Peers => Inflight(who) < MaxInflight
    PROVE  ProcessInv'
<1> USE DEF ProcessInv
<1>1. BusInv'  BY BusInvStutters DEF Start
<1>2. RelayTypeOK'
  <2>1. who # None  BY ProcessAssumption DEF Peers
  <2> QED BY <2>1 DEF Start, RelayTypeOK, transport, disposal
<1>3. CapHolds'  BY OneMoreJob
<1>4. Drained'
  BY DEF Drained, Start, isShuttingDown, stopped, transport, disposal, busVars, stopping
<1> QED BY <1>1, <1>2, <1>3, <1>4

(* The steps that leave the bus and the jobs alone.                        *)
LEMMA QuietStep ==
    ASSUME ProcessInv, UNCHANGED <<by, running, busVars>>,
           \/ \E p \in Peers : Connect(p) \/ HubCloses(p) \/ PeerLeaves(p)
           \/ SweepStarts \/ SweepEnds \/ Dispose \/ GraceFires
           \/ ReaperStopped \/ HttpClosed \/ WssClosed \/ DatabaseClosed
    PROVE  ProcessInv'
<1> USE DEF ProcessInv
<1>1. BusInv'  BY BusInvStutters
<1>2. CapHolds'  BY FewerJobs
<1>3. stopped' = stopped /\ stop' = stop  BY DEF busVars, stopping, stopped
<1>4. ASSUME NEW p \in Peers, Connect(p) \/ HubCloses(p) \/ PeerLeaves(p)
      PROVE  RelayTypeOK' /\ Drained'
  <2>1. RelayTypeOK'
    BY <1>4 DEF Connect, HubCloses, PeerLeaves, RelayTypeOK, work, disposal
  <2>2. Drained'
    BY <1>3, <1>4 DEF Connect, HubCloses, PeerLeaves, Drained, RelayTypeOK, NoSocket, isShuttingDown, work, disposal, Peers
  <2> QED BY <2>1, <2>2
<1>5. ASSUME SweepStarts \/ SweepEnds
      PROVE  RelayTypeOK' /\ Drained'
  BY <1>3, <1>5 DEF SweepStarts, SweepEnds, RelayTypeOK, Drained, NoSocket, isShuttingDown, transport, disposal
<1>6. ASSUME Dispose \/ GraceFires
      PROVE  RelayTypeOK' /\ Drained'
  <2>1. RelayTypeOK'  BY <1>6 DEF Dispose, GraceFires, RelayTypeOK, work
  <2>2. Drained'  BY <1>3, <1>6 DEF Dispose, GraceFires, RelayTypeOK, Drained, NoSocket, work, Peers
  <2> QED BY <2>1, <2>2
<1>7. ASSUME ReaperStopped \/ HttpClosed \/ WssClosed \/ DatabaseClosed
      PROVE  RelayTypeOK' /\ Drained'
  <2>1. RelayTypeOK'
    BY <1>7 DEF ReaperStopped, HttpClosed, WssClosed, DatabaseClosed, RelayTypeOK, transport, work
  <2>2. Drained'
    BY <1>3, <1>7 DEF ReaperStopped, HttpClosed, WssClosed, DatabaseClosed, Drained, NoSocket, transport, work
  <2> QED BY <2>1, <2>2
<1> QED BY <1>1, <1>2, <1>4, <1>5, <1>6, <1>7

LEMMA ProcessInvStep == ProcessInv /\ [Next]_vars => ProcessInv'
<1> SUFFICES ASSUME ProcessInv, [Next]_vars PROVE ProcessInv'  OBVIOUS
<1> USE DEF ProcessInv
<1>1. CASE BusStep /\ UNCHANGED relayVars
  <2>1. BusInv' /\ (stopped' <=> stopped) /\ (stop = "done" => stop' = "done")  BY <1>1, BusStepKeeps
  <2>2. RelayTypeOK'  BY <1>1 DEF RelayTypeOK, relayVars, transport, work, disposal
  <2>3. CapHolds'  BY <1>1, FewerJobs DEF relayVars, work
  <2>4. Drained'  BY <1>1, <2>1 DEF Drained, NoSocket, relayVars, transport, work, disposal
  <2> QED BY <2>1, <2>2, <2>3, <2>4
<1>2. ASSUME NEW p \in Peers, Connect(p) \/ HubCloses(p) \/ PeerLeaves(p)
      PROVE  ProcessInv'
  <2>1. UNCHANGED <<by, running, busVars>>  BY <1>2 DEF Connect, HubCloses, PeerLeaves, work
  <2> HIDE DEF ProcessInv
  <2> QED BY <1>2, <2>1, QuietStep
<1>3. ASSUME NEW p \in Peers, NEW j \in Jobs, Receive(p, j)
      PROVE  ProcessInv'
  BY <1>3, StartStep DEF Receive
<1>4. ASSUME NEW j \in Jobs, Request(j)
      PROVE  ProcessInv'
  BY <1>4, StartStep, ProcessAssumption DEF Request
<1>5. ASSUME NEW j \in Jobs, JobEnds(j)
      PROVE  ProcessInv'
  <2>1. BusInv'  BY <1>5, BusInvStutters DEF JobEnds
  <2>2. RelayTypeOK'  BY <1>5 DEF JobEnds, RelayTypeOK, transport, disposal
  <2>3. CapHolds'  BY <1>5, FewerJobs DEF JobEnds
  <2>4. Drained'  BY <1>5 DEF JobEnds, Drained, NoSocket, transport, disposal, busVars, stopping, stopped
  <2> QED BY <2>1, <2>2, <2>3, <2>4
<1>6. CASE SweepStarts \/ SweepEnds \/ Dispose \/ GraceFires
           \/ ReaperStopped \/ HttpClosed \/ WssClosed \/ DatabaseClosed
  <2>1. UNCHANGED <<by, running, busVars>>
    BY <1>6 DEF SweepStarts, SweepEnds, Dispose, GraceFires, ReaperStopped, HttpClosed, WssClosed, DatabaseClosed, work
  <2> HIDE DEF ProcessInv
  <2> QED BY <1>6, <2>1, QuietStep
<1>7. CASE RequestsDrained
  <2>1. BusInv'  BY <1>7, StopBeginsStep DEF RequestsDrained
  <2>2. RelayTypeOK'  BY <1>7 DEF RequestsDrained, RelayTypeOK, transport, work
  <2>3. CapHolds'  BY <1>7, FewerJobs DEF RequestsDrained, work
  <2>4. Drained'
    BY <1>7 DEF RequestsDrained, StopBegins, Drained, NoSocket, transport, work, stopped
  <2> QED BY <2>1, <2>2, <2>3, <2>4
<1>8. CASE UNCHANGED vars
  <2>1. BusInv'  BY <1>8, BusInvStutters DEF vars
  <2>2. RelayTypeOK'  BY <1>8 DEF vars, relayVars, RelayTypeOK, transport, work, disposal
  <2>3. CapHolds'  BY <1>8, FewerJobs DEF vars, relayVars, work
  <2>4. Drained'
    BY <1>8 DEF vars, relayVars, Drained, NoSocket, transport, work, disposal, busVars, stopping, stopped
  <2> QED BY <2>1, <2>2, <2>3, <2>4
<1> HIDE DEF ProcessInv
<1> QED BY <1>1, <1>2, <1>3, <1>4, <1>5, <1>6, <1>7, <1>8 DEF Next, DisposalGoesOn

(* The database is closed last: in its phase the drain has waited for the  *)
(* jobs, the sweep and the sockets, and stop() for the loop and the        *)
(* handlers of the bus.                                                    *)
LEMMA DatabaseIsLast == ProcessInv => NothingOutlivesTheDatabase
BY DEF ProcessInv, Drained, BusInv, StopIsFinal, OneLoop, Looping, NothingOutlivesTheDatabase

-----------------------------------------------------------------------------
LEMMA Invariance == Spec => []ProcessInv
BY ProcessInvInit, ProcessInvStep, PTL DEF Spec

(* Every variable of the process and its bus keeps its type, and no peer   *)
(* ever has more frames handled at a time than the in-flight cap of        *)
(* ws-server.ts and sse-server.ts allows.                                  *)
THEOREM TypeCorrect == Spec => []TypeOK
<1>1. ProcessInv => TypeOK
  BY DEF ProcessInv, BusInv, RelayTypeOK, CapHolds, TypeOK
<1> QED BY <1>1, Invariance, PTL

(* However often connections fail or hang and whatever stop() interrupts,  *)
(* pubsub.ts leaves no LISTEN session behind and goes on reconnecting      *)
(* until it is stopped; and lifecycle.ts closes the database only when no  *)
(* request, sweep, bus handler or connect loop is left that would use it.  *)
THEOREM NothingStrays == Spec => []NothingStray
<1>1. ProcessInv => NothingStray
  BY BusLives, DatabaseIsLast DEF ProcessInv, BusInv, NothingStray
<1> QED BY <1>1, Invariance, PTL

=============================================================================
