------------------------ MODULE SyncTransport_proofs ------------------------
(***************************************************************************)
(* However sockets, fallbacks, POSTs, hops, cuts and callers cross, the    *)
(* transport is connected under one nonce and at most one socket, each     *)
(* session of the relay has one response to write to, and a password the   *)
(* flow takes for accepted is the operator's and its session's to keep.    *)
(*                                                                         *)
(* A synchronous function of the client is proved to lead from a Sound     *)
(* world to a Sound one, and from an Honest one to an Honest one; a step   *)
(* of the relay from the state to a Vouched pair of streams and sessions.  *)
(***************************************************************************)
EXTENDS SyncTransport, SequenceTheorems, FiniteSetTheorems, TLAPS

(* A stream of the client's current socket.                                *)
Own(n, m) == n[m] # None /\ n[m].mine

(* The events a stream still holds for the client.                         *)
Told(x) == {x.down[i] : i \in DOMAIN x.down}

(* The sets the parts of a world range over.                               *)
Transports ==
    [handles : Nat, url : BOOLEAN, locked : BOOLEAN, closed : BOOLEAN, socket : Sockets \union {None},
     nonce : Nonces, reconnecting : BOOLEAN, flow : Flows \union {None}, tried : BOOLEAN, cache : Words]
Consumers ==
    [up : Nonces, heard : Nat, missed : BOOLEAN, due : BOOLEAN, answered : BOOLEAN,
     declined : BOOLEAN, coalesced : BOOLEAN, misled : BOOLEAN]
Wires == [Streams -> Connections \union {None}]

(* The transport has a nonce exactly while its consumers are connected     *)
(* under it, and only with a socket that has left connecting.              *)
NonceHeld(t, c) ==
    /\ t.nonce = c.up
    /\ t.nonce # None => t.socket # None /\ t.socket.state # "connecting"

(* The reconnect timer is armed only while a connection is wanted and      *)
(* there is none.                                                          *)
Reconnects(t) == t.reconnecting => MayOpen(t) /\ t.socket = None

(* An SSE socket has dispatched no response, and numbered no POST, past    *)
(* its last one; a WebSocket never flushes.                                *)
Numbered(t, n) ==
    t.socket # None =>
        /\ t.socket.flushing => t.socket.sse
        /\ t.socket.dispatched <= t.socket.postSeq
        /\ \A m \in Streams : Own(n, m) => n[m].seq <= t.socket.postSeq

(* Only a socket has streams, all of its kind and none abandoned; an open  *)
(* WebSocket has exactly one.                                              *)
OwnsItsOwn(t, n) ==
    /\ \A m \in Streams : Own(n, m) => t.socket # None /\ n[m].sse = t.socket.sse /\ ~n[m].gone
    /\ t.socket # None /\ ~t.socket.sse =>
          /\ \E m \in Streams : Own(n, m)
          /\ \A m, k \in Streams : Own(n, m) /\ Own(n, k) => m = k

(* What a stream looks like at rest: nothing is told before the relay has  *)
(* taken it, no bytes go up a POST once it is made, and one that both ends *)
(* are done with is gone from the table.                                   *)
Shape(x) ==
    /\ ~(x.gone /\ x.over)
    /\ x.at = "asked" => x.down = <<>>
    /\ x.sse => /\ x.up = <<>>
                /\ x.closing => x.gone
                /\ x.at = "asked" /\ x.over => x.cut
    /\ ~x.sse => /\ x.at \in {"asked", "open"} /\ x.body = NoBody
                 /\ \A e \in Told(x) : e.type \notin {"session", "close"}

Shapes(n) == \A m \in Streams : n[m] # None => Shape(n[m])

(* Every session writes to a response that is there and has not ended, and *)
(* no two to the same one.                                                 *)
Served(n, s) ==
    /\ \A x \in Sids : s[x] # None =>
          n[s[x].res] # None /\ ~n[s[x].res].over /\ n[s[x].res].at \in {"served", "open"}
    /\ \A x, y \in Sids : s[x] # None /\ s[y] # None /\ s[x].res = s[y].res => x = y

(* A flow that is not stale has a socket; one that waits for an answer is  *)
(* not stale and has a password.                                           *)
FlowHeld(t) ==
    t.flow # None =>
        /\ ~t.flow.stale => t.socket # None
        /\ Awaiting(t) => ~t.flow.stale
        /\ t.flow.at \in {"cached", "typed", "keep"} => t.flow.password # None

(* The invariant of the client's side and of the wires.                    *)
WorldInv(t, c, n) ==
    /\ t \in Transports /\ c \in Consumers /\ n \in Wires
    /\ NonceHeld(t, c) /\ Reconnects(t) /\ Numbered(t, n) /\ OwnsItsOwn(t, n) /\ Shapes(n) /\ FlowHeld(t)

LeftType ==
    /\ DOMAIN left = Counts \union {"ws", "gated", "cache"} /\ \A k \in Counts : left[k] \in Nat
    /\ left.ws \in BOOLEAN /\ left.gated \in BOOLEAN /\ left.cache \in Words

(* The inductive invariant.                                                *)
TypeInv ==
    /\ LeftType /\ sessions \in [Sids -> Sessions \union {None}]
    /\ WorldInv(transport, consumer, streams) /\ Served(streams, sessions)

(* A world a step may leave behind.                                        *)
Sound(w, s) ==
    w = [t |-> w.t, c |-> w.c, n |-> w.n] /\ WorldInv(w.t, w.c, w.n) /\ Served(w.n, s)

(* What a queue holds once an element joins it (Append).                   *)
LEMMA ToldAppends ==
    ASSUME NEW S, NEW q \in Seq(S), NEW e \in S
    PROVE  /\ Append(q, e) \in Seq(S)
           /\ {Append(q, e)[i] : i \in DOMAIN Append(q, e)} = {q[i] : i \in DOMAIN q} \union {e}
<1> DEFINE r == Append(q, e)
<1>1. r \in Seq(S) /\ Len(r) = Len(q) + 1 /\ DOMAIN r = 1..Len(r) /\ DOMAIN q = 1..Len(q) /\ Len(q) \in Nat
  OBVIOUS
<1>2. (\A i \in DOMAIN q : r[i] = q[i]) /\ r[Len(q) + 1] = e
  OBVIOUS
<1>3. DOMAIN r = DOMAIN q \union {Len(q) + 1}
  BY <1>1
<1>4. QED
  BY <1>1, <1>2, <1>3

(* The same for a stream's events (Sent).                                  *)
LEMMA EventAppends ==
    ASSUME NEW q \in Seq(Events), NEW e \in Events
    PROVE  /\ Append(q, e) \in Seq(Events)
           /\ {Append(q, e)[i] : i \in DOMAIN Append(q, e)} = {q[i] : i \in DOMAIN q} \union {e}
<1> DEFINE S == Events
<1>1. q \in Seq(S) /\ e \in S
  OBVIOUS
<1> HIDE DEF S
<1>2. /\ Append(q, e) \in Seq(S)
      /\ {Append(q, e)[i] : i \in DOMAIN Append(q, e)} = {q[i] : i \in DOMAIN q} \union {e}
  BY <1>1, ToldAppends
<1>3. QED
  BY <1>2 DEF S

(* What a queue holds once its head is taken (Taken).                      *)
LEMMA ToldTails ==
    ASSUME NEW S, NEW q \in Seq(S), q # <<>>
    PROVE  /\ Tail(q) \in Seq(S) /\ Head(q) \in S
           /\ Head(q) \in {q[i] : i \in DOMAIN q}
           /\ {Tail(q)[i] : i \in DOMAIN Tail(q)} \subseteq {q[i] : i \in DOMAIN q}
<1>1. QED
  BY SMT

(* Telling the consumers what leaves their nonce alone keeps a world sound *)
(* (Hear).                                                                 *)
LEMMA OnlyTold ==
    ASSUME NEW w, NEW s, Sound(w, s), NEW c \in Consumers, c.up = w.c.up
    PROVE  Sound([t |-> w.t, c |-> c, n |-> w.n], s)
<1>1. NonceHeld(w.t, c)
  BY DEF Sound, WorldInv, NonceHeld
<1>2. QED
  BY <1>1 DEF Sound, WorldInv

(* Hearing an event keeps a world sound (Hear).                            *)
LEMMA HearSound ==
    ASSUME NEW w, NEW s, Sound(w, s), NEW e \in Events
    PROVE  Sound(Hear(w, e), s)
<1> DEFINE c == IF e.sid # w.c.up THEN w.c
                ELSE [w.c EXCEPT !.heard = e.n, !.missed = @ \/ e.n # w.c.heard + 1,
                                 !.answered = @ \/ e.type = "answer"]
<1>1. Hear(w, e) = [t |-> w.t, c |-> c, n |-> w.n]
  BY DEF Hear, Sound, WorldInv, Consumers
<1>2. c \in Consumers /\ c.up = w.c.up
  BY DEF Sound, WorldInv, Consumers, Events
<1>3. QED
  BY <1>1, <1>2, OnlyTold

(* The fields of the flow alone.                                           *)
FlowSet(t, f, b, h) == [t EXCEPT !.flow = f, !.tried = b, !.cache = h]

(* A step of the auth flow alone keeps a world sound, if it leaves a flow  *)
(* that fits (runAuthFlow).                                                *)
LEMMA OnlyFlow ==
    ASSUME NEW w, NEW s, Sound(w, s),
           NEW f \in Flows \union {None}, NEW b \in BOOLEAN, NEW h \in Words,
           FlowHeld(FlowSet(w.t, f, b, h))
    PROVE  Sound([t |-> FlowSet(w.t, f, b, h), c |-> w.c, n |-> w.n], s)
<1> DEFINE u == FlowSet(w.t, f, b, h)
<1>1. u \in Transports
  BY DEF Transports, Sound, WorldInv, FlowSet
<1>2. u.socket = w.t.socket /\ u.nonce = w.t.nonce /\ u.reconnecting = w.t.reconnecting
      /\ (MayOpen(u) <=> MayOpen(w.t))
  BY DEF Transports, Sound, WorldInv, FlowSet, MayOpen
<1>3. NonceHeld(u, w.c) /\ Reconnects(u) /\ Numbered(u, w.n) /\ OwnsItsOwn(u, w.n)
  BY <1>2 DEF Sound, WorldInv, NonceHeld, Reconnects, Numbered, OwnsItsOwn
<1>4. QED
  BY <1>1, <1>3 DEF Sound, WorldInv

(* The end of a flow keeps a world sound (EndFlow).                        *)
LEMMA EndFlowSound ==
    ASSUME NEW w, NEW s, Sound(w, s)
    PROVE  Sound(EndFlow(w), s)
<1> DEFINE u == FlowSet(w.t, None, w.t.tried, w.t.cache)
<1>1. w.t \in Transports
  BY DEF Sound, WorldInv
<1>2. EndFlow(w) = [t |-> u, c |-> w.c, n |-> w.n]
  <2>1. w = [t |-> w.t, c |-> w.c, n |-> w.n]
    BY DEF Sound
  <2>2. u = [w.t EXCEPT !.flow = None]
    BY <1>1 DEF FlowSet, Transports
  <2>3. QED
    BY <2>1, <2>2 DEF EndFlow
<1>3. u.flow = None
  BY <1>1 DEF FlowSet, Transports
<1>4. QED
  BY <1>1, <1>2, <1>3, OnlyFlow DEF FlowHeld, Transports

(* None is no value of any set of the model (TransportAssumption).         *)
LEMMA NoneIsApart ==
    None \notin Sids /\ None \notin Passwords /\ None \notin Flows /\ None \notin Sockets
      /\ None \notin Connections /\ None \notin Sessions
<1>1. QED
  BY TransportAssumption

(* A change of the socket's own fields keeps a world sound, if its POSTs   *)
(* stay numbered and a socket with a nonce stays past connecting.          *)
LEMMA OnlySocket ==
    ASSUME NEW w, NEW s, Sound(w, s), w.t.socket # None, NEW k \in Sockets,
           k.sse = w.t.socket.sse, k.dispatched <= k.postSeq, k.flushing => k.sse,
           k.postSeq = w.t.socket.postSeq, w.t.nonce # None => k.state # "connecting"
    PROVE  Sound([t |-> [w.t EXCEPT !.socket = k], c |-> w.c, n |-> w.n], s)
<1> DEFINE u == [w.t EXCEPT !.socket = k]
<1>1. u \in Transports /\ u.socket = k /\ k # None /\ u.nonce = w.t.nonce /\ u.flow = w.t.flow
      /\ u.reconnecting = w.t.reconnecting
  BY NoneIsApart DEF Transports, Sound, WorldInv
<1>2. NonceHeld(u, w.c) /\ Reconnects(u) /\ OwnsItsOwn(u, w.n) /\ FlowHeld(u)
  BY <1>1 DEF Sound, WorldInv, NonceHeld, Reconnects, OwnsItsOwn, FlowHeld, Awaiting
<1>3. Numbered(u, w.n)
  BY <1>1 DEF Sound, WorldInv, Numbered
<1>4. QED
  BY <1>1, <1>2, <1>3 DEF Sound, WorldInv

(* A change of one stream that keeps its kind, owner and number keeps a    *)
(* world sound.                                                            *)
LEMMA OnlyStream ==
    ASSUME NEW w, NEW s, NEW v, NEW m \in Streams, NEW x \in Connections, Sound(w, s),
           s \in [Sids -> Sessions \union {None}],
           v = [t |-> w.t, c |-> w.c, n |-> [w.n EXCEPT ![m] = x]], w.n[m] # None,
           Shape(x), x.mine = w.n[m].mine, x.sse = w.n[m].sse, x.seq = w.n[m].seq,
           x.mine => ~x.gone, x.over = w.n[m].over,
           w.n[m].at \in {"served", "open"} => x.at \in {"served", "open"}
    PROVE  Sound(v, s)
<1>1. v.c = w.c /\ v.t = w.t /\ v.n = [w.n EXCEPT ![m] = x] /\ w.n \in Wires
  BY DEF Sound, WorldInv
<1>2. v.n \in Wires /\ v.n[m] = x /\ x # None /\ \A k \in Streams : k # m => v.n[k] = w.n[k]
  BY <1>1, NoneIsApart DEF Wires
<1>3. \A k \in Streams : /\ Own(v.n, k) <=> Own(w.n, k)
                         /\ Own(v.n, k) => v.n[k].sse = w.n[k].sse /\ v.n[k].seq = w.n[k].seq
  BY <1>2 DEF Own
<1>4. Numbered(v.t, v.n)
  BY <1>1, <1>3 DEF Sound, WorldInv, Numbered
<1>5. OwnsItsOwn(v.t, v.n)
  <2>1. \A k \in Streams : Own(v.n, k) => ~v.n[k].gone
    BY <1>2, <1>3 DEF Own, Sound, WorldInv, OwnsItsOwn
  <2>2. QED
    BY <1>1, <1>3, <2>1 DEF Sound, WorldInv, OwnsItsOwn
<1>6. Shapes(v.n)
  BY <1>2 DEF Shapes, Sound, WorldInv
<1>7. Served(v.n, s)
  BY <1>2 DEF Served, Sound, Sessions
<1>8. QED
  BY <1>1, <1>2, <1>4, <1>5, <1>6, <1>7 DEF Sound, WorldInv

(* A WebSocket has a stream to send on (SendFrame).                        *)
LEMMA MineExists ==
    ASSUME NEW w, NEW s, Sound(w, s), w.t.socket # None, ~w.t.socket.sse
    PROVE  /\ MyStream(w) \in Streams /\ Own(w.n, MyStream(w))
           /\ w.n[MyStream(w)] \in Connections /\ ~w.n[MyStream(w)].sse
<1>1. \E m \in Streams : Own(w.n, m)
  BY DEF Sound, WorldInv, OwnsItsOwn
<1>2. MyStream(w) \in Streams /\ Own(w.n, MyStream(w))
  BY <1>1 DEF MyStream, Own
<1>3. QED
  BY <1>2 DEF Sound, WorldInv, OwnsItsOwn, Wires, Own

(* What a sound world says of its socket.                                  *)
LEMMA SocketIsTyped ==
    ASSUME NEW w, NEW s, Sound(w, s), w.t.socket # None
    PROVE  /\ w.t \in Transports /\ w.t.socket \in Sockets
           /\ w.t.socket.flushing => w.t.socket.sse
           /\ w.t.socket.dispatched <= w.t.socket.postSeq
           /\ w.t.nonce # None => w.t.socket.state # "connecting"
<1>1. QED
  BY DEF Sound, WorldInv, Transports, Numbered, NonceHeld

(* Scheduling a flush as a change of the transport (scheduleFlush).        *)
LEMMA FlushingSet ==
    ASSUME NEW w, w = [t |-> w.t, c |-> w.c, n |-> w.n], NEW b
    PROVE  [w EXCEPT !.t.socket.flushing = b]
             = [t |-> [w.t EXCEPT !.socket = [w.t.socket EXCEPT !.flushing = b]], c |-> w.c, n |-> w.n]
<1>1. QED
  BY SMT

(* Scheduling a flush of an SSE socket keeps a world sound                 *)
(* (scheduleFlush).                                                        *)
LEMMA ScheduleSound ==
    ASSUME NEW w, NEW s, Sound(w, s), w.t.socket # None, w.t.socket.sse
    PROVE  Sound(scheduleFlush(w), s)
<1> DEFINE k == [w.t.socket EXCEPT !.flushing = TRUE]
<1>1. w = [t |-> w.t, c |-> w.c, n |-> w.n]
  BY DEF Sound
<1>2. scheduleFlush(w) = [t |-> [w.t EXCEPT !.socket = k], c |-> w.c, n |-> w.n]
  <2>1. [w EXCEPT !.t.socket.flushing = TRUE] = [t |-> [w.t EXCEPT !.socket = k], c |-> w.c, n |-> w.n]
    BY <1>1, FlushingSet
  <2>2. QED
    BY <2>1 DEF scheduleFlush
<1>3. k \in Sockets /\ k.sse = w.t.socket.sse /\ k.dispatched = w.t.socket.dispatched
      /\ k.postSeq = w.t.socket.postSeq /\ k.state = w.t.socket.state
  BY SocketIsTyped DEF Sockets
<1>4. k.sse /\ k.dispatched <= k.postSeq /\ (w.t.nonce # None => k.state # "connecting")
  BY <1>3, SocketIsTyped
<1> HIDE DEF k
<1>5. QED
  BY <1>2, <1>3, <1>4, OnlySocket

(* Sending a frame, on either kind of socket, keeps a world sound          *)
(* (SendFrame).                                                            *)
LEMMA SendFrameSound ==
    ASSUME NEW w, NEW s, Sound(w, s), s \in [Sids -> Sessions \union {None}], w.t.socket # None,
           NEW frame \in Frames
    PROVE  Sound(SendFrame(w, frame), s)
<1>1. w.t.socket \in Sockets
  BY SocketIsTyped
<1>2. CASE w.t.socket.sse
  <2> DEFINE k == IF frame.password # None THEN [w.t.socket EXCEPT !.password = frame.password]
                  ELSE [w.t.socket EXCEPT !.outbound = Append(@, frame)]
             v == [t |-> [w.t EXCEPT !.socket = k], c |-> w.c, n |-> w.n]
  <2>1. Append(w.t.socket.outbound, frame) \in Seq(Frames)
    BY <1>1 DEF Sockets
  <2>2. k \in Sockets /\ k.sse = w.t.socket.sse /\ k.dispatched = w.t.socket.dispatched
      /\ k.flushing = w.t.socket.flushing /\ k.postSeq = w.t.socket.postSeq /\ k.state = w.t.socket.state
    BY <1>1, <2>1 DEF Sockets, Frames
  <2>3. Sound(v, s)
    BY <2>2, OnlySocket, SocketIsTyped
  <2>4. v.t.socket # None /\ v.t.socket.sse
    BY <1>2, <2>2, NoneIsApart, SocketIsTyped DEF Transports
  <2>5. SendFrame(w, frame) = scheduleFlush(v)
    <3>1. v = IF frame.password # None THEN [w EXCEPT !.t.socket.password = frame.password]
              ELSE [w EXCEPT !.t.socket.outbound = Append(@, frame)]
      BY DEF Sound
    <3>2. QED
      BY <1>2, <3>1 DEF SendFrame
  <2>6. QED
    BY <2>3, <2>4, <2>5, ScheduleSound
<1>3. CASE ~w.t.socket.sse
  <2> DEFINE m == MyStream(w)
             x == [w.n[m] EXCEPT !.up = Append(@, frame)]
  <2>1. m \in Streams /\ Own(w.n, m) /\ w.n[m] \in Connections /\ ~w.n[m].sse
    BY <1>3, MineExists
  <2>2. Append(w.n[m].up, frame) \in Seq(Frames)
    BY <2>1 DEF Connections
  <2>3. x \in Connections
    BY <2>1, <2>2 DEF Connections
  <2>4. /\ x.mine = w.n[m].mine /\ x.sse = w.n[m].sse /\ x.seq = w.n[m].seq /\ x.over = w.n[m].over
        /\ x.at = w.n[m].at /\ x.gone = w.n[m].gone /\ x.down = w.n[m].down /\ x.body = w.n[m].body
    BY <2>1 DEF Connections
  <2>5. Shape(x) /\ ~x.gone
    BY <2>1, <2>4 DEF Sound, WorldInv, Shapes, Shape, Own, Told, OwnsItsOwn
  <2>6. SendFrame(w, frame) = [t |-> w.t, c |-> w.c, n |-> [w.n EXCEPT ![m] = x]]
    BY <1>3 DEF SendFrame, Sound
  <2>7. w.n[m] # None
    BY <2>1 DEF Own
  <2>8. w.n[m].at \in {"served", "open"} => x.at \in {"served", "open"}
    BY <2>4
  <2> HIDE DEF m, x
  <2>9. QED
    BY <2>1, <2>3, <2>4, <2>5, <2>6, <2>7, <2>8, OnlyStream
<1>4. QED
  BY <1>2, <1>3

(* A flow the transport may have.                                          *)
FlowFits(t, f) ==
    f # None =>
        /\ ~f.stale => t.socket # None
        /\ f.at \in {"cached", "typed"} => ~f.stale
        /\ f.at \in {"cached", "typed", "keep"} => f.password # None

(* A flow that fits may be set (runAuthFlow).                              *)
LEMMA FlowSound ==
    ASSUME NEW w, NEW s, Sound(w, s), NEW f \in Flows \union {None}, FlowFits(w.t, f)
    PROVE  /\ Sound([w EXCEPT !.t.flow = f], s)
           /\ [w EXCEPT !.t.flow = f] = [t |-> [w.t EXCEPT !.flow = f], c |-> w.c, n |-> w.n]
<1> DEFINE u == FlowSet(w.t, f, w.t.tried, w.t.cache)
<1>1. w.t \in Transports /\ w = [t |-> w.t, c |-> w.c, n |-> w.n]
  BY DEF Sound, WorldInv
<1>2. u = [w.t EXCEPT !.flow = f]
  BY <1>1 DEF FlowSet, Transports
<1>3. [w EXCEPT !.t.flow = f] = [t |-> [w.t EXCEPT !.flow = f], c |-> w.c, n |-> w.n]
  BY <1>1
<1>4. u.flow = f /\ u.socket = w.t.socket
  BY <1>1, <1>2 DEF Transports
<1>5. FlowHeld(u)
  BY <1>4 DEF FlowHeld, Awaiting, FlowFits
<1>6. w.t.tried \in BOOLEAN /\ w.t.cache \in Words
  BY <1>1 DEF Transports
<1>7. Sound([t |-> u, c |-> w.c, n |-> w.n], s)
  BY <1>5, <1>6, OnlyFlow
<1>8. QED
  BY <1>2, <1>3, <1>7

(* The cached password may be set (settleAuthResponse).                    *)
LEMMA CacheSound ==
    ASSUME NEW w, NEW s, Sound(w, s), NEW h \in Words
    PROVE  /\ Sound([w EXCEPT !.t.cache = h], s)
           /\ [w EXCEPT !.t.cache = h] = [t |-> [w.t EXCEPT !.cache = h], c |-> w.c, n |-> w.n]
<1> DEFINE u == FlowSet(w.t, w.t.flow, w.t.tried, h)
<1>1. w.t \in Transports /\ w = [t |-> w.t, c |-> w.c, n |-> w.n] /\ FlowHeld(w.t)
  BY DEF Sound, WorldInv
<1>2. u = [w.t EXCEPT !.cache = h]
  BY <1>1 DEF FlowSet, Transports
<1>3. [w EXCEPT !.t.cache = h] = [t |-> [w.t EXCEPT !.cache = h], c |-> w.c, n |-> w.n]
  BY <1>1
<1>4. u.flow = w.t.flow /\ u.socket = w.t.socket
  BY <1>1, <1>2 DEF Transports
<1>5. FlowHeld(u)
  BY <1>1, <1>4 DEF FlowHeld, Awaiting
<1>6. w.t.tried \in BOOLEAN /\ w.t.flow \in Flows \union {None}
  BY <1>1 DEF Transports
<1>7. Sound([t |-> u, c |-> w.c, n |-> w.n], s)
  BY <1>5, <1>6, OnlyFlow
<1>8. QED
  BY <1>2, <1>3, <1>7

(* The replay guard may be set (runAuthFlow).                              *)
LEMMA TriedSound ==
    ASSUME NEW w, NEW s, Sound(w, s), NEW b \in BOOLEAN
    PROVE  /\ Sound([w EXCEPT !.t.tried = b], s)
           /\ [w EXCEPT !.t.tried = b] = [t |-> [w.t EXCEPT !.tried = b], c |-> w.c, n |-> w.n]
<1> DEFINE u == FlowSet(w.t, w.t.flow, b, w.t.cache)
<1>1. w.t \in Transports /\ w = [t |-> w.t, c |-> w.c, n |-> w.n] /\ FlowHeld(w.t)
  BY DEF Sound, WorldInv
<1>2. u = [w.t EXCEPT !.tried = b]
  BY <1>1 DEF FlowSet, Transports
<1>3. [w EXCEPT !.t.tried = b] = [t |-> [w.t EXCEPT !.tried = b], c |-> w.c, n |-> w.n]
  BY <1>1
<1>4. u.flow = w.t.flow /\ u.socket = w.t.socket
  BY <1>1, <1>2 DEF Transports
<1>5. FlowHeld(u)
  BY <1>1, <1>4 DEF FlowHeld, Awaiting
<1>6. w.t.cache \in Words /\ w.t.flow \in Flows \union {None}
  BY <1>1 DEF Transports
<1>7. Sound([t |-> u, c |-> w.c, n |-> w.n], s)
  BY <1>5, <1>6, OnlyFlow
<1>8. QED
  BY <1>2, <1>3, <1>7

(* A flow with another password, field by field.                           *)
LEMMA PasswordSet ==
    ASSUME NEW f \in Flows, NEW p
    PROVE  [f EXCEPT !.password = p] = [at |-> f.at, password |-> p, stale |-> f.stale]
<1>1. QED
  BY DEF Flows

(* The flows the client makes (Flow).                                      *)
LEMMA FlowTyped ==
    ASSUME NEW at \in {"cached", "wipe", "dialog", "typed", "keep"}, NEW p \in Words, NEW b \in BOOLEAN
    PROVE  /\ Flow(at) \in Flows /\ Flow(at).at = at /\ ~Flow(at).stale
           /\ [Flow(at) EXCEPT !.password = p] = [at |-> at, password |-> p, stale |-> FALSE]
           /\ [at |-> at, password |-> p, stale |-> b] \in Flows
<1>1. None \in Words
  BY DEF Words
<1>2. [at |-> at, password |-> p, stale |-> b] \in Flows
  BY DEF Flows
<1>3. Flow(at) \in Flows /\ Flow(at).at = at /\ ~Flow(at).stale
  BY <1>1 DEF Flow, Flows
<1>4. [Flow(at) EXCEPT !.password = p] = [at |-> at, password |-> p, stale |-> FALSE]
  <2>1. [Flow(at) EXCEPT !.password = p] = [at |-> Flow(at).at, password |-> p, stale |-> Flow(at).stale]
    BY <1>3, PasswordSet
  <2>2. Flow(at).stale = FALSE
    BY DEF Flow
  <2>3. QED
    BY <1>3, <2>1, <2>2
<1>5. QED
  BY <1>2, <1>3, <1>4

(* Asking the user, or giving up, keeps a world sound (AskUser).           *)
LEMMA AskUserSound ==
    ASSUME NEW w, NEW s, Sound(w, s), w.t.flow # None
    PROVE  Sound(AskUser(w), s)
<1>1. CASE w.t.flow.stale \/ ~IsOpen(w.t)
  BY <1>1, EndFlowSound DEF AskUser
<1>2. CASE ~(w.t.flow.stale \/ ~IsOpen(w.t))
  <2>1. FlowFits(w.t, Flow("dialog"))
    BY <1>2 DEF FlowFits, Flow, IsOpen
  <2>2. Sound([w EXCEPT !.t.flow = Flow("dialog")], s)
    BY <2>1, FlowSound, FlowTyped DEF Words
  <2>3. QED
    BY <1>2, <2>2 DEF AskUser
<1>3. QED
  BY <1>1, <1>2

(* An attempt at authentication keeps a world sound (attemptAuthenticate). *)
LEMMA AttemptSound ==
    ASSUME NEW w, NEW s, Sound(w, s), s \in [Sids -> Sessions \union {None}], w.t.socket # None,
           NEW at \in {"cached", "typed"}, NEW p \in Passwords
    PROVE  Sound(attemptAuthenticate(w, at, p), s)
<1> DEFINE f == [Flow(at) EXCEPT !.password = p]
           v == [w EXCEPT !.t.flow = f]
<1>1. f \in Flows /\ f.at = at /\ f.password = p /\ ~f.stale /\ p # None
  <2>1. f = [at |-> at, password |-> p, stale |-> FALSE]
    <3>1. p \in Words
      BY DEF Words
    <3>2. QED
      BY <3>1, FlowTyped
  <2>2. f \in Flows
    BY <2>1 DEF Flows, Words
  <2>3. QED
    BY <2>1, <2>2, NoneIsApart
<1>2. Sound(v, s) /\ v = [t |-> [w.t EXCEPT !.flow = f], c |-> w.c, n |-> w.n]
  <2>1. FlowFits(w.t, f)
    BY <1>1 DEF FlowFits
  <2> HIDE DEF f
  <2>2. QED
    BY <1>1, <2>1, FlowSound
<1>3. v.t.socket # None
  BY <1>2 DEF Sound, WorldInv, Transports
<1>4. Authenticate(p) \in Frames
  BY DEF Authenticate, Frames, Nonces, Words
<1>5. QED
  BY <1>2, <1>3, <1>4, SendFrameSound DEF attemptAuthenticate

(* Settling the pending authentication either way keeps a world sound      *)
(* (settleAuthResponse).                                                   *)
LEMMA SettleSound ==
    ASSUME NEW w, NEW s, Sound(w, s), NEW ok \in BOOLEAN
    PROVE  Sound(settleAuthResponse(w, ok), s)
<1>1. CASE ~Awaiting(w.t)
  BY <1>1 DEF settleAuthResponse
<1>2. ASSUME Awaiting(w.t)
      PROVE  /\ w.t.flow # None /\ w.t.flow \in Flows /\ w.t.flow.at \in {"cached", "typed"}
             /\ w.t.flow.password \in Passwords /\ ~w.t.flow.stale /\ w.t.socket # None /\ w.t \in Transports
  BY <1>2 DEF Awaiting, Sound, WorldInv, FlowHeld, Transports, Flows, Words
<1>3. CASE Awaiting(w.t) /\ ok /\ w.t.flow.at = "cached"
  BY <1>3, EndFlowSound DEF settleAuthResponse
<1>4. CASE Awaiting(w.t) /\ ~ok /\ w.t.flow.at = "cached"
  <2> DEFINE v == [w EXCEPT !.t.flow = Flow("wipe")]
  <2>1. Sound(v, s)
    <3>1. Flow("wipe") \in Flows /\ FlowFits(w.t, Flow("wipe"))
      BY <1>2, <1>4, FlowTyped DEF FlowFits, Words
    <3>2. QED
      BY <3>1, FlowSound
  <2>2. Sound([v EXCEPT !.t.cache = None], s)
    BY <2>1, CacheSound DEF Words
  <2>3. settleAuthResponse(w, ok) = [v EXCEPT !.t.cache = None]
    BY <1>4 DEF settleAuthResponse
  <2>4. QED
    BY <2>2, <2>3
<1>5. CASE Awaiting(w.t) /\ ok /\ w.t.flow.at # "cached"
  <2> DEFINE f == [w.t.flow EXCEPT !.at = "keep"]
             v == [w EXCEPT !.t.flow = f]
  <2>1. f \in Flows /\ FlowFits(w.t, f)
    BY <1>2, <1>5, NoneIsApart DEF FlowFits, Flows
  <2>2. Sound(v, s)
    <3> HIDE DEF f
    <3>1. QED
      BY <2>1, FlowSound
  <2>3. Sound([v EXCEPT !.t.cache = w.t.flow.password], s)
    BY <1>2, <1>5, <2>2, CacheSound DEF Words
  <2>4. settleAuthResponse(w, ok) = [v EXCEPT !.t.cache = w.t.flow.password]
    BY <1>5 DEF settleAuthResponse
  <2>5. QED
    BY <2>3, <2>4
<1>6. CASE Awaiting(w.t) /\ ~ok /\ w.t.flow.at # "cached"
  BY <1>2, <1>6, AskUserSound DEF settleAuthResponse
<1>7. QED
  BY <1>1, <1>3, <1>4, <1>5, <1>6

(* Starting, joining or refusing a flow keeps a world sound (runAuthFlow). *)
LEMMA RunFlowSound ==
    ASSUME NEW w, NEW s, Sound(w, s), s \in [Sids -> Sessions \union {None}]
    PROVE  Sound(runAuthFlow(w), s)
<1>1. CASE w.t.flow # None
  <2> DEFINE c == [w.c EXCEPT !.coalesced = @ \/ w.t.flow.stale]
  <2>1. runAuthFlow(w) = [t |-> w.t, c |-> c, n |-> w.n]
    BY <1>1 DEF runAuthFlow, Sound
  <2>2. c \in Consumers /\ c.up = w.c.up
    <3>1. w.t.flow.stale \in BOOLEAN
      BY <1>1 DEF Sound, WorldInv, Transports, Flows
    <3>2. w.c \in Consumers
      BY DEF Sound, WorldInv
    <3>3. QED
      BY <3>1, <3>2 DEF Consumers
  <2>3. QED
    BY <2>1, <2>2, OnlyTold
<1>2. CASE w.t.flow = None /\ ~IsOpen(w.t)
  BY <1>2 DEF runAuthFlow
<1>3. CASE w.t.flow = None /\ IsOpen(w.t) /\ w.t.cache # None /\ ~w.t.tried
  <2> DEFINE v == [w EXCEPT !.t.tried = TRUE]
  <2>1. Sound(v, s) /\ v = [t |-> [w.t EXCEPT !.tried = TRUE], c |-> w.c, n |-> w.n]
    BY TriedSound
  <2>2. w.t \in Transports
    BY DEF Sound, WorldInv
  <2>3. w.t.cache \in Passwords /\ v.t.socket # None
    BY <1>3, <2>1, <2>2 DEF Transports, Words, IsOpen
  <2>4. runAuthFlow(w) = attemptAuthenticate(v, "cached", w.t.cache)
    BY <1>3 DEF runAuthFlow
  <2>5. Sound(attemptAuthenticate(v, "cached", w.t.cache), s)
    <3> HIDE DEF v
    <3>1. QED
      BY <2>1, <2>3, AttemptSound
  <2>6. QED
    BY <2>4, <2>5
<1>4. CASE w.t.flow = None /\ IsOpen(w.t) /\ ~(w.t.cache # None /\ ~w.t.tried)
  <2> DEFINE v == [w EXCEPT !.t.flow = Flow("dialog")]
  <2>1. Flow("dialog") \in Flows /\ FlowFits(w.t, Flow("dialog"))
    BY <1>4, FlowTyped DEF FlowFits, Words, IsOpen
  <2>2. Sound(v, s) /\ v = [t |-> [w.t EXCEPT !.flow = Flow("dialog")], c |-> w.c, n |-> w.n]
    BY <2>1, FlowSound
  <2>3. v.t.flow # None
    BY <2>1, <2>2, NoneIsApart DEF Sound, WorldInv, Transports
  <2>4. runAuthFlow(w) = AskUser(v)
    BY <1>4 DEF runAuthFlow
  <2>5. QED
    BY <2>2, <2>3, <2>4, AskUserSound
<1>5. QED
  BY <1>1, <1>2, <1>3, <1>4

(* Between the two: a connection that is gone may still be listened to.    *)
LooseShape(x) ==
    /\ x.at = "asked" => x.down = <<>>
    /\ x.sse => /\ x.up = <<>>
                /\ x.closing => x.gone
                /\ x.at = "asked" /\ x.over => x.cut \/ x.gone
    /\ ~x.sse => /\ x.at \in {"asked", "open"} /\ x.body = NoBody
                 /\ \A e \in Told(x) : e.type \notin {"session", "close"}

(* A world in the middle of a step that is about to sweep its streams.     *)
Loose(w, s) ==
    /\ w = [t |-> w.t, c |-> w.c, n |-> w.n]
    /\ w.t \in Transports /\ w.c \in Consumers /\ w.n \in Wires
    /\ NonceHeld(w.t, w.c) /\ Reconnects(w.t) /\ FlowHeld(w.t)
    /\ \A m \in Streams : w.n[m] # None => LooseShape(w.n[m])
    /\ Served(w.n, s)

(* A sound world is one of those.                                          *)
LEMMA SoundIsLoose ==
    ASSUME NEW w, NEW s, Sound(w, s)
    PROVE  Loose(w, s)
<1>1. QED
  BY DEF Sound, Loose, WorldInv, Shapes, Shape, LooseShape

(* Sweeping takes away the streams that both ends are done with and no     *)
(* other (Swept).                                                          *)
LEMMA SweptHolds ==
    ASSUME NEW n \in Wires
    PROVE  /\ Swept(n) \in Wires
           /\ \A k \in Streams : Swept(n)[k] # None =>
                 /\ n[k] # None /\ Swept(n)[k] = n[k] /\ ~(n[k].gone /\ n[k].over)
           /\ \A k \in Streams : n[k] # None /\ ~(n[k].gone /\ n[k].over) => Swept(n)[k] = n[k]
<1>1. QED
  BY DEF Swept, Wires

(* What is left has the shape of a stream at rest (Swept).                 *)
LEMMA SweptShapes ==
    ASSUME NEW n \in Wires, \A m \in Streams : n[m] # None => LooseShape(n[m])
    PROVE  Shapes(Swept(n))
<1>1. QED
  BY SweptHolds DEF Shapes, Shape, LooseShape

(* No session loses its response to a sweep (Swept).                       *)
LEMMA SweptServed ==
    ASSUME NEW n, NEW k \in Wires, NEW s \in [Sids -> Sessions \union {None}], Served(n, s),
           \A m \in Streams : n[m] # None =>
              /\ k[m] # None /\ k[m].over = n[m].over
              /\ n[m].at \in {"served", "open"} => k[m].at \in {"served", "open"}
    PROVE  Served(Swept(k), s)
<1>1. ASSUME NEW x \in Sids, s[x] # None
      PROVE  LET m == s[x].res IN
             Swept(k)[m] # None /\ ~Swept(k)[m].over /\ Swept(k)[m].at \in {"served", "open"}
  <2> DEFINE m == s[x].res
  <2>1. m \in Streams
    BY <1>1 DEF Sessions
  <2>2. n[m] # None /\ ~n[m].over /\ n[m].at \in {"served", "open"}
    BY <1>1 DEF Served
  <2>3. k[m] # None /\ ~k[m].over /\ k[m].at \in {"served", "open"}
    BY <2>1, <2>2
  <2>4. Swept(k)[m] = k[m]
    BY <2>1, <2>3, SweptHolds
  <2>5. QED
    BY <2>3, <2>4
<1>2. QED
  BY <1>1 DEF Served

(* What the client lets go of is a stream of nobody's (LetGo).             *)
LEMMA LetGoHolds ==
    ASSUME NEW x \in Connections, LooseShape(x)
    PROVE  /\ LetGo(x) \in Connections /\ ~LetGo(x).mine /\ LooseShape(LetGo(x))
           /\ LetGo(x).at = x.at /\ LetGo(x).over = x.over
<1>1. LetGo(x) \in Connections /\ ~LetGo(x).mine /\ LetGo(x).at = x.at /\ LetGo(x).over = x.over
      /\ LetGo(x).down = <<>> /\ LetGo(x).sse = x.sse /\ LetGo(x).up = x.up /\ LetGo(x).body = x.body
      /\ LetGo(x).cut = x.cut /\ (x.sse => LetGo(x).gone)
  <2>1. <<>> \in Seq(Events)
    OBVIOUS
  <2>2. QED
    BY <2>1 DEF LetGo, Connections
<1>2. Told(LetGo(x)) = {}
  BY <1>1 DEF Told
<1>3. QED
  BY <1>1, <1>2 DEF LooseShape

(* Once all streams of a socket are let go the client owns none, and the   *)
(* sessions still have their responses (Unlistened).                       *)
LEMMA UnlistenedHolds ==
    ASSUME NEW n \in Wires, NEW s \in [Sids -> Sessions \union {None}], Served(n, s),
           \A m \in Streams : n[m] # None => LooseShape(n[m])
    PROVE  LET k == Unlistened(n) IN
           /\ k \in Wires /\ Shapes(k) /\ Served(k, s)
           /\ \A m \in Streams : ~Own(k, m) /\ (n[m] = None => k[m] = None)
<1> DEFINE l == [m \in Streams |-> IF n[m] # None /\ n[m].mine THEN LetGo(n[m]) ELSE n[m]]
<1>1. \A m \in Streams : n[m] # None =>
         /\ l[m] \in Connections /\ l[m] # None /\ ~l[m].mine /\ LooseShape(l[m])
         /\ l[m].at = n[m].at /\ l[m].over = n[m].over
  BY LetGoHolds, NoneIsApart DEF Wires
<1>2. \A m \in Streams : n[m] = None => l[m] = None
  OBVIOUS
<1>3. l \in Wires
  BY <1>1, <1>2 DEF Wires
<1>4. Unlistened(n) = Swept(l)
  BY DEF Unlistened
<1> HIDE DEF l
<1>5. Shapes(Swept(l))
  BY <1>1, <1>2, <1>3, SweptShapes
<1>6. Served(Swept(l), s)
  BY <1>1, <1>3, SweptServed
<1>7. \A m \in Streams : ~Own(Swept(l), m) /\ (n[m] = None => Swept(l)[m] = None)
  BY <1>1, <1>2, <1>3, SweptHolds DEF Own
<1>8. QED
  BY <1>3, <1>4, <1>5, <1>6, <1>7, SweptHolds

(* The fields DropSocket sets.                                             *)
Dropped(t) == [t EXCEPT !.socket = None, !.nonce = None, !.tried = FALSE, !.flow = AbandonedFlow(t)]

(* The flow of a dropped socket is stale, or has ended (AbandonedFlow).    *)
LEMMA AbandonedHolds ==
    ASSUME NEW t \in Transports, FlowHeld(t)
    PROVE  LET f == AbandonedFlow(t) IN
           f \in Flows \union {None} /\ (f # None => f.stale /\ (f.at \in {"cached", "typed", "keep"} => f.password # None)
                                                  /\ f.at \notin {"cached", "typed"})
<1>1. CASE t.flow = None \/ Awaiting(t)
  BY <1>1 DEF AbandonedFlow
<1>2. CASE ~(t.flow = None \/ Awaiting(t))
  <2> DEFINE f == [t.flow EXCEPT !.stale = TRUE]
  <2>1. t.flow \in Flows
    BY <1>2 DEF Transports
  <2>2. f \in Flows /\ f.stale /\ f.at = t.flow.at /\ f.password = t.flow.password
    BY <2>1 DEF Flows
  <2>3. AbandonedFlow(t) = f
    BY <1>2 DEF AbandonedFlow
  <2>4. QED
    BY <1>2, <2>2, <2>3 DEF FlowHeld, Awaiting
<1>3. QED
  BY <1>1, <1>2

(* What dropping the socket leaves of the transport (DropSocket).          *)
LEMMA DroppedHolds ==
    ASSUME NEW t \in Transports, FlowHeld(t), Reconnects(t), t.socket # None
    PROVE  LET u == Dropped(t) IN
           /\ u \in Transports /\ u.socket = None /\ u.nonce = None /\ ~u.reconnecting
           /\ u.handles = t.handles /\ u.closed = t.closed /\ u.locked = t.locked /\ u.url = t.url
           /\ FlowHeld(u)
<1> DEFINE f == AbandonedFlow(t)
           u == Dropped(t)
<1>1. f \in Flows \union {None} /\ (f # None => f.stale /\ (f.at \in {"cached", "typed", "keep"} => f.password # None)
                                                  /\ f.at \notin {"cached", "typed"})
  BY AbandonedHolds
<1>2. None \in Nonces
  BY DEF Nonces
<1> HIDE DEF f
<1>3. u = [t EXCEPT !.socket = None, !.nonce = None, !.tried = FALSE, !.flow = f]
  BY DEF Dropped, f
<1> HIDE DEF u
<1>4. u \in Transports /\ u.socket = None /\ u.nonce = None /\ u.reconnecting = t.reconnecting
           /\ u.handles = t.handles /\ u.closed = t.closed /\ u.locked = t.locked /\ u.url = t.url /\ u.flow = f
  BY <1>1, <1>2, <1>3 DEF Transports
<1>5. FlowHeld(u)
  BY <1>1, <1>4 DEF FlowHeld, Awaiting
<1>6. ~t.reconnecting
  BY DEF Reconnects
<1>7. QED
  BY <1>4, <1>5, <1>6 DEF u

(* DropSocket, field by field.                                             *)
LEMMA DropSocketIs ==
    ASSUME NEW w, w = [t |-> w.t, c |-> w.c, n |-> w.n]
    PROVE  DropSocket(w) = [t |-> Dropped(w.t), c |-> w.c, n |-> Unlistened(w.n)]
<1> DEFINE f == AbandonedFlow(w.t)
           l == Unlistened(w.n)
           no == FALSE
           t1 == [w.t EXCEPT !.socket = None]
           t2 == [t1 EXCEPT !.nonce = None]
           t3 == [t2 EXCEPT !.tried = no]
           t4 == [t3 EXCEPT !.flow = f]
           v1 == [w EXCEPT !.t.socket = None]
           v2 == [v1 EXCEPT !.t.nonce = None]
           v3 == [v2 EXCEPT !.t.tried = no]
           v4 == [v3 EXCEPT !.t.flow = f]
           v5 == [v4 EXCEPT !.n = l]
<1>1. DropSocket(w) = v5
  BY DEF DropSocket
<1>2. Dropped(w.t) = t4
  BY DEF Dropped
<1> HIDE DEF f, l, no
<1>3. v1 = [t |-> t1, c |-> w.c, n |-> w.n]
  BY SMT
<1> HIDE DEF v1, t1
<1>4. v2 = [t |-> t2, c |-> w.c, n |-> w.n]
  BY <1>3, SMT
<1> HIDE DEF v2, t2
<1>5. v3 = [t |-> t3, c |-> w.c, n |-> w.n]
  BY <1>4, SMT
<1> HIDE DEF v3, t3
<1>6. v4 = [t |-> t4, c |-> w.c, n |-> w.n]
  BY <1>5, SMT
<1> HIDE DEF v4, t4
<1>7. v5 = [t |-> t4, c |-> w.c, n |-> l]
  BY <1>6, SMT
<1> HIDE DEF v5
<1>8. QED
  BY <1>1, <1>2, <1>7 DEF l

(* Disconnected consumers have no nonce (NewConsumer).                     *)
LEMMA NobodyHears ==
    ASSUME NEW c \in Consumers
    PROVE  NewConsumer(c) \in Consumers /\ NewConsumer(c).up = None
<1>1. QED
  BY DEF NewConsumer, Consumers, Nonces

(* A world without a socket whose consumers know.                          *)
LEMMA DroppedSound ==
    ASSUME NEW w, NEW s \in [Sids -> Sessions \union {None}], Loose(w, s), w.t.socket # None,
           NEW c \in Consumers, c.up = None
    PROVE  LET v == [t |-> Dropped(w.t), c |-> c, n |-> Unlistened(w.n)] IN
           /\ Sound(v, s) /\ v.t.socket = None /\ ~v.t.reconnecting
           /\ v.t.handles = w.t.handles /\ v.t.closed = w.t.closed /\ v.t.locked = w.t.locked /\ v.t.url = w.t.url
           /\ \A m \in Streams : w.n[m] = None => v.n[m] = None
<1> DEFINE u == Dropped(w.t)
           l == Unlistened(w.n)
           v == [t |-> u, c |-> c, n |-> l]
<1>1. u \in Transports /\ u.socket = None /\ u.nonce = None /\ ~u.reconnecting /\ FlowHeld(u)
      /\ u.handles = w.t.handles /\ u.closed = w.t.closed /\ u.locked = w.t.locked /\ u.url = w.t.url
  BY DroppedHolds DEF Loose
<1>2. l \in Wires /\ Shapes(l) /\ Served(l, s) /\ \A m \in Streams : ~Own(l, m) /\ (w.n[m] = None => l[m] = None)
  BY UnlistenedHolds DEF Loose
<1> HIDE DEF u, l
<1>3. NonceHeld(u, c) /\ Reconnects(u) /\ Numbered(u, l) /\ OwnsItsOwn(u, l)
  BY <1>1, <1>2 DEF NonceHeld, Reconnects, Numbered, OwnsItsOwn
<1>4. Sound(v, s)
  BY <1>1, <1>2, <1>3 DEF Sound, WorldInv
<1>5. QED
  BY <1>1, <1>2, <1>4 DEF u, l

(* Dropping the socket and telling the consumers (notifyDisconnected)      *)
(* makes a world sound again.                                              *)
LEMMA DropAndTellSound ==
    ASSUME NEW w, NEW s \in [Sids -> Sessions \union {None}], Loose(w, s), w.t.socket # None
    PROVE  LET v == notifyDisconnected(DropSocket(w)) IN
           /\ Sound(v, s) /\ v.t.socket = None /\ ~v.t.reconnecting
           /\ v.t.handles = w.t.handles /\ v.t.closed = w.t.closed /\ v.t.locked = w.t.locked /\ v.t.url = w.t.url
           /\ \A m \in Streams : w.n[m] = None => v.n[m] = None
<1> DEFINE u == Dropped(w.t)
           l == Unlistened(w.n)
           c == NewConsumer(w.c)
<1>1. DropSocket(w) = [t |-> u, c |-> w.c, n |-> l]
  BY DropSocketIs DEF Loose
<1>2. notifyDisconnected(DropSocket(w)) = [t |-> u, c |-> c, n |-> l]
  BY <1>1 DEF notifyDisconnected
<1>3. c \in Consumers /\ c.up = None
  BY NobodyHears DEF Loose
<1> HIDE DEF c
<1>4. QED
  BY <1>2, <1>3, DroppedSound

(* What teardown and the close event keep of the transport.                *)
KeepsWish(w, v) ==
    /\ v.t.handles = w.t.handles /\ v.t.closed = w.t.closed /\ v.t.locked = w.t.locked /\ v.t.url = w.t.url
    /\ \A m \in Streams : w.n[m] = None => v.n[m] = None

(* A teardown leaves no socket and a sound world (teardownCurrentSocket).  *)
LEMMA TeardownSound ==
    ASSUME NEW w, NEW s \in [Sids -> Sessions \union {None}], Sound(w, s)
    PROVE  LET v == teardownCurrentSocket(w) IN
           /\ Sound(v, s) /\ v.t.socket = None /\ KeepsWish(w, v)
           /\ ~w.t.reconnecting => ~v.t.reconnecting
<1>1. CASE w.t.socket = None
  BY <1>1 DEF teardownCurrentSocket, KeepsWish
<1>2. CASE w.t.socket # None
  <2>1. teardownCurrentSocket(w) = notifyDisconnected(DropSocket(w))
    BY <1>2 DEF teardownCurrentSocket
  <2>2. QED
    BY <1>2, <2>1, SoundIsLoose, DropAndTellSound DEF KeepsWish
<1>3. QED
  BY <1>1, <1>2

(* A new socket (NewSocket).                                               *)
LEMMA NewSocketTyped ==
    ASSUME NEW b \in BOOLEAN
    PROVE  /\ NewSocket(b) \in Sockets /\ NewSocket(b).sse = b /\ NewSocket(b).dispatched = 0
           /\ NewSocket(b).flushing = b /\ NewSocket(b).postSeq = 0 /\ NewSocket(b).state = "connecting"
<1>1. <<>> \in Seq(Frames)
  OBVIOUS
<1>2. QED
  BY <1>1 DEF NewSocket, Sockets, Nonces, Words

(* A new stream (NewStream).                                               *)
LEMMA NewStreamTyped ==
    ASSUME NEW b \in BOOLEAN, NEW k \in Nat, NEW body \in Bodies, ~b => body = NoBody
    PROVE  LET x == NewStream(b, k, body) IN
           /\ x \in Connections /\ Shape(x) /\ x.mine /\ x.sse = b /\ x.seq = k /\ ~x.gone /\ x.at = "asked"
           /\ x.body = body /\ x.up = <<>> /\ x.down = <<>>
<1> DEFINE x == NewStream(b, k, body)
<1>1. <<>> \in Seq(Frames) /\ <<>> \in Seq(Events)
  OBVIOUS
<1>2. x \in Connections
  BY <1>1 DEF NewStream, Connections
<1>3. x.mine /\ x.sse = b /\ x.seq = k /\ ~x.gone /\ ~x.over /\ ~x.closing /\ x.at = "asked" /\ x.body = body
      /\ x.up = <<>> /\ x.down = <<>>
  BY DEF NewStream
<1>4. Told(x) = {}
  BY <1>3 DEF Told
<1> HIDE DEF x
<1>5. Shape(x)
  BY <1>3, <1>4 DEF Shape
<1>6. QED
  BY <1>2, <1>3, <1>5 DEF x

(* The empty body (NoBody).                                                *)
LEMMA NoBodyTyped ==
    NoBody \in Bodies
<1>1. <<>> \in Seq(Frames)
  OBVIOUS
<1>2. QED
  BY <1>1 DEF NoBody, Bodies, Nonces, Words

(* A world made of sound parts is sound.                                   *)
LEMMA MakeSound ==
    ASSUME NEW t, NEW c, NEW n, NEW s, WorldInv(t, c, n), Served(n, s)
    PROVE  Sound([t |-> t, c |-> c, n |-> n], s)
<1>1. QED
  BY DEF Sound

(* The fields a new socket sets.                                           *)
Opened(t, sse) == [t EXCEPT !.socket = NewSocket(sse), !.nonce = None, !.tried = FALSE]

(* Opening a socket as a change of the transport (tryOpen).                *)
LEMMA OpenedIs ==
    ASSUME NEW w, w = [t |-> w.t, c |-> w.c, n |-> w.n], NEW sse
    PROVE  [w EXCEPT !.t.socket = NewSocket(sse), !.t.nonce = None, !.t.tried = FALSE]
             = [t |-> Opened(w.t, sse), c |-> w.c, n |-> w.n]
<1> DEFINE k == NewSocket(sse)
           no == FALSE
           t1 == [w.t EXCEPT !.socket = k]
           t2 == [t1 EXCEPT !.nonce = None]
           t3 == [t2 EXCEPT !.tried = no]
           v1 == [w EXCEPT !.t.socket = k]
           v2 == [v1 EXCEPT !.t.nonce = None]
           v3 == [v2 EXCEPT !.t.tried = no]
<1>1. [w EXCEPT !.t.socket = NewSocket(sse), !.t.nonce = None, !.t.tried = FALSE] = v3
  OBVIOUS
<1>2. Opened(w.t, sse) = t3
  BY DEF Opened
<1> HIDE DEF k, no
<1>3. v1 = [t |-> t1, c |-> w.c, n |-> w.n]
  BY SMT
<1> HIDE DEF v1, t1
<1>4. v2 = [t |-> t2, c |-> w.c, n |-> w.n]
  BY <1>3, SMT
<1> HIDE DEF v2, t2
<1>5. v3 = [t |-> t3, c |-> w.c, n |-> w.n]
  BY <1>4, SMT
<1> HIDE DEF v3, t3
<1>6. QED
  BY <1>1, <1>2, <1>5

(* What opening a socket leaves of the transport (tryOpen).                *)
LEMMA OpenedHolds ==
    ASSUME NEW t \in Transports, FlowHeld(t), NEW sse \in BOOLEAN
    PROVE  LET u == Opened(t, sse) IN
           /\ u \in Transports /\ u.socket = NewSocket(sse) /\ u.nonce = None /\ FlowHeld(u)
           /\ u.reconnecting = t.reconnecting /\ u.socket # None
<1> DEFINE k == NewSocket(sse)
           u == Opened(t, sse)
<1>1. k \in Sockets /\ k # None
  BY NewSocketTyped, NoneIsApart
<1>2. None \in Nonces
  BY DEF Nonces
<1>3. u = [t EXCEPT !.socket = k, !.nonce = None, !.tried = FALSE]
  BY DEF Opened
<1> HIDE DEF k, u
<1>4. u \in Transports /\ u.socket = k /\ u.nonce = None /\ u.reconnecting = t.reconnecting /\ u.flow = t.flow
  BY <1>1, <1>2, <1>3 DEF Transports
<1>5. FlowHeld(u)
  BY <1>1, <1>4 DEF FlowHeld, Awaiting
<1>6. QED
  BY <1>1, <1>4, <1>5 DEF k, u

(* The SSE fallback opens without a stream: its first POST is to come      *)
(* (tryOpen).                                                              *)
LEMMA TryOpenSseSound ==
    ASSUME NEW w, NEW s, Sound(w, s), w.t.socket = None, ~w.t.reconnecting
    PROVE  Sound(tryOpen(w, TRUE), s)
<1>1. CASE ~MayOpen(w.t)
  BY <1>1 DEF tryOpen
<1>2. CASE MayOpen(w.t)
  <2> DEFINE u == Opened(w.t, TRUE)
  <2>1. tryOpen(w, TRUE) = [t |-> u, c |-> w.c, n |-> w.n]
    BY <1>2, OpenedIs DEF tryOpen, Sound
  <2>2. u \in Transports /\ u.socket = NewSocket(TRUE) /\ u.nonce = None /\ FlowHeld(u)
        /\ ~u.reconnecting /\ u.socket # None
    BY OpenedHolds DEF Sound, WorldInv
  <2> HIDE DEF u
  <2>3. u.socket.sse /\ (u.socket.flushing => u.socket.sse) /\ u.socket.dispatched = 0 /\ u.socket.postSeq = 0 /\ u.socket.state = "connecting"
    BY <2>2, NewSocketTyped
  <2>4. \A m \in Streams : ~Own(w.n, m)
    BY DEF Sound, WorldInv, OwnsItsOwn
  <2>5. NonceHeld(u, w.c) /\ Reconnects(u)
    BY <2>2, <2>3 DEF Sound, WorldInv, NonceHeld, Reconnects
  <2>6. Numbered(u, w.n) /\ OwnsItsOwn(u, w.n)
    <3>1. u.socket.dispatched <= u.socket.postSeq
      BY <2>3
    <3>2. Numbered(u, w.n)
      BY <2>3, <2>4, <3>1 DEF Numbered
    <3>3. OwnsItsOwn(u, w.n)
      BY <2>3, <2>4 DEF OwnsItsOwn
    <3>4. QED
      BY <3>2, <3>3
  <2>7. WorldInv(u, w.c, w.n) /\ Served(w.n, s)
    BY <2>2, <2>5, <2>6 DEF Sound, WorldInv
  <2>8. QED
    BY <2>1, <2>7, MakeSound
<1>3. QED
  BY <1>1, <1>2

(* FreeStream names a free stream while there is one.                      *)
LEMMA FreeIsFree ==
    ASSUME NEW w, \E m \in Streams : w.n[m] = None
    PROVE  FreeStream(w) \in Streams /\ w.n[FreeStream(w)] = None
<1>1. QED
  BY DEF FreeStream

(* A stream joins the world.                                               *)
LEMMA JoinServed ==
    ASSUME NEW n \in Wires, NEW s \in [Sids -> Sessions \union {None}], Served(n, s), Shapes(n),
           NEW m \in Streams, n[m] = None, NEW x \in Connections, Shape(x)
    PROVE  LET k == [n EXCEPT ![m] = x] IN
           /\ k \in Wires /\ Served(k, s) /\ Shapes(k) /\ k[m] = x
           /\ \A j \in Streams : j # m => k[j] = n[j]
           /\ \A j \in Streams : Own(k, j) <=> (Own(n, j) \/ (j = m /\ x.mine))
<1> DEFINE k == [n EXCEPT ![m] = x]
<1>1. k \in Wires /\ k[m] = x /\ x # None /\ \A j \in Streams : j # m => k[j] = n[j]
  BY NoneIsApart DEF Wires
<1> HIDE DEF k
<1>2. Shapes(k)
  BY <1>1 DEF Shapes
<1>3. Served(k, s)
  <2>1. \A y \in Sids : s[y] # None => s[y].res \in Streams /\ s[y].res # m
    BY DEF Served, Sessions
  <2>2. QED
    BY <1>1, <2>1 DEF Served
<1>4. \A j \in Streams : Own(k, j) <=> (Own(n, j) \/ (j = m /\ x.mine))
  BY <1>1 DEF Own
<1>5. QED
  BY <1>1, <1>2, <1>3, <1>4 DEF k

(* Opening a WebSocket keeps a world sound (tryOpen).                      *)
LEMMA TryOpenSocketSound ==
    ASSUME NEW w, NEW s \in [Sids -> Sessions \union {None}], Sound(w, s), w.t.socket = None, ~w.t.reconnecting,
           \E m \in Streams : w.n[m] = None
    PROVE  Sound(tryOpen(w, FALSE), s)
<1>1. CASE ~MayOpen(w.t)
  BY <1>1 DEF tryOpen
<1>2. CASE MayOpen(w.t)
  <2> DEFINE u == Opened(w.t, FALSE)
             m == FreeStream(w)
             x == NewStream(FALSE, 0, NoBody)
             k == [w.n EXCEPT ![m] = x]
             v == [w EXCEPT !.t.socket = NewSocket(FALSE), !.t.nonce = None, !.t.tried = FALSE]
  <2>1. tryOpen(w, FALSE) = [v EXCEPT !.n[m] = x]
    BY <1>2 DEF tryOpen
  <2>2. v = [t |-> u, c |-> w.c, n |-> w.n]
    BY OpenedIs DEF Sound
  <2>3. m \in Streams /\ w.n[m] = None
    BY FreeIsFree
  <2>4. x \in Connections /\ Shape(x) /\ x.mine /\ ~x.sse /\ x.seq = 0 /\ ~x.gone
    BY NewStreamTyped, NoBodyTyped
  <2>5. u \in Transports /\ u.socket = NewSocket(FALSE) /\ u.nonce = None /\ FlowHeld(u)
        /\ ~u.reconnecting /\ u.socket # None
    BY OpenedHolds DEF Sound, WorldInv
  <2>6. ~u.socket.sse /\ (u.socket.flushing => u.socket.sse) /\ u.socket.dispatched = 0 /\ u.socket.postSeq = 0 /\ u.socket.state = "connecting"
    BY <2>5, NewSocketTyped
  <2> HIDE DEF u, m, x, v
  <2>7. tryOpen(w, FALSE) = [t |-> u, c |-> w.c, n |-> k]
    BY <2>1, <2>2
  <2>8. k \in Wires /\ Served(k, s) /\ Shapes(k) /\ k[m] = x
        /\ \A j \in Streams : Own(k, j) <=> (Own(w.n, j) \/ (j = m /\ x.mine))
    BY <2>3, <2>4, JoinServed DEF Sound, WorldInv
  <2>9. \A j \in Streams : Own(k, j) <=> j = m
    BY <2>4, <2>8 DEF Sound, WorldInv, OwnsItsOwn
  <2> HIDE DEF k
  <2>10. NonceHeld(u, w.c) /\ Reconnects(u)
    BY <2>5, <2>6 DEF Sound, WorldInv, NonceHeld, Reconnects
  <2>11. Numbered(u, k) /\ OwnsItsOwn(u, k)
    <3>1. u.socket.dispatched <= u.socket.postSeq /\ k[m].seq <= u.socket.postSeq
      BY <2>4, <2>6, <2>8
    <3>2. Numbered(u, k)
      BY <2>6, <2>9, <3>1 DEF Numbered
    <3>3. OwnsItsOwn(u, k)
      <4>1. u.socket.sse \in BOOLEAN /\ x.sse \in BOOLEAN
        BY <2>4, <2>5, NewSocketTyped DEF Connections, Sockets
      <4>2. k[m].sse = u.socket.sse /\ ~k[m].gone
        BY <2>4, <2>6, <2>8, <4>1
      <4>3. QED
        BY <2>3, <2>5, <2>6, <2>9, <4>2 DEF OwnsItsOwn
    <3>4. QED
      BY <3>2, <3>3
  <2>12. WorldInv(u, w.c, k) /\ Served(k, s)
    BY <2>5, <2>8, <2>10, <2>11 DEF Sound, WorldInv
  <2>13. QED
    BY <2>7, <2>12, MakeSound
<1>3. QED
  BY <1>1, <1>2

(* Opening a socket unless there is one keeps a world sound (openSocket).  *)
LEMMA OpenSocketSound ==
    ASSUME NEW w, NEW s \in [Sids -> Sessions \union {None}], Sound(w, s), ~w.t.reconnecting,
           \E m \in Streams : w.n[m] = None
    PROVE  Sound(openSocket(w), s)
<1>1. CASE w.t.socket # None
  BY <1>1 DEF openSocket
<1>2. CASE w.t.socket = None
  BY <1>2, TryOpenSocketSound DEF openSocket
<1>3. QED
  BY <1>1, <1>2

(* The rest of the transport, which no stream depends on.                  *)
LEMMA WishSound ==
    ASSUME NEW w, NEW s, Sound(w, s), NEW u \in Transports,
           u.socket = w.t.socket, u.nonce = w.t.nonce, u.flow = w.t.flow,
           u.reconnecting => MayOpen(u) /\ u.socket = None
    PROVE  Sound([t |-> u, c |-> w.c, n |-> w.n], s)
<1>1. NonceHeld(u, w.c) /\ Reconnects(u)
  BY DEF Sound, WorldInv, NonceHeld, Reconnects
<1>2. Numbered(u, w.n) /\ OwnsItsOwn(u, w.n)
  BY DEF Sound, WorldInv, Numbered, OwnsItsOwn
<1>3. FlowHeld(u)
  BY DEF Sound, WorldInv, FlowHeld, Awaiting
<1>4. WorldInv(u, w.c, w.n) /\ Served(w.n, s)
  BY <1>1, <1>2, <1>3 DEF Sound, WorldInv
<1>5. QED
  BY <1>4, MakeSound

(* Arming the reconnect timer as a change of the transport.                *)
LEMMA ReconnectingSet ==
    ASSUME NEW w, w = [t |-> w.t, c |-> w.c, n |-> w.n], NEW b
    PROVE  [w EXCEPT !.t.reconnecting = b] = [t |-> [w.t EXCEPT !.reconnecting = b], c |-> w.c, n |-> w.n]
<1>1. QED
  BY SMT

(* Arming the reconnect timer keeps a world without a socket sound         *)
(* (scheduleReconnect).                                                    *)
LEMMA ScheduleReconnectSound ==
    ASSUME NEW w, NEW s, Sound(w, s), w.t.socket = None
    PROVE  Sound(scheduleReconnect(w), s)
<1> DEFINE b == MayOpen(w.t)
           u == [w.t EXCEPT !.reconnecting = b]
<1>1. w.t \in Transports /\ w = [t |-> w.t, c |-> w.c, n |-> w.n]
  BY DEF Sound, WorldInv
<1>2. b \in BOOLEAN
  BY <1>1 DEF MayOpen, Transports
<1>3. scheduleReconnect(w) = [t |-> u, c |-> w.c, n |-> w.n]
  BY <1>1, ReconnectingSet DEF scheduleReconnect
<1>4. u \in Transports /\ u.socket = w.t.socket /\ u.nonce = w.t.nonce /\ u.flow = w.t.flow
      /\ (u.reconnecting <=> MayOpen(w.t)) /\ u.closed = w.t.closed /\ u.locked = w.t.locked
      /\ u.handles = w.t.handles /\ u.url = w.t.url
  BY <1>1, <1>2 DEF Transports
<1> HIDE DEF u
<1>5. MayOpen(u) <=> MayOpen(w.t)
  BY <1>4 DEF MayOpen
<1>6. QED
  BY <1>3, <1>4, <1>5, WishSound

(* clearReconnect, field by field.                                         *)
LEMMA ClearReconnectIs ==
    ASSUME NEW w, w = [t |-> w.t, c |-> w.c, n |-> w.n]
    PROVE  clearReconnect(w) = [t |-> [w.t EXCEPT !.reconnecting = FALSE], c |-> w.c, n |-> w.n]
<1> DEFINE no == FALSE
<1>1. clearReconnect(w) = [w EXCEPT !.t.reconnecting = no]
  BY DEF clearReconnect
<1> HIDE DEF no
<1>2. clearReconnect(w) = [t |-> [w.t EXCEPT !.reconnecting = no], c |-> w.c, n |-> w.n]
  BY <1>1, ReconnectingSet
<1>3. QED
  BY <1>2 DEF no

(* The close event, with the fallback or the reconnect it leads to, makes  *)
(* a world sound again (SocketClosed).                                     *)
LEMMA SocketClosedSound ==
    ASSUME NEW w, NEW s \in [Sids -> Sessions \union {None}], Loose(w, s), w.t.socket # None
    PROVE  Sound(SocketClosed(w), s)
<1> DEFINE v == DropSocket(w)
<1>1. v = [t |-> Dropped(w.t), c |-> w.c, n |-> Unlistened(w.n)]
  BY DropSocketIs DEF Loose
<1>2. CASE w.t.socket.state = "connecting" /\ ~w.t.socket.sse /\ ~v.t.closed /\ v.t.handles > 0
  <2>1. w.c \in Consumers /\ w.c.up = None
    BY <1>2 DEF Loose, NonceHeld
  <2>2. Sound(v, s) /\ v.t.socket = None /\ ~v.t.reconnecting
    BY <1>1, <2>1, DroppedSound
  <2>3. SocketClosed(w) = tryOpen(v, TRUE)
    BY <1>2 DEF SocketClosed
  <2>4. QED
    BY <2>2, <2>3, TryOpenSseSound
<1>3. CASE ~(w.t.socket.state = "connecting" /\ ~w.t.socket.sse /\ ~v.t.closed /\ v.t.handles > 0)
  <2>1. SocketClosed(w) = scheduleReconnect(notifyDisconnected(v))
    BY <1>3 DEF SocketClosed
  <2>2. Sound(notifyDisconnected(v), s) /\ notifyDisconnected(v).t.socket = None
    BY DropAndTellSound
  <2>3. QED
    BY <2>1, <2>2, ScheduleReconnectSound
<1>4. QED
  BY <1>2, <1>3

-----------------------------------------------------------------------------
(* POSTs.                                                                  *)

LEMMA PostSound ==
    ASSUME NEW w, NEW s \in [Sids -> Sessions \union {None}], Sound(w, s),
           w.t.socket # None, w.t.socket.sse, \E m \in Streams : w.n[m] = None
    PROVE  /\ Sound(Post(w), s) /\ Post(w).t.socket # None /\ Post(w).t.socket.sse
           /\ \A j \in Streams : j # FreeStream(w) => Post(w).n[j] = w.n[j]
           /\ Post(w).c = w.c /\ Post(w).t.nonce = w.t.nonce /\ Post(w).t.flow = w.t.flow
           /\ Post(w).t.socket.password = w.t.socket.password /\ Post(w).t.socket.state = w.t.socket.state
           /\ Post(w).t.socket.dispatched = w.t.socket.dispatched
           /\ LET m == FreeStream(w) IN
              /\ m \in Streams /\ w.n[m] = None /\ Post(w).n[m] # None /\ Post(w).n[m].down = <<>>
              /\ Post(w).n[m].body.password = w.t.socket.password
              /\ Post(w).n[m].seq = w.t.socket.postSeq + 1
<1> DEFINE q == w.t.socket
           k == [[q EXCEPT !.postSeq = q.postSeq + 1] EXCEPT !.outbound = <<>>]
           m == FreeStream(w)
           body == [id |-> q.id, password |-> q.password, frames |-> q.outbound]
           x == NewStream(TRUE, q.postSeq + 1, body)
           t1 == [w.t EXCEPT !.socket = [q EXCEPT !.postSeq = q.postSeq + 1]]
           t2 == [t1 EXCEPT !.socket = [t1.socket EXCEPT !.outbound = <<>>]]
           n1 == [w.n EXCEPT ![m] = x]
           v1 == [w EXCEPT !.t.socket.postSeq = w.t.socket.postSeq + 1]
           v2 == [v1 EXCEPT !.t.socket.outbound = <<>>]
           v3 == [v2 EXCEPT !.n[m] = x]
<1>1. Post(w) = v3
  BY DEF Post
<1>2. w = [t |-> w.t, c |-> w.c, n |-> w.n] /\ w.t \in Transports /\ q \in Sockets /\ w.n \in Wires
  BY SocketIsTyped DEF Sound, WorldInv
<1>3. m \in Streams /\ w.n[m] = None
  BY FreeIsFree
<1>4. <<>> \in Seq(Frames)
  OBVIOUS
<1>5. k \in Sockets /\ k.sse = q.sse /\ k.dispatched = q.dispatched /\ k.postSeq = q.postSeq + 1
      /\ k.state = q.state /\ k.password = q.password /\ q.postSeq \in Nat /\ q.dispatched \in Nat
  <2> DEFINE k1 == [q EXCEPT !.postSeq = q.postSeq + 1]
  <2>1. q.postSeq \in Nat /\ q.dispatched \in Nat /\ q.postSeq + 1 \in Nat
    BY <1>2 DEF Sockets
  <2>2. k1 \in Sockets /\ k1.sse = q.sse /\ k1.dispatched = q.dispatched /\ k1.postSeq = q.postSeq + 1
        /\ k1.state = q.state /\ k1.password = q.password
    BY <1>2, <2>1 DEF Sockets
  <2>3. k = [k1 EXCEPT !.outbound = <<>>]
    OBVIOUS
  <2> HIDE DEF k1, k
  <2>4. k \in Sockets /\ k.sse = k1.sse /\ k.dispatched = k1.dispatched /\ k.postSeq = k1.postSeq
        /\ k.state = k1.state /\ k.password = k1.password
    BY <1>4, <2>2, <2>3 DEF Sockets
  <2>5. QED
    BY <2>1, <2>2, <2>4
<1>6. body \in Bodies /\ body.password = q.password
  BY <1>2 DEF Sockets, Bodies
<1>7. x \in Connections /\ Shape(x) /\ x.mine /\ x.sse = TRUE /\ x.seq = q.postSeq + 1 /\ ~x.gone
      /\ x.body = body /\ x.down = <<>> /\ x # None
  <2>1. q.postSeq + 1 \in Nat
    BY <1>5
  <2>2. TRUE \in BOOLEAN /\ body \in Bodies
    BY <1>6
  <2> HIDE DEF body
  <2>3. x \in Connections /\ Shape(x) /\ x.mine /\ x.sse = TRUE /\ x.seq = q.postSeq + 1 /\ ~x.gone
    BY <2>1, <2>2, NewStreamTyped
  <2>4. x.body = body /\ x.down = <<>>
    BY DEF NewStream
  <2> HIDE DEF x
  <2>5. x # None
    BY <2>3, NoneIsApart
  <2>6. QED
    BY <2>3, <2>5, <2>4
<1>8. t2 = [w.t EXCEPT !.socket = k]
  BY <1>2 DEF Transports
<1> HIDE DEF x, m, n1
<1>9. v1 = [t |-> t1, c |-> w.c, n |-> w.n]
  BY <1>2, SMT
<1> HIDE DEF v1, t1
<1>10. v2 = [t |-> t2, c |-> w.c, n |-> w.n]
  BY <1>9, SMT
<1> HIDE DEF v2, t2
<1>11. v3 = [t |-> t2, c |-> w.c, n |-> n1]
  BY <1>10, SMT DEF n1
<1> HIDE DEF v3, k
<1>12. t2 \in Transports /\ t2.socket = k /\ k # None /\ t2.nonce = w.t.nonce /\ t2.flow = w.t.flow
       /\ t2.reconnecting = w.t.reconnecting
  BY <1>2, <1>5, <1>8, NoneIsApart DEF Transports
<1>13. n1 \in Wires /\ Served(n1, s) /\ Shapes(n1) /\ n1[m] = x
       /\ (\A j \in Streams : j # m => n1[j] = w.n[j])
       /\ \A j \in Streams : Own(n1, j) <=> (Own(w.n, j) \/ (j = m /\ x.mine))
  BY <1>2, <1>3, <1>7, JoinServed DEF n1, Sound, WorldInv
<1>14. NonceHeld(t2, w.c) /\ Reconnects(t2) /\ FlowHeld(t2)
  BY <1>5, <1>12 DEF Sound, WorldInv, NonceHeld, Reconnects, FlowHeld, Awaiting
<1>15. Numbered(t2, n1)
  <2>1. k.dispatched <= k.postSeq /\ (k.flushing => k.sse)
    BY <1>5, SocketIsTyped
  <2>2. \A j \in Streams : Own(n1, j) => n1[j].seq <= k.postSeq
    <3>1. ASSUME NEW j \in Streams, Own(n1, j), j # m
          PROVE  n1[j].seq <= k.postSeq
      <4>1. n1[j] = w.n[j] /\ Own(w.n, j)
        BY <1>13, <3>1
      <4>2. w.n[j].seq <= q.postSeq /\ w.n[j].seq \in Nat
        BY <1>2, <4>1 DEF Sound, WorldInv, Numbered, Own, Wires, Connections
      <4>3. QED
        BY <1>5, <4>1, <4>2
    <3>2. n1[m].seq <= k.postSeq
      BY <1>5, <1>7, <1>13
    <3>3. QED
      BY <3>1, <3>2
  <2>3. QED
    BY <1>12, <2>1, <2>2 DEF Numbered
<1>16. OwnsItsOwn(t2, n1)
  <2>1. ASSUME NEW j \in Streams, Own(n1, j)
        PROVE  n1[j].sse = k.sse /\ ~n1[j].gone
    <3>1. CASE j = m
      BY <1>5, <1>7, <1>13, <3>1 DEF Sockets
    <3>2. CASE j # m
      BY <1>5, <1>13, <2>1, <3>2 DEF Sound, WorldInv, OwnsItsOwn
    <3>3. QED
      BY <3>1, <3>2
  <2>2. QED
    BY <1>5, <1>12, <2>1 DEF OwnsItsOwn
<1>17. WorldInv(t2, w.c, n1)
  BY <1>12, <1>13, <1>14, <1>15, <1>16 DEF Sound, WorldInv
<1>18. Sound(Post(w), s)
  BY <1>1, <1>11, <1>13, <1>17, MakeSound
<1>19. Post(w).t = t2 /\ Post(w).n = n1 /\ Post(w).c = w.c
  BY <1>1, <1>11
<1> HIDE DEF body
<1>20. QED
  BY <1>3, <1>5, <1>6, <1>7, <1>12, <1>13, <1>18, <1>19 DEF m

(* Two streams are free.                                                   *)
TwoFree(n) == \E a, b \in Streams : a # b /\ n[a] = None /\ n[b] = None

(* HasRoom, without counting: two streams are free.                        *)
LEMMA RoomForTwo ==
    ASSUME NEW n, Cardinality({m \in Streams : n[m] = None}) >= 2
    PROVE  TwoFree(n)
<1> DEFINE F == {m \in Streams : n[m] = None}
<1>1. CASE F = {}
  BY <1>1, FS_EmptySet
<1>2. CASE F # {}
  <2>1. PICK a \in F : TRUE
    BY <1>2
  <2>2. CASE F = {a}
    <3>1. Cardinality(F) = 1
      BY <2>2, FS_Singleton
    <3>2. QED
      BY <3>1
  <2>3. CASE F # {a}
    <3>1. PICK b \in F : b # a
      BY <2>1, <2>3
    <3>2. QED
      BY <2>1, <3>1 DEF TwoFree
  <2>4. QED
    BY <2>2, <2>3
<1>3. QED
  BY <1>1, <1>2

(* A flush that resumes, with the second POST it may lead to, keeps a      *)
(* world sound (Resume).                                                   *)
LEMMA ResumeSound ==
    ASSUME NEW w, NEW s \in [Sids -> Sessions \union {None}], Sound(w, s), NEW k,
           w.t.socket # None, w.t.socket.sse, TwoFree(w.n)
    PROVE  Sound(Resume(w, k), s)
<1>1. \E m \in Streams : w.n[m] = None
  BY DEF TwoFree
<1>2. Sound(Post(w), s) /\ Post(w).t.socket # None /\ Post(w).t.socket.sse
      /\ \A j \in Streams : j # FreeStream(w) => Post(w).n[j] = w.n[j]
  BY <1>1, PostSound
<1>3. \E m \in Streams : Post(w).n[m] = None
  BY <1>2 DEF TwoFree
<1> DEFINE v == Post(w)
<1>4. Sound(v, s) /\ v.t.socket # None /\ v.t.socket.sse /\ \E m \in Streams : v.n[m] = None
  BY <1>2, <1>3
<1>5. Sound(Post(v), s)
  <2> HIDE DEF v
  <2>1. QED
    BY <1>4, PostSound
<1>6. QED
  BY <1>2, <1>5 DEF Resume

-----------------------------------------------------------------------------
(* Events.                                                                 *)

LEMMA TakenSound ==
    ASSUME NEW w, NEW s \in [Sids -> Sessions \union {None}], Sound(w, s), NEW m \in Streams,
           w.n[m] # None, w.n[m].down # <<>>
    PROVE  /\ Sound(Taken(w, m), s) /\ Head(w.n[m].down) \in Events
           /\ Taken(w, m).t = w.t /\ Taken(w, m).c = w.c
           /\ Head(w.n[m].down) \in Told(w.n[m])
           /\ \A j \in Streams : j # m => Taken(w, m).n[j] = w.n[j]
           /\ LET y == Taken(w, m).n[m] IN
              /\ y # None /\ y.down = Tail(w.n[m].down) /\ y.mine = w.n[m].mine /\ y.sse = w.n[m].sse
              /\ y.seq = w.n[m].seq /\ y.at = w.n[m].at /\ y.up = w.n[m].up /\ y.body = w.n[m].body
              /\ Told(y) \subseteq Told(w.n[m])
<1> DEFINE x == [w.n[m] EXCEPT !.down = Tail(w.n[m].down)]
<1>1. w.n[m] \in Connections /\ Shape(w.n[m]) /\ w.n \in Wires
  BY DEF Sound, WorldInv, Wires, Shapes
<1>2. w.n[m].down \in Seq(Events)
  BY <1>1 DEF Connections
<1>3. /\ Tail(w.n[m].down) \in Seq(Events) /\ Head(w.n[m].down) \in Events
      /\ Head(w.n[m].down) \in {w.n[m].down[i] : i \in DOMAIN w.n[m].down}
      /\ {Tail(w.n[m].down)[i] : i \in DOMAIN Tail(w.n[m].down)} \subseteq {w.n[m].down[i] : i \in DOMAIN w.n[m].down}
  <2> DEFINE q == w.n[m].down
  <2>1. q \in Seq(Events) /\ q # <<>>
    BY <1>2
  <2> HIDE DEF q
  <2>2. /\ Tail(q) \in Seq(Events) /\ Head(q) \in Events
        /\ Head(q) \in {q[i] : i \in DOMAIN q}
        /\ {Tail(q)[i] : i \in DOMAIN Tail(q)} \subseteq {q[i] : i \in DOMAIN q}
    BY <2>1, ToldTails
  <2>3. QED
    BY <2>2 DEF q
<1>4. x \in Connections /\ x.down = Tail(w.n[m].down) /\ x.mine = w.n[m].mine /\ x.sse = w.n[m].sse
      /\ x.seq = w.n[m].seq /\ x.gone = w.n[m].gone /\ x.over = w.n[m].over /\ x.at = w.n[m].at
      /\ x.up = w.n[m].up /\ x.body = w.n[m].body /\ x.closing = w.n[m].closing /\ x.cut = w.n[m].cut
  BY <1>1, <1>3 DEF Connections
<1>5. Told(x) \subseteq Told(w.n[m])
  BY <1>3, <1>4 DEF Told
<1>6. Shape(x)
  BY <1>1, <1>4, <1>5 DEF Shape
<1>7. Taken(w, m) = [t |-> w.t, c |-> w.c, n |-> [w.n EXCEPT ![m] = x]]
  <2> DEFINE r == Tail(w.n[m].down)
  <2>1. w = [t |-> w.t, c |-> w.c, n |-> w.n]
    BY DEF Sound
  <2>2. Taken(w, m) = [w EXCEPT !.n[m].down = r]
    BY DEF Taken
  <2> HIDE DEF r
  <2>3. [w EXCEPT !.n[m].down = r] = [t |-> w.t, c |-> w.c, n |-> [w.n EXCEPT ![m] = [w.n[m] EXCEPT !.down = r]]]
    BY <2>1
  <2>4. QED
    BY <2>2, <2>3 DEF r
<1>8. x.mine => ~x.gone
  BY <1>4 DEF Sound, WorldInv, OwnsItsOwn, Own
<1> HIDE DEF x
<1>9. Sound(Taken(w, m), s)
  BY <1>4, <1>6, <1>7, <1>8, OnlyStream
<1>10. /\ Taken(w, m).n[m] = x /\ x # None
       /\ \A j \in Streams : j # m => Taken(w, m).n[j] = w.n[j]
  BY <1>1, <1>4, <1>7, NoneIsApart DEF Wires
<1>11. Head(w.n[m].down) \in Told(w.n[m])
  BY <1>3 DEF Told
<1>12. QED
  BY <1>3, <1>4, <1>5, <1>7, <1>9, <1>10, <1>11

(* OnlyTold for a world given field by field.                              *)
LEMMA OnlyToldIs ==
    ASSUME NEW w, NEW v, NEW s, Sound(w, s), NEW c \in Consumers, c.up = w.c.up,
           v = [t |-> w.t, c |-> c, n |-> w.n]
    PROVE  Sound(v, s)
<1>1. QED
  BY OnlyTold

(* A challenge gives transport and consumers the same nonce, and keeps a   *)
(* world sound (handleMessage).                                            *)
LEMMA ChallengeSound ==
    ASSUME NEW w, NEW s, Sound(w, s), IsOpen(w.t), NEW sid \in Sids, NEW c \in Consumers, c.up = sid
    PROVE  Sound([t |-> [w.t EXCEPT !.nonce = sid], c |-> c, n |-> w.n], s)
<1> DEFINE u == [w.t EXCEPT !.nonce = sid]
<1>1. w.t \in Transports
  BY DEF Sound, WorldInv
<1>2. u \in Transports /\ u.nonce = sid /\ u.socket = w.t.socket /\ u.flow = w.t.flow
      /\ u.reconnecting = w.t.reconnecting
  BY <1>1 DEF Transports, Nonces
<1>3. NonceHeld(u, c)
  BY <1>2 DEF NonceHeld, IsOpen
<1>4. Reconnects(u)
  BY <1>2 DEF Sound, WorldInv, Reconnects, IsOpen
<1>5. Numbered(u, w.n) /\ OwnsItsOwn(u, w.n)
  BY <1>2 DEF Sound, WorldInv, Numbered, OwnsItsOwn
<1>6. FlowHeld(u)
  BY <1>2 DEF Sound, WorldInv, FlowHeld, Awaiting
<1>7. WorldInv(u, c, w.n) /\ Served(w.n, s)
  BY <1>2, <1>3, <1>4, <1>5, <1>6 DEF Sound, WorldInv
<1>8. QED
  BY <1>7, MakeSound

(* What the consumers hear of a new nonce.                                 *)
ConnectedConsumer(c, sid) == [NewConsumer(c) EXCEPT !.up = sid, !.due = TRUE]

(* What they are connected under (notifyConnected).                        *)
LEMMA ConnectedTyped ==
    ASSUME NEW c \in Consumers, NEW sid \in Sids
    PROVE  ConnectedConsumer(c, sid) \in Consumers /\ ConnectedConsumer(c, sid).up = sid
<1>1. NewConsumer(c) \in Consumers
  BY NobodyHears
<1>2. QED
  BY <1>1 DEF ConnectedConsumer, Consumers, Nonces

(* handleMessage of a challenge, field by field.                           *)
LEMMA HandleChallengeIs ==
    ASSUME NEW w, NEW s, Sound(w, s), NEW e \in Events, e.type = "challenge"
    PROVE  \E c \in Consumers :
              /\ c.up = e.sid /\ c.misled = w.c.misled
              /\ handleMessage(w, e) = [t |-> [w.t EXCEPT !.nonce = e.sid], c |-> c, n |-> w.n]
<1> DEFINE v == IF w.t.nonce # None /\ w.t.nonce # e.sid THEN notifyDisconnected(w) ELSE w
           d == IF w.t.nonce # None /\ w.t.nonce # e.sid THEN NewConsumer(w.c) ELSE w.c
           u == [w.t EXCEPT !.nonce = e.sid]
           v1 == [v EXCEPT !.t.nonce = e.sid]
<1>1. w = [t |-> w.t, c |-> w.c, n |-> w.n] /\ w.c \in Consumers /\ e.sid \in Sids
  BY DEF Sound, WorldInv, Events
<1>2. handleMessage(w, e) = notifyConnected(v1, e.sid)
  BY DEF handleMessage
<1>3. v = [t |-> w.t, c |-> d, n |-> w.n]
  BY <1>1 DEF notifyDisconnected
<1>4. d \in Consumers /\ d.misled = w.c.misled
  BY <1>1, NobodyHears DEF NewConsumer, Consumers
<1> HIDE DEF v, d
<1>5. v1 = [t |-> u, c |-> d, n |-> w.n]
  BY <1>3, SMT
<1> HIDE DEF v1, u
<1>6. notifyConnected(v1, e.sid) = [t |-> u, c |-> ConnectedConsumer(d, e.sid), n |-> w.n]
  BY <1>5 DEF notifyConnected, ConnectedConsumer
<1>7. ConnectedConsumer(d, e.sid) \in Consumers /\ ConnectedConsumer(d, e.sid).up = e.sid
  BY <1>1, <1>4, ConnectedTyped
<1>8. ConnectedConsumer(d, e.sid).misled = d.misled
  BY <1>4, NobodyHears DEF ConnectedConsumer, NewConsumer, Consumers
<1>9. QED
  BY <1>2, <1>4, <1>6, <1>7, <1>8 DEF u

(* Owing the relay a frame is no part of the invariant.                    *)
LEMMA DueSet ==
    ASSUME NEW w, NEW s, Sound(w, s), NEW b \in BOOLEAN
    PROVE  Sound([w EXCEPT !.c.due = b], s)
<1> DEFINE c == [w.c EXCEPT !.due = b]
<1>1. w = [t |-> w.t, c |-> w.c, n |-> w.n] /\ w.c \in Consumers
  BY DEF Sound, WorldInv
<1>2. c \in Consumers /\ c.up = w.c.up
  BY <1>1 DEF Consumers
<1>3. [w EXCEPT !.c.due = b] = [t |-> w.t, c |-> c, n |-> w.n]
  BY <1>1
<1>4. QED
  BY <1>2, <1>3, OnlyToldIs

(* Nor is having been misled.                                              *)
LEMMA MisledSet ==
    ASSUME NEW w, NEW s, Sound(w, s), NEW b \in BOOLEAN
    PROVE  Sound([w EXCEPT !.c.misled = b], s)
<1> DEFINE c == [w.c EXCEPT !.misled = b]
<1>1. w = [t |-> w.t, c |-> w.c, n |-> w.n] /\ w.c \in Consumers
  BY DEF Sound, WorldInv
<1>2. c \in Consumers /\ c.up = w.c.up
  BY <1>1 DEF Consumers
<1>3. [w EXCEPT !.c.misled = b] = [t |-> w.t, c |-> c, n |-> w.n]
  BY <1>1
<1>4. QED
  BY <1>2, <1>3, OnlyToldIs

(* Handling a frame from the relay keeps a world sound (handleMessage).    *)
LEMMA HandleMessageSound ==
    ASSUME NEW w, NEW s \in [Sids -> Sessions \union {None}], Sound(w, s), IsOpen(w.t),
           NEW e \in Events, e.type \notin {"session", "close"}
    PROVE  Sound(handleMessage(w, e), s)
<1>1. CASE e.type = "challenge"
  <2>1. PICK c \in Consumers :
           /\ c.up = e.sid
           /\ handleMessage(w, e) = [t |-> [w.t EXCEPT !.nonce = e.sid], c |-> c, n |-> w.n]
    BY <1>1, HandleChallengeIs
  <2>2. e.sid \in Sids
    BY DEF Events
  <2>3. QED
    BY <2>1, <2>2, ChallengeSound
<1>2. CASE e.type = "authenticated"
  <2> DEFINE yes == TRUE
             v == Hear(settleAuthResponse(w, yes), e)
  <2>1. handleMessage(w, e) = [v EXCEPT !.c.due = yes]
    BY <1>2 DEF handleMessage
  <2>2. yes \in BOOLEAN
    OBVIOUS
  <2> HIDE DEF yes
  <2>3. Sound(v, s)
    BY <2>2, SettleSound, HearSound
  <2> HIDE DEF v
  <2>4. QED
    BY <2>1, <2>2, <2>3, DueSet
<1>3. CASE e.type = "auth-failed"
  <2> DEFINE b == w.c.misled \/ (Awaiting(w.t) /\ w.t.flow.password = "right")
             no == FALSE
             v == [w EXCEPT !.c.misled = b]
  <2>1. handleMessage(w, e) = Hear(settleAuthResponse(v, no), e)
    BY <1>3 DEF handleMessage
  <2>2. no \in BOOLEAN /\ b \in BOOLEAN
    BY DEF Sound, WorldInv, Consumers, Awaiting
  <2> HIDE DEF b, no
  <2>3. Sound(v, s)
    BY <2>2, MisledSet
  <2> HIDE DEF v
  <2>4. QED
    BY <2>1, <2>2, <2>3, SettleSound, HearSound
<1>4. CASE e.type = "gated"
  <2>1. handleMessage(w, e) = runAuthFlow(Hear(w, e))
    BY <1>4 DEF handleMessage
  <2>2. QED
    BY <2>1, HearSound, RunFlowSound
<1>5. CASE e.type \in {"answer", "data"}
  <2>1. handleMessage(w, e) = Hear(w, e)
    BY <1>5 DEF handleMessage
  <2>2. QED
    BY <2>1, HearSound
<1>6. QED
  BY <1>1, <1>2, <1>3, <1>4, <1>5 DEF Events

(* The session event of an SSE response, field by field (dispatchEvent_).  *)
LEMMA SessionEventIs ==
    ASSUME NEW w, w = [t |-> w.t, c |-> w.c, n |-> w.n], NEW sid
    PROVE  [w EXCEPT !.t.socket.id = sid, !.t.socket.state = "open"]
             = [t |-> [w.t EXCEPT !.socket = [w.t.socket EXCEPT !.id = sid, !.state = "open"]], c |-> w.c, n |-> w.n]
<1> DEFINE k == w.t.socket
           k1 == [k EXCEPT !.id = sid]
           k2 == [k1 EXCEPT !.state = "open"]
           t1 == [w.t EXCEPT !.socket = k1]
           t2 == [t1 EXCEPT !.socket = [t1.socket EXCEPT !.state = "open"]]
           t3 == [w.t EXCEPT !.socket = k2]
           v1 == [w EXCEPT !.t.socket.id = sid]
           v2 == [v1 EXCEPT !.t.socket.state = "open"]
<1>1. [w EXCEPT !.t.socket.id = sid, !.t.socket.state = "open"] = v2
  OBVIOUS
<1>2. v1 = [t |-> t1, c |-> w.c, n |-> w.n]
  BY SMT
<1> HIDE DEF v1, t1
<1>3. v2 = [t |-> t2, c |-> w.c, n |-> w.n]
  BY <1>2, SMT
<1>4. t2 = t3
  <2> HIDE DEF k1, k2
  <2>1. QED
    BY DEF t1, k2
<1> HIDE DEF v2, t2
<1>5. t3 = [w.t EXCEPT !.socket = [k EXCEPT !.id = sid, !.state = "open"]]
  OBVIOUS
<1> HIDE DEF t3
<1>6. QED
  BY <1>1, <1>3, <1>4, <1>5

(* Dispatching an event of an SSE response keeps a world sound             *)
(* (dispatchEvent_).                                                       *)
LEMMA DispatchSound ==
    ASSUME NEW w, NEW s \in [Sids -> Sessions \union {None}], Sound(w, s), w.t.socket # None,
           NEW e \in Events
    PROVE  Sound(dispatchEvent_(w, e), s)
<1>1. CASE e.type = "session"
  <2> DEFINE k == [w.t.socket EXCEPT !.id = e.sid, !.state = "open"]
  <2>1. dispatchEvent_(w, e) = [t |-> [w.t EXCEPT !.socket = k], c |-> w.c, n |-> w.n]
    <3>1. dispatchEvent_(w, e) = [w EXCEPT !.t.socket.id = e.sid, !.t.socket.state = "open"]
      BY <1>1 DEF dispatchEvent_
    <3>2. w = [t |-> w.t, c |-> w.c, n |-> w.n]
      BY DEF Sound
    <3>3. QED
      BY <3>1, <3>2, SessionEventIs
  <2>2. k \in Sockets /\ k.sse = w.t.socket.sse /\ k.flushing = w.t.socket.flushing /\ k.dispatched = w.t.socket.dispatched
      /\ k.postSeq = w.t.socket.postSeq /\ k.state = "open"
    BY SocketIsTyped DEF Sockets, Events, Nonces
  <2> HIDE DEF k
  <2>3. QED
    BY <2>1, <2>2, OnlySocket, SocketIsTyped
<1>2. CASE e.type = "close"
  <2>1. dispatchEvent_(w, e) = SocketClosed(w)
    BY <1>2 DEF dispatchEvent_
  <2>2. QED
    BY <2>1, SoundIsLoose, SocketClosedSound
<1>3. CASE e.type \notin {"session", "close"}
  <2>1. dispatchEvent_(w, e) = IF IsOpen(w.t) THEN handleMessage(w, e) ELSE w
    BY <1>3 DEF dispatchEvent_
  <2>2. QED
    BY <1>3, <2>1, HandleMessageSound
<1>4. QED
  BY <1>1, <1>2, <1>3

(* Dispatching it in its order, or closing the socket because it comes     *)
(* late, keeps a world sound (dispatchOrderedEvent).                       *)
LEMMA DispatchOrderedSound ==
    ASSUME NEW w, NEW s \in [Sids -> Sessions \union {None}], Sound(w, s), w.t.socket # None,
           NEW e \in Events, NEW seq \in Nat, seq <= w.t.socket.postSeq
    PROVE  Sound(dispatchOrderedEvent(w, e, seq), s)
<1>1. CASE seq < w.t.socket.dispatched
  BY <1>1, SoundIsLoose, SocketClosedSound DEF dispatchOrderedEvent
<1>2. CASE ~(seq < w.t.socket.dispatched)
  <2> DEFINE k == [w.t.socket EXCEPT !.dispatched = seq]
             v == [w EXCEPT !.t.socket.dispatched = seq]
  <2>1. dispatchOrderedEvent(w, e, seq) = dispatchEvent_(v, e)
    BY <1>2 DEF dispatchOrderedEvent
  <2>2. v = [t |-> [w.t EXCEPT !.socket = k], c |-> w.c, n |-> w.n]
    BY DEF Sound
  <2>3. k \in Sockets /\ k.sse = w.t.socket.sse /\ k.flushing = w.t.socket.flushing /\ k.dispatched = seq
      /\ k.postSeq = w.t.socket.postSeq /\ k.state = w.t.socket.state
    BY SocketIsTyped DEF Sockets
  <2> HIDE DEF k, v
  <2>4. Sound(v, s)
    BY <2>2, <2>3, OnlySocket, SocketIsTyped
  <2>5. v.t.socket # None
    BY <2>2, <2>3, NoneIsApart, SocketIsTyped DEF Transports
  <2>6. QED
    BY <2>1, <2>4, <2>5, DispatchSound
<1>3. QED
  BY <1>1, <1>2

-----------------------------------------------------------------------------
(* What is true of the authentication, besides the types.                  *)

Answers == {"authenticated", "auth-failed"}

(* The session a WebSocket stands for, as far as the client can know it.   *)
SidOf(t, x) ==
    IF t.nonce # None THEN t.nonce ELSE IF x.down = <<>> THEN None ELSE Head(x.down).sid

(* The client's WebSocket is accepted only while it connects; everything   *)
(* on it is of one session, the one it is connected under once the         *)
(* challenge is read, and no other session writes to it.                   *)
Wire(t, n, s) ==
    \A m \in Streams : Own(n, m) /\ ~n[m].sse =>
        /\ n[m].at = "asked" => t.socket.state = "connecting"
        /\ \A e \in Told(n[m]) : e.sid = SidOf(t, n[m])
        /\ t.nonce = None /\ n[m].down # <<>> => Head(n[m].down).type = "challenge"
        /\ \A x \in Sids : s[x] # None /\ s[x].res = m => x = SidOf(t, n[m])

(* No frame of a queue asks to authenticate, or one at most does, with     *)
(* password p; no event of a queue answers, or one at most does, with yes  *)
(* only if ok.                                                             *)
NoAsk(q) == \A i \in DOMAIN q : q[i].password = None
OneAsk(q, p) ==
    \A i \in DOMAIN q : q[i].password # None =>
        q[i].password = p /\ \A j \in DOMAIN q : q[j].password # None => j = i
NoAnswer(q) == \A i \in DOMAIN q : q[i].type \notin Answers
OneAnswer(q, ok) ==
    \A i \in DOMAIN q : q[i].type \in Answers =>
        (q[i].type = "authenticated" => ok) /\ \A j \in DOMAIN q : q[j].type \in Answers => j = i

(* On a WebSocket one authenticate frame at most is on its way, and its    *)
(* answer after it, while the flow awaits it.                              *)
Pending(t, n, g) ==
    \A m \in Streams : Own(n, m) /\ ~n[m].sse =>
        \/ NoAsk(n[m].up) /\ NoAnswer(n[m].down)
        \/ Awaiting(t) /\ OneAsk(n[m].up, t.flow.password) /\ NoAnswer(n[m].down)
        \/ Awaiting(t) /\ NoAsk(n[m].up) /\ OneAnswer(n[m].down, g => t.flow.password = "right")

(* The relay says authenticated only of sessions it has authorized, and,   *)
(* on a response, only if the POST of it had the password.                 *)
Authorizes(n, s) ==
    \A m \in Streams : n[m] # None => \A e \in Told(n[m]) :
        e.type = "authenticated" /\ s[e.sid] # None => s[e.sid].authed

(* To a gated operator a response has a yes only if the body of its POST   *)
(* had the right password, and a gated answer only if it had not.          *)
BodiesAnswered(n, g) ==
    g => \A m \in Streams : n[m] # None /\ n[m].sse => \A e \in Told(n[m]) :
            /\ e.type = "authenticated" => n[m].body.password = "right"
            /\ e.type = "gated" => n[m].body.password # "right"

(* The body of a POST authorizes the session that takes it; a session that *)
(* writes to the response of such a POST is authorized.                    *)
Opens(b, g) == b.password # None /\ (g => b.password = "right")
BodiesOpen(n, s, g) ==
    \A x \in Sids : s[x] # None /\ Opens(n[s[x].res].body, g) => s[x].authed

(* What the relay's side of the wires has to do with its sessions.         *)
RelayAuth(n, s, g) == Authorizes(n, s) /\ BodiesAnswered(n, g) /\ BodiesOpen(n, s, g)

(* Over SSE every POST repeats the password: once it is the operator's it  *)
(* stays so, and the flow that gave it is still there or was right.        *)
Right(n, m) == Own(n, m) /\ n[m].body.password = "right"
RightFrom(n, k) == \A m \in Streams : Own(n, m) /\ n[m].seq >= k => Right(n, m)
RightStays(t, c, n, g) ==
    g /\ ~c.misled /\ t.socket # None /\ t.socket.sse =>
        /\ \A m \in Streams : Right(n, m) => t.socket.password = "right" /\ RightFrom(n, n[m].seq)
        /\ t.socket.password = "right" =>
              /\ t.flow # None => /\ t.flow.at \in {"cached", "typed", "keep"} /\ ~t.flow.stale
                                  /\ t.flow.password = "right"
              /\ t.flow = None \/ t.flow.at = "keep" => RightFrom(n, t.socket.dispatched)

(* The password of a flow that gave one is the one the socket repeats.     *)
Repeats(t) ==
    t.socket # None /\ t.socket.sse /\ t.flow # None
      /\ t.flow.at \in {"cached", "typed", "keep"} /\ ~t.flow.stale
      => t.socket.password = t.flow.password

(* The flow has taken its password for accepted; it is the operator's, and *)
(* the WebSocket the flow asked on stands for an authorized session.       *)
Keeps(t) == t.flow # None /\ t.flow.at = "keep" /\ ~t.flow.stale
KeepsRight(t, c, g) == g /\ ~c.misled /\ Keeps(t) => t.flow.password = "right"
KeepsOpen(t, c, s) ==
    Keeps(t) /\ ~t.socket.sse => c.up # None /\ (s[c.up] # None => s[c.up].authed)

(* The invariant of the authentication, of a world and the sessions of the *)
(* relay.                                                                  *)
Honest(w, s, g) ==
    /\ Wire(w.t, w.n, s) /\ Pending(w.t, w.n, g) /\ RightStays(w.t, w.c, w.n, g) /\ Repeats(w.t)
    /\ KeepsRight(w.t, w.c, g) /\ KeepsOpen(w.t, w.c, s) /\ RelayAuth(w.n, s, g)

(* The same of the state.                                                  *)
AuthInv == Honest(World, sessions, left.gated)

(* What a client's queue asks once a frame joins it (SendFrame).           *)
LEMMA AskAppends ==
    ASSUME NEW q \in Seq(Frames), NEW f \in Frames
    PROVE  /\ f.password = None /\ NoAsk(q) => NoAsk(Append(q, f))
           /\ f.password = None => \A p : OneAsk(q, p) => OneAsk(Append(q, f), p)
           /\ NoAsk(q) => OneAsk(Append(q, f), f.password)
<1> DEFINE r == Append(q, f)
<1>1. Len(r) = Len(q) + 1 /\ DOMAIN r = 1..Len(r) /\ DOMAIN q = 1..Len(q) /\ Len(q) \in Nat
      /\ (\A i \in DOMAIN q : r[i] = q[i]) /\ r[Len(q) + 1] = f
  OBVIOUS
<1> HIDE DEF r
<1>2. \A i \in DOMAIN r : i = Len(q) + 1 \/ i \in DOMAIN q
  BY <1>1
<1>3. f.password = None /\ NoAsk(q) => NoAsk(r)
  BY <1>1, <1>2 DEF NoAsk
<1>4. ASSUME f.password = None, NEW p, OneAsk(q, p) PROVE OneAsk(r, p)
  BY <1>1, <1>2, <1>4 DEF OneAsk
<1>5. NoAsk(q) => OneAsk(r, f.password)
  BY <1>1, <1>2 DEF NoAsk, OneAsk
<1>6. QED
  BY <1>3, <1>4, <1>5 DEF r

(* What it asks once the relay has taken its head (ReadFrame).             *)
LEMMA AskTails ==
    ASSUME NEW q \in Seq(Frames), q # <<>>
    PROVE  /\ NoAsk(q) => NoAsk(Tail(q)) /\ Head(q).password = None
           /\ \A p : OneAsk(q, p) =>
                 /\ OneAsk(Tail(q), p)
                 /\ Head(q).password # None => Head(q).password = p /\ NoAsk(Tail(q))
<1> DEFINE r == Tail(q)
<1>1. Len(q) \in Nat \ {0} /\ DOMAIN q = 1..Len(q) /\ DOMAIN r = 1..(Len(q) - 1) /\ Head(q) = q[1]
      /\ \A i \in DOMAIN r : r[i] = q[i + 1]
  OBVIOUS
<1> HIDE DEF r
<1>2. 1 \in DOMAIN q /\ \A i \in DOMAIN r : i \in Nat /\ i + 1 \in DOMAIN q /\ i + 1 # 1
  BY <1>1
<1>3. NoAsk(q) => NoAsk(r) /\ Head(q).password = None
  BY <1>1, <1>2 DEF NoAsk
<1>4. ASSUME NEW p, OneAsk(q, p)
      PROVE  OneAsk(r, p) /\ (Head(q).password # None => Head(q).password = p /\ NoAsk(r))
  <2>1. \A i, j \in DOMAIN r : i + 1 = j + 1 => i = j
    BY <1>2
  <2>2. OneAsk(r, p)
    BY <1>1, <1>2, <1>4, <2>1 DEF OneAsk
  <2>3. Head(q).password # None => Head(q).password = p /\ NoAsk(r)
    BY <1>1, <1>2, <1>4 DEF OneAsk, NoAsk
  <2>4. QED
    BY <2>2, <2>3
<1>5. QED
  BY <1>3, <1>4 DEF r

(* What a stream's events answer once one joins them (Sent).               *)
LEMMA AnswerAppends ==
    ASSUME NEW q \in Seq(Events), NEW e \in Events, NEW ok
    PROVE  /\ e.type \notin Answers /\ NoAnswer(q) => NoAnswer(Append(q, e))
           /\ e.type \notin Answers /\ OneAnswer(q, ok) => OneAnswer(Append(q, e), ok)
           /\ NoAnswer(q) /\ (e.type = "authenticated" => ok) => OneAnswer(Append(q, e), ok)
<1> DEFINE r == Append(q, e)
<1>1. Len(r) = Len(q) + 1 /\ DOMAIN r = 1..Len(r) /\ DOMAIN q = 1..Len(q) /\ Len(q) \in Nat
      /\ (\A i \in DOMAIN q : r[i] = q[i]) /\ r[Len(q) + 1] = e
  OBVIOUS
<1> HIDE DEF r
<1>2. \A i \in DOMAIN r : i = Len(q) + 1 \/ i \in DOMAIN q
  BY <1>1
<1>3. e.type \notin Answers /\ NoAnswer(q) => NoAnswer(r)
  BY <1>1, <1>2 DEF NoAnswer
<1>4. e.type \notin Answers /\ OneAnswer(q, ok) => OneAnswer(r, ok)
  BY <1>1, <1>2 DEF OneAnswer
<1>5. NoAnswer(q) /\ (e.type = "authenticated" => ok) => OneAnswer(r, ok)
  BY <1>1, <1>2 DEF NoAnswer, OneAnswer
<1>6. QED
  BY <1>3, <1>4, <1>5 DEF r

(* What they answer once the client has taken the head (Taken).            *)
LEMMA AnswerTails ==
    ASSUME NEW q \in Seq(Events), q # <<>>, NEW ok
    PROVE  /\ NoAnswer(q) => NoAnswer(Tail(q)) /\ Head(q).type \notin Answers
           /\ OneAnswer(q, ok) =>
                 /\ OneAnswer(Tail(q), ok)
                 /\ Head(q).type \in Answers => NoAnswer(Tail(q)) /\ (Head(q).type = "authenticated" => ok)
<1> DEFINE r == Tail(q)
<1>1. Len(q) \in Nat \ {0} /\ DOMAIN q = 1..Len(q) /\ DOMAIN r = 1..(Len(q) - 1) /\ Head(q) = q[1]
      /\ \A i \in DOMAIN r : r[i] = q[i + 1]
  OBVIOUS
<1> HIDE DEF r
<1>2. 1 \in DOMAIN q /\ \A i \in DOMAIN r : i \in Nat /\ i + 1 \in DOMAIN q /\ i + 1 # 1
  BY <1>1
<1>3. NoAnswer(q) => NoAnswer(r) /\ Head(q).type \notin Answers
  BY <1>1, <1>2 DEF NoAnswer
<1>4. ASSUME OneAnswer(q, ok)
      PROVE  /\ OneAnswer(r, ok)
             /\ Head(q).type \in Answers => NoAnswer(r) /\ (Head(q).type = "authenticated" => ok)
  <2>1. \A i, j \in DOMAIN r : i + 1 = j + 1 => i = j
    BY <1>2
  <2>2. OneAnswer(r, ok)
    BY <1>1, <1>2, <1>4, <2>1 DEF OneAnswer
  <2>3. Head(q).type \in Answers => NoAnswer(r) /\ (Head(q).type = "authenticated" => ok)
    BY <1>1, <1>2, <1>4 DEF OneAnswer, NoAnswer
  <2>4. QED
    BY <2>2, <2>3
<1>5. QED
  BY <1>3, <1>4 DEF r

-----------------------------------------------------------------------------
(* What the client does to streams and flow.                               *)

(* A stream as it was, or less of it: no longer listened to, or read.      *)
Less(x, y) ==
    /\ x.sse = y.sse /\ x.seq = y.seq /\ x.body = y.body
    /\ Told(x) \subseteq Told(y)
    /\ x.mine => y.mine /\ x.down = y.down
    /\ x.mine /\ ~x.sse => x.at = y.at /\ x.up = y.up

(* The relay's side stays true when the client takes or drops events, or   *)
(* adds streams that hold none.                                            *)
LEMMA RelayAuthLess ==
    ASSUME NEW n, NEW k, NEW s \in [Sids -> Sessions \union {None}], NEW g, RelayAuth(n, s, g), Served(n, s),
           \A m \in Streams : n[m] # None /\ k[m] # None =>
              k[m].sse = n[m].sse /\ k[m].body = n[m].body /\ Told(k[m]) \subseteq Told(n[m]),
           \A m \in Streams : n[m] = None /\ k[m] # None => Told(k[m]) = {},
           Served(k, s)
    PROVE  RelayAuth(k, s, g)
<1>1. Authorizes(k, s)
  BY DEF RelayAuth, Authorizes
<1>2. BodiesAnswered(k, g)
  BY DEF RelayAuth, BodiesAnswered
<1>3. BodiesOpen(k, s, g)
  <2>1. ASSUME NEW x \in Sids, s[x] # None PROVE k[s[x].res].body = n[s[x].res].body
    BY <2>1 DEF Served, Sessions
  <2>2. QED
    BY <2>1 DEF RelayAuth, BodiesOpen
<1>4. QED
  BY <1>1, <1>2, <1>3 DEF RelayAuth

(* The authentication stays as it was when the client takes or drops       *)
(* events and streams, and changes nothing of its socket's password, state *)
(* and reading, nor of its flow.                                           *)
LEMMA HonestLess ==
    ASSUME NEW w, NEW v, NEW s \in [Sids -> Sessions \union {None}], NEW g, Honest(w, s, g),
           Served(w.n, s), Served(v.n, s),
           v.t.nonce = w.t.nonce, v.t.flow = w.t.flow, v.c.up = w.c.up, v.c.misled = w.c.misled,
           v.t.socket = None <=> w.t.socket = None,
           w.t.socket # None => /\ v.t.socket.sse = w.t.socket.sse
                                /\ v.t.socket.password = w.t.socket.password
                                /\ v.t.socket.state = w.t.socket.state
                                /\ v.t.socket.dispatched = w.t.socket.dispatched,
           \A j \in Streams : Own(w.n, j) => w.t.socket # None,
           Keeps(w.t) => w.t.socket # None,
           \A m \in Streams : v.n[m] # None => w.n[m] # None /\ Less(v.n[m], w.n[m])
    PROVE  Honest(v, s, g)
<1>1. \A m \in Streams : Own(v.n, m) =>
         Own(w.n, m) /\ v.n[m].sse = w.n[m].sse /\ v.n[m].seq = w.n[m].seq /\ v.n[m].body = w.n[m].body
           /\ v.n[m].down = w.n[m].down
           /\ (~v.n[m].sse => v.n[m].at = w.n[m].at /\ v.n[m].up = w.n[m].up)
  BY DEF Own, Less
<1>2. Wire(v.t, v.n, s)
  <2>1. \A m \in Streams : Own(v.n, m) => SidOf(v.t, v.n[m]) = SidOf(w.t, w.n[m]) /\ Told(v.n[m]) = Told(w.n[m])
    BY <1>1 DEF SidOf, Told
  <2>2. QED
    BY <1>1, <2>1 DEF Wire, Honest
<1>3. Pending(v.t, v.n, g)
  BY <1>1 DEF Pending, Honest, Awaiting
<1>4. \A m \in Streams : Right(v.n, m) => Right(w.n, m)
  BY <1>1 DEF Right
<1>5. \A i : RightFrom(w.n, i) => RightFrom(v.n, i)
  BY <1>1 DEF RightFrom, Right
<1>6. RightStays(v.t, v.c, v.n, g)
  <2>1. \A m \in Streams : Right(v.n, m) => v.n[m].seq = w.n[m].seq
    BY <1>1 DEF Right
  <2>2. QED
    BY <1>4, <1>5, <2>1 DEF RightStays, Honest
<1>7. Repeats(v.t) /\ KeepsRight(v.t, v.c, g) /\ KeepsOpen(v.t, v.c, s)
  BY DEF Repeats, KeepsRight, KeepsOpen, Keeps, Honest
<1>8. RelayAuth(v.n, s, g)
  <2>1. \A m \in Streams : w.n[m] # None /\ v.n[m] # None =>
           v.n[m].sse = w.n[m].sse /\ v.n[m].body = w.n[m].body /\ Told(v.n[m]) \subseteq Told(w.n[m])
    BY DEF Less
  <2>2. \A m \in Streams : w.n[m] = None /\ v.n[m] # None => Told(v.n[m]) = {}
    OBVIOUS
  <2>3. QED
    BY <2>1, <2>2, RelayAuthLess DEF Honest
<1>9. QED
  BY <1>2, <1>3, <1>6, <1>7, <1>8 DEF Honest

(* No stream listened to, no flow that counts: there is nothing to say.    *)
LEMMA NobodyIsHonest ==
    ASSUME NEW v, NEW s, NEW g, RelayAuth(v.n, s, g),
           \A m \in Streams : ~Own(v.n, m),
           v.t.flow # None => v.t.flow.stale,
           v.t.socket # None => v.t.socket.password = None
    PROVE  Honest(v, s, g)
<1>1. None # "right"
  BY TransportAssumption DEF Passwords
<1>2. Wire(v.t, v.n, s) /\ Pending(v.t, v.n, g)
  BY DEF Wire, Pending
<1>3. RightStays(v.t, v.c, v.n, g)
  BY <1>1 DEF RightStays, Right
<1>4. Repeats(v.t) /\ KeepsRight(v.t, v.c, g) /\ KeepsOpen(v.t, v.c, s)
  BY DEF Repeats, KeepsRight, KeepsOpen, Keeps
<1>5. QED
  BY <1>2, <1>3, <1>4 DEF Honest

(* No authenticate frame is on its way, nor an answer.                     *)
Quiet(n) == \A m \in Streams : Own(n, m) /\ ~n[m].sse => NoAsk(n[m].up) /\ NoAnswer(n[m].down)

(* The password every POST repeats is not the operator's.                  *)
NotRight(t, c, g) == g /\ ~c.misled /\ t.socket # None /\ t.socket.sse => t.socket.password # "right"

(* If it is, every response that is still read is of a POST that had it.   *)
Confirmed(t, c, n, g) ==
    g /\ ~c.misled /\ t.socket # None /\ t.socket.sse /\ t.socket.password = "right"
      => RightFrom(n, t.socket.dispatched)

(* Nothing is asked or answered unless the flow awaits it.                 *)
LEMMA QuietUnlessAwaiting ==
    ASSUME NEW t, NEW n, NEW g, Pending(t, n, g), ~Awaiting(t)
    PROVE  Quiet(n)
<1>1. QED
  BY DEF Pending, Quiet

(* A flow that ends, or goes back to ask the user, when nothing is pending *)
(* and its password is not the operator's or has been confirmed, leaves    *)
(* the authentication true.                                                *)
LEMMA FlowLeaves ==
    ASSUME NEW w, NEW v, NEW s, NEW g, Honest(w, s, g), Quiet(w.n),
           v.n = w.n, v.t.socket = w.t.socket, v.t.nonce = w.t.nonce, v.c.up = w.c.up,
           w.c.misled => v.c.misled,
           v.t.flow # None => v.t.flow.at \in {"wipe", "dialog"} /\ NotRight(w.t, v.c, g),
           Confirmed(w.t, v.c, w.n, g)
    PROVE  Honest(v, s, g)
<1>1. Wire(v.t, v.n, s)
  BY DEF Honest, Wire, SidOf
<1>2. Pending(v.t, v.n, g)
  BY DEF Quiet, Pending
<1>3. RightStays(v.t, v.c, v.n, g)
  BY DEF Honest, RightStays, NotRight, Confirmed
<1>4. Repeats(v.t) /\ KeepsRight(v.t, v.c, g) /\ KeepsOpen(v.t, v.c, s)
  BY DEF Repeats, KeepsRight, KeepsOpen, Keeps
<1>5. QED
  BY <1>1, <1>2, <1>3, <1>4 DEF Honest

(* So does one that takes its password for accepted when that is the       *)
(* operator's and its session is authorized (settleAuthResponse).          *)
LEMMA FlowKeeps ==
    ASSUME NEW w, NEW v, NEW s, NEW g, Honest(w, s, g), Quiet(w.n), Awaiting(w.t), ~w.t.flow.stale,
           v.n = w.n, v.t.socket = w.t.socket, v.t.nonce = w.t.nonce, v.c = w.c,
           v.t.flow # None, v.t.flow.at = "keep", v.t.flow.password = w.t.flow.password,
           g /\ ~w.c.misled => w.t.flow.password = "right",
           ~w.t.socket.sse => w.c.up # None /\ (s[w.c.up] # None => s[w.c.up].authed),
           v.t.flow.stale = w.t.flow.stale,
           Confirmed(w.t, w.c, w.n, g)
    PROVE  Honest(v, s, g)
<1>1. Wire(v.t, v.n, s)
  BY DEF Honest, Wire, SidOf
<1>2. Pending(v.t, v.n, g)
  BY DEF Quiet, Pending
<1>3. RightStays(v.t, v.c, v.n, g)
  BY DEF Honest, RightStays, Confirmed
<1>4. Repeats(v.t)
  BY DEF Repeats, Honest, Awaiting
<1>5. KeepsRight(v.t, v.c, g) /\ KeepsOpen(v.t, v.c, s)
  BY DEF KeepsRight, KeepsOpen, Keeps
<1>6. QED
  BY <1>1, <1>2, <1>3, <1>4, <1>5 DEF Honest

(* The world v is w but for the flow, which is f.                          *)
SetsFlow(w, v, f) == v = [w EXCEPT !.t.flow = f]

(* A change of the flow touches nothing else of the world.                 *)
LEMMA FlowSetIs ==
    ASSUME NEW w, NEW s, Sound(w, s), NEW f, NEW v, SetsFlow(w, v, f)
    PROVE  v.t.flow = f /\ v.t.socket = w.t.socket /\ v.t.nonce = w.t.nonce /\ v.n = w.n /\ v.c = w.c
<1> DEFINE u == [w.t EXCEPT !.flow = f]
<1>1. w = [t |-> w.t, c |-> w.c, n |-> w.n] /\ w.t \in Transports
  BY DEF Sound, WorldInv
<1>2. v = [t |-> u, c |-> w.c, n |-> w.n]
  BY <1>1 DEF SetsFlow
<1>3. u.flow = f /\ u.socket = w.t.socket /\ u.nonce = w.t.nonce
  BY <1>1 DEF Transports
<1> HIDE DEF u
<1>4. v.t = u /\ v.n = w.n /\ v.c = w.c
  BY <1>2
<1>5. QED
  BY <1>3, <1>4

(* The world v is w but for the cached password, which is h.               *)
SetsCache(w, v, h) == v = [w EXCEPT !.t.cache = h]

(* A change of the cached password touches nothing else of the world.      *)
LEMMA CacheSetIs ==
    ASSUME NEW w, NEW s, Sound(w, s), NEW h, NEW v, SetsCache(w, v, h)
    PROVE  v.t.flow = w.t.flow /\ v.t.socket = w.t.socket /\ v.t.nonce = w.t.nonce /\ v.n = w.n /\ v.c = w.c
<1> DEFINE u == [w.t EXCEPT !.cache = h]
<1>1. w = [t |-> w.t, c |-> w.c, n |-> w.n] /\ w.t \in Transports
  BY DEF Sound, WorldInv
<1>2. v = [t |-> u, c |-> w.c, n |-> w.n]
  BY <1>1 DEF SetsCache
<1>3. u.flow = w.t.flow /\ u.socket = w.t.socket /\ u.nonce = w.t.nonce
  BY <1>1 DEF Transports
<1> HIDE DEF u
<1>4. v.t = u /\ v.n = w.n /\ v.c = w.c
  BY <1>2
<1>5. QED
  BY <1>3, <1>4

(* The end of a flow, when nothing is pending, leaves the authentication   *)
(* true (EndFlow).                                                         *)
LEMMA EndFlowHonest ==
    ASSUME NEW w, NEW s, Sound(w, s), NEW g, Honest(w, s, g), Quiet(w.n), Confirmed(w.t, w.c, w.n, g)
    PROVE  Honest(EndFlow(w), s, g)
<1> DEFINE v == EndFlow(w)
<1>1. v.t.flow = None /\ v.t.socket = w.t.socket /\ v.t.nonce = w.t.nonce /\ v.n = w.n /\ v.c = w.c
  <2>1. SetsFlow(w, v, None)
    BY DEF SetsFlow, EndFlow
  <2> HIDE DEF v
  <2>2. QED
    BY <2>1, FlowSetIs
<1> HIDE DEF v
<1>2. Honest(v, s, g)
  BY <1>1, FlowLeaves
<1>3. QED
  BY <1>2 DEF v

(* A password that is not the operator's needs no confirmation.            *)
LEMMA NotRightConfirms ==
    ASSUME NEW t, NEW c, NEW n, NEW g, NotRight(t, c, g)
    PROVE  Confirmed(t, c, n, g)
<1>1. QED
  BY DEF NotRight, Confirmed

(* So does the head of the loop of runAuthFlow (AskUser).                  *)
LEMMA AskUserHonest ==
    ASSUME NEW w, NEW s, Sound(w, s), NEW g, Honest(w, s, g), Quiet(w.n), NotRight(w.t, w.c, g)
    PROVE  Honest(AskUser(w), s, g)
<1>1. Confirmed(w.t, w.c, w.n, g)
  BY NotRightConfirms
<1>2. CASE w.t.flow.stale \/ ~IsOpen(w.t)
  BY <1>1, <1>2, EndFlowHonest DEF AskUser
<1>3. CASE ~(w.t.flow.stale \/ ~IsOpen(w.t))
  <2> DEFINE v == [w EXCEPT !.t.flow = Flow("dialog")]
  <2>1. AskUser(w) = v
    BY <1>3 DEF AskUser
  <2>2. v.t.flow = Flow("dialog") /\ v.t.socket = w.t.socket /\ v.t.nonce = w.t.nonce /\ v.n = w.n /\ v.c = w.c
    <3>1. SetsFlow(w, v, Flow("dialog"))
      BY DEF SetsFlow
    <3> HIDE DEF v
    <3>2. QED
      BY <3>1, FlowSetIs
  <2> HIDE DEF v
  <2>3. v.t.flow.at = "dialog"
    BY <2>2 DEF Flow
  <2>4. Honest(v, s, g)
    BY <1>1, <2>2, <2>3, FlowLeaves
  <2>5. QED
    BY <2>1, <2>4
<1>4. QED
  BY <1>2, <1>3

-----------------------------------------------------------------------------
(* The client sends.                                                       *)

LEMMA SendSseIs ==
    ASSUME NEW w, NEW s, Sound(w, s), w.t.socket # None, w.t.socket.sse, NEW frame \in Frames
    PROVE  LET v == SendFrame(w, frame) IN
           /\ v.n = w.n /\ v.c = w.c /\ v.t.nonce = w.t.nonce /\ v.t.flow = w.t.flow
           /\ v.t.socket # None /\ v.t.socket.sse = w.t.socket.sse /\ v.t.socket.state = w.t.socket.state
           /\ v.t.socket.dispatched = w.t.socket.dispatched
           /\ frame.password = None => v.t.socket.password = w.t.socket.password
           /\ frame.password # None => v.t.socket.password = frame.password
<1> DEFINE k == IF frame.password # None THEN [w.t.socket EXCEPT !.password = frame.password]
                ELSE [w.t.socket EXCEPT !.outbound = Append(@, frame)]
           v == [t |-> [w.t EXCEPT !.socket = k], c |-> w.c, n |-> w.n]
           l == [v.t.socket EXCEPT !.flushing = TRUE]
           z == [t |-> [v.t EXCEPT !.socket = l], c |-> v.c, n |-> v.n]
<1>1. w.t.socket \in Sockets /\ w.t \in Transports /\ w = [t |-> w.t, c |-> w.c, n |-> w.n]
  BY SocketIsTyped DEF Sound
<1>2. Append(w.t.socket.outbound, frame) \in Seq(Frames)
  BY <1>1 DEF Sockets
<1>3. k \in Sockets /\ k.sse = w.t.socket.sse /\ k.dispatched = w.t.socket.dispatched
      /\ k.state = w.t.socket.state
      /\ (frame.password = None => k.password = w.t.socket.password)
      /\ (frame.password # None => k.password = frame.password)
  BY <1>1, <1>2 DEF Sockets, Frames
<1>4. v = IF frame.password # None THEN [w EXCEPT !.t.socket.password = frame.password]
          ELSE [w EXCEPT !.t.socket.outbound = Append(@, frame)]
  BY <1>1
<1>5. SendFrame(w, frame) = scheduleFlush(v)
  BY <1>4 DEF SendFrame
<1> HIDE DEF k
<1>6. v.t.socket = k /\ v.t.nonce = w.t.nonce /\ v.t.flow = w.t.flow /\ v.t \in Transports
      /\ v = [t |-> v.t, c |-> v.c, n |-> v.n] /\ v.n = w.n /\ v.c = w.c
  BY <1>1, <1>3 DEF Transports
<1> HIDE DEF v
<1>7. scheduleFlush(v) = z
  <2>1. [v EXCEPT !.t.socket.flushing = TRUE] = z
    BY <1>6, FlushingSet
  <2>2. QED
    BY <2>1 DEF scheduleFlush
<1>8. l \in Sockets /\ l.sse = k.sse /\ l.dispatched = k.dispatched /\ l.state = k.state /\ l.password = k.password
  BY <1>3, <1>6 DEF Sockets
<1> HIDE DEF l
<1>9. z.t.socket = l /\ z.t.nonce = w.t.nonce /\ z.t.flow = w.t.flow /\ z.n = w.n /\ z.c = w.c
  BY <1>6 DEF Transports
<1> HIDE DEF z
<1>10. QED
  BY <1>3, <1>5, <1>7, <1>8, <1>9, NoneIsApart

(* The world v is w but for a frame sent on m, its only stream, which is   *)
(* a WebSocket.                                                            *)
Pushed(w, v, m, frame) ==
    /\ v.t = w.t /\ v.c = w.c
    /\ m \in Streams /\ Own(w.n, m) /\ ~w.n[m].sse /\ w.n[m] \in Connections
    /\ \A k \in Streams : Own(w.n, k) => k = m
    /\ \A k \in Streams : k # m => v.n[k] = w.n[k]
    /\ v.n[m] # None /\ v.n[m].up = Append(w.n[m].up, frame)
    /\ v.n[m].mine = w.n[m].mine /\ v.n[m].sse = w.n[m].sse /\ v.n[m].seq = w.n[m].seq
    /\ v.n[m].body = w.n[m].body /\ v.n[m].at = w.n[m].at /\ v.n[m].down = w.n[m].down

(* A frame sent on a WebSocket joins the queue of its one stream           *)
(* (SendFrame).                                                            *)
LEMMA SendWsIs ==
    ASSUME NEW w, NEW s, Sound(w, s), w.t.socket # None, ~w.t.socket.sse, NEW frame \in Frames,
           NEW v, v = SendFrame(w, frame), NEW m, m = MyStream(w)
    PROVE  Pushed(w, v, m, frame)
<1> DEFINE x == [w.n[m] EXCEPT !.up = Append(w.n[m].up, frame)]
<1>1. m \in Streams /\ Own(w.n, m) /\ w.n[m] \in Connections /\ ~w.n[m].sse
  BY MineExists
<1>2. v = [t |-> w.t, c |-> w.c, n |-> [w.n EXCEPT ![m] = x]]
  BY DEF SendFrame, Sound
<1>3. Append(w.n[m].up, frame) \in Seq(Frames)
  BY <1>1 DEF Connections
<1>4. /\ x.mine = w.n[m].mine /\ x.sse = w.n[m].sse /\ x.seq = w.n[m].seq /\ x.up = Append(w.n[m].up, frame)
      /\ x.at = w.n[m].at /\ x.down = w.n[m].down /\ x.body = w.n[m].body /\ x \in Connections
  BY <1>1, <1>3 DEF Connections
<1>5. w.n \in Wires /\ \A k \in Streams : Own(w.n, k) => k = m
  BY <1>1 DEF Sound, WorldInv, OwnsItsOwn
<1> HIDE DEF x
<1>6. v.t = w.t /\ v.c = w.c /\ v.n = [w.n EXCEPT ![m] = x]
  BY <1>2
<1>7. v.n[m] = x /\ \A k \in Streams : k # m => v.n[k] = w.n[k]
  BY <1>1, <1>5, <1>6 DEF Wires
<1>8. x # None
  BY <1>4, NoneIsApart
<1>9. QED
  BY <1>1, <1>4, <1>5, <1>6, <1>7, <1>8 DEF Pushed

(* Only what is on its way up changes.                                     *)
LEMMA UpHonest ==
    ASSUME NEW w, NEW v, NEW s \in [Sids -> Sessions \union {None}], NEW g, Honest(w, s, g),
           Served(w.n, s), Served(v.n, s), v.t = w.t, v.c = w.c,
           \A k \in Streams :
              /\ v.n[k] # None <=> w.n[k] # None
              /\ v.n[k] # None => /\ v.n[k].mine = w.n[k].mine /\ v.n[k].sse = w.n[k].sse
                                  /\ v.n[k].seq = w.n[k].seq /\ v.n[k].body = w.n[k].body
                                  /\ v.n[k].at = w.n[k].at /\ v.n[k].down = w.n[k].down,
           Pending(v.t, v.n, g)
    PROVE  Honest(v, s, g)
<1>1. \A k \in Streams : Own(v.n, k) <=> Own(w.n, k)
  BY DEF Own
<1>2. Wire(v.t, v.n, s)
  <2>1. \A k \in Streams : Own(v.n, k) => SidOf(v.t, v.n[k]) = SidOf(w.t, w.n[k]) /\ Told(v.n[k]) = Told(w.n[k])
    BY DEF SidOf, Told, Own
  <2>2. \A k \in Streams : Own(v.n, k) => v.n[k].sse = w.n[k].sse /\ v.n[k].at = w.n[k].at /\ v.n[k].down = w.n[k].down
    BY DEF Own
  <2>3. QED
    BY <1>1, <2>1, <2>2 DEF Wire, Honest
<1>3. /\ \A m \in Streams : Right(v.n, m) <=> Right(w.n, m)
      /\ \A m \in Streams : Own(v.n, m) => v.n[m].seq = w.n[m].seq
  BY DEF Right, Own
<1>4. \A i : RightFrom(w.n, i) => RightFrom(v.n, i)
  BY <1>1, <1>3 DEF RightFrom
<1>5. RightStays(v.t, v.c, v.n, g)
  <2>1. \A m \in Streams : Right(v.n, m) => v.n[m].seq = w.n[m].seq
    BY <1>3 DEF Right
  <2>2. QED
    BY <1>3, <1>4, <2>1 DEF RightStays, Honest
<1>6. RelayAuth(v.n, s, g)
  <2>1. \A m \in Streams : w.n[m] # None /\ v.n[m] # None =>
           v.n[m].sse = w.n[m].sse /\ v.n[m].body = w.n[m].body /\ Told(v.n[m]) \subseteq Told(w.n[m])
    BY DEF Told
  <2>2. \A m \in Streams : w.n[m] = None /\ v.n[m] # None => Told(v.n[m]) = {}
    OBVIOUS
  <2>3. QED
    BY <2>1, <2>2, RelayAuthLess DEF Honest
<1>7. QED
  BY <1>2, <1>5, <1>6 DEF Honest

(* A frame signed with the nonce changes nothing about the password.       *)
LEMMA SignedHonest ==
    ASSUME NEW w, NEW s \in [Sids -> Sessions \union {None}], Sound(w, s), NEW g, Honest(w, s, g),
           w.t.socket # None, NEW frame \in Frames, frame.password = None
    PROVE  Honest(SendFrame(w, frame), s, g)
<1> DEFINE v == SendFrame(w, frame)
<1>1. Sound(v, s)
  BY SendFrameSound
<1>2. Served(w.n, s) /\ Served(v.n, s) /\ \A j \in Streams : Own(w.n, j) => w.t.socket # None
  BY <1>1 DEF Sound
<1>3. CASE w.t.socket.sse
  <2>1. /\ v.n = w.n /\ v.c = w.c /\ v.t.nonce = w.t.nonce /\ v.t.flow = w.t.flow
        /\ v.t.socket # None /\ v.t.socket.sse = w.t.socket.sse /\ v.t.socket.state = w.t.socket.state
        /\ v.t.socket.dispatched = w.t.socket.dispatched /\ v.t.socket.password = w.t.socket.password
    BY <1>3, SendSseIs
  <2> HIDE DEF v
  <2>2. \A m \in Streams : v.n[m] # None => w.n[m] # None /\ Less(v.n[m], w.n[m])
    BY <2>1 DEF Less
  <2>3. Honest(v, s, g)
    BY <1>2, <2>1, <2>2, HonestLess
  <2>4. QED
    BY <2>3 DEF v
<1>4. CASE ~w.t.socket.sse
  <2> DEFINE m == MyStream(w)
  <2>1. /\ v.t = w.t /\ v.c = w.c /\ m \in Streams /\ Own(w.n, m) /\ ~w.n[m].sse /\ w.n[m] \in Connections
        /\ \A k \in Streams : Own(w.n, k) => k = m
        /\ \A k \in Streams : k # m => v.n[k] = w.n[k]
        /\ v.n[m] # None /\ v.n[m].up = Append(w.n[m].up, frame)
        /\ v.n[m].mine = w.n[m].mine /\ v.n[m].sse = w.n[m].sse /\ v.n[m].seq = w.n[m].seq
        /\ v.n[m].body = w.n[m].body /\ v.n[m].at = w.n[m].at /\ v.n[m].down = w.n[m].down
    <3>1. v = SendFrame(w, frame) /\ m = MyStream(w)
      OBVIOUS
    <3> HIDE DEF v, m
    <3>2. Pushed(w, v, m, frame)
      BY <1>4, <3>1, SendWsIs
    <3>3. QED
      BY <3>2 DEF Pushed
  <2> HIDE DEF v, m
  <2>2. \A k \in Streams :
              /\ v.n[k] # None <=> w.n[k] # None
              /\ v.n[k] # None => /\ v.n[k].mine = w.n[k].mine /\ v.n[k].sse = w.n[k].sse
                                  /\ v.n[k].seq = w.n[k].seq /\ v.n[k].body = w.n[k].body
                                  /\ v.n[k].at = w.n[k].at /\ v.n[k].down = w.n[k].down
    BY <2>1 DEF Own
  <2>3. w.n[m].up \in Seq(Frames)
    BY <2>1 DEF Connections
  <2>4. /\ NoAsk(w.n[m].up) => NoAsk(v.n[m].up)
        /\ \A p : OneAsk(w.n[m].up, p) => OneAsk(v.n[m].up, p)
    BY <2>1, <2>3, AskAppends
  <2>5. \A k \in Streams : Own(v.n, k) => k = m
    BY <2>1, <2>2 DEF Own
  <2>6. Pending(v.t, v.n, g)
    BY <2>1, <2>4, <2>5 DEF Pending, Honest
  <2>7. Honest(v, s, g)
    BY <1>2, <2>1, <2>2, <2>6, UpHonest DEF v
  <2>8. QED
    BY <2>7 DEF v
<1>5. QED
  BY <1>3, <1>4

-----------------------------------------------------------------------------
(* The flow asks, and is answered.                                         *)

LEMMA AttemptIs ==
    ASSUME NEW w, NEW s, Sound(w, s), w.t.socket # None, NEW at \in {"cached", "typed"}, NEW p \in Passwords
    PROVE  LET f == [Flow(at) EXCEPT !.password = p]
               v == [w EXCEPT !.t.flow = f]
           IN  /\ Sound(v, s) /\ v.t.flow = f /\ v.t.socket = w.t.socket /\ v.t.nonce = w.t.nonce
               /\ v.n = w.n /\ v.c = w.c
               /\ f # None /\ f.at = at /\ f.password = p /\ ~f.stale
               /\ Authenticate(p) \in Frames /\ Authenticate(p).password = p /\ p # None
               /\ attemptAuthenticate(w, at, p) = SendFrame(v, Authenticate(p))
<1> DEFINE f == [Flow(at) EXCEPT !.password = p]
           v == [w EXCEPT !.t.flow = f]
<1>1. f \in Flows /\ f.at = at /\ f.password = p /\ ~f.stale /\ p # None /\ f # None
  <2>1. f = [at |-> at, password |-> p, stale |-> FALSE]
    <3>1. p \in Words
      BY DEF Words
    <3>2. QED
      BY <3>1, FlowTyped
  <2>2. f \in Flows
    BY <2>1 DEF Flows, Words
  <2>3. QED
    BY <2>1, <2>2, NoneIsApart
<1>2. attemptAuthenticate(w, at, p) = SendFrame(v, Authenticate(p))
  BY DEF attemptAuthenticate
<1>3. FlowFits(w.t, f)
  BY <1>1 DEF FlowFits
<1> HIDE DEF f
<1>4. Sound(v, s)
  BY <1>1, <1>3, FlowSound
<1>5. v.t.flow = f /\ v.t.socket = w.t.socket /\ v.t.nonce = w.t.nonce /\ v.n = w.n /\ v.c = w.c
  <2>1. SetsFlow(w, v, f)
    BY DEF SetsFlow
  <2> HIDE DEF v
  <2>2. QED
    BY <2>1, FlowSetIs
<1> HIDE DEF v
<1>6. Authenticate(p) \in Frames /\ Authenticate(p).password = p
  BY DEF Authenticate, Frames, Nonces, Words
<1>7. QED
  BY <1>1, <1>2, <1>4, <1>5, <1>6 DEF f, v

(* An attempt sends the one password it waits for, on a quiet WebSocket or *)
(* into what every POST repeats (attemptAuthenticate).                     *)
LEMMA AttemptHonest ==
    ASSUME NEW w, NEW s \in [Sids -> Sessions \union {None}], Sound(w, s), NEW g, Honest(w, s, g),
           w.t.socket # None, NEW at \in {"cached", "typed"}, NEW p \in Passwords,
           Quiet(w.n), NotRight(w.t, w.c, g)
    PROVE  Honest(attemptAuthenticate(w, at, p), s, g)
<1> DEFINE f == [Flow(at) EXCEPT !.password = p]
           v == [w EXCEPT !.t.flow = f]
           frame == Authenticate(p)
           z == SendFrame(v, frame)
<1>1. /\ Sound(v, s) /\ v.t.flow = f /\ v.t.socket = w.t.socket /\ v.t.nonce = w.t.nonce /\ v.n = w.n /\ v.c = w.c
      /\ f # None /\ f.at = at /\ f.password = p /\ ~f.stale /\ frame \in Frames /\ frame.password = p /\ p # None
      /\ attemptAuthenticate(w, at, p) = z
  BY AttemptIs
<1> HIDE DEF f, v, frame
<1>2. v.t.socket # None /\ v.t.flow.at \in {"cached", "typed"} /\ Awaiting(v.t)
  BY <1>1 DEF Awaiting
<1>3. CASE w.t.socket.sse
  <2>1. v.t.socket.sse
    BY <1>1, <1>3
  <2>2. /\ z.n = v.n /\ z.c = v.c /\ z.t.nonce = v.t.nonce /\ z.t.flow = v.t.flow
        /\ z.t.socket # None /\ z.t.socket.sse = v.t.socket.sse /\ z.t.socket.state = v.t.socket.state
        /\ z.t.socket.dispatched = v.t.socket.dispatched
        /\ frame.password # None => z.t.socket.password = frame.password
    BY <1>1, <1>2, <2>1, SendSseIs
  <2> HIDE DEF z
  <2>3. /\ z.n = w.n /\ z.c = w.c /\ z.t.nonce = w.t.nonce /\ z.t.flow = f
        /\ z.t.socket # None /\ z.t.socket.sse = w.t.socket.sse /\ z.t.socket.state = w.t.socket.state
        /\ z.t.socket.dispatched = w.t.socket.dispatched /\ z.t.socket.password = p
    BY <1>1, <2>2
  <2>4. \A m \in Streams : Own(w.n, m) => w.n[m].sse
    BY <1>3 DEF Sound, WorldInv, OwnsItsOwn
  <2>5. Wire(z.t, z.n, s) /\ Pending(z.t, z.n, g)
    BY <2>3, <2>4 DEF Wire, Pending
  <2>6. g /\ ~w.c.misled => \A m \in Streams : ~Right(w.n, m)
    BY <1>3 DEF Honest, RightStays, NotRight
  <2>7. RightStays(z.t, z.c, z.n, g)
    BY <1>1, <2>3, <2>6 DEF RightStays
  <2>8. Repeats(z.t) /\ KeepsRight(z.t, z.c, g) /\ KeepsOpen(z.t, z.c, s)
    BY <1>1, <2>3 DEF Repeats, KeepsRight, KeepsOpen, Keeps
  <2>9. QED
    BY <1>1, <2>3, <2>5, <2>7, <2>8 DEF Honest
<1>4. CASE ~w.t.socket.sse
  <2> DEFINE m == MyStream(v)
  <2>1. ~v.t.socket.sse
    BY <1>1, <1>4
  <2>2. /\ z.t = v.t /\ z.c = v.c /\ m \in Streams /\ Own(v.n, m) /\ ~v.n[m].sse /\ v.n[m] \in Connections
        /\ \A k \in Streams : Own(v.n, k) => k = m
        /\ \A k \in Streams : k # m => z.n[k] = v.n[k]
        /\ z.n[m] # None /\ z.n[m].up = Append(v.n[m].up, frame)
        /\ z.n[m].mine = v.n[m].mine /\ z.n[m].sse = v.n[m].sse /\ z.n[m].seq = v.n[m].seq
        /\ z.n[m].body = v.n[m].body /\ z.n[m].at = v.n[m].at /\ z.n[m].down = v.n[m].down
    <3>1. Sound(v, s) /\ v.t.socket # None /\ ~v.t.socket.sse /\ frame \in Frames
      BY <1>1, <1>2, <2>1
    <3>2. z = SendFrame(v, frame) /\ m = MyStream(v)
      OBVIOUS
    <3> HIDE DEF v, z, m
    <3>3. Pushed(v, z, m, frame)
      BY <3>1, <3>2, SendWsIs
    <3>4. QED
      BY <3>3 DEF Pushed
  <2>3. Sound(z, s)
    BY <1>1, <1>2, SendFrameSound
  <2> HIDE DEF z, m
  <2>4. \A k \in Streams :
              /\ z.n[k] # None <=> v.n[k] # None
              /\ z.n[k] # None => /\ z.n[k].mine = v.n[k].mine /\ z.n[k].sse = v.n[k].sse
                                  /\ z.n[k].seq = v.n[k].seq /\ z.n[k].body = v.n[k].body
                                  /\ z.n[k].at = v.n[k].at /\ z.n[k].down = v.n[k].down
    BY <2>2 DEF Own
  <2>5. /\ z.t = v.t /\ z.c = w.c /\ m \in Streams /\ Own(w.n, m) /\ ~w.n[m].sse /\ w.n[m] \in Connections
        /\ \A k \in Streams : Own(w.n, k) => k = m
        /\ \A k \in Streams : k # m => z.n[k] = w.n[k]
        /\ z.n[m] # None /\ z.n[m].up = Append(w.n[m].up, frame)
        /\ z.n[m].mine = w.n[m].mine /\ z.n[m].sse = w.n[m].sse /\ z.n[m].seq = w.n[m].seq
        /\ z.n[m].body = w.n[m].body /\ z.n[m].at = w.n[m].at /\ z.n[m].down = w.n[m].down
    BY <1>1, <2>2
  <2>6. Wire(v.t, v.n, s) /\ Pending(v.t, v.n, g)
    BY <1>1 DEF Honest, Wire, SidOf, Pending, Quiet
  <2>7. RightStays(v.t, v.c, v.n, g) /\ Repeats(v.t) /\ KeepsRight(v.t, v.c, g) /\ KeepsOpen(v.t, v.c, s)
    BY <1>1, <2>1 DEF RightStays, Repeats, KeepsRight, KeepsOpen, Keeps
  <2>8. Honest(v, s, g)
    BY <1>1, <2>6, <2>7 DEF Honest
  <2>9. w.n[m].up \in Seq(Frames) /\ NoAsk(w.n[m].up) /\ NoAnswer(w.n[m].down)
    BY <2>5 DEF Connections, Quiet
  <2>10. OneAsk(z.n[m].up, p) /\ NoAnswer(z.n[m].down)
    BY <1>1, <2>5, <2>9, AskAppends
  <2>11. \A k \in Streams : Own(z.n, k) => k = m
    BY <1>1, <2>5, <2>4 DEF Own
  <2>12. Pending(z.t, z.n, g)
    BY <1>1, <1>2, <2>5, <2>10, <2>11 DEF Pending
  <2>13. Served(v.n, s) /\ Served(z.n, s) /\ z.c = v.c
    BY <1>1, <2>5, <2>3 DEF Sound
  <2>14. Honest(z, s, g)
    BY <2>5, <2>4, <2>8, <2>12, <2>13, UpHonest
  <2>15. QED
    BY <1>1, <2>14 DEF z
<1>5. QED
  BY <1>3, <1>4

(* A yes settles the attempt it answers, if there is one, and that one's   *)
(* password is the operator's (settleAuthResponse).                        *)
LEMMA SettleYesHonest ==
    ASSUME NEW w, NEW s \in [Sids -> Sessions \union {None}], Sound(w, s), NEW g, Honest(w, s, g),
           Awaiting(w.t) =>
              /\ Quiet(w.n) /\ Confirmed(w.t, w.c, w.n, g)
              /\ g /\ ~w.c.misled => w.t.flow.password = "right"
              /\ ~w.t.socket.sse => w.c.up # None /\ (s[w.c.up] # None => s[w.c.up].authed)
    PROVE  Honest(settleAuthResponse(w, TRUE), s, g)
<1>1. CASE ~Awaiting(w.t)
  BY <1>1 DEF settleAuthResponse
<1>2. ASSUME Awaiting(w.t)
      PROVE  w.t.flow # None /\ w.t.flow \in Flows /\ ~w.t.flow.stale /\ w.t \in Transports
  BY <1>2 DEF Awaiting, Sound, WorldInv, FlowHeld, Transports
<1>3. CASE Awaiting(w.t) /\ w.t.flow.at = "cached"
  BY <1>3, EndFlowHonest DEF settleAuthResponse
<1>4. CASE Awaiting(w.t) /\ w.t.flow.at # "cached"
  <2> DEFINE f == [w.t.flow EXCEPT !.at = "keep"]
             v == [w EXCEPT !.t.flow = f]
             z == [v EXCEPT !.t.cache = w.t.flow.password]
  <2>1. f \in Flows /\ f.at = "keep" /\ f.password = w.t.flow.password /\ f.stale = w.t.flow.stale
    BY <1>2, <1>4 DEF Flows
  <2>2. w.t.socket # None /\ w.t.flow.password # None
    BY <1>2, <1>4 DEF Sound, WorldInv, FlowHeld, Awaiting
  <2>3. w.t.flow.password \in Words
    BY <1>2, <1>4 DEF Flows
  <2>4. settleAuthResponse(w, TRUE) = z
    BY <1>4 DEF settleAuthResponse
  <2> HIDE DEF f
  <2>5. f # None /\ FlowFits(w.t, f)
    BY <2>1, <2>2, NoneIsApart DEF FlowFits
  <2>6. Sound(v, s)
    BY <2>1, <2>5, FlowSound
  <2>7. v.t.flow = f /\ v.t.socket = w.t.socket /\ v.t.nonce = w.t.nonce /\ v.n = w.n /\ v.c = w.c
    <3>1. SetsFlow(w, v, f)
      BY DEF SetsFlow
    <3> HIDE DEF v
    <3>2. QED
      BY <3>1, FlowSetIs
  <2> HIDE DEF v
  <2>8. z.t.flow = v.t.flow /\ z.t.socket = v.t.socket /\ z.t.nonce = v.t.nonce /\ z.n = v.n /\ z.c = v.c
    <3>1. SetsCache(v, z, w.t.flow.password)
      BY DEF SetsCache
    <3> HIDE DEF z
    <3>2. QED
      BY <2>6, <3>1, CacheSetIs
  <2> HIDE DEF z
  <2>9. z.t.flow = f /\ z.t.socket = w.t.socket /\ z.t.nonce = w.t.nonce /\ z.n = w.n /\ z.c = w.c
    BY <2>7, <2>8
  <2>10. /\ Quiet(w.n) /\ Confirmed(w.t, w.c, w.n, g) /\ (g /\ ~w.c.misled => w.t.flow.password = "right")
         /\ ~w.t.socket.sse => w.c.up # None /\ (s[w.c.up] # None => s[w.c.up].authed)
    BY <1>4
  <2>11. Honest(z, s, g)
    BY <1>2, <1>4, <2>1, <2>5, <2>9, <2>10, FlowKeeps
  <2>12. QED
    BY <2>4, <2>11
<1>5. QED
  BY <1>1, <1>3, <1>4

(* A no settles the attempt it answers, if there is one, and that one's    *)
(* password is not the operator's (settleAuthResponse).                    *)
LEMMA SettleNoHonest ==
    ASSUME NEW w, NEW s \in [Sids -> Sessions \union {None}], Sound(w, s), NEW g, Honest(w, s, g),
           Awaiting(w.t) => Quiet(w.n) /\ NotRight(w.t, w.c, g)
    PROVE  Honest(settleAuthResponse(w, FALSE), s, g)
<1>1. CASE ~Awaiting(w.t)
  BY <1>1 DEF settleAuthResponse
<1>2. CASE Awaiting(w.t) /\ w.t.flow.at = "cached"
  <2> DEFINE v == [w EXCEPT !.t.flow = Flow("wipe")]
             z == [v EXCEPT !.t.cache = None]
  <2>1. Sound(v, s)
    <3>1. w.t.socket # None
      BY <1>2 DEF Awaiting, Sound, WorldInv, FlowHeld
    <3>2. Flow("wipe") \in Flows /\ FlowFits(w.t, Flow("wipe"))
      BY <3>1, FlowTyped DEF FlowFits, Words
    <3>3. QED
      BY <3>2, FlowSound
  <2>2. v.t.flow = Flow("wipe") /\ v.t.socket = w.t.socket /\ v.t.nonce = w.t.nonce /\ v.n = w.n /\ v.c = w.c
    <3>1. SetsFlow(w, v, Flow("wipe"))
      BY DEF SetsFlow
    <3> HIDE DEF v
    <3>2. QED
      BY <3>1, FlowSetIs
  <2>3. settleAuthResponse(w, FALSE) = z
    BY <1>2 DEF settleAuthResponse
  <2> HIDE DEF v
  <2>4. z.t.flow = Flow("wipe") /\ z.t.socket = w.t.socket /\ z.t.nonce = w.t.nonce /\ z.n = w.n /\ z.c = w.c
    <3>1. SetsCache(v, z, None)
      BY DEF SetsCache
    <3> HIDE DEF z
    <3>2. z.t.flow = v.t.flow /\ z.t.socket = v.t.socket /\ z.t.nonce = v.t.nonce /\ z.n = v.n /\ z.c = v.c
      BY <2>1, <3>1, CacheSetIs
    <3>3. QED
      BY <2>2, <3>2
  <2> HIDE DEF z
  <2>5. z.t.flow.at = "wipe"
    BY <2>4 DEF Flow
  <2>6. Confirmed(w.t, w.c, w.n, g) /\ Quiet(w.n) /\ NotRight(w.t, w.c, g)
    BY <1>2, NotRightConfirms
  <2>7. Honest(z, s, g)
    BY <2>4, <2>5, <2>6, FlowLeaves
  <2>8. QED
    BY <2>3, <2>7
<1>3. CASE Awaiting(w.t) /\ w.t.flow.at # "cached"
  BY <1>3, AskUserHonest DEF settleAuthResponse
<1>4. QED
  BY <1>1, <1>2, <1>3

(* A gated answer starts a flow only if the password repeated so far is    *)
(* not the operator's (runAuthFlow).                                       *)
LEMMA RunFlowHonest ==
    ASSUME NEW w, NEW s \in [Sids -> Sessions \union {None}], Sound(w, s), NEW g, Honest(w, s, g),
           w.t.flow = None => NotRight(w.t, w.c, g)
    PROVE  Honest(runAuthFlow(w), s, g)
<1>1. w = [t |-> w.t, c |-> w.c, n |-> w.n] /\ w.t \in Transports /\ w.c \in Consumers
  BY DEF Sound, WorldInv
<1>2. CASE w.t.flow # None
  <2> DEFINE c == [w.c EXCEPT !.coalesced = @ \/ w.t.flow.stale]
             v == [t |-> w.t, c |-> c, n |-> w.n]
  <2>1. runAuthFlow(w) = v
    BY <1>1, <1>2 DEF runAuthFlow
  <2>2. c.up = w.c.up /\ c.misled = w.c.misled
    BY <1>1 DEF Consumers
  <2> HIDE DEF c
  <2>3. Honest(v, s, g)
    BY <2>2 DEF Honest, RightStays, KeepsRight, KeepsOpen
  <2>4. QED
    BY <2>1, <2>3
<1>3. CASE w.t.flow = None /\ ~IsOpen(w.t)
  BY <1>3 DEF runAuthFlow
<1>4. ASSUME w.t.flow = None PROVE Quiet(w.n) /\ NotRight(w.t, w.c, g)
  BY <1>4, QuietUnlessAwaiting DEF Awaiting, Honest
<1>5. CASE w.t.flow = None /\ IsOpen(w.t) /\ w.t.cache # None /\ ~w.t.tried
  <2> DEFINE u == [w.t EXCEPT !.tried = TRUE]
             v == [w EXCEPT !.t.tried = TRUE]
  <2>1. Sound(v, s) /\ v = [t |-> u, c |-> w.c, n |-> w.n]
    BY TriedSound
  <2>2. u.socket = w.t.socket /\ u.flow = w.t.flow /\ u.nonce = w.t.nonce
    BY <1>1 DEF Transports
  <2>3. w.t.cache \in Passwords /\ w.t.socket # None
    BY <1>1, <1>5 DEF Transports, Words, IsOpen
  <2>4. runAuthFlow(w) = attemptAuthenticate(v, "cached", w.t.cache)
    BY <1>5 DEF runAuthFlow
  <2> HIDE DEF u, v
  <2>5. v.t.socket = w.t.socket /\ v.t.flow = w.t.flow /\ v.t.nonce = w.t.nonce /\ v.c = w.c /\ v.n = w.n
    BY <2>1, <2>2
  <2>6. Honest(v, s, g)
    BY <2>5 DEF Honest, Wire, SidOf, Pending, Awaiting, RightStays, Repeats, KeepsRight, KeepsOpen, Keeps
  <2>7. Quiet(v.n) /\ NotRight(v.t, v.c, g) /\ v.t.socket # None
    BY <1>4, <1>5, <2>3, <2>5 DEF NotRight
  <2>8. Honest(attemptAuthenticate(v, "cached", w.t.cache), s, g)
    BY <2>1, <2>3, <2>6, <2>7, AttemptHonest
  <2>9. QED
    BY <2>4, <2>8
<1>6. CASE w.t.flow = None /\ IsOpen(w.t) /\ ~(w.t.cache # None /\ ~w.t.tried)
  <2> DEFINE v == [w EXCEPT !.t.flow = Flow("dialog")]
  <2>1. Flow("dialog") \in Flows /\ FlowFits(w.t, Flow("dialog")) /\ Flow("dialog").at = "dialog"
    BY <1>6, FlowTyped DEF FlowFits, Words, IsOpen
  <2>2. Sound(v, s)
    BY <2>1, FlowSound
  <2>3. v.t.flow = Flow("dialog") /\ v.t.socket = w.t.socket /\ v.t.nonce = w.t.nonce /\ v.n = w.n /\ v.c = w.c
    <3>1. SetsFlow(w, v, Flow("dialog"))
      BY DEF SetsFlow
    <3> HIDE DEF v
    <3>2. QED
      BY <3>1, FlowSetIs
  <2>4. runAuthFlow(w) = AskUser(v)
    BY <1>6 DEF runAuthFlow
  <2> HIDE DEF v
  <2>5. Quiet(w.n) /\ NotRight(w.t, w.c, g) /\ Confirmed(w.t, w.c, w.n, g)
    BY <1>4, <1>6, NotRightConfirms
  <2>6. Honest(v, s, g)
    BY <2>1, <2>3, <2>5, FlowLeaves
  <2>7. Quiet(v.n) /\ NotRight(v.t, v.c, g)
    BY <2>3, <2>5 DEF NotRight
  <2>8. QED
    BY <2>2, <2>4, <2>6, <2>7, AskUserHonest
<1>7. QED
  BY <1>2, <1>3, <1>5, <1>6

-----------------------------------------------------------------------------
(* Sockets come and go.                                                    *)

(* What the rest of the transport, or of the consumers, has no part in.    *)
LEMMA StaysHonest ==
    ASSUME NEW w, NEW v, NEW s, NEW g, Honest(w, s, g), v.n = w.n,
           v.t.socket = w.t.socket, v.t.nonce = w.t.nonce, v.t.flow = w.t.flow,
           v.c.up = w.c.up, v.c.misled = w.c.misled
    PROVE  Honest(v, s, g)
<1>1. Wire(v.t, v.n, s) /\ Pending(v.t, v.n, g)
  BY DEF Honest, Wire, SidOf, Pending, Awaiting
<1>2. RightStays(v.t, v.c, v.n, g) /\ Repeats(v.t)
  BY DEF Honest, RightStays, Repeats
<1>3. KeepsRight(v.t, v.c, g) /\ KeepsOpen(v.t, v.c, s)
  BY DEF Honest, KeepsRight, KeepsOpen, Keeps
<1>4. QED
  BY <1>1, <1>2, <1>3 DEF Honest

(* Without a socket only the relay's part is left.                         *)
LEMMA NoSocketHonest ==
    ASSUME NEW w, NEW s, Sound(w, s), NEW g, w.t.socket = None, RelayAuth(w.n, s, g)
    PROVE  Honest(w, s, g)
<1>1. \A m \in Streams : ~Own(w.n, m)
  BY DEF Sound, WorldInv, OwnsItsOwn
<1>2. w.t.flow # None => w.t.flow.stale
  BY DEF Sound, WorldInv, FlowHeld
<1>3. QED
  BY <1>1, <1>2, NobodyIsHonest

(* The relay's side stays true when the client stops to listen             *)
(* (Unlistened).                                                           *)
LEMMA UnlistenedAuth ==
    ASSUME NEW n \in Wires, NEW s \in [Sids -> Sessions \union {None}], Served(n, s), NEW g, RelayAuth(n, s, g),
           \A m \in Streams : n[m] # None => LooseShape(n[m])
    PROVE  RelayAuth(Unlistened(n), s, g)
<1> DEFINE l == [m \in Streams |-> IF n[m] # None /\ n[m].mine THEN LetGo(n[m]) ELSE n[m]]
           k == Unlistened(n)
<1>1. ASSUME NEW x \in Connections
      PROVE  LetGo(x) \in Connections /\ LetGo(x).sse = x.sse /\ LetGo(x).body = x.body /\ Told(LetGo(x)) = {}
  <2>1. <<>> \in Seq(Events)
    OBVIOUS
  <2>2. LetGo(x) \in Connections /\ LetGo(x).sse = x.sse /\ LetGo(x).body = x.body /\ LetGo(x).down = <<>>
    BY <2>1 DEF LetGo, Connections
  <2>3. QED
    BY <2>2 DEF Told
<1>2. \A m \in Streams : n[m] # None =>
         l[m] \in Connections /\ l[m].sse = n[m].sse /\ l[m].body = n[m].body /\ Told(l[m]) \subseteq Told(n[m])
  BY <1>1 DEF Wires
<1>3. \A m \in Streams : n[m] = None => l[m] = None
  OBVIOUS
<1>4. l \in Wires
  BY <1>2, <1>3 DEF Wires
<1>5. k = Swept(l)
  BY DEF Unlistened
<1> HIDE DEF l
<1>6. \A m \in Streams : k[m] # None => l[m] # None /\ k[m] = l[m]
  BY <1>4, <1>5, SweptHolds
<1>7. Served(k, s)
  BY UnlistenedHolds
<1> HIDE DEF k
<1>8. \A m \in Streams : n[m] # None /\ k[m] # None =>
         k[m].sse = n[m].sse /\ k[m].body = n[m].body /\ Told(k[m]) \subseteq Told(n[m])
  BY <1>2, <1>6
<1>9. \A m \in Streams : n[m] = None /\ k[m] # None => Told(k[m]) = {}
  BY <1>3, <1>6
<1>10. RelayAuth(k, s, g)
  BY <1>7, <1>8, <1>9, RelayAuthLess
<1>11. QED
  BY <1>10 DEF k

(* A socket is dropped with everything pending on it, and nobody is left   *)
(* to be misled (DropSocket).                                              *)
LEMMA DropAndTellHonest ==
    ASSUME NEW w, NEW s \in [Sids -> Sessions \union {None}], Loose(w, s), w.t.socket # None,
           NEW g, RelayAuth(w.n, s, g)
    PROVE  /\ Honest(notifyDisconnected(DropSocket(w)), s, g)
           /\ RelayAuth(DropSocket(w).n, s, g)
           /\ notifyDisconnected(DropSocket(w)).n = DropSocket(w).n
<1> DEFINE v == notifyDisconnected(DropSocket(w))
<1>1. DropSocket(w) = [t |-> Dropped(w.t), c |-> w.c, n |-> Unlistened(w.n)]
  BY DropSocketIs DEF Loose
<1>2. v.n = Unlistened(w.n) /\ DropSocket(w).n = Unlistened(w.n)
  BY <1>1 DEF notifyDisconnected
<1>3. RelayAuth(Unlistened(w.n), s, g)
  BY UnlistenedAuth DEF Loose
<1>4. Sound(v, s) /\ v.t.socket = None
  BY DropAndTellSound
<1> HIDE DEF v
<1>5. Honest(v, s, g)
  BY <1>2, <1>3, <1>4, NoSocketHonest
<1>6. QED
  BY <1>2, <1>3, <1>5 DEF v

(* The same for the teardown of the current socket, if any                 *)
(* (teardownCurrentSocket).                                                *)
LEMMA TeardownHonest ==
    ASSUME NEW w, NEW s \in [Sids -> Sessions \union {None}], Sound(w, s), NEW g, Honest(w, s, g)
    PROVE  Honest(teardownCurrentSocket(w), s, g)
<1>1. RelayAuth(w.n, s, g) /\ Loose(w, s)
  BY SoundIsLoose DEF Honest
<1>2. CASE w.t.socket = None
  BY <1>2 DEF teardownCurrentSocket
<1>3. CASE w.t.socket # None
  BY <1>1, <1>3, DropAndTellHonest DEF teardownCurrentSocket
<1>4. QED
  BY <1>2, <1>3

(* A new SSE socket starts with no password (tryOpen).                     *)
LEMMA TryOpenSseHonest ==
    ASSUME NEW w, NEW s, Sound(w, s), w.t.socket = None, NEW g, RelayAuth(w.n, s, g)
    PROVE  Honest(tryOpen(w, TRUE), s, g)
<1>1. CASE ~MayOpen(w.t)
  BY <1>1, NoSocketHonest DEF tryOpen
<1>2. CASE MayOpen(w.t)
  <2> DEFINE u == Opened(w.t, TRUE)
             v == [t |-> u, c |-> w.c, n |-> w.n]
  <2>1. tryOpen(w, TRUE) = v
    BY <1>2, OpenedIs DEF tryOpen, Sound
  <2>2. u.socket = NewSocket(TRUE)
    BY OpenedHolds DEF Sound, WorldInv
  <2>3. u.flow = w.t.flow
    BY DEF Opened, Sound, WorldInv, Transports
  <2> HIDE DEF u
  <2>4. u.socket.password = None
    BY <2>2 DEF NewSocket
  <2>5. \A m \in Streams : ~Own(w.n, m)
    BY DEF Sound, WorldInv, OwnsItsOwn
  <2>6. u.flow # None => u.flow.stale
    BY <2>3 DEF Sound, WorldInv, FlowHeld
  <2>7. Honest(v, s, g)
    BY <2>4, <2>5, <2>6, NobodyIsHonest
  <2>8. QED
    BY <2>1, <2>7
<1>3. QED
  BY <1>1, <1>2

(* A new WebSocket starts with an empty stream, asked for while it         *)
(* connects (tryOpen).                                                     *)
LEMMA TryOpenSocketHonest ==
    ASSUME NEW w, NEW s \in [Sids -> Sessions \union {None}], Sound(w, s), w.t.socket = None,
           \E m \in Streams : w.n[m] = None, NEW g, RelayAuth(w.n, s, g)
    PROVE  Honest(tryOpen(w, FALSE), s, g)
<1>1. CASE ~MayOpen(w.t)
  BY <1>1, NoSocketHonest DEF tryOpen
<1>2. CASE MayOpen(w.t)
  <2> DEFINE u == Opened(w.t, FALSE)
             m == FreeStream(w)
             x == NewStream(FALSE, 0, NoBody)
             k == [w.n EXCEPT ![m] = x]
             v == [w EXCEPT !.t.socket = NewSocket(FALSE), !.t.nonce = None, !.t.tried = FALSE]
             z == [t |-> u, c |-> w.c, n |-> k]
  <2>1. tryOpen(w, FALSE) = [v EXCEPT !.n[m] = x]
    BY <1>2 DEF tryOpen
  <2>2. v = [t |-> u, c |-> w.c, n |-> w.n]
    BY OpenedIs DEF Sound
  <2>3. m \in Streams /\ w.n[m] = None
    BY FreeIsFree
  <2>4. x \in Connections /\ Shape(x) /\ x.at = "asked" /\ x.up = <<>> /\ x.down = <<>>
    <3>1. x \in Connections /\ Shape(x)
      BY NewStreamTyped, NoBodyTyped
    <3>2. x.at = "asked" /\ x.up = <<>> /\ x.down = <<>>
      BY DEF NewStream
    <3>3. QED
      BY <3>1, <3>2
  <2>5. u.socket = NewSocket(FALSE) /\ u.nonce = None
    BY OpenedHolds DEF Sound, WorldInv
  <2>6. u.flow = w.t.flow
    BY DEF Opened, Sound, WorldInv, Transports
  <2>7. ~u.socket.sse /\ u.socket.state = "connecting"
    BY <2>5, NewSocketTyped
  <2> HIDE DEF u, m, x, v
  <2>8. tryOpen(w, FALSE) = z
    BY <2>1, <2>2
  <2>9. Served(k, s) /\ k[m] = x /\ (\A j \in Streams : j # m => k[j] = w.n[j])
        /\ \A j \in Streams : Own(k, j) <=> (Own(w.n, j) \/ (j = m /\ x.mine))
    BY <2>3, <2>4, JoinServed DEF Sound, WorldInv
  <2>10. \A j \in Streams : Own(k, j) => j = m
    BY <2>9 DEF Sound, WorldInv, OwnsItsOwn
  <2> HIDE DEF k
  <2>11. Told(x) = {} /\ NoAsk(x.up) /\ NoAnswer(x.down)
    BY <2>4 DEF Told, NoAsk, NoAnswer
  <2>12. \A y \in Sids : s[y] # None => s[y].res # m
    BY <2>3 DEF Sound, Served
  <2>13. Wire(u, k, s)
    BY <2>4, <2>7, <2>9, <2>10, <2>11, <2>12 DEF Wire
  <2>14. Pending(u, k, g)
    BY <2>9, <2>10, <2>11 DEF Pending
  <2>15. ~Keeps(u)
    BY <2>6 DEF Keeps, Sound, WorldInv, FlowHeld
  <2>16. RightStays(u, w.c, k, g) /\ Repeats(u)
    BY <2>7 DEF RightStays, Repeats
  <2>17. RelayAuth(k, s, g)
    <3>1. \A j \in Streams : w.n[j] # None /\ k[j] # None =>
           k[j].sse = w.n[j].sse /\ k[j].body = w.n[j].body /\ Told(k[j]) \subseteq Told(w.n[j])
      BY <2>3, <2>9
    <3>2. \A j \in Streams : w.n[j] = None /\ k[j] # None => Told(k[j]) = {}
      BY <2>9, <2>11
    <3>3. Served(w.n, s)
      BY DEF Sound
    <3>4. QED
      BY <2>9, <3>1, <3>2, <3>3, RelayAuthLess
  <2>18. Honest(z, s, g)
    BY <2>13, <2>14, <2>15, <2>16, <2>17 DEF Honest, KeepsRight, KeepsOpen
  <2>19. QED
    BY <2>8, <2>18
<1>3. QED
  BY <1>1, <1>2

(* The same where there may already be a socket (openSocket).              *)
LEMMA OpenSocketHonest ==
    ASSUME NEW w, NEW s \in [Sids -> Sessions \union {None}], Sound(w, s), \E m \in Streams : w.n[m] = None,
           NEW g, Honest(w, s, g)
    PROVE  Honest(openSocket(w), s, g)
<1>1. RelayAuth(w.n, s, g)
  BY DEF Honest
<1>2. CASE w.t.socket # None
  BY <1>2 DEF openSocket
<1>3. CASE w.t.socket = None
  BY <1>1, <1>3, TryOpenSocketHonest DEF openSocket
<1>4. QED
  BY <1>2, <1>3

(* The close event drops the socket and may open its fallback              *)
(* (SocketClosed).                                                         *)
LEMMA SocketClosedHonest ==
    ASSUME NEW w, NEW s \in [Sids -> Sessions \union {None}], Loose(w, s), w.t.socket # None,
           NEW g, RelayAuth(w.n, s, g)
    PROVE  Honest(SocketClosed(w), s, g)
<1> DEFINE v == DropSocket(w)
<1>1. v = [t |-> Dropped(w.t), c |-> w.c, n |-> Unlistened(w.n)]
  BY DropSocketIs DEF Loose
<1>2. Honest(notifyDisconnected(v), s, g) /\ RelayAuth(v.n, s, g)
  BY DropAndTellHonest
<1>3. CASE w.t.socket.state = "connecting" /\ ~w.t.socket.sse /\ ~v.t.closed /\ v.t.handles > 0
  <2>1. w.c \in Consumers /\ w.c.up = None
    BY <1>3 DEF Loose, NonceHeld
  <2>2. Sound(v, s) /\ v.t.socket = None
    BY <1>1, <2>1, DroppedSound
  <2>3. SocketClosed(w) = tryOpen(v, TRUE)
    BY <1>3 DEF SocketClosed
  <2>4. QED
    BY <1>2, <2>2, <2>3, TryOpenSseHonest
<1>4. CASE ~(w.t.socket.state = "connecting" /\ ~w.t.socket.sse /\ ~v.t.closed /\ v.t.handles > 0)
  <2> DEFINE y == notifyDisconnected(v)
             z == scheduleReconnect(y)
  <2>1. SocketClosed(w) = z
    BY <1>4 DEF SocketClosed
  <2>2. Sound(y, s) /\ Honest(y, s, g)
    BY <1>2, DropAndTellSound
  <2> HIDE DEF y
  <2>3. y = [t |-> y.t, c |-> y.c, n |-> y.n] /\ y.t \in Transports
    BY <2>2 DEF Sound, WorldInv
  <2>4. z = [t |-> [y.t EXCEPT !.reconnecting = MayOpen(y.t)], c |-> y.c, n |-> y.n]
    BY <2>3, ReconnectingSet DEF scheduleReconnect
  <2>5. z.n = y.n /\ z.c = y.c /\ z.t.socket = y.t.socket /\ z.t.nonce = y.t.nonce /\ z.t.flow = y.t.flow
    BY <2>3, <2>4 DEF Transports
  <2> HIDE DEF z
  <2>6. Honest(z, s, g)
    BY <2>2, <2>5, StaysHonest
  <2>7. QED
    BY <2>1, <2>6
<1>5. QED
  BY <1>3, <1>4

-----------------------------------------------------------------------------
(* An SSE transport writes and reads.                                      *)

(* Over SSE the invariant knows the socket by its password and by the      *)
(* response it has come to, and of the consumers whether one was misled.   *)
LEMMA SseMoves ==
    ASSUME NEW w, NEW s, Sound(w, s), w.t.socket # None, w.t.socket.sse, NEW v, NEW g, Honest(w, s, g),
           v.n = w.n, v.t.flow = w.t.flow, v.c.misled = w.c.misled, v.t.socket # None, v.t.socket.sse,
           v.t.socket.password = w.t.socket.password, v.t.socket.dispatched \in Nat,
           v.t.socket.dispatched >= w.t.socket.dispatched
    PROVE  Honest(v, s, g)
<1>1. \A m \in Streams : Own(v.n, m) => v.n[m].sse /\ v.n[m].seq \in Nat
  BY DEF Sound, WorldInv, OwnsItsOwn, Own, Wires, Connections
<1>2. Wire(v.t, v.n, s) /\ Pending(v.t, v.n, g)
  BY <1>1 DEF Wire, Pending
<1>3. w.t.socket.dispatched \in Nat
  BY SocketIsTyped DEF Sockets
<1>4. RightFrom(w.n, w.t.socket.dispatched) => RightFrom(v.n, v.t.socket.dispatched)
  <2>1. \A m \in Streams : Own(v.n, m) /\ v.n[m].seq >= v.t.socket.dispatched => v.n[m].seq >= w.t.socket.dispatched
    BY <1>1, <1>3
  <2>2. QED
    BY <2>1 DEF RightFrom
<1>5. RightStays(v.t, v.c, v.n, g)
  BY <1>4 DEF RightStays, Honest
<1>6. Repeats(v.t) /\ KeepsRight(v.t, v.c, g) /\ KeepsOpen(v.t, v.c, s) /\ RelayAuth(v.n, s, g)
  BY DEF Repeats, KeepsRight, KeepsOpen, Keeps, Honest
<1>7. QED
  BY <1>2, <1>5, <1>6 DEF Honest

(* A new POST repeats the password its socket has, and is the latest       *)
(* (Post).                                                                 *)
LEMMA PostHonest ==
    ASSUME NEW w, NEW s \in [Sids -> Sessions \union {None}], Sound(w, s),
           w.t.socket # None, w.t.socket.sse, \E m \in Streams : w.n[m] = None, NEW g, Honest(w, s, g)
    PROVE  Honest(Post(w), s, g)
<1> DEFINE v == Post(w)
           m == FreeStream(w)
<1>1. /\ Sound(v, s) /\ v.t.socket # None /\ v.t.socket.sse
      /\ \A j \in Streams : j # m => v.n[j] = w.n[j]
      /\ v.c = w.c /\ v.t.nonce = w.t.nonce /\ v.t.flow = w.t.flow
      /\ v.t.socket.password = w.t.socket.password /\ v.t.socket.state = w.t.socket.state
      /\ v.t.socket.dispatched = w.t.socket.dispatched
      /\ m \in Streams /\ w.n[m] = None /\ v.n[m] # None /\ v.n[m].down = <<>>
      /\ v.n[m].body.password = w.t.socket.password
      /\ v.n[m].seq = w.t.socket.postSeq + 1
  BY PostSound
<1> HIDE DEF v, m
<1>2. Wire(v.t, v.n, s) /\ Pending(v.t, v.n, g)
  <2>1. \A j \in Streams : Own(v.n, j) => v.n[j].sse
    BY <1>1 DEF Sound, WorldInv, OwnsItsOwn
  <2>2. QED
    BY <2>1 DEF Wire, Pending
<1>3. \A j \in Streams : j # m => (Own(v.n, j) <=> Own(w.n, j)) /\ (Right(v.n, j) <=> Right(w.n, j))
  BY <1>1 DEF Own, Right
<1>4. ~Own(w.n, m)
  BY <1>1 DEF Own
<1>5. \A j \in Streams : j # m /\ Own(v.n, j) => ~(v.n[j].seq >= v.n[m].seq)
  <2>1. ASSUME NEW j \in Streams, j # m, Own(v.n, j)
        PROVE  v.n[j].seq <= w.t.socket.postSeq /\ v.n[j].seq \in Nat
    BY <1>1, <1>3, <2>1 DEF Sound, WorldInv, Numbered, Own, Wires, Connections
  <2>2. w.t.socket.postSeq \in Nat
    BY SocketIsTyped DEF Sockets
  <2>3. QED
    BY <1>1, <2>1, <2>2
<1>6. v.t.socket.password = "right" => \A k : RightFrom(w.n, k) => RightFrom(v.n, k)
  <2>1. ASSUME v.t.socket.password = "right", NEW k, RightFrom(w.n, k), NEW j \in Streams, Own(v.n, j), v.n[j].seq >= k
        PROVE  Right(v.n, j)
    <3>1. CASE j = m
      BY <1>1, <2>1, <3>1 DEF Right
    <3>2. CASE j # m
      BY <1>1, <1>3, <2>1, <3>2 DEF RightFrom
    <3>3. QED
      BY <3>1, <3>2
  <2>2. QED
    BY <2>1 DEF RightFrom
<1>7. v.t.socket.password = "right" => RightFrom(v.n, v.n[m].seq)
  <2>1. ASSUME v.t.socket.password = "right", NEW j \in Streams, Own(v.n, j), v.n[j].seq >= v.n[m].seq
        PROVE  Right(v.n, j)
    <3>1. j = m
      BY <1>5, <2>1
    <3>2. QED
      BY <1>1, <2>1, <3>1 DEF Right
  <2>2. QED
    BY <2>1 DEF RightFrom
<1>8. RightStays(v.t, v.c, v.n, g)
  <2>1. ASSUME g, ~v.c.misled PROVE
           /\ \A j \in Streams : Right(v.n, j) => v.t.socket.password = "right" /\ RightFrom(v.n, v.n[j].seq)
           /\ v.t.socket.password = "right" =>
              /\ v.t.flow # None => /\ v.t.flow.at \in {"cached", "typed", "keep"} /\ ~v.t.flow.stale
                                  /\ v.t.flow.password = "right"
              /\ v.t.flow = None \/ v.t.flow.at = "keep" => RightFrom(v.n, v.t.socket.dispatched)
    <3>1. /\ \A j \in Streams : Right(w.n, j) => w.t.socket.password = "right" /\ RightFrom(w.n, w.n[j].seq)
          /\ w.t.socket.password = "right" =>
              /\ w.t.flow # None => /\ w.t.flow.at \in {"cached", "typed", "keep"} /\ ~w.t.flow.stale
                                  /\ w.t.flow.password = "right"
              /\ w.t.flow = None \/ w.t.flow.at = "keep" => RightFrom(w.n, w.t.socket.dispatched)
      BY <1>1, <2>1 DEF Honest, RightStays
    <3>2. ASSUME NEW j \in Streams, Right(v.n, j)
          PROVE  v.t.socket.password = "right" /\ RightFrom(v.n, v.n[j].seq)
      <4>1. CASE j = m
        BY <1>1, <1>7, <3>2, <4>1 DEF Right
      <4>2. CASE j # m
        BY <1>1, <1>3, <1>6, <3>1, <3>2, <4>2
      <4>3. QED
        BY <4>1, <4>2
    <3>3. QED
      BY <1>1, <1>6, <3>1, <3>2
  <2>2. QED
    BY <2>1 DEF RightStays
<1>9. Repeats(v.t) /\ KeepsRight(v.t, v.c, g) /\ KeepsOpen(v.t, v.c, s)
  BY <1>1 DEF Repeats, KeepsRight, KeepsOpen, Keeps, Honest
<1>10. RelayAuth(v.n, s, g)
  <2>1. \A j \in Streams : w.n[j] # None /\ v.n[j] # None =>
           v.n[j].sse = w.n[j].sse /\ v.n[j].body = w.n[j].body /\ Told(v.n[j]) \subseteq Told(w.n[j])
    BY <1>1
  <2>2. \A j \in Streams : w.n[j] = None /\ v.n[j] # None => Told(v.n[j]) = {}
    BY <1>1 DEF Told
  <2>3. Served(w.n, s) /\ Served(v.n, s) /\ RelayAuth(w.n, s, g)
    BY <1>1 DEF Sound, Honest
  <2>4. QED
    BY <2>1, <2>2, <2>3, RelayAuthLess
<1>11. QED
  BY <1>2, <1>8, <1>9, <1>10 DEF Honest, v

(* The same for the flushes a POST's answer lets go on (Resume).           *)
LEMMA ResumeHonest ==
    ASSUME NEW w, NEW s \in [Sids -> Sessions \union {None}], Sound(w, s), NEW k,
           w.t.socket # None, w.t.socket.sse, TwoFree(w.n), NEW g, Honest(w, s, g)
    PROVE  Honest(Resume(w, k), s, g)
<1> DEFINE v == Post(w)
<1>1. \E m \in Streams : w.n[m] = None
  BY DEF TwoFree
<1>2. Sound(v, s) /\ v.t.socket # None /\ v.t.socket.sse
      /\ \A j \in Streams : j # FreeStream(w) => v.n[j] = w.n[j]
  BY <1>1, PostSound
<1>3. \E m \in Streams : v.n[m] = None
  BY <1>2 DEF TwoFree
<1>4. Honest(v, s, g)
  BY <1>1, PostHonest
<1>5. Honest(Post(v), s, g)
  <2> HIDE DEF v
  <2>1. QED
    BY <1>2, <1>3, <1>4, PostHonest
<1>6. QED
  BY <1>4, <1>5 DEF Resume

(* What the client has read before; of a WebSocket, not before it has the  *)
(* nonce.                                                                  *)
LEMMA TakenHonest ==
    ASSUME NEW w, NEW s \in [Sids -> Sessions \union {None}], Sound(w, s), NEW m \in Streams,
           w.n[m] # None, w.n[m].down # <<>>, NEW g, Honest(w, s, g),
           w.n[m].sse \/ ~w.n[m].mine \/ w.t.nonce # None
    PROVE  Honest(Taken(w, m), s, g)
<1> DEFINE v == Taken(w, m)
<1>1. /\ Sound(v, s) /\ v.t = w.t /\ v.c = w.c
      /\ \A j \in Streams : j # m => v.n[j] = w.n[j]
      /\ v.n[m] # None /\ v.n[m].down = Tail(w.n[m].down) /\ v.n[m].mine = w.n[m].mine /\ v.n[m].sse = w.n[m].sse
      /\ v.n[m].seq = w.n[m].seq /\ v.n[m].at = w.n[m].at /\ v.n[m].up = w.n[m].up /\ v.n[m].body = w.n[m].body
      /\ Told(v.n[m]) \subseteq Told(w.n[m])
  BY TakenSound
<1> HIDE DEF v
<1>2. \A j \in Streams : (Own(v.n, j) <=> Own(w.n, j)) /\ (Right(v.n, j) <=> Right(w.n, j))
  BY <1>1 DEF Own, Right
<1>3. Wire(v.t, v.n, s)
  <2>1. ASSUME NEW j \in Streams, Own(v.n, j), ~v.n[j].sse
        PROVE  /\ v.n[j].at = w.n[j].at /\ Told(v.n[j]) \subseteq Told(w.n[j])
               /\ SidOf(v.t, v.n[j]) = SidOf(w.t, w.n[j])
               /\ v.t.nonce = None => v.n[j] = w.n[j]
    <3>1. CASE j = m
      BY <1>1, <2>1, <3>1 DEF SidOf, Own
    <3>2. CASE j # m
      BY <1>1, <3>2
    <3>3. QED
      BY <3>1, <3>2
  <2>2. \A j \in Streams : v.n[j].sse = w.n[j].sse
    BY <1>1
  <2>3. QED
    BY <1>1, <1>2, <2>1, <2>2 DEF Wire, Honest
<1>4. Pending(v.t, v.n, g)
  <2>1. ASSUME NEW j \in Streams, Own(v.n, j), ~v.n[j].sse
        PROVE  \/ NoAsk(v.n[j].up) /\ NoAnswer(v.n[j].down)
               \/ Awaiting(v.t) /\ OneAsk(v.n[j].up, v.t.flow.password) /\ NoAnswer(v.n[j].down)
               \/ Awaiting(v.t) /\ NoAsk(v.n[j].up) /\ OneAnswer(v.n[j].down, g => v.t.flow.password = "right")
    <3>1. \/ NoAsk(w.n[j].up) /\ NoAnswer(w.n[j].down)
          \/ Awaiting(w.t) /\ OneAsk(w.n[j].up, w.t.flow.password) /\ NoAnswer(w.n[j].down)
          \/ Awaiting(w.t) /\ NoAsk(w.n[j].up) /\ OneAnswer(w.n[j].down, g => w.t.flow.password = "right")
      BY <1>1, <1>2, <2>1 DEF Pending, Honest
    <3>2. CASE j = m
      <4>1. w.n[m].down \in Seq(Events)
        BY DEF Sound, WorldInv, Wires, Connections
      <4>2. /\ NoAnswer(w.n[m].down) => NoAnswer(v.n[m].down)
            /\ \A ok : OneAnswer(w.n[m].down, ok) => OneAnswer(v.n[m].down, ok)
        BY <1>1, <4>1, AnswerTails
      <4>3. OneAnswer(w.n[m].down, g => w.t.flow.password = "right")
              => OneAnswer(v.n[m].down, g => w.t.flow.password = "right")
        BY <4>2
      <4>4. QED
        BY <1>1, <3>1, <3>2, <4>2, <4>3
    <3>3. CASE j # m
      BY <1>1, <3>1, <3>3
    <3>4. QED
      BY <3>2, <3>3
  <2>2. QED
    BY <2>1 DEF Pending
<1>5. \A k : RightFrom(w.n, k) => RightFrom(v.n, k)
  BY <1>1, <1>2 DEF RightFrom
<1>6. RightStays(v.t, v.c, v.n, g)
  <2>1. \A j \in Streams : v.n[j].seq = w.n[j].seq
    BY <1>1
  <2>2. QED
    BY <1>1, <1>2, <1>5, <2>1 DEF RightStays, Honest
<1>7. Repeats(v.t) /\ KeepsRight(v.t, v.c, g) /\ KeepsOpen(v.t, v.c, s)
  BY <1>1 DEF Honest
<1>8. RelayAuth(v.n, s, g)
  <2>1. \A j \in Streams : w.n[j] # None /\ v.n[j] # None =>
           v.n[j].sse = w.n[j].sse /\ v.n[j].body = w.n[j].body /\ Told(v.n[j]) \subseteq Told(w.n[j])
    BY <1>1
  <2>2. \A j \in Streams : w.n[j] = None /\ v.n[j] # None => Told(v.n[j]) = {}
    BY <1>1
  <2>3. Served(w.n, s) /\ Served(v.n, s) /\ RelayAuth(w.n, s, g)
    BY <1>1 DEF Sound, Honest
  <2>4. QED
    BY <2>1, <2>2, <2>3, RelayAuthLess
<1>9. QED
  BY <1>3, <1>4, <1>6, <1>7, <1>8 DEF Honest, v

-----------------------------------------------------------------------------
(* Messages.                                                               *)

LEMMA HearIs ==
    ASSUME NEW w, NEW s, Sound(w, s), NEW e \in Events
    PROVE  LET v == Hear(w, e) IN v.t = w.t /\ v.n = w.n /\ v.c.up = w.c.up /\ v.c.misled = w.c.misled
<1> DEFINE c == IF e.sid # w.c.up THEN w.c
                ELSE [w.c EXCEPT !.heard = e.n, !.missed = @ \/ e.n # w.c.heard + 1,
                                 !.answered = @ \/ e.type = "answer"]
<1>1. Hear(w, e) = [t |-> w.t, c |-> c, n |-> w.n]
  BY DEF Hear, Sound, WorldInv, Consumers
<1>2. c.up = w.c.up /\ c.misled = w.c.misled
  BY DEF Sound, WorldInv, Consumers
<1> HIDE DEF c
<1>3. QED
  BY <1>1, <1>2

(* What the consumers hear of answers and data has no part in the          *)
(* authentication (Hear).                                                  *)
LEMMA HearHonest ==
    ASSUME NEW w, NEW s, Sound(w, s), NEW e \in Events, NEW g, Honest(w, s, g)
    PROVE  Honest(Hear(w, e), s, g)
<1> DEFINE v == Hear(w, e)
<1>1. v.t = w.t /\ v.n = w.n /\ v.c.up = w.c.up /\ v.c.misled = w.c.misled
  BY HearIs
<1> HIDE DEF v
<1>2. Honest(v, s, g)
  BY <1>1, StaysHonest
<1>3. QED
  BY <1>2 DEF v

(* What reading an event leaves, under names of its own.                   *)
LEMMA TakenIs ==
    ASSUME NEW w, NEW s \in [Sids -> Sessions \union {None}], Sound(w, s), NEW m \in Streams,
           w.n[m] # None, w.n[m].down # <<>>, NEW y, y = Taken(w, m), NEW e, e = Head(w.n[m].down)
    PROVE  /\ Sound(y, s) /\ y.t = w.t /\ y.c = w.c /\ e \in Events /\ e \in Told(w.n[m])
           /\ \A j \in Streams : j # m => y.n[j] = w.n[j]
           /\ y.n[m] # None /\ y.n[m].down = Tail(w.n[m].down) /\ y.n[m].mine = w.n[m].mine /\ y.n[m].sse = w.n[m].sse
           /\ y.n[m].seq = w.n[m].seq /\ y.n[m].at = w.n[m].at /\ y.n[m].up = w.n[m].up /\ y.n[m].body = w.n[m].body
           /\ Told(y.n[m]) \subseteq Told(w.n[m])
<1>1. /\ Sound(y, s) /\ e \in Events /\ y.t = w.t /\ y.c = w.c /\ e \in Told(w.n[m])
      /\ \A j \in Streams : j # m => y.n[j] = w.n[j]
  BY TakenSound
<1> DEFINE x == y.n[m]
<1>2. /\ x # None /\ x.down = Tail(w.n[m].down) /\ x.mine = w.n[m].mine /\ x.sse = w.n[m].sse
      /\ x.seq = w.n[m].seq /\ x.at = w.n[m].at /\ x.up = w.n[m].up /\ x.body = w.n[m].body
      /\ Told(x) \subseteq Told(w.n[m])
  BY TakenSound
<1>3. QED
  BY <1>1, <1>2

(* Over a WebSocket an answer is the only one, and of the attempt awaited. *)
LEMMA AnswerTaken ==
    ASSUME NEW w, NEW s \in [Sids -> Sessions \union {None}], Sound(w, s), NEW m \in Streams,
           Own(w.n, m), w.n[m].down # <<>>, NEW g, Honest(w, s, g), Head(w.n[m].down).type \in Answers
    PROVE  /\ Quiet(Taken(w, m).n)
           /\ ~w.n[m].sse /\ Head(w.n[m].down).type = "authenticated" /\ g => w.t.flow.password = "right"
<1> DEFINE v == Taken(w, m)
<1>1. w.n[m] # None
  BY DEF Own
<1>2. /\ Sound(v, s) /\ v.t = w.t
      /\ \A j \in Streams : j # m => v.n[j] = w.n[j]
      /\ v.n[m] # None /\ v.n[m].down = Tail(w.n[m].down) /\ v.n[m].mine = w.n[m].mine /\ v.n[m].sse = w.n[m].sse
      /\ v.n[m].up = w.n[m].up
  <2>1. v = Taken(w, m)
    OBVIOUS
  <2> HIDE DEF v
  <2>2. QED
    BY <1>1, <2>1, TakenIs
<1> HIDE DEF v
<1>3. w.t.socket # None /\ w.n[m].sse = w.t.socket.sse
  BY DEF Sound, WorldInv, OwnsItsOwn
<1>4. CASE w.n[m].sse
  <2>1. \A j \in Streams : Own(v.n, j) => v.n[j].sse
    BY <1>2, <1>3, <1>4 DEF Sound, WorldInv, OwnsItsOwn
  <2>2. QED
    BY <1>4, <2>1 DEF Quiet, v
<1>5. CASE ~w.n[m].sse
  <2> DEFINE ok == g => w.t.flow.password = "right"
  <2>1. w.n[m].down \in Seq(Events)
    BY DEF Sound, WorldInv, Wires, Connections, Own
  <2>2. /\ NoAnswer(w.n[m].down) => Head(w.n[m].down).type \notin Answers
        /\ OneAnswer(w.n[m].down, ok) => NoAnswer(Tail(w.n[m].down)) /\ (Head(w.n[m].down).type = "authenticated" => ok)
    <3> DEFINE q == w.n[m].down
    <3>1. q \in Seq(Events) /\ q # <<>> /\ Head(q).type \in Answers
      BY <2>1
    <3> HIDE DEF ok, q
    <3>2. /\ NoAnswer(q) => NoAnswer(Tail(q)) /\ Head(q).type \notin Answers
          /\ OneAnswer(q, ok) =>
                 /\ OneAnswer(Tail(q), ok)
                 /\ Head(q).type \in Answers => NoAnswer(Tail(q)) /\ (Head(q).type = "authenticated" => ok)
      BY <3>1, AnswerTails
    <3>3. QED
      BY <3>1, <3>2 DEF q
  <2>3. NoAsk(w.n[m].up) /\ OneAnswer(w.n[m].down, ok)
    BY <1>5, <2>2 DEF Honest, Pending
  <2>4. \A j \in Streams : Own(v.n, j) => j = m
    <3>1. \A j \in Streams : Own(v.n, j) => Own(w.n, j)
      BY <1>2 DEF Own
    <3>2. QED
      BY <1>3, <1>5, <3>1 DEF Sound, WorldInv, OwnsItsOwn
  <2>5. Quiet(v.n)
    BY <1>2, <2>2, <2>3, <2>4 DEF Quiet
  <2>6. QED
    BY <2>2, <2>3, <2>5 DEF v
<1>6. QED
  BY <1>4, <1>5

(* A challenge gives the client the name of the session it is about.       *)
LEMMA WsChallengeHonest ==
    ASSUME NEW w, NEW s \in [Sids -> Sessions \union {None}], Sound(w, s), NEW m \in Streams,
           Own(w.n, m), ~w.n[m].sse, w.n[m].down # <<>>, NEW g, Honest(w, s, g),
           Head(w.n[m].down).type = "challenge"
    PROVE  Honest(handleMessage(Taken(w, m), Head(w.n[m].down)), s, g)
<1> DEFINE y == Taken(w, m)
           e == Head(w.n[m].down)
           v == handleMessage(y, e)
<1>1. w.n[m] # None
  BY DEF Own
<1>2. /\ Sound(y, s) /\ y.t = w.t /\ y.c = w.c /\ e \in Events /\ e \in Told(w.n[m])
      /\ \A j \in Streams : j # m => y.n[j] = w.n[j]
      /\ y.n[m] # None /\ y.n[m].down = Tail(w.n[m].down) /\ y.n[m].mine = w.n[m].mine /\ y.n[m].sse = w.n[m].sse
      /\ y.n[m].seq = w.n[m].seq /\ y.n[m].at = w.n[m].at /\ y.n[m].up = w.n[m].up /\ y.n[m].body = w.n[m].body
      /\ Told(y.n[m]) \subseteq Told(w.n[m])
  <2>1. y = Taken(w, m) /\ e = Head(w.n[m].down)
    OBVIOUS
  <2> HIDE DEF v, y, e
  <2>2. QED
    BY <1>1, <2>1, TakenIs
<1> HIDE DEF y, e
<1>3. e.type = "challenge" /\ e.sid \in Sids /\ e.sid # None
  BY <1>2, NoneIsApart DEF e, Events
<1>4. PICK c \in Consumers : c.up = e.sid /\ c.misled = y.c.misled
                             /\ v = [t |-> [y.t EXCEPT !.nonce = e.sid], c |-> c, n |-> y.n]
  BY <1>2, <1>3, HandleChallengeIs
<1> DEFINE u == [w.t EXCEPT !.nonce = e.sid]
<1>5. v.n = y.n /\ v.c = c /\ v.t = u
  BY <1>2, <1>4
<1>6. u.nonce = e.sid /\ u.socket = w.t.socket /\ u.flow = w.t.flow
  BY DEF Sound, WorldInv, Transports
<1> HIDE DEF u, v
<1>7. w.t.socket # None /\ ~w.t.socket.sse /\ (\A j \in Streams : Own(y.n, j) => j = m)
  <2>1. w.t.socket # None /\ ~w.t.socket.sse
    BY DEF Sound, WorldInv, OwnsItsOwn
  <2>2. \A j \in Streams : Own(y.n, j) => Own(w.n, j)
    BY <1>2 DEF Own
  <2>3. QED
    BY <2>1, <2>2 DEF Sound, WorldInv, OwnsItsOwn
<1>8. e.sid = SidOf(w.t, w.n[m])
  BY <1>2 DEF Honest, Wire
<1>9. Wire(u, y.n, s)
  <2>1. \A x : SidOf(u, x) = e.sid
    BY <1>3, <1>6 DEF SidOf
  <2>2. /\ w.n[m].at = "asked" => w.t.socket.state = "connecting"
        /\ \A d \in Told(w.n[m]) : d.sid = e.sid
        /\ \A x \in Sids : s[x] # None /\ s[x].res = m => x = e.sid
    BY <1>8 DEF Honest, Wire
  <2>3. QED
    BY <1>2, <1>3, <1>6, <1>7, <2>1, <2>2 DEF Wire
<1>10. Pending(u, y.n, g)
  <2> DEFINE ok == g => w.t.flow.password = "right"
  <2>1. \/ NoAsk(w.n[m].up) /\ NoAnswer(w.n[m].down)
        \/ Awaiting(w.t) /\ OneAsk(w.n[m].up, w.t.flow.password) /\ NoAnswer(w.n[m].down)
        \/ Awaiting(w.t) /\ NoAsk(w.n[m].up) /\ OneAnswer(w.n[m].down, ok)
    BY DEF Pending, Honest
  <2>2. Awaiting(u) <=> Awaiting(w.t)
    BY <1>6 DEF Awaiting
  <2> HIDE DEF ok
  <2>3. w.n[m].down \in Seq(Events)
    BY DEF Sound, WorldInv, Wires, Connections, Own
  <2>4. /\ NoAnswer(w.n[m].down) => NoAnswer(y.n[m].down)
        /\ OneAnswer(w.n[m].down, ok) => OneAnswer(y.n[m].down, ok)
    BY <1>2, <2>3, AnswerTails
  <2>5. \/ NoAsk(y.n[m].up) /\ NoAnswer(y.n[m].down)
        \/ Awaiting(u) /\ OneAsk(y.n[m].up, u.flow.password) /\ NoAnswer(y.n[m].down)
        \/ Awaiting(u) /\ NoAsk(y.n[m].up) /\ OneAnswer(y.n[m].down, g => u.flow.password = "right")
    BY <1>2, <1>6, <2>1, <2>2, <2>4 DEF ok
  <2>6. QED
    BY <1>7, <2>5 DEF Pending
<1>11. RightStays(u, c, y.n, g) /\ Repeats(u)
  BY <1>6, <1>7 DEF RightStays, Repeats
<1>12. KeepsRight(u, c, g)
  BY <1>2, <1>4, <1>6 DEF KeepsRight, Keeps, Honest
<1>13. KeepsOpen(u, c, s)
  <2>1. ASSUME Keeps(u) PROVE s[e.sid] # None => s[e.sid].authed
    <3>1. Keeps(w.t)
      BY <1>6, <2>1 DEF Keeps
    <3>2. w.c.up # None /\ (s[w.c.up] # None => s[w.c.up].authed)
      BY <1>7, <3>1 DEF Honest, KeepsOpen
    <3>3. w.t.nonce = w.c.up
      BY DEF Sound, WorldInv, NonceHeld
    <3>4. e.sid = w.c.up
      BY <1>8, <3>2, <3>3 DEF SidOf
    <3>5. QED
      BY <3>2, <3>4
  <2>2. QED
    BY <1>3, <1>4, <2>1 DEF KeepsOpen
<1>14. RelayAuth(y.n, s, g)
  <2>1. \A j \in Streams : w.n[j] # None /\ y.n[j] # None =>
           y.n[j].sse = w.n[j].sse /\ y.n[j].body = w.n[j].body /\ Told(y.n[j]) \subseteq Told(w.n[j])
    BY <1>2
  <2>2. \A j \in Streams : w.n[j] = None /\ y.n[j] # None => Told(y.n[j]) = {}
    BY <1>2 DEF Own
  <2>3. Served(w.n, s) /\ Served(y.n, s) /\ RelayAuth(w.n, s, g)
    BY <1>2 DEF Sound, Honest
  <2>4. QED
    BY <2>1, <2>2, <2>3, RelayAuthLess
<1>15. Honest(v, s, g)
  BY <1>5, <1>9, <1>10, <1>11, <1>12, <1>13, <1>14 DEF Honest
<1>16. QED
  BY <1>15 DEF v, y, e

(* To note that a flow was misled only weakens what is said of it.         *)
LEMMA MisledHonest ==
    ASSUME NEW w, NEW s, Sound(w, s), NEW b \in BOOLEAN, w.c.misled => b, NEW g, Honest(w, s, g)
    PROVE  LET v == [w EXCEPT !.c.misled = b] IN
           /\ Sound(v, s) /\ Honest(v, s, g) /\ v.t = w.t /\ v.n = w.n /\ v.c.misled = b
<1> DEFINE c == [w.c EXCEPT !.misled = b]
           v == [w EXCEPT !.c.misled = b]
<1>1. w = [t |-> w.t, c |-> w.c, n |-> w.n] /\ w.c \in Consumers
  BY DEF Sound, WorldInv
<1>2. c.up = w.c.up /\ c.misled = b
  BY <1>1 DEF Consumers
<1>3. v = [t |-> w.t, c |-> c, n |-> w.n]
  BY <1>1
<1>4. Sound(v, s)
  BY MisledSet
<1> HIDE DEF c, v
<1>5. v.t = w.t /\ v.n = w.n /\ v.c = c
  BY <1>3
<1>6. RightStays(v.t, v.c, v.n, g) /\ KeepsRight(v.t, v.c, g) /\ KeepsOpen(v.t, v.c, s)
  BY <1>2, <1>5 DEF Honest, RightStays, KeepsRight, KeepsOpen
<1>7. Honest(v, s, g)
  BY <1>5, <1>6 DEF Honest
<1>8. QED
  BY <1>2, <1>4, <1>5, <1>7 DEF v

(* What the consumers owe has no part in the authentication.               *)
LEMMA DueHonest ==
    ASSUME NEW w, NEW s, Sound(w, s), NEW b \in BOOLEAN, NEW g, Honest(w, s, g)
    PROVE  LET v == [w EXCEPT !.c.due = b] IN Honest(v, s, g) /\ v.t = w.t
<1> DEFINE c == [w.c EXCEPT !.due = b]
           v == [w EXCEPT !.c.due = b]
<1>1. w = [t |-> w.t, c |-> w.c, n |-> w.n] /\ w.c \in Consumers
  BY DEF Sound, WorldInv
<1>2. c.up = w.c.up /\ c.misled = w.c.misled
  BY <1>1 DEF Consumers
<1>3. v = [t |-> w.t, c |-> c, n |-> w.n]
  BY <1>1
<1> HIDE DEF c, v
<1>4. v.t = w.t /\ v.n = w.n /\ v.c = c
  BY <1>3
<1>5. Honest(v, s, g)
  BY <1>2, <1>4, StaysHonest
<1>6. QED
  BY <1>4, <1>5 DEF v

(* Every message but a challenge.                                          *)
LEMMA HandleMessageHonest ==
    ASSUME NEW w, NEW s \in [Sids -> Sessions \union {None}], Sound(w, s), IsOpen(w.t),
           NEW e \in Events, e.type \in {"authenticated", "auth-failed", "gated", "answer", "data"},
           NEW g, Honest(w, s, g),
           e.type = "authenticated" /\ Awaiting(w.t) =>
              /\ Quiet(w.n) /\ Confirmed(w.t, w.c, w.n, g)
              /\ g /\ ~w.c.misled => w.t.flow.password = "right"
              /\ ~w.t.socket.sse => w.c.up # None /\ (s[w.c.up] # None => s[w.c.up].authed),
           e.type = "auth-failed" => Quiet(w.n),
           e.type = "gated" /\ w.t.flow = None => NotRight(w.t, w.c, g)
    PROVE  Honest(handleMessage(w, e), s, g)
<1>1. CASE e.type = "authenticated"
  <2> DEFINE yes == TRUE
             y == settleAuthResponse(w, yes)
             v == Hear(y, e)
  <2>1. handleMessage(w, e) = [v EXCEPT !.c.due = yes]
    BY <1>1 DEF handleMessage
  <2>2. yes \in BOOLEAN
    OBVIOUS
  <2>3. Honest(y, s, g)
    BY <1>1, SettleYesHonest
  <2> HIDE DEF yes
  <2>4. Sound(y, s)
    BY <2>2, SettleSound
  <2> HIDE DEF y
  <2>5. Sound(v, s) /\ Honest(v, s, g)
    BY <2>3, <2>4, HearSound, HearHonest
  <2> HIDE DEF v
  <2>6. QED
    BY <2>1, <2>2, <2>5, DueHonest
<1>2. CASE e.type = "auth-failed"
  <2> DEFINE b == w.c.misled \/ (Awaiting(w.t) /\ w.t.flow.password = "right")
             no == FALSE
             v == [w EXCEPT !.c.misled = b]
             y == settleAuthResponse(v, no)
  <2>1. handleMessage(w, e) = Hear(y, e)
    BY <1>2 DEF handleMessage
  <2>2. no \in BOOLEAN /\ b \in BOOLEAN
    BY DEF Sound, WorldInv, Consumers, Awaiting
  <2>3. /\ Sound(v, s) /\ Honest(v, s, g) /\ v.t = w.t /\ v.n = w.n /\ v.c.misled = b
    <3>1. w.c.misled => b
      OBVIOUS
    <3> HIDE DEF b
    <3>2. QED
      BY <2>2, <3>1, MisledHonest
  <2>4. Awaiting(v.t) => NotRight(v.t, v.c, g)
    <3>1. ASSUME Awaiting(w.t), ~b, w.t.socket # None, w.t.socket.sse PROVE w.t.socket.password # "right"
      <4>1. w.t.flow # None /\ w.t.flow.at \in {"cached", "typed"} /\ ~w.t.flow.stale
        BY <3>1 DEF Awaiting, Sound, WorldInv, FlowHeld
      <4>2. w.t.socket.password = w.t.flow.password
        BY <3>1, <4>1 DEF Honest, Repeats
      <4>3. QED
        BY <3>1, <4>2
    <3> HIDE DEF b, v
    <3>2. QED
      BY <2>3, <3>1 DEF NotRight
  <2> HIDE DEF v
  <2>5. Honest(y, s, g)
    BY <1>2, <2>3, <2>4, SettleNoHonest
  <2> HIDE DEF no
  <2>6. Sound(y, s)
    BY <2>2, <2>3, SettleSound
  <2> HIDE DEF y
  <2>7. QED
    BY <2>1, <2>5, <2>6, HearHonest
<1>3. CASE e.type = "gated"
  <2> DEFINE v == Hear(w, e)
  <2>1. handleMessage(w, e) = runAuthFlow(v)
    BY <1>3 DEF handleMessage
  <2>2. Sound(v, s) /\ Honest(v, s, g) /\ v.t = w.t /\ v.c.misled = w.c.misled
    BY HearSound, HearHonest, HearIs
  <2> HIDE DEF v
  <2>3. v.t.flow = None => NotRight(v.t, v.c, g)
    BY <1>3, <2>2 DEF NotRight
  <2>4. QED
    BY <2>1, <2>2, <2>3, RunFlowHonest
<1>4. CASE e.type \in {"answer", "data"}
  <2>1. handleMessage(w, e) = Hear(w, e)
    BY <1>4 DEF handleMessage
  <2>2. QED
    BY <2>1, HearHonest
<1>5. QED
  BY <1>1, <1>2, <1>3, <1>4

(* An event read from a WebSocket leaves the authentication true: an       *)
(* answer is the one awaited, and comes from the session the transport is  *)
(* connected under (ReceiveMessage, handleMessage).                        *)
LEMMA WsMessageHonest ==
    ASSUME NEW w, NEW s \in [Sids -> Sessions \union {None}], Sound(w, s), IsOpen(w.t), NEW m \in Streams,
           Own(w.n, m), ~w.n[m].sse, w.n[m].down # <<>>, NEW g, Honest(w, s, g)
    PROVE  Honest(handleMessage(Taken(w, m), Head(w.n[m].down)), s, g)
<1> DEFINE v == Taken(w, m)
           e == Head(w.n[m].down)
<1>1. w.n[m] # None
  BY DEF Own
<1>2. /\ Sound(v, s) /\ v.t = w.t /\ v.c = w.c /\ e \in Events /\ e \in Told(w.n[m])
  BY <1>1, TakenSound
<1>3. e.type \in Answers =>
         /\ Quiet(v.n)
         /\ e.type = "authenticated" /\ g => w.t.flow.password = "right"
  BY AnswerTaken
<1>4. w.t.nonce = None => e.type = "challenge"
  BY DEF Honest, Wire
<1>5. w.t.nonce # None => e.sid = w.t.nonce
  BY <1>2 DEF Honest, Wire, SidOf
<1>6. e.type \notin {"session", "close"}
  BY <1>1, <1>2 DEF Sound, WorldInv, Shapes, Shape
<1>7. w.t.socket # None /\ ~w.t.socket.sse /\ w.t.nonce = w.c.up
  BY DEF Sound, WorldInv, OwnsItsOwn, NonceHeld
<1>8. CASE e.type = "challenge"
  BY <1>8, WsChallengeHonest
<1>9. CASE e.type # "challenge"
  <2>1. Honest(v, s, g)
    BY <1>1, <1>4, <1>9, TakenHonest
  <2> HIDE DEF v, e
  <2>2. e.type = "authenticated" => w.c.up # None /\ (s[w.c.up] # None => s[w.c.up].authed)
    <3>1. e.type = "authenticated" /\ s[e.sid] # None => s[e.sid].authed
      BY <1>1, <1>2 DEF Honest, RelayAuth, Authorizes
    <3>2. QED
      BY <1>4, <1>5, <1>7, <1>9, <3>1
  <2>3. e.type \in {"authenticated", "auth-failed", "gated", "answer", "data"}
    BY <1>2, <1>6, <1>9 DEF Events
  <2>4. e.type = "authenticated" /\ Awaiting(v.t) =>
              /\ Quiet(v.n) /\ Confirmed(v.t, v.c, v.n, g)
              /\ g /\ ~v.c.misled => v.t.flow.password = "right"
              /\ ~v.t.socket.sse => v.c.up # None /\ (s[v.c.up] # None => s[v.c.up].authed)
    BY <1>2, <1>3, <1>7, <2>2 DEF Answers, Confirmed
  <2>5. e.type = "auth-failed" => Quiet(v.n)
    BY <1>3 DEF Answers
  <2>6. NotRight(v.t, v.c, g)
    BY <1>2, <1>7 DEF NotRight
  <2>7. IsOpen(v.t)
    BY <1>2
  <2>8. Honest(handleMessage(v, e), s, g)
    BY <1>2, <2>1, <2>3, <2>4, <2>5, <2>6, <2>7, HandleMessageHonest
  <2>9. QED
    BY <2>8 DEF v, e
<1>10. QED
  BY <1>8, <1>9

(* A change of the socket's fields touches nothing else of the world.      *)
LEMMA SocketFieldsIs ==
    ASSUME NEW w, NEW s, Sound(w, s), w.t.socket # None, NEW k \in Sockets, NEW v,
           v = [t |-> [w.t EXCEPT !.socket = k], c |-> w.c, n |-> w.n]
    PROVE  v.t.socket = k /\ k # None /\ v.t.flow = w.t.flow /\ v.t.nonce = w.t.nonce /\ v.n = w.n /\ v.c = w.c
<1>1. w.t \in Transports
  BY DEF Sound, WorldInv
<1> DEFINE u == [w.t EXCEPT !.socket = k]
<1>2. u.socket = k /\ u.flow = w.t.flow /\ u.nonce = w.t.nonce
  BY <1>1 DEF Transports
<1> HIDE DEF u
<1>3. v.t = u /\ v.c = w.c /\ v.n = w.n
  BY DEF u
<1>4. QED
  BY <1>2, <1>3, NoneIsApart

(* Over SSE the response an event is read from tells of which attempt it   *)
(* speaks: the POST of it had the password or had not.                     *)
LEMMA SseMessageHonest ==
    ASSUME NEW w, NEW s \in [Sids -> Sessions \union {None}], Sound(w, s), NEW m \in Streams,
           Own(w.n, m), w.n[m].sse, w.n[m].down # <<>>, NEW g, Honest(w, s, g)
    PROVE  Honest(dispatchOrderedEvent(Taken(w, m), Head(w.n[m].down), w.n[m].seq), s, g)
<1> DEFINE y == Taken(w, m)
           e == Head(w.n[m].down)
           seq == w.n[m].seq
           z == dispatchOrderedEvent(y, e, seq)
<1>1. w.n[m] # None
  BY DEF Own
<1>2. /\ Sound(y, s) /\ y.t = w.t /\ y.c = w.c /\ e \in Events /\ e \in Told(w.n[m])
      /\ y.n[m] # None /\ y.n[m].mine = w.n[m].mine
      /\ y.n[m].seq = w.n[m].seq /\ y.n[m].body = w.n[m].body
  <2> HIDE DEF seq, z
  <2>1. Sound(y, s) /\ y.t = w.t /\ y.c = w.c /\ e \in Events /\ e \in Told(w.n[m])
    BY <1>1, TakenSound
  <2>2. y.n[m] # None /\ y.n[m].mine = w.n[m].mine /\ y.n[m].seq = w.n[m].seq /\ y.n[m].body = w.n[m].body
    <3> HIDE DEF e
    <3>1. QED
      BY <1>1, TakenSound
  <2>3. QED
    BY <2>1, <2>2
<1>3. Honest(y, s, g)
  BY <1>1, TakenHonest
<1>4. y.t.socket # None /\ y.t.socket.sse /\ Own(y.n, m)
  BY <1>2 DEF Sound, WorldInv, OwnsItsOwn, Own
<1>5. seq \in Nat /\ seq <= y.t.socket.postSeq
  BY <1>1, <1>2, <1>4 DEF Sound, WorldInv, Numbered, Wires, Connections
<1>6. /\ e.type = "authenticated" /\ g => y.n[m].body.password = "right"
      /\ e.type = "gated" /\ g => y.n[m].body.password # "right"
  BY <1>1, <1>2 DEF Honest, RelayAuth, BodiesAnswered
<1> HIDE DEF y, e
<1>7. Loose(y, s) /\ RelayAuth(y.n, s, g)
  BY <1>2, <1>3, SoundIsLoose DEF Honest
<1>8. CASE seq < y.t.socket.dispatched
  <2>1. z = SocketClosed(y)
    BY <1>8 DEF dispatchOrderedEvent
  <2>2. QED
    BY <1>4, <1>7, <2>1, SocketClosedHonest DEF y, e
<1>9. CASE ~(seq < y.t.socket.dispatched)
  <2> DEFINE k == [y.t.socket EXCEPT !.dispatched = seq]
             v == [y EXCEPT !.t.socket.dispatched = seq]
  <2>1. z = dispatchEvent_(v, e)
    BY <1>9 DEF dispatchOrderedEvent
  <2>2. v = [t |-> [y.t EXCEPT !.socket = k], c |-> y.c, n |-> y.n]
    BY <1>2 DEF Sound
  <2>3. y.t.socket \in Sockets
    BY <1>2, <1>4, SocketIsTyped
  <2>4. k \in Sockets /\ k.sse = y.t.socket.sse /\ k.flushing = y.t.socket.flushing /\ k.dispatched = seq
      /\ k.postSeq = y.t.socket.postSeq /\ k.state = y.t.socket.state /\ k.password = y.t.socket.password
      /\ y.t.socket.dispatched \in Nat
    BY <1>5, <2>3 DEF Sockets
  <2> HIDE DEF k, v, z, seq
  <2>5. Sound(v, s)
    BY <1>2, <1>4, <1>5, <2>2, <2>4, OnlySocket, SocketIsTyped
  <2>6. v.t.socket = k /\ k # None /\ v.t.flow = y.t.flow /\ v.t.nonce = y.t.nonce /\ v.n = y.n /\ v.c = y.c
    BY <1>2, <1>4, <2>2, <2>4, SocketFieldsIs
  <2>7. Honest(v, s, g)
    <3>1. /\ v.t.socket # None /\ v.t.socket.sse /\ v.t.socket.password = y.t.socket.password
          /\ v.n = y.n /\ v.t.flow = y.t.flow /\ v.c.misled = y.c.misled
      BY <1>4, <2>4, <2>6
    <3>2. seq >= y.t.socket.dispatched
      BY <1>5, <1>9, <2>4
    <3>3. v.t.socket.dispatched \in Nat /\ v.t.socket.dispatched >= y.t.socket.dispatched
      BY <1>5, <2>4, <2>6, <3>2
    <3>4. QED
      BY <1>2, <1>3, <1>4, <3>1, <3>3, SseMoves
  <2>8. v.t.socket # None /\ v.t.socket.sse /\ v.t.socket.dispatched = seq /\ v.t.socket.dispatched \in Nat
        /\ v.t.socket.dispatched >= v.t.socket.dispatched
    <3>1. seq >= seq
      BY <1>5
    <3>2. QED
      BY <1>4, <1>5, <2>4, <2>6, <3>1
  <2>9. CASE e.type = "session"
    <3> DEFINE l == [v.t.socket EXCEPT !.id = e.sid, !.state = "open"]
               a == dispatchEvent_(v, e)
    <3>1. a = [t |-> [v.t EXCEPT !.socket = l], c |-> v.c, n |-> v.n]
      <4>1. a = [v EXCEPT !.t.socket.id = e.sid, !.t.socket.state = "open"]
        BY <2>9 DEF dispatchEvent_
      <4>2. v = [t |-> v.t, c |-> v.c, n |-> v.n]
        BY <2>5 DEF Sound
      <4>3. QED
        BY <4>1, <4>2, SessionEventIs
    <3>2. l \in Sockets /\ l.sse = v.t.socket.sse /\ l.dispatched = v.t.socket.dispatched
          /\ l.password = v.t.socket.password
      BY <1>2, <2>4, <2>6 DEF Sockets, Events, Nonces
    <3> HIDE DEF l, a
    <3>3. a.t.socket = l /\ l # None /\ a.t.flow = v.t.flow /\ a.n = v.n /\ a.c = v.c
      BY <2>5, <2>8, <3>1, <3>2, SocketFieldsIs
    <3>4. /\ a.t.socket # None /\ a.t.socket.sse /\ a.t.socket.password = v.t.socket.password
          /\ a.t.socket.dispatched \in Nat /\ a.t.socket.dispatched >= v.t.socket.dispatched
          /\ a.n = v.n /\ a.t.flow = v.t.flow /\ a.c.misled = v.c.misled
      BY <2>8, <3>2, <3>3
    <3>5. Honest(a, s, g)
      BY <2>5, <2>7, <2>8, <3>4, SseMoves
    <3>6. QED
      BY <2>1, <3>5 DEF a, z, y, e, seq
  <2>10. CASE e.type = "close"
    <3>1. dispatchEvent_(v, e) = SocketClosed(v)
      BY <2>10 DEF dispatchEvent_
    <3>2. Loose(v, s) /\ RelayAuth(v.n, s, g)
      BY <2>5, <2>7, SoundIsLoose DEF Honest
    <3>3. Honest(SocketClosed(v), s, g)
      BY <2>8, <3>2, SocketClosedHonest
    <3>4. QED
      BY <2>1, <3>1, <3>3 DEF z, y, e, seq
  <2>11. CASE e.type \notin {"session", "close"} /\ ~IsOpen(v.t)
    <3>1. dispatchEvent_(v, e) = v
      BY <2>11 DEF dispatchEvent_
    <3>2. QED
      BY <2>1, <2>7, <3>1 DEF z, y, e, seq
  <2>12. CASE e.type = "challenge" /\ IsOpen(v.t)
    <3> DEFINE a == handleMessage(v, e)
    <3>1. dispatchEvent_(v, e) = a
      BY <2>12 DEF dispatchEvent_
    <3>2. PICK c \in Consumers : c.up = e.sid /\ c.misled = v.c.misled
                             /\ a = [t |-> [v.t EXCEPT !.nonce = e.sid], c |-> c, n |-> v.n]
      BY <1>2, <2>5, <2>12, HandleChallengeIs
    <3> DEFINE u == [v.t EXCEPT !.nonce = e.sid]
    <3>3. u.socket = v.t.socket /\ u.flow = v.t.flow
      BY <2>5 DEF Sound, WorldInv, Transports
    <3> HIDE DEF u, a
    <3>4. a.t = u /\ a.n = v.n /\ a.c = c
      BY <3>2 DEF u
    <3>5. /\ a.t.socket # None /\ a.t.socket.sse /\ a.t.socket.password = v.t.socket.password
          /\ a.t.socket.dispatched \in Nat /\ a.t.socket.dispatched >= v.t.socket.dispatched
          /\ a.n = v.n /\ a.t.flow = v.t.flow /\ a.c.misled = v.c.misled
      BY <2>8, <3>2, <3>3, <3>4
    <3>6. Honest(a, s, g)
      BY <2>5, <2>7, <2>8, <3>5, SseMoves
    <3>7. QED
      BY <2>1, <3>1, <3>6 DEF z, y, e, seq
  <2>13. CASE e.type \in {"authenticated", "auth-failed", "gated", "answer", "data"} /\ IsOpen(v.t)
    <3>1. dispatchEvent_(v, e) = handleMessage(v, e)
      BY <2>13 DEF dispatchEvent_
    <3>2. Quiet(v.n)
      BY <2>5, <2>8 DEF Sound, WorldInv, OwnsItsOwn, Quiet
    <3>3. Own(v.n, m) /\ v.n[m].seq = seq /\ v.n[m].seq >= v.t.socket.dispatched
      BY <1>2, <1>4, <2>6, <2>8 DEF seq
    <3>4. ASSUME e.type = "authenticated", Awaiting(v.t), g, ~v.c.misled
          PROVE  v.t.flow.password = "right" /\ RightFrom(v.n, v.t.socket.dispatched)
      <4>1. Right(v.n, m)
        BY <1>6, <2>6, <3>3, <3>4 DEF Right
      <4>2. v.t.socket.password = "right" /\ RightFrom(v.n, v.n[m].seq)
        BY <2>7, <2>8, <3>4, <4>1 DEF Honest, RightStays
      <4>3. v.t.flow # None /\ v.t.flow.at \in {"cached", "typed"} /\ ~v.t.flow.stale
        BY <2>5, <3>4 DEF Awaiting, Sound, WorldInv, FlowHeld
      <4>4. v.t.flow.password = v.t.socket.password
        BY <2>7, <2>8, <4>3 DEF Honest, Repeats
      <4>5. QED
        BY <2>8, <3>3, <4>2, <4>4
    <3>5. e.type = "authenticated" /\ Awaiting(v.t) =>
              /\ Quiet(v.n) /\ Confirmed(v.t, v.c, v.n, g)
              /\ g /\ ~v.c.misled => v.t.flow.password = "right"
              /\ ~v.t.socket.sse => v.c.up # None /\ (s[v.c.up] # None => s[v.c.up].authed)
      BY <2>8, <3>2, <3>4 DEF Confirmed
    <3>6. e.type = "gated" /\ v.t.flow = None => NotRight(v.t, v.c, g)
      <4>1. ASSUME e.type = "gated", v.t.flow = None, g, ~v.c.misled, v.t.socket.password = "right"
            PROVE  FALSE
        <5>1. RightFrom(v.n, v.t.socket.dispatched)
          BY <2>7, <2>8, <4>1 DEF Honest, RightStays
        <5>2. Right(v.n, m)
          BY <3>3, <5>1 DEF RightFrom
        <5>3. QED
          BY <1>6, <2>6, <4>1, <5>2 DEF Right
      <4>2. QED
        BY <4>1 DEF NotRight
    <3>7. Honest(handleMessage(v, e), s, g)
      BY <1>2, <2>5, <2>7, <2>13, <3>2, <3>5, <3>6, HandleMessageHonest
    <3>8. QED
      BY <2>1, <3>1, <3>7 DEF z, y, e, seq
  <2>14. QED
    BY <1>2, <2>9, <2>10, <2>11, <2>12, <2>13 DEF Events
<1>10. QED
  BY <1>8, <1>9

-----------------------------------------------------------------------------
(* The steps of the client.                                                *)

LEMMA WorldSound ==
    ASSUME TypeInv
    PROVE  /\ Sound(World, sessions) /\ sessions \in [Sids -> Sessions \union {None}]
           /\ World.t = transport /\ World.c = consumer /\ World.n = streams
           /\ transport \in Transports /\ consumer \in Consumers /\ streams \in Wires
<1>1. World.t = transport /\ World.c = consumer /\ World.n = streams
  BY DEF World
<1>2. World = [t |-> transport, c |-> consumer, n |-> streams]
  BY DEF World
<1>3. Sound(World, sessions)
  BY <1>1, <1>2 DEF TypeInv, Sound
<1>4. QED
  BY <1>1, <1>3 DEF TypeInv, WorldInv

(* A step that spends nothing keeps the scenario's type, and the relay     *)
(* gated or open.                                                          *)
LEMMA LeftStays ==
    ASSUME TypeInv, left' = left
    PROVE  LeftType' /\ left'.gated = left.gated
<1>1. QED
  BY DEF TypeInv, LeftType

(* So does one that spends (Spend).                                        *)
LEMMA LeftSpent ==
    ASSUME TypeInv, NEW kind \in Counts, Spend(kind)
    PROVE  LeftType' /\ left'.gated = left.gated
<1>1. LeftType
  BY DEF TypeInv
<1>2. left' = [left EXCEPT ![kind] = left[kind] - 1] /\ left[kind] > 0 /\ left[kind] \in Nat
  BY <1>1 DEF Spend, LeftType
<1>3. DOMAIN left' = DOMAIN left /\ left'[kind] = left[kind] - 1
      /\ \A k \in DOMAIN left : k # kind => left'[k] = left[k]
  BY <1>1, <1>2 DEF LeftType
<1>4. kind # "ws" /\ kind # "gated" /\ kind # "cache"
  BY DEF Counts
<1>5. \A k \in Counts : left'[k] \in Nat
  BY <1>1, <1>2, <1>3 DEF LeftType
<1>6. left'.ws = left.ws /\ left'.gated = left.gated /\ left'.cache = left.cache
  BY <1>1, <1>3, <1>4 DEF LeftType
<1>7. QED
  BY <1>1, <1>3, <1>5, <1>6 DEF LeftType

(* What is true of the world a step leaves, and of the sessions after it,  *)
(* is the invariant of the next state.                                     *)
LEMMA HonestPrimed ==
    ASSUME NEW v, transport' = v.t, consumer' = v.c, streams' = v.n, Honest(v, sessions', left'.gated)
    PROVE  AuthInv'
<1>1. /\ Wire(transport', streams', sessions') /\ Pending(transport', streams', left'.gated)
      /\ RightStays(transport', consumer', streams', left'.gated) /\ Repeats(transport')
      /\ KeepsRight(transport', consumer', left'.gated) /\ KeepsOpen(transport', consumer', sessions')
      /\ Authorizes(streams', sessions') /\ BodiesAnswered(streams', left'.gated)
      /\ BodiesOpen(streams', sessions', left'.gated)
  BY DEF Honest, RelayAuth
<1>2. Wire(transport, streams, sessions)'
  BY <1>1 DEF Wire, Own, Told, SidOf
<1>3. Pending(transport, streams, left.gated)'
  BY <1>1 DEF Pending, Own, NoAsk, OneAsk, NoAnswer, OneAnswer, Awaiting
<1>4. RightStays(transport, consumer, streams, left.gated)' /\ Repeats(transport)'
  BY <1>1 DEF RightStays, Right, RightFrom, Own, Repeats
<1>5. KeepsRight(transport, consumer, left.gated)' /\ KeepsOpen(transport, consumer, sessions)'
  BY <1>1 DEF KeepsRight, KeepsOpen, Keeps
<1>6. RelayAuth(streams, sessions, left.gated)'
  BY <1>1 DEF RelayAuth, Authorizes, BodiesAnswered, BodiesOpen, Told, Opens
<1>7. World.t = transport /\ World.c = consumer /\ World.n = streams
  BY DEF World
<1>8. QED
  BY <1>2, <1>3, <1>4, <1>5, <1>6, <1>7 DEF AuthInv, Honest, World

(* What every step of the client keeps, of types and of authentication.    *)
Fine(v) == Sound(v, sessions) /\ (AuthInv => Honest(v, sessions, left.gated))

(* A step starts from such a world.                                        *)
LEMMA WorldFine ==
    ASSUME TypeInv
    PROVE  Fine(World)
<1>1. QED
  BY WorldSound DEF Fine, AuthInv

(* A client's step to a sound world keeps the invariant.                   *)
LEMMA BecomesTyped ==
    ASSUME TypeInv, NEW v, Fine(v), Becomes(v), sessions' = sessions, LeftType', left'.gated = left.gated
    PROVE  TypeInv' /\ (AuthInv => AuthInv')
<1>1. transport' = v.t /\ consumer' = v.c /\ streams' = v.n
  BY DEF Becomes
<1>2. WorldInv(transport', consumer', streams') /\ Served(streams', sessions')
  BY <1>1 DEF Sound, Fine
<1>3. sessions' \in [Sids -> Sessions \union {None}]
  BY DEF TypeInv
<1>4. WorldInv(transport, consumer, streams)' /\ Served(streams, sessions)'
  BY <1>2 DEF WorldInv, Served, NonceHeld, Reconnects, MayOpen, Numbered, OwnsItsOwn, Own, Shapes, FlowHeld, Awaiting
<1>5. TypeInv'
  BY <1>3, <1>4 DEF TypeInv
<1>6. ASSUME AuthInv PROVE AuthInv'
  <2>1. Honest(v, sessions', left'.gated)
    BY <1>6 DEF Fine
  <2>2. QED
    BY <1>1, <2>1, HonestPrimed
<1>7. QED
  BY <1>5, <1>6

(* What the callers wish for has no part in the authentication             *)
(* (WishSound).                                                            *)
LEMMA WishFine ==
    ASSUME NEW w, Fine(w), NEW u \in Transports,
           u.socket = w.t.socket, u.nonce = w.t.nonce, u.flow = w.t.flow,
           u.reconnecting => MayOpen(u) /\ u.socket = None
    PROVE  Fine([t |-> u, c |-> w.c, n |-> w.n])
<1> DEFINE v == [t |-> u, c |-> w.c, n |-> w.n]
<1>1. Sound(v, sessions)
  BY WishSound DEF Fine
<1>2. v.n = w.n /\ v.t = u /\ v.c = w.c
  OBVIOUS
<1> HIDE DEF v
<1>3. AuthInv => Honest(v, sessions, left.gated)
  BY <1>2, StaysHonest DEF Fine
<1>4. QED
  BY <1>1, <1>3 DEF Fine, v

(* The teardown keeps types and authentication (teardownCurrentSocket).    *)
LEMMA TeardownFine ==
    ASSUME TypeInv, NEW w, Fine(w)
    PROVE  LET v == teardownCurrentSocket(w) IN
           /\ Fine(v) /\ v.t.socket = None /\ KeepsWish(w, v)
           /\ ~w.t.reconnecting => ~v.t.reconnecting
<1>1. sessions \in [Sids -> Sessions \union {None}] /\ Sound(w, sessions)
  BY DEF TypeInv, Fine
<1>2. LET v == teardownCurrentSocket(w) IN
           /\ Sound(v, sessions) /\ v.t.socket = None /\ KeepsWish(w, v)
           /\ ~w.t.reconnecting => ~v.t.reconnecting
  BY <1>1, TeardownSound
<1>3. AuthInv => Honest(teardownCurrentSocket(w), sessions, left.gated)
  BY <1>1, TeardownHonest DEF Fine
<1>4. QED
  BY <1>2, <1>3 DEF Fine

(* So does a new socket (openSocket).                                      *)
LEMMA OpenSocketFine ==
    ASSUME TypeInv, NEW w, Fine(w), ~w.t.reconnecting, \E m \in Streams : w.n[m] = None
    PROVE  Fine(openSocket(w))
<1>1. sessions \in [Sids -> Sessions \union {None}] /\ Sound(w, sessions)
  BY DEF TypeInv, Fine
<1>2. Sound(openSocket(w), sessions)
  BY <1>1, OpenSocketSound
<1>3. AuthInv => Honest(openSocket(w), sessions, left.gated)
  BY <1>1, OpenSocketHonest DEF Fine
<1>4. QED
  BY <1>2, <1>3 DEF Fine

(* So does the close event (SocketClosed).                                 *)
LEMMA SocketClosedFine ==
    ASSUME TypeInv, NEW w, Loose(w, sessions), w.t.socket # None,
           AuthInv => RelayAuth(w.n, sessions, left.gated)
    PROVE  Fine(SocketClosed(w))
<1>1. sessions \in [Sids -> Sessions \union {None}]
  BY DEF TypeInv
<1>2. Sound(SocketClosed(w), sessions)
  BY <1>1, SocketClosedSound
<1>3. AuthInv => Honest(SocketClosed(w), sessions, left.gated)
  BY <1>1, SocketClosedHonest
<1>4. QED
  BY <1>2, <1>3 DEF Fine

(* So does telling the consumers what leaves their nonce alone.            *)
LEMMA OnlyToldFine ==
    ASSUME NEW w, Fine(w), NEW c \in Consumers, c.up = w.c.up, c.misled = w.c.misled
    PROVE  Fine([t |-> w.t, c |-> c, n |-> w.n])
<1> DEFINE v == [t |-> w.t, c |-> c, n |-> w.n]
<1>1. Sound(v, sessions)
  BY OnlyTold DEF Fine
<1>2. v.n = w.n /\ v.t = w.t /\ v.c = c
  OBVIOUS
<1> HIDE DEF v
<1>3. AuthInv => Honest(v, sessions, left.gated)
  BY <1>2, StaysHonest DEF Fine
<1>4. QED
  BY <1>1, <1>3 DEF Fine, v

(* acquire steps to a sound world.                                         *)
LEMMA AcquireSound ==
    ASSUME TypeInv, acquire
    PROVE  \E v : Fine(v) /\ Becomes(v)
<1> DEFINE h == transport.handles + 1
           u == [transport EXCEPT !.handles = h]
           w == [World EXCEPT !.t.handles = h]
<1>1. Sound(World, sessions) /\ sessions \in [Sids -> Sessions \union {None}]
      /\ World.t = transport /\ World.c = consumer /\ World.n = streams /\ transport \in Transports
  BY WorldSound
<1>2. Becomes(IF transport.handles = 0 THEN openSocket(w) ELSE w)
  BY <1>1 DEF acquire
<1>3. h \in Nat /\ transport.handles \in Nat /\ h > 0
  BY <1>1 DEF Transports
<1>4. World = [t |-> transport, c |-> consumer, n |-> streams]
  BY DEF World
<1>5. TwoFree(streams)
  BY RoomForTwo DEF acquire, HasRoom
<1> HIDE DEF h
<1>6. w = [t |-> u, c |-> consumer, n |-> streams]
  BY <1>4, SMT
<1>7. u \in Transports /\ u.handles = h /\ u.socket = transport.socket /\ u.nonce = transport.nonce
      /\ u.flow = transport.flow /\ u.reconnecting = transport.reconnecting /\ u.closed = transport.closed
      /\ u.locked = transport.locked /\ u.url = transport.url
  BY <1>1, <1>3 DEF Transports
<1> HIDE DEF u, w
<1>8. Reconnects(transport)
  BY DEF TypeInv, WorldInv
<1>9. u.reconnecting => MayOpen(u) /\ u.socket = None
  BY <1>3, <1>7, <1>8 DEF Reconnects, MayOpen
<1>10. Fine(w)
  BY <1>1, <1>6, <1>7, <1>9, WorldFine, WishFine
<1>11. CASE transport.handles = 0
  <2>1. ~w.t.reconnecting /\ w.n = streams
    BY <1>6, <1>7, <1>8, <1>11 DEF Reconnects, MayOpen
  <2>2. Fine(openSocket(w))
    BY <1>5, <1>10, <2>1, OpenSocketFine DEF TwoFree
  <2>3. QED
    BY <1>2, <1>11, <2>2
<1>12. CASE transport.handles # 0
  BY <1>2, <1>10, <1>12
<1>13. QED
  BY <1>11, <1>12

(* The wishes that end in a teardown first disarm the timer.               *)
LEMMA ClearedSound ==
    ASSUME TypeInv, NEW u \in Transports, NEW w, w = [t |-> u, c |-> consumer, n |-> streams],
           u.socket = transport.socket, u.nonce = transport.nonce, u.flow = transport.flow
    PROVE  LET v == clearReconnect(w) IN
           Fine(v) /\ ~v.t.reconnecting /\ v.n = streams
<1> DEFINE a == [u EXCEPT !.reconnecting = FALSE]
<1>1. Sound(World, sessions) /\ World.t = transport /\ World.c = consumer /\ World.n = streams
  BY WorldSound
<1>2. clearReconnect(w) = [t |-> a, c |-> consumer, n |-> streams]
  <2>1. w.t = u /\ w.c = consumer /\ w.n = streams
    OBVIOUS
  <2>2. w = [t |-> w.t, c |-> w.c, n |-> w.n]
    BY <2>1
  <2>3. clearReconnect(w) = [t |-> [w.t EXCEPT !.reconnecting = FALSE], c |-> w.c, n |-> w.n]
    BY <2>2, ClearReconnectIs
  <2>4. QED
    BY <2>1, <2>3
<1>3. a \in Transports /\ a.socket = u.socket /\ a.nonce = u.nonce /\ a.flow = u.flow /\ ~a.reconnecting
  BY DEF Transports
<1> HIDE DEF a
<1>4. Fine([t |-> a, c |-> consumer, n |-> streams])
  BY <1>1, <1>3, WorldFine, WishFine
<1>5. QED
  BY <1>2, <1>3, <1>4

(* release steps to a sound world.                                         *)
LEMMA ReleaseSound ==
    ASSUME TypeInv, release
    PROVE  \E v : Fine(v) /\ Becomes(v)
<1> DEFINE h == transport.handles - 1
           u == [transport EXCEPT !.handles = h]
           w == [World EXCEPT !.t.handles = h]
<1>1. Sound(World, sessions) /\ sessions \in [Sids -> Sessions \union {None}]
      /\ World.t = transport /\ World.c = consumer /\ World.n = streams /\ transport \in Transports
  BY WorldSound
<1>2. Becomes(IF transport.handles = 1 THEN teardownCurrentSocket(clearReconnect(w)) ELSE w)
  BY <1>1 DEF release
<1>3. h \in Nat /\ transport.handles \in Nat /\ (transport.handles # 1 => h > 0)
  BY <1>1 DEF Transports, release
<1>4. World = [t |-> transport, c |-> consumer, n |-> streams]
  BY DEF World
<1> HIDE DEF h
<1>5. w = [t |-> u, c |-> consumer, n |-> streams]
  BY <1>4, SMT
<1>6. u \in Transports /\ u.handles = h /\ u.socket = transport.socket /\ u.nonce = transport.nonce
      /\ u.flow = transport.flow /\ u.reconnecting = transport.reconnecting /\ u.closed = transport.closed
      /\ u.locked = transport.locked /\ u.url = transport.url
  BY <1>1, <1>3 DEF Transports
<1> HIDE DEF u, w
<1>7. CASE transport.handles = 1
  <2>1. Fine(clearReconnect(w))
    BY <1>5, <1>6, ClearedSound
  <2>2. Fine(teardownCurrentSocket(clearReconnect(w)))
    BY <2>1, TeardownFine
  <2>3. QED
    BY <1>2, <1>7, <2>2
<1>8. CASE transport.handles # 1
  <2>1. Reconnects(transport)
    BY DEF TypeInv, WorldInv
  <2>2. u.reconnecting => MayOpen(u) /\ u.socket = None
    BY <1>3, <1>6, <1>8, <2>1 DEF Reconnects, MayOpen
  <2>3. Fine(w)
    BY <1>1, <1>5, <1>6, <2>2, WorldFine, WishFine
  <2>4. QED
    BY <1>2, <1>8, <2>3
<1>9. QED
  BY <1>7, <1>8

(* setServerUrl steps to a sound world.                                    *)
LEMMA SetServerUrlSound ==
    ASSUME TypeInv, NEW url \in BOOLEAN, setServerUrl(url)
    PROVE  \E v : Fine(v) /\ Becomes(v)
<1> DEFINE u == [transport EXCEPT !.url = url]
           w == [World EXCEPT !.t.url = url]
           v == clearReconnect(w)
           z == teardownCurrentSocket(v)
<1>1. sessions \in [Sids -> Sessions \union {None}] /\ transport \in Transports
  BY WorldSound
<1>2. Becomes(openSocket(z))
  BY DEF setServerUrl
<1>3. World = [t |-> transport, c |-> consumer, n |-> streams]
  BY DEF World
<1>4. TwoFree(streams)
  BY RoomForTwo DEF setServerUrl, HasRoom
<1>5. w = [t |-> u, c |-> consumer, n |-> streams]
  BY <1>3, SMT
<1>6. u \in Transports /\ u.socket = transport.socket /\ u.nonce = transport.nonce /\ u.flow = transport.flow
  BY <1>1 DEF Transports
<1> HIDE DEF u, w
<1>7. Fine(v) /\ ~v.t.reconnecting /\ v.n = streams
  BY <1>5, <1>6, ClearedSound
<1> HIDE DEF v
<1>8. Fine(z) /\ z.t.socket = None /\ KeepsWish(v, z) /\ ~z.t.reconnecting
  BY <1>7, TeardownFine
<1> HIDE DEF z
<1>9. \E m \in Streams : z.n[m] = None
  BY <1>4, <1>7, <1>8 DEF TwoFree, KeepsWish
<1>10. QED
  BY <1>2, <1>8, <1>9, OpenSocketFine

(* setProtocolLocked steps to a sound world.                               *)
LEMMA SetProtocolLockedSound ==
    ASSUME TypeInv, setProtocolLocked
    PROVE  \E v : Fine(v) /\ Becomes(v)
<1> DEFINE b == ~transport.locked
           u == [transport EXCEPT !.locked = b]
           w == [World EXCEPT !.t.locked = b]
<1>1. Sound(World, sessions) /\ sessions \in [Sids -> Sessions \union {None}]
      /\ World.t = transport /\ World.c = consumer /\ World.n = streams /\ transport \in Transports
  BY WorldSound
<1>2. Becomes(IF transport.locked THEN openSocket(w) ELSE teardownCurrentSocket(clearReconnect(w)))
  BY <1>1 DEF setProtocolLocked
<1>3. World = [t |-> transport, c |-> consumer, n |-> streams] /\ b \in BOOLEAN
  BY DEF World
<1>4. TwoFree(streams)
  BY RoomForTwo DEF setProtocolLocked, HasRoom
<1> HIDE DEF b
<1>5. w = [t |-> u, c |-> consumer, n |-> streams]
  BY <1>3, SMT
<1>6. u \in Transports /\ u.socket = transport.socket /\ u.nonce = transport.nonce
      /\ u.flow = transport.flow /\ u.reconnecting = transport.reconnecting
  BY <1>1, <1>3 DEF Transports
<1> HIDE DEF u, w
<1>7. CASE transport.locked
  <2>1. ~transport.reconnecting
    BY <1>7 DEF TypeInv, WorldInv, Reconnects, MayOpen
  <2>2. Fine(w)
    BY <1>1, <1>5, <1>6, <2>1, WorldFine, WishFine
  <2>3. ~w.t.reconnecting /\ w.n = streams
    BY <1>5, <1>6, <2>1
  <2>4. Fine(openSocket(w))
    BY <1>4, <2>2, <2>3, OpenSocketFine DEF TwoFree
  <2>5. QED
    BY <1>2, <1>7, <2>4
<1>8. CASE ~transport.locked
  <2>1. Fine(clearReconnect(w))
    BY <1>5, <1>6, ClearedSound
  <2>2. Fine(teardownCurrentSocket(clearReconnect(w)))
    BY <2>1, TeardownFine
  <2>3. QED
    BY <1>2, <1>8, <2>2
<1>9. QED
  BY <1>7, <1>8

(* close steps to a sound world.                                           *)
LEMMA CloseSound ==
    ASSUME TypeInv, close
    PROVE  \E v : Fine(v) /\ Becomes(v)
<1> DEFINE yes == TRUE
           u == [transport EXCEPT !.closed = yes]
           w == [World EXCEPT !.t.closed = yes]
           v == clearReconnect(w)
           z == teardownCurrentSocket(v)
           a == [z.t EXCEPT !.handles = 0]
<1>1. sessions \in [Sids -> Sessions \union {None}] /\ transport \in Transports
  BY WorldSound
<1>2. Becomes([z EXCEPT !.t.handles = 0])
  BY DEF close
<1>3. World = [t |-> transport, c |-> consumer, n |-> streams] /\ yes \in BOOLEAN
  BY DEF World
<1> HIDE DEF yes
<1>4. w = [t |-> u, c |-> consumer, n |-> streams]
  BY <1>3, SMT
<1>5. u \in Transports /\ u.socket = transport.socket /\ u.nonce = transport.nonce /\ u.flow = transport.flow
  BY <1>1, <1>3 DEF Transports
<1> HIDE DEF u, w
<1>6. Fine(v) /\ ~v.t.reconnecting /\ v.n = streams
  BY <1>4, <1>5, ClearedSound
<1> HIDE DEF v
<1>7. Fine(z) /\ z.t.socket = None /\ ~z.t.reconnecting
  BY <1>6, TeardownFine
<1> HIDE DEF z
<1>8. z.t \in Transports /\ z = [t |-> z.t, c |-> z.c, n |-> z.n]
  BY <1>7 DEF Fine, Sound, WorldInv
<1>9. [z EXCEPT !.t.handles = 0] = [t |-> a, c |-> z.c, n |-> z.n]
  BY <1>8, SMT
<1>10. a \in Transports /\ a.socket = z.t.socket /\ a.nonce = z.t.nonce /\ a.flow = z.t.flow /\ ~a.reconnecting
  BY <1>7, <1>8 DEF Transports
<1> HIDE DEF a
<1>11. Fine([t |-> a, c |-> z.c, n |-> z.n])
  BY <1>7, <1>10, WishFine
<1>12. QED
  BY <1>2, <1>9, <1>11

(* resetCachedReplayGuard steps to a sound world.                          *)
LEMMA ResetSound ==
    ASSUME TypeInv, resetCachedReplayGuard
    PROVE  \E v : Fine(v) /\ Becomes(v)
<1> DEFINE u == FlowSet(transport, transport.flow, FALSE, "right")
<1>1. Sound(World, sessions) /\ World.t = transport /\ World.c = consumer /\ World.n = streams
      /\ transport \in Transports
  BY WorldSound
<1>2. transport' = u
  BY <1>1 DEF resetCachedReplayGuard, FlowSet, Transports
<1>3. u.flow = transport.flow /\ u.socket = transport.socket
  BY <1>1 DEF FlowSet, Transports
<1>4. FlowHeld(u)
  BY <1>3 DEF TypeInv, WorldInv, FlowHeld, Awaiting
<1>5. "right" \in Words /\ transport.flow \in Flows \union {None} /\ FALSE \in BOOLEAN
  BY <1>1 DEF Words, Passwords, Transports
<1>6. Sound([t |-> u, c |-> consumer, n |-> streams], sessions)
  BY <1>1, <1>4, <1>5, OnlyFlow
<1> DEFINE v == [t |-> u, c |-> consumer, n |-> streams]
<1>7. Becomes(v) /\ v.t = u /\ v.n = streams /\ v.c = consumer
  BY <1>2 DEF Becomes, resetCachedReplayGuard
<1>8. u.nonce = transport.nonce
  BY <1>1 DEF FlowSet, Transports
<1> HIDE DEF u, v
<1>9. AuthInv => Honest(v, sessions, left.gated)
  BY <1>1, <1>3, <1>7, <1>8, WorldFine, StaysHonest DEF Fine
<1>10. Fine(v)
  BY <1>6, <1>9 DEF Fine, v
<1>11. QED
  BY <1>7, <1>10

(* A consumer's frame leads to a sound world (ConsumerSends).              *)
LEMMA ConsumerSendsSound ==
    ASSUME TypeInv, ConsumerSends
    PROVE  \E v : Fine(v) /\ Becomes(v)
<1> DEFINE no == FALSE
           w == [World EXCEPT !.c.due = no]
<1>1. Sound(World, sessions) /\ sessions \in [Sids -> Sessions \union {None}]
      /\ World.t = transport /\ World.c = consumer /\ World.n = streams /\ transport \in Transports
  BY WorldSound
<1>2. Becomes(SendFrame(w, Signed(transport.nonce)))
  BY DEF ConsumerSends
<1>3. no \in BOOLEAN
  OBVIOUS
<1> DEFINE frame == Signed(transport.nonce)
<1>4. frame \in Frames /\ frame.password = None
  BY <1>1 DEF Signed, Frames, Transports, Words
<1> HIDE DEF no
<1>5. Sound(w, sessions) /\ (AuthInv => Honest(w, sessions, left.gated))
  BY <1>1, <1>3, WorldFine, DueSet, DueHonest DEF Fine
<1>6. w.t = transport
  BY DEF World
<1>7. transport.socket # None
  BY DEF ConsumerSends, IsOpen
<1> HIDE DEF w, frame
<1>8. Sound(SendFrame(w, frame), sessions)
  BY <1>1, <1>4, <1>5, <1>6, <1>7, SendFrameSound
<1>9. AuthInv => Honest(SendFrame(w, frame), sessions, left.gated)
  BY <1>1, <1>4, <1>5, <1>6, <1>7, SignedHonest
<1>10. Fine(SendFrame(w, frame))
  BY <1>8, <1>9 DEF Fine
<1>11. QED
  BY <1>2, <1>10 DEF frame

(* A consumer's wish leads to a sound world (ConsumerWants).               *)
LEMMA ConsumerWantsSound ==
    ASSUME TypeInv, ConsumerWants
    PROVE  \E v : Fine(v) /\ Becomes(v)
<1> DEFINE c == [consumer EXCEPT !.due = TRUE, !.answered = FALSE]
<1>1. Sound(World, sessions) /\ World.t = transport /\ World.c = consumer /\ World.n = streams
      /\ consumer \in Consumers
  BY WorldSound
<1>2. c \in Consumers /\ c.up = consumer.up /\ c.misled = consumer.misled
  BY <1>1 DEF Consumers
<1> HIDE DEF c
<1>3. Fine([t |-> transport, c |-> c, n |-> streams])
  BY <1>1, <1>2, WorldFine, OnlyToldFine
<1>4. Becomes([t |-> transport, c |-> c, n |-> streams])
  BY DEF Becomes, ConsumerWants, c
<1>5. QED
  BY <1>3, <1>4

(* While the flow asks the user, or wipes the cache, no attempt is under   *)
(* way.                                                                    *)
LEMMA NothingAwaited ==
    ASSUME TypeInv, AuthInv, transport.flow # None, ~Awaiting(transport)
    PROVE  /\ Quiet(streams)
           /\ transport.flow.at \in {"dialog", "wipe"} => NotRight(transport, consumer, left.gated)
           /\ Confirmed(transport, consumer, streams, left.gated)
<1>1. Pending(transport, streams, left.gated) /\ RightStays(transport, consumer, streams, left.gated)
  BY DEF AuthInv, Honest, World
<1>2. Quiet(streams)
  BY <1>1, QuietUnlessAwaiting
<1>3. transport.flow.at \in {"dialog", "wipe"} => NotRight(transport, consumer, left.gated)
  BY <1>1 DEF RightStays, NotRight
<1>4. Confirmed(transport, consumer, streams, left.gated)
  BY <1>1 DEF RightStays, Confirmed, Awaiting
<1>5. QED
  BY <1>2, <1>3, <1>4

(* So does the end of a flow that awaits nothing (EndFlow).                *)
LEMMA EndFlowFine ==
    ASSUME TypeInv, NEW w, Fine(w), w.t = transport, w.n = streams, w.c.misled = consumer.misled,
           transport.flow # None, ~Awaiting(transport)
    PROVE  Fine(EndFlow(w))
<1>1. Sound(EndFlow(w), sessions)
  BY EndFlowSound DEF Fine
<1>2. ASSUME AuthInv PROVE Honest(EndFlow(w), sessions, left.gated)
  <2>1. Quiet(w.n) /\ Confirmed(w.t, w.c, w.n, left.gated)
    BY <1>2, NothingAwaited DEF Confirmed
  <2>2. QED
    BY <1>2, <2>1, EndFlowHonest DEF Fine
<1>3. QED
  BY <1>1, <1>2 DEF Fine

(* The user's answer leads to a sound world (DialogAnswered).              *)
LEMMA DialogAnsweredSound ==
    ASSUME TypeInv, NEW password \in Words, DialogAnswered(password)
    PROVE  \E v : Fine(v) /\ Becomes(v)
<1>1. Sound(World, sessions) /\ sessions \in [Sids -> Sessions \union {None}]
      /\ World.t = transport /\ World.c = consumer /\ World.n = streams /\ consumer \in Consumers
      /\ transport \in Transports
  BY WorldSound
<1>2. /\ transport.flow # None /\ transport.flow.stale \in BOOLEAN /\ transport.flow.at = "dialog"
      /\ ~Awaiting(transport)
  BY <1>1 DEF DialogAnswered, Transports, Flows, Awaiting
<1> DEFINE yes == TRUE
           w == [World EXCEPT !.c.declined = yes]
           c == [consumer EXCEPT !.declined = yes]
<1>3. Becomes(CASE transport.flow.stale -> EndFlow(World)
                 [] ~transport.flow.stale /\ password = None -> EndFlow(w)
                 [] ~transport.flow.stale /\ password # None ->
                      IF IsOpen(transport) THEN attemptAuthenticate(World, "typed", password)
                      ELSE EndFlow(World))
  BY DEF DialogAnswered
<1>4. yes \in BOOLEAN /\ World = [t |-> transport, c |-> consumer, n |-> streams]
  BY DEF World
<1> HIDE DEF yes
<1>5. w = [t |-> transport, c |-> c, n |-> streams]
  BY <1>4, SMT
<1>6. c \in Consumers /\ c.up = consumer.up /\ c.misled = consumer.misled
  BY <1>1, <1>4 DEF Consumers
<1> HIDE DEF c, w
<1>7. Fine(EndFlow(World)) /\ Fine(EndFlow(w))
  <2>1. Fine(EndFlow(World))
    BY <1>1, <1>2, WorldFine, EndFlowFine
  <2>2. Fine(w)
    BY <1>1, <1>5, <1>6, WorldFine, OnlyToldFine
  <2>3. w.t = transport /\ w.n = streams /\ w.c.misled = consumer.misled
    BY <1>5, <1>6
  <2>4. QED
    BY <1>2, <2>1, <2>2, <2>3, EndFlowFine
<1>8. ASSUME password # None, IsOpen(transport)
      PROVE  Fine(attemptAuthenticate(World, "typed", password))
  <2>1. password \in Passwords /\ World.t.socket # None
    BY <1>1, <1>8 DEF Words, IsOpen
  <2>2. "typed" \in {"cached", "typed"}
    OBVIOUS
  <2>3. Sound(attemptAuthenticate(World, "typed", password), sessions)
    BY <1>1, <2>1, <2>2, AttemptSound
  <2>4. ASSUME AuthInv PROVE Honest(attemptAuthenticate(World, "typed", password), sessions, left.gated)
    <3>1. Quiet(World.n) /\ NotRight(World.t, World.c, left.gated)
      BY <1>1, <1>2, <2>4, NothingAwaited
    <3>2. QED
      BY <1>1, <2>1, <2>2, <2>4, <3>1, AttemptHonest DEF AuthInv
  <2>5. QED
    BY <2>3, <2>4 DEF Fine
<1>9. CASE transport.flow.stale
  BY <1>3, <1>7, <1>9
<1>10. CASE ~transport.flow.stale /\ password = None
  BY <1>3, <1>7, <1>10
<1>11. CASE ~transport.flow.stale /\ password # None
  BY <1>3, <1>7, <1>8, <1>11
<1>12. QED
  BY <1>9, <1>10, <1>11

(* The end of a write of the cached password leads to a sound world        *)
(* (PasswordStored).                                                       *)
LEMMA PasswordStoredSound ==
    ASSUME TypeInv, PasswordStored
    PROVE  \E v : Fine(v) /\ Becomes(v)
<1>1. /\ Sound(World, sessions) /\ World.t = transport /\ World.c = consumer /\ World.n = streams
      /\ sessions \in [Sids -> Sessions \union {None}] /\ transport.flow # None /\ ~Awaiting(transport)
  BY WorldSound DEF PasswordStored, Awaiting
<1>2. Fine(EndFlow(World))
  BY <1>1, WorldFine, EndFlowFine
<1>3. ASSUME transport.flow.at = "wipe" PROVE Fine(AskUser(World))
  <2>1. Sound(AskUser(World), sessions)
    BY <1>1, AskUserSound
  <2>2. ASSUME AuthInv PROVE Honest(AskUser(World), sessions, left.gated)
    <3>1. Quiet(World.n) /\ NotRight(World.t, World.c, left.gated)
      BY <1>1, <1>3, <2>2, NothingAwaited
    <3>2. QED
      BY <1>1, <2>2, <3>1, AskUserHonest DEF AuthInv
  <2>3. QED
    BY <2>1, <2>2 DEF Fine
<1>4. QED
  BY <1>2, <1>3 DEF PasswordStored

(* The reconnect timer leads to a sound world (ReconnectTimer).            *)
LEMMA ReconnectTimerSound ==
    ASSUME TypeInv, ReconnectTimer
    PROVE  \E v : Fine(v) /\ Becomes(v)
<1> DEFINE v == clearReconnect(World)
<1>1. sessions \in [Sids -> Sessions \union {None}] /\ transport \in Transports
  BY WorldSound
<1>2. World = [t |-> transport, c |-> consumer, n |-> streams]
  BY DEF World
<1>3. Fine(v) /\ ~v.t.reconnecting /\ v.n = streams
  BY <1>1, <1>2, ClearedSound
<1>4. TwoFree(streams)
  BY RoomForTwo DEF ReconnectTimer, HasRoom
<1>5. Fine(openSocket(v))
  <2> HIDE DEF v
  <2>1. QED
    BY <1>3, <1>4, OpenSocketFine DEF TwoFree
<1>6. QED
  BY <1>5 DEF ReconnectTimer

(* A WebSocket that has opened stays the same to the invariant.            *)
LEMMA WsStateHonest ==
    ASSUME NEW w, NEW s, Sound(w, s), w.t.socket # None, ~w.t.socket.sse, NEW v, NEW g, Honest(w, s, g),
           v.n = w.n, v.c = w.c, v.t.nonce = w.t.nonce, v.t.flow = w.t.flow,
           v.t.socket # None, v.t.socket.sse = w.t.socket.sse,
           \A m \in Streams : Own(w.n, m) => w.n[m].at # "asked"
    PROVE  Honest(v, s, g)
<1>1. Wire(v.t, v.n, s) /\ Pending(v.t, v.n, g)
  BY DEF Honest, Wire, SidOf, Pending, Awaiting
<1>2. RightStays(v.t, v.c, v.n, g) /\ Repeats(v.t)
  BY DEF RightStays, Repeats
<1>3. KeepsRight(v.t, v.c, g) /\ KeepsOpen(v.t, v.c, s)
  BY DEF Honest, KeepsRight, KeepsOpen, Keeps
<1>4. QED
  BY <1>1, <1>2, <1>3 DEF Honest

(* The open event leads to a sound world (SocketOpens).                    *)
LEMMA SocketOpensSound ==
    ASSUME TypeInv, NEW m \in Streams, SocketOpens(m)
    PROVE  \E v : Fine(v) /\ Becomes(v)
<1> DEFINE k == [transport.socket EXCEPT !.state = "open"]
           u == [transport EXCEPT !.socket = k]
<1>1. Sound(World, sessions) /\ World.t = transport /\ World.c = consumer /\ World.n = streams
  BY WorldSound
<1>2. transport.socket # None
  BY DEF TypeInv, WorldInv, OwnsItsOwn, Own, SocketOpens
<1>3. k \in Sockets /\ k.sse = transport.socket.sse /\ (k.flushing => k.sse) /\ k.dispatched = transport.socket.dispatched
      /\ k.postSeq = transport.socket.postSeq /\ k.state = "open" /\ k.dispatched <= k.postSeq
  BY <1>1, <1>2, SocketIsTyped DEF Sockets
<1>4. transport' = u
  BY DEF SocketOpens
<1> HIDE DEF k
<1>5. Sound([t |-> u, c |-> consumer, n |-> streams], sessions)
  BY <1>1, <1>2, <1>3, OnlySocket
<1> DEFINE v == [t |-> u, c |-> consumer, n |-> streams]
<1>6. Becomes(v)
  BY <1>4 DEF Becomes, SocketOpens
<1>7. v.t.socket = k /\ k # None /\ v.t.flow = transport.flow /\ v.t.nonce = transport.nonce
      /\ v.n = streams /\ v.c = consumer
  <2>1. v = [t |-> [World.t EXCEPT !.socket = k], c |-> World.c, n |-> World.n] /\ World.t.socket # None
    BY <1>1, <1>2
  <2> HIDE DEF u, v
  <2>2. v.t.socket = k /\ k # None /\ v.t.flow = World.t.flow /\ v.t.nonce = World.t.nonce
        /\ v.n = World.n /\ v.c = World.c
    BY <1>1, <1>3, <2>1, SocketFieldsIs
  <2>3. QED
    BY <1>1, <2>2
<1>8. ~transport.socket.sse /\ \A j \in Streams : Own(streams, j) => streams[j].at # "asked"
  BY DEF TypeInv, WorldInv, OwnsItsOwn, Own, SocketOpens
<1> HIDE DEF u, v
<1>9. AuthInv => Honest(v, sessions, left.gated)
  BY <1>1, <1>2, <1>3, <1>7, <1>8, WsStateHonest DEF AuthInv
<1>10. Fine(v)
  BY <1>5, <1>9 DEF Fine, v
<1>11. QED
  BY <1>6, <1>10

(* A WebSocket's message leads to a sound world (ReceiveMessage).          *)
LEMMA ReceiveMessageSound ==
    ASSUME TypeInv, NEW m \in Streams, ReceiveMessage(m)
    PROVE  \E v : Fine(v) /\ Becomes(v)
<1> DEFINE v == Taken(World, m)
           e == Head(streams[m].down)
<1>1. Sound(World, sessions) /\ sessions \in [Sids -> Sessions \union {None}]
      /\ World.t = transport /\ World.c = consumer /\ World.n = streams
  BY WorldSound
<1>2. streams[m] # None /\ streams[m].down # <<>> /\ ~streams[m].sse /\ IsOpen(transport)
      /\ Becomes(handleMessage(v, e))
  BY DEF ReceiveMessage
<1>3. Sound(v, sessions) /\ e \in Events /\ v.t = transport /\ e \in Told(streams[m])
  BY <1>1, <1>2, TakenSound
<1> HIDE DEF v, e
<1>4. e.type \notin {"session", "close"}
  BY <1>2, <1>3 DEF TypeInv, WorldInv, Shapes, Shape
<1>5. Sound(handleMessage(v, e), sessions)
  BY <1>1, <1>2, <1>3, <1>4, HandleMessageSound
<1>6. AuthInv => Honest(handleMessage(v, e), sessions, left.gated)
  <2>1. Own(World.n, m) /\ ~World.n[m].sse /\ World.n[m].down # <<>> /\ IsOpen(World.t)
    BY <1>1, <1>2 DEF Own, ReceiveMessage
  <2>2. AuthInv => Honest(handleMessage(Taken(World, m), Head(World.n[m].down)), sessions, left.gated)
    BY <1>1, <2>1, WsMessageHonest DEF AuthInv
  <2>3. QED
    BY <1>1, <2>2 DEF v, e
<1>7. QED
  BY <1>2, <1>5, <1>6 DEF Fine

(* The streams change, but the client's keep what it relies on.            *)
LEMMA WireSound ==
    ASSUME NEW t, NEW c, NEW n, WorldInv(t, c, n), NEW k \in Wires, Shapes(k),
           \A j \in Streams : Own(k, j) =>
              Own(n, j) /\ k[j].sse = n[j].sse /\ k[j].seq = n[j].seq /\ ~k[j].gone,
           \A j \in Streams : Own(n, j) /\ ~n[j].sse => Own(k, j)
    PROVE  WorldInv(t, c, k)
<1>1. Numbered(t, k)
  BY DEF WorldInv, Numbered
<1>2. OwnsItsOwn(t, k)
  BY DEF WorldInv, OwnsItsOwn
<1>3. QED
  BY <1>1, <1>2 DEF WorldInv

(* A stream changed and the streams swept keep the world's invariant, if   *)
(* its kind and number stay and its owner keeps a WebSocket.               *)
LEMMA SweepHolds ==
    ASSUME NEW t, NEW c, NEW n, WorldInv(t, c, n), NEW m \in Streams, n[m] # None,
           NEW x \in Connections, LooseShape(x), x.sse = n[m].sse, x.seq = n[m].seq,
           x.mine => n[m].mine /\ ~x.gone, n[m].mine /\ ~x.sse => x.mine
    PROVE  LET l == [n EXCEPT ![m] = x] IN
           /\ WorldInv(t, c, Swept(l)) /\ Swept(l) \in Wires /\ l \in Wires /\ l[m] = x /\ x # None
           /\ \A j \in Streams : j # m => l[j] = n[j]
<1> DEFINE l == [n EXCEPT ![m] = x]
<1>1. n \in Wires /\ Shapes(n)
  BY DEF WorldInv
<1>2. l \in Wires /\ l[m] = x /\ x # None /\ \A j \in Streams : j # m => l[j] = n[j]
  BY <1>1, NoneIsApart DEF Wires
<1> HIDE DEF l
<1>3. \A j \in Streams : l[j] # None => LooseShape(l[j])
  BY <1>1, <1>2 DEF Shapes, Shape, LooseShape
<1>4. Shapes(Swept(l)) /\ Swept(l) \in Wires
  BY <1>2, <1>3, SweptShapes, SweptHolds
<1>5. \A j \in Streams : Own(l, j) =>
         Own(n, j) /\ l[j].sse = n[j].sse /\ l[j].seq = n[j].seq /\ ~l[j].gone
  BY <1>2 DEF Own, WorldInv, OwnsItsOwn
<1>6. \A j \in Streams : Own(Swept(l), j) =>
         Own(n, j) /\ Swept(l)[j].sse = n[j].sse /\ Swept(l)[j].seq = n[j].seq /\ ~Swept(l)[j].gone
  BY <1>2, <1>5, SweptHolds DEF Own
<1>7. \A j \in Streams : Own(n, j) /\ ~n[j].sse => Own(l, j) /\ ~l[j].gone
  BY <1>2 DEF Own, WorldInv, OwnsItsOwn
<1>8. \A j \in Streams : Own(n, j) /\ ~n[j].sse => Own(Swept(l), j)
  BY <1>2, <1>7, SweptHolds DEF Own
<1>9. WorldInv(t, c, Swept(l))
  BY <1>4, <1>6, <1>8, WireSound
<1>10. QED
  BY <1>2, <1>4, <1>9 DEF l

(* Streams the client listens to less change nothing to the invariant.     *)
LEMMA LessFine ==
    ASSUME TypeInv, NEW w, Fine(w), NEW v, Sound(v, sessions), v.t = w.t, v.c = w.c,
           \A j \in Streams : v.n[j] # None => w.n[j] # None /\ Less(v.n[j], w.n[j])
    PROVE  Fine(v)
<1>1. sessions \in [Sids -> Sessions \union {None}]
  BY DEF TypeInv
<1>2. Served(w.n, sessions) /\ Served(v.n, sessions)
  BY DEF Fine, Sound
<1>3. \A j \in Streams : Own(w.n, j) => w.t.socket # None
  BY DEF Fine, Sound, WorldInv, OwnsItsOwn
<1>4. Keeps(w.t) => w.t.socket # None
  BY DEF Fine, Sound, WorldInv, FlowHeld, Keeps
<1>5. AuthInv => Honest(v, sessions, left.gated)
  BY <1>1, <1>2, <1>3, <1>4, HonestLess DEF Fine
<1>6. QED
  BY <1>5 DEF Fine

(* If moreover its ends stay as they were, no session loses it.            *)
LEMMA SweepSound ==
    ASSUME TypeInv, NEW m \in Streams, streams[m] # None,
           NEW x \in Connections, LooseShape(x), x.sse = streams[m].sse, x.seq = streams[m].seq,
           x.mine => streams[m].mine /\ ~x.gone, streams[m].mine /\ ~x.sse => x.mine,
           x.over = streams[m].over, x.at = streams[m].at, Less(x, streams[m])
    PROVE  Fine([t |-> transport, c |-> consumer, n |-> Swept([streams EXCEPT ![m] = x])])
<1> DEFINE l == [streams EXCEPT ![m] = x]
<1>1. /\ WorldInv(transport, consumer, Swept(l)) /\ l \in Wires /\ l[m] = x /\ x # None
      /\ \A j \in Streams : j # m => l[j] = streams[j]
  BY SweepHolds DEF TypeInv
<1> HIDE DEF l
<1>2. Served(Swept(l), sessions)
  BY <1>1, SweptServed DEF TypeInv
<1> DEFINE v == [t |-> transport, c |-> consumer, n |-> Swept(l)]
<1>3. Sound(v, sessions)
  BY <1>1, <1>2, MakeSound
<1>4. \A j \in Streams : Swept(l)[j] # None => streams[j] # None /\ Less(Swept(l)[j], streams[j])
  <2>1. \A j \in Streams : Less(streams[j], streams[j])
    BY DEF Less
  <2>2. \A j \in Streams : l[j] # None => streams[j] # None /\ Less(l[j], streams[j])
    BY <1>1, <2>1
  <2>3. QED
    BY <1>1, <2>2, SweptHolds
<1>5. v.t = transport /\ v.c = consumer /\ v.n = Swept(l)
  OBVIOUS
<1> HIDE DEF v
<1>6. Fine(v)
  BY <1>3, <1>4, <1>5, WorldSound, WorldFine, LessFine
<1>7. QED
  BY <1>6 DEF l, v

(* What the invariant says of a stream.                                    *)
LEMMA StreamTyped ==
    ASSUME TypeInv, NEW m \in Streams, streams[m] # None
    PROVE  streams[m] \in Connections /\ Shape(streams[m]) /\ LooseShape(streams[m])
<1>1. QED
  BY DEF TypeInv, WorldInv, Wires, Shapes, Shape, LooseShape

(* A heartbeat's timeout leads to a sound world (HeartbeatTimesOut).       *)
LEMMA HeartbeatSound ==
    ASSUME TypeInv, NEW m \in Streams, HeartbeatTimesOut(m)
    PROVE  \E v : Fine(v) /\ Becomes(v)
<1> DEFINE k == [transport.socket EXCEPT !.state = "closing"]
           u == [transport EXCEPT !.socket = k]
           yes == TRUE
           x == [streams[m] EXCEPT !.closing = yes]
           w == [t |-> u, c |-> consumer, n |-> streams]
           v == [t |-> u, c |-> consumer, n |-> [streams EXCEPT ![m] = x]]
<1>1. Sound(World, sessions) /\ World.t = transport /\ World.c = consumer /\ World.n = streams
      /\ sessions \in [Sids -> Sessions \union {None}]
  BY WorldSound
<1>2. streams[m] # None /\ ~streams[m].sse /\ streams[m].mine /\ transport.socket # None
      /\ transport' = u /\ streams' = [streams EXCEPT ![m] = x] /\ consumer' = consumer
  BY DEF HeartbeatTimesOut, IsOpen
<1>3. k \in Sockets /\ k.sse = transport.socket.sse /\ k.dispatched = transport.socket.dispatched
      /\ k.postSeq = transport.socket.postSeq /\ k.state = "closing" /\ k.dispatched <= k.postSeq
      /\ (k.flushing => k.sse)
  BY <1>1, <1>2, SocketIsTyped DEF Sockets
<1>4. yes \in BOOLEAN
  OBVIOUS
<1> HIDE DEF k, yes
<1>5. Sound(w, sessions)
  BY <1>1, <1>2, <1>3, OnlySocket
<1>6. streams[m] \in Connections /\ Shape(streams[m]) /\ ~streams[m].gone
  BY <1>2, StreamTyped DEF TypeInv, WorldInv, OwnsItsOwn, Own
<1>7. x \in Connections /\ x.mine = streams[m].mine /\ x.sse = streams[m].sse /\ x.seq = streams[m].seq
      /\ x.gone = streams[m].gone /\ x.over = streams[m].over /\ x.at = streams[m].at /\ x.down = streams[m].down
      /\ x.up = streams[m].up /\ x.body = streams[m].body /\ x.cut = streams[m].cut
  BY <1>4, <1>6 DEF Connections
<1> HIDE DEF x, u
<1>8. Shape(x)
  BY <1>2, <1>6, <1>7 DEF Shape, Told
<1>9. w.t = u /\ w.c = consumer /\ w.n = streams
  OBVIOUS
<1>10. Becomes(v)
  BY <1>2 DEF Becomes
<1> HIDE DEF w, v
<1>11. v = [t |-> w.t, c |-> w.c, n |-> [w.n EXCEPT ![m] = x]]
  BY <1>9 DEF v
<1>12. /\ w.n[m] # None /\ x.mine = w.n[m].mine /\ x.sse = w.n[m].sse /\ x.seq = w.n[m].seq
       /\ (x.mine => ~x.gone) /\ x.over = w.n[m].over
       /\ (w.n[m].at \in {"served", "open"} => x.at \in {"served", "open"})
  BY <1>2, <1>6, <1>7, <1>9
<1>13. Sound(v, sessions)
  BY <1>1, <1>5, <1>7, <1>8, <1>11, <1>12, OnlyStream
<1>14. Fine(w)
  <2>1. w = [t |-> [World.t EXCEPT !.socket = k], c |-> World.c, n |-> World.n] /\ World.t.socket # None
    BY <1>1, <1>2 DEF w, u
  <2>2. w.t.socket = k /\ k # None /\ w.t.flow = World.t.flow /\ w.t.nonce = World.t.nonce
        /\ w.n = World.n /\ w.c = World.c
    BY <1>1, <1>3, <2>1, SocketFieldsIs
  <2>3. ASSUME AuthInv PROVE Honest(w, sessions, left.gated)
    <3>1. ~World.t.socket.sse
      BY <1>1, <1>2 DEF TypeInv, WorldInv, OwnsItsOwn, Own
    <3>2. \A j \in Streams : Own(World.n, j) => World.n[j].at # "asked"
      <4>1. transport.socket.state = "open"
        BY DEF HeartbeatTimesOut, IsOpen
      <4>2. Wire(transport, streams, sessions)
        BY <2>3 DEF AuthInv, Honest, World
      <4>3. \A j \in Streams : Own(streams, j) => ~streams[j].sse
        BY <1>1, <3>1 DEF TypeInv, WorldInv, OwnsItsOwn
      <4>4. QED
        BY <1>1, <4>1, <4>2, <4>3 DEF Wire
    <3>3. QED
      BY <1>1, <1>3, <2>1, <2>2, <2>3, <3>1, <3>2, WsStateHonest DEF AuthInv
  <2>4. QED
    BY <1>5, <2>3 DEF Fine
<1>15. v.t = w.t /\ v.c = w.c /\ v.n = [w.n EXCEPT ![m] = x]
  BY <1>11
<1>16. \A j \in Streams : v.n[j] # None => w.n[j] # None /\ Less(v.n[j], w.n[j])
  <2>1. streams \in Wires
    BY WorldSound
  <2>2. v.n[m] = x /\ \A j \in Streams : j # m => v.n[j] = streams[j]
    BY <1>9, <1>15, <2>1 DEF Wires
  <2>3. Less(x, streams[m]) /\ \A j \in Streams : Less(streams[j], streams[j])
    BY <1>7 DEF Less, Told
  <2>4. QED
    BY <1>2, <1>9, <2>2, <2>3
<1>17. QED
  BY <1>10, <1>13, <1>14, <1>15, <1>16, LessFine

(* A WebSocket the client is done with (CloseEvent).                       *)
LEMMA GoneHolds ==
    ASSUME NEW x \in Connections, LooseShape(x), ~x.sse, NEW b \in BOOLEAN
    PROVE  LET y == [x EXCEPT !.gone = b] IN
           /\ y \in Connections /\ LooseShape(y) /\ y.mine = x.mine /\ y.sse = x.sse /\ y.seq = x.seq
           /\ y.over = x.over /\ y.at = x.at /\ Less(y, x)
<1> DEFINE y == [x EXCEPT !.gone = b]
<1>1. y \in Connections /\ y.mine = x.mine /\ y.sse = x.sse /\ y.seq = x.seq
      /\ y.over = x.over /\ y.at = x.at /\ y.down = x.down /\ y.up = x.up /\ y.body = x.body
      /\ y.closing = x.closing /\ y.cut = x.cut
  BY DEF Connections
<1> HIDE DEF y
<1>2. LooseShape(y)
  BY <1>1 DEF LooseShape, Told
<1>3. Less(y, x)
  BY <1>1 DEF Less, Told
<1>4. QED
  BY <1>1, <1>2, <1>3 DEF y

(* The close event leads to a sound world (CloseEvent).                    *)
LEMMA CloseEventSound ==
    ASSUME TypeInv, NEW m \in Streams, CloseEvent(m)
    PROVE  \E v : Fine(v) /\ Becomes(v)
<1> DEFINE yes == TRUE
           x == [streams[m] EXCEPT !.gone = yes]
           l == [streams EXCEPT ![m] = x]
           w == [World EXCEPT !.n[m].gone = yes]
           z == [World EXCEPT !.n = Swept([streams EXCEPT ![m].gone = yes])]
<1>1. Sound(World, sessions) /\ World.t = transport /\ World.c = consumer /\ World.n = streams
      /\ sessions \in [Sids -> Sessions \union {None}] /\ transport \in Transports /\ consumer \in Consumers
      /\ streams \in Wires
  BY WorldSound
<1>2. streams[m] # None /\ ~streams[m].sse /\ Becomes(IF streams[m].mine THEN SocketClosed(w) ELSE z)
  BY DEF CloseEvent
<1>3. World = [t |-> transport, c |-> consumer, n |-> streams] /\ yes \in BOOLEAN
  BY DEF World
<1>4. streams[m] \in Connections /\ LooseShape(streams[m])
  BY <1>2, StreamTyped
<1>5. [streams EXCEPT ![m].gone = yes] = l
  OBVIOUS
<1> HIDE DEF yes
<1>6. x \in Connections /\ LooseShape(x) /\ x.mine = streams[m].mine /\ x.sse = streams[m].sse
      /\ x.seq = streams[m].seq /\ x.over = streams[m].over /\ x.at = streams[m].at
      /\ Less(x, streams[m])
  BY <1>2, <1>3, <1>4, GoneHolds
<1>7. w = [t |-> transport, c |-> consumer, n |-> l]
  BY <1>3, SMT
<1>8. z = [t |-> transport, c |-> consumer, n |-> Swept(l)]
  BY <1>3, <1>5
<1> HIDE DEF x, w, z
<1>9. CASE streams[m].mine
  <2>1. l \in Wires /\ l[m] = x /\ x # None /\ \A j \in Streams : j # m => l[j] = streams[j]
    BY <1>1, <1>6, NoneIsApart DEF Wires
  <2> HIDE DEF l
  <2>2. \A j \in Streams : l[j] # None => LooseShape(l[j])
    BY <1>6, <2>1, StreamTyped
  <2>3. Served(l, sessions)
    BY <1>2, <1>6, <2>1 DEF TypeInv, Served, Sessions
  <2>4. w.t = transport /\ w.c = consumer /\ w.n = l
    BY <1>7
  <2>5. Loose(w, sessions)
    BY <1>1, <1>7, <2>1, <2>2, <2>3, <2>4 DEF Loose, TypeInv, WorldInv
  <2>6. w.t.socket # None
    BY <1>2, <1>9, <2>4 DEF TypeInv, WorldInv, OwnsItsOwn, Own
  <2>7. ASSUME AuthInv PROVE RelayAuth(w.n, sessions, left.gated)
    <3>1. RelayAuth(streams, sessions, left.gated) /\ Served(streams, sessions)
      BY <2>7 DEF AuthInv, Honest, World, TypeInv
    <3>2. \A j \in Streams : streams[j] # None /\ l[j] # None =>
             l[j].sse = streams[j].sse /\ l[j].body = streams[j].body /\ Told(l[j]) \subseteq Told(streams[j])
      BY <1>6, <2>1 DEF Less
    <3>3. \A j \in Streams : streams[j] = None /\ l[j] # None => Told(l[j]) = {}
      BY <1>2, <2>1
    <3>4. QED
      BY <1>1, <2>3, <2>4, <3>1, <3>2, <3>3, RelayAuthLess
  <2>8. Fine(SocketClosed(w))
    BY <2>5, <2>6, <2>7, SocketClosedFine
  <2>9. QED
    BY <1>2, <1>9, <2>8
<1>10. CASE ~streams[m].mine
  <2>1. Fine([t |-> transport, c |-> consumer, n |-> Swept(l)])
    BY <1>2, <1>6, <1>10, SweepSound
  <2>2. QED
    BY <1>2, <1>8, <1>10, <2>1
<1>11. QED
  BY <1>9, <1>10

(* One stream changes, or a POST goes out.                                 *)
LEMMA OneLessFine ==
    ASSUME TypeInv, NEW w, Fine(w), NEW m \in Streams, w.n[m] # None, w.n \in Wires, NEW x, Less(x, w.n[m]),
           NEW v, v = [t |-> w.t, c |-> w.c, n |-> [w.n EXCEPT ![m] = x]], Sound(v, sessions)
    PROVE  Fine(v)
<1>1. v.t = w.t /\ v.c = w.c /\ v.n = [w.n EXCEPT ![m] = x]
  OBVIOUS
<1>2. v.n[m] = x /\ \A j \in Streams : j # m => v.n[j] = w.n[j]
  BY <1>1 DEF Wires
<1>3. \A j \in Streams : Less(w.n[j], w.n[j])
  BY DEF Less
<1>4. \A j \in Streams : v.n[j] # None => w.n[j] # None /\ Less(v.n[j], w.n[j])
  BY <1>2, <1>3
<1>5. QED
  BY <1>1, <1>4, LessFine

(* So does a POST (Post).                                                  *)
LEMMA PostFine ==
    ASSUME TypeInv, NEW w, Fine(w), w.t.socket # None, w.t.socket.sse, \E m \in Streams : w.n[m] = None
    PROVE  Fine(Post(w))
<1>1. sessions \in [Sids -> Sessions \union {None}] /\ Sound(w, sessions)
  BY DEF TypeInv, Fine
<1>2. Sound(Post(w), sessions)
  BY <1>1, PostSound
<1>3. AuthInv => Honest(Post(w), sessions, left.gated)
  BY <1>1, PostHonest DEF Fine
<1>4. QED
  BY <1>2, <1>3 DEF Fine

(* So do the POSTs of the flushes that waited (Resume).                    *)
LEMMA ResumeFine ==
    ASSUME TypeInv, NEW w, Fine(w), w.t.socket # None, w.t.socket.sse, TwoFree(w.n), NEW k
    PROVE  Fine(Resume(w, k))
<1>1. sessions \in [Sids -> Sessions \union {None}] /\ Sound(w, sessions)
  BY DEF TypeInv, Fine
<1>2. Sound(Resume(w, k), sessions)
  BY <1>1, ResumeSound
<1>3. AuthInv => Honest(Resume(w, k), sessions, left.gated)
  BY <1>1, ResumeHonest DEF Fine
<1>4. QED
  BY <1>2, <1>3 DEF Fine

(* A flush leads to a sound world (flush).                                 *)
LEMMA FlushSound ==
    ASSUME TypeInv, flush
    PROVE  \E v : Fine(v) /\ Becomes(v)
<1> DEFINE no == FALSE
           k == [transport.socket EXCEPT !.flushing = no]
           u == [transport EXCEPT !.socket = k]
           w == [World EXCEPT !.t.socket.flushing = no]
<1>1. Sound(World, sessions) /\ World.t = transport /\ World.c = consumer /\ World.n = streams
      /\ sessions \in [Sids -> Sessions \union {None}] /\ streams \in Wires /\ transport \in Transports
  BY WorldSound
<1>2. transport.socket # None /\ transport.socket.sse /\ transport.socket \in Sockets
  BY <1>1, SocketIsTyped DEF flush
<1>3. \/ Becomes(Post(w))
      \/ \E m \in Streams : InFlight(m) /\ Becomes([w EXCEPT !.n[m].waiting = @ + 1])
  BY DEF flush
<1>4. World = [t |-> transport, c |-> consumer, n |-> streams] /\ no \in BOOLEAN /\ ~no
  BY DEF World
<1>5. TwoFree(streams)
  BY RoomForTwo DEF flush, HasRoom
<1> HIDE DEF no
<1>6. w = [t |-> u, c |-> consumer, n |-> streams]
  BY <1>1, <1>4, FlushingSet
<1>7. k \in Sockets /\ k.sse = transport.socket.sse /\ k.dispatched = transport.socket.dispatched
      /\ k.postSeq = transport.socket.postSeq /\ k.state = transport.socket.state /\ k.flushing = no
  BY <1>2, <1>4 DEF Sockets
<1>8. k.dispatched <= k.postSeq /\ (transport.nonce # None => k.state # "connecting")
  BY <1>1, <1>2, <1>7, SocketIsTyped
<1> HIDE DEF k
<1>9. Sound([t |-> u, c |-> consumer, n |-> streams], sessions)
  BY <1>1, <1>2, <1>4, <1>7, <1>8, OnlySocket
<1>10. u.socket = k /\ u.socket # None /\ u.socket.sse
  BY <1>1, <1>2, <1>7, NoneIsApart DEF Transports
<1> HIDE DEF u
<1>11. w.t = u /\ w.c = consumer /\ w.n = streams /\ Sound(w, sessions)
  BY <1>6, <1>9
<1> HIDE DEF w
<1>12. Fine(w)
  <2>1. w = [t |-> [World.t EXCEPT !.socket = k], c |-> World.c, n |-> World.n] /\ World.t.socket # None
    BY <1>1, <1>2, <1>6 DEF u
  <2>2. w.t.socket = k /\ k # None /\ w.t.flow = World.t.flow /\ w.t.nonce = World.t.nonce
        /\ w.n = World.n /\ w.c = World.c
    BY <1>1, <1>7, <2>1, SocketFieldsIs
  <2>3. k.password = transport.socket.password
    BY <1>2 DEF k, Sockets
  <2>4. transport.socket.dispatched \in Nat
    BY <1>2 DEF Sockets
  <2>5. w.t.socket.dispatched \in Nat /\ w.t.socket.dispatched >= World.t.socket.dispatched
    BY <1>1, <1>7, <2>2, <2>4
  <2>6. w.t.socket.sse /\ w.t.socket # None /\ w.t.socket.password = World.t.socket.password
        /\ w.c.misled = World.c.misled /\ World.t.socket.sse
    BY <1>1, <1>2, <1>7, <2>2, <2>3
  <2>7. ASSUME AuthInv PROVE Honest(w, sessions, left.gated)
    <3>1. Honest(World, sessions, left.gated)
      BY <2>7 DEF AuthInv
    <3>2. QED
      BY <1>1, <2>1, <2>2, <2>5, <2>6, <3>1, SseMoves
  <2>8. QED
    BY <1>11, <2>7 DEF Fine
<1>13. CASE Becomes(Post(w))
  <2>1. Fine(Post(w))
    <3>1. \E m \in Streams : w.n[m] = None
      BY <1>5, <1>11 DEF TwoFree
    <3>2. w.t.socket # None /\ w.t.socket.sse
      BY <1>10, <1>11
    <3>3. QED
      BY <1>12, <3>1, <3>2, PostFine
  <2>2. QED
    BY <1>13, <2>1
<1>14. ASSUME NEW m \in Streams, InFlight(m), Becomes([w EXCEPT !.n[m].waiting = w.n[m].waiting + 1])
       PROVE  \E v : Fine(v) /\ Becomes(v)
  <2> DEFINE r == w.n[m].waiting + 1
             v == [w EXCEPT !.n[m].waiting = r]
             x == [streams[m] EXCEPT !.waiting = r]
  <2>1. streams[m] # None /\ streams[m].mine
    BY <1>14 DEF InFlight, Issued
  <2>2. streams[m] \in Connections /\ Shape(streams[m]) /\ ~streams[m].gone
    BY <2>1, StreamTyped DEF TypeInv, WorldInv, OwnsItsOwn, Own
  <2>3. r \in Nat
    BY <1>11, <2>2 DEF Connections
  <2>4. Becomes(v)
    BY <1>14
  <2> HIDE DEF r
  <2>5. x \in Connections /\ x.mine = streams[m].mine /\ x.sse = streams[m].sse /\ x.seq = streams[m].seq
        /\ x.gone = streams[m].gone /\ x.over = streams[m].over /\ x.at = streams[m].at /\ x.down = streams[m].down
        /\ x.up = streams[m].up /\ x.body = streams[m].body /\ x.cut = streams[m].cut /\ x.closing = streams[m].closing
    BY <2>2, <2>3 DEF Connections
  <2>6. v = [t |-> w.t, c |-> w.c, n |-> [w.n EXCEPT ![m] = x]]
    BY <1>6, <1>11
  <2> HIDE DEF x, v
  <2>7. Shape(x)
    BY <2>2, <2>5 DEF Shape, Told
  <2>8. /\ w.n[m] # None /\ x.mine = w.n[m].mine /\ x.sse = w.n[m].sse /\ x.seq = w.n[m].seq
       /\ (x.mine => ~x.gone) /\ x.over = w.n[m].over
       /\ (w.n[m].at \in {"served", "open"} => x.at \in {"served", "open"})
    BY <1>11, <2>1, <2>2, <2>5
  <2>9. Sound(v, sessions)
    BY <1>1, <1>11, <2>5, <2>6, <2>7, <2>8, OnlyStream
  <2>10. Less(x, streams[m])
    BY <2>5 DEF Less, Told
  <2>11. Fine(v)
    BY <1>1, <1>11, <1>12, <2>1, <2>6, <2>9, <2>10, OneLessFine
  <2>12. QED
    BY <2>4, <2>11
<1>15. QED
  BY <1>3, <1>13, <1>14

(* A stream of the client's is answered, or one flush less waits for it.   *)
LEMMA StreamMoves ==
    ASSUME TypeInv, NEW m \in Streams, Issued(m), NEW k \in Nat, NEW at \in {"served", "open"},
           streams[m].at # at => streams[m].at = "served"
    PROVE  LET x == [streams[m] EXCEPT !.at = at, !.waiting = k]
               v == [t |-> transport, c |-> consumer, n |-> [streams EXCEPT ![m] = x]]
           IN  Fine(v)
<1> DEFINE x == [streams[m] EXCEPT !.at = at, !.waiting = k]
           v == [t |-> transport, c |-> consumer, n |-> [streams EXCEPT ![m] = x]]
<1>1. Sound(World, sessions) /\ World.t = transport /\ World.c = consumer /\ World.n = streams
      /\ sessions \in [Sids -> Sessions \union {None}]
  BY WorldSound
<1>2. streams[m] # None /\ streams[m].mine /\ streams[m].sse
  BY DEF Issued
<1>3. streams[m] \in Connections /\ Shape(streams[m]) /\ ~streams[m].gone
  BY <1>2, StreamTyped DEF TypeInv, WorldInv, OwnsItsOwn, Own
<1>4. x \in Connections /\ x.mine = streams[m].mine /\ x.sse = streams[m].sse /\ x.seq = streams[m].seq
      /\ x.gone = streams[m].gone /\ x.over = streams[m].over /\ x.at = at /\ x.down = streams[m].down
      /\ x.up = streams[m].up /\ x.body = streams[m].body /\ x.cut = streams[m].cut /\ x.closing = streams[m].closing
  BY <1>3 DEF Connections
<1> HIDE DEF x
<1>5. Shape(x)
  BY <1>2, <1>3, <1>4 DEF Shape, Told
<1>6. v = [t |-> World.t, c |-> World.c, n |-> [World.n EXCEPT ![m] = x]]
  BY <1>1
<1> HIDE DEF v
<1>7. /\ World.n[m] # None /\ x.mine = World.n[m].mine /\ x.sse = World.n[m].sse /\ x.seq = World.n[m].seq
      /\ (x.mine => ~x.gone) /\ x.over = World.n[m].over
      /\ (World.n[m].at \in {"served", "open"} => x.at \in {"served", "open"})
  BY <1>1, <1>2, <1>3, <1>4
<1>8. Sound(v, sessions)
  BY <1>1, <1>4, <1>5, <1>6, <1>7, OnlyStream
<1>9. Less(x, World.n[m])
  BY <1>1, <1>2, <1>4 DEF Less, Told
<1>10. Fine(v)
  BY <1>1, <1>6, <1>7, <1>8, <1>9, WorldSound, WorldFine, OneLessFine
<1>11. QED
  BY <1>10 DEF v, x

(* Changing a stream that is there leaves the free ones free.              *)
LEMMA StillRoom ==
    ASSUME TypeInv, NEW m \in Streams, streams[m] # None, NEW x, TwoFree(streams)
    PROVE  TwoFree([streams EXCEPT ![m] = x])
<1>1. streams \in Wires
  BY WorldSound
<1>2. QED
  BY <1>1 DEF TwoFree, Wires

(* A POST of the current socket is numbered by it (Issued).                *)
LEMMA IssuedIsSse ==
    ASSUME TypeInv, NEW m \in Streams, Issued(m)
    PROVE  /\ transport.socket # None /\ transport.socket.sse
           /\ streams[m].seq \in Nat /\ streams[m].seq <= transport.socket.postSeq
<1>1. streams[m] # None /\ streams[m].mine /\ streams[m].sse
  BY DEF Issued
<1>2. transport.socket # None /\ transport.socket.sse
  BY <1>1 DEF TypeInv, WorldInv, OwnsItsOwn, Own
<1>3. QED
  BY <1>1, <1>2, StreamTyped DEF TypeInv, WorldInv, Numbered, Own, Connections

(* A flush that stops waiting leads to a sound world (FlushStopsWaiting).  *)
LEMMA FlushStopsWaitingSound ==
    ASSUME TypeInv, FlushStopsWaiting
    PROVE  \E v : Fine(v) /\ Becomes(v)
<1>1. Sound(World, sessions) /\ World.t = transport /\ World.c = consumer /\ World.n = streams
      /\ sessions \in [Sids -> Sessions \union {None}]
  BY WorldSound
<1>2. PICK m \in Streams : /\ Awaited(m)
                           /\ Becomes(Post([World EXCEPT !.n[m].waiting = @ - 1]))
  BY DEF FlushStopsWaiting
<1> DEFINE k == streams[m].waiting - 1
           w == [World EXCEPT !.n[m].waiting = k]
           x == [streams[m] EXCEPT !.at = streams[m].at, !.waiting = k]
<1>3. streams[m] # None /\ streams[m] \in Connections /\ Issued(m) /\ streams[m].waiting > 0
  BY <1>2, StreamTyped DEF Awaited, Issued
<1>4. k \in Nat
  BY <1>3 DEF Connections
<1>5. Becomes(Post(w))
  BY <1>1, <1>2
<1> HIDE DEF k
<1>6. [streams[m] EXCEPT !.waiting = k] = x
  BY <1>3 DEF Connections
<1>7. w = [t |-> transport, c |-> consumer, n |-> [streams EXCEPT ![m] = x]]
  <2>1. World = [t |-> transport, c |-> consumer, n |-> streams]
    BY DEF World
  <2>2. w = [t |-> transport, c |-> consumer, n |-> [streams EXCEPT ![m] = [streams[m] EXCEPT !.waiting = k]]]
    BY <2>1, SMT
  <2>3. QED
    BY <1>6, <2>2
<1>8. Fine([t |-> transport, c |-> consumer, n |-> [streams EXCEPT ![m] = x]])
  <2>1. CASE streams[m].at \in {"served", "open"}
    BY <1>3, <1>4, <2>1, StreamMoves
  <2>2. CASE streams[m].at \notin {"served", "open"}
    <3> DEFINE v == [t |-> transport, c |-> consumer, n |-> [streams EXCEPT ![m] = x]]
    <3>1. streams[m].mine /\ Shape(streams[m]) /\ ~streams[m].gone
      BY <1>3, StreamTyped DEF TypeInv, WorldInv, OwnsItsOwn, Own, Issued
    <3>2. x \in Connections /\ x.mine = streams[m].mine /\ x.sse = streams[m].sse /\ x.seq = streams[m].seq
      /\ x.gone = streams[m].gone /\ x.over = streams[m].over /\ x.at = streams[m].at /\ x.down = streams[m].down
      /\ x.up = streams[m].up /\ x.body = streams[m].body /\ x.cut = streams[m].cut /\ x.closing = streams[m].closing
      BY <1>3, <1>4 DEF Connections
    <3> HIDE DEF x
    <3>3. Shape(x)
      BY <3>1, <3>2 DEF Shape, Told
    <3>4. v = [t |-> World.t, c |-> World.c, n |-> [World.n EXCEPT ![m] = x]]
      BY <1>1
    <3> HIDE DEF v
    <3>5. /\ World.n[m] # None /\ x.mine = World.n[m].mine /\ x.sse = World.n[m].sse
          /\ x.seq = World.n[m].seq /\ (x.mine => ~x.gone) /\ x.over = World.n[m].over
          /\ (World.n[m].at \in {"served", "open"} => x.at \in {"served", "open"})
      BY <1>1, <1>3, <2>2, <3>1, <3>2
    <3>6. Sound(v, sessions)
      BY <1>1, <3>2, <3>3, <3>4, <3>5, OnlyStream
    <3>7. Less(x, World.n[m])
      BY <1>1, <3>2 DEF Less, Told
    <3>8. Fine(v)
      BY <1>1, <3>4, <3>5, <3>6, <3>7, WorldSound, WorldFine, OneLessFine
    <3>9. QED
      BY <3>8 DEF v
  <2>3. QED
    BY <2>1, <2>2
<1>9. TwoFree([streams EXCEPT ![m] = x])
  BY <1>3, StillRoom, RoomForTwo DEF FlushStopsWaiting, HasRoom
<1> HIDE DEF x
<1>10. Fine(w) /\ TwoFree(w.n) /\ w.t = transport
  BY <1>7, <1>8, <1>9
<1>11. transport.socket # None /\ transport.socket.sse
  BY <1>3, IssuedIsSse
<1> HIDE DEF w
<1>12. Fine(Post(w))
  <2>1. \E j \in Streams : w.n[j] = None
    BY <1>10 DEF TwoFree
  <2>2. QED
    BY <1>10, <1>11, <2>1, PostFine
<1>13. QED
  BY <1>5, <1>12

(* The answer to a POST leads to a sound world (PostAnswered).             *)
LEMMA PostAnsweredSound ==
    ASSUME TypeInv, NEW m \in Streams, PostAnswered(m)
    PROVE  \E v : Fine(v) /\ Becomes(v)
<1> DEFINE w == [World EXCEPT !.n[m].at = "open", !.n[m].waiting = 0]
           x == [streams[m] EXCEPT !.at = "open", !.waiting = 0]
           x1 == [streams[m] EXCEPT !.at = "open"]
           n1 == [streams EXCEPT ![m] = x1]
           n2 == [n1 EXCEPT ![m] = [n1[m] EXCEPT !.waiting = 0]]
           v1 == [World EXCEPT !.n[m].at = "open"]
           v2 == [v1 EXCEPT !.n[m].waiting = 0]
           l == [streams EXCEPT ![m] = x]
<1>1. sessions \in [Sids -> Sessions \union {None}] /\ streams \in Wires
  BY WorldSound
<1>2. Issued(m) /\ streams[m] # None /\ streams[m].at = "served" /\ Becomes(Resume(w, streams[m].waiting))
  BY DEF PostAnswered, Issued
<1>3. Fine([t |-> transport, c |-> consumer, n |-> l])
  <2>1. 0 \in Nat /\ "open" \in {"served", "open"}
    OBVIOUS
  <2>2. QED
    BY <1>2, <2>1, StreamMoves
<1>4. TwoFree(l)
  BY <1>2, StillRoom, RoomForTwo DEF PostAnswered, HasRoom
<1>5. w = v2
  OBVIOUS
<1>6. v1 = [t |-> transport, c |-> consumer, n |-> n1]
  <2>1. World = [t |-> transport, c |-> consumer, n |-> streams]
    BY DEF World
  <2> HIDE DEF x1
  <2>2. QED
    BY <2>1, SMT DEF x1
<1>7. n2 = l
  <2>1. n1[m] = x1
    BY <1>1 DEF Wires
  <2>2. [x1 EXCEPT !.waiting = 0] = x
    OBVIOUS
  <2> HIDE DEF x, x1
  <2>3. QED
    BY <2>1, <2>2
<1> HIDE DEF v1, n1
<1>8. v2 = [t |-> transport, c |-> consumer, n |-> n2]
  BY <1>6, SMT
<1> HIDE DEF v2, n2, l
<1>9. Fine(w) /\ TwoFree(w.n) /\ w.t = transport
  <2>1. w = [t |-> transport, c |-> consumer, n |-> l]
    BY <1>5, <1>7, <1>8
  <2> HIDE DEF w
  <2>2. w.t = transport /\ w.n = l
    BY <2>1
  <2>3. QED
    BY <1>3, <1>4, <2>1, <2>2
<1>10. transport.socket # None /\ transport.socket.sse
  BY <1>2, IssuedIsSse
<1> HIDE DEF w
<1>11. Fine(Resume(w, streams[m].waiting))
  BY <1>9, <1>10, ResumeFine
<1>12. QED
  BY <1>2, <1>11

(* So does the close event in the state as it is (SocketClosed).           *)
LEMMA WorldCloses ==
    ASSUME TypeInv, transport.socket # None
    PROVE  Fine(SocketClosed(World))
<1>1. Loose(World, sessions) /\ World.t.socket # None
  BY WorldSound, SoundIsLoose
<1>2. AuthInv => RelayAuth(World.n, sessions, left.gated)
  BY DEF AuthInv, Honest
<1>3. QED
  BY <1>1, <1>2, SocketClosedFine

(* A failed POST leads to a sound world (PostFails).                       *)
LEMMA PostFailsSound ==
    ASSUME TypeInv, NEW m \in Streams, PostFails(m)
    PROVE  \E v : Fine(v) /\ Becomes(v)
<1>1. Fine(SocketClosed(World))
  BY IssuedIsSse, WorldCloses DEF PostFails
<1>2. QED
  BY <1>1 DEF PostFails

(* An event read from a response leads to a sound world (ReadEvent).       *)
LEMMA ReadEventSound ==
    ASSUME TypeInv, NEW m \in Streams, ReadEvent(m)
    PROVE  \E v : Fine(v) /\ Becomes(v)
<1> DEFINE w == Taken(World, m)
           e == Head(streams[m].down)
<1>1. Sound(World, sessions) /\ World.t = transport /\ World.n = streams
      /\ sessions \in [Sids -> Sessions \union {None}]
  BY WorldSound
<1>2. Issued(m) /\ streams[m] # None /\ streams[m].down # <<>>
      /\ Becomes(dispatchOrderedEvent(w, e, streams[m].seq))
  BY DEF ReadEvent, Issued
<1>3. Sound(w, sessions) /\ e \in Events /\ w.t = transport
  BY <1>1, <1>2, TakenSound
<1>4. transport.socket # None /\ streams[m].seq \in Nat /\ streams[m].seq <= transport.socket.postSeq
  BY <1>2, IssuedIsSse
<1> HIDE DEF w, e
<1>5. Sound(dispatchOrderedEvent(w, e, streams[m].seq), sessions)
  BY <1>1, <1>3, <1>4, DispatchOrderedSound
<1>6. ASSUME AuthInv PROVE Honest(dispatchOrderedEvent(w, e, streams[m].seq), sessions, left.gated)
  <2>1. Own(World.n, m) /\ World.n[m].sse /\ World.n[m].down # <<>>
    BY <1>1, <1>2 DEF Own, Issued
  <2>2. Honest(dispatchOrderedEvent(Taken(World, m), Head(World.n[m].down), World.n[m].seq), sessions, left.gated)
    BY <1>1, <1>6, <2>1, SseMessageHonest DEF AuthInv
  <2>3. QED
    BY <1>1, <2>2 DEF w, e
<1>7. QED
  BY <1>2, <1>5, <1>6 DEF Fine

(* The history of slips is no part of the invariant.                       *)
LEMMA SlippedSet ==
    ASSUME NEW w, NEW s, Sound(w, s), w.t.socket # None, NEW b \in BOOLEAN
    PROVE  LET u == [w.t EXCEPT !.socket = [w.t.socket EXCEPT !.slipped = b]]
               v == [t |-> u, c |-> w.c, n |-> w.n]
           IN  /\ Sound(v, s)
               /\ \A g : w.t.socket.sse /\ Honest(w, s, g) => Honest(v, s, g)
<1> DEFINE k == [w.t.socket EXCEPT !.slipped = b]
<1>1. k \in Sockets /\ k.sse = w.t.socket.sse /\ k.dispatched = w.t.socket.dispatched
      /\ k.postSeq = w.t.socket.postSeq /\ k.state = w.t.socket.state /\ k.flushing = w.t.socket.flushing
  BY SocketIsTyped DEF Sockets
<1>2. k.dispatched <= k.postSeq /\ (k.flushing => k.sse) /\ (w.t.nonce # None => k.state # "connecting")
  BY <1>1, SocketIsTyped
<1> HIDE DEF k
<1> DEFINE v == [t |-> [w.t EXCEPT !.socket = k], c |-> w.c, n |-> w.n]
<1>3. Sound(v, s)
  BY <1>1, <1>2, OnlySocket
<1>4. v.t.socket = k /\ k # None /\ v.t.flow = w.t.flow /\ v.n = w.n /\ v.c = w.c
  <2>1. v = [t |-> [w.t EXCEPT !.socket = k], c |-> w.c, n |-> w.n]
    OBVIOUS
  <2> HIDE DEF v
  <2>2. QED
    BY <1>1, <2>1, SocketFieldsIs
<1>5. k.password = w.t.socket.password /\ w.t.socket.dispatched \in Nat
  BY SocketIsTyped DEF k, Sockets
<1> HIDE DEF v
<1>6. ASSUME NEW g, w.t.socket.sse, Honest(w, s, g) PROVE Honest(v, s, g)
  <2>1. v.t.socket.dispatched \in Nat /\ v.t.socket.dispatched >= w.t.socket.dispatched
    BY <1>1, <1>4, <1>5
  <2>2. v.t.socket # None /\ v.t.socket.sse /\ v.t.socket.password = w.t.socket.password
        /\ v.c.misled = w.c.misled
    BY <1>1, <1>4, <1>5, <1>6
  <2>3. QED
    BY <1>4, <1>6, <2>1, <2>2, SseMoves
<1>7. QED
  BY <1>3, <1>6 DEF k, v

(* A reader that just stops leaves a sound world (StopReading).            *)
LEMMA StopReadingSound ==
    ASSUME TypeInv, NEW m \in Streams, Issued(m)
    PROVE  Fine(StopReading(m))
<1> DEFINE yes == TRUE
           no == FALSE
           x == [streams[m] EXCEPT !.gone = yes, !.mine = no, !.down = <<>>]
           n1 == [streams EXCEPT ![m].gone = yes, ![m].mine = no, ![m].down = <<>>]
           l == [streams EXCEPT ![m] = x]
           b == transport.socket.slipped \/ streams[m].cut
           u == [transport EXCEPT !.socket = [transport.socket EXCEPT !.slipped = b]]
           w == [t |-> transport, c |-> consumer, n |-> Swept(l)]
           v1 == [World EXCEPT !.n = Swept(n1)]
           v2 == [v1 EXCEPT !.t.socket.slipped = b]
<1>1. Sound(World, sessions) /\ World.t = transport /\ World.c = consumer /\ World.n = streams
      /\ streams \in Wires
  BY WorldSound
<1>2. streams[m] # None /\ streams[m].sse /\ streams[m].mine /\ streams[m] \in Connections /\ LooseShape(streams[m])
  BY StreamTyped DEF Issued
<1>3. transport.socket # None /\ transport.socket \in Sockets
  BY <1>1, IssuedIsSse, SocketIsTyped
<1>4. yes \in BOOLEAN /\ no \in BOOLEAN /\ yes /\ ~no /\ <<>> \in Seq(Events)
  OBVIOUS
<1>5. StopReading(m) = v2
  BY <1>1, <1>3 DEF StopReading
<1>6. b \in BOOLEAN
  BY <1>2, <1>3 DEF Sockets, Connections
<1> HIDE DEF yes, no, b
<1>7. n1 = l
  <2> DEFINE x1 == [streams[m] EXCEPT !.gone = yes]
             x2 == [x1 EXCEPT !.mine = no]
             x3 == [x2 EXCEPT !.down = <<>>]
             a1 == [streams EXCEPT ![m] = x1]
             a2 == [a1 EXCEPT ![m] = [a1[m] EXCEPT !.mine = no]]
             a3 == [a2 EXCEPT ![m] = [a2[m] EXCEPT !.down = <<>>]]
  <2>1. n1 = a3 /\ x = x3
    OBVIOUS
  <2>2. a1[m] = x1 /\ a1 \in [Streams -> {a1[j] : j \in Streams}]
    BY <1>1 DEF Wires
  <2> HIDE DEF x1
  <2>3. a2 = [streams EXCEPT ![m] = x2]
    BY <1>1, <2>2 DEF Wires
  <2> HIDE DEF a1, a2, x2
  <2>4. a2[m] = x2
    BY <1>1, <2>3 DEF Wires
  <2>5. a3 = [streams EXCEPT ![m] = x3]
    BY <1>1, <2>3, <2>4 DEF Wires
  <2> HIDE DEF a3, x3
  <2>6. QED
    BY <2>1, <2>5
<1>8. x \in Connections /\ x.mine = no /\ x.sse = streams[m].sse /\ x.seq = streams[m].seq
      /\ x.gone = yes /\ x.over = streams[m].over /\ x.at = streams[m].at /\ x.down = <<>>
      /\ x.up = streams[m].up /\ x.body = streams[m].body /\ x.cut = streams[m].cut /\ x.closing = streams[m].closing
  BY <1>2, <1>4 DEF Connections
<1> HIDE DEF x
<1>9. LooseShape(x)
  BY <1>2, <1>4, <1>8 DEF LooseShape
<1>10. Fine(w)
  <2>1. Less(x, streams[m])
    BY <1>4, <1>8 DEF Less, Told
  <2>2. QED
    BY <1>2, <1>4, <1>8, <1>9, <2>1, SweepSound
<1>11. v1 = [t |-> transport, c |-> consumer, n |-> Swept(l)]
  <2>1. World = [t |-> transport, c |-> consumer, n |-> streams]
    BY DEF World
  <2> DEFINE z == Swept(n1)
  <2> HIDE DEF z
  <2>2. [World EXCEPT !.n = z] = [t |-> transport, c |-> consumer, n |-> z]
    BY <2>1
  <2>3. QED
    BY <1>7, <2>2 DEF z
<1> HIDE DEF v1, l, n1
<1>12. v2 = [t |-> u, c |-> consumer, n |-> Swept(l)]
  BY <1>11, SMT
<1> HIDE DEF v2
<1>13. w.t = transport /\ w.c = consumer /\ w.n = Swept(l)
  OBVIOUS
<1> HIDE DEF w
<1>14. Fine([t |-> [w.t EXCEPT !.socket = [w.t.socket EXCEPT !.slipped = b]], c |-> w.c, n |-> w.n])
  <2>1. w.t.socket # None /\ w.t.socket.sse
    BY <1>13, IssuedIsSse
  <2>2. QED
    BY <1>6, <1>10, <2>1, SlippedSet DEF Fine
<1>15. QED
  BY <1>5, <1>12, <1>13, <1>14

(* The end of a response leads to a sound world (ResponseEnds).            *)
LEMMA ResponseEndsSound ==
    ASSUME TypeInv, NEW m \in Streams, ResponseEnds(m)
    PROVE  \E v : Fine(v) /\ Becomes(v)
<1>1. Issued(m)
  BY DEF ResponseEnds
<1>2. Fine(SocketClosed(World))
  BY <1>1, IssuedIsSse, WorldCloses
<1>3. Fine(StopReading(m))
  BY <1>1, StopReadingSound
<1>4. QED
  BY <1>2, <1>3 DEF ResponseEnds

-----------------------------------------------------------------------------
(* The steps of the relay.                                                 *)

Relayed(y) ==
    /\ y = [n |-> y.n, s |-> y.s]
    /\ y.s \in [Sids -> Sessions \union {None}]
    /\ WorldInv(transport, consumer, y.n) /\ Served(y.n, y.s)

(* Streams and sessions made of sound parts.                               *)
LEMMA MakeRelayed ==
    ASSUME NEW n, NEW s \in [Sids -> Sessions \union {None}], WorldInv(transport, consumer, n), Served(n, s)
    PROVE  Relayed([n |-> n, s |-> s])
<1>1. QED
  BY DEF Relayed

(* Those of a state of the invariant.                                      *)
LEMMA RelayIsRelayed ==
    ASSUME TypeInv
    PROVE  Relayed(Relay) /\ Relay.n = streams /\ Relay.s = sessions
<1>1. Relay.n = streams /\ Relay.s = sessions /\ Relay = [n |-> streams, s |-> sessions]
  BY DEF Relay
<1>2. Relayed(Relay)
  BY <1>1, MakeRelayed DEF TypeInv
<1>3. QED
  BY <1>1, <1>2

(* A session keeps its response.                                           *)
LEMMA SessionSet ==
    ASSUME NEW y, Relayed(y), NEW s \in Sids, y.s[s] # None, NEW z \in Sessions, z.res = y.s[s].res
    PROVE  Relayed([n |-> y.n, s |-> [y.s EXCEPT ![s] = z]])
<1> DEFINE a == [y.s EXCEPT ![s] = z]
<1>1. y.s \in [Sids -> Sessions \union {None}]
  BY DEF Relayed
<1>2. a \in [Sids -> Sessions \union {None}] /\ a[s] = z /\ \A x \in Sids : x # s => a[x] = y.s[x]
  BY <1>1
<1> HIDE DEF a
<1>3. Served(y.n, a)
  BY <1>2 DEF Relayed, Served
<1>4. Relayed([n |-> y.n, s |-> a])
  BY <1>2, <1>3, MakeRelayed DEF Relayed
<1>5. QED
  BY <1>4 DEF a

(* A change of a stream that keeps its kind, owner, number and ends is a   *)
(* step of the relay's that is allowed.                                    *)
LEMMA StreamSet ==
    ASSUME NEW y, Relayed(y), NEW m \in Streams, y.n[m] # None, NEW x \in Connections, Shape(x),
           x.mine = y.n[m].mine, x.sse = y.n[m].sse, x.seq = y.n[m].seq, x.gone = y.n[m].gone,
           x.over = y.n[m].over, y.n[m].at \in {"served", "open"} => x.at \in {"served", "open"}
    PROVE  Relayed([n |-> [y.n EXCEPT ![m] = x], s |-> y.s])
<1> DEFINE k == [y.n EXCEPT ![m] = x]
<1>1. y.n \in Wires /\ y.s \in [Sids -> Sessions \union {None}] /\ Shapes(y.n)
  BY DEF Relayed, WorldInv
<1>2. k \in Wires /\ k[m] = x /\ x # None /\ \A j \in Streams : j # m => k[j] = y.n[j]
  BY <1>1, NoneIsApart DEF Wires
<1> HIDE DEF k
<1>3. Shapes(k)
  BY <1>1, <1>2 DEF Shapes
<1>4. \A j \in Streams : Own(k, j) =>
         Own(y.n, j) /\ k[j].sse = y.n[j].sse /\ k[j].seq = y.n[j].seq /\ ~k[j].gone
  BY <1>2 DEF Own, Relayed, WorldInv, OwnsItsOwn
<1>5. \A j \in Streams : Own(y.n, j) /\ ~y.n[j].sse => Own(k, j)
  BY <1>2 DEF Own
<1>6. WorldInv(transport, consumer, k)
  BY <1>2, <1>3, <1>4, <1>5, WireSound DEF Relayed
<1>7. Served(k, y.s)
  BY <1>1, <1>2 DEF Relayed, Served, Sessions
<1>8. Relayed([n |-> k, s |-> y.s])
  BY <1>1, <1>6, <1>7, MakeRelayed
<1>9. QED
  BY <1>8 DEF k

(* A session's response is there and has not ended.                        *)
LEMMA ResOf ==
    ASSUME NEW y, Relayed(y), NEW s \in Sids, y.s[s] # None
    PROVE  /\ y.s[s] \in Sessions /\ y.s[s].res \in Streams
           /\ y.n[y.s[s].res] # None /\ y.n[y.s[s].res] \in Connections /\ Shape(y.n[y.s[s].res])
           /\ ~y.n[y.s[s].res].over /\ y.n[y.s[s].res].at \in {"served", "open"}
<1>1. y.s[s] \in Sessions /\ y.s[s].res \in Streams
  BY DEF Relayed, Sessions
<1>2. QED
  BY <1>1 DEF Relayed, Served, WorldInv, Wires, Shapes

(* What the relay sends a session.                                         *)
Replies == {"authenticated", "auth-failed", "gated", "answer", "data"}

(* Sent, field by field.                                                   *)
LEMMA SentIs ==
    ASSUME NEW y, Relayed(y), NEW s \in Sids, y.s[s] # None, NEW type
    PROVE  LET r == y.s[s].res
               x == [y.n[r] EXCEPT !.down = Append(y.n[r].down, Event(type, s, y.s[s].sent + 1))]
               z == [y.s[s] EXCEPT !.sent = y.s[s].sent + 1]
           IN  Sent(y, s, type) = [n |-> [y.n EXCEPT ![r] = x], s |-> [y.s EXCEPT ![s] = z]]
<1> DEFINE r == y.s[s].res
           k == y.s[s].sent + 1
           d == Append(y.n[r].down, Event(type, s, y.s[s].sent + 1))
           x == [y.n[r] EXCEPT !.down = d]
           z == [y.s[s] EXCEPT !.sent = k]
           v1 == [y EXCEPT !.s[s].sent = k]
           v2 == [v1 EXCEPT !.n[r].down = d]
<1>1. y = [n |-> y.n, s |-> y.s]
  BY DEF Relayed
<1>2. v1 = [n |-> y.n, s |-> [y.s EXCEPT ![s] = z]]
  <2> HIDE DEF k
  <2>1. QED
    BY <1>1
<1>3. Sent(y, s, type) = v2
  <2>1. v1.n = y.n
    BY <1>2
  <2> HIDE DEF k
  <2>2. QED
    BY <1>1 DEF Sent, k
<1> HIDE DEF v1, z, d, r
<1>4. v2 = [n |-> [y.n EXCEPT ![r] = x], s |-> [y.s EXCEPT ![s] = z]]
  BY <1>2, SMT
<1>5. QED
  BY <1>3, <1>4 DEF z, d, r

(* The events the relay makes (Event).                                     *)
LEMMA EventTyped ==
    ASSUME NEW type \in {"session", "challenge", "close"} \union Replies, NEW s \in Sids, NEW k \in Nat
    PROVE  Event(type, s, k) \in Events /\ Event(type, s, k).type = type /\ Event(type, s, k).sid = s
<1>1. QED
  BY DEF Event, Events, Replies

(* What the relay does not change in a stream.                             *)
Was(x, y) ==
    x.mine = y.mine /\ x.sse = y.sse /\ x.seq = y.seq /\ x.body = y.body /\ x.at = y.at

(* A stream with one more event.                                           *)
Hears(x, y, e) == x.down = Append(y.down, e) /\ Told(x) = Told(y) \union {e}

(* A reply adds one event, to the response its session has, and changes    *)
(* nothing else that counts (Sent).                                        *)
LEMMA SentAt ==
    ASSUME NEW y, Relayed(y), NEW s \in Sids, y.s[s] # None, NEW type \in Replies,
           NEW u, u = Sent(y, s, type), NEW r, r = y.s[s].res,
           NEW e, e = Event(type, s, y.s[s].sent + 1)
    PROVE  /\ Relayed(u) /\ u.s[s] # None /\ u.s[s].authed = y.s[s].authed /\ u.s[s].res = r
           /\ \A j \in Sids : j # s => u.s[j] = y.s[j]
           /\ \A j \in Streams : j # r => u.n[j] = y.n[j]
           /\ r \in Streams /\ u.n[r] # None /\ Was(u.n[r], y.n[r]) /\ u.n[r].up = y.n[r].up
           /\ e \in Events /\ Hears(u.n[r], y.n[r], e)
<1> DEFINE d == Append(y.n[r].down, e)
           x == [y.n[r] EXCEPT !.down = d]
           z == [y.s[s] EXCEPT !.sent = y.s[s].sent + 1]
           v == [n |-> [y.n EXCEPT ![r] = x], s |-> y.s]
           w == [n |-> v.n, s |-> [v.s EXCEPT ![s] = z]]
<1>1. /\ y.s[s] \in Sessions /\ r \in Streams
      /\ y.n[r] # None /\ y.n[r] \in Connections /\ Shape(y.n[r]) /\ y.n[r].at \in {"served", "open"}
  BY ResOf
<1>2. z \in Sessions /\ z.res = r /\ z.authed = y.s[s].authed
  BY <1>1 DEF Sessions
<1>3. e \in Events /\ e.type \notin {"session", "close"}
  <2>1. y.s[s].sent + 1 \in Nat
    BY <1>1 DEF Sessions
  <2>2. type \in {"session", "challenge", "close"} \union Replies
    OBVIOUS
  <2>3. QED
    BY <2>1, <2>2, EventTyped DEF Replies
<1>4. y.n[r].down \in Seq(Events)
  BY <1>1 DEF Connections
<1>5. d \in Seq(Events) /\ {d[i] : i \in DOMAIN d} = Told(y.n[r]) \union {e}
  <2> DEFINE q == y.n[r].down
  <2>1. q \in Seq(Events)
    BY <1>4
  <2> HIDE DEF q
  <2>2. Append(q, e) \in Seq(Events)
        /\ {Append(q, e)[i] : i \in DOMAIN Append(q, e)} = {q[i] : i \in DOMAIN q} \union {e}
    BY <1>3, <2>1, EventAppends
  <2>3. QED
    BY <2>2 DEF q, Told
<1> HIDE DEF d
<1>6. x \in Connections /\ x.mine = y.n[r].mine /\ x.sse = y.n[r].sse /\ x.seq = y.n[r].seq
      /\ x.gone = y.n[r].gone /\ x.over = y.n[r].over /\ x.at = y.n[r].at /\ x.down = d
      /\ x.up = y.n[r].up /\ x.body = y.n[r].body /\ x.cut = y.n[r].cut /\ x.closing = y.n[r].closing
  BY <1>1, <1>5 DEF Connections
<1>7. Sent(y, s, type) = [n |-> [y.n EXCEPT ![r] = x], s |-> [y.s EXCEPT ![s] = z]]
  BY SentIs DEF d
<1> HIDE DEF x, z
<1>8. Told(x) = Told(y.n[r]) \union {e}
  BY <1>5, <1>6 DEF Told
<1>9. Shape(x)
  BY <1>1, <1>3, <1>6, <1>8 DEF Shape
<1>10. Relayed(v)
  BY <1>1, <1>6, <1>9, StreamSet
<1>11. v.s = y.s
  OBVIOUS
<1> HIDE DEF v
<1>12. Relayed(w)
  BY <1>2, <1>10, <1>11, SessionSet
<1>13. Sent(y, s, type) = w
  BY <1>7 DEF v
<1>14. y.s \in [Sids -> Sessions \union {None}]
  BY DEF Relayed
<1>15. w.s[s] = z /\ \A j \in Sids : j # s => w.s[j] = y.s[j]
  BY <1>11, <1>14
<1>16. w.n = v.n
  OBVIOUS
<1> HIDE DEF w
<1>17. w.n[r] = x /\ x # None /\ \A j \in Streams : j # r => w.n[j] = y.n[j]
  <2>1. y.n \in Wires /\ r \in Streams
    BY <1>1 DEF Relayed, WorldInv
  <2>2. v.n = [y.n EXCEPT ![r] = x]
    BY DEF v
  <2>3. QED
    BY <1>6, <1>16, <2>1, <2>2, NoneIsApart DEF Wires
<1>18. Was(x, y.n[r])
  BY <1>6 DEF Was
<1>19. /\ Relayed(w) /\ w.s[s] # None /\ w.s[s].authed = y.s[s].authed /\ w.s[s].res = r
       /\ \A j \in Sids : j # s => w.s[j] = y.s[j]
  BY <1>2, <1>12, <1>15, NoneIsApart
<1>20. Hears(x, y.n[r], e)
  BY <1>6, <1>8 DEF Hears, d
<1>21. /\ r \in Streams /\ w.n[r] # None /\ Was(w.n[r], y.n[r]) /\ w.n[r].up = y.n[r].up
       /\ e \in Events /\ Hears(w.n[r], y.n[r], e)
  BY <1>1, <1>3, <1>6, <1>17, <1>18, <1>20
<1>22. QED
  BY <1>13, <1>17, <1>19, <1>21

(* Sending to a session's response is allowed, and authorizes nobody       *)
(* (Sent).                                                                 *)
LEMMA SentSound ==
    ASSUME NEW y, Relayed(y), NEW s \in Sids, y.s[s] # None, NEW type \in Replies
    PROVE  /\ Relayed(Sent(y, s, type)) /\ Sent(y, s, type).s[s] # None
           /\ Sent(y, s, type).s[s].authed = y.s[s].authed
<1> DEFINE u == Sent(y, s, type)
           r == y.s[s].res
           e == Event(type, s, y.s[s].sent + 1)
<1>1. u = Sent(y, s, type) /\ r = y.s[s].res /\ e = Event(type, s, y.s[s].sent + 1)
  OBVIOUS
<1> HIDE DEF u, r, e
<1>2. Relayed(u) /\ u.s[s] # None /\ u.s[s].authed = y.s[s].authed
  BY <1>1, SentAt
<1>3. QED
  BY <1>1, <1>2

(* Authorizing a session is allowed, and is the change of one field        *)
(* (handleAuthenticate).                                                   *)
LEMMA AuthedSet ==
    ASSUME NEW y, Relayed(y), NEW s \in Sids, y.s[s] # None, NEW b \in BOOLEAN
    PROVE  /\ Relayed([y EXCEPT !.s[s].authed = b]) /\ [y EXCEPT !.s[s].authed = b].s[s] # None
           /\ [y EXCEPT !.s[s].authed = b] = [n |-> y.n, s |-> [y.s EXCEPT ![s] = [y.s[s] EXCEPT !.authed = b]]]
<1> DEFINE z == [y.s[s] EXCEPT !.authed = b]
           v == [y EXCEPT !.s[s].authed = b]
<1>1. y = [n |-> y.n, s |-> y.s] /\ y.s \in [Sids -> Sessions \union {None}]
  BY DEF Relayed
<1>2. v = [n |-> y.n, s |-> [y.s EXCEPT ![s] = z]]
  BY <1>1
<1>3. y.s[s] \in Sessions
  BY <1>1
<1>4. z \in Sessions /\ z.res = y.s[s].res /\ z # None
  BY <1>3, NoneIsApart DEF Sessions
<1> HIDE DEF z
<1>5. Relayed([n |-> y.n, s |-> [y.s EXCEPT ![s] = z]])
  BY <1>4, SessionSet
<1> HIDE DEF v
<1>6. v.s[s] = z
  BY <1>1, <1>2
<1>7. QED
  BY <1>2, <1>4, <1>5, <1>6 DEF v, z

(* Handling a password is allowed (handleAuthenticate).                    *)
LEMMA AuthenticateSound ==
    ASSUME NEW y, Relayed(y), NEW s \in Sids, y.s[s] # None, NEW p
    PROVE  Relayed(handleAuthenticate(y, s, p)) /\ handleAuthenticate(y, s, p).s[s] # None
<1> DEFINE yes == TRUE
           v == [y EXCEPT !.s[s].authed = yes]
<1>1. handleAuthenticate(y, s, p) \in {y, Sent(y, s, "auth-failed"), Sent(v, s, "authenticated")}
  BY DEF handleAuthenticate
<1>2. yes \in BOOLEAN
  OBVIOUS
<1> HIDE DEF yes
<1>3. Relayed(v) /\ v.s[s] # None
  BY <1>2, AuthedSet
<1> HIDE DEF v
<1>4. "auth-failed" \in Replies /\ "authenticated" \in Replies
  BY DEF Replies
<1>5. /\ Relayed(Sent(y, s, "auth-failed")) /\ Sent(y, s, "auth-failed").s[s] # None
      /\ Relayed(Sent(v, s, "authenticated")) /\ Sent(v, s, "authenticated").s[s] # None
  BY <1>3, <1>4, SentSound
<1>6. QED
  BY <1>1, <1>5

(* So is a change of a session's handlers.                                 *)
LEMMA WorkSet ==
    ASSUME NEW y, Relayed(y), NEW s \in Sids, y.s[s] # None, NEW q \in Seq(Frames)
    PROVE  /\ Relayed([y EXCEPT !.s[s].work = q]) /\ [y EXCEPT !.s[s].work = q].s[s] # None
           /\ [y EXCEPT !.s[s].work = q] = [n |-> y.n, s |-> [y.s EXCEPT ![s] = [y.s[s] EXCEPT !.work = q]]]
<1> DEFINE z == [y.s[s] EXCEPT !.work = q]
           v == [y EXCEPT !.s[s].work = q]
<1>1. y = [n |-> y.n, s |-> y.s] /\ y.s \in [Sids -> Sessions \union {None}]
  BY DEF Relayed
<1>2. v = [n |-> y.n, s |-> [y.s EXCEPT ![s] = z]]
  BY <1>1
<1>3. y.s[s] \in Sessions
  BY <1>1
<1>4. z \in Sessions /\ z.res = y.s[s].res /\ z # None
  BY <1>3, NoneIsApart DEF Sessions
<1> HIDE DEF z
<1>5. Relayed([n |-> y.n, s |-> [y.s EXCEPT ![s] = z]])
  BY <1>4, SessionSet
<1> HIDE DEF v
<1>6. v.s[s] = z
  BY <1>1, <1>2
<1>7. QED
  BY <1>2, <1>4, <1>5, <1>6 DEF v, z

(* So is dispatching a frame (Dispatch).                                   *)
LEMMA DispatchFrameSound ==
    ASSUME NEW y, Relayed(y), NEW s \in Sids, y.s[s] # None, NEW frame \in Frames
    PROVE  Relayed(Dispatch(y, s, frame))
<1>1. CASE frame.password # None
  BY <1>1, AuthenticateSound DEF Dispatch
<1>2. CASE frame.password = None
  <2> DEFINE q == Append(y.s[s].work, frame)
  <2>1. y.s[s] \in Sessions
    BY ResOf
  <2>2. q \in Seq(Frames)
    BY <2>1 DEF Sessions
  <2> DEFINE v == [y EXCEPT !.s[s].work = q]
  <2>3. Dispatch(y, s, frame) = v
    BY <1>2 DEF Dispatch
  <2> HIDE DEF q
  <2>4. Relayed(v)
    BY <2>2, WorkSet
  <2>5. QED
    BY <2>3, <2>4
<1>3. QED
  BY <1>1, <1>2

(* So is dispatching a body (dispatchBody).                                *)
LEMMA DispatchBodySound ==
    ASSUME NEW y, Relayed(y), NEW s \in Sids, y.s[s] # None, NEW body \in Bodies
    PROVE  Relayed(dispatchBody(y, s, body))
<1> DEFINE v == IF body.password = None THEN y ELSE handleAuthenticate(y, s, body.password)
           q == v.s[s].work \o body.frames
<1>1. Relayed(v) /\ v.s[s] # None
  BY AuthenticateSound
<1> DEFINE u == [v EXCEPT !.s[s].work = q]
<1>2. dispatchBody(y, s, body) = u
  BY DEF dispatchBody
<1> HIDE DEF v
<1>3. v.s[s] \in Sessions
  BY <1>1, ResOf
<1>4. q \in Seq(Frames)
  BY <1>3 DEF Sessions, Bodies
<1> HIDE DEF q
<1>5. Relayed(u)
  BY <1>1, <1>4, WorkSet
<1>6. QED
  BY <1>2, <1>5

(* What a step of the relay upholds of the authentication; the bodies of   *)
(* other sessions than x have opened them.                                 *)
Upheld(n, s) ==
    /\ Wire(transport, n, s) /\ Pending(transport, n, left.gated)
    /\ RightStays(transport, consumer, n, left.gated) /\ KeepsOpen(transport, consumer, s)
    /\ Authorizes(n, s) /\ BodiesAnswered(n, left.gated)

(* Every session but x is authorized if the POST it writes to the response *)
(* of had the password for it.                                             *)
OthersOpen(n, s, x) ==
    \A j \in Sids : j # x /\ s[j] # None /\ Opens(n[s[j].res].body, left.gated) => s[j].authed

(* All that is true of the state stays true in y.                          *)
Vouched(y) == Relayed(y) /\ (AuthInv => Upheld(y.n, y.s) /\ OthersOpen(y.n, y.s, None))

(* The two halves of Vouched.                                              *)
LEMMA MakeVouched ==
    ASSUME NEW n, NEW s, Relayed([n |-> n, s |-> s]), AuthInv => Upheld(n, s) /\ OthersOpen(n, s, None)
    PROVE  Vouched([n |-> n, s |-> s])
<1>1. QED
  BY DEF Vouched

(* What AuthInv says to a step of the relay.                               *)
LEMMA AuthInvIs ==
    ASSUME AuthInv
    PROVE  /\ Upheld(streams, sessions) /\ OthersOpen(streams, sessions, None)
           /\ Repeats(transport) /\ KeepsRight(transport, consumer, left.gated)
<1>1. World.t = transport /\ World.c = consumer /\ World.n = streams
  BY DEF World
<1>2. /\ Wire(transport, streams, sessions) /\ Pending(transport, streams, left.gated)
      /\ RightStays(transport, consumer, streams, left.gated) /\ Repeats(transport)
      /\ KeepsRight(transport, consumer, left.gated) /\ KeepsOpen(transport, consumer, sessions)
      /\ Authorizes(streams, sessions) /\ BodiesAnswered(streams, left.gated)
      /\ BodiesOpen(streams, sessions, left.gated)
  BY <1>1 DEF AuthInv, Honest, RelayAuth
<1>3. OthersOpen(streams, sessions, None)
  BY <1>2 DEF BodiesOpen, OthersOpen
<1>4. QED
  BY <1>2, <1>3 DEF Upheld

(* And back: what such a step upholds is the authentication of the next    *)
(* state.                                                                  *)
LEMMA UpheldHonest ==
    ASSUME AuthInv, NEW n, NEW s, Upheld(n, s), OthersOpen(n, s, None)
    PROVE  Honest([t |-> transport, c |-> consumer, n |-> n], s, left.gated)
<1> DEFINE v == [t |-> transport, c |-> consumer, n |-> n]
<1>1. v.t = transport /\ v.c = consumer /\ v.n = n
  OBVIOUS
<1> HIDE DEF v
<1>2. BodiesOpen(n, s, left.gated)
  BY TransportAssumption DEF OthersOpen, BodiesOpen
<1>3. Honest(v, s, left.gated)
  BY <1>1, <1>2, AuthInvIs DEF Honest, Upheld, RelayAuth
<1>4. QED
  BY <1>3 DEF v

(* Appending leaves the head of a queue where it is (Sent).                *)
LEMMA HeadStays ==
    ASSUME NEW q \in Seq(Events), NEW e \in Events, q # <<>>
    PROVE  Append(q, e) # <<>> /\ Head(Append(q, e)) = Head(q)
<1> DEFINE S == Events
<1>1. q \in Seq(S) /\ e \in S
  OBVIOUS
<1> HIDE DEF S
<1>2. Len(q) \in Nat \ {0} /\ Append(q, e) \in Seq(S) /\ Len(Append(q, e)) = Len(q) + 1 /\ Append(q, e)[1] = q[1]
  BY <1>1
<1>3. Head(Append(q, e)) = Append(q, e)[1] /\ Head(q) = q[1] /\ Append(q, e) # <<>>
  BY <1>1, <1>2
<1>4. QED
  BY <1>2, <1>3

(* The events of a stream name sessions.                                   *)
LEMMA ToldTyped ==
    ASSUME NEW x \in Connections, NEW e \in Told(x)
    PROVE  e \in Events /\ e.sid \in Sids
<1>1. x.down \in Seq(Events)
  BY DEF Connections
<1>2. PICK i \in DOMAIN x.down : e = x.down[i]
  BY DEF Told
<1>3. e \in Events
  <2> DEFINE S == Events
             q == x.down
  <2>1. q \in Seq(S) /\ i \in DOMAIN q
    BY <1>1, <1>2
  <2> HIDE DEF S, q
  <2>2. q[i] \in S
    BY <2>1
  <2>3. QED
    BY <1>2, <2>2 DEF S, q
<1>4. QED
  BY <1>3 DEF Events

(* A reply or a broadcast is the session's, and answers only what was      *)
(* asked.                                                                  *)
LEMMA SentUpheld ==
    ASSUME NEW y, Relayed(y), Upheld(y.n, y.s), NEW s \in Sids, y.s[s] # None, NEW type \in Replies,
           NEW r, r = y.s[s].res, type = "authenticated" => y.s[s].authed,
           y.n[r].sse /\ left.gated =>
              /\ type = "authenticated" => y.n[r].body.password = "right"
              /\ type = "gated" => y.n[r].body.password # "right",
           type \in Answers /\ Own(y.n, r) /\ ~y.n[r].sse =>
              /\ Awaiting(transport) /\ NoAsk(y.n[r].up) /\ NoAnswer(y.n[r].down)
              /\ type = "authenticated" /\ left.gated => transport.flow.password = "right"
    PROVE  LET v == Sent(y, s, type) IN
           Upheld(v.n, v.s) /\ \A x : OthersOpen(y.n, y.s, x) => OthersOpen(v.n, v.s, x)
<1> DEFINE v == Sent(y, s, type)
           e == Event(type, s, y.s[s].sent + 1)
<1>1. /\ Relayed(v) /\ v.s[s] # None /\ v.s[s].authed = y.s[s].authed /\ v.s[s].res = r
      /\ \A j \in Sids : j # s => v.s[j] = y.s[j]
      /\ \A j \in Streams : j # r => v.n[j] = y.n[j]
      /\ r \in Streams /\ v.n[r] # None /\ Was(v.n[r], y.n[r]) /\ v.n[r].up = y.n[r].up
      /\ e \in Events /\ v.n[r].down = Append(y.n[r].down, e) /\ Told(v.n[r]) = Told(y.n[r]) \union {e}
  <2>1. v = Sent(y, s, type) /\ e = Event(type, s, y.s[s].sent + 1)
    OBVIOUS
  <2>2. type \in Replies /\ s \in Sids
    OBVIOUS
  <2> HIDE DEF v, e
  <2>3. Relayed(v) /\ v.s[s] # None /\ v.s[s].authed = y.s[s].authed /\ v.s[s].res = r
    BY <2>1, <2>2, SentAt
  <2>4. \A j \in Sids : j # s => v.s[j] = y.s[j]
    BY <2>1, <2>2, SentAt
  <2>5. \A j \in Streams : j # r => v.n[j] = y.n[j]
    BY <2>1, <2>2, SentAt
  <2>6. r \in Streams /\ v.n[r] # None /\ Was(v.n[r], y.n[r]) /\ v.n[r].up = y.n[r].up /\ e \in Events
    BY <2>1, <2>2, SentAt
  <2>7. Hears(v.n[r], y.n[r], e)
    BY <2>1, <2>2, SentAt
  <2>8. QED
    BY <2>3, <2>4, <2>5, <2>6, <2>7 DEF Hears
<1>2. y.n[r] # None /\ y.n[r] \in Connections /\ y.n[r].down \in Seq(Events)
  <2>1. y.n[r] # None /\ y.n[r] \in Connections
    BY ResOf
  <2>2. QED
    BY <2>1 DEF Connections
<1>3. e.type = type /\ e.sid = s
  BY DEF Event
<1> HIDE DEF v, e
<1>4. \A j \in Streams : Own(v.n, j) <=> Own(y.n, j)
  BY <1>1, <1>2 DEF Own, Was
<1>5. \A j \in Streams : y.n[j] # None /\ v.n[j] # None => Was(v.n[j], y.n[j]) /\ v.n[j].up = y.n[j].up
  BY <1>1 DEF Was
<1>6. \A j \in Sids : (v.s[j] # None <=> y.s[j] # None)
         /\ (y.s[j] # None => v.s[j].res = y.s[j].res /\ v.s[j].authed = y.s[j].authed)
  BY <1>1
<1>7. Wire(transport, v.n, v.s)
  <2>1. ASSUME NEW m \in Streams, Own(v.n, m), ~v.n[m].sse
        PROVE  /\ v.n[m].at = "asked" => transport.socket.state = "connecting"
               /\ \A i \in Told(v.n[m]) : i.sid = SidOf(transport, v.n[m])
               /\ transport.nonce = None /\ v.n[m].down # <<>> => Head(v.n[m].down).type = "challenge"
               /\ \A x \in Sids : v.s[x] # None /\ v.s[x].res = m => x = SidOf(transport, v.n[m])
    <3>1. /\ Own(y.n, m) /\ ~y.n[m].sse
          /\ y.n[m].at = "asked" => transport.socket.state = "connecting"
          /\ \A i \in Told(y.n[m]) : i.sid = SidOf(transport, y.n[m])
          /\ transport.nonce = None /\ y.n[m].down # <<>> => Head(y.n[m].down).type = "challenge"
          /\ \A x \in Sids : y.s[x] # None /\ y.s[x].res = m => x = SidOf(transport, y.n[m])
      <4>1. Own(y.n, m) /\ ~y.n[m].sse
        BY <1>4, <1>5, <2>1 DEF Own, Was
      <4>2. QED
        BY <4>1 DEF Upheld, Wire
    <3>2. CASE m # r
      <4>1. v.n[m] = y.n[m]
        BY <1>1, <3>2
      <4>2. QED
        BY <1>6, <3>1, <4>1
    <3>3. CASE m = r
      <4>1. s = SidOf(transport, y.n[m])
        BY <3>1, <3>3
      <4>2. transport.nonce = None => y.n[m].down # <<>>
        BY <4>1, NoneIsApart DEF SidOf
      <4>3. y.n[m].down # <<>> => v.n[m].down # <<>> /\ Head(v.n[m].down) = Head(y.n[m].down)
        <5> DEFINE q == y.n[m].down
        <5>1. q \in Seq(Events)
          BY <1>2, <3>3
        <5> HIDE DEF q
        <5>2. q # <<>> => Append(q, e) # <<>> /\ Head(Append(q, e)) = Head(q)
          BY <1>1, <5>1, HeadStays
        <5>3. QED
          BY <1>1, <3>3, <5>2 DEF q
      <4>4. SidOf(transport, v.n[m]) = SidOf(transport, y.n[m])
        BY <4>2, <4>3 DEF SidOf
      <4>5. \A i \in Told(v.n[m]) : i.sid = SidOf(transport, v.n[m])
        BY <1>1, <1>3, <3>1, <3>3, <4>1, <4>4
      <4>6. transport.nonce = None /\ v.n[m].down # <<>> => Head(v.n[m].down).type = "challenge"
        BY <3>1, <4>2, <4>3
      <4>7. \A x \in Sids : v.s[x] # None /\ v.s[x].res = m => x = SidOf(transport, v.n[m])
        BY <1>6, <3>1, <4>4
      <4>8. v.n[m].at = "asked" => transport.socket.state = "connecting"
        BY <1>1, <3>1, <3>3 DEF Was
      <4>9. QED
        BY <4>5, <4>6, <4>7, <4>8
    <3>4. QED
      BY <3>2, <3>3
  <2>2. QED
    BY <2>1 DEF Wire
<1>8. Pending(transport, v.n, left.gated)
  <2>1. ASSUME NEW m \in Streams, Own(v.n, m), ~v.n[m].sse
        PROVE  \/ NoAsk(v.n[m].up) /\ NoAnswer(v.n[m].down)
               \/ Awaiting(transport) /\ OneAsk(v.n[m].up, transport.flow.password) /\ NoAnswer(v.n[m].down)
               \/ Awaiting(transport) /\ NoAsk(v.n[m].up)
                    /\ OneAnswer(v.n[m].down, left.gated => transport.flow.password = "right")
    <3>1. Own(y.n, m) /\ ~y.n[m].sse /\ v.n[m].up = y.n[m].up
      BY <1>4, <1>5, <2>1 DEF Own, Was
    <3>2. \/ NoAsk(y.n[m].up) /\ NoAnswer(y.n[m].down)
          \/ Awaiting(transport) /\ OneAsk(y.n[m].up, transport.flow.password) /\ NoAnswer(y.n[m].down)
          \/ Awaiting(transport) /\ NoAsk(y.n[m].up)
               /\ OneAnswer(y.n[m].down, left.gated => transport.flow.password = "right")
      BY <3>1 DEF Upheld, Pending
    <3>3. CASE m # r
      BY <1>1, <3>1, <3>2, <3>3
    <3>4. CASE m = r
      <4> DEFINE q == y.n[r].down
                 ok == left.gated => transport.flow.password = "right"
      <4>1. v.n[m].down = Append(q, e) /\ q \in Seq(Events)
        BY <1>1, <1>2, <3>4
      <4>2. /\ e.type \notin Answers /\ NoAnswer(q) => NoAnswer(Append(q, e))
            /\ e.type \notin Answers /\ OneAnswer(q, ok) => OneAnswer(Append(q, e), ok)
            /\ NoAnswer(q) /\ (e.type = "authenticated" => ok) => OneAnswer(Append(q, e), ok)
        <5> HIDE DEF q, ok
        <5>1. QED
          BY <1>1, <4>1, AnswerAppends
      <4>3. CASE type \notin Answers
        BY <1>3, <3>1, <3>2, <3>4, <4>1, <4>2, <4>3
      <4>4. CASE type \in Answers
        <5>1. /\ Awaiting(transport) /\ NoAsk(y.n[r].up) /\ NoAnswer(q)
              /\ type = "authenticated" => ok
          BY <3>1, <3>4, <4>4
        <5>2. OneAnswer(v.n[m].down, ok)
          BY <1>3, <4>1, <4>2, <5>1
        <5>3. QED
          BY <3>1, <3>4, <5>1, <5>2
      <4>5. QED
        BY <4>3, <4>4
    <3>5. QED
      BY <3>3, <3>4
  <2>2. QED
    BY <2>1 DEF Pending
<1>9. RightStays(transport, consumer, v.n, left.gated)
  <2>1. \A m \in Streams : Own(y.n, m) => v.n[m].body = y.n[m].body /\ v.n[m].seq = y.n[m].seq
    BY <1>4, <1>5 DEF Own, Was
  <2>2. (\A m \in Streams : Right(v.n, m) <=> Right(y.n, m)) /\ \A k : RightFrom(v.n, k) <=> RightFrom(y.n, k)
    BY <1>4, <2>1 DEF Right, RightFrom
  <2>3. \A m \in Streams : Right(v.n, m) => v.n[m].seq = y.n[m].seq
    BY <2>1, <2>2 DEF Right
  <2>4. QED
    BY <2>2, <2>3 DEF Upheld, RightStays
<1>10. KeepsOpen(transport, consumer, v.s)
  <2>1. consumer.up # None => consumer.up \in Sids
    BY DEF Relayed, WorldInv, Consumers, Nonces
  <2>2. QED
    BY <1>6, <2>1 DEF Upheld, KeepsOpen
<1>11. Authorizes(v.n, v.s)
  <2>1. ASSUME NEW m \in Streams, v.n[m] # None, NEW i \in Told(v.n[m]), i.type = "authenticated", v.s[i.sid] # None
        PROVE  v.s[i.sid].authed
    <3>1. v.n[m] \in Connections
      BY <1>1, <2>1 DEF Relayed, WorldInv, Wires
    <3>2. i.sid \in Sids
      BY <2>1, <3>1, ToldTyped
    <3>3. CASE i \in Told(y.n[m]) /\ y.n[m] # None
      BY <1>6, <2>1, <3>2, <3>3 DEF Upheld, Authorizes
    <3>4. CASE i = e
      BY <1>1, <1>3, <2>1, <3>4
    <3>5. QED
      BY <1>1, <1>2, <2>1, <3>3, <3>4
  <2>2. QED
    BY <2>1 DEF Authorizes
<1>12. BodiesAnswered(v.n, left.gated)
  <2>1. ASSUME left.gated, NEW m \in Streams, v.n[m] # None, v.n[m].sse, NEW i \in Told(v.n[m])
        PROVE  /\ i.type = "authenticated" => v.n[m].body.password = "right"
               /\ i.type = "gated" => v.n[m].body.password # "right"
    <3>1. y.n[m] # None /\ y.n[m].sse /\ v.n[m].body = y.n[m].body
      BY <1>1, <1>2, <1>5, <2>1 DEF Was
    <3>2. CASE i \in Told(y.n[m])
      BY <2>1, <3>1, <3>2 DEF Upheld, BodiesAnswered
    <3>3. CASE i = e /\ m = r
      BY <1>3, <2>1, <3>1, <3>3
    <3>4. QED
      BY <1>1, <2>1, <3>2, <3>3
  <2>2. QED
    BY <2>1 DEF BodiesAnswered
<1>13. ASSUME NEW x, OthersOpen(y.n, y.s, x)
       PROVE  OthersOpen(v.n, v.s, x)
  <2>1. ASSUME NEW j \in Sids, j # x, v.s[j] # None, Opens(v.n[v.s[j].res].body, left.gated)
        PROVE  v.s[j].authed
    <3>1. y.s[j] # None /\ v.s[j].res = y.s[j].res /\ v.s[j].authed = y.s[j].authed
      BY <1>6, <2>1
    <3>2. y.s[j].res \in Streams /\ y.n[y.s[j].res] # None
      BY <3>1, ResOf
    <3>3. v.n[v.s[j].res].body = y.n[y.s[j].res].body
      <4> DEFINE k == y.s[j].res
      <4>1. k \in Streams /\ v.s[j].res = k
        BY <3>1, <3>2
      <4> HIDE DEF k
      <4>2. k = r => v.n[k].body = y.n[k].body
        BY <1>1 DEF Was
      <4>3. k # r => v.n[k] = y.n[k]
        BY <1>1, <4>1
      <4>4. v.n[k].body = y.n[k].body
        BY <4>2, <4>3
      <4>5. v.n[v.s[j].res].body = y.n[k].body
        BY <4>1, <4>4
      <4>6. QED
        BY <4>5 DEF k
    <3>4. QED
      BY <1>13, <2>1, <3>1, <3>3 DEF OthersOpen
  <2>2. QED
    BY <2>1 DEF OthersOpen
<1>14. Upheld(v.n, v.s)
  BY <1>7, <1>8, <1>9, <1>10, <1>11, <1>12 DEF Upheld
<1>15. QED
  BY <1>13, <1>14 DEF v

(* A session is authorized, or has other work to do.                       *)
LEMMA SessionUpheld ==
    ASSUME NEW y, Relayed(y), Upheld(y.n, y.s), NEW s \in Sids, y.s[s] # None, NEW z \in Sessions,
           z.res = y.s[s].res, y.s[s].authed => z.authed, NEW v, v = [n |-> y.n, s |-> [y.s EXCEPT ![s] = z]]
    PROVE  Upheld(v.n, v.s) /\ \A x : OthersOpen(y.n, y.s, x) => OthersOpen(v.n, v.s, x)
<1>1. v.n = y.n /\ v.s = [y.s EXCEPT ![s] = z] /\ y.s \in [Sids -> Sessions \union {None}]
  BY DEF Relayed
<1>2. v.s[s] = z /\ z # None /\ \A j \in Sids : j # s => v.s[j] = y.s[j]
  BY <1>1, NoneIsApart
<1>3. \A j \in Sids : (v.s[j] # None <=> y.s[j] # None)
         /\ (y.s[j] # None => v.s[j].res = y.s[j].res /\ (y.s[j].authed => v.s[j].authed))
  BY <1>2
<1>4. Wire(transport, v.n, v.s)
  BY <1>1, <1>3 DEF Upheld, Wire
<1>5. KeepsOpen(transport, consumer, v.s)
  <2>1. consumer.up # None => consumer.up \in Sids
    BY DEF Relayed, WorldInv, Consumers, Nonces
  <2>2. QED
    BY <1>3, <2>1 DEF Upheld, KeepsOpen
<1>6. Authorizes(v.n, v.s)
  <2>1. \A m \in Streams : y.n[m] # None => \A e \in Told(y.n[m]) : e.sid \in Sids
    BY ToldTyped DEF Relayed, WorldInv, Wires
  <2>2. QED
    BY <1>1, <1>3, <2>1 DEF Upheld, Authorizes
<1>7. Upheld(v.n, v.s)
  BY <1>1, <1>4, <1>5, <1>6 DEF Upheld
<1>8. ASSUME NEW x, OthersOpen(y.n, y.s, x) PROVE OthersOpen(v.n, v.s, x)
  BY <1>1, <1>3, <1>8 DEF OthersOpen
<1>9. QED
  BY <1>7, <1>8

(* A session answers a password it got on the WebSocket from the flow that *)
(* awaits the answer, or in the body of the POST it writes to              *)
(* (handleAuthenticate).                                                   *)
LEMMA AuthenticateUpheld ==
    ASSUME NEW y, Relayed(y), Upheld(y.n, y.s), NEW s \in Sids, y.s[s] # None, NEW p \in Passwords,
           NEW r, r = y.s[s].res, OthersOpen(y.n, y.s, s), y.n[r].sse => y.n[r].body.password = p,
           Own(y.n, r) /\ ~y.n[r].sse =>
              Awaiting(transport) /\ NoAsk(y.n[r].up) /\ NoAnswer(y.n[r].down) /\ transport.flow.password = p
    PROVE  LET v == handleAuthenticate(y, s, p) IN Upheld(v.n, v.s) /\ OthersOpen(v.n, v.s, None)
<1>1. "auth-failed" \in Replies /\ "authenticated" \in Replies
  BY DEF Replies
<1>2. /\ y.s[s] \in Sessions /\ r \in Streams /\ y.n[r] # None /\ Shape(y.n[r])
  BY ResOf
<1>3. ~y.n[r].sse => y.n[r].body.password = None
  <2>1. NoBody.password = None
    BY DEF NoBody
  <2>2. ~y.n[r].sse => y.n[r].body = NoBody
    BY <1>2 DEF Shape
  <2>3. QED
    BY <2>1, <2>2
<1>4. p # None /\ (p # "wrong" => p = "right")
  BY TransportAssumption DEF Passwords
<1>5. CASE y.s[s].authed
  <2>1. OthersOpen(y.n, y.s, None)
    BY <1>5 DEF OthersOpen
  <2>2. QED
    BY <1>5, <2>1 DEF handleAuthenticate
<1>6. CASE ~y.s[s].authed /\ left.gated /\ p = "wrong"
  <2>1. OthersOpen(y.n, y.s, None)
    BY <1>3, <1>6 DEF OthersOpen, Opens
  <2> DEFINE v == Sent(y, s, "auth-failed")
  <2>2. Upheld(v.n, v.s) /\ OthersOpen(v.n, v.s, None)
    <3>1. "auth-failed" # "authenticated" /\ "auth-failed" # "gated"
      OBVIOUS
    <3>2. QED
      BY <1>1, <2>1, <3>1, SentUpheld
  <2>3. handleAuthenticate(y, s, p) = v
    BY <1>6 DEF handleAuthenticate
  <2> HIDE DEF v
  <2>4. QED
    BY <2>2, <2>3
<1>7. CASE ~y.s[s].authed /\ ~(left.gated /\ p = "wrong")
  <2> DEFINE yes == TRUE
             u == [y EXCEPT !.s[s].authed = yes]
             z == [y.s[s] EXCEPT !.authed = yes]
             v == Sent(u, s, "authenticated")
  <2>1. handleAuthenticate(y, s, p) = v
    BY <1>7 DEF handleAuthenticate
  <2>2. yes \in BOOLEAN /\ yes
    OBVIOUS
  <2>3. z \in Sessions /\ z.res = r /\ z.authed /\ z # None
    BY <1>2, NoneIsApart DEF Sessions
  <2> HIDE DEF yes
  <2>4. Relayed(u) /\ u.s[s] # None /\ u = [n |-> y.n, s |-> [y.s EXCEPT ![s] = z]]
    BY <2>2, AuthedSet
  <2> HIDE DEF u, z, v
  <2>5. Upheld(u.n, u.s) /\ OthersOpen(u.n, u.s, s)
    BY <2>3, <2>4, SessionUpheld
  <2>6. u.s[s] = z /\ u.n = y.n
    BY <2>4 DEF Relayed
  <2>7. OthersOpen(u.n, u.s, None)
    BY <2>3, <2>5, <2>6 DEF OthersOpen
  <2>8. /\ y.n[r].sse /\ left.gated => y.n[r].body.password = "right"
        /\ "authenticated" # "gated" /\ (left.gated => p = "right")
    BY <1>4, <1>7
  <2>9. Upheld(v.n, v.s) /\ OthersOpen(v.n, v.s, None)
    <3>1. /\ u.s[s].authed /\ r = u.s[s].res
          /\ u.n[r].sse /\ left.gated => u.n[r].body.password = "right"
          /\ Own(u.n, r) /\ ~u.n[r].sse =>
                /\ Awaiting(transport) /\ NoAsk(u.n[r].up) /\ NoAnswer(u.n[r].down)
                /\ left.gated => transport.flow.password = "right"
      BY <2>3, <2>6, <2>8
    <3>2. Upheld(Sent(u, s, "authenticated").n, Sent(u, s, "authenticated").s)
          /\ \A x : OthersOpen(u.n, u.s, x) =>
                OthersOpen(Sent(u, s, "authenticated").n, Sent(u, s, "authenticated").s, x)
      BY <1>1, <2>4, <2>5, <2>8, <3>1, SentUpheld
    <3>3. QED
      BY <2>7, <3>2 DEF v
  <2>10. QED
    BY <2>1, <2>9
<1>8. QED
  BY <1>5, <1>6, <1>7

(* The same for a frame of a WebSocket (Dispatch).                         *)
LEMMA DispatchFrameUpheld ==
    ASSUME NEW y, Relayed(y), Upheld(y.n, y.s), OthersOpen(y.n, y.s, None),
           NEW s \in Sids, y.s[s] # None, NEW frame \in Frames, NEW r, r = y.s[s].res, ~y.n[r].sse,
           Own(y.n, r) /\ frame.password # None =>
              /\ Awaiting(transport) /\ NoAsk(y.n[r].up) /\ NoAnswer(y.n[r].down)
              /\ transport.flow.password = frame.password
    PROVE  Upheld(Dispatch(y, s, frame).n, Dispatch(y, s, frame).s)
           /\ OthersOpen(Dispatch(y, s, frame).n, Dispatch(y, s, frame).s, None)
<1>1. CASE frame.password # None
  <2>1. frame.password \in Passwords
    BY <1>1 DEF Frames, Words
  <2>2. OthersOpen(y.n, y.s, s)
    BY NoneIsApart DEF OthersOpen
  <2> DEFINE p == frame.password
             v == handleAuthenticate(y, s, p)
  <2>3. p \in Passwords /\ (Own(y.n, r) /\ ~y.n[r].sse =>
           Awaiting(transport) /\ NoAsk(y.n[r].up) /\ NoAnswer(y.n[r].down) /\ transport.flow.password = p)
    BY <1>1, <2>1
  <2>4. v = Dispatch(y, s, frame)
    BY <1>1 DEF Dispatch
  <2> HIDE DEF p
  <2>5. Upheld(v.n, v.s) /\ OthersOpen(v.n, v.s, None)
    BY <2>2, <2>3, AuthenticateUpheld
  <2>6. QED
    BY <2>4, <2>5
<1>2. CASE frame.password = None
  <2> DEFINE q == Append(y.s[s].work, frame)
             v == [y EXCEPT !.s[s].work = q]
             z == [y.s[s] EXCEPT !.work = q]
  <2>1. y.s[s] \in Sessions
    BY ResOf
  <2>2. q \in Seq(Frames)
    BY <2>1 DEF Sessions
  <2>3. Dispatch(y, s, frame) = v
    BY <1>2 DEF Dispatch
  <2> HIDE DEF q
  <2>4. v = [n |-> y.n, s |-> [y.s EXCEPT ![s] = z]]
    BY <2>2, WorkSet
  <2>5. z \in Sessions /\ z.res = y.s[s].res /\ z.authed = y.s[s].authed
    BY <2>1, <2>2 DEF Sessions
  <2> HIDE DEF v, z
  <2>6. Upheld(v.n, v.s) /\ OthersOpen(v.n, v.s, None)
    BY <2>4, <2>5, SessionUpheld
  <2>7. QED
    BY <2>3, <2>6
<1>3. QED
  BY <1>1, <1>2

(* The same for the body of a POST, after which the session is authorized  *)
(* if the body says so (dispatchBody).                                     *)
LEMMA DispatchBodyUpheld ==
    ASSUME NEW y, Relayed(y), Upheld(y.n, y.s), NEW s \in Sids, y.s[s] # None, NEW body \in Bodies,
           NEW r, r = y.s[s].res, y.n[r].sse, y.n[r].body = body, OthersOpen(y.n, y.s, s)
    PROVE  Upheld(dispatchBody(y, s, body).n, dispatchBody(y, s, body).s)
           /\ OthersOpen(dispatchBody(y, s, body).n, dispatchBody(y, s, body).s, None)
<1> DEFINE v == IF body.password = None THEN y ELSE handleAuthenticate(y, s, body.password)
           q == v.s[s].work \o body.frames
           u == [v EXCEPT !.s[s].work = q]
           z == [v.s[s] EXCEPT !.work = q]
<1>1. Relayed(v) /\ v.s[s] # None
  BY AuthenticateSound
<1>2. dispatchBody(y, s, body) = u
  BY DEF dispatchBody
<1>3. Upheld(v.n, v.s) /\ OthersOpen(v.n, v.s, None)
  <2>1. CASE body.password = None
    <3>1. OthersOpen(y.n, y.s, None)
      BY <2>1 DEF OthersOpen, Opens
    <3>2. QED
      BY <2>1, <3>1
  <2>2. CASE body.password # None
    <3> DEFINE p == body.password
               w == handleAuthenticate(y, s, p)
    <3>1. p \in Passwords /\ y.n[r].body.password = p
      BY <2>2 DEF Bodies, Words
    <3>2. v = w
      BY <2>2
    <3> HIDE DEF p
    <3>3. Upheld(w.n, w.s) /\ OthersOpen(w.n, w.s, None)
      BY <3>1, AuthenticateUpheld
    <3> HIDE DEF v
    <3>4. QED
      BY <3>2, <3>3
  <2>3. QED
    BY <2>1, <2>2
<1> HIDE DEF v
<1>4. v.s[s] \in Sessions
  BY <1>1, ResOf
<1>5. q \in Seq(Frames)
  BY <1>4 DEF Sessions, Bodies
<1> HIDE DEF q
<1>6. u = [n |-> v.n, s |-> [v.s EXCEPT ![s] = z]]
  BY <1>1, <1>5, WorkSet
<1>7. z \in Sessions /\ z.res = v.s[s].res /\ z.authed = v.s[s].authed
  BY <1>4, <1>5 DEF Sessions
<1> HIDE DEF u, z
<1>8. Upheld(u.n, u.s) /\ OthersOpen(u.n, u.s, None)
  BY <1>1, <1>3, <1>6, <1>7, SessionUpheld
<1>9. QED
  BY <1>2, <1>8

(* A step of the relay to such streams and sessions keeps the invariant.   *)
LEMMA RelayTyped ==
    ASSUME TypeInv, NEW y, Vouched(y), RelayBecomes(y), transport' = transport, consumer' = consumer, LeftType',
           left'.gated = left.gated
    PROVE  TypeInv' /\ (AuthInv => AuthInv')
<1>1. streams' = y.n /\ sessions' = y.s /\ Relayed(y)
  BY DEF RelayBecomes, Vouched
<1>2. WorldInv(transport, consumer, streams)' /\ Served(streams, sessions)'
  BY <1>1 DEF Relayed, WorldInv, Served, NonceHeld, Reconnects, MayOpen, Numbered, OwnsItsOwn, Own, Shapes, FlowHeld, Awaiting
<1>3. sessions' \in [Sids -> Sessions \union {None}]
  BY <1>1 DEF Relayed
<1>4. TypeInv'
  BY <1>2, <1>3 DEF TypeInv
<1>5. ASSUME AuthInv PROVE AuthInv'
  <2> DEFINE v == [t |-> transport, c |-> consumer, n |-> y.n]
  <2>1. Honest(v, y.s, left.gated)
    BY <1>5, UpheldHonest DEF Vouched
  <2>2. v.t = transport /\ v.c = consumer /\ v.n = y.n
    OBVIOUS
  <2> HIDE DEF v
  <2>3. Honest(v, sessions', left'.gated) /\ transport' = v.t /\ consumer' = v.c /\ streams' = v.n
    BY <1>1, <2>1, <2>2
  <2>4. QED
    BY <2>3, HonestPrimed
<1>6. QED
  BY <1>4, <1>5

(* To the client a stream is as it was, or closes.                         *)
Leaves(x, y) ==
    /\ x.mine = y.mine /\ x.sse = y.sse /\ x.seq = y.seq /\ x.body = y.body
    /\ ~x.sse => x.at = y.at /\ x.up = y.up /\ x.down = y.down
    /\ \A e \in Told(x) : e \in Told(y) \/ e.type = "close"

(* A step of the relay that ends streams and sessions, and lets one        *)
(* session o take over an SSE response, upholds the authentication, of o   *)
(* up to the body it has yet to read.                                      *)
LEMMA LeavesUpheld ==
    ASSUME TypeInv, AuthInv, NEW k \in Wires, NEW a \in [Sids -> Sessions \union {None}], NEW o,
           \A j \in Streams : k[j] # None => streams[j] # None /\ Leaves(k[j], streams[j]),
           Served(k, a),
           \A j \in Sids : a[j] # None =>
              /\ sessions[j] # None /\ a[j].authed = sessions[j].authed
              /\ a[j].res = sessions[j].res \/ (j = o /\ streams[a[j].res].sse)
    PROVE  Upheld(k, a) /\ OthersOpen(k, a, o)
<1>1. /\ Upheld(streams, sessions) /\ OthersOpen(streams, sessions, None) /\ streams \in Wires
  BY AuthInvIs, WorldSound
<1>2. \A j \in Streams : Own(k, j) => Own(streams, j) /\ k[j].body = streams[j].body /\ k[j].seq = streams[j].seq
  BY DEF Own, Leaves
<1>3. \A j \in Sids : a[j] # None => a[j].res \in Streams /\ k[a[j].res] # None
  BY DEF Served, Sessions
<1>4. Wire(transport, k, a)
  <2>1. ASSUME NEW m \in Streams, Own(k, m), ~k[m].sse
        PROVE  /\ k[m].at = "asked" => transport.socket.state = "connecting"
               /\ \A e \in Told(k[m]) : e.sid = SidOf(transport, k[m])
               /\ transport.nonce = None /\ k[m].down # <<>> => Head(k[m].down).type = "challenge"
               /\ \A x \in Sids : a[x] # None /\ a[x].res = m => x = SidOf(transport, k[m])
    <3>1. Own(streams, m) /\ ~streams[m].sse /\ k[m].at = streams[m].at /\ k[m].down = streams[m].down
      BY <1>2, <2>1 DEF Own, Leaves
    <3>2. SidOf(transport, k[m]) = SidOf(transport, streams[m]) /\ Told(k[m]) = Told(streams[m])
      BY <3>1 DEF SidOf, Told
    <3>3. /\ streams[m].at = "asked" => transport.socket.state = "connecting"
          /\ \A e \in Told(streams[m]) : e.sid = SidOf(transport, streams[m])
          /\ transport.nonce = None /\ streams[m].down # <<>> => Head(streams[m].down).type = "challenge"
          /\ \A x \in Sids : sessions[x] # None /\ sessions[x].res = m => x = SidOf(transport, streams[m])
      BY <1>1, <3>1 DEF Upheld, Wire
    <3>4. \A x \in Sids : a[x] # None /\ a[x].res = m => sessions[x] # None /\ sessions[x].res = m
      BY <3>1
    <3>5. QED
      BY <3>1, <3>2, <3>3, <3>4
  <2>2. QED
    BY <2>1 DEF Wire
<1>5. Pending(transport, k, left.gated)
  <2>1. \A m \in Streams : Own(k, m) /\ ~k[m].sse =>
           Own(streams, m) /\ ~streams[m].sse /\ k[m].up = streams[m].up /\ k[m].down = streams[m].down
    BY <1>2 DEF Own, Leaves
  <2>2. QED
    BY <1>1, <2>1 DEF Upheld, Pending
<1>6. RightStays(transport, consumer, k, left.gated)
  <2>1. (\A m \in Streams : Right(k, m) => Right(streams, m) /\ k[m].seq = streams[m].seq)
        /\ \A i : RightFrom(streams, i) => RightFrom(k, i)
    BY <1>2 DEF Right, RightFrom
  <2>2. QED
    BY <1>1, <2>1 DEF Upheld, RightStays
<1>7. KeepsOpen(transport, consumer, a)
  <2>1. consumer.up # None => consumer.up \in Sids
    BY DEF TypeInv, WorldInv, Consumers, Nonces
  <2>2. QED
    BY <1>1, <2>1 DEF Upheld, KeepsOpen
<1>8. Authorizes(k, a)
  <2>1. ASSUME NEW m \in Streams, k[m] # None, NEW e \in Told(k[m]), e.type = "authenticated", a[e.sid] # None
        PROVE  a[e.sid].authed
    <3>1. k[m] \in Connections
      BY <2>1 DEF Wires
    <3>2. e.sid \in Sids
      BY <2>1, <3>1, ToldTyped
    <3>3. streams[m] # None /\ e \in Told(streams[m])
      BY <2>1 DEF Leaves
    <3>4. sessions[e.sid] # None /\ a[e.sid].authed = sessions[e.sid].authed
      BY <2>1, <3>2
    <3>5. QED
      BY <1>1, <2>1, <3>3, <3>4 DEF Upheld, Authorizes
  <2>2. QED
    BY <2>1 DEF Authorizes
<1>9. BodiesAnswered(k, left.gated)
  BY <1>1 DEF Upheld, BodiesAnswered, Leaves
<1>10. OthersOpen(k, a, o)
  <2>1. ASSUME NEW j \in Sids, j # o, a[j] # None, Opens(k[a[j].res].body, left.gated)
        PROVE  a[j].authed
    <3>1. a[j].res = sessions[j].res /\ sessions[j] # None /\ a[j].authed = sessions[j].authed
      BY <2>1
    <3>2. k[a[j].res].body = streams[sessions[j].res].body
      BY <1>3, <2>1, <3>1 DEF Leaves
    <3>3. QED
      BY <1>1, <2>1, <3>1, <3>2, NoneIsApart DEF OthersOpen
  <2>2. QED
    BY <2>1 DEF OthersOpen
<1>11. QED
  BY <1>4, <1>5, <1>6, <1>7, <1>8, <1>9, <1>10 DEF Upheld

(* A stream that is asked is no session's yet.                             *)
LEMMA AskedIsNobodys ==
    ASSUME TypeInv, NEW m \in Streams, streams[m] # None, streams[m].at = "asked"
    PROVE  \A x \in Sids : sessions[x] # None => sessions[x].res # m
<1>1. QED
  BY DEF TypeInv, Served

(* A new session has a name that nobody holds.                             *)
LEMMA FreshSid ==
    ASSUME TypeInv, NEW s \in FreeSids
    PROVE  /\ s \in Sids /\ sessions[s] = None /\ s # consumer.up
           /\ \A j \in Streams : streams[j] # None => \A e \in Told(streams[j]) : e.sid # s
<1>1. s \in Sids /\ sessions[s] = None /\ s \notin Named
  BY DEF FreeSids
<1>2. consumer.up \in Named
  BY DEF Named
<1>3. ASSUME NEW j \in Streams, streams[j] # None, NEW e \in Told(streams[j])
      PROVE  e.sid \in Named
  <2>1. PICK i \in DOMAIN streams[j].down : e = streams[j].down[i]
    BY <1>3 DEF Told
  <2>2. streams[j] \in {streams[m] : m \in Streams} \ {None}
    BY <1>3
  <2> DEFINE D(x) == {x.body.id} \union NonceOf(x.body.frames) \union NonceOf(x.up)
                     \union {x.down[n].sid : n \in DOMAIN x.down}
             C == {streams[m] : m \in Streams} \ {None}
  <2>3. e.sid \in D(streams[j])
    BY <2>1
  <2> HIDE DEF D
  <2>4. e.sid \in UNION {D(x) : x \in C}
    BY <2>2, <2>3
  <2>5. UNION {D(x) : x \in C} \subseteq Named
    BY DEF Named, D
  <2>6. QED
    BY <2>4, <2>5
<1>4. QED
  BY <1>1, <1>2, <1>3

(* So does one that takes a stream and gives it a session of a new name    *)
(* (AcceptUpgrade, createSession).                                         *)
LEMMA JoinsUpheld ==
    ASSUME TypeInv, AuthInv, NEW m \in Streams, streams[m] # None, streams[m].at = "asked",
           NEW x \in Connections, x.mine = streams[m].mine, x.sse = streams[m].sse, x.seq = streams[m].seq,
           x.body = streams[m].body, x.at # "asked", \A e \in Told(x) : e.type \in {"session", "challenge"},
           NEW s \in FreeSids, NEW z \in Sessions, z.res = m,
           ~x.sse => /\ x.up = streams[m].up /\ x.down # <<>> /\ Head(x.down).type = "challenge"
                     /\ Head(x.down).sid = s /\ \A e \in Told(x) : e.sid = s
    PROVE  LET k == [streams EXCEPT ![m] = x]
               a == [sessions EXCEPT ![s] = z]
           IN  Upheld(k, a) /\ OthersOpen(k, a, s)
<1> DEFINE k == [streams EXCEPT ![m] = x]
           a == [sessions EXCEPT ![s] = z]
<1>1. /\ Upheld(streams, sessions) /\ OthersOpen(streams, sessions, None) /\ streams \in Wires
      /\ sessions \in [Sids -> Sessions \union {None}]
  BY AuthInvIs, WorldSound
<1>2. /\ s \in Sids /\ sessions[s] = None /\ s # consumer.up
      /\ \A j \in Streams : streams[j] # None => \A e \in Told(streams[j]) : e.sid # s
  BY FreshSid
<1>3. k \in Wires /\ k[m] = x /\ x # None /\ \A j \in Streams : j # m => k[j] = streams[j]
  BY <1>1, NoneIsApart DEF Wires
<1>4. a[s] = z /\ z # None /\ \A j \in Sids : j # s => a[j] = sessions[j]
  BY <1>1, <1>2, NoneIsApart
<1>5. \A j \in Sids : sessions[j] # None => sessions[j].res # m /\ sessions[j].res \in Streams
  BY <1>1, AskedIsNobodys DEF Sessions
<1> HIDE DEF k, a
<1>6. \A j \in Streams : (Own(k, j) <=> Own(streams, j)) /\ (Own(streams, j) =>
         k[j].body = streams[j].body /\ k[j].seq = streams[j].seq /\ k[j].sse = streams[j].sse)
  BY <1>3 DEF Own
<1>7. Wire(transport, k, a)
  <2>1. ASSUME NEW i \in Streams, Own(k, i), ~k[i].sse
        PROVE  /\ k[i].at = "asked" => transport.socket.state = "connecting"
               /\ \A e \in Told(k[i]) : e.sid = SidOf(transport, k[i])
               /\ transport.nonce = None /\ k[i].down # <<>> => Head(k[i].down).type = "challenge"
               /\ \A j \in Sids : a[j] # None /\ a[j].res = i => j = SidOf(transport, k[i])
    <3>1. Own(streams, i) /\ ~streams[i].sse
      BY <1>6, <2>1
    <3>2. CASE i # m
      <4>1. k[i] = streams[i]
        BY <1>3, <3>2
      <4>2. \A j \in Sids : a[j] # None /\ a[j].res = i => sessions[j] # None /\ sessions[j].res = i
        BY <1>4, <3>2
      <4>3. QED
        BY <1>1, <3>1, <4>1, <4>2 DEF Upheld, Wire
    <3>3. CASE i = m
      <4>1. transport.socket.state = "connecting"
        BY <1>1, <3>1, <3>3 DEF Upheld, Wire
      <4>2. transport.nonce = None
        BY <4>1 DEF TypeInv, WorldInv, NonceHeld
      <4>3. k[i] = x /\ ~x.sse
        BY <1>3, <2>1, <3>3
      <4>4. SidOf(transport, k[i]) = s
        BY <4>2, <4>3 DEF SidOf
      <4>5. \A j \in Sids : a[j] # None /\ a[j].res = i => j = s
        BY <1>4, <1>5, <3>3
      <4>6. QED
        BY <4>3, <4>4, <4>5
    <3>4. QED
      BY <3>2, <3>3
  <2>2. QED
    BY <2>1 DEF Wire
<1>8. Pending(transport, k, left.gated)
  <2>1. ASSUME NEW i \in Streams, Own(k, i), ~k[i].sse
        PROVE  \/ NoAsk(k[i].up) /\ NoAnswer(k[i].down)
               \/ Awaiting(transport) /\ OneAsk(k[i].up, transport.flow.password) /\ NoAnswer(k[i].down)
               \/ Awaiting(transport) /\ NoAsk(k[i].up)
                    /\ OneAnswer(k[i].down, left.gated => transport.flow.password = "right")
    <3>1. Own(streams, i) /\ ~streams[i].sse
      BY <1>6, <2>1
    <3>2. \/ NoAsk(streams[i].up) /\ NoAnswer(streams[i].down)
          \/ Awaiting(transport) /\ OneAsk(streams[i].up, transport.flow.password) /\ NoAnswer(streams[i].down)
          \/ Awaiting(transport) /\ NoAsk(streams[i].up)
               /\ OneAnswer(streams[i].down, left.gated => transport.flow.password = "right")
      BY <1>1, <3>1 DEF Upheld, Pending
    <3>3. CASE i # m
      BY <1>3, <3>2, <3>3
    <3>4. CASE i = m
      <4>1. k[i] = x /\ ~x.sse /\ x.up = streams[i].up
        BY <1>3, <2>1, <3>4
      <4>2. NoAnswer(x.down)
        BY DEF NoAnswer, Told, Answers
      <4>3. QED
        BY <3>2, <4>1, <4>2
    <3>5. QED
      BY <3>3, <3>4
  <2>2. QED
    BY <2>1 DEF Pending
<1>9. RightStays(transport, consumer, k, left.gated)
  <2>1. (\A j \in Streams : Right(k, j) <=> Right(streams, j)) /\ \A i : RightFrom(k, i) <=> RightFrom(streams, i)
    BY <1>6 DEF Right, RightFrom
  <2>2. \A j \in Streams : Right(k, j) => k[j].seq = streams[j].seq
    BY <1>6, <2>1 DEF Right
  <2>3. QED
    BY <1>1, <2>1, <2>2 DEF Upheld, RightStays
<1>10. KeepsOpen(transport, consumer, a)
  <2>1. consumer.up # None => consumer.up \in Sids
    BY DEF TypeInv, WorldInv, Consumers, Nonces
  <2>2. QED
    BY <1>1, <1>2, <1>4, <2>1 DEF Upheld, KeepsOpen
<1>11. Authorizes(k, a)
  <2>1. ASSUME NEW i \in Streams, k[i] # None, NEW e \in Told(k[i]), e.type = "authenticated", a[e.sid] # None
        PROVE  a[e.sid].authed
    <3>1. i # m
      BY <1>3, <2>1
    <3>2. k[i] = streams[i] /\ streams[i] \in Connections /\ streams[i] # None
      BY <1>1, <1>3, <2>1, <3>1 DEF Wires
    <3>3. e.sid \in Sids /\ e.sid # s
      BY <1>2, <2>1, <3>2, ToldTyped
    <3>4. QED
      BY <1>1, <1>4, <2>1, <3>2, <3>3 DEF Upheld, Authorizes
  <2>2. QED
    BY <2>1 DEF Authorizes
<1>12. BodiesAnswered(k, left.gated)
  <2>1. ASSUME left.gated, NEW i \in Streams, k[i] # None, k[i].sse, NEW e \in Told(k[i])
        PROVE  /\ e.type = "authenticated" => k[i].body.password = "right"
               /\ e.type = "gated" => k[i].body.password # "right"
    <3>1. CASE i # m
      BY <1>1, <1>3, <2>1, <3>1 DEF Upheld, BodiesAnswered
    <3>2. CASE i = m
      BY <1>3, <2>1, <3>2
    <3>3. QED
      BY <3>1, <3>2
  <2>2. QED
    BY <2>1 DEF BodiesAnswered
<1>13. OthersOpen(k, a, s)
  <2>1. ASSUME NEW j \in Sids, j # s, a[j] # None, Opens(k[a[j].res].body, left.gated)
        PROVE  a[j].authed
    <3>1. a[j] = sessions[j] /\ k[a[j].res] = streams[sessions[j].res]
      BY <1>3, <1>4, <1>5, <2>1
    <3>2. QED
      BY <1>1, <2>1, <3>1, NoneIsApart DEF OthersOpen
  <2>2. QED
    BY <2>1 DEF OthersOpen
<1>14. QED
  BY <1>7, <1>8, <1>9, <1>10, <1>11, <1>12, <1>13 DEF Upheld, k, a

(* A stream the relay is done with (RelayNotices).                         *)
LEMMA OverHolds ==
    ASSUME NEW x \in Connections, LooseShape(x), NEW b \in BOOLEAN, x.sse /\ x.at = "asked" => x.cut \/ x.gone
    PROVE  LET y == [x EXCEPT !.over = b] IN
           /\ y \in Connections /\ LooseShape(y) /\ y.mine = x.mine /\ y.sse = x.sse /\ y.seq = x.seq
           /\ y.gone = x.gone /\ y.over = b /\ y.at = x.at /\ y.down = x.down /\ y.up = x.up /\ y.body = x.body
           /\ Leaves(y, x)
<1> DEFINE y == [x EXCEPT !.over = b]
<1>1. y \in Connections /\ y.mine = x.mine /\ y.sse = x.sse /\ y.seq = x.seq
      /\ y.over = b /\ y.at = x.at /\ y.down = x.down /\ y.up = x.up /\ y.body = x.body
      /\ y.closing = x.closing /\ y.cut = x.cut /\ y.gone = x.gone
  BY DEF Connections
<1> HIDE DEF y
<1>2. LooseShape(y)
  BY <1>1 DEF LooseShape, Told
<1>3. Leaves(y, x)
  BY <1>1 DEF Leaves, Told
<1>4. QED
  BY <1>1, <1>2, <1>3 DEF y

(* A session may come to write to a stream the relay has just taken, if it *)
(* leaves no other without a response.                                     *)
LEMMA SessionJoins ==
    ASSUME TypeInv, NEW m \in Streams, streams[m] # None, streams[m].at = "asked", ~streams[m].over,
           NEW x \in Connections, Shape(x), x.mine = streams[m].mine, x.sse = streams[m].sse,
           x.seq = streams[m].seq, x.gone = streams[m].gone, x.over = streams[m].over,
           x.at \in {"served", "open"}, NEW s \in Sids, sessions[s] = None, NEW z \in Sessions, z.res = m
    PROVE  Relayed([n |-> [streams EXCEPT ![m] = x], s |-> [sessions EXCEPT ![s] = z]])
<1> DEFINE k == [streams EXCEPT ![m] = x]
           a == [sessions EXCEPT ![s] = z]
<1>1. Relayed(Relay) /\ Relay.n = streams /\ Relay.s = sessions
  BY RelayIsRelayed
<1>2. Relayed([n |-> k, s |-> sessions])
  <2>1. Relayed([n |-> [Relay.n EXCEPT ![m] = x], s |-> Relay.s])
    BY <1>1, StreamSet
  <2>2. QED
    BY <1>1, <2>1
<1>3. streams \in Wires /\ sessions \in [Sids -> Sessions \union {None}]
  BY WorldSound
<1>4. k[m] = x /\ x # None /\ \A j \in Streams : j # m => k[j] = streams[j]
  BY <1>3, NoneIsApart DEF Wires
<1>5. a \in [Sids -> Sessions \union {None}] /\ a[s] = z /\ \A j \in Sids : j # s => a[j] = sessions[j]
  BY <1>3
<1> HIDE DEF k, a
<1>6. \A j \in Sids : sessions[j] # None => sessions[j].res # m
  BY AskedIsNobodys
<1>7. Served(k, sessions)
  BY <1>2 DEF Relayed
<1>8. Served(k, a)
  BY <1>4, <1>5, <1>6, <1>7 DEF Served
<1>9. WorldInv(transport, consumer, k)
  BY <1>2 DEF Relayed
<1>10. Relayed([n |-> k, s |-> a])
  BY <1>5, <1>8, <1>9, MakeRelayed
<1>11. QED
  BY <1>10 DEF k, a

(* A new session (NewSession).                                             *)
LEMMA NewSessionTyped ==
    ASSUME NEW r \in Replicas \union {None}, NEW m \in Streams
    PROVE  NewSession(r, m) \in Sessions /\ NewSession(r, m).res = m /\ ~NewSession(r, m).authed
<1>1. <<>> \in Seq(Frames)
  OBVIOUS
<1>2. QED
  BY <1>1 DEF NewSession, Sessions

(* A stream that was asked for is over before it was anybody's.            *)
LEMMA TurnedAway ==
    ASSUME TypeInv, NEW m \in Streams, streams[m] # None, streams[m].at = "asked",
           NEW x \in Connections, LooseShape(x), x.mine = streams[m].mine, x.sse = streams[m].sse,
           x.seq = streams[m].seq, x.gone = streams[m].gone, Leaves(x, streams[m])
    PROVE  Vouched([n |-> Swept([streams EXCEPT ![m] = x]), s |-> sessions])
<1> DEFINE l == [streams EXCEPT ![m] = x]
<1>1. x.mine => streams[m].mine /\ ~x.gone
  BY DEF TypeInv, WorldInv, OwnsItsOwn, Own
<1>2. WorldInv(transport, consumer, Swept(l)) /\ Swept(l) \in Wires /\ l \in Wires /\ l[m] = x
      /\ \A j \in Streams : j # m => l[j] = streams[j]
  BY <1>1, SweepHolds DEF TypeInv
<1> HIDE DEF l
<1>3. sessions \in [Sids -> Sessions \union {None}]
  BY WorldSound
<1>4. \A j \in Sids : sessions[j] # None => sessions[j].res # m /\ sessions[j].res \in Streams
  BY <1>3, AskedIsNobodys DEF Sessions
<1>5. Served(Swept(l), sessions)
  <2>1. ASSUME NEW j \in Sids, sessions[j] # None
        PROVE  Swept(l)[sessions[j].res] = streams[sessions[j].res]
    BY <1>2, <1>4, <2>1, SweptHolds DEF TypeInv, Served
  <2>2. QED
    BY <2>1 DEF TypeInv, Served
<1>6. Relayed([n |-> Swept(l), s |-> sessions])
  BY <1>2, <1>3, <1>5, MakeRelayed
<1>7. ASSUME AuthInv PROVE Upheld(Swept(l), sessions) /\ OthersOpen(Swept(l), sessions, None)
  <2>1. \A j \in Streams : Swept(l)[j] # None => streams[j] # None /\ Leaves(Swept(l)[j], streams[j])
    BY <1>2, SweptHolds DEF Leaves
  <2>2. QED
    BY <1>2, <1>3, <1>5, <1>7, <2>1, LeavesUpheld
<1>8. QED
  BY <1>6, <1>7, MakeVouched DEF l

(* Accepting an upgrade, or refusing it, is allowed (AcceptUpgrade).       *)
LEMMA AcceptUpgradeSound ==
    ASSUME TypeInv, NEW m \in Streams, AcceptUpgrade(m)
    PROVE  \E y : Vouched(y) /\ RelayBecomes(y)
<1>1. streams[m] # None /\ ~streams[m].sse /\ streams[m].at = "asked" /\ ~streams[m].over
  BY DEF AcceptUpgrade
<1>2. streams[m] \in Connections /\ Shape(streams[m]) /\ LooseShape(streams[m])
  BY <1>1, StreamTyped
<1>3. CASE left.ws
  <2>1. PICK s \in FreeSids :
           /\ s \in Sids /\ sessions[s] = None
           /\ RelayBecomes([Relay EXCEPT !.s[s] = NewSession(None, m), !.n[m].at = "open",
                                         !.n[m].down = <<Event("challenge", s, 0)>>])
    BY <1>3 DEF AcceptUpgrade, FreeSids
  <2> DEFINE z == NewSession(None, m)
             d == <<Event("challenge", s, 0)>>
             x1 == [streams[m] EXCEPT !.at = "open"]
             x == [x1 EXCEPT !.down = d]
             n1 == [streams EXCEPT ![m] = x1]
             n2 == [n1 EXCEPT ![m] = [n1[m] EXCEPT !.down = d]]
             k == [streams EXCEPT ![m] = x]
             a == [sessions EXCEPT ![s] = z]
             v1 == [Relay EXCEPT !.s[s] = z]
             v2 == [v1 EXCEPT !.n[m].at = "open"]
             v3 == [v2 EXCEPT !.n[m].down = d]
  <2>2. RelayBecomes(v3)
    BY <2>1
  <2>3. z \in Sessions /\ z.res = m
    BY NewSessionTyped
  <2>4. Event("challenge", s, 0) \in Events /\ Event("challenge", s, 0).type = "challenge"
        /\ Event("challenge", s, 0).sid = s
    BY <2>1, EventTyped
  <2>5. d \in Seq(Events) /\ \A i \in DOMAIN d : d[i].type = "challenge" /\ d[i].sid = s
    BY <2>4
  <2>6. d # <<>> /\ Head(d).type = "challenge" /\ Head(d).sid = s
    BY <2>4
  <2> HIDE DEF d, z
  <2>7. x1 \in Connections /\ x1.at = "open" /\ x1.mine = streams[m].mine /\ x1.sse = streams[m].sse
        /\ x1.seq = streams[m].seq /\ x1.gone = streams[m].gone /\ x1.over = streams[m].over
        /\ x1.up = streams[m].up /\ x1.body = streams[m].body
    BY <1>2 DEF Connections
  <2>8. v1 = [n |-> streams, s |-> a]
    BY DEF Relay
  <2> HIDE DEF v1, x1, a
  <2>9. v2 = [n |-> n1, s |-> a]
    BY <2>8, SMT DEF x1
  <2>10. n1[m] = x1 /\ streams \in Wires
    BY WorldSound DEF Wires
  <2>11. n2 = k
    BY <2>10 DEF Wires
  <2> HIDE DEF v2, n1
  <2>12. v3 = [n |-> n2, s |-> a]
    BY <2>9, SMT
  <2> HIDE DEF v3, n2
  <2>13. x \in Connections /\ x.at = "open" /\ x.mine = streams[m].mine /\ x.sse = streams[m].sse
        /\ x.seq = streams[m].seq /\ x.gone = streams[m].gone /\ x.over = streams[m].over
        /\ x.up = streams[m].up /\ x.body = streams[m].body /\ x.down = d
    BY <2>5, <2>7 DEF Connections
  <2> HIDE DEF x
  <2>14. Shape(x)
    BY <1>1, <1>2, <2>5, <2>13 DEF Shape, Told
  <2>15. Relayed([n |-> k, s |-> a])
    BY <1>1, <2>1, <2>3, <2>13, <2>14, SessionJoins DEF a
  <2>16. ASSUME AuthInv PROVE Upheld(k, a) /\ OthersOpen(k, a, None)
    <3>1. \A e \in Told(x) : e.type \in {"session", "challenge"} /\ e.sid = s
      BY <2>5, <2>13 DEF Told
    <3>2. Upheld(k, a) /\ OthersOpen(k, a, s)
      BY <1>1, <2>1, <2>3, <2>13, <2>6, <2>16, <3>1, JoinsUpheld DEF a
    <3>3. a[s] # None => a[s].res = m
      BY <2>1, <2>3, WorldSound DEF a
    <3>4. k[m] = x
      BY WorldSound DEF Wires
    <3>5. x.body = NoBody
      BY <1>1, <2>13, <2>14 DEF Shape
    <3>6. ~Opens(x.body, left.gated)
      BY <3>5 DEF Opens, NoBody
    <3>7. QED
      BY <3>2, <3>3, <3>4, <3>6 DEF OthersOpen
  <2>17. Vouched([n |-> k, s |-> a])
    BY <2>15, <2>16, MakeVouched
  <2>18. QED
    BY <2>2, <2>11, <2>12, <2>17
<1>4. CASE ~left.ws
  <2> DEFINE yes == TRUE
             x == [streams[m] EXCEPT !.over = yes]
             y == [n |-> Swept([streams EXCEPT ![m] = x]), s |-> sessions]
  <2>1. RelayBecomes(y)
    BY <1>4 DEF AcceptUpgrade, RelayBecomes
  <2>2. yes \in BOOLEAN
    OBVIOUS
  <2> HIDE DEF yes
  <2>3. x \in Connections /\ LooseShape(x) /\ x.mine = streams[m].mine /\ x.sse = streams[m].sse
        /\ x.seq = streams[m].seq /\ x.gone = streams[m].gone /\ Leaves(x, streams[m])
    BY <1>1, <1>2, <2>2, OverHolds
  <2> HIDE DEF x
  <2>4. Vouched(y)
    BY <1>1, <2>3, TurnedAway
  <2>5. QED
    BY <2>1, <2>4
<1>5. QED
  BY <1>3, <1>4

(* A frame is taken off the wire, with nothing asked but by the flow.      *)
LEMMA TakenUpheld ==
    ASSUME TypeInv, AuthInv, NEW m \in Streams, streams[m] # None, streams[m].up \in Seq(Frames), streams[m].up # <<>>,
           NEW x \in Connections, Was(x, streams[m]), x.down = streams[m].down, x.up = Tail(streams[m].up)
    PROVE  LET k == [streams EXCEPT ![m] = x] IN
           /\ Upheld(k, sessions) /\ OthersOpen(k, sessions, None)
           /\ Own(k, m) /\ ~x.sse /\ Head(streams[m].up).password # None =>
                 /\ Awaiting(transport) /\ NoAsk(x.up) /\ NoAnswer(x.down)
                 /\ transport.flow.password = Head(streams[m].up).password
<1> DEFINE k == [streams EXCEPT ![m] = x]
           q == streams[m].up
<1>1. /\ Upheld(streams, sessions) /\ OthersOpen(streams, sessions, None) /\ streams \in Wires
      /\ sessions \in [Sids -> Sessions \union {None}]
  BY AuthInvIs, WorldSound
<1>2. k[m] = x /\ x # None /\ \A j \in Streams : j # m => k[j] = streams[j]
  BY <1>1, NoneIsApart DEF Wires
<1>3. q \in Seq(Frames) /\ q # <<>> /\ x.up = Tail(q)
  OBVIOUS
<1> HIDE DEF k, q
<1>4. /\ NoAsk(q) => NoAsk(x.up) /\ Head(q).password = None
      /\ \A p : OneAsk(q, p) =>
            /\ OneAsk(x.up, p)
            /\ Head(q).password # None => Head(q).password = p /\ NoAsk(x.up)
  BY <1>3, AskTails
<1>5. \A j \in Streams : (k[j] # None <=> streams[j] # None)
         /\ (streams[j] # None => Was(k[j], streams[j]) /\ k[j].down = streams[j].down /\ Told(k[j]) = Told(streams[j]))
  BY <1>2 DEF Was, Told
<1>6. \A j \in Streams : Own(k, j) <=> Own(streams, j)
  BY <1>5 DEF Own, Was
<1>7. Wire(transport, k, sessions)
  <2>1. ASSUME NEW j \in Streams, Own(k, j), ~k[j].sse
        PROVE  /\ k[j].at = "asked" => transport.socket.state = "connecting"
               /\ \A e \in Told(k[j]) : e.sid = SidOf(transport, k[j])
               /\ transport.nonce = None /\ k[j].down # <<>> => Head(k[j].down).type = "challenge"
               /\ \A i \in Sids : sessions[i] # None /\ sessions[i].res = j => i = SidOf(transport, k[j])
    <3>1. Own(streams, j) /\ ~streams[j].sse /\ k[j].at = streams[j].at /\ k[j].down = streams[j].down
          /\ Told(k[j]) = Told(streams[j])
      BY <1>5, <1>6, <2>1 DEF Own, Was
    <3>2. SidOf(transport, k[j]) = SidOf(transport, streams[j])
      BY <3>1 DEF SidOf
    <3>3. QED
      BY <1>1, <3>1, <3>2 DEF Upheld, Wire
  <2>2. QED
    BY <2>1 DEF Wire
<1>8. Own(streams, m) /\ ~streams[m].sse =>
         \/ NoAsk(q) /\ NoAnswer(x.down)
         \/ Awaiting(transport) /\ OneAsk(q, transport.flow.password) /\ NoAnswer(x.down)
         \/ Awaiting(transport) /\ NoAsk(q)
              /\ OneAnswer(x.down, left.gated => transport.flow.password = "right")
  BY <1>1 DEF Upheld, Pending, q
<1>9. Pending(transport, k, left.gated)
  <2>1. ASSUME NEW j \in Streams, Own(k, j), ~k[j].sse
        PROVE  \/ NoAsk(k[j].up) /\ NoAnswer(k[j].down)
               \/ Awaiting(transport) /\ OneAsk(k[j].up, transport.flow.password) /\ NoAnswer(k[j].down)
               \/ Awaiting(transport) /\ NoAsk(k[j].up)
                    /\ OneAnswer(k[j].down, left.gated => transport.flow.password = "right")
    <3>1. Own(streams, j) /\ ~streams[j].sse
      BY <1>5, <1>6, <2>1 DEF Own, Was
    <3>2. CASE j # m
      BY <1>1, <1>2, <3>1, <3>2 DEF Upheld, Pending
    <3>3. CASE j = m
      BY <1>2, <1>4, <1>8, <3>1, <3>3
    <3>4. QED
      BY <3>2, <3>3
  <2>2. QED
    BY <2>1 DEF Pending
<1>10. RightStays(transport, consumer, k, left.gated)
  <2>1. (\A j \in Streams : Right(k, j) <=> Right(streams, j)) /\ \A i : RightFrom(k, i) <=> RightFrom(streams, i)
    BY <1>5, <1>6 DEF Right, RightFrom, Own, Was
  <2>2. \A j \in Streams : Right(k, j) => k[j].seq = streams[j].seq
    BY <1>5, <2>1 DEF Right, Own, Was
  <2>3. QED
    BY <1>1, <2>1, <2>2 DEF Upheld, RightStays
<1>11. Authorizes(k, sessions) /\ BodiesAnswered(k, left.gated)
  BY <1>1, <1>5 DEF Upheld, Authorizes, BodiesAnswered, Was
<1>12. Upheld(k, sessions)
  BY <1>1, <1>7, <1>9, <1>10, <1>11 DEF Upheld
<1>13. OthersOpen(k, sessions, None)
  <2>1. \A j \in Sids : sessions[j] # None => k[sessions[j].res].body = streams[sessions[j].res].body
    BY <1>5 DEF TypeInv, Served, Sessions, Was
  <2>2. QED
    BY <1>1, <2>1 DEF OthersOpen
<1>14. Own(k, m) /\ ~x.sse /\ Head(q).password # None =>
          /\ Awaiting(transport) /\ NoAsk(x.up) /\ NoAnswer(x.down) /\ transport.flow.password = Head(q).password
  BY <1>4, <1>6, <1>8 DEF Was
<1>15. QED
  BY <1>12, <1>13, <1>14 DEF k, q

(* Reading a frame is allowed (ReadFrame).                                 *)
LEMMA ReadFrameSound ==
    ASSUME TypeInv, NEW m \in Streams, ReadFrame(m)
    PROVE  \E y : Vouched(y) /\ RelayBecomes(y)
<1>1. PICK s \in Sids :
         /\ sessions[s] # None /\ sessions[s].res = m
         /\ RelayBecomes(Dispatch([Relay EXCEPT !.n[m].up = Tail(@)], s, Head(streams[m].up)))
  BY DEF ReadFrame
<1> DEFINE q == Tail(streams[m].up)
           f == Head(streams[m].up)
           x == [streams[m] EXCEPT !.up = q]
           y == [Relay EXCEPT !.n[m].up = q]
<1>2. Relayed(Relay) /\ Relay.n = streams /\ Relay.s = sessions
  BY RelayIsRelayed
<1>3. streams[m] # None /\ streams[m].up # <<>> /\ streams[m] \in Connections /\ Shape(streams[m])
  BY StreamTyped DEF ReadFrame
<1>4. q \in Seq(Frames) /\ f \in Frames /\ ~streams[m].sse
  <2>1. streams[m].up \in Seq(Frames)
    BY <1>3 DEF Connections
  <2>2. ~streams[m].sse
    BY <1>3 DEF Shape
  <2>3. QED
    BY <1>3, <2>1, <2>2
<1>5. RelayBecomes(Dispatch(y, s, f))
  BY <1>1, <1>2
<1>6. streams[m].up \in Seq(Frames) /\ q = Tail(streams[m].up) /\ f = Head(streams[m].up)
  BY <1>3 DEF Connections
<1> HIDE DEF q, f
<1>7. x \in Connections /\ x.up = q /\ x.mine = streams[m].mine /\ x.sse = streams[m].sse
        /\ x.seq = streams[m].seq /\ x.gone = streams[m].gone /\ x.over = streams[m].over
        /\ x.at = streams[m].at /\ x.body = streams[m].body /\ x.down = streams[m].down
  BY <1>3, <1>4 DEF Connections
<1>8. y = [n |-> [streams EXCEPT ![m] = x], s |-> sessions]
  BY DEF Relay
<1> HIDE DEF x, y
<1>9. Shape(x)
  BY <1>3, <1>4, <1>7 DEF Shape, Told
<1>10. Relayed([n |-> [Relay.n EXCEPT ![m] = x], s |-> Relay.s])
  BY <1>2, <1>3, <1>7, <1>9, StreamSet
<1>11. Relayed(y) /\ y.s = sessions
  BY <1>2, <1>8, <1>10
<1>12. Relayed(Dispatch(y, s, f))
  BY <1>1, <1>4, <1>11, DispatchFrameSound
<1>13. ASSUME AuthInv
       PROVE  Upheld(Dispatch(y, s, f).n, Dispatch(y, s, f).s) /\ OthersOpen(Dispatch(y, s, f).n, Dispatch(y, s, f).s, None)
  <2> DEFINE k == [streams EXCEPT ![m] = x]
  <2>1. Was(x, streams[m]) /\ x.up = Tail(streams[m].up) /\ x.down = streams[m].down
    BY <1>7, <1>6 DEF Was
  <2>2. /\ Upheld(k, sessions) /\ OthersOpen(k, sessions, None)
        /\ Own(k, m) /\ ~x.sse /\ Head(streams[m].up).password # None =>
              /\ Awaiting(transport) /\ NoAsk(x.up) /\ NoAnswer(x.down)
              /\ transport.flow.password = Head(streams[m].up).password
    BY <1>3, <1>7, <1>13, <1>6, <2>1, TakenUpheld
  <2>3. k[m] = x
    BY WorldSound DEF Wires
  <2>4. y.n = k
    BY <1>8
  <2> HIDE DEF k
  <2>5. Upheld(y.n, y.s) /\ OthersOpen(y.n, y.s, None) /\ y.s[s] # None /\ m = y.s[s].res /\ ~y.n[m].sse
    BY <1>1, <1>4, <1>7, <1>11, <2>2, <2>3, <2>4
  <2>6. Own(y.n, m) /\ f.password # None =>
           /\ Awaiting(transport) /\ NoAsk(y.n[m].up) /\ NoAnswer(y.n[m].down)
           /\ transport.flow.password = f.password
    BY <1>4, <1>7, <1>6, <2>2, <2>3, <2>4
  <2>7. QED
    BY <1>4, <1>11, <2>5, <2>6, DispatchFrameUpheld
<1>14. QED
  BY <1>5, <1>12, <1>13 DEF Vouched

(* A POST has a session to answer it; what its body asks is to be done.    *)
Serves(y, s, m) ==
    /\ Relayed(y) /\ y.s[s] # None /\ y.s[s].res = m /\ y.n[m].sse /\ y.n[m].body = streams[m].body
    /\ AuthInv => Upheld(y.n, y.s) /\ OthersOpen(y.n, y.s, s)

(* Creating a session for a POST is allowed (createSession).               *)
LEMMA CreateSessionSound ==
    ASSUME TypeInv, NEW m \in Streams, NEW s \in FreeSids, NEW r \in Replicas,
           streams[m] # None, streams[m].sse, streams[m].at = "asked", ~streams[m].cut
    PROVE  LET y == createSession(Relay, s, r, m) IN Serves(y, s, m)
<1> DEFINE z == NewSession(r, m)
           d == <<Event("session", s, 0), Event("challenge", s, 0)>>
           x1 == [streams[m] EXCEPT !.at = "served"]
           x == [x1 EXCEPT !.down = d]
           n1 == [streams EXCEPT ![m] = x1]
           n2 == [n1 EXCEPT ![m] = [n1[m] EXCEPT !.down = d]]
           k == [streams EXCEPT ![m] = x]
           a == [sessions EXCEPT ![s] = z]
           v1 == [Relay EXCEPT !.s[s] = z]
           v2 == [v1 EXCEPT !.n[m].at = "served"]
           v3 == [v2 EXCEPT !.n[m].down = d]
<1>1. streams[m] \in Connections /\ Shape(streams[m]) /\ ~streams[m].over /\ s \in Sids /\ sessions[s] = None
  BY StreamTyped, FreshSid DEF Shape
<1>2. createSession(Relay, s, r, m) = v3
  BY DEF createSession
<1>3. z \in Sessions /\ z.res = m
  BY NewSessionTyped
<1>4. d \in Seq(Events) /\ \A i \in DOMAIN d : d[i].type \in {"session", "challenge"}
  <2>1. Event("session", s, 0) \in Events /\ Event("challenge", s, 0) \in Events
        /\ Event("session", s, 0).type = "session" /\ Event("challenge", s, 0).type = "challenge"
    BY <1>1, EventTyped
  <2>2. QED
    BY <2>1
<1> HIDE DEF d, z
<1>5. x1 \in Connections /\ x1.at = "served" /\ x1.mine = streams[m].mine /\ x1.sse = streams[m].sse
      /\ x1.seq = streams[m].seq /\ x1.gone = streams[m].gone /\ x1.over = streams[m].over
      /\ x1.up = streams[m].up /\ x1.body = streams[m].body /\ x1.closing = streams[m].closing
  BY <1>1 DEF Connections
<1>6. v1 = [n |-> streams, s |-> a]
  BY DEF Relay
<1> HIDE DEF v1, x1, a
<1>7. v2 = [n |-> n1, s |-> a]
  BY <1>6, SMT DEF x1
<1>8. n1[m] = x1 /\ streams \in Wires /\ sessions \in [Sids -> Sessions \union {None}]
  BY WorldSound DEF Wires
<1>9. n2 = k
  BY <1>8 DEF Wires
<1> HIDE DEF v2, n1
<1>10. v3 = [n |-> n2, s |-> a]
  BY <1>7, SMT
<1> HIDE DEF v3, n2
<1>11. x \in Connections /\ x.at = "served" /\ x.mine = streams[m].mine /\ x.sse = streams[m].sse
        /\ x.seq = streams[m].seq /\ x.gone = streams[m].gone /\ x.over = streams[m].over
        /\ x.up = streams[m].up /\ x.body = streams[m].body /\ x.down = d /\ x.closing = streams[m].closing
  BY <1>4, <1>5 DEF Connections
<1> HIDE DEF x
<1>12. Shape(x)
  BY <1>1, <1>11 DEF Shape
<1>13. Relayed([n |-> k, s |-> a])
  BY <1>1, <1>3, <1>11, <1>12, SessionJoins DEF a
<1>14. a[s] = z /\ z # None
  BY <1>1, <1>3, <1>8, NoneIsApart DEF a
<1>15. v3 = [n |-> k, s |-> a]
  BY <1>9, <1>10
<1> HIDE DEF k
<1>16. v3.s[s] # None /\ v3.s[s].res = m
  BY <1>3, <1>14, <1>15
<1>17. k[m] = x
  BY <1>8 DEF k, Wires
<1>18. AuthInv => Upheld(k, a) /\ OthersOpen(k, a, s)
  <2>1. \A e \in Told(x) : e.type \in {"session", "challenge"}
    BY <1>4, <1>11 DEF Told
  <2>2. QED
    BY <1>3, <1>11, <2>1, JoinsUpheld DEF k, a
<1>19. Serves(v3, s, m)
  BY <1>11, <1>13, <1>15, <1>16, <1>17, <1>18 DEF Serves
<1>20. QED
  BY <1>2, <1>19

(* Attaching a session to a later response is allowed: the earlier one     *)
(* ends, and nobody else's does (attachResponse).                          *)
LEMMA AttachSound ==
    ASSUME TypeInv, NEW m \in Streams, NEW s \in Sids,
           streams[m] # None, streams[m].sse, streams[m].at = "asked", ~streams[m].cut, sessions[s] # None
    PROVE  LET y == attachResponse(Relay, s, m) IN Serves(y, s, m)
<1> DEFINE yes == TRUE
           r == sessions[s].res
           x == [streams[m] EXCEPT !.at = "served"]
           n1 == [streams EXCEPT ![m] = x]
           o == [streams[r] EXCEPT !.over = yes]
           n2 == [n1 EXCEPT ![r] = o]
           z == [sessions[s] EXCEPT !.res = m]
           a == [sessions EXCEPT ![s] = z]
           y == attachResponse(Relay, s, m)
<1>1. Relayed(Relay) /\ Relay.n = streams /\ Relay.s = sessions /\ streams \in Wires
      /\ sessions \in [Sids -> Sessions \union {None}]
  BY RelayIsRelayed, WorldSound
<1>2. streams[m] \in Connections /\ Shape(streams[m]) /\ ~streams[m].over
  BY StreamTyped DEF Shape
<1>3. sessions[s] \in Sessions /\ r \in Streams /\ streams[r] # None /\ streams[r] \in Connections
      /\ Shape(streams[r]) /\ streams[r].at \in {"served", "open"}
  BY <1>1, ResOf
<1>4. r # m /\ yes \in BOOLEAN
  BY <1>3
<1>5. n1[r] = streams[r]
  BY <1>1, <1>3, <1>4 DEF Wires
<1>6. y = [n |-> Swept(n2), s |-> a]
  <2> DEFINE n3 == [n1 EXCEPT ![r] = [n1[r] EXCEPT !.over = yes]]
             p == Swept(n3)
             w1 == [Relay EXCEPT !.n = p]
             w2 == [w1 EXCEPT !.s[s].res = m]
  <2>1. y = w2
    BY <1>1 DEF attachResponse
  <2>2. n3 = n2
    BY <1>5
  <2> HIDE DEF p
  <2>3. w1 = [n |-> p, s |-> sessions]
    BY DEF Relay
  <2> HIDE DEF w1
  <2>4. w2 = [n |-> p, s |-> a]
    BY <2>3, SMT
  <2> HIDE DEF n3, n2, w2, a
  <2>5. QED
    BY <2>1, <2>2, <2>4 DEF p
<1> HIDE DEF yes, r, y
<1>7. x \in Connections /\ x.at = "served" /\ x.mine = streams[m].mine /\ x.sse = streams[m].sse
      /\ x.seq = streams[m].seq /\ x.gone = streams[m].gone /\ x.over = streams[m].over
      /\ x.up = streams[m].up /\ x.body = streams[m].body /\ x.closing = streams[m].closing
      /\ x.down = streams[m].down
  BY <1>2 DEF Connections
<1> HIDE DEF x
<1>8. Shape(x)
  BY <1>2, <1>7 DEF Shape, Told
<1>9. Relayed([n |-> n1, s |-> sessions])
  <2>1. Relayed([n |-> [Relay.n EXCEPT ![m] = x], s |-> Relay.s])
    BY <1>1, <1>7, <1>8, StreamSet
  <2>2. QED
    BY <1>1, <2>1
<1>10. n1[m] = x /\ (\A j \in Streams : j # m => n1[j] = streams[j]) /\ x # None
  BY <1>1, <1>7, NoneIsApart DEF Wires
<1>11. WorldInv(transport, consumer, n1) /\ Served(n1, sessions)
  BY <1>9 DEF Relayed
<1>12. o \in Connections /\ LooseShape(o) /\ o.mine = streams[r].mine /\ o.sse = streams[r].sse
      /\ o.seq = streams[r].seq /\ o.gone = streams[r].gone /\ Leaves(o, streams[r])
  <2>1. LooseShape(streams[r]) /\ (streams[r].sse /\ streams[r].at = "asked" => streams[r].cut)
    BY <1>3 DEF Shape, LooseShape
  <2>2. QED
    BY <1>3, <1>4, <2>1, OverHolds
<1> HIDE DEF o, n1
<1>13. o.mine => n1[r].mine /\ ~o.gone
  BY <1>3, <1>5, <1>11, <1>12 DEF WorldInv, OwnsItsOwn, Own
<1>14. WorldInv(transport, consumer, Swept(n2)) /\ Swept(n2) \in Wires /\ n2 \in Wires /\ n2[r] = o
       /\ \A j \in Streams : j # r => n2[j] = n1[j]
  BY <1>3, <1>5, <1>11, <1>12, <1>13, SweepHolds
<1> HIDE DEF n2
<1>15. z \in Sessions /\ z.res = m /\ z.authed = sessions[s].authed
  BY <1>3 DEF Sessions
<1>16. a \in [Sids -> Sessions \union {None}] /\ a[s] = z /\ \A j \in Sids : j # s => a[j] = sessions[j]
  BY <1>1, <1>15
<1> HIDE DEF a, z
<1>17. ASSUME NEW j \in Sids, sessions[j] # None
       PROVE  sessions[j].res \in Streams /\ sessions[j].res # m /\ (j # s => sessions[j].res # r)
  <2>1. sessions[j].res \in Streams /\ streams[sessions[j].res].at \in {"served", "open"}
    <3> DEFINE z2 == Relay.s[j]
    <3>1. z2 # None /\ z2 = sessions[j]
      BY <1>1, <1>17
    <3>2. z2.res \in Streams /\ Relay.n[z2.res].at \in {"served", "open"}
      BY <1>1, <3>1, ResOf
    <3>3. QED
      BY <1>1, <3>1, <3>2
  <2>2. j # s => sessions[j].res # r
    BY <1>3, <1>11, <1>17 DEF Served, r
  <2>3. QED
    BY <2>1, <2>2
<1>18. ASSUME NEW j \in Sids, a[j] # None
       PROVE  Swept(n2)[a[j].res] # None /\ ~Swept(n2)[a[j].res].over
              /\ Swept(n2)[a[j].res].at \in {"served", "open"}
  <2>1. CASE j = s
    <3>1. n2[m] = x /\ ~x.over /\ x.at = "served"
      BY <1>2, <1>4, <1>7, <1>10, <1>14
    <3>2. Swept(n2)[m] = x
      BY <1>10, <1>14, <3>1, SweptHolds
    <3>3. QED
      BY <1>10, <1>15, <1>16, <2>1, <3>1, <3>2
  <2>2. CASE j # s
    <3> DEFINE i == sessions[j].res
    <3>1. a[j] = sessions[j] /\ i \in Streams /\ i # m /\ i # r
      <4>1. a[j] = sessions[j]
        BY <1>16, <2>2
      <4>2. sessions[j] # None
        BY <1>18, <4>1
      <4>3. QED
        BY <1>17, <2>2, <4>1, <4>2
    <3>2. n2[i] = n1[i] /\ n1[i] # None /\ ~n1[i].over /\ n1[i].at \in {"served", "open"}
      BY <1>11, <1>14, <1>18, <3>1 DEF Served
    <3>3. Swept(n2)[i] = n1[i]
      BY <1>14, <3>1, <3>2, SweptHolds
    <3>4. QED
      BY <3>1, <3>2, <3>3
  <2>3. QED
    BY <2>1, <2>2
<1>19. \A i, j \in Sids : a[i] # None /\ a[j] # None /\ a[i].res = a[j].res => i = j
  <2>1. ASSUME NEW i \in Sids, NEW j \in Sids, a[i] # None, a[j] # None, a[i].res = a[j].res, i # j
        PROVE  FALSE
    <3>1. CASE i = s
      <4>1. a[j] = sessions[j] /\ a[i].res = m
        BY <1>15, <1>16, <2>1, <3>1
      <4>2. QED
        BY <1>17, <2>1, <4>1
    <3>2. CASE j = s
      <4>1. a[i] = sessions[i] /\ a[j].res = m
        BY <1>15, <1>16, <2>1, <3>2
      <4>2. QED
        BY <1>17, <2>1, <4>1
    <3>3. CASE i # s /\ j # s
      <4>1. a[i] = sessions[i] /\ a[j] = sessions[j]
        BY <1>16, <3>3
      <4>2. QED
        BY <1>11, <2>1, <4>1 DEF Served
    <3>4. QED
      BY <3>1, <3>2, <3>3
  <2>2. QED
    BY <2>1
<1>20. Relayed([n |-> Swept(n2), s |-> a])
  BY <1>14, <1>16, <1>18, <1>19, MakeRelayed DEF Served
<1>21. y.s[s] # None /\ y.s[s].res = m
  BY <1>6, <1>15, <1>16, NoneIsApart
<1>22. Swept(n2)[m] = x
  <2>1. n2[m] = x /\ ~x.over
    BY <1>2, <1>4, <1>7, <1>10, <1>14
  <2>2. QED
    BY <1>10, <1>14, <2>1, SweptHolds
<1>23. ASSUME AuthInv PROVE Upheld(Swept(n2), a) /\ OthersOpen(Swept(n2), a, s)
  <2>1. Leaves(x, streams[m])
    BY <1>7 DEF Leaves, Told
  <2>2. \A j \in Streams : Swept(n2)[j] # None => streams[j] # None /\ Leaves(Swept(n2)[j], streams[j])
    <3>1. ASSUME NEW j \in Streams, Swept(n2)[j] # None
          PROVE  streams[j] # None /\ Leaves(Swept(n2)[j], streams[j])
      <4>1. Swept(n2)[j] = n2[j] /\ n2[j] # None
        BY <1>14, <3>1, SweptHolds
      <4>2. CASE j = r
        BY <1>3, <1>12, <1>14, <4>1, <4>2
      <4>3. CASE j = m
        BY <1>22, <2>1, <4>3
      <4>4. CASE j # r /\ j # m
        BY <1>10, <1>14, <4>1, <4>4 DEF Leaves
      <4>5. QED
        BY <4>2, <4>3, <4>4
    <3>2. QED
      BY <3>1
  <2>3. Served(Swept(n2), a)
    BY <1>18, <1>19 DEF Served
  <2>4. \A j \in Sids : a[j] # None =>
           /\ sessions[j] # None /\ a[j].authed = sessions[j].authed
           /\ a[j].res = sessions[j].res \/ (j = s /\ streams[a[j].res].sse)
    BY <1>15, <1>16
  <2>5. QED
    BY <1>14, <1>16, <1>23, <2>2, <2>3, <2>4, LeavesUpheld
<1>24. y.n = Swept(n2) /\ y.s = a
  BY <1>6
<1>25. Serves(y, s, m)
  BY <1>6, <1>7, <1>20, <1>21, <1>22, <1>23, <1>24 DEF Serves
<1>26. QED
  BY <1>25 DEF y

(* The history of passed POSTs aside, the client is as it was.             *)
LEMMA PostTyped ==
    ASSUME TypeInv, NEW y, Vouched(y), RelayBecomes(y), consumer' = consumer, LeftType',
           left'.gated = left.gated,
           \/ transport' = transport
           \/ /\ transport.socket # None /\ transport.socket.sse
              /\ transport' = [transport EXCEPT !.socket = [transport.socket EXCEPT !.slipped = TRUE]]
    PROVE  TypeInv' /\ (AuthInv => AuthInv')
<1>1. CASE transport' = transport
  BY <1>1, RelayTyped
<1>2. CASE /\ transport.socket # None /\ transport.socket.sse
           /\ transport' = [transport EXCEPT !.socket = [transport.socket EXCEPT !.slipped = TRUE]]
  <2> DEFINE yes == TRUE
             u == [transport EXCEPT !.socket = [transport.socket EXCEPT !.slipped = yes]]
             w == [t |-> transport, c |-> consumer, n |-> y.n]
             v == [t |-> u, c |-> consumer, n |-> y.n]
  <2>1. w.t = transport /\ w.c = consumer /\ w.n = y.n /\ v.t = u /\ v.c = consumer /\ v.n = y.n
        /\ yes \in BOOLEAN /\ transport' = u
    BY <1>2
  <2>2. Sound(w, y.s) /\ Relayed(y)
    BY DEF Vouched, Relayed, Sound
  <2>3. v = [t |-> [w.t EXCEPT !.socket = [w.t.socket EXCEPT !.slipped = yes]], c |-> w.c, n |-> w.n]
    OBVIOUS
  <2>4. AuthInv => Honest(w, y.s, left.gated)
    BY UpheldHonest DEF Vouched
  <2> HIDE DEF u, w, v, yes
  <2>5. Sound(v, y.s) /\ \A g : w.t.socket.sse /\ Honest(w, y.s, g) => Honest(v, y.s, g)
    BY <1>2, <2>1, <2>2, <2>3, SlippedSet
  <2>6. transport' = v.t /\ consumer' = v.c /\ streams' = v.n /\ sessions' = y.s
    BY <2>1 DEF RelayBecomes
  <2>7. WorldInv(transport', consumer', streams') /\ Served(streams', sessions')
    BY <2>5, <2>6 DEF Sound
  <2>8. WorldInv(transport, consumer, streams)' /\ Served(streams, sessions)'
    BY <2>7 DEF WorldInv, Served, NonceHeld, Reconnects, MayOpen, Numbered, OwnsItsOwn, Own, Shapes, FlowHeld, Awaiting
  <2>9. sessions' \in [Sids -> Sessions \union {None}]
    BY <2>2, <2>6 DEF Relayed
  <2>10. TypeInv'
    BY <2>8, <2>9 DEF TypeInv
  <2>11. ASSUME AuthInv PROVE AuthInv'
    <3>1. Honest(v, sessions', left'.gated)
      BY <1>2, <2>1, <2>5, <2>6, <2>4, <2>11
    <3>2. QED
      BY <2>6, <3>1, HonestPrimed
  <2>12. QED
    BY <2>10, <2>11
<1>3. QED
  BY <1>1, <1>2

(* Refusing a POST is allowed (handlePost).                                *)
LEMMA RefusedSound ==
    ASSUME TypeInv, NEW m \in Streams, streams[m] # None, streams[m].sse, streams[m].at = "asked", ~streams[m].cut
    PROVE  LET n == Swept([streams EXCEPT ![m].at = "refused", ![m].over = TRUE]) IN
           Vouched([n |-> n, s |-> sessions])
<1> DEFINE yes == TRUE
           x1 == [streams[m] EXCEPT !.at = "refused"]
           x == [x1 EXCEPT !.over = yes]
           n1 == [streams EXCEPT ![m] = x1]
           n2 == [n1 EXCEPT ![m] = [n1[m] EXCEPT !.over = yes]]
           k == [streams EXCEPT ![m] = x]
<1>1. streams[m] \in Connections /\ Shape(streams[m]) /\ LooseShape(streams[m]) /\ streams \in Wires
  BY StreamTyped, WorldSound
<1>2. yes \in BOOLEAN
  OBVIOUS
<1>3. [streams EXCEPT ![m].at = "refused", ![m].over = yes] = n2
  OBVIOUS
<1>4. n1[m] = x1
  BY <1>1 DEF Wires
<1>5. n2 = k
  BY <1>1, <1>4 DEF Wires
<1>6. x1 \in Connections /\ x1.at = "refused" /\ x1.mine = streams[m].mine /\ x1.sse = streams[m].sse
      /\ x1.seq = streams[m].seq /\ x1.gone = streams[m].gone /\ x1.over = streams[m].over
      /\ x1.up = streams[m].up /\ x1.body = streams[m].body /\ x1.closing = streams[m].closing
      /\ x1.cut = streams[m].cut /\ x1.down = streams[m].down
  BY <1>1 DEF Connections
<1> HIDE DEF yes, x1
<1>7. LooseShape(x1) /\ Leaves(x1, streams[m])
  BY <1>1, <1>6 DEF LooseShape, Told, Leaves
<1>8. x \in Connections /\ LooseShape(x) /\ x.mine = streams[m].mine /\ x.sse = streams[m].sse
      /\ x.seq = streams[m].seq /\ x.gone = streams[m].gone /\ Leaves(x, x1)
  BY <1>2, <1>6, <1>7, OverHolds
<1> HIDE DEF x, n1, n2
<1>9. Leaves(x, streams[m])
  BY <1>7, <1>8 DEF Leaves
<1>10. Vouched([n |-> Swept(k), s |-> sessions])
  BY <1>8, <1>9, TurnedAway
<1>11. QED
  BY <1>3, <1>5, <1>10 DEF yes

(* A POST served by its session upholds the authentication once its body   *)
(* is dispatched (handlePost).                                             *)
LEMMA ServedUpheld ==
    ASSUME NEW y, NEW s \in Sids, NEW m \in Streams, Serves(y, s, m), streams[m].body \in Bodies
    PROVE  Vouched(dispatchBody(y, s, streams[m].body))
<1> DEFINE body == streams[m].body
           v == dispatchBody(y, s, body)
<1>1. /\ Relayed(y) /\ y.s[s] # None /\ m = y.s[s].res /\ y.n[m].sse /\ y.n[m].body = body /\ body \in Bodies
      /\ AuthInv => Upheld(y.n, y.s) /\ OthersOpen(y.n, y.s, s)
  BY DEF Serves
<1> HIDE DEF body
<1>2. Relayed(v)
  BY <1>1, DispatchBodySound
<1>3. ASSUME AuthInv PROVE Upheld(v.n, v.s) /\ OthersOpen(v.n, v.s, None)
  BY <1>1, <1>3, DispatchBodyUpheld
<1>4. QED
  BY <1>2, <1>3 DEF Vouched, body

(* A POST the relay handles keeps the invariant (handlePost).              *)
LEMMA HandlePostTyped ==
    ASSUME TypeInv, NEW m \in Streams, NEW r \in Replicas, handlePost(m, r)
    PROVE  TypeInv' /\ (AuthInv => AuthInv')
<1> DEFINE body == streams[m].body
<1>1. streams[m] # None /\ streams[m].sse /\ streams[m].at = "asked" /\ ~streams[m].cut /\ consumer' = consumer
  BY DEF handlePost
<1>2. body \in Bodies
  BY <1>1, StreamTyped DEF Connections
<1>3. LeftType' /\ left'.gated = left.gated
  <2>1. left' = left \/ Spend("hops")
    BY DEF handlePost
  <2>2. "hops" \in Counts
    BY DEF Counts
  <2>3. QED
    BY <2>1, <2>2, LeftStays, LeftSpent
<1>4. \/ transport' = transport
      \/ /\ transport.socket # None /\ transport.socket.sse
         /\ transport' = [transport EXCEPT !.socket = [transport.socket EXCEPT !.slipped = TRUE]]
  <2>1. \/ transport' = transport
        \/ Issued(m) /\ transport' = [transport EXCEPT !.socket.slipped = TRUE]
    BY DEF handlePost
  <2>2. Issued(m) => transport.socket # None /\ transport.socket.sse
    BY IssuedIsSse
  <2>3. QED
    BY <2>1, <2>2
<1>5. \E y : Vouched(y) /\ RelayBecomes(y)
  <2>1. CASE Known(body, r)
    <3> DEFINE y == attachResponse(Relay, body.id, m)
    <3>1. body.id \in Sids /\ sessions[body.id] # None
      BY <1>2, <2>1 DEF Known, Bodies, Nonces
    <3>2. Serves(y, body.id, m)
      BY <1>1, <3>1, AttachSound
    <3>3. RelayBecomes(dispatchBody(y, body.id, body))
      BY <2>1 DEF handlePost
    <3> HIDE DEF y
    <3>4. Vouched(dispatchBody(y, body.id, body))
      BY <1>2, <3>1, <3>2, ServedUpheld
    <3>5. QED
      BY <3>3, <3>4
  <2>2. CASE ~Known(body, r) /\ Cardinality(Held(r)) < MaxSessions
    <3>1. PICK s \in FreeSids :
             s \in Sids /\ RelayBecomes(dispatchBody(createSession(Relay, s, r, m), s, body))
      BY <2>2 DEF handlePost, FreeSids
    <3> DEFINE y == createSession(Relay, s, r, m)
    <3>2. Serves(y, s, m)
      BY <1>1, <3>1, CreateSessionSound
    <3> HIDE DEF y
    <3>3. Vouched(dispatchBody(y, s, body))
      BY <1>2, <3>1, <3>2, ServedUpheld
    <3>4. QED
      BY <3>1, <3>3 DEF y
  <2>3. CASE ~Known(body, r) /\ ~(Cardinality(Held(r)) < MaxSessions)
    <3> DEFINE y == [n |-> Swept([streams EXCEPT ![m].at = "refused", ![m].over = TRUE]), s |-> sessions]
    <3>1. RelayBecomes(y)
      BY <2>3 DEF handlePost, RelayBecomes
    <3>2. Vouched(y)
      BY <1>1, RefusedSound
    <3> HIDE DEF y
    <3>3. QED
      BY <3>1, <3>2
  <2>4. QED
    BY <2>1, <2>2, <2>3
<1>6. QED
  BY <1>1, <1>3, <1>4, <1>5, PostTyped

(* The end of a handler keeps it (HandlerEnds).                            *)
LEMMA HandlerEndsTyped ==
    ASSUME TypeInv, NEW s \in Sids, HandlerEnds(s)
    PROVE  TypeInv' /\ (AuthInv => AuthInv')
<1>1. sessions[s] # None /\ left' = left /\ transport' = transport /\ consumer' = consumer
  BY DEF HandlerEnds
<1>2. /\ Relayed(Relay) /\ Relay.n = streams /\ Relay.s = sessions
      /\ AuthInv => Upheld(Relay.n, Relay.s) /\ OthersOpen(Relay.n, Relay.s, None)
  BY RelayIsRelayed, AuthInvIs
<1>3. sessions[s].work \in Seq(Frames) /\ sessions[s] \in Sessions
  BY <1>1, WorldSound DEF Sessions
<1>4. PICK i \in DOMAIN sessions[s].work :
         LET y == [Relay EXCEPT !.s[s].work = RemoveAt(@, i)] IN
         RelayBecomes(IF sessions[s].work[i].nonce # s THEN y
                      ELSE Sent(y, s, IF left.gated /\ ~sessions[s].authed THEN "gated" ELSE "answer"))
  BY DEF HandlerEnds
<1> DEFINE q == RemoveAt(sessions[s].work, i)
           y == [Relay EXCEPT !.s[s].work = q]
           type == IF left.gated /\ ~sessions[s].authed THEN "gated" ELSE "answer"
           z == [sessions[s] EXCEPT !.work = q]
           r == sessions[s].res
<1>5. RelayBecomes(y) \/ RelayBecomes(Sent(y, s, type))
  BY <1>2, <1>4
<1>6. q \in Seq(Frames)
  <2> DEFINE w == sessions[s].work
  <2>1. w \in Seq(Frames) /\ i \in 1..Len(w) /\ Len(w) \in Nat
    BY <1>3
  <2> HIDE DEF w
  <2>2. SubSeq(w, 1, i - 1) \in Seq(Frames) /\ SubSeq(w, i + 1, Len(w)) \in Seq(Frames)
    BY <2>1
  <2>3. q = SubSeq(w, 1, i - 1) \o SubSeq(w, i + 1, Len(w))
    BY DEF RemoveAt, w
  <2>4. QED
    BY <2>2, <2>3
<1>7. type \in Replies /\ type \notin Answers /\ type # "authenticated"
      /\ (type = "gated" => left.gated /\ ~sessions[s].authed)
  BY DEF Replies, Answers
<1>8. z \in Sessions /\ z.res = r /\ z.authed = sessions[s].authed /\ z # None
  BY <1>3, <1>6, NoneIsApart DEF Sessions
<1> HIDE DEF q, type
<1>9. Relayed(y) /\ y.s[s] # None /\ y = [n |-> streams, s |-> [sessions EXCEPT ![s] = z]]
  <2>1. /\ Relayed([Relay EXCEPT !.s[s].work = q]) /\ [Relay EXCEPT !.s[s].work = q].s[s] # None
        /\ [Relay EXCEPT !.s[s].work = q]
              = [n |-> Relay.n, s |-> [Relay.s EXCEPT ![s] = [Relay.s[s] EXCEPT !.work = q]]]
    BY <1>1, <1>2, <1>6, WorkSet
  <2>2. QED
    BY <1>2, <2>1
<1> HIDE DEF y, z
<1>10. AuthInv => Upheld(y.n, y.s) /\ OthersOpen(y.n, y.s, None)
  <2>1. y = [n |-> Relay.n, s |-> [Relay.s EXCEPT ![s] = z]] /\ Relay.s[s] # None /\ z.res = Relay.s[s].res
        /\ (Relay.s[s].authed => z.authed)
    BY <1>1, <1>2, <1>8, <1>9
  <2>2. ASSUME AuthInv PROVE Upheld(y.n, y.s) /\ OthersOpen(y.n, y.s, None)
    <3> DEFINE w == Relay
    <3>1. /\ Relayed(w) /\ Upheld(w.n, w.s) /\ OthersOpen(w.n, w.s, None) /\ w.s[s] # None
          /\ z \in Sessions /\ z.res = w.s[s].res /\ (w.s[s].authed => z.authed)
          /\ y = [n |-> w.n, s |-> [w.s EXCEPT ![s] = z]]
      BY <1>2, <1>8, <2>1, <2>2
    <3> HIDE DEF w
    <3>2. Upheld(y.n, y.s) /\ \A x : OthersOpen(w.n, w.s, x) => OthersOpen(y.n, y.s, x)
      BY <3>1, SessionUpheld
    <3>3. QED
      BY <3>1, <3>2
  <2>3. QED
    BY <2>2
<1>11. Relayed(Sent(y, s, type))
  BY <1>7, <1>9, SentSound
<1>12. ASSUME AuthInv
       PROVE  /\ Upheld(Sent(y, s, type).n, Sent(y, s, type).s)
              /\ OthersOpen(Sent(y, s, type).n, Sent(y, s, type).s, None)
  <2>1. y.s[s] = z /\ y.n = streams
    BY <1>9, WorldSound
  <2>2. left.gated /\ ~sessions[s].authed => streams[r].body.password # "right"
    BY <1>1, <1>2, <1>12, TransportAssumption DEF OthersOpen, Opens, Passwords
  <2>3. type = "gated" => y.n[r].body.password # "right"
    BY <1>7, <2>1, <2>2
  <2>4. r = y.s[s].res
    BY <1>8, <2>1
  <2> HIDE DEF r
  <2>5. QED
    BY <1>7, <1>9, <1>10, <1>12, <2>3, <2>4, SentUpheld
<1>13. Vouched(y) /\ Vouched(Sent(y, s, type))
  BY <1>9, <1>10, <1>11, <1>12 DEF Vouched
<1>14. LeftType' /\ left'.gated = left.gated
  BY <1>1, LeftStays
<1>15. QED
  BY <1>1, <1>5, <1>13, <1>14, RelayTyped

(* A broadcast keeps it (Broadcast).                                       *)
LEMMA BroadcastTyped ==
    ASSUME TypeInv, NEW s \in Sids, Broadcast(s)
    PROVE  TypeInv' /\ (AuthInv => AuthInv')
<1>1. sessions[s] # None /\ Spend("data") /\ transport' = transport /\ consumer' = consumer
      /\ RelayBecomes(Sent(Relay, s, "data"))
  BY DEF Broadcast
<1>2. /\ Relayed(Relay) /\ Relay.s = sessions
      /\ AuthInv => Upheld(Relay.n, Relay.s) /\ OthersOpen(Relay.n, Relay.s, None)
  BY RelayIsRelayed, AuthInvIs
<1>3. "data" \in Replies /\ "data" \in Counts
  BY DEF Replies, Counts
<1>4. Vouched(Sent(Relay, s, "data"))
  <2> DEFINE v == Sent(Relay, s, "data")
  <2>1. Relayed(v)
    BY <1>1, <1>2, <1>3, SentSound
  <2>2. "data" \notin Answers /\ "data" # "authenticated" /\ "data" # "gated"
    BY DEF Answers
  <2>3. ASSUME AuthInv PROVE Upheld(v.n, v.s) /\ OthersOpen(v.n, v.s, None)
    BY <1>1, <1>2, <1>3, <2>2, <2>3, SentUpheld
  <2>4. QED
    BY <2>1, <2>3 DEF Vouched
<1>5. LeftType' /\ left'.gated = left.gated
  BY <1>1, <1>3, LeftSpent
<1>6. QED
  BY <1>1, <1>4, <1>5, RelayTyped

(* A stream ends, and with it the session that writes to it, if any.       *)
LEMMA StreamEnds ==
    ASSUME TypeInv, NEW m \in Streams, streams[m] # None,
           NEW x \in Connections, LooseShape(x), x.mine = streams[m].mine, x.sse = streams[m].sse,
           x.seq = streams[m].seq, x.gone = streams[m].gone, x.over, Leaves(x, streams[m]),
           NEW a \in [Sids -> Sessions \union {None}],
           \A j \in Sids : a[j] # None => a[j] = sessions[j] /\ sessions[j].res # m
    PROVE  Vouched([n |-> Swept([streams EXCEPT ![m] = x]), s |-> a])
<1> DEFINE l == [streams EXCEPT ![m] = x]
<1>1. x.mine => streams[m].mine /\ ~x.gone
  BY DEF TypeInv, WorldInv, OwnsItsOwn, Own
<1>2. WorldInv(transport, consumer, Swept(l)) /\ Swept(l) \in Wires /\ l \in Wires /\ l[m] = x /\ \A j \in Streams : j # m => l[j] = streams[j]
  BY <1>1, SweepHolds DEF TypeInv
<1> HIDE DEF l
<1>3. ASSUME NEW j \in Sids, a[j] # None
      PROVE  Swept(l)[a[j].res] = streams[a[j].res]
  <2>1. sessions[j] # None /\ a[j].res = sessions[j].res /\ sessions[j].res \in Streams /\ sessions[j].res # m
    BY <1>3, WorldSound DEF Sessions
  <2>2. QED
    BY <1>2, <2>1, SweptHolds DEF TypeInv, Served
<1>4. Served(Swept(l), a)
  <2>1. \A j \in Sids : a[j] # None => a[j] = sessions[j] /\ Swept(l)[a[j].res] = streams[a[j].res]
    BY <1>3
  <2>2. QED
    BY <2>1 DEF TypeInv, Served
<1>5. Relayed([n |-> Swept(l), s |-> a])
  BY <1>2, <1>4, MakeRelayed
<1>6. ASSUME AuthInv PROVE Upheld(Swept(l), a) /\ OthersOpen(Swept(l), a, None)
  <2>1. \A j \in Streams : Swept(l)[j] # None => streams[j] # None /\ Leaves(Swept(l)[j], streams[j])
    BY <1>2, SweptHolds DEF Leaves
  <2>2. QED
    BY <1>2, <1>4, <1>6, <2>1, LeavesUpheld
<1>7. QED
  BY <1>5, <1>6, MakeVouched DEF l

(* The relay's noticing that a stream has ended keeps it (RelayNotices).   *)
LEMMA RelayNoticesTyped ==
    ASSUME TypeInv, NEW m \in Streams, RelayNotices(m)
    PROVE  TypeInv' /\ (AuthInv => AuthInv')
<1> DEFINE yes == TRUE
           x == [streams[m] EXCEPT !.over = yes]
           a == [s \in Sids |-> IF sessions[s] # None /\ sessions[s].res = m THEN None ELSE sessions[s]]
           y == [n |-> Swept([streams EXCEPT ![m] = x]), s |-> a]
<1>1. streams[m] # None /\ left' = left /\ transport' = transport /\ consumer' = consumer
      /\ RelayBecomes(y) /\ (streams[m].closing \/ streams[m].gone \/ streams[m].cut)
  BY DEF RelayNotices, RelayBecomes
<1>2. streams[m] \in Connections /\ Shape(streams[m]) /\ LooseShape(streams[m])
      /\ sessions \in [Sids -> Sessions \union {None}] /\ yes \in BOOLEAN
  BY <1>1, StreamTyped, WorldSound
<1> HIDE DEF yes
<1>3. streams[m].sse /\ streams[m].at = "asked" => streams[m].cut \/ streams[m].gone
  BY <1>1, <1>2 DEF Shape
<1>4. x \in Connections /\ LooseShape(x) /\ x.mine = streams[m].mine /\ x.sse = streams[m].sse
      /\ x.seq = streams[m].seq /\ x.gone = streams[m].gone /\ x.over /\ Leaves(x, streams[m])
  BY <1>2, <1>3, OverHolds DEF yes
<1>5. a \in [Sids -> Sessions \union {None}]
      /\ \A j \in Sids : a[j] # None => a[j] = sessions[j] /\ sessions[j].res # m
  BY <1>2
<1> HIDE DEF x, a
<1>6. Vouched(y)
  BY <1>1, <1>4, <1>5, StreamEnds
<1>7. LeftType' /\ left'.gated = left.gated
  BY <1>1, LeftStays
<1> HIDE DEF y
<1>8. QED
  BY <1>1, <1>6, <1>7, RelayTyped

(* The relay's closing of a session keeps it (RelayCloses).                *)
LEMMA RelayClosesTyped ==
    ASSUME TypeInv, NEW s \in Sids, RelayCloses(s)
    PROVE  TypeInv' /\ (AuthInv => AuthInv')
<1> DEFINE m == sessions[s].res
           yes == TRUE
           last == IF streams[m].sse THEN <<Event("close", s, 0)>> ELSE <<>>
           x1 == [streams[m] EXCEPT !.over = yes]
           d == streams[m].down \o last
           x == [x1 EXCEPT !.down = d]
           n1 == [streams EXCEPT ![m] = x1]
           n2 == [n1 EXCEPT ![m] = [n1[m] EXCEPT !.down = d]]
           k == [streams EXCEPT ![m] = x]
           a == [sessions EXCEPT ![s] = None]
           y == [n |-> Swept(k), s |-> a]
<1>1. sessions[s] # None /\ Spend("goodbyes") /\ transport' = transport /\ consumer' = consumer
      /\ sessions' = a
  BY DEF RelayCloses
<1>2. Relayed(Relay) /\ Relay.n = streams /\ Relay.s = sessions /\ streams \in Wires
      /\ sessions \in [Sids -> Sessions \union {None}]
  BY RelayIsRelayed, WorldSound
<1>3. m \in Streams /\ streams[m] # None /\ streams[m].at \in {"served", "open"}
  BY <1>1, <1>2, ResOf
<1>4. streams[m] \in Connections /\ Shape(streams[m]) /\ LooseShape(streams[m])
  BY <1>3, StreamTyped
<1>5. yes \in BOOLEAN /\ x1.down = streams[m].down
  BY <1>4 DEF Connections
<1>6. streams' = Swept([n1 EXCEPT ![m].down = @ \o last])
  BY DEF RelayCloses
<1>7. n1[m] = x1
  BY <1>2, <1>3 DEF Wires
<1> HIDE DEF yes, last, m
<1>8. [n1 EXCEPT ![m].down = @ \o last] = n2
  BY <1>5, <1>7
<1>9. n2 = k
  BY <1>2, <1>3, <1>7 DEF Wires
<1>10. x1 \in Connections /\ LooseShape(x1) /\ x1.mine = streams[m].mine /\ x1.sse = streams[m].sse
       /\ x1.seq = streams[m].seq /\ x1.gone = streams[m].gone /\ x1.over /\ x1.at = streams[m].at
       /\ x1.up = streams[m].up /\ x1.body = streams[m].body
  BY <1>3, <1>4, <1>5, OverHolds DEF yes
<1>11. /\ d \in Seq(Events) /\ (~streams[m].sse => d = streams[m].down)
       /\ \A i \in DOMAIN d : d[i] \in Told(streams[m]) \/ d[i].type = "close"
  <2> DEFINE S == Events
             p == streams[m].down
  <2>1. Event("close", s, 0) \in S /\ Event("close", s, 0).type = "close"
    BY EventTyped
  <2>2. last \in Seq(S) /\ (~streams[m].sse => last = <<>>) /\ \A i \in DOMAIN last : last[i].type = "close"
    BY <2>1 DEF last
  <2>3. p \in Seq(S) /\ d = p \o last
    BY <1>4 DEF Connections
  <2>4. \A i \in DOMAIN p : p[i] \in Told(streams[m])
    BY DEF Told
  <2> HIDE DEF S, p, d
  <2>5. d \in Seq(S) /\ (last = <<>> => d = p) /\ \A i \in DOMAIN d :
           (i \in DOMAIN p /\ d[i] = p[i]) \/ (i - Len(p) \in DOMAIN last /\ d[i] = last[i - Len(p)])
    BY <2>2, <2>3
  <2>6. \A i \in DOMAIN d : d[i] \in Told(streams[m]) \/ d[i].type = "close"
    BY <2>2, <2>4, <2>5
  <2>7. QED
    BY <2>2, <2>5, <2>6 DEF S, p
<1> HIDE DEF x1, d, n1, n2
<1>12. x \in Connections /\ x.mine = streams[m].mine /\ x.sse = streams[m].sse /\ x.seq = streams[m].seq
       /\ x.gone = streams[m].gone /\ x.over /\ x.at = streams[m].at /\ x.down = d
       /\ x.up = streams[m].up /\ x.body = streams[m].body /\ x.closing = x1.closing /\ x.cut = x1.cut
  BY <1>10, <1>11 DEF Connections
<1> HIDE DEF x
<1>13. LooseShape(x)
  BY <1>3, <1>4, <1>10, <1>11, <1>12 DEF LooseShape, Told
<1>14. a \in [Sids -> Sessions \union {None}]
       /\ \A j \in Sids : a[j] # None => a[j] = sessions[j] /\ sessions[j].res # m
  BY <1>1, <1>2 DEF TypeInv, Served, m
<1> HIDE DEF a
<1>15. Leaves(x, streams[m])
  BY <1>11, <1>12 DEF Leaves, Told
<1>16. Vouched(y)
  BY <1>3, <1>12, <1>13, <1>14, <1>15, StreamEnds
<1>17. RelayBecomes(y)
  BY <1>1, <1>6, <1>8, <1>9 DEF RelayBecomes
<1>18. LeftType' /\ left'.gated = left.gated
  <2>1. "goodbyes" \in Counts
    BY DEF Counts
  <2>2. QED
    BY <1>1, <2>1, LeftSpent
<1> HIDE DEF y
<1>19. QED
  BY <1>1, <1>16, <1>17, <1>18, RelayTyped

(* A lost connection keeps it (Cut).                                       *)
LEMMA CutTyped ==
    ASSUME TypeInv, NEW m \in Streams, Cut(m)
    PROVE  TypeInv' /\ (AuthInv => AuthInv')
<1> DEFINE yes == TRUE
           x == [streams[m] EXCEPT !.cut = yes]
           y == [n |-> [streams EXCEPT ![m] = x], s |-> sessions]
<1>1. streams[m] # None /\ Spend("cuts") /\ transport' = transport /\ consumer' = consumer
      /\ RelayBecomes(y)
  BY DEF Cut, RelayBecomes
<1>2. streams[m] \in Connections /\ Shape(streams[m]) /\ yes \in BOOLEAN
  BY <1>1, StreamTyped
<1>3. Relayed(Relay) /\ Relay.n = streams /\ Relay.s = sessions
  BY RelayIsRelayed
<1>4. x \in Connections /\ x.mine = streams[m].mine /\ x.sse = streams[m].sse /\ x.seq = streams[m].seq
      /\ x.gone = streams[m].gone /\ x.over = streams[m].over /\ x.at = streams[m].at
      /\ x.down = streams[m].down /\ x.up = streams[m].up /\ x.body = streams[m].body
      /\ x.closing = streams[m].closing /\ x.cut
  BY <1>2 DEF Connections
<1> HIDE DEF x
<1>5. Shape(x)
  BY <1>2, <1>4 DEF Shape, Told
<1>6. Relayed(y)
  <2>1. Relayed([n |-> [Relay.n EXCEPT ![m] = x], s |-> Relay.s])
    BY <1>1, <1>3, <1>4, <1>5, StreamSet
  <2>2. QED
    BY <1>3, <2>1
<1>7. ASSUME AuthInv PROVE Upheld(y.n, y.s) /\ OthersOpen(y.n, y.s, None)
  <2> DEFINE k == y.n
  <2>1. y.n = [streams EXCEPT ![m] = x] /\ y.s = sessions /\ streams \in Wires /\ x # None
    BY <1>4, WorldSound, NoneIsApart
  <2>2. k \in Wires /\ k[m] = x /\ \A j \in Streams : j # m => k[j] = streams[j]
    BY <1>4, <2>1 DEF Wires
  <2>3. Leaves(x, streams[m])
    BY <1>4 DEF Leaves, Told
  <2> HIDE DEF k
  <2>4. \A j \in Streams : k[j] # None => streams[j] # None /\ Leaves(k[j], streams[j])
    BY <1>1, <2>2, <2>3 DEF Leaves
  <2>5. Served(k, sessions) /\ sessions \in [Sids -> Sessions \union {None}]
    BY <1>6, <2>1 DEF Relayed, k
  <2>6. Upheld(k, sessions) /\ OthersOpen(k, sessions, None)
    BY <1>7, <2>2, <2>4, <2>5, LeavesUpheld
  <2>7. QED
    BY <2>1, <2>6 DEF k
<1>8. LeftType' /\ left'.gated = left.gated
  <2>1. "cuts" \in Counts
    BY DEF Counts
  <2>2. QED
    BY <1>1, <2>1, LeftSpent
<1>9. Vouched(y)
  BY <1>6, <1>7 DEF Vouched
<1> HIDE DEF y
<1>10. QED
  BY <1>1, <1>8, <1>9, RelayTyped

-----------------------------------------------------------------------------

(* The initial states satisfy the invariant (Init).                        *)
LEMMA InitTyped == Init => TypeInv
<1> SUFFICES ASSUME Init PROVE TypeInv
  OBVIOUS
<1>1. LeftType /\ transport.cache \in Words
  BY TransportAssumption DEF Init, LeftType
<1>2. None \in Nonces /\ \A j \in Streams : ~Own(streams, j)
  BY DEF Init, Nonces, Own
<1>3. transport \in Transports /\ transport.socket = None /\ transport.flow = None /\ transport.nonce = None
      /\ ~transport.reconnecting
  BY <1>1, <1>2 DEF Init, Transports
<1>4. consumer \in Consumers /\ consumer.up = None
  BY <1>2 DEF Init, Consumers
<1>5. streams \in Wires /\ Shapes(streams) /\ Served(streams, sessions) /\ sessions \in [Sids -> Sessions \union {None}]
  BY DEF Init, Wires, Shapes, Served
<1>6. NonceHeld(transport, consumer) /\ Reconnects(transport) /\ Numbered(transport, streams)
      /\ OwnsItsOwn(transport, streams) /\ FlowHeld(transport)
  BY <1>2, <1>3, <1>4 DEF NonceHeld, Reconnects, Numbered, OwnsItsOwn, FlowHeld, Awaiting
<1>7. QED
  BY <1>1, <1>3, <1>4, <1>5, <1>6 DEF TypeInv, WorldInv

(* No socket, no session: nobody has said anything yet.                    *)
LEMMA InitHonest == Init => AuthInv
<1> SUFFICES ASSUME Init PROVE AuthInv
  OBVIOUS
<1>1. World.t = transport /\ World.n = streams /\ transport.socket = None /\ transport.flow = None
  BY DEF World, Init
<1>2. RelayAuth(World.n, sessions, left.gated) /\ \A m \in Streams : ~Own(World.n, m)
  BY <1>1 DEF Init, Own, RelayAuth, Authorizes, BodiesAnswered, BodiesOpen
<1>3. QED
  BY <1>1, <1>2, NobodyIsHonest DEF AuthInv

(* A client's step keeps it, whatever the scenario spends.                 *)
LEMMA ClientTyped ==
    ASSUME TypeInv, \E v : Fine(v) /\ Becomes(v), sessions' = sessions,
           left' = left \/ \E kind \in Counts : Spend(kind)
    PROVE  TypeInv' /\ (AuthInv => AuthInv')
<1>1. LeftType' /\ left'.gated = left.gated
  BY LeftStays, LeftSpent
<1>2. PICK v : Fine(v) /\ Becomes(v)
  OBVIOUS
<1>3. QED
  BY <1>1, <1>2, BecomesTyped

(* Each step of the client keeps it (ClientStep).                          *)
LEMMA ClientStepTyped ==
    ASSUME TypeInv, ClientStep
    PROVE  TypeInv' /\ (AuthInv => AuthInv')
<1>1. sessions' = sessions
  BY DEF ClientStep, ConsumerSends, DialogAnswered, PasswordStored, ReconnectTimer, flush, SocketOpens,
         ReceiveMessage, HeartbeatTimesOut, CloseEvent, PostAnswered, PostFails, ReadEvent, ResponseEnds
<1>2. left' = left
  BY TransportAssumption
     DEF ClientStep, ConsumerSends, DialogAnswered, PasswordStored, ReconnectTimer, flush, SocketOpens,
         ReceiveMessage, HeartbeatTimesOut, CloseEvent, PostAnswered, PostFails, ReadEvent, ResponseEnds, Passwords
<1>3. \E v : Fine(v) /\ Becomes(v)
  <2>1. "right" \in Words
    BY DEF Words, Passwords
  <2>2. QED
    BY <2>1, ConsumerSendsSound, DialogAnsweredSound, PasswordStoredSound, ReconnectTimerSound, FlushSound,
       SocketOpensSound, ReceiveMessageSound, HeartbeatSound, CloseEventSound, PostAnsweredSound,
       PostFailsSound, ReadEventSound, ResponseEndsSound DEF ClientStep
<1>4. QED
  BY <1>1, <1>2, <1>3, ClientTyped

(* Each step of the relay keeps it (RelayStep).                            *)
LEMMA RelayStepTyped ==
    ASSUME TypeInv, RelayStep
    PROVE  TypeInv' /\ (AuthInv => AuthInv')
<1>1. ASSUME NEW m \in Streams, AcceptUpgrade(m) \/ ReadFrame(m)
      PROVE  TypeInv' /\ (AuthInv => AuthInv')
  <2>1. left' = left /\ transport' = transport /\ consumer' = consumer
    BY <1>1 DEF AcceptUpgrade, ReadFrame
  <2>2. \E y : Vouched(y) /\ RelayBecomes(y)
    BY <1>1, AcceptUpgradeSound, ReadFrameSound
  <2>3. LeftType' /\ left'.gated = left.gated
    BY <2>1, LeftStays
  <2>4. QED
    BY <2>1, <2>2, <2>3, RelayTyped
<1>2. QED
  BY <1>1, HandlePostTyped, HandlerEndsTyped DEF RelayStep

(* Each call of the transport's users keeps it.                            *)
LEMMA WishTyped ==
    ASSUME TypeInv,
           \/ acquire \/ release \/ (\E url \in BOOLEAN : setServerUrl(url)) \/ setProtocolLocked \/ close
           \/ resetCachedReplayGuard \/ ConsumerWants \/ FlushStopsWaiting
           \/ DialogAnswered("wrong") \/ DialogAnswered(None)
    PROVE  TypeInv' /\ (AuthInv => AuthInv')
<1>1. sessions' = sessions
  BY DEF acquire, release, setServerUrl, setProtocolLocked, close, resetCachedReplayGuard, ConsumerWants,
         FlushStopsWaiting, DialogAnswered
<1>2. left' = left \/ \E kind \in Counts : Spend(kind)
  <2>1. {"acquires", "releases", "urls", "locks", "closes", "unlocks", "chatter", "stalls", "typos", "cancels"}
          \subseteq Counts
    BY DEF Counts
  <2>2. QED
    BY <2>1, TransportAssumption
       DEF acquire, release, setServerUrl, setProtocolLocked, close, resetCachedReplayGuard, ConsumerWants,
           FlushStopsWaiting, DialogAnswered, Passwords
<1>3. \E v : Fine(v) /\ Becomes(v)
  <2>1. "wrong" \in Words /\ None \in Words
    BY DEF Words, Passwords
  <2>2. QED
    BY <2>1, AcquireSound, ReleaseSound, SetServerUrlSound, SetProtocolLockedSound, CloseSound, ResetSound,
       ConsumerWantsSound, FlushStopsWaitingSound, DialogAnsweredSound
<1>4. QED
  BY <1>1, <1>2, <1>3, ClientTyped

(* Every step keeps the invariant (Next).                                  *)
LEMMA NextTyped == TypeInv /\ [Next]_vars => TypeInv' /\ (AuthInv => AuthInv')
<1> SUFFICES ASSUME TypeInv, [Next]_vars PROVE TypeInv' /\ (AuthInv => AuthInv')
  OBVIOUS
<1>1. CASE Next
  BY <1>1, ClientStepTyped, RelayStepTyped, WishTyped, BroadcastTyped, RelayClosesTyped, RelayNoticesTyped,
     CutTyped DEF Next
<1>2. CASE UNCHANGED vars
  <2>1. TypeInv'
    BY <1>2 DEF vars, TypeInv, LeftType, WorldInv, Served, NonceHeld, Reconnects, MayOpen, Numbered,
                OwnsItsOwn, Own, Shapes, FlowHeld, Awaiting
  <2>2. Fine(World) /\ Becomes(World) /\ sessions' = sessions /\ left' = left
    BY <1>2, WorldFine, WorldSound DEF vars, Becomes
  <2>3. LeftType' /\ left'.gated = left.gated
    BY <2>2, LeftStays
  <2>4. AuthInv => AuthInv'
    BY <2>2, <2>3, BecomesTyped
  <2>5. QED
    BY <2>1, <2>4
<1>3. QED
  BY <1>1, <1>2

(* The invariant says at least what TypeOK says.                           *)
LEMMA TypeInvIsTypeOK == TypeInv => TypeOK
<1> SUFFICES ASSUME TypeInv PROVE TypeOK
  OBVIOUS
<1>1. WorldInv(transport, consumer, streams)
  BY DEF TypeInv
<1>2. transport.socket # None => transport.socket.dispatched <= transport.socket.postSeq /\ ~transport.reconnecting
  <2>1. Numbered(transport, streams) /\ Reconnects(transport) /\ transport.reconnecting \in BOOLEAN
    BY <1>1 DEF WorldInv, Transports
  <2>2. QED
    BY <2>1 DEF Numbered, Reconnects
<1>3. \A s \in Sids : sessions[s] # None => streams[sessions[s].res] # None
  BY DEF TypeInv, Served
<1>4. transport.nonce = consumer.up /\ (transport.nonce # None => transport.socket # None)
  BY <1>1 DEF WorldInv, NonceHeld
<1>5. QED
  BY <1>1, <1>2, <1>3, <1>4 DEF TypeOK, TypeInv, LeftType, WorldInv, Transports, Consumers, Wires

(* The state has its types (TypeOK).                                       *)
THEOREM TypeCorrect == Spec => []TypeOK
<1>1. Spec => []TypeInv
  BY InitTyped, NextTyped, PTL DEF Spec
<1>2. QED
  BY <1>1, TypeInvIsTypeOK, PTL

(* A password taken for accepted opened the session of a WebSocket, and is *)
(* the one that every POST repeats.                                        *)
LEMMA AuthInvAccepts == TypeInv /\ AuthInv => AcceptedIsAuthorized
<1> SUFFICES ASSUME TypeInv, AuthInv,
                    transport.flow # None, transport.flow.at = "keep", ~transport.flow.stale, ~consumer.misled
             PROVE  /\ left.gated => transport.flow.password = "right"
                    /\ consumer.up # None /\ sessions[consumer.up] # None =>
                          sessions[consumer.up].authed \/ AwaitsPassword(consumer.up)
  BY DEF AcceptedIsAuthorized
<1> DEFINE p == transport.flow.password
           s == consumer.up
<1>1. /\ Upheld(streams, sessions) /\ OthersOpen(streams, sessions, None)
      /\ Repeats(transport) /\ KeepsRight(transport, consumer, left.gated)
  BY AuthInvIs
<1>2. transport.socket # None /\ p # None
  BY DEF TypeInv, WorldInv, FlowHeld
<1>3. left.gated => p = "right"
  BY <1>1 DEF KeepsRight, Keeps
<1>4. ASSUME s # None, sessions[s] # None PROVE sessions[s].authed \/ AwaitsPassword(s)
  <2>1. s \in Sids
    BY <1>4 DEF TypeInv, WorldInv, Consumers, Nonces
  <2>2. CASE ~transport.socket.sse
    BY <1>1, <1>4, <2>2 DEF Upheld, KeepsOpen, Keeps
  <2>3. CASE transport.socket.sse
    <3>1. transport.socket.password = p
      BY <1>1, <1>2, <2>3 DEF Repeats
    <3>2. sessions[s].authed \/ streams[sessions[s].res].body.password # p
      BY <1>1, <1>2, <1>3, <1>4, <2>1, NoneIsApart DEF OthersOpen, Opens
    <3>3. QED
      BY <2>3, <3>1, <3>2 DEF AwaitsPassword
  <2>4. QED
    BY <2>2, <2>3
<1>5. QED
  BY <1>3, <1>4

(* When the flow takes a password for accepted, it is the operator's, and  *)
(* the session the consumers are connected under is authorized or awaits   *)
(* it (AcceptedIsAuthorized).                                              *)
THEOREM AcceptedStaysAuthorized == Spec => []AcceptedIsAuthorized
<1>1. Init => TypeInv /\ AuthInv
  BY InitTyped, InitHonest
<1>2. TypeInv /\ AuthInv /\ [Next]_vars => TypeInv' /\ AuthInv'
  BY NextTyped
<1>3. Spec => [](TypeInv /\ AuthInv)
  BY <1>1, <1>2, PTL DEF Spec
<1>4. QED
  BY <1>3, AuthInvAccepts, PTL

=============================================================================
