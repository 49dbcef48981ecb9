---------------------------- MODULE RevisionChain ----------------------------
(***************************************************************************)
(* What the relay promises of one workspace's revision chain, however many *)
(* replicas serve it: one sequence that only grows at its end, each        *)
(* revision building on the one before, and truthful answers to saves.     *)
(***************************************************************************)
EXTENDS Naturals, Sequences

CONSTANTS Requests, Ids, Foreign, NoBase

VARIABLES
    log,        \* the chain, oldest revision first
    answers,    \* the answers given so far, one per request
    announced   \* ids broadcast to subscribers

vars == <<log, answers, announced>>

HeadOf(l) == IF l = <<>> THEN NoBase ELSE l[Len(l)].id

IdsIn(l) == {l[n].id : n \in DOMAIN l}

(* The first position of a catch-up from base b: right after b, or, when   *)
(* the chain does not hold b, a keyframe or the root.                      *)
Entries(b) ==
    IF b \in IdsIn(log) THEN {n \in 2 .. Len(log) : log[n - 1].id = b}
    ELSE {1} \union {n \in DOMAIN log : log[n].keyframe}

Unanswered(q) == \A a \in answers : a.req # q

Init == log = <<>> /\ answers = {} /\ announced = {}

(* The only way the chain changes: a compare-and-set on its head.          *)
Commit(r) ==
    /\ r.id \notin IdsIn(log)
    /\ r.base = HeadOf(log)
    /\ log' = Append(log, r)
    /\ UNCHANGED <<answers, announced>>

(* An accepted save is in the chain; the one that put it there, or may     *)
(* have, is broadcast.                                                     *)
Accept(q, r, kind) ==
    /\ r.id \in IdsIn(log)
    /\ announced' = IF kind = "ack" THEN announced \union {r.id} ELSE announced
    /\ answers' = answers \union {[req |-> q, kind |-> kind, rev |-> r, tail |-> {}]}
    /\ UNCHANGED log

(* A save whose base is not the head is answered with the chain from one   *)
(* of its entry points to the head.                                        *)
RejectStale(q, r, n) ==
    /\ r.id \notin IdsIn(log)
    /\ r.base # HeadOf(log)
    /\ n \in Entries(r.base)
    /\ answers' = answers \union {[req |-> q, kind |-> "stale-base", rev |-> r,
                                   tail |-> {log[m].id : m \in n .. Len(log)}]}
    /\ UNCHANGED <<log, announced>>

(* A refusal or a failure says nothing of the chain.                       *)
Refuse(q, r, kind) ==
    /\ answers' = answers \union {[req |-> q, kind |-> kind, rev |-> r, tail |-> {}]}
    /\ UNCHANGED <<log, announced>>

Revision == [id : Ids, base : Ids \union Foreign \union {NoBase}, keyframe : BOOLEAN]

Next ==
    \/ \E r \in Revision : Commit(r)
    \/ \E q \in Requests :
          /\ Unanswered(q)
          /\ \E r \in Revision :
                \/ \E kind \in {"ack", "duplicate"} : Accept(q, r, kind)
                \/ \E n \in 1 .. Len(log) + 1 : RejectStale(q, r, n)
                \/ \E kind \in {"too-large", "unauthorized", "failed"} : Refuse(q, r, kind)

Spec == Init /\ [][Next]_vars

=============================================================================
