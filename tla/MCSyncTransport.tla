-------------------------- MODULE MCSyncTransport --------------------------
(***************************************************************************)
(* Instances of SyncTransport for TLC: what the user, the network and the  *)
(* relay's operator do, each so often.                                     *)
(***************************************************************************)
EXTENDS SyncTransport, TLC

Given(counts, ws, gated, cache) ==
    [k \in Counts |-> IF k \in DOMAIN counts THEN counts[k] ELSE 0]
      @@ [ws |-> ws, gated |-> gated, cache |-> cache]

Once(kinds) == [k \in kinds |-> 1]

(* An open relay: over WebSocket, and over SSE when upgrades are refused.  *)
Socket(counts) == Given(counts, TRUE, FALSE, None)
Fallback(counts) == Given(counts, FALSE, FALSE, None)

(* Handles, URLs and locks come and go.                                    *)
Wanting ==
    {Socket([acquires |-> 2, releases |-> 2, locks |-> 2]),
     Socket([acquires |-> 1, urls |-> 2, closes |-> 1]),
     Fallback([acquires |-> 2, releases |-> 1, urls |-> 1]),
     Fallback([acquires |-> 1, locks |-> 2, closes |-> 1]),
     Given(Once({"acquires", "releases", "urls", "locks"}), TRUE, TRUE, None)}

(* Two POSTs and more of one session, which is broadcast to meanwhile.     *)
Streaming ==
    {Fallback(Once({"acquires", "data", "chatter", kind})) : kind \in {"hops", "cuts", "goodbyes", "stalls"}}
    \union {Fallback([acquires |-> 1, chatter |-> 1, hops |-> 2])}

(* The relay asks for a password.                                          *)
Asking ==
    {Given(Once({"acquires", "chatter"}), FALSE, TRUE, "wrong"),
     Given(Once({"acquires", "cuts", "typos", "cancels"}), TRUE, TRUE, "wrong"),
     Given(Once({"acquires", "cuts", "unlocks"}), FALSE, TRUE, None),
     Given(Once({"acquires", "hops"}), FALSE, TRUE, "right")}

AllScenarios == Wanting \union Streaming \union Asking

=============================================================================
