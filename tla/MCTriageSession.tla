-------------------------- MODULE MCTriageSession --------------------------
(***************************************************************************)
(* Instances of TriageSession for TLC: who edits what, and what goes wrong. *)
(***************************************************************************)
EXTENDS TriageSession

CONSTANTS c1, c2, f1, f2, color, comment, v1, v2, v3

Edit(c, i, p, v) == [by |-> c, id |-> i, field |-> p, value |-> v]

(* Two users meet on one field, and one of them also edits another field.  *)
CrossedEdits == {Edit(c1, f1, color, v1), Edit(c2, f1, color, v2), Edit(c1, f1, comment, v3)}

(* One edit each, of the same field.                                       *)
SameField == {Edit(c1, f1, color, v1), Edit(c2, f1, color, v2)}

(* One user feeds a silent peer, with one finding or two.                  *)
ShortFeed == {Edit(c1, f1, color, v1), Edit(c1, f1, color, v2)}
PairFeed == {Edit(c1, f1, color, v1), Edit(c1, f2, color, v2)}

Faultless == [edits |-> CrossedEdits, faults |-> {}, sse |-> FALSE]
OverRest == [edits |-> SameField, faults |-> {}, sse |-> TRUE]
LostAnswer == [edits |-> ShortFeed, faults |-> {"rest"}, sse |-> TRUE]
Failures == [edits |-> SameField, faults |-> {"disconnect", "busy", "refuse"}, sse |-> FALSE]
FailingKey == [edits |-> SameField, faults |-> {"crypto"}, sse |-> FALSE]
FailingTwice == [edits |-> ShortFeed, faults |-> {"crypto"}, sse |-> FALSE]
ChainLost == [edits |-> SameField, faults |-> {"wipe"}, sse |-> FALSE]
OrphanedWrite == [edits |-> SameField, faults |-> {"orphan"}, sse |-> FALSE]
LateBroadcast == [edits |-> PairFeed, faults |-> {"late"}, sse |-> FALSE]
Reloaded == [edits |-> ShortFeed, faults |-> {"reload"}, sse |-> FALSE]

SafetyScenarios ==
    {Faultless, OverRest, LostAnswer, Failures, FailingKey, FailingTwice, LateBroadcast, Reloaded,
     ChainLost, OrphanedWrite}

(* For liveness: the faults whose recovery is a ladder of retries, and a   *)
(* write of local storage that outlasts a reconnect.                       *)
LadderScenarios ==
    {[edits |-> SameField, faults |-> kinds, sse |-> FALSE] : kinds \in {{"wipe", "busy"}, {"orphan"}}}

=============================================================================
