-------------------------- MODULE MCReportPresence --------------------------
(***************************************************************************)
(* Instances of ReportPresence for TLC: how often each thing happens.      *)
(***************************************************************************)
EXTENDS ReportPresence

(* The kinds given happen as often as they are listed, the others never.   *)
Times(counts) ==
    [k \in Kinds \union {"late"} |->
        IF k \in DOMAIN counts THEN counts[k] ELSE IF k = "late" THEN FALSE ELSE 0]

(* Peers put, replace and delete while the copy changes here.              *)
Reconciling ==
    {Times([peerPuts |-> 2, saves |-> 1]),
     Times([peerPuts |-> 2, peerDeletes |-> 1]),
     Times([peerPuts |-> 1, peerDeletes |-> 1, saves |-> 1]),
     Times([peerPuts |-> 2, late |-> TRUE])}

(* The user uploads, replaces, deletes and re-checks meanwhile.            *)
Working ==
    {Times([peerPuts |-> 1, peerDeletes |-> 1, uploads |-> 1]),
     Times([peerPuts |-> 1, uploads |-> 1, late |-> TRUE]),
     Times([uploads |-> 1, saves |-> 1]),
     Times([peerDeletes |-> 1, replaces |-> 1]),
     Times([peerPuts |-> 1, peerDeletes |-> 1, deletes |-> 1]),
     Times([peerPuts |-> 1, rechecks |-> 1]),
     Times([peerDeletes |-> 1, rechecks |-> 1]),
     Times([saves |-> 1, rechecks |-> 1]),
     Times([deletes |-> 1, rechecks |-> 1])}

(* The page is reloaded, the socket drops, a request fails.                *)
Disturbed ==
    {Times([peerPuts |-> 2, reloads |-> 1]),
     Times([peerPuts |-> 1, peerDeletes |-> 1, reloads |-> 1]),
     Times([peerPuts |-> 1, saves |-> 1, reloads |-> 1]),
     Times([peerPuts |-> 1, deletes |-> 1, reloads |-> 1]),
     Times([replaces |-> 1, reloads |-> 1]),
     Times([peerPuts |-> 1, peerDeletes |-> 1, drops |-> 1]),
     Times([peerPuts |-> 1, uploads |-> 1, drops |-> 1]),
     Times([peerDeletes |-> 1, deletes |-> 1, drops |-> 1]),
     Times([peerPuts |-> 1, replaces |-> 1, failures |-> 1]),
     Times([deletes |-> 1, failures |-> 1]),
     Times([rechecks |-> 1, failures |-> 1])}

AllScenarios == Reconciling \union Working \union Disturbed

=============================================================================
