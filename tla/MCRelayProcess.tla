---------------------------- MODULE MCRelayProcess ----------------------------
(***************************************************************************)
(* RelayProcess on a small instance.                                       *)
(***************************************************************************)
EXTENDS RelayProcess, TLC

CONSTANTS w1, s1, j1, j2, n1

=============================================================================
