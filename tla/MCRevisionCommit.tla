-------------------------- MODULE MCRevisionCommit --------------------------
(***************************************************************************)
(* RevisionCommit on small instances.                                      *)
(***************************************************************************)
EXTENDS RevisionCommit, TLC

CONSTANTS q1, q2, q3, a, b, c, f

(* Requests and ids that TLC may swap: no instance that uses this names    *)
(* one of them in Gated or Oversize.                                       *)
RequestAndIdSymmetry == Permutations({q1, q2, q3}) \union Permutations({a, b, c})

=============================================================================
