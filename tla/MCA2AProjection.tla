-------------------------- MODULE MCA2AProjection --------------------------
(***************************************************************************)
(* A2AProjection for TLC: two turns with a few events each.  The turns are *)
(* interchangeable, and every property checked is an invariant.            *)
(***************************************************************************)
EXTENDS A2AProjection, TLC

CONSTANTS t1, t2

MCTurns == {t1, t2}
MCSymmetry == Permutations(MCTurns)

=============================================================================
