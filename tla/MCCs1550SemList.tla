-------------------------- MODULE MCCs1550SemList --------------------------
(* An instance of Cs1550SemList for TLC. *)
EXTENDS Cs1550SemList, TLC

CONSTANTS p1, p2, p3, s1, s2

MCInitValue == s1 :> 1 @@ s2 :> 0

=============================================================================
