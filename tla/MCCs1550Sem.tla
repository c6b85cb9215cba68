---------------------------- MODULE MCCs1550Sem ----------------------------
(* Instances of Cs1550Sem for TLC. *)
EXTENDS Cs1550Sem, TLC

CONSTANTS p1, p2, p3, s1, s2

\* One semaphore used as a lock and one that starts with no unit, as mutex and
\* full_north of trafficsim.c.
MCInitValue == s1 :> 1 @@ s2 :> 0

Symmetric == Permutations(Proc)
=============================================================================
