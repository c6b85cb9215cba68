------------------------------ MODULE MCGroups ------------------------------
(* An instance of Groups for TLC: lists of up to five groups, so that the    *)
(* sort makes a pass with a stride of four, and groups 0 and 9 of four bits, *)
(* whose difference is no int.                                               *)
EXTENDS Groups, TLC

Renaming == Permutations(Task) \cup Permutations(Info \ {init_groups})

=============================================================================
