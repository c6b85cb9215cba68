-------------------------- MODULE MCNotifierChain --------------------------
(* Three blocks, two of them of one priority. *)
EXTENDS NotifierChain, TLC

CONSTANTS n1, n2, n3, c1, c2

MCPriority == n1 :> 0 @@ n2 :> 0 @@ n3 :> 1

MCLimit == c1 :> {-1} @@ c2 :> {-1, 1}

=============================================================================
