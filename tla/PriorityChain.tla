--------------------------- MODULE PriorityChain ---------------------------
(***************************************************************************)
(* What the notifier chains of Project_2/sys.c promise about their order:  *)
(* a block stands behind every block of its priority or a higher one that  *)
(* was registered before it.                                               *)
(***************************************************************************)
EXTENDS Integers, Sequences

CONSTANTS Block, Priority

VARIABLE chain  \* the blocks, in the order in which they are called

Init == chain = <<>>

\* The first k blocks, and they only, have the priority of n or a higher one.
Add(n) ==
  /\ \A i \in 1..Len(chain) : chain[i] # n
  /\ \E k \in 0..Len(chain) :
       /\ \A i \in 1..Len(chain) : i <= k <=> Priority[chain[i]] >= Priority[n]
       /\ chain' = SubSeq(chain, 1, k) \o <<n>> \o SubSeq(chain, k + 1, Len(chain))

Drop(n) ==
  \E k \in 1..Len(chain) :
    /\ chain[k] = n
    /\ chain' = SubSeq(chain, 1, k - 1) \o SubSeq(chain, k + 1, Len(chain))

Next == \E n \in Block : Add(n) \/ Drop(n)

Spec == Init /\ [][Next]_chain

=============================================================================
