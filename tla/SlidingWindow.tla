--------------------------- MODULE SlidingWindow ---------------------------
(***************************************************************************)
(* What Project_3/FixedLengthQueue.java promises: it holds the newest Size *)
(* elements that were offered, and an element that is offered to the full  *)
(* queue replaces the oldest.                                              *)
(***************************************************************************)
EXTENDS Naturals, Sequences

CONSTANTS Size, Element

VARIABLE window  \* the elements, oldest first

Init == window = <<>>

Grow(x) == Len(window) < Size /\ window' = Append(window, x)

Replace(x) == Len(window) = Size /\ window' = Append(Tail(window), x)

Next == \E x \in Element : Grow(x) \/ Replace(x)

Spec == Init /\ [][Next]_window

=============================================================================
