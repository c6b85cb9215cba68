-------------------------- MODULE FixedLengthQueue --------------------------
(***************************************************************************)
(* Project_3/FixedLengthQueue.java: an array and the index of the slot     *)
(* that the next element goes to.                                          *)
(***************************************************************************)
EXTENDS Integers, Sequences

CONSTANTS
  Size,     \* frames.length
  Element,  \* what is queued
  Null      \* in the slots not used yet

VARIABLES frames, index

vars == <<frames, index>>

Slot == 0..Size - 1

TypeOK == frames \in [Slot -> Element \cup {Null}] /\ index \in Slot

Init == frames = [i \in Slot |-> Null] /\ index = 0

\* nextIndex
NextSlot(i) == IF i + 1 >= Size THEN 0 ELSE i + 1

\* Mutant: the index stays where it is when the queue is full.
OfferStay(x) ==
  /\ frames' = [frames EXCEPT ![index] = x]
  /\ index' = IF frames[index] = Null THEN NextSlot(index) ELSE index

\* add, offer
Offer(x) ==
  /\ frames' = [frames EXCEPT ![index] = x]
  /\ index' = NextSlot(index)

\* getHeadIndex
HeadIndex == IF index = 0 THEN Size - 1 ELSE index - 1

\* peek, element
Peek == frames[HeadIndex]

-----------------------------------------------------------------------------
Full == \A i \in Slot : frames[i] # Null

\* The slots in the order in which they were filled.
Oldest(k) == IF Full THEN (index + k) % Size ELSE k

\* The elements, oldest first.
InOrder == [k \in 1..IF Full THEN Size ELSE index |-> frames[Oldest(k - 1)]]

=============================================================================
