------------------------------ MODULE CarLanes ------------------------------
(***************************************************************************)
(* What the traffic simulator promises: the cars of each direction wait in *)
(* a lane with BufferSize places, pass in the order in which they came,    *)
(* one at a time, and none waits for ever.  Cars of a direction are        *)
(* numbered 0, 1, ... BufferSize - 1, 0, ... as they come.                 *)
(***************************************************************************)
EXTENDS Naturals, Sequences

CONSTANTS Dir, BufferSize

VARIABLES
  lane,  \* the cars that wait in each direction, the first to come at the head
  last   \* the number the next car of each direction gets

vars == <<lane, last>>

Init ==
  /\ lane = [d \in Dir |-> <<>>]
  /\ last = [d \in Dir |-> 0]

Enter(d) ==
  /\ Len(lane[d]) < BufferSize
  /\ lane' = [lane EXCEPT ![d] = Append(@, last[d])]
  /\ last' = [last EXCEPT ![d] = (@ + 1) % BufferSize]

Pass(d) ==
  /\ lane[d] # <<>>
  /\ lane' = [lane EXCEPT ![d] = Tail(@)]
  /\ UNCHANGED last

Next == \E d \in Dir : Enter(d) \/ Pass(d)

Spec == Init /\ [][Next]_vars /\ \A d \in Dir : WF_vars(Pass(d))

=============================================================================
