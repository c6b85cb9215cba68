--------------------------- MODULE FifoSemaphore ---------------------------
(***************************************************************************)
(* What the semaphore of Project_2/sys.c promises its users, with no task  *)
(* states and no pointers: a semaphore holds a number of free units; a     *)
(* process that finds none waits; a unit that is given back goes to the    *)
(* process that has waited longest, and only to that one; a process goes   *)
(* on only with its unit.                                                  *)
(***************************************************************************)
EXTENDS Naturals, Sequences

CONSTANTS Proc, Sem, InitValue

VARIABLES
  free,     \* the units nobody holds
  waiting,  \* the processes that wait for a unit, longest wait first
  status    \* "running", "waiting", or "granted": has its unit, not yet back

vars == <<free, waiting, status>>

Init ==
  /\ free = InitValue
  /\ waiting = [s \in Sem |-> <<>>]
  /\ status = [p \in Proc |-> "running"]

Take(p, s) ==
  /\ status[p] = "running" /\ free[s] > 0
  /\ free' = [free EXCEPT ![s] = @ - 1]
  /\ UNCHANGED <<waiting, status>>

Wait(p, s) ==
  /\ status[p] = "running" /\ free[s] = 0
  /\ waiting' = [waiting EXCEPT ![s] = Append(@, p)]
  /\ status' = [status EXCEPT ![p] = "waiting"]
  /\ UNCHANGED free

GiveBack(p, s) ==
  /\ status[p] = "running" /\ waiting[s] = <<>>
  /\ free' = [free EXCEPT ![s] = @ + 1]
  /\ UNCHANGED <<waiting, status>>

HandOver(p, s) ==
  /\ status[p] = "running" /\ waiting[s] # <<>>
  /\ status' = [status EXCEPT ![Head(waiting[s])] = "granted"]
  /\ waiting' = [waiting EXCEPT ![s] = Tail(@)]
  /\ UNCHANGED free

GoOn(p) ==
  /\ status[p] = "granted"
  /\ status' = [status EXCEPT ![p] = "running"]
  /\ UNCHANGED <<free, waiting>>

Next ==
  \/ \E p \in Proc, s \in Sem :
       Take(p, s) \/ Wait(p, s) \/ GiveBack(p, s) \/ HandOver(p, s)
  \/ \E p \in Proc : GoOn(p)

Spec == Init /\ [][Next]_vars /\ \A p \in Proc : WF_vars(GoOn(p))

=============================================================================
