----------------------------- MODULE Cs1550Sem -----------------------------
(***************************************************************************)
(* The counting semaphore of Project_2/sys.c: the system calls             *)
(* sys_cs1550_down and sys_cs1550_up, the processes that make them, and    *)
(* the part of the scheduler they rely on (set_current_state, schedule,    *)
(* wake_up_process).                                                       *)
(*                                                                         *)
(* The body of each call runs between spin_lock(&sem_lock) and             *)
(* spin_unlock(&sem_lock), one lock for all semaphores, and nothing in it  *)
(* waits: a body is one step here.  What happens after the unlock is not   *)
(* atomic with it: a process that must wait first releases the lock and    *)
(* only then calls schedule(), and an up() of another process may come in  *)
(* between.  kpc[p] is the place of p in that window.                      *)
(*                                                                         *)
(* The linked list of waiting processes is a sequence here; module         *)
(* Cs1550SemList has the nodes and pointers, and implements this module.   *)
(***************************************************************************)
EXTENDS Integers, Sequences

CONSTANTS
  Proc,       \* the processes that use the semaphores
  Sem,        \* the semaphores
  InitValue,  \* the value the user program stores in each before its first call
  MaxValue    \* bound of the model: no up() on a semaphore that has this value

ASSUME SemAssumption ==
  /\ InitValue \in [Sem -> Nat]
  /\ MaxValue \in Nat

VARIABLES
  value,  \* sem->value, below zero when processes wait
  queue,  \* sem->head .. sem->tail: the waiting processes, first come first
  state,  \* task_struct.state of each process
  kpc     \* "user": outside the calls; "schedule": in down(), lock released,
          \* schedule() not yet called; "off": switched out by schedule()

vars == <<value, queue, state, kpc>>

TypeOK ==
  /\ value \in [Sem -> Int]
  /\ queue \in [Sem -> Seq(Proc)]
  /\ state \in [Proc -> {"RUNNING", "INTERRUPTIBLE"}]
  /\ kpc \in [Proc -> {"user", "schedule", "off"}]

\* The memory of the semaphores is zeroed (head and tail are NULL); the user
\* program stores the value.
Init ==
  /\ value = InitValue
  /\ queue = [s \in Sem |-> <<>>]
  /\ state = [p \in Proc |-> "RUNNING"]
  /\ kpc = [p \in Proc |-> "user"]

-----------------------------------------------------------------------------
\* Mutant: no set_current_state().
BlockAwake(p, s) ==
  /\ queue' = [queue EXCEPT ![s] = Append(@, p)]
  /\ kpc' = [kpc EXCEPT ![p] = "schedule"]
  /\ UNCHANGED state

\* The caller takes its place at the end of the list and will sleep.
Block(p, s) ==
  /\ queue' = [queue EXCEPT ![s] = Append(@, p)]
  /\ state' = [state EXCEPT ![p] = "INTERRUPTIBLE"]
  /\ kpc' = [kpc EXCEPT ![p] = "schedule"]

\* Mutant: value <= 0 for value < 0.
DownTooSoon(p, s) ==
  /\ kpc[p] = "user"
  /\ value' = [value EXCEPT ![s] = @ - 1]
  /\ IF value[s] - 1 <= 0 THEN Block(p, s) ELSE UNCHANGED <<queue, state, kpc>>

\* sys_cs1550_down(s), called by p, up to spin_unlock.
Down(p, s) ==
  /\ kpc[p] = "user"
  /\ value' = [value EXCEPT ![s] = @ - 1]
  /\ IF value[s] - 1 < 0 THEN Block(p, s) ELSE UNCHANGED <<queue, state, kpc>>

\* Mutant: last come, first woken.
WakeLast(s) ==
  LET n == Len(queue[s]) IN
  /\ queue' = [queue EXCEPT ![s] = SubSeq(@, 1, n - 1)]
  /\ state' = [state EXCEPT ![queue[s][n]] = "RUNNING"]

\* wake_up_process of the first waiting process, which leaves the list.
WakeFirst(s) ==
  /\ queue' = [queue EXCEPT ![s] = Tail(@)]
  /\ state' = [state EXCEPT ![Head(queue[s])] = "RUNNING"]

\* sys_cs1550_up(s), called by p.
Up(p, s) ==
  /\ kpc[p] = "user"
  /\ value' = [value EXCEPT ![s] = @ + 1]
  /\ IF value[s] + 1 <= 0 /\ queue[s] # <<>>
       THEN WakeFirst(s) ELSE UNCHANGED <<queue, state>>
  /\ UNCHANGED kpc

\* Mutant: set_current_state() after the lock is released.
ScheduleSetsState(p) ==
  /\ kpc[p] = "schedule"
  /\ state' = [state EXCEPT ![p] = "INTERRUPTIBLE"]
  /\ kpc' = [kpc EXCEPT ![p] = "off"]
  /\ UNCHANGED <<value, queue>>

\* p calls schedule() at the end of down(): it is switched out unless an up()
\* has already made it runnable again, and then down() returns.
Schedule(p) ==
  /\ kpc[p] = "schedule"
  /\ kpc' = [kpc EXCEPT ![p] = IF state[p] = "RUNNING" THEN "user" ELSE "off"]
  /\ UNCHANGED <<value, queue, state>>

\* The scheduler runs p again; schedule() and then down() return.
Resume(p) ==
  /\ kpc[p] = "off" /\ state[p] = "RUNNING"
  /\ kpc' = [kpc EXCEPT ![p] = "user"]
  /\ UNCHANGED <<value, queue, state>>

\* A signal wakes a process that sleeps interruptibly.  down() does not look
\* why schedule() returned, and leaves the process in the list.  Spec has no
\* signals; module TrafficSim has a specification with them.
Signal(p) ==
  /\ state[p] = "INTERRUPTIBLE"
  /\ state' = [state EXCEPT ![p] = "RUNNING"]
  /\ UNCHANGED <<value, queue, kpc>>

Kernel(p) == Schedule(p) \/ Resume(p)

\* Any program may call down() and up() on any semaphore.
Next ==
  \/ \E p \in Proc, s \in Sem : Down(p, s)
  \/ \E p \in Proc, s \in Sem : value[s] < MaxValue /\ Up(p, s)
  \/ \E p \in Proc : Kernel(p)

Spec == Init /\ [][Next]_vars /\ \A p \in Proc : WF_vars(Kernel(p))

-----------------------------------------------------------------------------
Min0(n) == IF n < 0 THEN -n ELSE 0

\* A value below zero counts the processes in the list: up() decides from the
\* value alone that there is somebody to wake, and it is right.
ListMatchesValue == \A s \in Sem : Len(queue[s]) = Min0(value[s])

\* p stands in the list of some semaphore.
Listed(p) == \E s \in Sem : \E i \in 1..Len(queue[s]) : queue[s][i] = p

\* A process waits for one semaphore at a time and stands once in its list.
WaitsOnce ==
  \A s, t \in Sem : \A i \in 1..Len(queue[s]), j \in 1..Len(queue[t]) :
    queue[s][i] = queue[t][j] => s = t /\ i = j

\* No wake-up is lost, and none comes early: a process sleeps exactly as long
\* as it stands in a list, whatever the order of unlock, up() and schedule().
SleepsIffListed == \A p \in Proc : state[p] = "INTERRUPTIBLE" <=> Listed(p)

\* A process outside the calls is running: down() never returns to a process
\* that was not given its unit.
UserRuns == \A p \in Proc : kpc[p] = "user" => state[p] = "RUNNING"

\* A process that was woken returns from down(), even if it was woken between
\* spin_unlock and schedule().
WokenReturns ==
  \A p \in Proc : (kpc[p] # "user" /\ state[p] = "RUNNING") ~> kpc[p] = "user"

-----------------------------------------------------------------------------
(***************************************************************************)
(* The promise to the users of the semaphores, module FifoSemaphore: the   *)
(* free units are the value where it is positive, and a process that was   *)
(* woken has its unit although its down() has not returned.                *)
(***************************************************************************)
Promise == INSTANCE FifoSemaphore WITH
  free    <- [s \in Sem |-> IF value[s] > 0 THEN value[s] ELSE 0],
  waiting <- queue,
  status  <- [p \in Proc |->
                IF state[p] = "INTERRUPTIBLE" THEN "waiting"
                ELSE IF kpc[p] = "user" THEN "running" ELSE "granted"]

\* The system calls implement the semaphore with direct hand-over in order of
\* arrival: no unit is made or lost, and none is taken past a waiting process.
KeepsPromise == Promise!Spec

=============================================================================
