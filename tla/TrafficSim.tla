----------------------------- MODULE TrafficSim -----------------------------
(***************************************************************************)
(* The traffic simulator Project_2/trafficsim.c: two producers put cars    *)
(* into the queue of their direction and the flagperson takes them out,    *)
(* three processes forked by main that share the buffers, two flags and    *)
(* five semaphores.  The semaphores are those of module Cs1550Sem.         *)
(*                                                                         *)
(* A step is what a process does between two accesses to memory that       *)
(* another process may change at that moment.  Accesses to the buffers and *)
(* their indices are made while holding mutex (or by the only process that *)
(* uses the variable) and join the step next to them.  The flags sleeping  *)
(* and blown and the values of the semaphores are read and written with no *)
(* lock, and each such access is a step of its own.  Time is left out:     *)
(* sleep() is a process that takes no step for a while.                    *)
(***************************************************************************)
EXTENDS Integers, Sequences

CONSTANT BufferSize  \* BUFFER_SIZE, also the 10 of "queue full"

ASSUME BufferAssumption == BufferSize \in Nat \ {0}

Dir == {"north", "south"}
Flag == "flagperson"
Proc == Dir \cup {Flag}

Full == [north |-> "full_north", south |-> "full_south"]
Empty == [north |-> "empty_north", south |-> "empty_south"]
Mutex == "mutex"
Sem == {"full_north", "full_south", "empty_north", "empty_south", Mutex}

Other == [north |-> "south", south |-> "north"]

\* The values main() stores before it forks.
InitValue == [s \in Sem |-> IF s = Mutex THEN 1
                            ELSE IF s \in {"empty_north", "empty_south"}
                                   THEN BufferSize ELSE 0]

VARIABLES
  value, queue, state, kpc,  \* the semaphores and the kernel: Cs1550Sem
  buf,                       \* north_buf and south_buf: car numbers
  prod,                      \* *prod_north and *prod_south, the "in" index
  cons,                      \* *cons_north and *cons_south, the "out" index
  sleeping, blown,           \* the two flags
  pc,                        \* the next statement of each process
  side                       \* the loop the flagperson is in

kvars == <<value, queue, state, kpc>>
road == <<buf, prod, cons>>
flags == <<sleeping, blown>>
vars == <<value, queue, state, kpc, buf, prod, cons, sleeping, blown, pc, side>>

K == INSTANCE Cs1550Sem WITH MaxValue <- BufferSize

Index == 0..BufferSize - 1

ProducerPc ==
  {"down_empty", "down_mutex", "arrive", "horn", "leave", "up_full", "gap"}
FlagPc ==
  {"poll_north", "poll_south", "doze", "wake", "clear_horn", "loop",
   "down_full", "down_mutex", "depart", "up_empty", "switch"}

TypeOK ==
  /\ K!TypeOK
  /\ buf \in [Dir -> [Index -> Index]]
  /\ prod \in [Dir -> Index]
  /\ cons \in [Dir -> Index]
  /\ sleeping \in BOOLEAN /\ blown \in BOOLEAN
  /\ pc \in [Proc -> ProducerPc \cup FlagPc]
  /\ \A d \in Dir : pc[d] \in ProducerPc
  /\ pc[Flag] \in FlagPc
  /\ side \in Dir

Init ==
  /\ K!Init
  /\ buf = [d \in Dir |-> [i \in Index |-> 0]]
  /\ prod = [d \in Dir |-> 0]
  /\ cons = [d \in Dir |-> 0]
  /\ sleeping = FALSE /\ blown = FALSE
  /\ pc = [p \in Proc |-> IF p = Flag THEN "poll_north" ELSE "down_empty"]
  /\ side = "north"

-----------------------------------------------------------------------------
\* p runs its statement "from" and goes on at "to".
Goto(p, from, to) ==
  /\ pc[p] = from /\ kpc[p] = "user"
  /\ pc' = [pc EXCEPT ![p] = to]

Incr(i) == (i + 1) % BufferSize

(* The producer of direction d, an endless loop.                           *)

\* Mutant: no down(empty).
ClaimNothing(d) ==
  /\ Goto(d, "down_empty", "down_mutex")
  /\ UNCHANGED <<kvars, road, flags, side>>

ClaimSlot(d) ==
  /\ Goto(d, "down_empty", "down_mutex")
  /\ K!Down(d, Empty[d])
  /\ UNCHANGED <<road, flags, side>>

EnterProducer(d) ==
  /\ Goto(d, "down_mutex", "arrive")
  /\ K!Down(d, Mutex)
  /\ UNCHANGED <<road, flags, side>>

\* The car goes into the buffer, and the producer reads sleeping.
Arrive(d) ==
  /\ Goto(d, "arrive", IF sleeping THEN "horn" ELSE "leave")
  /\ buf' = [buf EXCEPT ![d][prod[d] % BufferSize] = prod[d]]
  /\ UNCHANGED <<kvars, prod, cons, flags, side>>

\* The producer read sleeping as set: it reads blown, and blows the horn if it is
\* clear.  One step for the read and the store: between them only the flagperson
\* can store, and then it clears the horn, which is as if it had done so before.
Horn(d) ==
  /\ Goto(d, "horn", "leave")
  /\ blown' = TRUE
  /\ UNCHANGED <<kvars, road, sleeping, side>>

Leave(d) ==
  /\ Goto(d, "leave", "up_full")
  /\ prod' = [prod EXCEPT ![d] = Incr(@)]
  /\ K!Up(d, Mutex)
  /\ UNCHANGED <<buf, cons, flags, side>>

\* The car is announced; then, by chance, none comes for 20 seconds.
Announce(d) ==
  /\ \E to \in {"down_empty", "gap"} : Goto(d, "up_full", to)
  /\ K!Up(d, Full[d])
  /\ UNCHANGED <<road, flags, side>>

EndGap(d) ==
  /\ Goto(d, "gap", "down_empty")
  /\ UNCHANGED <<kvars, road, flags, side>>

Producer(d) ==
  \/ ClaimSlot(d) \/ EnterProducer(d) \/ Arrive(d) \/ Horn(d)
  \/ Leave(d) \/ Announce(d) \/ EndGap(d)

-----------------------------------------------------------------------------
(* The flagperson, an endless loop.                                        *)

\* full_north->value == 0 && full_south->value == 0, read one after the other.
Poll(d) ==
  /\ Goto(Flag, IF d = "north" THEN "poll_north" ELSE "poll_south",
          IF value[Full[d]] # 0 THEN "wake"
          ELSE IF d = "north" THEN "poll_south" ELSE "doze")
  /\ UNCHANGED <<kvars, road, flags, side>>

Doze ==
  /\ Goto(Flag, "doze", "poll_north")
  /\ sleeping' = TRUE
  /\ UNCHANGED <<kvars, road, blown, side>>

\* Awake: the flags are cleared one after the other, if sleeping was set.
Wake ==
  /\ Goto(Flag, "wake", IF sleeping THEN "clear_horn" ELSE "loop")
  /\ sleeping' = FALSE
  /\ side' = "north"
  /\ UNCHANGED <<kvars, road, blown>>

ClearHorn ==
  /\ Goto(Flag, "clear_horn", "loop")
  /\ blown' = FALSE
  /\ UNCHANGED <<kvars, road, sleeping, side>>

\* Where the loop of the current side ends: on to the south, or poll again.
EndLoop ==
  /\ Goto(Flag, pc[Flag], IF side = "north" THEN "loop" ELSE "poll_north")
  /\ side' = "south"

\* Mutant: do ... while.
LoopBlind ==
  /\ Goto(Flag, "loop", "down_full")
  /\ UNCHANGED <<kvars, road, flags, side>>

\* while (full->value > 0)
Loop ==
  /\ pc[Flag] = "loop"
  /\ IF value[Full[side]] > 0
       THEN Goto(Flag, "loop", "down_full") /\ UNCHANGED side
       ELSE EndLoop
  /\ UNCHANGED <<kvars, road, flags>>

TakeCar ==
  /\ Goto(Flag, "down_full", "down_mutex")
  /\ K!Down(Flag, Full[side])
  /\ UNCHANGED <<road, flags, side>>

\* Mutant: no down(mutex).
EnterUnlocked ==
  /\ Goto(Flag, "down_mutex", "depart")
  /\ UNCHANGED <<kvars, road, flags, side>>

EnterFlag ==
  /\ Goto(Flag, "down_mutex", "depart")
  /\ K!Down(Flag, Mutex)
  /\ UNCHANGED <<road, flags, side>>

\* The car at the "out" index passes, which takes 2 seconds.
Depart ==
  /\ Goto(Flag, "depart", "up_empty")
  /\ cons' = [cons EXCEPT ![side] = Incr(@)]
  /\ K!Up(Flag, Mutex)
  /\ UNCHANGED <<buf, prod, flags, side>>

\* Mutant: the slot goes to the other side.
FreeOther ==
  /\ Goto(Flag, "up_empty", "switch")
  /\ K!Up(Flag, Empty[Other[side]])
  /\ UNCHANGED <<road, flags, side>>

FreeSlot ==
  /\ Goto(Flag, "up_empty", "switch")
  /\ K!Up(Flag, Empty[side])
  /\ UNCHANGED <<road, flags, side>>

\* Mutant: no break.
NoSwitch ==
  /\ Goto(Flag, "switch", "loop")
  /\ UNCHANGED <<kvars, road, flags, side>>

\* The queue of the other side is full: leave this loop.
Switch ==
  /\ pc[Flag] = "switch"
  /\ IF value[Full[Other[side]]] = BufferSize
       THEN EndLoop
       ELSE Goto(Flag, "switch", "loop") /\ UNCHANGED side
  /\ UNCHANGED <<kvars, road, flags>>

Flagperson ==
  \/ \E d \in Dir : Poll(d)
  \/ Doze \/ Wake \/ ClearHorn \/ Loop \/ TakeCar \/ EnterFlag \/ Depart
  \/ FreeSlot \/ Switch

-----------------------------------------------------------------------------
\* p is inside down(): it waits, or is on its way back.
InKernel(p) == K!Kernel(p) /\ UNCHANGED <<road, flags, pc, side>>

Program(p) == IF p = Flag THEN Flagperson ELSE Producer(p)

Next == \E p \in Proc : Program(p) \/ InKernel(p)

\* Every process that can run is run again and again by the scheduler.
Spec == Init /\ [][Next]_vars /\ \A p \in Proc : WF_vars(Program(p) \/ InKernel(p))

Interrupt(p) == K!Signal(p) /\ UNCHANGED <<road, flags, pc, side>>

SignalSpec == Init /\ [][Next \/ \E p \in Proc : Interrupt(p)]_vars

-----------------------------------------------------------------------------
\* p is between its down(mutex) and its up(mutex).
InCritical(p) ==
  /\ kpc[p] = "user"
  /\ pc[p] \in IF p = Flag THEN {"depart"} ELSE {"arrive", "horn", "leave"}

\* One process at a time uses the buffers, whatever way it came through the
\* list of mutex.
MutualExclusion == \A p, q \in Proc : InCritical(p) /\ InCritical(q) => p = q

One(b) == IF b THEN 1 ELSE 0

\* The flagperson has taken a unit of full and not yet moved the "out" index.
Taken(d) == side = d /\ pc[Flag] \in {"down_mutex", "depart"}

\* The cars of direction d that are in the buffer: announced, put there but not
\* announced yet, or about to be taken out.
Cars(d) == value[Full[d]] + One(pc[d] = "up_full") + One(Taken(d))

\* The flagperson alone takes units of full, so that the value it read with no
\* lock is still there when it calls down(full): it never waits for a car with
\* its eyes on one side only.
NeverWaitsOnFull ==
  \A d \in Dir : value[Full[d]] >= 0 /\ queue[Full[d]] = <<>>

\* The producer of d asked for a slot (it may still wait for it), and has not
\* moved the "in" index.
Claimed(d) == pc[d] \in {"down_mutex", "arrive", "horn", "leave"}

\* The flagperson emptied a slot and has not given it back.
Freed(d) == side = d /\ pc[Flag] = "up_empty"

\* Each slot of a buffer is counted once: free, claimed, with a car, or emptied.
SlotsAccounted ==
  \A d \in Dir :
    value[Empty[d]] + One(Claimed(d)) + Cars(d) + One(Freed(d)) = BufferSize

\* The indices, which know nothing of the semaphores, stay as far apart as
\* the semaphores say that there are cars: no car is overwritten before it
\* passed, and none passes twice.
IndicesAgree ==
  \A d \in Dir :
    /\ Cars(d) \in 0..BufferSize
    /\ (cons[d] + Cars(d)) % BufferSize = prod[d]
    /\ InCritical(d) => Cars(d) < BufferSize

-----------------------------------------------------------------------------
Lanes == INSTANCE CarLanes WITH
  lane <- [d \in Dir |-> [i \in 1..Cars(d) |->
                          buf[d][(cons[d] + i - 1) % BufferSize]]],
  last <- prod

\* Two bounded first-in first-out lanes: no car is lost, passes twice or
\* overtakes, and each one passes in the end, however busy the other side is.
KeepsLanes == Lanes!Spec

\* Nobody who waits in down() waits for ever: the producers get the mutex and
\* a slot, the flagperson gets the mutex.
EveryoneGoesOn == \A p \in Proc : kpc[p] # "user" ~> kpc[p] = "user"

=============================================================================
