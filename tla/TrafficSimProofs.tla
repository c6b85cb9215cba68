-------------------------- MODULE TrafficSimProofs --------------------------
(***************************************************************************)
(* Proofs about TrafficSim, for buffers of any size.  What the semaphores  *)
(* do is taken from the proofs about Cs1550Sem; what is added here is who  *)
(* holds mutex, who takes units of full, and where each slot of a buffer   *)
(* is counted.  With that, the buffers are the lanes of CarLanes.          *)
(***************************************************************************)
EXTENDS TrafficSim, TLAPS

KP == INSTANCE Cs1550SemProofs WITH MaxValue <- BufferSize

\* q stands in the list of s.
InList(q, s) == \E i \in 1..Len(queue[s]) : queue[s][i] = q

\* p has called down(mutex), and not yet up(mutex).
Inside(p) ==
  pc[p] \in IF p = Flag THEN {"depart"} ELSE {"arrive", "horn", "leave"}

\* p was given the unit of mutex.
Owns(p) == Inside(p) /\ ~InList(p, Mutex)

\* The unit of mutex is free, or it has one owner.
OneOwner ==
  /\ value[Mutex] <= 1
  /\ value[Mutex] = 1 => \A p \in Proc : ~Inside(p)
  /\ \A p, q \in Proc : Owns(p) /\ Owns(q) => p = q

\* The flagperson calls down(full) only where it saw a unit.
SawUnit ==
  /\ \A d \in Dir : value[Full[d]] >= 0
  /\ pc[Flag] = "down_full" => value[Full[side]] > 0

\* Only the producer of d waits for a slot of its buffer.
ProducerWaits ==
  \A d \in Dir :
    /\ value[Empty[d]] >= -1
    /\ value[Empty[d]] = -1 => InList(d, Empty[d]) /\ pc[d] = "down_mutex"

\* The "in" index is as far from the "out" index as there are cars.
IndicesFollow ==
  \A d \in Dir : (cons[d] + Cars(d)) % BufferSize = prod[d]

\* A car that came stands at the "in" index until the index moves.
CarInPlace ==
  \A d \in Dir : pc[d] \in {"horn", "leave"} => buf[d][prod[d]] = prod[d]

\* The semaphores are well, for any program that uses them.
SemInv == KP!IInv

Counts == value \in [Sem -> Int]

IInv == /\ TypeOK /\ SemInv /\ OneOwner /\ SawUnit /\ SlotsAccounted
        /\ ProducerWaits /\ IndicesFollow /\ CarInPlace

-----------------------------------------------------------------------------
(* What the system calls do, as far as the program can tell.               *)

LEMMA InitValueType == InitValue \in [Sem -> Nat] /\ BufferSize \in Nat
BY BufferAssumption DEF InitValue

\* The processes stay in no list while they run in the program.
LEMMA UserNotListed ==
  ASSUME SemInv, NEW p \in Proc, kpc[p] = "user", NEW s \in Sem
  PROVE  ~InList(p, s)
BY InitValueType, KP!CallerNotListed, SMT DEF SemInv, InList

LEMMA SemCounts == SemInv => Counts
BY DEF SemInv, Counts, KP!IInv, KP!TypeOK

\* down(s): the caller joins the list where it finds no unit.
LEMMA DownStep ==
  ASSUME SemInv, NEW p \in Proc, NEW s \in Sem, K!Down(p, s)
  PROVE  /\ SemInv'
         /\ kpc[p] = "user"
         /\ value' = [value EXCEPT ![s] = @ - 1]
         /\ \A q \in Proc, t \in Sem :
              InList(q, t)' <=> InList(q, t) \/ (q = p /\ t = s /\ value[s] <= 0)
<1>1. KP!Down(p, s)
  BY DEF K!Down, KP!Down, K!Block, KP!Block
<1>2. SemInv'
  BY <1>1, InitValueType, KP!DownKeeps, SMT DEF SemInv
<1>3. /\ kpc[p] = "user"
      /\ value' = [value EXCEPT ![s] = @ - 1]
      /\ value[s] \in Int
      /\ queue \in [Sem -> Seq(Proc)]
      /\ queue' = IF value[s] - 1 < 0 THEN [queue EXCEPT ![s] = Append(@, p)]
                                      ELSE queue
  BY DEF SemInv, KP!IInv, KP!TypeOK, K!Down, K!Block
<1>4. ASSUME NEW q \in Proc, NEW t \in Sem
      PROVE  InList(q, t)' <=> InList(q, t) \/ (q = p /\ t = s /\ value[s] <= 0)
  <2>1. CASE t = s /\ value[s] <= 0
    <3>1. queue'[t] = Append(queue[t], p) /\ queue[t] \in Seq(Proc)
      BY <1>3, <2>1
    <3> QED
      BY <2>1, <3>1 DEF InList
  <2>2. CASE ~(t = s /\ value[s] <= 0)
    <3>1. queue'[t] = queue[t]
      BY <1>3, <2>2
    <3> QED
      BY <2>2, <3>1 DEF InList
  <2> QED
    BY <2>1, <2>2
<1> QED
  BY <1>2, <1>3, <1>4

\* up(s): one process leaves the list, if there is one.
LEMMA UpStep ==
  ASSUME SemInv, NEW p \in Proc, NEW s \in Sem, K!Up(p, s)
  PROVE  /\ SemInv'
         /\ kpc[p] = "user"
         /\ value' = [value EXCEPT ![s] = @ + 1]
         /\ \A q \in Proc, t \in Sem : InList(q, t)' => InList(q, t)
         /\ \A q \in Proc, t \in Sem : t # s => (InList(q, t)' <=> InList(q, t))
         /\ \E w \in Proc : \A q \in Proc : InList(q, s) => InList(q, s)' \/ q = w
         /\ value[s] >= 0 => \A q \in Proc : ~InList(q, s)
<1>1. KP!Up(p, s)
  BY DEF K!Up, KP!Up, K!WakeFirst, KP!WakeFirst
<1>2. SemInv'
  BY <1>1, InitValueType, KP!UpKeeps, SMT DEF SemInv
<1>3. /\ kpc[p] = "user"
      /\ value' = [value EXCEPT ![s] = @ + 1]
      /\ value[s] \in Int
      /\ queue \in [Sem -> Seq(Proc)]
      /\ queue' = IF value[s] + 1 <= 0 /\ queue[s] # <<>>
                    THEN [queue EXCEPT ![s] = Tail(@)] ELSE queue
  BY DEF SemInv, KP!IInv, KP!TypeOK, K!Up, K!WakeFirst
<1>4. value[s] >= 0 => \A q \in Proc : ~InList(q, s)
  BY <1>3 DEF SemInv, KP!IInv, KP!ListMatchesValue, KP!Min0, InList
<1>5. CASE value[s] + 1 <= 0 /\ queue[s] # <<>>
  <2> DEFINE n == Len(queue[s])
  <2>1. /\ n \in Nat \ {0} /\ queue[s][1] \in Proc
        /\ Len(queue'[s]) = n - 1
        /\ \A i \in 1..n - 1 : queue'[s][i] = queue[s][i + 1]
        /\ \A t \in Sem : t # s => queue'[t] = queue[t]
    BY <1>3, <1>5
  <2>2. ASSUME NEW q \in Proc, NEW t \in Sem PROVE InList(q, t)' => InList(q, t)
    BY <2>1 DEF InList
  <2>3. ASSUME NEW q \in Proc, NEW t \in Sem, t # s
        PROVE  InList(q, t)' <=> InList(q, t)
    BY <2>1, <2>3 DEF InList
  <2>4. ASSUME NEW q \in Proc, InList(q, s)
        PROVE  InList(q, s)' \/ q = queue[s][1]
    <3> PICK i \in 1..n : queue[s][i] = q
      BY <2>4 DEF InList
    <3>1. CASE i > 1
      <4>1. i - 1 \in 1..Len(queue'[s]) /\ queue'[s][i - 1] = q
        BY <2>1, <3>1
      <4> QED
        BY <4>1 DEF InList
    <3>2. CASE i = 1
      BY <3>2
    <3> QED
      BY <2>1, <3>1, <3>2
  <2> QED
    BY <1>2, <1>3, <1>4, <2>1, <2>2, <2>3, <2>4
<1>6. CASE ~(value[s] + 1 <= 0 /\ queue[s] # <<>>)
  <2>1. queue' = queue
    BY <1>3, <1>6
  <2>2. \A q \in Proc, t \in Sem : InList(q, t)' <=> InList(q, t)
    BY <2>1 DEF InList
  <2> QED
    BY <1>2, <1>3, <1>4, <2>2
<1> QED
  BY <1>5, <1>6

\* On the way back from schedule() nothing changes for the others.
LEMMA KernelStep ==
  ASSUME SemInv, NEW p \in Proc, K!Kernel(p)
  PROVE  SemInv' /\ UNCHANGED <<value, queue>>
<1>1. KP!Kernel(p)
  BY DEF K!Kernel, KP!Kernel, K!Schedule, KP!Schedule, K!Resume, KP!Resume
<1>2. SemInv'
  BY <1>1, InitValueType, KP!KernelKeeps, SMT DEF SemInv
<1>3. UNCHANGED <<value, queue>>
  BY DEF K!Kernel, K!Schedule, K!Resume
<1> QED
  BY <1>2, <1>3

LEMMA Untouched == SemInv /\ UNCHANGED kvars => SemInv'
BY DEF SemInv, kvars, KP!IInv, KP!TypeOK, KP!ListMatchesValue, KP!WaitsOnce,
       KP!SleepsIffListed, KP!UserRuns, KP!Listed

-----------------------------------------------------------------------------
(* Who holds mutex.                                                        *)

\* Steps that neither enter nor leave.
LEMMA OwnersStay ==
  ASSUME OneOwner, value'[Mutex] = value[Mutex],
         \A q \in Proc : InList(q, Mutex)' <=> InList(q, Mutex),
         \A q \in Proc : Inside(q)' <=> Inside(q)
  PROVE  OneOwner'
BY DEF OneOwner, Owns

LEMMA NoCallKeepsOwner ==
  ASSUME OneOwner, UNCHANGED kvars, \A q \in Proc : Inside(q)' <=> Inside(q)
  PROVE  OneOwner'
<1>1. \A q \in Proc : InList(q, Mutex)' <=> InList(q, Mutex)
  BY DEF kvars, InList
<1> QED
  BY <1>1, OwnersStay DEF kvars

\* Calls on the other semaphores.
LEMMA OtherDownKeepsOwner ==
  ASSUME SemInv, OneOwner, NEW p \in Proc, NEW s \in Sem \ {Mutex}, K!Down(p, s),
         \A q \in Proc : Inside(q)' <=> Inside(q)
  PROVE  OneOwner'
<1>1. value'[Mutex] = value[Mutex]
  BY DownStep, SemCounts DEF Counts, Mutex, Sem
<1>2. \A q \in Proc : InList(q, Mutex)' <=> InList(q, Mutex)
  BY DownStep DEF Mutex, Sem
<1> QED
  BY <1>1, <1>2, OwnersStay

LEMMA OtherUpKeepsOwner ==
  ASSUME SemInv, OneOwner, NEW p \in Proc, NEW s \in Sem \ {Mutex}, K!Up(p, s),
         \A q \in Proc : Inside(q)' <=> Inside(q)
  PROVE  OneOwner'
<1>1. value'[Mutex] = value[Mutex]
  BY UpStep, SemCounts DEF Counts, Mutex, Sem
<1>2. \A q \in Proc : InList(q, Mutex)' <=> InList(q, Mutex)
  BY UpStep DEF Mutex, Sem
<1> QED
  BY <1>1, <1>2, OwnersStay

\* down(mutex): the caller is the owner if the unit was free, and waits if not.
LEMMA EnterKeepsOwner ==
  ASSUME SemInv, OneOwner, NEW p \in Proc, K!Down(p, Mutex), ~Inside(p),
         \A q \in Proc : q # p => (Inside(q)' <=> Inside(q))
  PROVE  OneOwner'
<1>1. value[Mutex] \in Int /\ value'[Mutex] = value[Mutex] - 1
  BY DownStep, SemCounts DEF Counts, Mutex, Sem
<1>2. \A q \in Proc :
        InList(q, Mutex)' <=> InList(q, Mutex) \/ (q = p /\ value[Mutex] <= 0)
  BY DownStep DEF Mutex, Sem
<1>3. CASE value[Mutex] <= 0
  BY <1>1, <1>2, <1>3 DEF OneOwner, Owns
<1>4. CASE value[Mutex] = 1
  BY <1>1, <1>2, <1>4 DEF OneOwner, Owns
<1> QED
  BY <1>1, <1>3, <1>4 DEF OneOwner

\* up(mutex): the owner leaves, and the unit goes to one process or is free.
LEMMA LeaveKeepsOwner ==
  ASSUME SemInv, OneOwner, NEW p \in Proc, K!Up(p, Mutex), Inside(p), ~Inside(p)',
         \A q \in Proc : q # p => (Inside(q)' <=> Inside(q))
  PROVE  OneOwner'
<1>1. value[Mutex] \in Int /\ value'[Mutex] = value[Mutex] + 1
  BY UpStep, SemCounts DEF Counts, Mutex, Sem
<1>2. Owns(p)
  BY UpStep, UserNotListed DEF Owns, Mutex, Sem
<1>3. value[Mutex] <= 0
  BY <1>1 DEF OneOwner
<1>4. CASE value[Mutex] = 0
  <2>1. \A q \in Proc : ~InList(q, Mutex)
    BY <1>4, UpStep DEF Mutex, Sem
  <2>2. \A q \in Proc : ~Inside(q)'
    BY <1>2, <2>1 DEF OneOwner, Owns
  <2> QED
    BY <1>1, <1>4, <2>2 DEF OneOwner, Owns
<1>5. CASE value[Mutex] < 0
  <2> PICK w \in Proc :
        \A q \in Proc : InList(q, Mutex) => InList(q, Mutex)' \/ q = w
    BY UpStep DEF Mutex, Sem
  <2>1. \A q \in Proc : Owns(q)' => q = w
    BY <1>2 DEF OneOwner, Owns
  <2> QED
    BY <1>1, <1>5, <2>1 DEF OneOwner
<1> QED
  BY <1>1, <1>3, <1>4, <1>5

LEMMA ProducerKeepsOwner ==
  ASSUME TypeOK, SemInv, OneOwner, NEW d \in Dir, Producer(d)
  PROVE  OneOwner'
<1> USE DEF TypeOK, Goto, Proc, Dir, Flag, Inside
<1>1. CASE ClaimSlot(d)
  <2>1. \A q \in Proc : Inside(q)' <=> Inside(q)
    BY <1>1 DEF ClaimSlot
  <2>2. Empty[d] \in Sem \ {Mutex}
    BY DEF Empty, Sem, Mutex
  <2> QED
    BY <1>1, <2>1, <2>2, OtherDownKeepsOwner DEF ClaimSlot
<1>2. CASE EnterProducer(d)
  <2>1. ~Inside(d) /\ \A q \in Proc : q # d => (Inside(q)' <=> Inside(q))
    BY <1>2 DEF EnterProducer
  <2> QED
    BY <1>2, <2>1, EnterKeepsOwner DEF EnterProducer
<1>3. CASE Arrive(d) \/ Horn(d) \/ EndGap(d)
  <2>1. \A q \in Proc : Inside(q)' <=> Inside(q)
    BY <1>3 DEF Arrive, Horn, EndGap
  <2> QED
    BY <1>3, <2>1, NoCallKeepsOwner DEF Arrive, Horn, EndGap
<1>4. CASE Leave(d)
  <2>1. /\ Inside(d) /\ ~Inside(d)'
        /\ \A q \in Proc : q # d => (Inside(q)' <=> Inside(q))
    BY <1>4 DEF Leave
  <2> QED
    BY <1>4, <2>1, LeaveKeepsOwner DEF Leave
<1>5. CASE Announce(d)
  <2>1. \A q \in Proc : Inside(q)' <=> Inside(q)
    BY <1>5 DEF Announce
  <2>2. Full[d] \in Sem \ {Mutex}
    BY DEF Full, Sem, Mutex
  <2> QED
    BY <1>5, <2>1, <2>2, OtherUpKeepsOwner DEF Announce
<1> QED
  BY <1>1, <1>2, <1>3, <1>4, <1>5 DEF Producer

LEMMA FlagpersonKeepsOwner ==
  ASSUME TypeOK, SemInv, OneOwner, Flagperson
  PROVE  OneOwner'
<1> USE DEF TypeOK, Goto, Proc, Dir, Flag, Inside
<1>1. CASE (\E d \in Dir : Poll(d)) \/ Doze \/ Wake \/ ClearHorn \/ Loop \/ Switch
  <2>1. \A q \in Proc : Inside(q)' <=> Inside(q)
    BY <1>1 DEF Poll, Doze, Wake, ClearHorn, Loop, Switch, EndLoop
  <2>2. UNCHANGED kvars
    BY <1>1 DEF Poll, Doze, Wake, ClearHorn, Loop, Switch
  <2> QED
    BY <2>1, <2>2, NoCallKeepsOwner
<1>2. CASE TakeCar
  <2>1. \A q \in Proc : Inside(q)' <=> Inside(q)
    BY <1>2 DEF TakeCar
  <2>2. Full[side] \in Sem \ {Mutex}
    BY DEF Full, Sem, Mutex
  <2> QED
    BY <1>2, <2>1, <2>2, OtherDownKeepsOwner DEF TakeCar
<1>3. CASE EnterFlag
  <2>1. ~Inside(Flag) /\ \A q \in Proc : q # Flag => (Inside(q)' <=> Inside(q))
    BY <1>3 DEF EnterFlag
  <2> QED
    BY <1>3, <2>1, EnterKeepsOwner DEF EnterFlag
<1>4. CASE Depart
  <2>1. /\ Inside(Flag) /\ ~Inside(Flag)'
        /\ \A q \in Proc : q # Flag => (Inside(q)' <=> Inside(q))
    BY <1>4 DEF Depart
  <2> QED
    BY <1>4, <2>1, LeaveKeepsOwner DEF Depart
<1>5. CASE FreeSlot
  <2>1. \A q \in Proc : Inside(q)' <=> Inside(q)
    BY <1>5 DEF FreeSlot
  <2>2. Empty[side] \in Sem \ {Mutex}
    BY DEF Empty, Sem, Mutex
  <2> QED
    BY <1>5, <2>1, <2>2, OtherUpKeepsOwner DEF FreeSlot
<1> QED
  BY <1>1, <1>2, <1>3, <1>4, <1>5 DEF Flagperson

-----------------------------------------------------------------------------
(* The semaphores, the types, the units of full and the slots.             *)

\* A step calls down(), calls up(), goes on in the kernel, or leaves the
\* semaphores alone.
LEMMA StepKinds ==
  ASSUME TypeOK, NEW p \in Proc, Program(p)
  PROVE  \/ \E s \in Sem : K!Down(p, s) \/ K!Up(p, s)
         \/ UNCHANGED kvars
<1>1. \A d \in Dir : Full[d] \in Sem /\ Empty[d] \in Sem
  BY DEF Full, Empty, Sem, Dir
<1>2. Mutex \in Sem /\ side \in Dir
  BY DEF Mutex, Sem, TypeOK
<1>3. CASE p = Flag
  BY <1>1, <1>2, <1>3 DEF Program, Flagperson, Poll, Doze, Wake, ClearHorn, Loop,
     TakeCar, EnterFlag, Depart, FreeSlot, Switch
<1>4. CASE p # Flag
  <2>1. p \in Dir
    BY <1>4 DEF Proc
  <2> QED
    BY <1>1, <1>2, <1>4, <2>1 DEF Program, Producer, ClaimSlot, EnterProducer,
       Arrive, Horn, Leave, Announce, EndGap
<1> QED
  BY <1>3, <1>4

LEMMA SemInvKept ==
  ASSUME TypeOK, SemInv, [Next]_vars
  PROVE  SemInv'
<1>1. ASSUME NEW p \in Proc, Program(p) PROVE SemInv'
  BY <1>1, StepKinds, DownStep, UpStep, Untouched
<1>2. ASSUME NEW p \in Proc, InKernel(p) PROVE SemInv'
  BY <1>2, KernelStep DEF InKernel
<1>3. CASE UNCHANGED vars
  BY <1>3, Untouched DEF vars, kvars
<1> QED
  BY <1>1, <1>2, <1>3 DEF Next

LEMMA IndexWraps ==
  ASSUME NEW i \in Index
  PROVE  /\ Incr(i) \in Index
         /\ i % BufferSize = i
         /\ Incr(i) = IF i + 1 = BufferSize THEN 0 ELSE i + 1
BY BufferAssumption DEF Index, Incr

ProgramTypes ==
  /\ buf \in [Dir -> [Index -> Index]]
  /\ prod \in [Dir -> Index]
  /\ cons \in [Dir -> Index]
  /\ sleeping \in BOOLEAN /\ blown \in BOOLEAN
  /\ pc \in [Proc -> ProducerPc \cup FlagPc]
  /\ \A d \in Dir : pc[d] \in ProducerPc
  /\ pc[Flag] \in FlagPc
  /\ side \in Dir

LEMMA TypeKept ==
  ASSUME TypeOK, SemInv, [Next]_vars
  PROVE  TypeOK'
<1>1. K!TypeOK'
  BY SemInvKept DEF SemInv, KP!IInv, KP!TypeOK, K!TypeOK
<1>2. ASSUME NEW d \in Dir, Producer(d) PROVE ProgramTypes'
  <2>1. d \in Proc /\ d # Flag
    BY DEF Proc, Dir, Flag
  <2> USE <2>1 DEF ProgramTypes, TypeOK, Goto, ProducerPc, Proc, Dir, Flag, road, flags
  <2>2. CASE Arrive(d)
    <3>1. prod[d] \in Index /\ prod[d] % BufferSize \in Index
      BY IndexWraps
    <3>2. buf' \in [Dir -> [Index -> Index]]
      BY <2>2, <3>1 DEF Arrive
    <3> QED
      BY <2>2, <3>2 DEF Arrive
  <2>3. CASE Leave(d)
    <3>1. prod' \in [Dir -> Index]
      BY <2>3, IndexWraps DEF Leave
    <3> QED
      BY <2>3, <3>1 DEF Leave
  <2>4. CASE ClaimSlot(d)
    BY <2>4 DEF ClaimSlot
  <2>5. CASE EnterProducer(d)
    BY <2>5 DEF EnterProducer
  <2>6. CASE Horn(d)
    BY <2>6 DEF Horn
  <2>7. CASE Announce(d)
    BY <2>7 DEF Announce
  <2>8. CASE EndGap(d)
    BY <2>8 DEF EndGap
  <2> QED
    BY <1>2, <2>2, <2>3, <2>4, <2>5, <2>6, <2>7, <2>8 DEF Producer
<1>3. ASSUME Flagperson PROVE ProgramTypes'
  <2> USE DEF ProgramTypes, TypeOK, Goto, FlagPc, Proc, Dir, Flag, road, flags
  <2>1. CASE Depart
    <3>1. cons' \in [Dir -> Index]
      BY <2>1, IndexWraps DEF Depart
    <3> QED
      BY <2>1, <3>1 DEF Depart
  <2>2. CASE (\E d \in Dir : Poll(d)) \/ Doze \/ Wake \/ ClearHorn \/ Loop \/ Switch
    BY <2>2 DEF Poll, Doze, Wake, ClearHorn, Loop, Switch, EndLoop
  <2>3. CASE TakeCar \/ EnterFlag \/ FreeSlot
    BY <2>3 DEF TakeCar, EnterFlag, FreeSlot
  <2> QED
    BY <1>3, <2>1, <2>2, <2>3 DEF Flagperson
<1>4. ASSUME NEW p \in Proc, InKernel(p) PROVE ProgramTypes'
  BY <1>4 DEF InKernel, ProgramTypes, TypeOK, road, flags
<1>5. ASSUME UNCHANGED vars PROVE ProgramTypes'
  <2>1. sleeping' = sleeping /\ blown' = blown
    BY <1>5 DEF vars
  <2>2. sleeping' \in BOOLEAN /\ blown' \in BOOLEAN
    BY <2>1, Zenon DEF TypeOK
  <2>3. /\ buf' = buf /\ prod' = prod /\ cons' = cons
        /\ pc' = pc /\ side' = side
    BY <1>5 DEF vars
  <2> QED
    BY <2>2, <2>3, Zenon DEF ProgramTypes, TypeOK
<1>6. ProgramTypes'
  <2>1. ASSUME NEW p \in Proc, Program(p) PROVE ProgramTypes'
    <3>1. p = Flag \/ p \in Dir
      BY DEF Proc
    <3> QED
      BY <1>2, <1>3, <2>1, <3>1 DEF Program
  <2> QED
    BY <1>4, <1>5, <2>1 DEF Next
<1> QED
  BY <1>1, <1>6 DEF ProgramTypes, TypeOK

\* What the steps do to the counts of the semaphores and to the places.
LEMMA CountStep ==
  ASSUME SemInv, NEW p \in Proc, NEW s \in Sem
  PROVE  /\ value \in [Sem -> Int]
         /\ K!Down(p, s) => value' = [value EXCEPT ![s] = @ - 1]
         /\ K!Up(p, s) => value' = [value EXCEPT ![s] = @ + 1]
BY DownStep, UpStep, SemCounts DEF Counts

LEMMA SawUnitKept ==
  ASSUME TypeOK, SemInv, SawUnit, [Next]_vars
  PROVE  SawUnit'
<1> USE DEF TypeOK, Goto, Proc, Dir, Flag, Full, Empty, Mutex, Sem, kvars
<1>1. ASSUME NEW d \in Dir, Producer(d) PROVE SawUnit'
  <2>1. CASE ClaimSlot(d)
    BY <2>1, CountStep DEF ClaimSlot, SawUnit
  <2>2. CASE EnterProducer(d)
    BY <2>2, CountStep DEF EnterProducer, SawUnit
  <2>3. CASE Leave(d)
    BY <2>3, CountStep DEF Leave, SawUnit
  <2>4. CASE Announce(d)
    BY <2>4, CountStep DEF Announce, SawUnit
  <2>5. CASE Arrive(d) \/ Horn(d) \/ EndGap(d)
    BY <2>5 DEF Arrive, Horn, EndGap, SawUnit
  <2> QED
    BY <1>1, <2>1, <2>2, <2>3, <2>4, <2>5 DEF Producer
<1>2. ASSUME Flagperson PROVE SawUnit'
  <2>1. CASE TakeCar
    BY <2>1, CountStep DEF TakeCar, SawUnit
  <2>2. CASE EnterFlag
    BY <2>2, CountStep DEF EnterFlag, SawUnit
  <2>3. CASE Depart
    BY <2>3, CountStep DEF Depart, SawUnit
  <2>4. CASE FreeSlot
    BY <2>4, CountStep DEF FreeSlot, SawUnit
  <2>5. CASE Loop
    BY <2>5 DEF Loop, EndLoop, SawUnit
  <2>6. CASE (\E d \in Dir : Poll(d)) \/ Doze \/ Wake \/ ClearHorn \/ Switch
    BY <2>6 DEF Poll, Doze, Wake, ClearHorn, Switch, EndLoop, SawUnit
  <2> QED
    BY <1>2, <2>1, <2>2, <2>3, <2>4, <2>5, <2>6 DEF Flagperson
<1>3. ASSUME NEW p \in Proc, InKernel(p) PROVE SawUnit'
  BY <1>3, KernelStep DEF InKernel, SawUnit
<1>4. CASE UNCHANGED vars
  BY <1>4 DEF vars, SawUnit
<1>5. ASSUME NEW p \in Proc, Program(p) PROVE SawUnit'
  <2>1. p = Flag \/ p \in Dir
    OBVIOUS
  <2> QED
    BY <1>1, <1>2, <1>5, <2>1 DEF Program
<1> QED
  BY <1>3, <1>4, <1>5 DEF Next

LEMMA SlotsKept ==
  ASSUME TypeOK, SemInv, SlotsAccounted, [Next]_vars
  PROVE  SlotsAccounted'
<1> USE DEF TypeOK, Goto, Proc, Dir, Flag, Full, Empty, Mutex, Sem, kvars,
            Claimed, Cars, Taken, Freed, One
<1>1. ASSUME NEW d \in Dir, Producer(d) PROVE SlotsAccounted'
  <2>1. CASE ClaimSlot(d)
    BY <2>1, CountStep DEF ClaimSlot, SlotsAccounted
  <2>2. CASE EnterProducer(d)
    BY <2>2, CountStep DEF EnterProducer, SlotsAccounted
  <2>3. CASE Leave(d)
    BY <2>3, CountStep DEF Leave, SlotsAccounted
  <2>4. CASE Announce(d)
    BY <2>4, CountStep DEF Announce, SlotsAccounted
  <2>5. CASE Arrive(d) \/ Horn(d) \/ EndGap(d)
    BY <2>5 DEF Arrive, Horn, EndGap, SlotsAccounted
  <2> QED
    BY <1>1, <2>1, <2>2, <2>3, <2>4, <2>5 DEF Producer
<1>2. ASSUME Flagperson PROVE SlotsAccounted'
  <2>1. CASE TakeCar
    BY <2>1, CountStep DEF TakeCar, SlotsAccounted
  <2>2. CASE EnterFlag
    BY <2>2, CountStep DEF EnterFlag, SlotsAccounted
  <2>3. CASE Depart
    BY <2>3, CountStep DEF Depart, SlotsAccounted
  <2>4. CASE FreeSlot
    BY <2>4, CountStep DEF FreeSlot, SlotsAccounted
  <2>5. CASE Loop
    BY <2>5 DEF Loop, EndLoop, SlotsAccounted
  <2>6. CASE (\E d \in Dir : Poll(d)) \/ Doze \/ Wake \/ ClearHorn \/ Switch
    BY <2>6 DEF Poll, Doze, Wake, ClearHorn, Switch, EndLoop, SlotsAccounted
  <2> QED
    BY <1>2, <2>1, <2>2, <2>3, <2>4, <2>5, <2>6 DEF Flagperson
<1>3. ASSUME NEW p \in Proc, InKernel(p) PROVE SlotsAccounted'
  BY <1>3, KernelStep DEF InKernel, SlotsAccounted
<1>4. CASE UNCHANGED vars
  BY <1>4 DEF vars, SlotsAccounted
<1>5. ASSUME NEW p \in Proc, Program(p) PROVE SlotsAccounted'
  <2>1. p = Flag \/ p \in Dir
    OBVIOUS
  <2> QED
    BY <1>1, <1>2, <1>5, <2>1 DEF Program
<1> QED
  BY <1>3, <1>4, <1>5 DEF Next

\* A producer that waits for a slot takes no step of its program.
LEMMA WaitingStays ==
  ASSUME SemInv, ProducerWaits,
         \A d \in Dir : value'[Empty[d]] = value[Empty[d]],
         \A d \in Dir : InList(d, Empty[d])' <=> InList(d, Empty[d]),
         \A d \in Dir : pc'[d] = pc[d] \/ kpc[d] = "user"
  PROVE  ProducerWaits'
<1>1. \A d \in Dir : d \in Proc /\ Empty[d] \in Sem
  BY DEF Proc, Dir, Empty, Sem
<1>2. \A d \in Dir : kpc[d] = "user" => ~InList(d, Empty[d])
  BY <1>1, UserNotListed
<1>3. SUFFICES ASSUME NEW d \in Dir
               PROVE  /\ value'[Empty[d]] >= -1
                      /\ value'[Empty[d]] = -1 =>
                           InList(d, Empty[d])' /\ pc'[d] = "down_mutex"
  BY DEF ProducerWaits, Empty
<1>4. /\ value[Empty[d]] >= -1
      /\ value[Empty[d]] = -1 => InList(d, Empty[d]) /\ pc[d] = "down_mutex"
  BY DEF ProducerWaits
<1>5. CASE value[Empty[d]] = -1
  BY <1>2, <1>4, <1>5
<1>6. CASE value[Empty[d]] # -1
  BY <1>4, <1>6
<1> QED
  BY <1>5, <1>6

LEMMA ProducerWaitsKept ==
  ASSUME TypeOK, SemInv, ProducerWaits, [Next]_vars
  PROVE  ProducerWaits'
<1> USE DEF TypeOK, Goto, Proc, Dir, Flag, Full, Empty, Mutex, Sem
<1>1. ASSUME NEW d \in Dir, ClaimSlot(d) PROVE ProducerWaits'
  <2>1. kpc[d] = "user" /\ pc' = [pc EXCEPT ![d] = "down_mutex"] /\ K!Down(d, Empty[d])
    BY <1>1 DEF ClaimSlot
  <2>2. value[Empty[d]] >= 0 /\ value \in [Sem -> Int]
    BY <2>1, UserNotListed, SemCounts DEF ProducerWaits, Counts
  <2>3. value' = [value EXCEPT ![Empty[d]] = @ - 1]
    BY <2>1, DownStep
  <2>4. \A e \in Dir :
          InList(e, Empty[e])' <=> InList(e, Empty[e]) \/ (e = d /\ value[Empty[d]] <= 0)
    BY <2>1, DownStep
  <2> QED
    BY <2>1, <2>2, <2>3, <2>4 DEF ProducerWaits
<1>2. ASSUME FreeSlot PROVE ProducerWaits'
  <2>1. K!Up(Flag, Empty[side]) /\ \A d \in Dir : pc'[d] = pc[d]
    BY <1>2 DEF FreeSlot
  <2>2. value' = [value EXCEPT ![Empty[side]] = @ + 1] /\ value \in [Sem -> Int]
    BY <2>1, UpStep, SemCounts DEF Counts
  <2>3. \A d \in Dir :
          d # side => (InList(d, Empty[d])' <=> InList(d, Empty[d]))
    BY <2>1, UpStep
  <2> QED
    BY <2>1, <2>2, <2>3 DEF ProducerWaits
<1> DEFINE Aside(s) == s \in Sem /\ \A d \in Dir : s # Empty[d]
<1>3. ASSUME NEW p \in Proc, NEW s, Aside(s), K!Down(p, s) \/ K!Up(p, s),
             \A d \in Dir : d # p => pc'[d] = pc[d]
      PROVE  ProducerWaits'
  <2>1. kpc[p] = "user"
    BY <1>3, DownStep, UpStep
  <2>2. \A d \in Dir : value'[Empty[d]] = value[Empty[d]]
    BY <1>3, CountStep
  <2>3. \A d \in Dir : InList(d, Empty[d])' <=> InList(d, Empty[d])
    BY <1>3, DownStep, UpStep
  <2>4. \A d \in Dir : pc'[d] = pc[d] \/ kpc[d] = "user"
    BY <1>3, <2>1
  <2> QED
    BY <2>2, <2>3, <2>4, WaitingStays
<1>4. ASSUME NEW d \in Dir, EnterProducer(d) \/ Leave(d) \/ Announce(d)
      PROVE  ProducerWaits'
  <2>1. Aside(Mutex) /\ Aside(Full[d]) /\ \A e \in Dir : e # d => pc'[e] = pc[e]
    BY <1>4 DEF EnterProducer, Leave, Announce
  <2> QED
    BY <1>3, <1>4, <2>1 DEF EnterProducer, Leave, Announce
<1>5. ASSUME TakeCar \/ EnterFlag \/ Depart PROVE ProducerWaits'
  <2>1. Aside(Mutex) /\ Aside(Full[side]) /\ \A e \in Dir : pc'[e] = pc[e]
    BY <1>5 DEF TakeCar, EnterFlag, Depart
  <2> QED
    BY <1>3, <1>5, <2>1 DEF TakeCar, EnterFlag, Depart
<1>6. ASSUME UNCHANGED <<value, queue>>,
             \A d \in Dir : pc'[d] = pc[d] \/ kpc[d] = "user"
      PROVE  ProducerWaits'
  <2>1. \A d \in Dir : InList(d, Empty[d])' <=> InList(d, Empty[d])
    BY <1>6 DEF InList
  <2>2. \A d \in Dir : value'[Empty[d]] = value[Empty[d]]
    BY <1>6
  <2> QED
    BY <1>6, <2>1, <2>2, WaitingStays
<1>7. ASSUME NEW d \in Dir, Arrive(d) \/ Horn(d) \/ EndGap(d) PROVE ProducerWaits'
  BY <1>6, <1>7 DEF Arrive, Horn, EndGap, kvars
<1>8. ASSUME (\E d \in Dir : Poll(d)) \/ Doze \/ Wake \/ ClearHorn \/ Loop \/ Switch
      PROVE  ProducerWaits'
  BY <1>6, <1>8 DEF Poll, Doze, Wake, ClearHorn, Loop, Switch, EndLoop, kvars
<1>9. ASSUME NEW p \in Proc, InKernel(p) PROVE ProducerWaits'
  BY <1>6, <1>9, KernelStep DEF InKernel
<1>10. ASSUME UNCHANGED vars PROVE ProducerWaits'
  BY <1>6, <1>10 DEF vars
<1>11. ASSUME NEW p \in Proc, Program(p) PROVE ProducerWaits'
  <2>1. CASE p = Flag
    BY <1>2, <1>5, <1>8, <1>11, <2>1 DEF Program, Flagperson
  <2>2. CASE p \in Dir
    BY <1>1, <1>4, <1>7, <1>11, <2>2 DEF Program, Producer
  <2> QED
    BY <2>1, <2>2
<1> QED
  BY <1>9, <1>10, <1>11 DEF Next

\* A buffer never holds more cars than it has slots, and has a slot for the
\* car of a producer that is past down(empty).
LEMMA CarsFit ==
  ASSUME TypeOK, SemInv, SawUnit, SlotsAccounted, ProducerWaits, NEW d \in Dir
  PROVE  /\ Cars(d) \in 0..BufferSize
         /\ kpc[d] = "user" /\ Claimed(d) => Cars(d) < BufferSize
         /\ Taken(d) => Cars(d) > 0
<1>1. value[Full[d]] \in Nat /\ value[Empty[d]] \in Int
  BY SemCounts DEF Counts, SawUnit, Full, Empty, Sem, Dir
<1>2. kpc[d] = "user" => ~InList(d, Empty[d])
  BY UserNotListed DEF Proc, Empty, Sem, Dir
<1>3. value[Empty[d]] + One(Claimed(d)) >= 0
  BY <1>1 DEF ProducerWaits, One, Claimed
<1>4. value[Empty[d]] + One(Claimed(d)) + Cars(d) + One(Freed(d)) = BufferSize
  BY DEF SlotsAccounted
<1>5. Cars(d) \in Nat /\ (Taken(d) => Cars(d) > 0)
  BY <1>1 DEF Cars, One
<1>6. Cars(d) <= BufferSize
  BY <1>1, <1>3, <1>4, <1>5, BufferAssumption DEF One
<1>7. ASSUME kpc[d] = "user", Claimed(d) PROVE Cars(d) < BufferSize
  <2>1. value[Empty[d]] >= 0
    BY <1>1, <1>2, <1>7 DEF ProducerWaits
  <2> QED
    BY <1>1, <1>4, <1>5, <1>7, <2>1, BufferAssumption DEF One
<1> QED
  BY <1>5, <1>6, <1>7, BufferAssumption

LEMMA Modulo ==
  ASSUME NEW x \in 0..2 * BufferSize - 1
  PROVE  x % BufferSize = IF x < BufferSize THEN x ELSE x - BufferSize
BY BufferAssumption

\* A car comes in; a car goes out.
LEMMA InGoesOn ==
  ASSUME NEW out \in Index, NEW in \in Index, NEW c \in 0..BufferSize - 1,
         (out + c) % BufferSize = in
  PROVE  (out + (c + 1)) % BufferSize = Incr(in)
<1>1. out + c \in 0..2 * BufferSize - 1 /\ out + (c + 1) \in 0..2 * BufferSize - 1
  BY BufferAssumption DEF Index
<1>2. /\ (out + c) % BufferSize =
           IF out + c < BufferSize THEN out + c ELSE out + c - BufferSize
      /\ (out + (c + 1)) % BufferSize =
           IF out + (c + 1) < BufferSize THEN out + (c + 1)
                                         ELSE out + (c + 1) - BufferSize
  BY <1>1, Modulo, BufferAssumption DEF Index
<1>3. Incr(in) = IF in + 1 = BufferSize THEN 0 ELSE in + 1
  BY IndexWraps
<1>4. out \in Nat /\ out < BufferSize /\ c \in Nat /\ c < BufferSize
  BY BufferAssumption DEF Index
<1>5. CASE out + c < BufferSize
  <2>1. in = out + c
    BY <1>2, <1>5
  <2> QED
    BY <1>2, <1>3, <1>4, <1>5, <2>1, BufferAssumption
<1>6. CASE ~(out + c < BufferSize)
  <2>1. in = out + c - BufferSize
    BY <1>2, <1>6
  <2> QED
    BY <1>2, <1>3, <1>4, <1>6, <2>1, BufferAssumption
<1> QED
  BY <1>5, <1>6

LEMMA OutGoesOn ==
  ASSUME NEW out \in Index, NEW in \in Index, NEW c \in 1..BufferSize,
         (out + c) % BufferSize = in
  PROVE  (Incr(out) + (c - 1)) % BufferSize = in
<1>1. Incr(out) = IF out + 1 = BufferSize THEN 0 ELSE out + 1
  BY IndexWraps
<1>2. /\ out + c \in 0..2 * BufferSize - 1
      /\ Incr(out) + (c - 1) \in 0..2 * BufferSize - 1
  BY <1>1, BufferAssumption DEF Index
<1>3. /\ (out + c) % BufferSize =
           IF out + c < BufferSize THEN out + c ELSE out + c - BufferSize
      /\ Incr(out) = 0 => (Incr(out) + (c - 1)) % BufferSize = c - 1
  BY <1>2, Modulo, BufferAssumption DEF Index
<1>4. out \in Nat /\ out < BufferSize /\ c \in Nat /\ c >= 1 /\ c <= BufferSize
  BY BufferAssumption DEF Index
<1>5. CASE out + 1 = BufferSize
  BY <1>1, <1>3, <1>4, <1>5, BufferAssumption
<1>6. CASE out + 1 # BufferSize
  <2>1. Incr(out) + (c - 1) = out + c
    BY <1>1, <1>4, <1>6, BufferAssumption
  <2> QED
    BY <2>1
<1> QED
  BY <1>5, <1>6

\* One car comes.
LEMMA CarCounts ==
  ASSUME TypeOK, SemInv, SawUnit, SlotsAccounted, ProducerWaits, NEW d \in Dir, Leave(d)
  PROVE  /\ Cars(d) \in 0..BufferSize - 1 /\ Cars(d)' = Cars(d) + 1
         /\ prod' = [prod EXCEPT ![d] = Incr(@)] /\ UNCHANGED <<buf, cons>>
         /\ \A e \in Dir : e # d => Cars(e)' = Cars(e)
<1> USE DEF TypeOK, Goto, Proc, Dir, Flag, Full, Mutex, Sem
<1>1. Cars(d) \in 0..BufferSize - 1
  BY CarsFit, BufferAssumption DEF Leave, Claimed
<1>2. /\ Cars(d)' = Cars(d) + 1
      /\ \A e \in Dir : e # d => Cars(e)' = Cars(e)
  BY CountStep DEF Leave, Cars, Taken, One
<1> QED
  BY <1>1, <1>2 DEF Leave

\* One car goes.
LEMMA CarGoes ==
  ASSUME TypeOK, SemInv, SawUnit, SlotsAccounted, ProducerWaits, Depart
  PROVE  /\ Cars(side) \in 1..BufferSize /\ Cars(side)' = Cars(side) - 1
         /\ cons' = [cons EXCEPT ![side] = Incr(@)] /\ UNCHANGED <<buf, prod, side>>
         /\ \A e \in Dir : e # side => Cars(e)' = Cars(e)
<1> USE DEF TypeOK, Goto, Proc, Dir, Flag, Full, Mutex, Sem
<1>1. Cars(side) \in 1..BufferSize
  <2>1. Taken(side)
    BY DEF Depart, Taken
  <2>2. Cars(side) \in 0..BufferSize /\ Cars(side) > 0
    BY <2>1, CarsFit
  <2> QED
    BY <2>2, BufferAssumption
<1>2. /\ Cars(side)' = Cars(side) - 1
      /\ \A e \in Dir : e # side => Cars(e)' = Cars(e)
  BY CountStep DEF Depart, Cars, Taken, One
<1> QED
  BY <1>1, <1>2 DEF Depart

\* The other steps leave the cars where they are.
LEMMA CarsStay ==
  ASSUME TypeOK, SemInv, [Next]_vars, \A d \in Dir : ~Leave(d), ~Depart
  PROVE  /\ \A e \in Dir : Cars(e)' = Cars(e)
         /\ UNCHANGED <<prod, cons>>
         /\ UNCHANGED buf \/ \E d \in Dir : Arrive(d)
<1> USE DEF TypeOK, Goto, Proc, Dir, Flag, Full, Empty, Mutex, Sem, kvars, Cars, Taken, One
<1>1. ASSUME NEW d \in Dir, Producer(d) PROVE \A e \in Dir : Cars(e)' = Cars(e)
  <2>1. CASE ClaimSlot(d)
    BY <2>1, CountStep DEF ClaimSlot
  <2>2. CASE EnterProducer(d)
    BY <2>2, CountStep DEF EnterProducer
  <2>3. CASE Announce(d)
    BY <2>3, CountStep DEF Announce
  <2>4. CASE Arrive(d) \/ Horn(d) \/ EndGap(d)
    BY <2>4 DEF Arrive, Horn, EndGap
  <2> QED
    BY <1>1, <2>1, <2>2, <2>3, <2>4 DEF Producer
<1>2. ASSUME Flagperson PROVE \A e \in Dir : Cars(e)' = Cars(e)
  <2>1. CASE TakeCar
    BY <2>1, CountStep DEF TakeCar
  <2>2. CASE EnterFlag
    BY <2>2, CountStep DEF EnterFlag
  <2>3. CASE FreeSlot
    BY <2>3, CountStep DEF FreeSlot
  <2>4. CASE (\E d \in Dir : Poll(d)) \/ Doze \/ Wake \/ ClearHorn \/ Loop \/ Switch
    BY <2>4 DEF Poll, Doze, Wake, ClearHorn, Loop, Switch, EndLoop
  <2> QED
    BY <1>2, <2>1, <2>2, <2>3, <2>4 DEF Flagperson
<1>3. ASSUME NEW p \in Proc, InKernel(p) PROVE \A e \in Dir : Cars(e)' = Cars(e)
  BY <1>3, KernelStep DEF InKernel
<1>4. ASSUME UNCHANGED vars PROVE \A e \in Dir : Cars(e)' = Cars(e)
  BY <1>4 DEF vars
<1> HIDE DEF Cars
<1>5. ASSUME NEW d \in Dir, Producer(d)
      PROVE  UNCHANGED <<prod, cons>> /\ (UNCHANGED buf \/ \E e \in Dir : Arrive(e))
  BY <1>5 DEF Producer, ClaimSlot, EnterProducer, Horn, Announce, EndGap, Arrive, road
<1>6. ASSUME Flagperson PROVE UNCHANGED <<prod, cons, buf>>
  BY <1>6 DEF Flagperson, Poll, Doze, Wake, ClearHorn, Loop, TakeCar, EnterFlag, FreeSlot,
     Switch, road
<1>7. ASSUME NEW p \in Proc, Program(p)
      PROVE  /\ \A e \in Dir : Cars(e)' = Cars(e)
             /\ UNCHANGED <<prod, cons>>
             /\ UNCHANGED buf \/ \E d \in Dir : Arrive(d)
  <2>1. CASE p = Flag
    BY <1>2, <1>6, <1>7, <2>1 DEF Program
  <2>2. CASE p \in Dir
    BY <1>1, <1>5, <1>7, <2>2 DEF Program
  <2> QED
    BY <2>1, <2>2
<1>8. CASE UNCHANGED vars
  BY <1>4, <1>8 DEF vars
<1>9. ASSUME NEW p \in Proc, InKernel(p)
      PROVE  UNCHANGED <<prod, cons, buf>>
  BY <1>9 DEF InKernel, road
<1> QED
  BY <1>3, <1>7, <1>8, <1>9 DEF Next

LEMMA IndicesKept ==
  ASSUME TypeOK, SemInv, SawUnit, SlotsAccounted, ProducerWaits, IndicesFollow,
         [Next]_vars
  PROVE  IndicesFollow'
<1>1. \A d \in Dir : cons[d] \in Index /\ prod[d] \in Index
                     /\ (cons[d] + Cars(d)) % BufferSize = prod[d]
  BY DEF TypeOK, IndicesFollow
<1>2. ASSUME NEW d \in Dir, Leave(d) PROVE IndicesFollow'
  <2>1. (cons[d] + (Cars(d) + 1)) % BufferSize = Incr(prod[d])
    BY <1>1, <1>2, CarCounts, InGoesOn
  <2> QED
    BY <1>1, <1>2, <2>1, CarCounts DEF IndicesFollow, TypeOK
<1>3. ASSUME Depart PROVE IndicesFollow'
  <2>1. (Incr(cons[side]) + (Cars(side) - 1)) % BufferSize = prod[side]
    BY <1>1, <1>3, CarGoes, OutGoesOn DEF TypeOK
  <2> QED
    BY <1>1, <1>3, <2>1, CarGoes DEF IndicesFollow, TypeOK
<1>4. CASE (\A d \in Dir : ~Leave(d)) /\ ~Depart
  BY <1>1, <1>4, CarsStay DEF IndicesFollow
<1> QED
  BY <1>2, <1>3, <1>4

LEMMA CarInPlaceKept ==
  ASSUME TypeOK, SemInv, CarInPlace, [Next]_vars
  PROVE  CarInPlace'
<1> USE DEF TypeOK, Goto, Proc, Dir, Flag
<1>1. ASSUME NEW d \in Dir, Arrive(d) PROVE CarInPlace'
  <2>1. prod[d] \in Index /\ prod[d] % BufferSize = prod[d]
    BY IndexWraps
  <2>2. buf' = [buf EXCEPT ![d][prod[d]] = prod[d]]
    BY <1>1, <2>1 DEF Arrive
  <2>3. /\ buf'[d][prod[d]] = prod[d] /\ prod' = prod
        /\ \A e \in Dir : e # d => buf'[e] = buf[e] /\ pc'[e] = pc[e]
    BY <1>1, <2>1, <2>2 DEF Arrive
  <2> QED
    BY <2>3 DEF CarInPlace
<1>2. ASSUME NEW d \in Dir, Leave(d) PROVE CarInPlace'
  BY <1>2 DEF Leave, CarInPlace
<1>3. ASSUME UNCHANGED <<buf, prod>>,
             \A d \in Dir : pc'[d] \in {"horn", "leave"} => pc[d] \in {"horn", "leave"}
      PROVE  CarInPlace'
  BY <1>3 DEF CarInPlace
<1>4. ASSUME NEW d \in Dir,
             ClaimSlot(d) \/ EnterProducer(d) \/ Horn(d) \/ Announce(d) \/ EndGap(d)
      PROVE  CarInPlace'
  BY <1>3, <1>4 DEF ClaimSlot, EnterProducer, Horn, Announce, EndGap, road
<1>5. ASSUME Flagperson PROVE CarInPlace'
  BY <1>3, <1>5 DEF Flagperson, Poll, Doze, Wake, ClearHorn, Loop, TakeCar, EnterFlag,
     Depart, FreeSlot, Switch, EndLoop, road
<1>6. ASSUME NEW p \in Proc, InKernel(p) PROVE CarInPlace'
  BY <1>3, <1>6 DEF InKernel, road
<1>7. CASE UNCHANGED vars
  BY <1>3, <1>7 DEF vars
<1>8. ASSUME NEW p \in Proc, Program(p) PROVE CarInPlace'
  <2>1. CASE p = Flag
    BY <1>5, <1>8, <2>1 DEF Program
  <2>2. CASE p \in Dir
    BY <1>1, <1>2, <1>4, <1>8, <2>2 DEF Program, Producer
  <2> QED
    BY <2>1, <2>2
<1> QED
  BY <1>6, <1>7, <1>8 DEF Next

-----------------------------------------------------------------------------
LEMMA OneOwnerKept ==
  ASSUME TypeOK, SemInv, OneOwner, [Next]_vars
  PROVE  OneOwner'
<1>1. ASSUME NEW p \in Proc, Program(p) PROVE OneOwner'
  <2>1. p = Flag \/ p \in Dir
    BY DEF Proc
  <2> QED
    BY <1>1, <2>1, ProducerKeepsOwner, FlagpersonKeepsOwner DEF Program
<1>2. ASSUME NEW p \in Proc, InKernel(p) PROVE OneOwner'
  <2>1. UNCHANGED <<value, queue, pc>>
    BY <1>2, KernelStep DEF InKernel
  <2>2. \A q \in Proc : InList(q, Mutex)' <=> InList(q, Mutex)
    BY <2>1 DEF InList
  <2>3. \A q \in Proc : Inside(q)' <=> Inside(q)
    BY <2>1 DEF Inside
  <2> QED
    BY <2>1, <2>2, <2>3, OwnersStay
<1>3. CASE UNCHANGED vars
  <2>1. UNCHANGED kvars /\ \A q \in Proc : Inside(q)' <=> Inside(q)
    BY <1>3 DEF vars, kvars, Inside
  <2> QED
    BY <2>1, NoCallKeepsOwner
<1> QED
  BY <1>1, <1>2, <1>3 DEF Next

LEMMA InitInv == Init => IInv
<1> SUFFICES ASSUME Init PROVE IInv
  OBVIOUS
<1> USE BufferAssumption DEF Init
<1>1. KP!Init
  BY DEF K!Init, KP!Init
<1>2. SemInv
  BY <1>1, InitValueType, KP!InitInv, SMT DEF SemInv
<1>3. \A s \in Sem : value[s] = InitValue[s]
  BY DEF K!Init
<1>4. \A d \in Dir : value[Full[d]] = 0 /\ value[Empty[d]] = BufferSize
  BY <1>3 DEF Dir, Full, Empty, Sem, Mutex, InitValue
<1>5. value[Mutex] = 1
  BY <1>3 DEF Sem, Mutex, InitValue
<1>6. TypeOK
  <2>1. K!TypeOK
    BY <1>2 DEF SemInv, KP!IInv, KP!TypeOK, K!TypeOK
  <2>2. 0 \in Index
    BY DEF Index
  <2> QED
    BY <2>1, <2>2 DEF TypeOK, ProducerPc, FlagPc, Proc, Dir, Flag
<1>7. OneOwner
  <2>1. \A p \in Proc : ~Inside(p)
    BY DEF Inside, Proc, Dir, Flag
  <2> QED
    BY <1>5, <2>1 DEF OneOwner, Owns
<1>8. SawUnit
  BY <1>4 DEF SawUnit, Proc, Dir, Flag
<1>9. SlotsAccounted
  BY <1>4 DEF SlotsAccounted, Claimed, Cars, Taken, Freed, One, Proc, Dir, Flag
<1>10. ProducerWaits
  BY <1>4 DEF ProducerWaits
<1>11. IndicesFollow
  <2>1. \A d \in Dir : Cars(d) = 0
    BY <1>4 DEF Cars, Taken, One, Proc, Dir, Flag
  <2>2. 0 % BufferSize = 0
    OBVIOUS
  <2> QED
    BY <2>1, <2>2 DEF IndicesFollow
<1>12. CarInPlace
  BY DEF CarInPlace, Proc, Dir, Flag
<1> QED
  BY <1>2, <1>6, <1>7, <1>8, <1>9, <1>10, <1>11, <1>12 DEF IInv

LEMMA NextInv == IInv /\ [Next]_vars => IInv'
BY TypeKept, SemInvKept, OneOwnerKept, SawUnitKept, SlotsKept, ProducerWaitsKept,
   IndicesKept, CarInPlaceKept DEF IInv

LEMMA Invariant == Spec => []IInv
BY InitInv, NextInv, PTL DEF Spec

\* trafficsim.c uses its shared variables in their ranges, for any BUFFER_SIZE.
THEOREM TypeCorrect == Spec => []TypeOK
<1>1. IInv => TypeOK
  BY DEF IInv
<1> QED
  BY <1>1, Invariant, PTL

\* The critical sections of trafficsim.c, between down(mutex) and up(mutex),
\* exclude each other.
THEOREM Exclusion == Spec => []MutualExclusion
<1>1. IInv => MutualExclusion
  <2> SUFFICES ASSUME IInv, NEW p \in Proc, NEW q \in Proc,
                      InCritical(p), InCritical(q)
               PROVE  p = q
    BY DEF MutualExclusion
  <2>1. Owns(p) /\ Owns(q)
    BY UserNotListed DEF IInv, InCritical, Owns, Inside, Mutex, Sem
  <2> QED
    BY <2>1 DEF IInv, OneOwner
<1> QED
  BY <1>1, Invariant, PTL

\* The flagperson's unlocked test full->value > 0 still holds when down(full)
\* comes: it never blocks there.
THEOREM FlagpersonNeverWaitsForCars == Spec => []NeverWaitsOnFull
<1>1. IInv => NeverWaitsOnFull
  <2> SUFFICES ASSUME IInv, NEW d \in Dir
               PROVE  value[Full[d]] >= 0 /\ queue[Full[d]] = <<>>
    BY DEF NeverWaitsOnFull
  <2>1. Full[d] \in Sem
    BY DEF Full, Sem, Dir
  <2>2. value[Full[d]] >= 0
    BY DEF IInv, SawUnit
  <2>3. /\ queue[Full[d]] \in Seq(Proc) /\ value[Full[d]] \in Int
        /\ Len(queue[Full[d]]) = KP!Min0(value[Full[d]])
    BY <2>1 DEF IInv, SemInv, KP!IInv, KP!TypeOK, KP!ListMatchesValue
  <2>4. Len(queue[Full[d]]) = 0
    BY <2>2, <2>3 DEF KP!Min0
  <2> QED
    BY <2>2, <2>3, <2>4
<1> QED
  BY <1>1, Invariant, PTL

\* Every slot of north_buf and south_buf is counted once, by the semaphores and
\* the places of the processes.
THEOREM EverySlotCounted == Spec => []SlotsAccounted
<1>1. IInv => SlotsAccounted
  BY DEF IInv
<1> QED
  BY <1>1, Invariant, PTL

\* *prod and *cons stay as far apart as the semaphores count cars: a producer
\* never writes over a car that has not passed.
THEOREM IndicesMatchSemaphores == Spec => []IndicesAgree
<1>1. IInv => IndicesAgree
  <2> SUFFICES ASSUME IInv, NEW d \in Dir
               PROVE  /\ Cars(d) \in 0..BufferSize
                      /\ (cons[d] + Cars(d)) % BufferSize = prod[d]
                      /\ InCritical(d) => Cars(d) < BufferSize
    BY DEF IndicesAgree
  <2>1. InCritical(d) => kpc[d] = "user" /\ Claimed(d)
    BY DEF InCritical, Claimed, Dir, Flag
  <2> QED
    BY <2>1, CarsFit DEF IInv, IndicesFollow
<1> QED
  BY <1>1, Invariant, PTL

-----------------------------------------------------------------------------
(* The lanes.                                                              *)

\* The place of the car that is i-th to pass.
Slot(d, i) == (cons[d] + i - 1) % BufferSize

LaneOf(d) == [i \in 1..Cars(d) |-> buf[d][Slot(d, i)]]

\* Two sequences are one if they have the same elements.
LEMMA SameSequence ==
  ASSUME NEW a, NEW n \in Nat, a = [i \in 1..n |-> a[i]],
         NEW t \in Seq(Index), Len(t) = n, \A i \in 1..n : a[i] = t[i]
  PROVE  a = t
<1>1. t \in [1..n -> Index]
  OBVIOUS
<1>2. t = [i \in 1..n |-> t[i]]
  BY <1>1
<1> QED
  BY <1>2

\* The place where the next car comes is in nobody's place.
LEMMA NextSlotIsFree ==
  ASSUME NEW out \in Index, NEW c \in 0..BufferSize - 1, NEW i \in 1..c
  PROVE  (out + i - 1) % BufferSize # (out + c) % BufferSize
<1>1. out + i - 1 \in 0..2 * BufferSize - 1 /\ out + c \in 0..2 * BufferSize - 1
  BY BufferAssumption DEF Index
<1> QED
  BY <1>1, Modulo, BufferAssumption DEF Index

\* The i-th of the cars behind the first is i + 1st of all.
LEMMA SlotsMoveUp ==
  ASSUME NEW out \in Index, NEW c \in 1..BufferSize, NEW i \in 1..c - 1
  PROVE  (Incr(out) + i - 1) % BufferSize = (out + (i + 1) - 1) % BufferSize
<1>1. Incr(out) = IF out + 1 = BufferSize THEN 0 ELSE out + 1
  BY IndexWraps
<1>2. /\ out + (i + 1) - 1 \in 0..2 * BufferSize - 1
      /\ Incr(out) + i - 1 \in 0..2 * BufferSize - 1
  BY <1>1, BufferAssumption DEF Index
<1> QED
  BY <1>1, <1>2, Modulo, BufferAssumption DEF Index

LEMMA LaneTypes ==
  ASSUME IInv, NEW d \in Dir
  PROVE  /\ Cars(d) \in 0..BufferSize /\ cons[d] \in Index /\ prod[d] \in Index
         /\ LaneOf(d) \in Seq(Index) /\ Len(LaneOf(d)) = Cars(d)
         /\ Slot(d, Cars(d) + 1) = prod[d]
<1>1. Cars(d) \in 0..BufferSize /\ cons[d] \in Index /\ prod[d] \in Index
  BY CarsFit DEF IInv, TypeOK
<1>2. \A i \in 1..Cars(d) : Slot(d, i) \in Index
  BY <1>1, BufferAssumption DEF Slot, Index
<1>3. Slot(d, Cars(d) + 1) = prod[d]
  <2>1. cons[d] + (Cars(d) + 1) - 1 = cons[d] + Cars(d)
    BY <1>1, BufferAssumption DEF Index
  <2> QED
    BY <2>1 DEF IInv, IndicesFollow, Slot
<1>4. LaneOf(d) \in Seq(Index) /\ Len(LaneOf(d)) = Cars(d)
  <2>1. \A i \in 1..Cars(d) : buf[d][Slot(d, i)] \in Index
    BY <1>2 DEF IInv, TypeOK
  <2> QED
    BY <1>1, <2>1 DEF LaneOf
<1> QED
  BY <1>1, <1>3, <1>4

\* A car that comes is the last of its lane.
LEMMA CarEnters ==
  ASSUME IInv, NEW d \in Dir, Leave(d)
  PROVE  /\ Len(LaneOf(d)) < BufferSize
         /\ LaneOf(d)' = Append(LaneOf(d), prod[d])
         /\ prod' = [prod EXCEPT ![d] = (@ + 1) % BufferSize]
         /\ \A e \in Dir : e # d => LaneOf(e)' = LaneOf(e)
<1>1. /\ Cars(d) \in 0..BufferSize - 1 /\ Cars(d)' = Cars(d) + 1
      /\ prod' = [prod EXCEPT ![d] = Incr(@)] /\ UNCHANGED <<buf, cons>>
      /\ \A e \in Dir : e # d => Cars(e)' = Cars(e)
  BY CarCounts DEF IInv
<1>2. /\ LaneOf(d) \in Seq(Index) /\ Len(LaneOf(d)) = Cars(d)
      /\ Slot(d, Cars(d) + 1) = prod[d]
  BY LaneTypes
<1>3. buf[d][prod[d]] = prod[d]
  BY DEF IInv, CarInPlace, Leave, Goto
<1>4. LaneOf(d)' = [i \in 1..Cars(d) + 1 |-> buf[d][Slot(d, i)]]
  BY <1>1 DEF LaneOf, Slot
<1>5. LaneOf(d)' = Append(LaneOf(d), prod[d])
  <2> DEFINE c == Cars(d)
             a == [i \in 1..c + 1 |-> buf[d][Slot(d, i)]]
             b == [i \in 1..c |-> buf[d][Slot(d, i)]]
  <2>1. c \in Nat /\ b \in Seq(Index) /\ Len(b) = c /\ a[c + 1] = prod[d]
    BY <1>1, <1>2, <1>3, BufferAssumption DEF LaneOf
  <2>2. \A i \in 1..c : a[i] = b[i]
    BY <2>1
  <2>3. a = [i \in 1..c + 1 |-> a[i]]
    OBVIOUS
  <2>4. a = Append(b, prod[d])
    <3> HIDE DEF a, b, c
    <3>1. PICK t : t = Append(b, prod[d])
      OBVIOUS
    <3>2. /\ t \in Seq(Index) /\ Len(t) = c + 1 /\ t[c + 1] = prod[d]
          /\ \A i \in 1..c : t[i] = b[i]
      BY <2>1, <3>1, LaneTypes
    <3>3. \A i \in 1..c + 1 : a[i] = t[i]
      BY <2>1, <2>2, <3>2
    <3> QED
      BY <2>1, <2>3, <3>1, <3>2, <3>3, SameSequence
  <2> QED
    BY <1>4, <2>4 DEF LaneOf
<1>6. \A e \in Dir : e # d => LaneOf(e)' = LaneOf(e)
  BY <1>1 DEF LaneOf, Slot
<1> QED
  BY <1>1, <1>2, <1>5, <1>6, BufferAssumption DEF Incr

\* A car that passes is the first of its lane.
LEMMA CarPasses ==
  ASSUME IInv, Depart
  PROVE  /\ side \in Dir /\ LaneOf(side) # <<>>
         /\ LaneOf(side)' = Tail(LaneOf(side))
         /\ UNCHANGED <<prod, side>>
         /\ \A e \in Dir : e # side => LaneOf(e)' = LaneOf(e)
<1>1. /\ Cars(side) \in 1..BufferSize /\ Cars(side)' = Cars(side) - 1
      /\ cons' = [cons EXCEPT ![side] = Incr(@)] /\ UNCHANGED <<buf, prod, side>>
      /\ \A e \in Dir : e # side => Cars(e)' = Cars(e)
  BY CarGoes DEF IInv
<1>2. side \in Dir /\ cons \in [Dir -> Index]
  BY DEF IInv, TypeOK
<1>3. PICK d \in Dir : d = side
  BY <1>2
<1>4. LaneOf(d) \in Seq(Index) /\ Len(LaneOf(d)) = Cars(d) /\ cons[d] \in Index
  BY LaneTypes
<1>5. LaneOf(d)' = [i \in 1..Cars(d) - 1 |-> buf[d][Slot(d, i + 1)]]
  <2>1. \A i \in 1..Cars(d) - 1 : (Incr(cons[d]) + i - 1) % BufferSize = Slot(d, i + 1)
    BY <1>1, <1>3, <1>4, SlotsMoveUp DEF Slot
  <2>2. LaneOf(d)' = [i \in 1..Cars(d) - 1 |-> buf[d][(Incr(cons[d]) + i - 1) % BufferSize]]
    BY <1>1, <1>2, <1>3 DEF LaneOf, Slot
  <2> QED
    BY <2>1, <2>2
<1>6. LaneOf(d)' = Tail(LaneOf(d)) /\ LaneOf(d) # <<>>
  <2> DEFINE c == Cars(d)
             b == [i \in 1..c |-> buf[d][Slot(d, i)]]
             a == [i \in 1..c - 1 |-> buf[d][Slot(d, i + 1)]]
  <2>1. c \in Nat \ {0} /\ b \in Seq(Index) /\ Len(b) = c
    BY <1>1, <1>3, <1>4, BufferAssumption DEF LaneOf
  <2>2. \A i \in 1..c - 1 : a[i] = b[i + 1]
    BY <2>1
  <2>3. a = [i \in 1..c - 1 |-> a[i]]
    OBVIOUS
  <2>4. a = Tail(b) /\ b # <<>>
    <3> HIDE DEF a, b, c
    <3>1. PICK t : t = Tail(b)
      OBVIOUS
    <3>2. /\ t \in Seq(Index) /\ Len(t) = c - 1 /\ c - 1 \in Nat /\ b # <<>>
          /\ \A i \in 1..c - 1 : t[i] = b[i + 1]
      BY <2>1, <3>1
    <3>3. \A i \in 1..c - 1 : a[i] = t[i]
      BY <2>2, <3>2
    <3> QED
      BY <2>3, <3>1, <3>2, <3>3, SameSequence
  <2> QED
    BY <1>5, <2>4 DEF LaneOf
<1>7. \A e \in Dir : e # d => LaneOf(e)' = LaneOf(e)
  BY <1>1, <1>2, <1>3 DEF LaneOf, Slot
<1>8. LaneOf(side)' = LaneOf(d)'
  BY <1>1, <1>3
<1> QED
  BY <1>1, <1>2, <1>3, <1>6, <1>7, <1>8

\* The other steps, that of a car that takes its place as well, leave the lanes alone.
LEMMA LanesStay ==
  ASSUME IInv, [Next]_vars, \A d \in Dir : ~Leave(d), ~Depart
  PROVE  UNCHANGED prod /\ \A e \in Dir : LaneOf(e)' = LaneOf(e)
<1>1. /\ \A e \in Dir : Cars(e)' = Cars(e)
      /\ UNCHANGED <<prod, cons>>
      /\ UNCHANGED buf \/ \E d \in Dir : Arrive(d)
  BY CarsStay DEF IInv
<1>2. CASE UNCHANGED buf
  BY <1>1, <1>2 DEF LaneOf, Slot
<1>3. ASSUME NEW d \in Dir, Arrive(d) PROVE \A e \in Dir : LaneOf(e)' = LaneOf(e)
  <2>1. cons[d] \in Index /\ prod[d] \in Index /\ prod[d] % BufferSize = prod[d]
    BY LaneTypes, IndexWraps
  <2>2. Cars(d) \in 0..BufferSize - 1
    <3>1. kpc[d] = "user" /\ Claimed(d)
      BY <1>3 DEF Arrive, Goto, Claimed
    <3>2. Cars(d) \in 0..BufferSize /\ Cars(d) < BufferSize
      BY <3>1, CarsFit DEF IInv
    <3> QED
      BY <3>2, BufferAssumption
  <2>3. (cons[d] + Cars(d)) % BufferSize = prod[d]
    BY DEF IInv, IndicesFollow
  <2>4. \A i \in 1..Cars(d) : Slot(d, i) # prod[d]
    BY <2>1, <2>2, <2>3, NextSlotIsFree DEF Slot
  <2>5. \A e \in Dir, k \in Index : e # d \/ k # prod[d] => buf'[e][k] = buf[e][k]
    BY <1>3, <2>1 DEF Arrive, IInv, TypeOK
  <2>6. ASSUME NEW e \in Dir PROVE LaneOf(e)' = LaneOf(e)
    <3>1. \A i \in 1..Cars(e) : Slot(e, i) \in Index
      <4>1. Cars(e) \in 0..BufferSize /\ cons[e] \in Index
        BY LaneTypes
      <4> QED
        BY <4>1, BufferAssumption DEF Slot, Index
    <3>2. \A i \in 1..Cars(e) : buf'[e][Slot(e, i)] = buf[e][Slot(e, i)]
      BY <2>4, <2>5, <3>1
    <3>3. LaneOf(e)' = [i \in 1..Cars(e) |-> buf'[e][Slot(e, i)]]
      BY <1>1 DEF LaneOf, Slot
    <3> QED
      BY <3>2, <3>3 DEF LaneOf
  <2> QED
    BY <2>6
<1> QED
  BY <1>1, <1>2, <1>3

-----------------------------------------------------------------------------
\* The lanes as the abstract specification sees them.
LaneState == [d \in Dir |-> LaneOf(d)]

LEMMA LanesEnter ==
  ASSUME NEW d \in Dir, Len(LaneOf(d)) < BufferSize,
         LaneOf(d)' = Append(LaneOf(d), prod[d]),
         prod' = [prod EXCEPT ![d] = (@ + 1) % BufferSize],
         \A e \in Dir : e # d => LaneOf(e)' = LaneOf(e)
  PROVE  Lanes!Enter(d)
<1>1. LaneState' = [LaneState EXCEPT ![d] = Append(@, prod[d])]
  BY DEF LaneState
<1>2. Len(LaneState[d]) < BufferSize
  BY DEF LaneState
<1> QED
  BY <1>1, <1>2 DEF Lanes!Enter, LaneState, LaneOf, Slot

LEMMA LanesPass ==
  ASSUME NEW d \in Dir, LaneOf(d) # <<>>, LaneOf(d)' = Tail(LaneOf(d)), UNCHANGED prod,
         \A e \in Dir : e # d => LaneOf(e)' = LaneOf(e)
  PROVE  Lanes!Pass(d)
<1>1. LaneState' = [LaneState EXCEPT ![d] = Tail(@)]
  BY DEF LaneState
<1>2. LaneState[d] # <<>>
  BY DEF LaneState
<1> QED
  BY <1>1, <1>2 DEF Lanes!Pass, LaneState, LaneOf, Slot

LEMMA LanesRest ==
  ASSUME UNCHANGED prod, \A e \in Dir : LaneOf(e)' = LaneOf(e)
  PROVE  UNCHANGED Lanes!vars
<1>1. LaneState' = LaneState
  BY DEF LaneState
<1> QED
  BY <1>1 DEF Lanes!vars, LaneState, LaneOf, Slot

LEMMA LanesBegin == Init => Lanes!Init
<1> SUFFICES ASSUME Init PROVE Lanes!Init
  OBVIOUS
<1>1. \A d \in Dir : Cars(d) = 0
  BY DEF Init, K!Init, InitValue, Cars, Taken, One, Proc, Dir, Flag, Full, Sem, Mutex
<1>2. \A d \in Dir : LaneOf(d) = <<>>
  BY <1>1 DEF LaneOf
<1>3. LaneState = [d \in Dir |-> <<>>]
  BY <1>2 DEF LaneState
<1> QED
  BY <1>3 DEF Lanes!Init, Init, LaneState, LaneOf, Slot

LEMMA LanesStep == IInv /\ [Next]_vars => [Lanes!Next]_(Lanes!vars)
<1> SUFFICES ASSUME IInv, [Next]_vars
             PROVE  [Lanes!Next]_(Lanes!vars)
  OBVIOUS
<1>1. ASSUME NEW d \in Dir, Leave(d) PROVE Lanes!Enter(d)
  BY <1>1, CarEnters, LanesEnter
<1>2. ASSUME Depart PROVE \E d \in Dir : Lanes!Pass(d)
  <2>1. PICK d \in Dir : d = side
    BY <1>2, CarPasses
  <2>2. /\ LaneOf(d) # <<>> /\ UNCHANGED prod
        /\ \A e \in Dir : e # d => LaneOf(e)' = LaneOf(e)
    BY <1>2, <2>1, CarPasses
  <2>3. LaneOf(d)' = Tail(LaneOf(d))
    BY <1>2, <2>1, CarPasses
  <2> QED
    BY <2>2, <2>3, LanesPass
<1>3. CASE (\A d \in Dir : ~Leave(d)) /\ ~Depart
  BY <1>3, LanesStay, LanesRest
<1>4. CASE \E d \in Dir : Leave(d)
  <2>1. Lanes!Next
    BY <1>1, <1>4 DEF Lanes!Next
  <2> QED
    BY <2>1
<1>5. CASE Depart
  <2>1. Lanes!Next
    BY <1>2, <1>5 DEF Lanes!Next
  <2> QED
    BY <2>1
<1> QED
  BY <1>3, <1>4, <1>5

\* The two buffers are two first-in first-out lanes: no car is lost, passes twice or
\* overtakes, for any BUFFER_SIZE.  The safety part of KeepsLanes.
THEOREM LanesInOrder == Spec => Lanes!Init /\ [][Lanes!Next]_(Lanes!vars)
BY LanesBegin, Invariant, LanesStep, PTL DEF Spec

=============================================================================
