-------------------------- MODULE Cs1550SemProofs --------------------------
(***************************************************************************)
(* Proofs about Cs1550Sem, for any set of processes, any set of semaphores *)
(* and any initial values.  The invariants of the module are inductive     *)
(* together: a caller runs (UserRuns), so it is in no list                 *)
(* (SleepsIffListed), so that it stands in one list once after down()      *)
(* (WaitsOnce); and the value tells up() that there is a process to wake   *)
(* (ListMatchesValue).                                                     *)
(***************************************************************************)
EXTENDS Cs1550Sem, SequenceTheorems, TLAPS

IInv == TypeOK /\ ListMatchesValue /\ WaitsOnce /\ SleepsIffListed /\ UserRuns

-----------------------------------------------------------------------------
(* What Append and Tail do to the places of a list.                        *)

\* Linking a node at the end keeps every place and adds one.
LEMMA AppendPlaces ==
  ASSUME NEW S, NEW q \in Seq(S), NEW e \in S
  PROVE  /\ Append(q, e) \in Seq(S)
         /\ Len(Append(q, e)) = Len(q) + 1
         /\ \A i \in 1..Len(q) : Append(q, e)[i] = q[i]
         /\ Append(q, e)[Len(q) + 1] = e
  OBVIOUS

\* Unlinking the first node moves every other process up by one place.
LEMMA TailPlaces ==
  ASSUME NEW S, NEW q \in Seq(S), q # <<>>
  PROVE  /\ Len(q) \in Nat \ {0}
         /\ Head(q) = q[1] /\ Head(q) \in S
         /\ Tail(q) \in Seq(S)
         /\ Len(Tail(q)) = Len(q) - 1
         /\ \A i \in 1..Len(q) - 1 : Tail(q)[i] = q[i + 1]
  OBVIOUS

\* A list is empty exactly when its length is zero.
LEMMA EmptyList ==
  ASSUME NEW S, NEW q \in Seq(S)
  PROVE  Len(q) \in Nat /\ (q = <<>> <=> Len(q) = 0)
  OBVIOUS

-----------------------------------------------------------------------------
\* The steps of a process that runs into down() and finds a unit.
LEMMA DownTakes ==
  ASSUME IInv, NEW p \in Proc, NEW s \in Sem, Down(p, s), value[s] - 1 >= 0
  PROVE  IInv'
<1>1. TypeOK /\ ListMatchesValue /\ WaitsOnce /\ SleepsIffListed /\ UserRuns
  BY DEF IInv
<1>2. /\ value' = [value EXCEPT ![s] = @ - 1]
      /\ UNCHANGED <<queue, state, kpc>>
  BY <1>1 DEF TypeOK, Down
<1>3. TypeOK'
  BY <1>1, <1>2 DEF TypeOK
<1>4. ListMatchesValue'
  BY <1>1, <1>2 DEF TypeOK, ListMatchesValue, Min0
<1>5. WaitsOnce' /\ SleepsIffListed' /\ UserRuns'
  BY <1>1, <1>2 DEF WaitsOnce, SleepsIffListed, UserRuns, Listed
<1> QED
  BY <1>3, <1>4, <1>5 DEF IInv

\* The caller of down() stands in no list, so that it may join one.
LEMMA CallerNotListed ==
  ASSUME IInv, NEW p \in Proc, kpc[p] = "user"
  PROVE  /\ state[p] = "RUNNING"
         /\ \A t \in Sem : \A i \in 1..Len(queue[t]) : queue[t][i] # p
BY DEF IInv, SleepsIffListed, UserRuns, Listed

\* The steps of a process that finds no unit, up to schedule().
LEMMA DownBlocks ==
  ASSUME IInv, NEW p \in Proc, NEW s \in Sem, Down(p, s), value[s] - 1 < 0
  PROVE  IInv'
<1>1. TypeOK /\ ListMatchesValue /\ WaitsOnce /\ SleepsIffListed /\ UserRuns
  BY DEF IInv
<1>2. /\ value' = [value EXCEPT ![s] = @ - 1]
      /\ queue' = [queue EXCEPT ![s] = Append(@, p)]
      /\ state' = [state EXCEPT ![p] = "INTERRUPTIBLE"]
      /\ kpc' = [kpc EXCEPT ![p] = "schedule"]
      /\ kpc[p] = "user"
  BY <1>1 DEF TypeOK, Down, Block
<1> DEFINE n == Len(queue[s])
<1>3. /\ n \in Nat
      /\ queue'[s] \in Seq(Proc) /\ Len(queue'[s]) = n + 1
      /\ \A i \in 1..n : queue'[s][i] = queue[s][i]
      /\ queue'[s][n + 1] = p
      /\ \A t \in Sem : t # s => queue'[t] = queue[t]
  BY <1>1, <1>2, AppendPlaces, EmptyList DEF TypeOK
<1>4. TypeOK'
  BY <1>1, <1>2, <1>3 DEF TypeOK
<1>5. ListMatchesValue'
  <2>1. Len(queue'[s]) = Min0(value'[s])
    BY <1>1, <1>2, <1>3 DEF TypeOK, ListMatchesValue, Min0
  <2>2. \A t \in Sem : t # s => value'[t] = value[t]
    BY <1>1, <1>2 DEF TypeOK
  <2> QED
    BY <1>1, <1>3, <2>1, <2>2 DEF ListMatchesValue
<1>6. \A t \in Sem : \A i \in 1..Len(queue'[t]) :
        \/ t = s /\ i = n + 1 /\ queue'[t][i] = p
        \/ i \in 1..Len(queue[t]) /\ queue'[t][i] = queue[t][i]
                                 /\ queue'[t][i] # p
  BY <1>2, <1>3, CallerNotListed
<1>7. WaitsOnce'
  BY <1>1, <1>6 DEF WaitsOnce
<1>8. SleepsIffListed'
  <2>1. Listed(p)'
    BY <1>3 DEF Listed
  <2>2. ASSUME NEW q \in Proc, q # p PROVE Listed(q)' <=> Listed(q)
    <3>1. Listed(q)' => Listed(q)
      BY <1>6, <2>2 DEF Listed
    <3>2. Listed(q) => Listed(q)'
      BY <1>3 DEF Listed
    <3> QED
      BY <3>1, <3>2
  <2> QED
    BY <1>1, <1>2, <2>1, <2>2 DEF TypeOK, SleepsIffListed
<1>9. UserRuns'
  BY <1>1, <1>2 DEF TypeOK, UserRuns
<1> QED
  BY <1>4, <1>5, <1>7, <1>8, <1>9 DEF IInv

\* The steps of a process that gives a unit back that nobody waits for.
LEMMA UpFrees ==
  ASSUME IInv, NEW p \in Proc, NEW s \in Sem, Up(p, s), value[s] + 1 > 0
  PROVE  IInv'
<1>1. TypeOK /\ ListMatchesValue /\ WaitsOnce /\ SleepsIffListed /\ UserRuns
  BY DEF IInv
<1>2. /\ value' = [value EXCEPT ![s] = @ + 1]
      /\ UNCHANGED <<queue, state, kpc>>
  BY <1>1 DEF TypeOK, Up
<1>3. TypeOK'
  BY <1>1, <1>2 DEF TypeOK
<1>4. ListMatchesValue'
  BY <1>1, <1>2 DEF TypeOK, ListMatchesValue, Min0
<1>5. WaitsOnce' /\ SleepsIffListed' /\ UserRuns'
  BY <1>1, <1>2 DEF WaitsOnce, SleepsIffListed, UserRuns, Listed
<1> QED
  BY <1>3, <1>4, <1>5 DEF IInv

\* up() decides by the value that somebody waits, and there is somebody.
LEMMA UpFindsSomebody ==
  ASSUME IInv, NEW s \in Sem, value[s] + 1 <= 0
  PROVE  queue[s] # <<>>
<1>1. Len(queue[s]) = Min0(value[s]) /\ value[s] \in Int /\ queue[s] \in Seq(Proc)
  BY DEF IInv, TypeOK, ListMatchesValue
<1>2. Len(queue[s]) # 0
  BY <1>1 DEF Min0
<1> QED
  BY <1>1, <1>2, EmptyList

\* The steps of a process that hands its unit to the first that waits.
LEMMA UpWakes ==
  ASSUME IInv, NEW p \in Proc, NEW s \in Sem, Up(p, s), value[s] + 1 <= 0
  PROVE  IInv'
<1>1. TypeOK /\ ListMatchesValue /\ WaitsOnce /\ SleepsIffListed /\ UserRuns
  BY DEF IInv
<1>2. queue[s] # <<>>
  BY UpFindsSomebody
<1> DEFINE n == Len(queue[s])
<1> PICK w \in Proc : w = Head(queue[s])
  BY <1>1, <1>2, TailPlaces DEF TypeOK
<1>3. /\ value' = [value EXCEPT ![s] = @ + 1]
      /\ queue' = [queue EXCEPT ![s] = Tail(@)]
      /\ state' = [state EXCEPT ![w] = "RUNNING"]
      /\ kpc' = kpc
  BY <1>1, <1>2 DEF TypeOK, Up, WakeFirst
<1>4. /\ n \in Nat \ {0} /\ w = queue[s][1]
      /\ queue'[s] \in Seq(Proc) /\ Len(queue'[s]) = n - 1
      /\ \A i \in 1..n - 1 : queue'[s][i] = queue[s][i + 1]
      /\ \A t \in Sem : t # s => queue'[t] = queue[t]
  BY <1>1, <1>2, <1>3, TailPlaces DEF TypeOK
<1>5. TypeOK'
  BY <1>1, <1>3, <1>4 DEF TypeOK
<1>6. ListMatchesValue'
  <2>1. Len(queue'[s]) = Min0(value'[s])
    <3>1. value[s] \in Int /\ value'[s] = value[s] + 1 /\ n = Min0(value[s])
      BY <1>1, <1>3 DEF TypeOK, ListMatchesValue
    <3>2. n = -value[s]
      BY <3>1 DEF Min0
    <3> QED
      BY <1>4, <3>1, <3>2 DEF Min0
  <2>2. \A t \in Sem : t # s => value'[t] = value[t]
    BY <1>1, <1>3 DEF TypeOK
  <2> QED
    BY <1>1, <1>4, <2>1, <2>2 DEF ListMatchesValue
<1>7. \A t \in Sem : \A i \in 1..Len(queue'[t]) :
        \/ t = s /\ i + 1 \in 1..n /\ queue'[t][i] = queue[s][i + 1]
        \/ t # s /\ i \in 1..Len(queue[t]) /\ queue'[t][i] = queue[t][i]
  BY <1>4
<1>8. WaitsOnce'
  <2> SUFFICES ASSUME NEW t \in Sem, NEW u \in Sem,
                      NEW i \in 1..Len(queue'[t]), NEW j \in 1..Len(queue'[u]),
                      queue'[t][i] = queue'[u][j]
               PROVE  t = u /\ i = j
    BY DEF WaitsOnce
  <2>1. CASE t = s /\ u = s
    BY <1>1, <1>4, <2>1 DEF WaitsOnce
  <2>2. CASE t = s /\ u # s
    BY <1>1, <1>7, <2>2 DEF WaitsOnce
  <2>3. CASE t # s /\ u = s
    BY <1>1, <1>7, <2>3 DEF WaitsOnce
  <2>4. CASE t # s /\ u # s
    BY <1>1, <1>4, <2>4 DEF WaitsOnce
  <2> QED
    BY <2>1, <2>2, <2>3, <2>4
<1>9. SleepsIffListed'
  <2>1. ~Listed(w)'
    <3> SUFFICES ASSUME NEW t \in Sem, NEW i \in 1..Len(queue'[t]), queue'[t][i] = w
                 PROVE  FALSE
      BY DEF Listed
    <3>1. 1 \in 1..n /\ queue[s][1] = w
      BY <1>4
    <3>2. CASE t = s
      <4>1. i + 1 \in 1..n /\ queue[s][i + 1] = w /\ i + 1 # 1
        BY <1>4, <3>2
      <4> QED
        BY <1>1, <3>1, <4>1 DEF WaitsOnce
    <3>3. CASE t # s
      BY <1>1, <1>4, <3>1, <3>3 DEF WaitsOnce
    <3> QED
      BY <3>2, <3>3
  <2>2. ASSUME NEW q \in Proc, q # w PROVE Listed(q)' <=> Listed(q)
    <3>1. Listed(q)' => Listed(q)
      BY <1>7 DEF Listed
    <3>2. ASSUME NEW t \in Sem, NEW i \in 1..Len(queue[t]), queue[t][i] = q
          PROVE  Listed(q)'
      <4>1. CASE t = s
        <5>1. i - 1 \in 1..Len(queue'[s]) /\ queue'[s][i - 1] = q
          BY <1>4, <2>2, <3>2, <4>1
        <5> QED
          BY <5>1 DEF Listed
      <4>2. CASE t # s
        BY <1>4, <3>2, <4>2 DEF Listed
      <4> QED
        BY <4>1, <4>2
    <3> QED
      BY <3>1, <3>2 DEF Listed
  <2>3. state'[w] = "RUNNING" /\ \A q \in Proc : q # w => state'[q] = state[q]
    BY <1>1, <1>3, <1>4 DEF TypeOK
  <2> QED
    BY <1>1, <2>1, <2>2, <2>3 DEF SleepsIffListed
<1>10. UserRuns'
  BY <1>1, <1>3, <1>4 DEF TypeOK, UserRuns
<1> QED
  BY <1>5, <1>6, <1>8, <1>9, <1>10 DEF IInv

\* A process goes on inside down() only as its task state says.
LEMMA KernelKeeps ==
  ASSUME IInv, NEW p \in Proc, Kernel(p)
  PROVE  IInv'
<1>1. /\ kpc' = [kpc EXCEPT ![p] = IF state[p] = "RUNNING" THEN "user" ELSE "off"]
      /\ UNCHANGED <<value, queue, state>>
  BY DEF IInv, TypeOK, Kernel, Schedule, Resume
<1>2. TypeOK'
  BY <1>1 DEF IInv, TypeOK
<1>3. UserRuns'
  BY <1>1 DEF IInv, TypeOK, UserRuns
<1>4. ListMatchesValue' /\ WaitsOnce' /\ SleepsIffListed'
  BY <1>1 DEF IInv, ListMatchesValue, WaitsOnce, SleepsIffListed, Listed
<1> QED
  BY <1>2, <1>3, <1>4 DEF IInv

-----------------------------------------------------------------------------
LEMMA InitInv == Init => IInv
<1> SUFFICES ASSUME Init PROVE IInv
  OBVIOUS
<1>1. TypeOK
  BY SemAssumption DEF Init, TypeOK
<1>2. \A s \in Sem : Len(queue[s]) = 0 /\ value[s] \in Nat
  BY SemAssumption DEF Init
<1>3. ListMatchesValue
  BY <1>2 DEF ListMatchesValue, Min0
<1>4. WaitsOnce /\ SleepsIffListed
  BY <1>2 DEF Init, WaitsOnce, SleepsIffListed, Listed
<1>5. UserRuns
  BY DEF Init, UserRuns
<1> QED
  BY <1>1, <1>3, <1>4, <1>5 DEF IInv

\* down() and up(), with and without a process that waits.
LEMMA DownKeeps == ASSUME IInv, NEW p \in Proc, NEW s \in Sem, Down(p, s)
                   PROVE  IInv'
<1>1. value[s] \in Int
  BY DEF IInv, TypeOK
<1> QED
  BY <1>1, DownTakes, DownBlocks

LEMMA UpKeeps == ASSUME IInv, NEW p \in Proc, NEW s \in Sem, Up(p, s)
                 PROVE  IInv'
<1>1. value[s] \in Int
  BY DEF IInv, TypeOK
<1> QED
  BY <1>1, UpFrees, UpWakes

LEMMA NextInv == IInv /\ [Next]_vars => IInv'
<1> SUFFICES ASSUME IInv, [Next]_vars PROVE IInv'
  OBVIOUS
<1>1. CASE \E p \in Proc, s \in Sem : Down(p, s)
  BY <1>1, DownKeeps
<1>2. CASE \E p \in Proc, s \in Sem : value[s] < MaxValue /\ Up(p, s)
  BY <1>2, UpKeeps
<1>3. CASE \E p \in Proc : Kernel(p)
  BY <1>3, KernelKeeps
<1>4. CASE UNCHANGED vars
  BY <1>4 DEF IInv, TypeOK, ListMatchesValue, WaitsOnce, SleepsIffListed,
              UserRuns, Listed, vars
<1> QED
  BY <1>1, <1>2, <1>3, <1>4 DEF Next

\* The invariants hold together in every behaviour.
LEMMA Invariant == Spec => []IInv
BY InitInv, NextInv, PTL DEF Spec

\* The variables of sys_cs1550_down and sys_cs1550_up keep their types.
THEOREM TypeCorrect == Spec => []TypeOK
<1>1. IInv => TypeOK
  BY DEF IInv
<1> QED
  BY <1>1, Invariant, PTL

\* The test "value <= 0" of sys_cs1550_up is right: a negative value counts
\* the processes in the list.
THEOREM ValueCountsWaiters == Spec => []ListMatchesValue
<1>1. IInv => ListMatchesValue
  BY DEF IInv
<1> QED
  BY <1>1, Invariant, PTL

\* However many processes call down(), each stands in one list at most, once.
THEOREM OneListOnce == Spec => []WaitsOnce
<1>1. IInv => WaitsOnce
  BY DEF IInv
<1> QED
  BY <1>1, Invariant, PTL

\* No wake-up is lost in the window between spin_unlock() and schedule().
THEOREM NoLostWakeUp == Spec => []SleepsIffListed
<1>1. IInv => SleepsIffListed
  BY DEF IInv
<1> QED
  BY <1>1, Invariant, PTL

\* down() returns to a process that runs, never to one that is to sleep.
THEOREM ReturnsRunning == Spec => []UserRuns
<1>1. IInv => UserRuns
  BY DEF IInv
<1> QED
  BY <1>1, Invariant, PTL

-----------------------------------------------------------------------------
(* The calls implement FifoSemaphore.                                      *)

\* The free units and the status of the processes, as FifoSemaphore sees them.
Free == [s \in Sem |-> IF value[s] > 0 THEN value[s] ELSE 0]
Status == [p \in Proc |-> IF state[p] = "INTERRUPTIBLE" THEN "waiting"
                          ELSE IF kpc[p] = "user" THEN "running" ELSE "granted"]

LEMMA DownIsTake ==
  ASSUME IInv, NEW p \in Proc, NEW s \in Sem, Down(p, s), value[s] - 1 >= 0
  PROVE  Promise!Take(p, s)
<1>1. /\ value' = [value EXCEPT ![s] = @ - 1]
      /\ UNCHANGED <<queue, state, kpc>>
      /\ value \in [Sem -> Int] /\ value[s] > 0
  BY DEF IInv, TypeOK, Down
<1>2. kpc[p] = "user" /\ state[p] = "RUNNING"
  BY CallerNotListed DEF Down
<1>3. Free' = [Free EXCEPT ![s] = @ - 1] /\ Free[s] > 0
  <2>1. Free = [t \in Sem |-> Free[t]] /\ Free' = [t \in Sem |-> Free'[t]]
    BY DEF Free
  <2>2. \A t \in Sem : Free'[t] = IF t = s THEN Free[s] - 1 ELSE Free[t]
    BY <1>1 DEF Free
  <2>3. Free[s] > 0
    BY <1>1 DEF Free
  <2> QED
    BY <2>1, <2>2, <2>3
<1>4. Status' = Status /\ Status[p] = "running"
  BY <1>1, <1>2 DEF Status
<1> QED
  BY <1>1, <1>3, <1>4 DEF Promise!Take, Free, Status

LEMMA DownIsWait ==
  ASSUME IInv, NEW p \in Proc, NEW s \in Sem, Down(p, s), value[s] - 1 < 0
  PROVE  Promise!Wait(p, s)
<1>1. /\ value' = [value EXCEPT ![s] = @ - 1]
      /\ queue' = [queue EXCEPT ![s] = Append(@, p)]
      /\ state' = [state EXCEPT ![p] = "INTERRUPTIBLE"]
      /\ kpc' = [kpc EXCEPT ![p] = "schedule"]
      /\ value \in [Sem -> Int] /\ value[s] <= 0
      /\ state \in [Proc -> {"RUNNING", "INTERRUPTIBLE"}]
      /\ kpc \in [Proc -> {"user", "schedule", "off"}]
  BY DEF IInv, TypeOK, Down, Block
<1>2. kpc[p] = "user" /\ state[p] = "RUNNING"
  BY CallerNotListed DEF Down
<1>3. Free' = Free /\ Free[s] = 0
  BY <1>1 DEF Free
<1>4. Status' = [Status EXCEPT ![p] = "waiting"] /\ Status[p] = "running"
  BY <1>1, <1>2 DEF Status
<1> QED
  BY <1>1, <1>3, <1>4 DEF Promise!Wait, Free, Status

LEMMA UpIsGiveBack ==
  ASSUME IInv, NEW p \in Proc, NEW s \in Sem, Up(p, s), value[s] + 1 > 0
  PROVE  Promise!GiveBack(p, s)
<1>1. /\ value' = [value EXCEPT ![s] = @ + 1]
      /\ UNCHANGED <<queue, state, kpc>>
      /\ value \in [Sem -> Int] /\ value[s] >= 0
  BY DEF IInv, TypeOK, Up
<1>2. kpc[p] = "user" /\ state[p] = "RUNNING"
  BY CallerNotListed DEF Up
<1>3. queue[s] = <<>>
  <2>1. queue[s] \in Seq(Proc) /\ Len(queue[s]) = 0
    BY <1>1 DEF IInv, TypeOK, ListMatchesValue, Min0
  <2> QED
    BY <2>1, EmptyList
<1>4. Free' = [Free EXCEPT ![s] = @ + 1]
  <2>1. Free = [t \in Sem |-> Free[t]] /\ Free' = [t \in Sem |-> Free'[t]]
    BY DEF Free
  <2>2. \A t \in Sem : Free'[t] = IF t = s THEN Free[s] + 1 ELSE Free[t]
    BY <1>1 DEF Free
  <2> QED
    BY <2>1, <2>2
<1>5. Status' = Status /\ Status[p] = "running"
  BY <1>1, <1>2 DEF Status
<1> QED
  BY <1>1, <1>3, <1>4, <1>5 DEF Promise!GiveBack, Free, Status

LEMMA UpIsHandOver ==
  ASSUME IInv, NEW p \in Proc, NEW s \in Sem, Up(p, s), value[s] + 1 <= 0
  PROVE  Promise!HandOver(p, s)
<1>1. queue[s] # <<>> /\ queue[s] \in Seq(Proc)
  BY UpFindsSomebody DEF IInv, TypeOK
<1> PICK w \in Proc : w = Head(queue[s]) /\ w = queue[s][1] /\ Len(queue[s]) >= 1
  BY <1>1, TailPlaces
<1>2. /\ value' = [value EXCEPT ![s] = @ + 1]
      /\ queue' = [queue EXCEPT ![s] = Tail(@)]
      /\ state' = [state EXCEPT ![w] = "RUNNING"]
      /\ kpc' = kpc
      /\ value \in [Sem -> Int] /\ value[s] < 0
      /\ state \in [Proc -> {"RUNNING", "INTERRUPTIBLE"}]
  BY <1>1 DEF IInv, TypeOK, Up, WakeFirst
<1>3. kpc[p] = "user" /\ state[p] = "RUNNING"
  BY CallerNotListed DEF Up
<1>4. kpc[w] # "user"
  <2>1. 1 \in 1..Len(queue[s])
    BY <1>1, EmptyList
  <2>2. Listed(w)
    BY <2>1 DEF Listed
  <2> QED
    BY <2>2 DEF IInv, SleepsIffListed, UserRuns
<1>5. Free' = Free
  BY <1>2 DEF Free
<1>6. Status' = [Status EXCEPT ![w] = "granted"] /\ Status[p] = "running"
  BY <1>2, <1>3, <1>4 DEF Status
<1> QED
  BY <1>1, <1>2, <1>5, <1>6 DEF Promise!HandOver, Free, Status

\* The way back is a step of the promise when it ends in the program, and the
\* call of schedule() by a process that must wait is none.
LEMMA KernelIsGoOn ==
  ASSUME IInv, NEW p \in Proc, Kernel(p)
  PROVE  Promise!GoOn(p) \/ UNCHANGED Promise!vars
<1>1. /\ kpc' = [kpc EXCEPT ![p] = IF state[p] = "RUNNING" THEN "user" ELSE "off"]
      /\ kpc[p] # "user"
      /\ UNCHANGED <<value, queue, state>>
      /\ kpc \in [Proc -> {"user", "schedule", "off"}]
      /\ state \in [Proc -> {"RUNNING", "INTERRUPTIBLE"}]
  BY DEF IInv, TypeOK, Kernel, Schedule, Resume
<1>2. Free' = Free
  BY <1>1 DEF Free
<1>3. CASE state[p] = "RUNNING"
  <2>1. Status' = [Status EXCEPT ![p] = "running"] /\ Status[p] = "granted"
    BY <1>1, <1>3 DEF Status
  <2> QED
    BY <1>1, <1>2, <2>1 DEF Promise!GoOn, Free, Status
<1>4. CASE state[p] # "RUNNING"
  <2>1. Status' = Status
    BY <1>1, <1>4 DEF Status
  <2> QED
    BY <1>1, <1>2, <2>1 DEF Promise!vars, Free, Status
<1> QED
  BY <1>3, <1>4

LEMMA InitPromise == Init => Promise!Init
<1> SUFFICES ASSUME Init PROVE Promise!Init
  OBVIOUS
<1>1. Free = InitValue
  BY SemAssumption DEF Init, Free
<1>2. Status = [p \in Proc |-> "running"]
  BY DEF Init, Status
<1> QED
  BY <1>1, <1>2 DEF Promise!Init, Init, Free, Status

LEMMA NextPromise == IInv /\ [Next]_vars => [Promise!Next]_(Promise!vars)
<1> SUFFICES ASSUME IInv, [Next]_vars
             PROVE  Promise!Next \/ UNCHANGED Promise!vars
  OBVIOUS
<1> USE DEF Promise!Next
<1>1. ASSUME NEW p \in Proc, NEW s \in Sem, Down(p, s) PROVE Promise!Next
  <2>1. value[s] \in Int
    BY DEF IInv, TypeOK
  <2> QED
    BY <1>1, <2>1, DownIsTake, DownIsWait
<1>2. ASSUME NEW p \in Proc, NEW s \in Sem, Up(p, s) PROVE Promise!Next
  <2>1. value[s] \in Int
    BY DEF IInv, TypeOK
  <2> QED
    BY <1>2, <2>1, UpIsGiveBack, UpIsHandOver
<1>3. ASSUME NEW p \in Proc, Kernel(p)
      PROVE  Promise!Next \/ UNCHANGED Promise!vars
  BY <1>3, KernelIsGoOn
<1>4. CASE UNCHANGED vars
  BY <1>4 DEF vars, Promise!vars
<1> QED
  BY <1>1, <1>2, <1>3, <1>4 DEF Next

\* Every step of sys_cs1550_down and sys_cs1550_up is a step of the semaphore
\* with direct hand-over in order of arrival, or invisible to it: the safety
\* part of KeepsPromise.
THEOREM CallsKeepPromise == Spec => Promise!Init /\ [][Promise!Next]_(Promise!vars)
BY Invariant, InitPromise, NextPromise, PTL DEF Spec

=============================================================================
