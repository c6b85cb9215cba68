-------------------------- MODULE ProcessesProofs --------------------------
(***************************************************************************)
(* Proofs about Processes and Usage, for any set of pids.                  *)
(*                                                                         *)
(* Groups stay in one session: what makes that inductive is what the       *)
(* number of a group or a session says of the process that has it for its  *)
(* pid, as long as there is one.  A sample of times is between what there  *)
(* was and what there is: together with what it has still to read it is so *)
(* at each of its steps.                                                   *)
(***************************************************************************)
EXTENDS Usage, FiniteSetTheorems, NaturalsInduction, TLAPS

\* A group that has a process's number is in the process's session.
GroupOfNumber ==
  \A p, q \in Process : pgrp[q] = p => session[q] = session[p]

\* A process whose number a session has is in that session.
SessionOfNumber ==
  \A p, q \in Process : session[q] = p => session[p] = p

InitStays == session[InitPid] = InitPid

IInv == TypeOK /\ GroupsInOneSession /\ SessionLeaderLeads
        /\ GroupOfNumber /\ SessionOfNumber /\ InitStays

-----------------------------------------------------------------------------
\* The parts of IInv that do not speak of types.
Safe == /\ GroupsInOneSession /\ SessionLeaderLeads
        /\ GroupOfNumber /\ SessionOfNumber /\ InitStays

\* Steps that leave the signal structures of the processes that stay alone.
LEMMA FewerProcesses ==
  ASSUME IInv, Process' \subseteq Process, InitPid \in Process',
         leader' \subseteq leader, leader' \subseteq Process',
         \A p \in Process' : pgrp'[p] = pgrp[p] /\ session'[p] = session[p]
  PROVE  Safe'
<1>1. GroupsInOneSession'
  BY DEF IInv, GroupsInOneSession
<1>2. SessionLeaderLeads'
  BY DEF IInv, SessionLeaderLeads
<1>3. GroupOfNumber'
  BY DEF IInv, GroupOfNumber
<1>4. SessionOfNumber'
  BY DEF IInv, SessionOfNumber
<1>5. InitStays'
  BY DEF IInv, InitStays
<1> QED
  BY <1>1, <1>2, <1>3, <1>4, <1>5 DEF Safe

LEMMA InitHolds == Init => IInv
<1> SUFFICES ASSUME Init PROVE IInv
  OBVIOUS
<1>1. Process = {InitPid} /\ Alive = {InitPid}
  BY ProcessesAssumption DEF Init, Process, Alive, thread_group_leader
<1>2. TypeOK
  BY <1>1, ProcessesAssumption DEF Init, TypeOK
<1> QED
  BY <1>1, <1>2, ProcessesAssumption
     DEF IInv, Init, GroupsInOneSession, SessionLeaderLeads, GroupOfNumber,
         SessionOfNumber, InitStays

\* A child starts in the group and the session of its parent, under a number that
\* no group and no session has.
LEMMA ForkKeeps ==
  ASSUME IInv, NEW t \in Task, NEW c \in Task, Fork(t, c)
  PROVE  IInv'
<1> DEFINE self == tgid[t]
<1>1. TypeOK
  BY DEF IInv
<1>2. /\ self \in Process /\ self \in Task
      /\ c \notin Alive /\ c \notin Process /\ tgid[c] = NoTask
      /\ pgrp[self] \in Task /\ session[self] \in Task
      /\ pgrp[self] # c /\ session[self] # c
  BY <1>1, ProcessesAssumption
     DEF TypeOK, Fork, FreePid, Alive, Process, thread_group_leader
<1>3. /\ tgid' = [tgid EXCEPT ![c] = c]
      /\ pgrp' = [pgrp EXCEPT ![c] = pgrp[self]]
      /\ session' = [session EXCEPT ![c] = session[self]]
      /\ real_parent' = [real_parent EXCEPT ![c] = self]
      /\ leader' = leader /\ did_exec' = did_exec
      /\ \A p \in Process : pgrp[p] # c /\ session[p] # c
  BY DEF Fork, FreePid
<1>4. Process' = Process \cup {c} /\ Alive' = Alive \cup {c}
  BY <1>1, <1>2, <1>3, ProcessesAssumption
     DEF TypeOK, Process, Alive, thread_group_leader
<1>5. TypeOK'
  BY <1>1, <1>2, <1>3, <1>4 DEF TypeOK, Alive, Process
<1>6. \A p \in Process : pgrp'[p] = pgrp[p] /\ session'[p] = session[p]
  BY <1>1, <1>2, <1>3 DEF TypeOK, Process, Alive
<1>7. pgrp'[c] = pgrp[self] /\ session'[c] = session[self]
  BY <1>1, <1>3 DEF TypeOK
<1>8. GroupsInOneSession'
  BY <1>2, <1>4, <1>6, <1>7 DEF IInv, GroupsInOneSession
<1>9. SessionLeaderLeads'
  BY <1>1, <1>3, <1>6 DEF IInv, SessionLeaderLeads, TypeOK
<1>10. GroupOfNumber'
  BY <1>2, <1>3, <1>4, <1>6, <1>7 DEF IInv, GroupOfNumber
<1>11. SessionOfNumber'
  BY <1>2, <1>3, <1>4, <1>6, <1>7 DEF IInv, SessionOfNumber
<1>12. InitStays'
  BY <1>1, <1>6 DEF IInv, InitStays, TypeOK
<1> QED
  BY <1>5, <1>8, <1>9, <1>10, <1>11, <1>12 DEF IInv

\* A new thread changes no process.
LEMMA CloneKeeps ==
  ASSUME IInv, NEW t \in Task, NEW c \in Task, Clone(t, c)
  PROVE  IInv'
<1>1. TypeOK
  BY DEF IInv
<1>2. /\ t \in Alive /\ c \notin Alive /\ tgid[t] \in Process /\ tgid[t] # c
      /\ tgid' = [tgid EXCEPT ![c] = tgid[t]]
      /\ UNCHANGED <<real_parent, pgrp, session, leader, did_exec>>
  BY <1>1 DEF Clone, FreePid, TypeOK, Process, signal
<1>3. Process' = Process /\ Alive' = Alive \cup {c}
  BY <1>1, <1>2, ProcessesAssumption
     DEF TypeOK, Process, Alive, thread_group_leader
<1>4. TypeOK'
  BY <1>1, <1>2, <1>3 DEF TypeOK, Alive, Process
<1>5. Safe'
  BY <1>1, <1>2, <1>3, FewerProcesses DEF TypeOK
<1> QED
  BY <1>4, <1>5 DEF IInv, Safe

\* Tasks go: no group leader before its threads.
LEMMA ReleaseKeeps ==
  ASSUME IInv, NEW gone \in SUBSET Alive, Release(gone), InitPid \notin gone,
         \A t \in Alive : tgid[t] \in gone => t \in gone,
         did_exec' \subseteq did_exec \cup Process', did_exec' \cap gone = {}
  PROVE  IInv'
<1>1. TypeOK
  BY DEF IInv
<1>2. /\ tgid' = [t \in Task |-> IF t \in gone THEN NoTask ELSE tgid[t]]
      /\ real_parent' = [t \in Task |-> IF t \in gone THEN NoTask
                                        ELSE IF real_parent[t] \in gone THEN InitPid
                                        ELSE real_parent[t]]
      /\ pgrp' = [t \in Task |-> IF t \in gone THEN NoTask ELSE pgrp[t]]
      /\ session' = [t \in Task |-> IF t \in gone THEN NoTask ELSE session[t]]
      /\ leader' = leader \ gone
  BY DEF Release
<1>3. Alive' = Alive \ gone
  BY <1>1, <1>2, ProcessesAssumption DEF TypeOK, Alive
<1>4. Process' = Process \ gone
  BY <1>1, <1>2, <1>3, ProcessesAssumption
     DEF TypeOK, Process, Alive, thread_group_leader
<1>5. \A p \in Process' : pgrp'[p] = pgrp[p] /\ session'[p] = session[p]
  BY <1>2, <1>4 DEF Process, Alive
<1>6. InitPid \in Process' /\ leader' \subseteq Process' /\ did_exec' \subseteq Process'
  BY <1>1, <1>2, <1>4 DEF TypeOK
<1>7. \A t \in Alive' : tgid'[t] \in Process'
  BY <1>1, <1>2, <1>3, <1>4 DEF TypeOK, Alive
<1>8. /\ tgid' \in [Task -> Task \cup {NoTask}]
      /\ real_parent' \in [Task -> Task \cup {NoTask}]
      /\ pgrp' \in [Task -> Task \cup {NoTask}]
      /\ session' \in [Task -> Task \cup {NoTask}]
  BY <1>1, <1>2, ProcessesAssumption DEF TypeOK
<1>9. \A p \in Process' : pgrp'[p] # NoTask /\ session'[p] # NoTask
  BY <1>1, <1>4, <1>5 DEF TypeOK
<1>10. TypeOK'
  BY <1>6, <1>7, <1>8, <1>9 DEF TypeOK
<1>11. Safe'
  BY <1>2, <1>4, <1>5, <1>6, FewerProcesses
<1> QED
  BY <1>10, <1>11 DEF IInv, Safe

LEMMA ExecKeeps ==
  ASSUME IInv, NEW p \in Task, Exec(p)
  PROVE  IInv'
<1> DEFINE gone == Threads(p) \ {p}
<1>1. /\ p \in Process /\ Release(gone) /\ did_exec' = did_exec \cup {p}
      /\ TypeOK
  BY DEF Exec, IInv
<1>2. gone \in SUBSET Alive /\ gone \cap Process = {}
  BY DEF Threads, Process, thread_group_leader
<1>3. \A t \in Alive : tgid[t] \in gone => t \in gone
  BY <1>1, <1>2 DEF TypeOK
<1>4. p \in Process'
  BY <1>1, <1>2, ProcessesAssumption
     DEF Release, Process, Alive, thread_group_leader, TypeOK
<1>5. InitPid \notin gone /\ did_exec' \cap gone = {}
  BY <1>1, <1>2 DEF TypeOK
<1>6. did_exec' \subseteq did_exec \cup Process'
  BY <1>1, <1>4
<1> HIDE DEF gone
<1> QED
  BY <1>1, <1>2, <1>3, <1>5, <1>6, ReleaseKeeps

LEMMA ExitKeeps ==
  ASSUME IInv, NEW t \in Task, Exit(t)
  PROVE  IInv'
<1>1. /\ t \in Alive /\ t # InitPid /\ Release({t})
      /\ thread_group_leader(t) => Threads(t) = {t}
      /\ did_exec' = did_exec \ {t}
  BY DEF Exit
<1>2. \A u \in Alive : tgid[u] = t => u = t
  BY <1>1 DEF IInv, TypeOK, Threads, Process, thread_group_leader
<1> QED
  BY <1>1, <1>2, ReleaseKeeps

\* setpgid(): the group is the process's own, or one of its session.
LEMMA SetpgidKeeps ==
  ASSUME IInv, NEW t \in Task, NEW p \in Task, NEW g \in Task, Setpgid(t, p, g)
  PROVE  IInv'
<1> DEFINE self == tgid[t]
<1>1. /\ TypeOK /\ self \in Process /\ p \in Process /\ p \notin leader
      /\ pgrp' = [pgrp EXCEPT ![p] = g]
      /\ UNCHANGED <<tgid, real_parent, session, leader, did_exec>>
      /\ session[p] = session[self]
      /\ g = p \/ \E q \in Process : pgrp[q] = g /\ session[q] = session[self]
  BY DEF IInv, Setpgid, TypeOK, MayMove, MayJoin, InGroup
<1>2. Process' = Process /\ Alive' = Alive
  BY <1>1 DEF Process, Alive, thread_group_leader
<1>3. /\ pgrp'[p] = g
      /\ \A q \in Process : q # p => pgrp'[q] = pgrp[q]
      /\ g # NoTask
  BY <1>1, ProcessesAssumption DEF TypeOK, Process, Alive
<1>4. TypeOK'
  BY <1>1, <1>2, <1>3 DEF TypeOK
<1>5. \A q \in Process : q # p /\ pgrp[q] = g => session[q] = session[p]
  BY <1>1 DEF IInv, GroupOfNumber, GroupsInOneSession
<1>6. g \in Process => session[p] = session[g]
  BY <1>1 DEF IInv, GroupOfNumber
<1>7. GroupsInOneSession'
  BY <1>1, <1>2, <1>3, <1>5 DEF IInv, GroupsInOneSession
<1>8. SessionLeaderLeads'
  BY <1>1, <1>3 DEF IInv, SessionLeaderLeads, TypeOK
<1>9. GroupOfNumber'
  BY <1>1, <1>2, <1>3, <1>6 DEF IInv, GroupOfNumber
<1>10. SessionOfNumber' /\ InitStays'
  BY <1>1, <1>2 DEF IInv, SessionOfNumber, InitStays
<1> QED
  BY <1>4, <1>7, <1>8, <1>9, <1>10 DEF IInv

\* setsid(): nobody is in the session or the group before, but for init, whose
\* session it is already.
LEMMA SetsidIsFresh ==
  ASSUME IInv, NEW t \in Task, Setsid(t)
  PROVE  /\ \A q \in Process : pgrp[q] = tgid[t] => tgid[t] = InitPid
         /\ session[tgid[t]] # tgid[t] => \A q \in Process : session[q] # tgid[t]
<1>1. tgid[t] \in Process
  BY DEF IInv, TypeOK, Setsid
<1> QED
  BY <1>1 DEF IInv, Setsid, InGroup, SessionOfNumber

LEMMA SetsidKeeps ==
  ASSUME IInv, NEW t \in Task, Setsid(t)
  PROVE  IInv'
<1> DEFINE self == tgid[t]
<1>1. /\ TypeOK /\ self \in Process /\ self \in Task
      /\ leader' = leader \cup {self}
      /\ session' = [session EXCEPT ![self] = self]
      /\ pgrp' = [pgrp EXCEPT ![self] = self]
      /\ UNCHANGED <<tgid, real_parent, did_exec>>
  BY DEF IInv, Setsid, TypeOK, Process, Alive
<1>2. Process' = Process /\ Alive' = Alive
  BY <1>1 DEF Process, Alive, thread_group_leader
<1>3. /\ pgrp'[self] = self /\ session'[self] = self /\ self # NoTask
      /\ \A q \in Process : q # self => pgrp'[q] = pgrp[q] /\ session'[q] = session[q]
  BY <1>1, ProcessesAssumption DEF TypeOK, Process, Alive
<1>4. TypeOK'
  BY <1>1, <1>2, <1>3 DEF TypeOK
<1>5. \A q \in Process : pgrp[q] = self => session[q] = self
  BY <1>1, SetsidIsFresh DEF IInv, GroupOfNumber, InitStays
<1>6. GroupsInOneSession'
  BY <1>1, <1>2, <1>3, <1>5 DEF IInv, GroupsInOneSession
<1>7. SessionLeaderLeads'
  BY <1>1, <1>3 DEF IInv, SessionLeaderLeads, TypeOK
<1>8. GroupOfNumber'
  BY <1>1, <1>2, <1>3, <1>5 DEF IInv, GroupOfNumber
<1>9. SessionOfNumber'
  BY <1>1, <1>2, <1>3 DEF IInv, SessionOfNumber
<1>10. InitStays'
  BY <1>1, <1>3 DEF IInv, InitStays, TypeOK
<1> QED
  BY <1>4, <1>6, <1>7, <1>8, <1>9, <1>10 DEF IInv

LEMMA NextKeeps == IInv /\ [Next]_vars => IInv'
<1> SUFFICES ASSUME IInv, [Next]_vars PROVE IInv'
  OBVIOUS
<1>1. CASE UNCHANGED vars
  BY <1>1 DEF vars, signal, IInv, TypeOK, GroupsInOneSession, SessionLeaderLeads,
     GroupOfNumber, SessionOfNumber, InitStays, Process, Alive, thread_group_leader
<1>2. CASE Next
  BY <1>2, ForkKeeps, CloneKeeps, ExecKeeps, ExitKeeps, SetpgidKeeps, SetsidKeeps
     DEF Next, Calls
<1> QED
  BY <1>1, <1>2

LEMMA Invariant == Spec => []IInv
BY InitHolds, NextKeeps, PTL DEF Spec

-----------------------------------------------------------------------------
\* The tables of tasks, groups and sessions keep their types; in particular every
\* thread has a group leader, and only processes lead sessions.
THEOREM TypesHold == Spec => []TypeOK
<1>1. IInv => TypeOK
  BY DEF IInv
<1> QED
  BY <1>1, Invariant, PTL

\* The processes of a group are in one session, for any number of processes.
THEOREM OneSessionPerGroup == Spec => []GroupsInOneSession
<1>1. IInv => GroupsInOneSession
  BY DEF IInv
<1> QED
  BY <1>1, Invariant, PTL

\* A process that began a session leads the group that has the session's number.
THEOREM LeadersLead == Spec => []SessionLeaderLeads
<1>1. IInv => SessionLeaderLeads
  BY DEF IInv
<1> QED
  BY <1>1, Invariant, PTL

\* No process that lives on is put into another session than a new one of its own.
THEOREM NobodyIsMovedToASession == Spec => SessionsAreEntered
<1> DEFINE Enters ==
      \A p \in Process : p \in Process' /\ session'[p] # session[p] =>
        /\ session'[p] = p
        /\ \A q \in Process : session[q] # p /\ pgrp[q] # p
<1>1. ASSUME IInv, Next PROVE Enters
  <2> SUFFICES ASSUME NEW p \in Process, p \in Process', session'[p] # session[p]
               PROVE  /\ session'[p] = p
                      /\ \A q \in Process : session[q] # p /\ pgrp[q] # p
    OBVIOUS
  <2>1. TypeOK /\ p \in Task
    BY <1>1 DEF IInv, Process, Alive
  <2>2. ASSUME NEW t \in Task, NEW c \in Task, Fork(t, c) PROVE FALSE
    BY <2>1, <2>2 DEF TypeOK, Fork, FreePid, Process
  <2>3. ASSUME NEW gone, Release(gone) PROVE FALSE
    BY <2>1, <2>3, ProcessesAssumption DEF Release, Process, Alive
  <2>4. PICK t \in Task : Setsid(t)
    BY <1>1, <2>2, <2>3 DEF Next, Calls, Clone, Exec, Exit, Setpgid, signal
  <2>5. /\ tgid[t] \in Process
        /\ session' = [session EXCEPT ![tgid[t]] = tgid[t]]
    BY <2>1, <2>4 DEF TypeOK, Setsid
  <2>6. p = tgid[t] /\ session'[p] = p /\ session[p] # p
    BY <2>1, <2>5 DEF TypeOK, Process, Alive
  <2>7. p # InitPid
    BY <1>1, <2>6 DEF IInv, InitStays
  <2> QED
    BY <1>1, <2>4, <2>6, <2>7, SetsidIsFresh
<1>2. IInv /\ [Next]_vars => [Enters]_vars
  BY <1>1
<1> QED
  BY <1>2, Invariant, PTL DEF Spec, SessionsAreEntered

-----------------------------------------------------------------------------
\* A set of numbers has a least one.
LEMMA LeastNat ==
  ASSUME NEW T, T \subseteq Nat, T # {}
  PROVE  \E x \in T : \A y \in T : x <= y
<1> DEFINE R == {ss \in Nat \X Nat : ss[1] < ss[2]}
<1>1. IsWellFoundedOn(R, Nat)
  BY NatLessThanWellFounded DEF OpToRel
<1>2. PICK x \in T : \A y \in T : ~(<<y, x>> \in R)
  <2> HIDE DEF R
  <2> QED
    BY <1>1, WFMin
<1>3. \A y \in T : ~(y < x)
  BY <1>2
<1> QED
  BY <1>3

\* The numbers from 1 to k are k.
LEMMA UpTo ==
  ASSUME NEW k \in Nat
  PROVE  IsFiniteSet(1..k) /\ Cardinality(1..k) = k
BY FS_Interval

\* The ticks that counters count, one by one.
Ticks(counts, S, f) == UNION {{x} \X (1..counts[x][f]) : x \in S}

\* The ticks of one task and those of the others.
LEMMA TicksOfOne ==
  ASSUME NEW S, IsFiniteSet(S), NEW f, NEW counts, \A x \in S : counts[x][f] \in Nat
  PROVE  /\ IsFiniteSet(Ticks(counts, S, f)) /\ Cardinality(Ticks(counts, S, f)) \in Nat
         /\ \A x \in S : Cardinality(Ticks(counts, S, f))
                           = counts[x][f] + Cardinality(Ticks(counts, S \ {x}, f))
<1> DEFINE Of(x) == {x} \X (1..counts[x][f])
<1>1. ASSUME NEW x \in S PROVE IsFiniteSet(Of(x)) /\ Cardinality(Of(x)) = counts[x][f]
  <2>1. IsFiniteSet({x}) /\ Cardinality({x}) = 1
    BY FS_Singleton
  <2>2. IsFiniteSet(1..counts[x][f]) /\ Cardinality(1..counts[x][f]) = counts[x][f]
    BY UpTo
  <2>3. IsFiniteSet(Of(x)) /\ Cardinality(Of(x)) = Cardinality({x}) * Cardinality(1..counts[x][f])
    BY <2>1, <2>2, FS_Product
  <2> QED
    BY <2>1, <2>2, <2>3
<1>2. ASSUME NEW U \in SUBSET S PROVE IsFiniteSet(Ticks(counts, U, f))
  <2>1. IsFiniteSet(U)
    BY FS_Subset
  <2>2. IsFiniteSet({Of(x) : x \in U})
    <3> DEFINE h == [x \in U |-> Of(x)]
               V == {Of(x) : x \in U}
    <3>1. h \in Surjection(U, V)
      BY DEF Surjection
    <3> HIDE DEF h, V
    <3>2. IsFiniteSet(V)
      BY <2>1, <3>1, FS_Surjection
    <3> QED
      BY <3>2 DEF V
  <2>3. \A T \in {Of(x) : x \in U} : IsFiniteSet(T)
    BY <1>1
  <2> QED
    BY <2>2, <2>3, FS_UNION DEF Ticks
<1>3. ASSUME NEW x \in S
      PROVE  Cardinality(Ticks(counts, S, f))
               = counts[x][f] + Cardinality(Ticks(counts, S \ {x}, f))
  <2> DEFINE Rest == Ticks(counts, S \ {x}, f)
  <2>1. Ticks(counts, S, f) = Of(x) \cup Rest
    BY DEF Ticks
  <2>2. Of(x) \cap Rest = {}
    BY DEF Ticks
  <2>3. IsFiniteSet(Rest) /\ IsFiniteSet(Of(x)) /\ Cardinality(Of(x)) = counts[x][f]
    BY <1>1, <1>2
  <2>4. Cardinality(Rest) \in Nat /\ Cardinality({}) = 0
    BY <2>3, FS_CardinalityType, FS_EmptySet
  <2> HIDE DEF Rest, Of
  <2>5. Cardinality(Of(x) \cup Rest)
          = Cardinality(Of(x)) + Cardinality(Rest) - Cardinality(Of(x) \cap Rest)
    BY <2>3, FS_Union
  <2>6. Cardinality(Of(x) \cup Rest) = counts[x][f] + Cardinality(Rest)
    <3>1. counts[x][f] \in Nat /\ Cardinality(Of(x) \cap Rest) = 0
      BY <2>2, <2>4
    <3> QED
      BY <2>3, <2>4, <2>5, <3>1
  <2> QED
    BY <2>1, <2>6 DEF Rest
<1>4. S \in SUBSET S
  OBVIOUS
<1>5. IsFiniteSet(Ticks(counts, S, f)) /\ Cardinality(Ticks(counts, S, f)) \in Nat
  <2>1. IsFiniteSet(Ticks(counts, S, f))
    BY <1>2, <1>4
  <2> QED
    BY <2>1, FS_CardinalityType
<1> QED
  BY <1>3, <1>5

\* A sum is the number of ticks.
LEMMA SumIsTicks ==
  ASSUME NEW S, IsFiniteSet(S), NEW f, NEW counts, \A x \in S : counts[x][f] \in Nat
  PROVE  SumOf(counts, S, f) = Cardinality(Ticks(counts, S, f))
<1> DEFINE one(s) == CHOOSE x \in s : TRUE
           G(g) == [s \in SUBSET S |-> IF s = {} THEN 0
                                       ELSE counts[one(s)][f] + g[s \ {one(s)}]]
           iter == CHOOSE g : g = G(g)
           n == [s \in SUBSET S |-> Cardinality(Ticks(counts, s, f))]
<1>1. SumOf(counts, S, f) = iter[S]
  BY DEF SumOf, MapThenSumSet, MapThenFoldSet
<1>2. ASSUME NEW s \in SUBSET S
      PROVE  /\ IsFiniteSet(s) /\ n[s] = Cardinality(Ticks(counts, s, f)) /\ n[s] \in Nat
             /\ s # {} => /\ one(s) \in s /\ s \ {one(s)} \in SUBSET S
                          /\ n[s] = counts[one(s)][f] + n[s \ {one(s)}]
  <2>1. IsFiniteSet(s) /\ \A x \in s : counts[x][f] \in Nat
    BY FS_Subset
  <2>2. /\ Cardinality(Ticks(counts, s, f)) \in Nat
        /\ \A x \in s : Cardinality(Ticks(counts, s, f))
                          = counts[x][f] + Cardinality(Ticks(counts, s \ {x}, f))
    BY <2>1, TicksOfOne
  <2>3. s # {} => one(s) \in s
    OBVIOUS
  <2> QED
    BY <2>1, <2>2, <2>3
<1>3. n[{}] = 0
  <2>1. Ticks(counts, {}, f) = {}
    BY DEF Ticks
  <2> QED
    BY <2>1, FS_EmptySet
<1>4. n = G(n)
  <2>1. ASSUME NEW s \in SUBSET S PROVE n[s] = G(n)[s]
    <3> HIDE DEF n, one
    <3> QED
      BY <1>2, <1>3
  <2>2. G(n) = [s \in SUBSET S |-> G(n)[s]] /\ n = [s \in SUBSET S |-> n[s]]
    OBVIOUS
  <2> HIDE DEF n, G
  <2> QED
    BY <2>1, <2>2
<1>5. iter = G(iter)
  <2> HIDE DEF n, G
  <2> QED
    BY <1>4
<1> DEFINE Bad == {s \in SUBSET S : iter[s] # n[s]}
           Sizes == {Cardinality(s) : s \in Bad}
<1>6. Bad = {}
  <2> SUFFICES ASSUME Bad # {} PROVE FALSE
    OBVIOUS
  <2>1. Sizes \subseteq Nat /\ Sizes # {}
    <3>1. ASSUME NEW s \in Bad PROVE Cardinality(s) \in Nat
      <4>1. IsFiniteSet(s)
        BY <1>2
      <4> QED
        BY <4>1, FS_CardinalityType
    <3> HIDE DEF Bad
    <3> QED
      BY <3>1
  <2>2. PICK s \in Bad : \A r \in Bad : Cardinality(s) <= Cardinality(r)
    <3>1. PICK k \in Sizes : \A m \in Sizes : k <= m
      <4> HIDE DEF Sizes
      <4> QED
        BY <2>1, LeastNat
    <3> QED
      BY <3>1
  <2>3. s \in SUBSET S /\ iter[s] # n[s] /\ IsFiniteSet(s)
    BY <1>2
  <2>4. iter[s] = IF s = {} THEN 0 ELSE counts[one(s)][f] + iter[s \ {one(s)}]
    <3> HIDE DEF iter, one, n
    <3> QED
      BY <1>5, <2>3
  <2> DEFINE r == s \ {one(s)}
  <2>5. s # {}
    <3> HIDE DEF iter, n
    <3> QED
      BY <1>3, <2>3, <2>4
  <2>6. one(s) \in s /\ r \in SUBSET S /\ n[s] = counts[one(s)][f] + n[r]
    BY <1>2, <2>3, <2>5
  <2>7. Cardinality(r) < Cardinality(s)
    <3>1. Cardinality(r) = Cardinality(s) - 1 /\ Cardinality(s) \in Nat
      <4> HIDE DEF one
      <4> QED
        BY <2>3, <2>6, FS_RemoveElement, FS_CardinalityType
    <3> QED
      BY <3>1
  <2>8. r \notin Bad
    <3>1. Cardinality(r) \in Nat /\ Cardinality(s) \in Nat
      BY <1>2, <2>3, <2>6, FS_CardinalityType
    <3> HIDE DEF r, Bad
    <3> QED
      BY <2>2, <2>7, <3>1
  <2> QED
    <3> HIDE DEF iter, n, one
    <3> QED
      BY <2>3, <2>4, <2>5, <2>6, <2>8
<1> QED
  BY <1>1, <1>2, <1>6

\* The sum of one counter and those of the others.
LEMMA SumOfOne ==
  ASSUME NEW S, IsFiniteSet(S), NEW f, NEW counts, \A x \in S : counts[x][f] \in Nat
  PROVE  /\ SumOf(counts, S, f) \in Nat
         /\ \A x \in S : SumOf(counts, S, f) = counts[x][f] + SumOf(counts, S \ {x}, f)
<1>1. ASSUME NEW x \in S PROVE SumOf(counts, S \ {x}, f) = Cardinality(Ticks(counts, S \ {x}, f))
  <2>1. IsFiniteSet(S \ {x})
    BY FS_RemoveElement
  <2> QED
    BY <2>1, SumIsTicks
<1> QED
  BY <1>1, SumIsTicks, TicksOfOne

\* There is nothing to add up.
LEMMA SumOfNone ==
  ASSUME NEW f, NEW counts
  PROVE  SumOf(counts, {}, f) = 0
<1>1. Ticks(counts, {}, f) = {}
  BY DEF Ticks
<1>2. IsFiniteSet({}) /\ \A x \in {} : counts[x][f] \in Nat
  BY FS_EmptySet
<1>3. SumOf(counts, {}, f) = Cardinality(Ticks(counts, {}, f))
  BY <1>2, SumIsTicks
<1> QED
  BY <1>1, <1>3, FS_EmptySet

\* Counters that do not change have the same sum.
LEMMA SumStays ==
  ASSUME NEW S, IsFiniteSet(S), NEW f, NEW counts, NEW later,
         \A x \in S : counts[x][f] \in Nat /\ later[x][f] = counts[x][f]
  PROVE  SumOf(later, S, f) = SumOf(counts, S, f)
<1>1. Ticks(later, S, f) = Ticks(counts, S, f)
  BY DEF Ticks
<1>2. \A x \in S : later[x][f] \in Nat
  OBVIOUS
<1>3. SumOf(later, S, f) = Cardinality(Ticks(later, S, f))
  BY <1>2, SumIsTicks
<1> QED
  BY <1>1, <1>3, SumIsTicks

\* When one of them ticks, the sum does.
LEMMA SumTicks ==
  ASSUME NEW S, IsFiniteSet(S), NEW f, NEW counts, NEW later, NEW t \in S,
         \A x \in S : counts[x][f] \in Nat,
         later[t][f] = counts[t][f] + 1,
         \A x \in S \ {t} : later[x][f] = counts[x][f]
  PROVE  SumOf(later, S, f) = SumOf(counts, S, f) + 1
<1>1. IsFiniteSet(S \ {t}) /\ \A x \in S : later[x][f] \in Nat
  BY FS_RemoveElement
<1>2. SumOf(later, S, f) = later[t][f] + SumOf(later, S \ {t}, f)
  BY <1>1, SumOfOne
<1>3. /\ SumOf(counts, S, f) = counts[t][f] + SumOf(counts, S \ {t}, f)
      /\ SumOf(counts, S \ {t}, f) \in Nat
  BY <1>1, SumOfOne
<1>4. SumOf(later, S \ {t}, f) = SumOf(counts, S \ {t}, f)
  BY <1>1, SumStays
<1> QED
  BY <1>2, <1>3, <1>4

-----------------------------------------------------------------------------
\* What a sample has still to read of a counter of the process's own.
ToRead(f) == {t \in Task : <<t, f>> \in unread}

Left(f) == (IF <<SELF, f>> \in unread THEN signal_time[sampled][f] ELSE 0)
           + SumOf(time, ToRead(f), f)

\* What it has read and has still to read is no less than there was when it began and
\* no more than there is.
OwnBetween ==
  SELF \in who => \A f \in Field :
    /\ floor[f] <= sum[SELF][f] + Left(f)
    /\ sum[SELF][f] + Left(f) <= OwnTime(sampled)[f]

\* The children's counters are unread, or what was read.
ChildrenSame ==
  CHILDREN \in who => \A f \in Field :
    sum[CHILDREN][f] = IF <<CHILDREN, f>> \in unread THEN 0 ELSE child_time[sampled][f]

\* It looks at one process, at the places where there is something to read.
LooksAtOne ==
  /\ sampled = NoTask => who = {} /\ unread = {}
  /\ sampled # NoTask => sampled \in Process /\ unread \subseteq Places(sampled, who) \X Field

UsageInv == UsageTypeOK /\ LooksAtOne /\ OwnBetween /\ ChildrenSame

LEMMA FiniteTasks ==
  ASSUME NEW S, S \subseteq Task
  PROVE  IsFiniteSet(S)
BY UsageAssumption, FS_Subset

\* What a process has used is a number.
LEMMA OwnTyped ==
  ASSUME UsageTypeOK, NEW p \in Task, NEW f \in Field
  PROVE  /\ signal_time[p][f] \in Nat /\ child_time[p][f] \in Nat
         /\ IsFiniteSet(Threads(p)) /\ Threads(p) \subseteq Task
         /\ \A t \in Task : time[t][f] \in Nat
         /\ SumOf(time, Threads(p), f) \in Nat
         /\ OwnTime(p)[f] = signal_time[p][f] + SumOf(time, Threads(p), f)
<1>1. Threads(p) \subseteq Task
  BY DEF Threads, Alive
<1>2. IsFiniteSet(Threads(p))
  BY <1>1, FiniteTasks
<1>3. /\ signal_time[p][f] \in Nat /\ child_time[p][f] \in Nat
      /\ \A t \in Task : time[t][f] \in Nat
  BY DEF UsageTypeOK
<1>4. SumOf(time, Threads(p), f) \in Nat
  BY <1>1, <1>2, <1>3, SumOfOne
<1> QED
  BY <1>1, <1>2, <1>3, <1>4 DEF OwnTime

\* A sample reads threads of its process.
LEMMA ReadsThreads ==
  ASSUME UsageTypeOK, LooksAtOne, sampled # NoTask, NEW f
  PROVE  /\ sampled \in Task /\ ToRead(f) \subseteq Threads(sampled)
         /\ IsFiniteSet(ToRead(f)) /\ IsFiniteSet(Threads(sampled))
         /\ Threads(sampled) \subseteq Task
<1>1. sampled \in Task
  BY DEF LooksAtOne, Process, Alive
<1>2. ToRead(f) \subseteq Threads(sampled)
  BY UsageAssumption DEF ToRead, LooksAtOne, Places, UsageTypeOK
<1>3. Threads(sampled) \subseteq Task /\ ToRead(f) \subseteq Task
  BY DEF Threads, Alive, ToRead
<1> QED
  BY <1>1, <1>2, <1>3, FiniteTasks

\* A step that respects the siglock changes nothing that a sample reads.
LEMMA OthersKeep ==
  ASSUME UsageInv, UsageTypeOK', UNCHANGED sample,
         sampled # NoTask =>
           /\ sampled \in Process' /\ Threads(sampled)' = Threads(sampled)
           /\ signal_time'[sampled] = signal_time[sampled]
           /\ child_time'[sampled] = child_time[sampled]
           /\ \A t \in Threads(sampled) : time'[t] = time[t]
  PROVE  UsageInv'
<1>1. UNCHANGED <<sampled, who, unread, sum, floor>>
  BY DEF sample
<1>2. LooksAtOne'
  BY <1>1 DEF UsageInv, LooksAtOne, Places
<1>3. CASE sampled = NoTask
  BY <1>1, <1>2, <1>3 DEF UsageInv, LooksAtOne, OwnBetween, ChildrenSame
<1>4. CASE sampled # NoTask
  <2>1. ChildrenSame'
    BY <1>1, <1>4 DEF UsageInv, ChildrenSame
  <2>2. ASSUME NEW f \in Field
        PROVE  Left(f)' = Left(f) /\ OwnTime(sampled)'[f] = OwnTime(sampled)[f]
    <3>1. PICK p \in Task : p = sampled
      BY <1>4, ReadsThreads DEF UsageInv
    <3>2. /\ ToRead(f) \subseteq Threads(p) /\ IsFiniteSet(ToRead(f))
          /\ IsFiniteSet(Threads(p)) /\ Threads(p) \subseteq Task
      BY <1>4, <3>1, ReadsThreads DEF UsageInv
    <3>3. \A t \in Threads(p) : time[t][f] \in Nat /\ time'[t][f] = time[t][f]
      BY <1>4, <3>1, <3>2 DEF UsageInv, UsageTypeOK
    <3>4. SumOf(time', Threads(p), f) = SumOf(time, Threads(p), f)
      BY <3>2, <3>3, SumStays
    <3>5. SumOf(time', ToRead(f), f) = SumOf(time, ToRead(f), f)
      BY <3>2, <3>3, SumStays
    <3>6. Threads(p)' = Threads(p) /\ signal_time'[p] = signal_time[p] /\ ToRead(f)' = ToRead(f)
      BY <1>1, <1>4, <3>1 DEF ToRead
    <3>7. SumOf(time, Threads(p), f)' = SumOf(time', Threads(p), f)
      BY <3>6 DEF SumOf, MapThenSumSet, MapThenFoldSet
    <3>8. SumOf(time, ToRead(f), f)' = SumOf(time', ToRead(f), f)
      BY <3>6 DEF SumOf, MapThenSumSet, MapThenFoldSet
    <3>9. OwnTime(p)'[f] = OwnTime(p)[f]
      BY <3>4, <3>6, <3>7 DEF OwnTime
    <3> QED
      BY <1>1, <3>1, <3>5, <3>6, <3>8, <3>9 DEF Left
  <2>3. OwnBetween'
    BY <1>1, <2>2 DEF UsageInv, OwnBetween
  <2> QED
    BY <1>2, <2>1, <2>3 DEF UsageInv
<1> QED
  BY <1>3, <1>4

LEMMA BeginSpares ==
  ASSUME TypeOK, NEW p \in Process, NEW t \in Task, NEW c \in Task, tgid[t] # p,
         Fork(t, c) \/ Clone(t, c)
  PROVE  p \in Process' /\ Threads(p)' = Threads(p)
<1>1. /\ c \notin Alive /\ p \in Task /\ tgid[p] = p /\ p # c /\ tgid[c] = NoTask /\ p # NoTask
      /\ \E g \in Task \cup {NoTask} : g # p /\ tgid' = [tgid EXCEPT ![c] = g]
  BY ProcessesAssumption
     DEF Fork, Clone, FreePid, TypeOK, Process, Alive, thread_group_leader
<1>2. p \in Process'
  BY <1>1 DEF TypeOK, Process, Alive, thread_group_leader
<1>3. Threads(p)' = Threads(p)
  BY <1>1 DEF TypeOK, Threads, Alive
<1> QED
  BY <1>2, <1>3

LEMMA ReleaseSpares ==
  ASSUME TypeOK, NEW p \in Process, NEW gone, Threads(p) \cap gone = {}, Release(gone)
  PROVE  p \in Process' /\ Threads(p)' = Threads(p)
<1>1. p \in Task /\ tgid[p] = p /\ p # NoTask /\ p \in Threads(p)
  BY ProcessesAssumption DEF Process, Alive, thread_group_leader, Threads
<1>2. tgid' = [t \in Task |-> IF t \in gone THEN NoTask ELSE tgid[t]]
  BY DEF Release
<1>3. p \in Process'
  BY <1>1, <1>2 DEF Process, Alive, thread_group_leader
<1>4. Threads(p)' = Threads(p)
  BY <1>1, <1>2 DEF Threads, Alive
<1> QED
  BY <1>3, <1>4

\* The types of what does not belong to Processes.
SampleTyped ==
  /\ measured \in BOOLEAN
  /\ sampled \in Process \cup {NoTask}
  /\ who \subseteq {SELF, CHILDREN}
  /\ unread \subseteq Place \X Field
  /\ sum \in [{SELF, CHILDREN} -> [Field -> Nat]]
  /\ floor \in [Field -> Nat]

CountersTyped ==
  /\ time \in [Task -> [Field -> Nat]]
  /\ signal_time \in [Task -> [Field -> Nat]]
  /\ child_time \in [Task -> [Field -> Nat]]

LEMMA TypeParts == UsageTypeOK <=> TypeOK /\ SampleTyped /\ CountersTyped
BY DEF UsageTypeOK, SampleTyped, CountersTyped

\* What a sample under way asks of the steps of others.
Respected ==
  sampled # NoTask =>
    /\ sampled \in Process' /\ Threads(sampled)' = Threads(sampled)
    /\ signal_time'[sampled] = signal_time[sampled]
    /\ child_time'[sampled] = child_time[sampled]
    /\ \A t \in Threads(sampled) : time'[t] = time[t]

LEMMA RespectKeeps ==
  ASSUME UsageInv, TypeOK', CountersTyped', UNCHANGED <<measured, sample>>, Respected
  PROVE  UsageInv'
<1>1. SampleTyped'
  <2>1. SampleTyped
    BY TypeParts DEF UsageInv
  <2> QED
    BY <2>1 DEF SampleTyped, Respected, sample, Place
<1>2. UsageTypeOK'
  BY <1>1 DEF UsageTypeOK, SampleTyped, CountersTyped
<1> QED
  BY <1>2, OthersKeep DEF Respected

LEMMA BeginKeeps ==
  ASSUME UsageInv, TypeOK', NEW t \in Task, NEW c \in Task, Begin(t, c)
  PROVE  UsageInv'
<1>1. /\ ~Locked(tgid[t]) /\ (Fork(t, c) \/ Clone(t, c))
      /\ UNCHANGED <<measured, counters, sample>>
  BY DEF Begin
<1>2. TypeOK /\ CountersTyped
  BY TypeParts DEF UsageInv
<1>3. CountersTyped'
  BY <1>1, <1>2 DEF CountersTyped, counters
<1>4. Respected
  <2> SUFFICES ASSUME sampled # NoTask PROVE Respected
    BY DEF Respected
  <2>1. sampled \in Process /\ tgid[t] # sampled
    BY <1>1 DEF UsageInv, LooksAtOne, Locked
  <2>2. PICK p \in Process : p = sampled
    BY <2>1
  <2>3. p \in Process' /\ Threads(p)' = Threads(p)
    BY <1>1, <1>2, <2>1, <2>2, BeginSpares
  <2> QED
    BY <1>1, <2>2, <2>3 DEF Respected, counters, sample, Threads, Alive
<1> QED
  BY <1>1, <1>3, <1>4, RespectKeeps

\* Sums of counters are counters.
LEMMA PlusTyped ==
  ASSUME NEW a \in [Field -> Nat], NEW b \in [Field -> Nat]
  PROVE  Plus(a, b) \in [Field -> Nat]
BY DEF Plus

LEMMA OwnIsCounters ==
  ASSUME UsageTypeOK, NEW p \in Task
  PROVE  OwnTime(p) \in [Field -> Nat]
<1>1. \A f \in Field : signal_time[p][f] + SumOf(time, Threads(p), f) \in Nat
  BY OwnTyped
<1> QED
  BY <1>1 DEF OwnTime

LEMMA ZeroTyped == Zero \in [Field -> Nat]
BY DEF Zero

\* Tasks go that are not of the process that is sampled.
LEMMA GoneSpares ==
  ASSUME UsageInv, sampled # NoTask, UNCHANGED sample,
         NEW gone, Release(gone), Threads(sampled) \cap gone = {}
  PROVE  sampled \in Process' /\ Threads(sampled)' = Threads(sampled)
<1>1. TypeOK /\ sampled \in Process
  BY TypeParts DEF UsageInv, LooksAtOne
<1>2. PICK p \in Process : p = sampled
  BY <1>1
<1>3. p \in Process' /\ Threads(p)' = Threads(p)
  BY <1>1, <1>2, ReleaseSpares
<1>4. sampled' = p
  BY <1>2 DEF sample
<1>5. Threads(sampled)' = Threads(p)'
  BY <1>4 DEF Threads
<1>6. Threads(sampled) = Threads(p)
  BY <1>2 DEF Threads
<1>7. Threads(sampled)' = Threads(sampled)
  BY <1>3, <1>5, <1>6
<1> QED
  BY <1>2, <1>3, <1>7

LEMMA EndThreadKeeps ==
  ASSUME UsageInv, TypeOK', NEW t \in Task, EndThread(t)
  PROVE  UsageInv'
<1>1. /\ ~thread_group_leader(t) /\ ~Locked(tgid[t]) /\ Release({t}) /\ t \in Alive
      /\ signal_time' = [signal_time EXCEPT ![tgid[t]] = Plus(signal_time[tgid[t]], time[t])]
      /\ time' = [time EXCEPT ![t] = Zero]
      /\ UNCHANGED <<measured, child_time, sample>>
  BY DEF EndThread, Exit
<1>2. TypeOK /\ CountersTyped /\ tgid[t] \in Task
  BY <1>1, TypeParts DEF UsageInv, TypeOK, Process, Alive
<1>3. CountersTyped'
  <2>1. Plus(signal_time[tgid[t]], time[t]) \in [Field -> Nat]
    BY <1>2, PlusTyped DEF CountersTyped
  <2> QED
    BY <1>1, <1>2, <2>1, ZeroTyped DEF CountersTyped
<1>4. Respected
  <2> SUFFICES ASSUME sampled # NoTask PROVE Respected
    BY DEF Respected
  <2>1. sampled \in Process /\ tgid[t] # sampled /\ t \notin Threads(sampled)
    BY <1>1 DEF UsageInv, LooksAtOne, Locked, Threads
  <2>2. sampled \in Process' /\ Threads(sampled)' = Threads(sampled)
    BY <1>1, <2>1, GoneSpares
  <2>3. /\ signal_time'[sampled] = signal_time[sampled]
        /\ \A u \in Threads(sampled) : time'[u] = time[u]
    BY <1>1, <1>2, <2>1 DEF CountersTyped, Process, Threads, Alive
  <2> QED
    BY <1>1, <2>2, <2>3 DEF Respected
<1> QED
  BY <1>1, <1>3, <1>4, RespectKeeps

LEMMA ReapKeeps ==
  ASSUME UsageInv, TypeOK', NEW p \in Task, Reap(p)
  PROVE  UsageInv'
<1> DEFINE parent == real_parent[p]
           all == Plus(child_time[parent], Plus(OwnTime(p), child_time[p]))
<1>1. /\ thread_group_leader(p) /\ sampled # p /\ sampled # parent
      /\ p \in Alive /\ Threads(p) = {p} /\ Release({p})
      /\ child_time' = [child_time EXCEPT ![parent] = all, ![p] = Zero]
      /\ time' = [time EXCEPT ![p] = Zero]
      /\ signal_time' = [signal_time EXCEPT ![p] = Zero]
      /\ UNCHANGED <<measured, sample>>
  BY DEF Reap, Exit, Locked
<1>2. TypeOK /\ CountersTyped /\ UsageTypeOK
  BY TypeParts DEF UsageInv
<1>3. parent \in Task => all \in [Field -> Nat]
  <2>1. OwnTime(p) \in [Field -> Nat] /\ child_time[p] \in [Field -> Nat]
    BY <1>2, OwnIsCounters DEF CountersTyped
  <2>2. Plus(OwnTime(p), child_time[p]) \in [Field -> Nat]
    BY <2>1, PlusTyped
  <2>3. parent \in Task => child_time[parent] \in [Field -> Nat]
    BY <1>2 DEF CountersTyped
  <2> QED
    BY <2>2, <2>3, PlusTyped
<1> HIDE DEF all, parent
<1>4. CountersTyped'
  BY <1>1, <1>2, <1>3, ZeroTyped DEF CountersTyped
<1>5. Respected
  <2> SUFFICES ASSUME sampled # NoTask PROVE Respected
    BY DEF Respected
  <2>1. sampled \in Process /\ p \notin Threads(sampled)
    BY <1>1 DEF UsageInv, LooksAtOne, Threads, thread_group_leader
  <2>2. sampled \in Process' /\ Threads(sampled)' = Threads(sampled)
    BY <1>1, <2>1, GoneSpares
  <2>3. /\ signal_time'[sampled] = signal_time[sampled]
        /\ child_time'[sampled] = child_time[sampled]
        /\ \A u \in Threads(sampled) : time'[u] = time[u]
    BY <1>1, <1>2, <2>1 DEF CountersTyped, Process, Threads, Alive
  <2> QED
    BY <2>2, <2>3 DEF Respected
<1> QED
  BY <1>1, <1>4, <1>5, RespectKeeps

LEMMA ReplaceKeeps ==
  ASSUME UsageInv, TypeOK', NEW p \in Task, Replace(p)
  PROVE  UsageInv'
<1> DEFINE others == Threads(p) \ {p}
           all == [f \in Field |-> signal_time[p][f] + SumOf(time, others, f)]
<1>1. /\ sampled # p /\ p \in Process /\ Release(others)
      /\ signal_time' = [signal_time EXCEPT ![p] = all]
      /\ time' = [u \in Task |-> IF u \in others THEN Zero ELSE time[u]]
      /\ UNCHANGED <<measured, child_time, sample>>
  BY DEF Replace, Exec, Locked
<1>2. TypeOK /\ CountersTyped /\ UsageTypeOK
  BY TypeParts DEF UsageInv
<1>3. all \in [Field -> Nat]
  <2>1. ASSUME NEW f \in Field PROVE signal_time[p][f] + SumOf(time, others, f) \in Nat
    <3>1. others \subseteq Task /\ signal_time[p][f] \in Nat
          /\ \A u \in others : time[u][f] \in Nat
      BY <1>2 DEF CountersTyped, Threads, Alive
    <3>2. IsFiniteSet(others)
      BY <3>1, FiniteTasks
    <3> HIDE DEF others
    <3>3. SumOf(time, others, f) \in Nat
      BY <3>1, <3>2, SumOfOne
    <3> QED
      BY <3>1, <3>3
  <2> HIDE DEF others
  <2> QED
    BY <2>1
<1>4. \A u \in others : tgid[u] = p
  BY DEF Threads
<1> HIDE DEF all, others
<1>5. CountersTyped'
  BY <1>1, <1>2, <1>3, ZeroTyped DEF CountersTyped
<1>6. Respected
  <2> SUFFICES ASSUME sampled # NoTask PROVE Respected
    BY DEF Respected
  <2>1. sampled \in Process /\ Threads(sampled) \cap others = {}
    BY <1>1, <1>4 DEF UsageInv, LooksAtOne, Threads
  <2>2. sampled \in Process' /\ Threads(sampled)' = Threads(sampled)
    BY <1>1, <2>1, GoneSpares
  <2>3. /\ signal_time'[sampled] = signal_time[sampled]
        /\ \A u \in Threads(sampled) : time'[u] = time[u]
    BY <1>1, <1>2, <2>1 DEF CountersTyped, Process, Threads, Alive
  <2> QED
    BY <1>1, <2>2, <2>3 DEF Respected
<1> QED
  BY <1>1, <1>5, <1>6, RespectKeeps

\* setpgid() and setsid() change no thread group.
LEMMA CallsKeep ==
  ASSUME UsageInv, TypeOK', UNCHANGED <<tgid, measured, counters, sample>>
  PROVE  UsageInv'
<1>1. CountersTyped
  BY TypeParts DEF UsageInv
<1>2. CountersTyped'
  BY <1>1 DEF CountersTyped, counters
<1>3. Respected
  BY DEF Respected, counters, sample, UsageInv, LooksAtOne, Process, Alive, Threads,
         thread_group_leader
<1> QED
  BY <1>2, <1>3, RespectKeeps

\* What is left to read after a step.
LEMMA LeftAfter ==
  ASSUME NEW f, NEW S, ToRead(f)' = S
  PROVE  Left(f)' = (IF <<SELF, f>> \in unread' THEN signal_time'[sampled'][f] ELSE 0)
                    + SumOf(time', S, f)
BY DEF Left, SumOf, MapThenSumSet, MapThenFoldSet

LEMMA OwnAfter ==
  ASSUME NEW f \in Field, NEW p, NEW S, Threads(p)' = S
  PROVE  OwnTime(p)'[f] = signal_time'[p][f] + SumOf(time', S, f)
BY DEF OwnTime, SumOf, MapThenSumSet, MapThenFoldSet

\* A tick of a thread that is not read yet will be found, one of another is missed;
\* both count for the process.
LEMMA TickKeeps ==
  ASSUME UsageInv, TypeOK', NEW t \in Task, NEW f \in Field, Tick(t, f)
  PROVE  UsageInv'
<1>1. /\ time' = [time EXCEPT ![t] = [time[t] EXCEPT ![f] = time[t][f] + 1]]
      /\ UNCHANGED <<vars, measured, signal_time, child_time, sample>>
      /\ t \in Alive
  BY DEF Tick
<1>2. TypeOK /\ CountersTyped /\ UsageTypeOK
  BY TypeParts DEF UsageInv
<1>3. time' \in [Task -> [Field -> Nat]]
  BY <1>1, <1>2 DEF CountersTyped
<1>4. CountersTyped'
  BY <1>1, <1>2, <1>3 DEF CountersTyped
<1>5. UNCHANGED <<tgid, sampled, who, unread, sum, floor>>
  BY <1>1 DEF vars, sample
<1>6. Process' = Process /\ \A p : Threads(p)' = Threads(p)
  BY <1>5 DEF Process, Threads, Alive, thread_group_leader
<1>7. CASE sampled # NoTask => t \notin Threads(sampled)
  <2>1. Respected
    <3> SUFFICES ASSUME sampled # NoTask PROVE Respected
      BY DEF Respected
    <3>1. sampled \in Process' /\ Threads(sampled)' = Threads(sampled)
      BY <1>5, <1>6 DEF UsageInv, LooksAtOne, Threads
    <3>2. \A u \in Threads(sampled) : time'[u] = time[u]
      BY <1>1, <1>2, <1>7 DEF CountersTyped, Threads, Alive
    <3> QED
      BY <1>1, <3>1, <3>2 DEF Respected
  <2> QED
    BY <1>1, <1>4, <2>1, RespectKeeps
<1>8. CASE sampled # NoTask /\ t \in Threads(sampled)
  <2>1. PICK p \in Task : p = sampled
    BY <1>2, <1>8, ReadsThreads DEF UsageInv
  <2>2. ASSUME NEW g \in Field
        PROVE  /\ Left(g) \in Nat /\ Left(g)' \in Nat
               /\ OwnTime(p)[g] \in Nat
               /\ Left(g) <= Left(g)' /\ Left(g)' - Left(g) <= OwnTime(p)'[g] - OwnTime(p)[g]
               /\ OwnTime(p)'[g] \in Nat
    <3>1. /\ ToRead(g) \subseteq Threads(p) /\ IsFiniteSet(ToRead(g))
          /\ IsFiniteSet(Threads(p)) /\ Threads(p) \subseteq Task
      BY <1>2, <1>8, <2>1, ReadsThreads DEF UsageInv
    <3>2. /\ signal_time[p][g] \in Nat /\ \A u \in Task : time[u][g] \in Nat
          /\ OwnTime(p)[g] = signal_time[p][g] + SumOf(time, Threads(p), g)
          /\ SumOf(time, Threads(p), g) \in Nat
      BY <1>2, OwnTyped
    <3>3. SumOf(time, ToRead(g), g) \in Nat
      BY <3>1, <3>2, SumOfOne
    <3>4. PICK R : R = ToRead(g)
      OBVIOUS
    <3>5. PICK T : T = Threads(p)
      OBVIOUS
    <3>6. ToRead(g)' = R /\ Threads(p)' = T
      BY <1>5, <1>6, <3>4, <3>5 DEF ToRead
    <3>7. Left(g)' = (IF <<SELF, g>> \in unread THEN signal_time[p][g] ELSE 0)
                     + SumOf(time', R, g)
      BY <1>1, <1>5, <2>1, <3>6, LeftAfter
    <3>8. Left(g) = (IF <<SELF, g>> \in unread THEN signal_time[p][g] ELSE 0)
                     + SumOf(time, R, g)
      BY <2>1, <3>4 DEF Left
    <3>9. OwnTime(p)'[g] = signal_time[p][g] + SumOf(time', T, g)
      BY <1>1, <3>6, OwnAfter
    <3>10. CASE g # f
      <4>1. \A u \in Task : time'[u][g] = time[u][g]
        BY <1>1, <1>2, <3>10 DEF CountersTyped
      <4>2. /\ SumOf(time', R, g) = SumOf(time, R, g)
            /\ SumOf(time', T, g) = SumOf(time, T, g)
        BY <3>1, <3>2, <3>4, <3>5, <4>1, SumStays
      <4> QED
        BY <3>2, <3>3, <3>4, <3>5, <3>7, <3>8, <3>9, <4>2
    <3>11. CASE g = f
      <4>1. /\ time'[t][g] = time[t][g] + 1
            /\ \A u \in Task \ {t} : time'[u][g] = time[u][g]
        BY <1>1, <1>2, <3>11 DEF CountersTyped
      <4>2. SumOf(time', T, g) = SumOf(time, T, g) + 1
        BY <1>8, <2>1, <3>1, <3>2, <3>5, <4>1, SumTicks
      <4>3. \/ SumOf(time', R, g) = SumOf(time, R, g) + 1
            \/ SumOf(time', R, g) = SumOf(time, R, g)
        <5>1. CASE t \in R
          BY <3>1, <3>2, <3>4, <4>1, <5>1, SumTicks
        <5>2. CASE t \notin R
          BY <3>1, <3>2, <3>4, <4>1, <5>2, SumStays
        <5> QED
          BY <5>1, <5>2
      <4> QED
        BY <3>2, <3>3, <3>4, <3>5, <3>7, <3>8, <3>9, <4>2, <4>3
    <3> QED
      BY <3>10, <3>11
  <2>3. OwnBetween'
    <3> SUFFICES ASSUME SELF \in who', NEW g \in Field
                 PROVE  /\ floor'[g] <= sum'[SELF][g] + Left(g)'
                        /\ sum'[SELF][g] + Left(g)' <= OwnTime(sampled)'[g]
      BY DEF OwnBetween
    <3>1. /\ floor[g] <= sum[SELF][g] + Left(g)
          /\ sum[SELF][g] + Left(g) <= OwnTime(p)[g]
      BY <1>5, <2>1 DEF UsageInv, OwnBetween
    <3>2. OwnTime(sampled)' = OwnTime(p)'
      BY <1>5, <2>1 DEF OwnTime
    <3>3. floor[g] \in Nat /\ sum[SELF][g] \in Nat
      BY <1>2 DEF UsageTypeOK
    <3>4. /\ floor[g] <= sum[SELF][g] + Left(g)'
          /\ sum[SELF][g] + Left(g)' <= OwnTime(p)'[g]
      BY <2>2, <3>1, <3>3
    <3> QED
      BY <1>5, <3>2, <3>4
  <2>4. ChildrenSame' /\ LooksAtOne'
    BY <1>1, <1>5, <1>6 DEF UsageInv, ChildrenSame, LooksAtOne, Places
  <2>5. UsageTypeOK'
    BY <1>1, <1>2, <1>4, <1>5, <1>6 DEF UsageTypeOK, CountersTyped, Place
  <2> QED
    BY <2>3, <2>4, <2>5 DEF UsageInv
<1> QED
  BY <1>7, <1>8

\* When a sample begins, all that there is is left to read.
LEMMA LockKeeps ==
  ASSUME UsageInv, TypeOK', NEW p \in Task, NEW whom \in SUBSET {SELF, CHILDREN},
         Lock(p, whom)
  PROVE  UsageInv'
<1>1. /\ p \in Process /\ sampled' = p /\ who' = whom
      /\ unread' = Places(p, whom) \X Field
      /\ sum' = NoSum /\ floor' = OwnTime(p)
      /\ UNCHANGED <<vars, measured, counters>>
  BY DEF Lock
<1>2. TypeOK /\ CountersTyped /\ UsageTypeOK /\ measured \in BOOLEAN
  BY TypeParts DEF UsageInv, SampleTyped
<1>3. Threads(p) \subseteq Task /\ SELF # CHILDREN
  BY DEF Threads, Alive, SELF, CHILDREN
<1>4. UNCHANGED <<tgid, time, signal_time, child_time>>
  BY <1>1 DEF vars, counters
<1>5. Process' = Process /\ Threads(p)' = Threads(p) /\ Alive' = Alive
  BY <1>4 DEF Process, Threads, Alive, thread_group_leader
<1>6. NoSum \in [{SELF, CHILDREN} -> [Field -> Nat]]
      /\ \A w \in {SELF, CHILDREN}, f \in Field : NoSum[w][f] = 0
  BY ZeroTyped DEF NoSum, Zero
<1>7. Places(p, whom) \subseteq Place
  BY <1>3 DEF Places, Place
<1>8. UsageTypeOK'
  <2>1. floor' \in [Field -> Nat]
    BY <1>1, <1>2, OwnIsCounters
  <2>2. CountersTyped'
    BY <1>2, <1>4 DEF CountersTyped
  <2>3. SampleTyped'
    BY <1>1, <1>2, <1>5, <1>6, <1>7, <2>1 DEF SampleTyped, Place
  <2> QED
    BY <2>2, <2>3 DEF UsageTypeOK, CountersTyped, SampleTyped
<1>9. LooksAtOne'
  <2>1. p # NoTask
    BY ProcessesAssumption
  <2> QED
    BY <1>1, <1>5, <2>1 DEF LooksAtOne, Places, Threads, Alive
<1>10. OwnBetween'
  <2> SUFFICES ASSUME SELF \in who', NEW f \in Field
               PROVE  /\ floor'[f] <= sum'[SELF][f] + Left(f)'
                      /\ sum'[SELF][f] + Left(f)' <= OwnTime(sampled)'[f]
    BY DEF OwnBetween
  <2>1. <<SELF, f>> \in unread'
    BY <1>1 DEF Places
  <2>2. ToRead(f)' = Threads(p)
    BY <1>1, <1>3, UsageAssumption DEF ToRead, Places
  <2>3. PICK S : S = Threads(p)
    OBVIOUS
  <2>4. Left(f)' = signal_time[p][f] + SumOf(time, S, f)
    BY <1>1, <1>4, <2>1, <2>2, <2>3, LeftAfter
  <2>5. /\ OwnTime(p)[f] = signal_time[p][f] + SumOf(time, S, f)
        /\ signal_time[p][f] \in Nat /\ SumOf(time, S, f) \in Nat
    BY <1>2, <2>3, OwnTyped
  <2>6. OwnTime(p)'[f] = signal_time[p][f] + SumOf(time, S, f)
    BY <1>4, <1>5, <2>3, OwnAfter
  <2>7. OwnTime(sampled)' = OwnTime(p)'
    BY <1>1 DEF OwnTime
  <2> QED
    BY <1>1, <1>6, <2>4, <2>5, <2>6, <2>7
<1>11. ChildrenSame'
  <2> SUFFICES ASSUME CHILDREN \in whom, NEW f \in Field
               PROVE  sum'[CHILDREN][f] = 0 /\ <<CHILDREN, f>> \in unread'
    BY <1>1 DEF ChildrenSame
  <2> QED
    BY <1>1, <1>6 DEF Places
<1> QED
  BY <1>8, <1>9, <1>10, <1>11 DEF UsageInv

LEMMA UnlockKeeps ==
  ASSUME UsageInv, TypeOK', Unlock
  PROVE  UsageInv'
<1>1. /\ unread = {} /\ sampled' = NoTask /\ who' = {} /\ sum' = NoSum /\ floor' = Zero
      /\ UNCHANGED <<vars, measured, counters, unread>>
  BY DEF Unlock
<1>2. CountersTyped' /\ measured' \in BOOLEAN
  BY <1>1, TypeParts DEF UsageInv, CountersTyped, SampleTyped, counters
<1>3. SampleTyped'
  BY <1>1, <1>2, ZeroTyped DEF SampleTyped, NoSum
<1>4. UsageTypeOK'
  BY <1>2, <1>3 DEF UsageTypeOK, CountersTyped, SampleTyped
<1>5. LooksAtOne' /\ OwnBetween' /\ ChildrenSame'
  BY <1>1 DEF LooksAtOne, OwnBetween, ChildrenSame
<1> QED
  BY <1>4, <1>5 DEF UsageInv

LEMMA ReadKeeps ==
  ASSUME UsageInv, TypeOK', NEW place \in Place, NEW f \in Field, Read(place, f)
  PROVE  UsageInv'
<1> DEFINE w == IF place = CHILDREN THEN CHILDREN ELSE SELF
           v == Value(place, f)
<1>1. /\ <<place, f>> \in unread
      /\ unread' = unread \ {<<place, f>>}
      /\ sum' = [sum EXCEPT ![w] = [sum[w] EXCEPT ![f] = sum[w][f] + v]]
      /\ UNCHANGED <<vars, measured, counters, sampled, who, floor>>
  BY DEF Read
<1>2. TypeOK /\ CountersTyped /\ UsageTypeOK /\ measured \in BOOLEAN
  BY TypeParts DEF UsageInv, SampleTyped
<1>3. SELF # CHILDREN /\ SELF \notin Task /\ CHILDREN \notin Task
  BY UsageAssumption DEF SELF, CHILDREN
<1>4. sampled # NoTask /\ sampled \in Process /\ unread \subseteq Places(sampled, who) \X Field
  BY <1>1 DEF UsageInv, LooksAtOne
<1>5. PICK p \in Task : p = sampled
  BY <1>4 DEF Process, Alive
<1>6. /\ v = IF place = SELF THEN signal_time[p][f]
              ELSE IF place = CHILDREN THEN child_time[p][f] ELSE time[place][f]
      /\ v \in Nat
  BY <1>2, <1>3, <1>5 DEF Value, Place, CountersTyped
<1> HIDE DEF v
<1>7. UNCHANGED <<tgid, time, signal_time, child_time, sampled, who, floor>>
  BY <1>1 DEF vars, counters
<1>8. Process' = Process /\ (\A u : Threads(u)' = Threads(u)) /\ Alive' = Alive
  BY <1>7 DEF Process, Threads, Alive, thread_group_leader
<1>9. w \in {SELF, CHILDREN} /\ sum \in [{SELF, CHILDREN} -> [Field -> Nat]]
  BY <1>2 DEF UsageTypeOK
<1>10. /\ sum'[w][f] = sum[w][f] + v
       /\ \A x \in {SELF, CHILDREN}, g \in Field :
            x # w \/ g # f => sum'[x][g] = sum[x][g]
       /\ sum' \in [{SELF, CHILDREN} -> [Field -> Nat]]
  <2> HIDE DEF w
  <2> QED
    BY <1>1, <1>6, <1>9
<1>11. UsageTypeOK'
  <2>1. CountersTyped'
    BY <1>2, <1>7 DEF CountersTyped
  <2>2. SampleTyped'
    <3>1. measured' \in BOOLEAN
      BY <1>1, <1>2
    <3>2. unread' \subseteq Place' \X Field
      <4>1. unread \subseteq Place \X Field
        BY <1>2 DEF UsageTypeOK
      <4>2. Place' = Place
        BY DEF Place
      <4>3. unread' \subseteq unread
        BY <1>1
      <4> QED
        BY <4>1, <4>2, <4>3
    <3>3. /\ sampled' \in Process' \cup {NoTask}
          /\ who' \subseteq {SELF, CHILDREN} /\ floor' \in [Field -> Nat]
      BY <1>2, <1>7, <1>8 DEF UsageTypeOK
    <3> QED
      BY <1>10, <3>1, <3>2, <3>3 DEF SampleTyped
  <2> QED
    BY <2>1, <2>2 DEF UsageTypeOK, CountersTyped, SampleTyped
<1>12. LooksAtOne'
  BY <1>1, <1>4, <1>7, <1>8 DEF LooksAtOne, Places
<1>13. ChildrenSame'
  <2> SUFFICES ASSUME CHILDREN \in who, NEW g \in Field
               PROVE  sum'[CHILDREN][g] = IF <<CHILDREN, g>> \in unread' THEN 0
                                          ELSE child_time[sampled][g]
    BY <1>7 DEF ChildrenSame
  <2>1. sum[CHILDREN][g] = IF <<CHILDREN, g>> \in unread THEN 0 ELSE child_time[sampled][g]
    BY DEF UsageInv, ChildrenSame
  <2>2. CASE place = CHILDREN /\ g = f
    <3>1. <<CHILDREN, g>> \in unread /\ <<CHILDREN, g>> \notin unread'
      BY <1>1, <2>2
    <3>2. sum'[CHILDREN][g] = sum[CHILDREN][g] + v /\ v = child_time[p][g]
      BY <1>3, <1>6, <1>10, <2>2
    <3>3. child_time[p][g] \in Nat
      BY <1>2 DEF CountersTyped
    <3> QED
      BY <1>5, <2>1, <3>1, <3>2, <3>3
  <2>3. CASE ~(place = CHILDREN /\ g = f)
    <3>1. <<CHILDREN, g>> \in unread <=> <<CHILDREN, g>> \in unread'
      BY <1>1, <2>3
    <3>2. sum'[CHILDREN][g] = sum[CHILDREN][g]
      BY <1>3, <1>10, <2>3
    <3> QED
      BY <2>1, <3>1, <3>2
  <2> QED
    BY <2>2, <2>3
<1>14. ASSUME NEW g \in Field
       PROVE  sum'[SELF][g] + Left(g)' = sum[SELF][g] + Left(g)
  <2>1. PICK R : R = ToRead(g)
    OBVIOUS
  <2>2. /\ IsFiniteSet(R) /\ R \subseteq Task /\ \A u \in R : time[u][g] \in Nat
        /\ signal_time[p][g] \in Nat /\ sum[SELF][g] \in Nat
    <3>1. IsFiniteSet(R)
      BY <1>2, <1>4, <2>1, ReadsThreads DEF UsageInv
    <3>2. R \subseteq Task
      BY <2>1 DEF ToRead
    <3>3. \A u \in Task : time[u][g] \in Nat /\ signal_time[u][g] \in Nat
      BY <1>2 DEF CountersTyped
    <3>4. sum[SELF][g] \in Nat
      BY <1>9
    <3> QED
      BY <3>1, <3>2, <3>3, <3>4
  <2>3. /\ SumOf(time, R, g) \in Nat
        /\ \A u \in R : SumOf(time, R, g) = time[u][g] + SumOf(time, R \ {u}, g)
    BY <2>2, SumOfOne
  <2>4. Left(g) = (IF <<SELF, g>> \in unread THEN signal_time[p][g] ELSE 0) + SumOf(time, R, g)
    BY <1>5, <2>1 DEF Left
  <2>5. CASE g # f \/ place = CHILDREN
    <3>1. ToRead(g)' = R /\ (<<SELF, g>> \in unread' <=> <<SELF, g>> \in unread)
      BY <1>1, <1>3, <2>1, <2>5 DEF ToRead
    <3>2. Left(g)' = (IF <<SELF, g>> \in unread THEN signal_time[p][g] ELSE 0)
                     + SumOf(time, R, g)
      BY <1>5, <1>7, <3>1, LeftAfter
    <3>3. sum'[SELF][g] = sum[SELF][g]
      BY <1>3, <1>10, <2>5
    <3> QED
      BY <2>4, <3>2, <3>3
  <2>6. CASE g = f /\ place = SELF
    <3>1. /\ ToRead(g)' = R /\ <<SELF, g>> \notin unread' /\ <<SELF, g>> \in unread
      BY <1>1, <1>3, <2>1, <2>6 DEF ToRead
    <3>2. Left(g)' = 0 + SumOf(time, R, g)
      BY <1>7, <3>1, LeftAfter
    <3>3. sum'[SELF][g] = sum[SELF][g] + signal_time[p][g]
      BY <1>3, <1>6, <1>10, <2>6
    <3> QED
      BY <2>2, <2>3, <2>4, <3>1, <3>2, <3>3
  <2>7. CASE g = f /\ place \in Task
    <3>1. /\ ToRead(g)' = R \ {place} /\ place \in R
          /\ (<<SELF, g>> \in unread' <=> <<SELF, g>> \in unread)
      BY <1>1, <1>3, <2>1, <2>7 DEF ToRead
    <3>2. Left(g)' = (IF <<SELF, g>> \in unread THEN signal_time[p][g] ELSE 0)
                     + SumOf(time, R \ {place}, g)
      BY <1>5, <1>7, <3>1, LeftAfter
    <3>3. sum'[SELF][g] = sum[SELF][g] + time[place][g]
      BY <1>3, <1>6, <1>10, <2>7
    <3>4. IsFiniteSet(R \ {place}) /\ \A u \in R \ {place} : time[u][g] \in Nat
      BY <2>2, FS_RemoveElement
    <3>5. SumOf(time, R \ {place}, g) \in Nat
      BY <3>4, SumOfOne
    <3>6. SumOf(time, R, g) = time[place][g] + SumOf(time, R \ {place}, g)
          /\ time[place][g] \in Nat
      BY <2>2, <2>3, <3>1
    <3> QED
      BY <2>2, <2>4, <3>2, <3>3, <3>5, <3>6
  <2> QED
    BY <2>5, <2>6, <2>7 DEF Place
<1>15. OwnBetween'
  <2> SUFFICES ASSUME SELF \in who, NEW g \in Field
               PROVE  /\ floor[g] <= sum'[SELF][g] + Left(g)'
                      /\ sum'[SELF][g] + Left(g)' <= OwnTime(sampled)'[g]
    BY <1>7 DEF OwnBetween
  <2>1. PICK S : S = Threads(p)
    OBVIOUS
  <2>2. OwnTime(p)'[g] = signal_time[p][g] + SumOf(time, S, g)
    BY <1>7, <1>8, <2>1, OwnAfter
  <2>3. OwnTime(p)[g] = signal_time[p][g] + SumOf(time, S, g)
    BY <1>2, <2>1, OwnTyped
  <2>4. OwnTime(sampled)' = OwnTime(p)'
    BY <1>5, <1>7 DEF OwnTime
  <2>5. /\ floor[g] <= sum[SELF][g] + Left(g)
        /\ sum[SELF][g] + Left(g) <= OwnTime(p)[g]
    BY <1>5 DEF UsageInv, OwnBetween
  <2> QED
    BY <1>14, <2>2, <2>3, <2>4, <2>5
<1> QED
  BY <1>11, <1>12, <1>13, <1>15 DEF UsageInv

-----------------------------------------------------------------------------
LEMMA UsageInitHolds == UsageInit => IInv /\ UsageInv
<1> SUFFICES ASSUME UsageInit PROVE IInv /\ UsageInv
  OBVIOUS
<1>1. IInv
  BY InitHolds DEF UsageInit
<1>2. UsageTypeOK
  BY <1>1, ZeroTyped DEF UsageInit, UsageTypeOK, IInv, NoSum
<1>3. LooksAtOne /\ OwnBetween /\ ChildrenSame
  BY DEF UsageInit, LooksAtOne, OwnBetween, ChildrenSame
<1> QED
  BY <1>1, <1>2, <1>3 DEF UsageInv

\* Where times are followed, tasks, groups and sessions go on as they do elsewhere.
LEMMA UsageStepIsStep ==
  ASSUME [UsageNext]_usage_vars
  PROVE  [Next]_vars
<1>1. CASE UNCHANGED usage_vars
  BY <1>1 DEF usage_vars
<1>2. CASE UsageNext
  BY <1>2 DEF UsageNext, Tick, Begin, EndThread, Reap, Replace, Lock, Read, Unlock, Next
<1> QED
  BY <1>1, <1>2

LEMMA UsageNextKeeps == IInv /\ UsageInv /\ [UsageNext]_usage_vars => IInv' /\ UsageInv'
<1> SUFFICES ASSUME IInv, UsageInv, [UsageNext]_usage_vars PROVE IInv' /\ UsageInv'
  OBVIOUS
<1>1. IInv' /\ TypeOK'
  <2>1. IInv'
    BY UsageStepIsStep, NextKeeps
  <2> QED
    BY <2>1 DEF IInv
<1>2. CASE UNCHANGED usage_vars
  BY <1>1, <1>2, CallsKeep DEF usage_vars, vars, sample
<1>3. CASE UsageNext
  <2>1. ASSUME NEW t \in Task, ~measured, Calls(t), UNCHANGED <<measured, counters, sample>>
        PROVE  UsageInv'
    <3>1. UNCHANGED tgid
      BY <2>1 DEF Calls, Setpgid, Setsid
    <3> QED
      BY <1>1, <2>1, <3>1, CallsKeep
  <2>2. \A whom \in {{SELF}, {CHILDREN}, {SELF, CHILDREN}} : whom \in SUBSET {SELF, CHILDREN}
    OBVIOUS
  <2> QED
    BY <1>1, <1>3, <2>1, <2>2, TickKeeps, BeginKeeps, EndThreadKeeps, ReapKeeps,
       ReplaceKeeps, LockKeeps, ReadKeeps, UnlockKeeps
       DEF UsageNext
<1> QED
  BY <1>1, <1>2, <1>3

LEMMA UsageInvariant == UsageSpec => [](IInv /\ UsageInv)
BY UsageInitHolds, UsageNextKeeps, PTL DEF UsageSpec

\* Beside samples and ticks, groups and sessions are what they are without them: all
\* that is said of Spec is said of the processes whose times are followed.
THEOREM UsageIsProcesses == UsageSpec => Spec
<1>1. UsageInit => Init
  BY DEF UsageInit
<1>2. [UsageNext]_usage_vars => [Next]_vars
  BY UsageStepIsStep
<1> QED
  BY <1>1, <1>2, PTL DEF UsageSpec, Spec

\* Counters, samples and what they have still to read keep their types, however many
\* tasks and counters there are.
THEOREM UsageTypesHold == UsageSpec => []UsageTypeOK
<1>1. UsageInv => UsageTypeOK
  BY DEF UsageInv
<1> QED
  BY <1>1, UsageInvariant, PTL

\* sys_times() and k_getrusage(): what a process has used, as it is read from one place
\* after another while its threads run, begin and end, is no less than it was when the
\* siglock was taken and no more than it is when it is released.
THEOREM SamplesAreBetween == UsageSpec => []SampleIsBetween
<1>1. UsageInv => SampleIsBetween
  <2> SUFFICES ASSUME UsageInv, SELF \in who, unread = {}, NEW f \in Field
               PROVE  floor[f] <= sum[SELF][f] /\ sum[SELF][f] <= OwnTime(sampled)[f]
    BY DEF SampleIsBetween
  <2>1. ToRead(f) = {} /\ <<SELF, f>> \notin unread
    BY DEF ToRead
  <2>2. Left(f) = 0
    BY <2>1, SumOfNone DEF Left
  <2>3. sum[SELF][f] \in Nat
    BY DEF UsageInv, UsageTypeOK
  <2> QED
    BY <2>2, <2>3 DEF UsageInv, OwnBetween
<1> QED
  BY <1>1, UsageInvariant, PTL

\* A sample of the children has all counters of a child that was reaped, or none: they
\* are what the signal structure has when the sample ends, in whatever order it reads.
THEOREM ChildrenWhole == UsageSpec => []ChildrenAllOrNone
<1>1. UsageInv => ChildrenAllOrNone
  <2> SUFFICES ASSUME UsageInv, CHILDREN \in who, unread = {}
               PROVE  sum[CHILDREN] = child_time[sampled]
    BY DEF ChildrenAllOrNone
  <2>1. sampled \in Task
    BY DEF UsageInv, LooksAtOne, Process, Alive
  <2>2. sum[CHILDREN] \in [Field -> Nat] /\ child_time[sampled] \in [Field -> Nat]
    BY <2>1 DEF UsageInv, UsageTypeOK
  <2>3. \A f \in Field : sum[CHILDREN][f] = child_time[sampled][f]
    BY DEF UsageInv, ChildrenSame
  <2> QED
    BY <2>2, <2>3
<1> QED
  BY <1>1, UsageInvariant, PTL

=============================================================================
