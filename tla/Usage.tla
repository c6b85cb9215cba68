------------------------------- MODULE Usage -------------------------------
(***************************************************************************)
(* What processes have used, Project_2/sys.c: k_getrusage() and            *)
(* sys_times(), which add up the counters of a process under its siglock,  *)
(* while its threads run and count on without it.  Two counters stand for  *)
(* all of them.                                                            *)
(*                                                                         *)
(* Where threads and processes begin and end (module Processes, extended   *)
(* here) their times go from place to place; that is in kernel/fork.c and  *)
(* kernel/exit.c, and is here for the sake of what a sample may meet.      *)
(***************************************************************************)
EXTENDS Processes, Integers, FiniteSetsExt

CONSTANTS
  Field,     \* the counters: utime, stime, ...
  MaxTime,   \* bound: the ticks of all tasks together
  MaxTasks   \* bound: the tasks where times are followed

VARIABLES
  measured,     \* bound: times are followed, or else setpgid and setsid called
  time,         \* the counters of each task
  signal_time,  \* signal->utime, ...: those of the threads that have ended
  child_time,   \* signal->cutime, ...: those of the children that were reaped
  sampled,      \* the process whose siglock a sample holds, or NoTask
  who,          \* what it adds up
  unread,       \* what the sample has still to read
  sum,          \* what it has found: the process's own and its children's
  floor         \* history: the process's own when the sample began

counters == <<time, signal_time, child_time>>
sample == <<sampled, who, unread, sum, floor>>
usage_vars == <<vars, measured, counters, sample>>

Zero == [f \in Field |-> 0]
Plus(a, b) == [f \in Field |-> a[f] + b[f]]
SumOf(counts, tasks, f) == MapThenSumSet(LAMBDA t : counts[t][f], tasks)

SELF == "self"
CHILDREN == "children"

ASSUME UsageAssumption ==
  /\ MaxTime \in Nat /\ MaxTasks \in Nat /\ IsFiniteSet(Task)
  /\ SELF \notin Task /\ CHILDREN \notin Task

\* Whatever is in a signal structure is read there, the rest in a task.
Place == {SELF, CHILDREN} \cup Task

UsageTypeOK ==
  /\ TypeOK
  /\ measured \in BOOLEAN
  /\ time \in [Task -> [Field -> Nat]]
  /\ signal_time \in [Task -> [Field -> Nat]]
  /\ child_time \in [Task -> [Field -> Nat]]
  /\ sampled \in Process \cup {NoTask}
  /\ who \subseteq {SELF, CHILDREN}
  /\ unread \subseteq Place \X Field
  /\ sum \in [{SELF, CHILDREN} -> [Field -> Nat]]
  /\ floor \in [Field -> Nat]

NoSum == [w \in {SELF, CHILDREN} |-> Zero]

UsageInit ==
  /\ Init
  /\ measured \in BOOLEAN
  /\ time = [t \in Task |-> Zero]
  /\ signal_time = [t \in Task |-> Zero]
  /\ child_time = [t \in Task |-> Zero]
  /\ sampled = NoTask /\ who = {} /\ unread = {} /\ sum = NoSum /\ floor = Zero

-----------------------------------------------------------------------------
\* Mutant: the threads are read under RCU only.
NeverLocked(p) == FALSE

\* A sample holds the siglock of p.
Locked(p) == sampled = p

-----------------------------------------------------------------------------
(* The rest of the kernel.                                                 *)

\* A clock tick: the task that runs takes no lock.
Tick(t, f) ==
  /\ measured
  /\ t \in Alive
  /\ MapThenSumSet(LAMBDA g : SumOf(time, Task, g) + SumOf(signal_time, Task, g)
                                + SumOf(child_time, Task, g), Field) < MaxTime
  /\ time' = [time EXCEPT ![t][f] = @ + 1]
  /\ UNCHANGED <<vars, measured, signal_time, child_time, sample>>

\* A new thread is linked to its siblings under the siglock, which fork() takes as well.
Begin(t, c) ==
  /\ measured => Cardinality(Alive) < MaxTasks
  /\ ~Locked(tgid[t])
  /\ Fork(t, c) \/ Clone(t, c)
  /\ UNCHANGED <<measured, counters, sample>>

\* __exit_signal(): a thread leaves its times with its process.
EndThread(t) ==
  /\ ~thread_group_leader(t) /\ ~Locked(tgid[t])
  /\ Exit(t)
  /\ signal_time' = [signal_time EXCEPT ![tgid[t]] = Plus(@, time[t])]
  /\ time' = [time EXCEPT ![t] = Zero]
  /\ UNCHANGED <<measured, child_time, sample>>

OwnTime(p) == [f \in Field |-> signal_time[p][f] + SumOf(time, Threads(p), f)]

\* wait_task_zombie(): a process leaves its times with its parent when it is reaped.
\* Until then its parent's do not have them.
Reap(p) ==
  /\ thread_group_leader(p) /\ ~Locked(p) /\ ~Locked(real_parent[p])
  /\ Exit(p)
  /\ child_time' = [child_time EXCEPT ![real_parent[p]] = Plus(@, Plus(OwnTime(p), child_time[p])),
                                      ![p] = Zero]
  /\ time' = [time EXCEPT ![p] = Zero]
  /\ signal_time' = [signal_time EXCEPT ![p] = Zero]
  /\ UNCHANGED <<measured, sample>>

\* The other threads end.
Replace(p) ==
  LET others == Threads(p) \ {p} IN
  /\ ~Locked(p)
  /\ Exec(p)
  /\ signal_time' = [signal_time EXCEPT ![p] =
                       [f \in Field |-> @[f] + SumOf(time, others, f)]]
  /\ time' = [t \in Task |-> IF t \in others THEN Zero ELSE time[t]]
  /\ UNCHANGED <<measured, child_time, sample>>

-----------------------------------------------------------------------------
(* A sample: RUSAGE_SELF, RUSAGE_CHILDREN, or both, as RUSAGE_BOTH and     *)
(* sys_times() want it.                                                    *)

\* Mutant: the threads that have ended are left out.
PlacesAlive(p, whom) ==
  (IF SELF \in whom THEN Threads(p) ELSE {}) \cup (whom \ {SELF})

\* The children's times are in the signal structure, the process's own there and
\* in each thread.
Places(p, whom) ==
  (IF SELF \in whom THEN Threads(p) ELSE {}) \cup whom

\* lock_task_sighand(), or spin_lock_irq(&tsk->sighand->siglock).
Lock(p, whom) ==
  /\ measured
  /\ sampled = NoTask /\ p \in Process
  /\ sampled' = p
  /\ who' = whom
  /\ unread' = Places(p, whom) \X Field
  /\ sum' = NoSum
  /\ floor' = OwnTime(p)
  /\ UNCHANGED <<vars, measured, counters>>

Value(place, f) ==
  CASE place = SELF     -> signal_time[sampled][f]
    [] place = CHILDREN -> child_time[sampled][f]
    [] OTHER            -> time[place][f]

\* One counter at one place.  The signal structure's comes before the threads'; the
\* children's are read before those by getrusage() and after them by times().
Read(place, f) ==
  /\ <<place, f>> \in unread
  /\ place \in Task => unread \cap ({SELF} \X Field) = {}
  /\ unread' = unread \ {<<place, f>>}
  /\ sum' = [sum EXCEPT ![IF place = CHILDREN THEN CHILDREN ELSE SELF][f] = @ + Value(place, f)]
  /\ UNCHANGED <<vars, measured, counters, sampled, who, floor>>

Unlock ==
  /\ sampled # NoTask /\ unread = {}
  /\ sampled' = NoTask /\ who' = {} /\ sum' = NoSum /\ floor' = Zero
  /\ UNCHANGED <<vars, measured, counters, unread>>

UsageNext ==
  \/ \E t \in Task :
       \/ \E f \in Field : Tick(t, f)
       \/ \E c \in Task : Begin(t, c)
       \/ EndThread(t) \/ Reap(t) \/ Replace(t)
       \/ ~measured /\ Calls(t) /\ UNCHANGED <<measured, counters, sample>>
       \/ \E whom \in {{SELF}, {CHILDREN}, {SELF, CHILDREN}} : Lock(t, whom)
  \/ \E place \in Place, f \in Field : Read(place, f)
  \/ Unlock

UsageSpec == UsageInit /\ [][UsageNext]_usage_vars

-----------------------------------------------------------------------------
\* "With threads incrementing their own counters ... we either get new values or
\* old values": a process's own time, as it was read here and there while threads
\* ran, is one that it had between the beginning and the end of the sample.  No
\* thread that ended or began is missed or counted twice.
SampleIsBetween ==
  SELF \in who /\ unread = {} =>
    \A f \in Field : floor[f] <= sum[SELF][f] /\ sum[SELF][f] <= OwnTime(sampled)[f]

\* "A sample either gets all the additions of a given child after it's reaped, or
\* none": the counters belong to one and the same set of reaped children.
ChildrenAllOrNone ==
  CHILDREN \in who /\ unread = {} => sum[CHILDREN] = child_time[sampled]

=============================================================================
