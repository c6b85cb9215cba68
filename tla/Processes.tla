----------------------------- MODULE Processes -----------------------------
(***************************************************************************)
(* Process groups and sessions, Project_2/sys.c: setpgid, getpgid, getsid  *)
(* and setsid.  Each call that changes something holds tasklist_lock for   *)
(* writing from its first look at a task to its last store, so it is one   *)
(* step.  What a call refuses changes nothing and is no step.              *)
(*                                                                         *)
(* fork, clone, exec, exit and the choice of a new pid are not in sys.c;   *)
(* they are here as far as these calls rely on them.                       *)
(***************************************************************************)
EXTENDS FiniteSets

CONSTANTS
  Task,     \* the pids, which also number groups and sessions
  InitPid,  \* 1
  NoTask    \* there is no task of this pid

ASSUME ProcessesAssumption == InitPid \in Task /\ NoTask \notin Task

VARIABLES
  tgid,         \* the thread group of each task: the pid of its group_leader
  real_parent,  \* for each group leader: real_parent->tgid
  pgrp,         \* signal->pgrp
  session,
  leader,       \* those with signal->leader
  did_exec      \* those with did_exec

signal == <<pgrp, session, leader>>
vars == <<tgid, real_parent, signal, did_exec>>

Alive == {t \in Task : tgid[t] # NoTask}

thread_group_leader(t) == tgid[t] = t

Process == {t \in Alive : thread_group_leader(t)}

TypeOK ==
  /\ tgid \in [Task -> Task \cup {NoTask}]
  /\ real_parent \in [Task -> Task \cup {NoTask}]
  /\ pgrp \in [Task -> Task \cup {NoTask}]
  /\ session \in [Task -> Task \cup {NoTask}]
  /\ leader \subseteq Process
  /\ did_exec \subseteq Process
  /\ InitPid \in Process
  /\ \A t \in Alive : tgid[t] \in Process
  /\ \A p \in Process : pgrp[p] # NoTask /\ session[p] # NoTask

\* init is in group and session 1, like the threads of the kernel.
Init ==
  /\ tgid = [t \in Task |-> IF t = InitPid THEN t ELSE NoTask]
  /\ real_parent = [t \in Task |-> NoTask]
  /\ pgrp = [t \in Task |-> IF t = InitPid THEN t ELSE NoTask]
  /\ session = [t \in Task |-> IF t = InitPid THEN t ELSE NoTask]
  /\ leader = {}
  /\ did_exec = {}

-----------------------------------------------------------------------------
(* The rest of the kernel.                                                 *)

\* A pid is given out again when no task, group or session has it.
FreePid(c) ==
  /\ c \notin Alive
  /\ \A p \in Process : pgrp[p] # c /\ session[p] # c

\* The child is in its parent's group and session and leads no session.
Fork(t, c) ==
  /\ t \in Alive /\ FreePid(c)
  /\ tgid' = [tgid EXCEPT ![c] = c]
  /\ real_parent' = [real_parent EXCEPT ![c] = tgid[t]]
  /\ pgrp' = [pgrp EXCEPT ![c] = pgrp[tgid[t]]]
  /\ session' = [session EXCEPT ![c] = session[tgid[t]]]
  /\ UNCHANGED <<leader, did_exec>>

\* A new thread shares the signal structure of its group.
Clone(t, c) ==
  /\ t \in Alive /\ FreePid(c)
  /\ tgid' = [tgid EXCEPT ![c] = tgid[t]]
  /\ UNCHANGED <<real_parent, signal, did_exec>>

\* The tasks that are gone; the children of a process become init's, those of a
\* thread its siblings'.
Release(gone) ==
  /\ tgid' = [t \in Task |-> IF t \in gone THEN NoTask ELSE tgid[t]]
  /\ real_parent' = [t \in Task |-> IF t \in gone THEN NoTask
                                    ELSE IF real_parent[t] \in gone THEN InitPid
                                    ELSE real_parent[t]]
  /\ pgrp' = [t \in Task |-> IF t \in gone THEN NoTask ELSE pgrp[t]]
  /\ session' = [t \in Task |-> IF t \in gone THEN NoTask ELSE session[t]]
  /\ leader' = leader \ gone

Threads(p) == {t \in Alive : tgid[t] = p}

\* The program is replaced: the other threads of the group end.
Exec(p) ==
  /\ p \in Process
  /\ Release(Threads(p) \ {p})
  /\ did_exec' = did_exec \cup {p}

\* A task ends; a group leader is released after the threads of its group.
Exit(t) ==
  /\ t \in Alive /\ t # InitPid
  /\ thread_group_leader(t) => Threads(t) = {t}
  /\ Release({t})
  /\ did_exec' = did_exec \ {t}

-----------------------------------------------------------------------------
(* The calls of sys.c.  t is current.  A pid or pgid of 0 is the caller's  *)
(* own process or the pid, which it may as well give by its number.        *)

\* find_task_by_pid_type(PIDTYPE_PGID, g): a process of group g.
InGroup(p, g) == p \in Process /\ pgrp[p] = g

\* Mutant: a group of another session will do.
MayJoinAny(p, g, self) == g = p \/ \E q \in Process : InGroup(q, g)

\* The group is the process's own or exists in the session of the caller.
MayJoin(p, g, self) ==
  g = p \/ \E q \in Process : InGroup(q, g) /\ session[q] = session[self]

\* The process is the caller's own or a child that still runs its program.
MayMove(p, self) ==
  /\ p \in Process
  /\ IF real_parent[p] = self THEN session[p] = session[self] /\ p \notin did_exec
                              ELSE p = self

\* Mutant: a session leader leaves its group.
SetpgidOfLeader(t, p, g) ==
  LET self == tgid[t] IN
  /\ t \in Alive
  /\ MayMove(p, self)
  /\ MayJoin(p, g, self)
  /\ pgrp' = [pgrp EXCEPT ![p] = g]
  /\ UNCHANGED <<tgid, real_parent, session, leader, did_exec>>

\* sys_setpgid, when the security module does not object.
Setpgid(t, p, g) ==
  LET self == tgid[t] IN
  /\ t \in Alive
  /\ MayMove(p, self)
  /\ p \notin leader
  /\ MayJoin(p, g, self)
  /\ pgrp' = [pgrp EXCEPT ![p] = g]
  /\ UNCHANGED <<tgid, real_parent, session, leader, did_exec>>

\* Mutant: the leader of a group may begin a session.
SetsidOfAny(t) ==
  LET self == tgid[t] IN
  /\ t \in Alive
  /\ self \notin leader
  /\ leader' = leader \cup {self}
  /\ session' = [session EXCEPT ![self] = self]
  /\ pgrp' = [pgrp EXCEPT ![self] = self]
  /\ UNCHANGED <<tgid, real_parent, did_exec>>

\* sys_setsid: no group may have the number of the new session, except for init.
Setsid(t) ==
  LET self == tgid[t] IN
  /\ t \in Alive
  /\ self \notin leader
  /\ self # InitPid => \A q \in Process : ~InGroup(q, self)
  /\ leader' = leader \cup {self}
  /\ session' = [session EXCEPT ![self] = self]
  /\ pgrp' = [pgrp EXCEPT ![self] = self]
  /\ UNCHANGED <<tgid, real_parent, did_exec>>

Calls(t) ==
  \/ \E p, g \in Task : Setpgid(t, p, g)
  \/ Setsid(t)

Next ==
  \E t \in Task :
    \/ \E c \in Task : Fork(t, c) \/ Clone(t, c)
    \/ Exec(t)
    \/ Exit(t)
    \/ Calls(t)

Spec == Init /\ [][Next]_vars

-----------------------------------------------------------------------------
\* The processes of a group are in one session, whatever the order in which they
\* join and leave groups, begin sessions, end, and have their pids used again.
\* A terminal signals a group on the strength of it.
GroupsInOneSession ==
  \A p, q \in Process : pgrp[p] = pgrp[q] => session[p] = session[q]

\* A process that began a session stays the leader of the group that has the
\* number of the session.
SessionLeaderLeads == \A p \in leader : pgrp[p] = p /\ session[p] = p

\* A process that lives on never gets into another session than one that it
\* begins itself, and nobody is in that session or its group before.
SessionsAreEntered ==
  [][\A p \in Process : p \in Process' /\ session'[p] # session[p] =>
       /\ session'[p] = p
       /\ \A q \in Process : session[q] # p /\ pgrp[q] # p]_vars

=============================================================================
