--------------------------- MODULE Cs1550SemList ---------------------------
(***************************************************************************)
(* The waiting list of Project_2/sys.c with its memory: the nodes          *)
(* (struct proc_node) that down() allocates and up() frees, the pointers   *)
(* between them, and head and tail in struct cs1550_sem.  The rest is as   *)
(* in module Cs1550Sem, which this module implements.                      *)
(***************************************************************************)
EXTENDS Integers, Sequences, FiniteSets

CONSTANTS
  Proc, Sem, InitValue, MaxValue,  \* as in Cs1550Sem
  Node,                            \* the memory kmalloc() hands out
  NULL,                            \* the null pointer
  JUNK                             \* what memory nobody owns contains

ASSUME ListAssumption ==
  /\ InitValue \in [Sem -> Nat] /\ MaxValue \in Nat
  /\ IsFiniteSet(Node)
  /\ NULL \notin Node /\ JUNK \notin Node \cup Proc /\ NULL # JUNK

VARIABLES
  value, head, tail,  \* the fields of each struct cs1550_sem
  next, proc_info,    \* the fields of each struct proc_node
  allocated,          \* the nodes between their kmalloc() and their kfree()
  state, kpc          \* as in Cs1550Sem

vars == <<value, head, tail, next, proc_info, allocated, state, kpc>>

TypeOK ==
  /\ value \in [Sem -> Int]
  /\ head \in [Sem -> Node \cup {NULL}]
  /\ tail \in [Sem -> Node \cup {NULL}]
  /\ next \in [Node -> Node \cup {NULL, JUNK}]
  /\ proc_info \in [Node -> Proc \cup {JUNK}]
  /\ allocated \in SUBSET Node
  /\ state \in [Proc -> {"RUNNING", "INTERRUPTIBLE"}]
  /\ kpc \in [Proc -> {"user", "schedule", "off"}]

Init ==
  /\ value = InitValue
  /\ head = [s \in Sem |-> NULL]
  /\ tail = [s \in Sem |-> NULL]
  /\ next = [n \in Node |-> JUNK]
  /\ proc_info = [n \in Node |-> JUNK]
  /\ allocated = {}
  /\ state = [p \in Proc |-> "RUNNING"]
  /\ kpc = [p \in Proc |-> "user"]

-----------------------------------------------------------------------------
\* kmalloc(): any memory that is not in use.  Its failure is not modelled.
Kmalloc(n) ==
  /\ n \in Node \ allocated
  /\ allocated' = allocated \cup {n}

\* Mutant: the node is not freed.
KfreeForgotten(n) == UNCHANGED <<allocated, next, proc_info>>

\* The memory goes back; what it held is gone.
Kfree(n) ==
  /\ allocated' = allocated \ {n}
  /\ next' = [next EXCEPT ![n] = JUNK]
  /\ proc_info' = [proc_info EXCEPT ![n] = JUNK]

\* Mutant: tail stays at the first node.
LinkOldTail(p, s, n) ==
  /\ proc_info' = [proc_info EXCEPT ![n] = p]
  /\ \/ /\ head[s] = NULL
        /\ head' = [head EXCEPT ![s] = n]
        /\ tail' = [tail EXCEPT ![s] = n]
        /\ next' = [next EXCEPT ![n] = NULL]
     \/ /\ head[s] # NULL
        /\ next' = [next EXCEPT ![n] = NULL, ![tail[s]] = n]
        /\ UNCHANGED <<head, tail>>

\* A node for p at the end of the list of s.
Link(p, s, n) ==
  /\ proc_info' = [proc_info EXCEPT ![n] = p]
  /\ tail' = [tail EXCEPT ![s] = n]
  /\ \/ /\ head[s] = NULL
        /\ head' = [head EXCEPT ![s] = n]
        /\ next' = [next EXCEPT ![n] = NULL]
     \/ /\ head[s] # NULL
        /\ next' = [next EXCEPT ![n] = NULL, ![tail[s]] = n]
        /\ UNCHANGED head

\* sys_cs1550_down(s), called by p, up to spin_unlock.
Down(p, s) ==
  /\ kpc[p] = "user"
  /\ value' = [value EXCEPT ![s] = @ - 1]
  /\ \/ /\ value[s] - 1 < 0
        /\ \E n \in Node : Kmalloc(n) /\ Link(p, s, n)
        /\ state' = [state EXCEPT ![p] = "INTERRUPTIBLE"]
        /\ kpc' = [kpc EXCEPT ![p] = "schedule"]
     \/ /\ value[s] - 1 >= 0
        /\ UNCHANGED <<head, tail, next, proc_info, allocated, state, kpc>>

\* The first node leaves the list of s.
Unlink(s) ==
  IF head[s] = tail[s]
    THEN /\ head' = [head EXCEPT ![s] = NULL]
         /\ tail' = [tail EXCEPT ![s] = NULL]
    ELSE /\ head' = [head EXCEPT ![s] = next[head[s]]]
         /\ UNCHANGED tail

\* sys_cs1550_up(s), called by p.
Up(p, s) ==
  /\ kpc[p] = "user"
  /\ value' = [value EXCEPT ![s] = @ + 1]
  /\ IF value[s] + 1 <= 0 /\ head[s] # NULL
       THEN /\ Unlink(s)
            /\ state' = [state EXCEPT ![proc_info[head[s]]] = "RUNNING"]
            /\ Kfree(head[s])
       ELSE UNCHANGED <<head, tail, next, proc_info, allocated, state>>
  /\ UNCHANGED kpc

Schedule(p) ==
  /\ kpc[p] = "schedule"
  /\ kpc' = [kpc EXCEPT ![p] = IF state[p] = "RUNNING" THEN "user" ELSE "off"]
  /\ UNCHANGED <<value, head, tail, next, proc_info, allocated, state>>

Resume(p) ==
  /\ kpc[p] = "off" /\ state[p] = "RUNNING"
  /\ kpc' = [kpc EXCEPT ![p] = "user"]
  /\ UNCHANGED <<value, head, tail, next, proc_info, allocated, state>>

Kernel(p) == Schedule(p) \/ Resume(p)

Next ==
  \/ \E p \in Proc, s \in Sem : Down(p, s)
  \/ \E p \in Proc, s \in Sem : value[s] < MaxValue /\ Up(p, s)
  \/ \E p \in Proc : Kernel(p)

Spec == Init /\ [][Next]_vars /\ \A p \in Proc : WF_vars(Kernel(p))

-----------------------------------------------------------------------------
\* The k-th node of the list of s, NULL past its end; a walk through memory
\* nobody owns stops there.
Walk(s) ==
  LET node[k \in 1..Cardinality(Node) + 1] ==
        IF k = 1 THEN head[s]
        ELSE IF node[k - 1] \in Node THEN next[node[k - 1]] ELSE NULL
  IN  node

\* The nodes of the list of s, in order.
Chain(s) ==
  [k \in 1..Cardinality({i \in DOMAIN Walk(s) : Walk(s)[i] \in Node}) |-> Walk(s)[k]]

NodesOf(s) == {Chain(s)[i] : i \in DOMAIN Chain(s)}

\* Memory is neither leaked nor used after it was freed: the lists hold each
\* node that is allocated, once, and no other.
ListsOwnTheMemory ==
  /\ UNION {NodesOf(s) : s \in Sem} = allocated
  /\ \A s, t \in Sem : s # t => NodesOf(s) \cap NodesOf(t) = {}

-----------------------------------------------------------------------------
\* Module Cs1550Sem sees the processes of the list, not its nodes.
Sems == INSTANCE Cs1550Sem WITH
  queue <- [s \in Sem |-> [i \in 1..Len(Chain(s)) |-> proc_info[Chain(s)[i]]]]

\* The pointers implement the queue: first come, first woken.
ImplementsQueue == Sems!Spec

=============================================================================
