--------------------------- MODULE NotifierChain ---------------------------
(***************************************************************************)
(* The notifier chains of Project_2/sys.c: a linked list of blocks, sorted *)
(* by priority, that writers change while callers walk along it.  The list *)
(* is the same in three kinds of chains that differ in what keeps writers  *)
(* and callers apart:                                                      *)
(*   atomic    writers take a spin lock, callers read under RCU            *)
(*   srcu      writers take a mutex, callers read under SRCU               *)
(*   blocking  writers and callers take a read-write semaphore             *)
(* The lock primitives and the grace periods are external.  A body under a *)
(* lock takes a step for each store a caller could see between.            *)
(***************************************************************************)
EXTENDS Integers, Sequences, FiniteSets, Functions, FiniteSetsExt

CONSTANTS
  Block,      \* the notifier blocks
  Priority,   \* their priorities
  Writer,     \* tasks that register and unregister blocks
  Caller,     \* tasks that call the chain
  Limit,      \* of each caller: the values of nr_to_call it gives, -1 for all
  Kind,       \* the kinds of chains
  NULL

ASSUME NotifierAssumption ==
  /\ IsFiniteSet(Block) /\ NULL \notin Block
  /\ Priority \in [Block -> Int]
  /\ Limit \in [Caller -> SUBSET (Nat \cup {-1})]
  /\ Kind \subseteq {"atomic", "srcu", "blocking"}

VARIABLES
  kind,          \* the kind of this chain
  system_state,
  head, next,    \* the list
  wpc, block,    \* of each writer: where it is, the block it works on
  grace,         \* of each writer: the callers its synchronize still waits for
  cpc,           \* of each caller: where it is in notifier_call_chain
  nb, next_nb, nr_to_call,
  called,        \* history: the blocks this call has called
  stay           \* history: the blocks in the list since this call began

list == <<head, next>>
writers == <<wpc, block, grace>>
callers == <<cpc, nb, next_nb, nr_to_call, called, stay>>
vars == <<kind, system_state, list, writers, callers>>

Size == Cardinality(Block)

TypeOK ==
  /\ kind \in Kind
  /\ system_state \in {"BOOTING", "RUNNING"}
  /\ head \in Block \cup {NULL} /\ next \in [Block -> Block \cup {NULL}]
  /\ wpc \in [Writer -> {"idle", "publish", "sync"}]
  /\ block \in [Writer -> Block \cup {NULL}]
  /\ grace \in [Writer -> SUBSET Caller]
  /\ cpc \in [Caller -> {"idle", "down_read", "loop", "call"}]
  /\ nb \in [Caller -> Block \cup {NULL}]
  /\ next_nb \in [Caller -> Block \cup {NULL}]
  /\ \A c \in Caller :
       /\ nr_to_call[c] \in -Size - 1..-1 \/ nr_to_call[c] \in Nat
       /\ called[c] \in Seq(Block) /\ Len(called[c]) <= Size
       /\ stay[c] \subseteq Block

Init ==
  /\ kind \in Kind
  /\ system_state = "BOOTING"
  /\ head = NULL /\ next = [n \in Block |-> NULL]
  /\ wpc = [w \in Writer |-> "idle"]
  /\ block = [w \in Writer |-> NULL]
  /\ grace = [w \in Writer |-> {}]
  /\ cpc = [c \in Caller |-> "idle"]
  /\ nb = [c \in Caller |-> NULL] /\ next_nb = [c \in Caller |-> NULL]
  /\ nr_to_call = [c \in Caller |-> 0]
  /\ called = [c \in Caller |-> <<>>] /\ stay = [c \in Caller |-> {}]

-----------------------------------------------------------------------------
(* The list.                                                               *)

\* The block after i steps along the list.
Walk[i \in Nat] ==
  IF i = 0 THEN head ELSE IF Walk[i - 1] = NULL THEN NULL ELSE next[Walk[i - 1]]

Listed == {Walk[i] : i \in 0..Size} \ {NULL}

\* Mutant: a new block goes before the blocks of its priority.
PlaceFirst(n) ==
  Min({i \in 0..Size : Walk[i] = NULL \/ Priority[n] >= Priority[Walk[i]]})

\* The place of a new block: before the first one of a lower priority.
Place(n) ==
  Min({i \in 0..Size : Walk[i] = NULL \/ Priority[n] > Priority[Walk[i]]})

\* *nl = b at place i, the other pointers being nexts.
Assign(i, b, nexts) ==
  IF i = 0 THEN head' = b /\ next' = nexts
           ELSE head' = head /\ next' = [nexts EXCEPT ![Walk[i - 1]] = b]

\* Mutant: the block that leaves points to itself, as in a circular list.
UnlinkInit(n) ==
  \E i \in 0..Size : Walk[i] = n /\ Assign(i, next[n], [next EXCEPT ![n] = n])

\* Mutant: the block that leaves forgets its successor.
UnlinkClear(n) ==
  \E i \in 0..Size : Walk[i] = n /\ Assign(i, next[n], [next EXCEPT ![n] = NULL])

\* The block leaves the list; its own pointer stays for those who are there.
Unlink(n) == \E i \in 0..Size : Walk[i] = n /\ Assign(i, next[n], next)

-----------------------------------------------------------------------------
(* The locks.                                                              *)

\* Callers that hold the semaphore or are in a read-side critical section.
Reading == {c \in Caller : cpc[c] \in {"loop", "call"}}

NoWriter == \A w \in Writer : wpc[w] # "publish"

\* Writers exclude each other; those of a blocking chain exclude callers too.
MayWrite == NoWriter /\ (kind = "blocking" => Reading = {})

\* Mutant: unregister does not wait for the callers.
NoOneIsThere == {}

\* The callers that synchronize_rcu and synchronize_srcu wait for: those that
\* are there when the block was unlinked, not those who come later.
WasThere == IF kind = "blocking" THEN {} ELSE Reading

\* A block that a writer is working on.
Busy(n) == \E w \in Writer : wpc[w] # "idle" /\ block[w] = n

\* The owner of the block may free it, or register it: no writer has it in hand,
\* and it is not in the list.
Unused(n) == n \notin Listed /\ ~Busy(n)

-----------------------------------------------------------------------------
(* Writers.  Blocks are not registered twice; that is up to their owners.  *)

\* While the system boots there is one task: it changes chains alone, under the spin
\* lock of an atomic one and without the lock of the others, which may sleep.
Booting == system_state = "BOOTING"

BootRegister(n) ==
  /\ Booting /\ Unused(n)
  /\ Assign(Place(n), n, [next EXCEPT ![n] = Walk[Place(n)]])
  /\ UNCHANGED <<kind, system_state, writers, callers>>

BootUnregister(n) ==
  /\ Booting /\ Unlink(n)
  /\ UNCHANGED <<kind, system_state, writers, callers>>

EndBoot ==
  /\ system_state = "BOOTING" /\ system_state' = "RUNNING"
  /\ UNCHANGED <<kind, list, writers, callers>>

\* The lock is taken, the place found, n->next set.
Register(w, n) ==
  /\ system_state = "RUNNING"
  /\ wpc[w] = "idle" /\ MayWrite /\ Unused(n)
  /\ next' = [next EXCEPT ![n] = Walk[Place(n)]]
  /\ wpc' = [wpc EXCEPT ![w] = "publish"]
  /\ block' = [block EXCEPT ![w] = n]
  /\ UNCHANGED <<kind, system_state, head, grace, callers>>

\* rcu_assign_pointer(*nl, n), and the lock is released.
Publish(w) ==
  LET n == block[w] IN
  /\ wpc[w] = "publish"
  /\ Assign(Place(n), n, next)
  /\ wpc' = [wpc EXCEPT ![w] = "idle"]
  /\ block' = [block EXCEPT ![w] = NULL]
  /\ UNCHANGED <<kind, system_state, grace, callers>>

\* A block that is not in the list is not found; the writer waits all the same.
Unregister(w, n) ==
  /\ system_state = "RUNNING"
  /\ wpc[w] = "idle" /\ MayWrite /\ ~Busy(n)
  /\ IF n \in Listed THEN Unlink(n) ELSE UNCHANGED list
  /\ stay' = [c \in Caller |-> stay[c] \ {n}]
  /\ IF kind = "blocking" THEN UNCHANGED writers
     ELSE /\ wpc' = [wpc EXCEPT ![w] = "sync"]
          /\ block' = [block EXCEPT ![w] = n]
          /\ grace' = [grace EXCEPT ![w] = WasThere]
  /\ UNCHANGED <<kind, system_state, cpc, nb, next_nb, nr_to_call, called>>

\* Mutant: unregister returns when there is no caller at all.
ReturnWhenNoneIsThere(w) ==
  /\ wpc[w] = "sync" /\ Reading = {}
  /\ wpc' = [wpc EXCEPT ![w] = "idle"]
  /\ block' = [block EXCEPT ![w] = NULL]
  /\ UNCHANGED <<kind, system_state, list, grace, callers>>

\* The grace period is over: unregister returns.
Return(w) ==
  /\ wpc[w] = "sync" /\ grace[w] = {}
  /\ wpc' = [wpc EXCEPT ![w] = "idle"]
  /\ block' = [block EXCEPT ![w] = NULL]
  /\ UNCHANGED <<kind, system_state, list, grace, callers>>

-----------------------------------------------------------------------------
(* Callers.                                                                *)

\* The lock is held, the first block read.
Enter(c, limit) ==
  /\ cpc' = [cpc EXCEPT ![c] = "loop"]
  /\ nb' = [nb EXCEPT ![c] = head]
  /\ nr_to_call' = [nr_to_call EXCEPT ![c] = limit]
  /\ stay' = [stay EXCEPT ![c] = Listed]
  /\ UNCHANGED <<kind, system_state, list, writers, next_nb, called>>

\* An atomic or srcu chain.
ReadLock(c, limit) ==
  /\ kind # "blocking" /\ system_state = "RUNNING"
  /\ cpc[c] = "idle"
  /\ Enter(c, limit)

\* A blocking chain: the head is looked at outside the lock.
CheckHead(c, limit) ==
  /\ kind = "blocking" /\ system_state = "RUNNING"
  /\ cpc[c] = "idle" /\ head # NULL
  /\ cpc' = [cpc EXCEPT ![c] = "down_read"]
  /\ nr_to_call' = [nr_to_call EXCEPT ![c] = limit]
  /\ UNCHANGED <<kind, system_state, list, writers, nb, next_nb, called, stay>>

DownRead(c) ==
  /\ cpc[c] = "down_read" /\ NoWriter
  /\ Enter(c, nr_to_call[c])

\* The lock is released, the call returns.
End(c) ==
  /\ cpc' = [cpc EXCEPT ![c] = "idle"]
  /\ nb' = [nb EXCEPT ![c] = NULL] /\ next_nb' = [next_nb EXCEPT ![c] = NULL]
  /\ nr_to_call' = [nr_to_call EXCEPT ![c] = 0]
  /\ called' = [called EXCEPT ![c] = <<>>] /\ stay' = [stay EXCEPT ![c] = {}]
  /\ grace' = [w \in Writer |-> grace[w] \ {c}]
  /\ UNCHANGED <<kind, system_state, list, wpc, block>>

\* The successor is read before the block is called.
Dereference(c) ==
  /\ cpc[c] = "loop" /\ nb[c] # NULL /\ nr_to_call[c] # 0
  /\ cpc' = [cpc EXCEPT ![c] = "call"]
  /\ next_nb' = [next_nb EXCEPT ![c] = next[nb[c]]]
  /\ UNCHANGED <<kind, system_state, list, writers, nb, nr_to_call, called, stay>>

\* nb->notifier_call returns without NOTIFY_STOP_MASK.
Notify(c) ==
  /\ cpc[c] = "call"
  /\ cpc' = [cpc EXCEPT ![c] = "loop"]
  /\ nb' = [nb EXCEPT ![c] = next_nb[c]]
  /\ nr_to_call' = [nr_to_call EXCEPT ![c] = @ - 1]
  /\ called' = [called EXCEPT ![c] = Append(@, nb[c])]
  /\ UNCHANGED <<kind, system_state, list, writers, next_nb, stay>>

\* It returns with NOTIFY_STOP_MASK.
NotifyStop(c) == cpc[c] = "call" /\ End(c)

Leave(c) ==
  /\ cpc[c] = "loop" /\ (nb[c] = NULL \/ nr_to_call[c] = 0)
  /\ End(c)

Walker(c) == DownRead(c) \/ Dereference(c) \/ Notify(c) \/ NotifyStop(c) \/ Leave(c)

Next ==
  \/ EndBoot
  \/ \E n \in Block : BootRegister(n) \/ BootUnregister(n)
  \/ \E w \in Writer, n \in Block : Register(w, n) \/ Unregister(w, n)
  \/ \E w \in Writer : Publish(w) \/ Return(w)
  \/ \E c \in Caller : \E limit \in Limit[c] : ReadLock(c, limit) \/ CheckHead(c, limit)
  \/ \E c \in Caller : Walker(c)

\* The notifiers return, and so does a call; nobody has to call or to register.
Spec ==
  /\ Init /\ [][Next]_vars
  /\ \A c \in Caller : WF_vars(Walker(c))
  /\ \A w \in Writer : WF_vars(Publish(w)) /\ WF_vars(Return(w))

-----------------------------------------------------------------------------
(* Properties.                                                             *)

Chain == INSTANCE PriorityChain WITH
  chain <- [i \in 1..Cardinality(Listed) |-> Walk[i - 1]]

\* A writer that stores the two pointers of a new block one after the other, and
\* one that unlinks a block, keep the list in order of priority and, among equal
\* priorities, in the order of registration.
KeepsOrder == Chain!Spec

\* When unregister has returned, the block may be freed: no caller of the chain
\* stands on it or is about to step on it, although callers hold no lock.
OldBlockUnseen ==
  \A c \in Reading : ~\E n \in {nb[c], next_nb[c]} \ {NULL} : Unused(n)

\* A call that came to the end of the list has called every block that was in the
\* list all the while, whatever was registered and unregistered under its feet,
\* and it calls blocks once each, higher priorities first.
CallsThoseWhoStay ==
  \A c \in Reading :
    /\ nb[c] = NULL => stay[c] \subseteq Range(called[c])
    /\ \A i, j \in DOMAIN called[c] :
         i < j => /\ called[c][i] # called[c][j]
                  /\ Priority[called[c][i]] >= Priority[called[c][j]]

\* Unregister returns, even if there is never a moment without a caller.
UnregisterReturns == \A w \in Writer : wpc[w] = "sync" ~> wpc[w] = "idle"

=============================================================================
