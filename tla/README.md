# CS_1550: models, checks and proofs

The repository holds three independent course projects and, in one of them, a whole
file of the Linux kernel. This directory has TLA+ modules of their logic, TLC
configurations that check the modules on small instances, and proofs for TLAPS.
Paths below are relative to the repository.

## The system

**Project 1: graphics library and snake** (`Project_1/library.c`, `graphics.h`,
`snake.c`). The library maps the frame buffer of the console, puts the terminal
into a mode without line editing and echo, and offers `draw_pixel`, `draw_line`,
`clear_screen`, `blit` and `getkey`. The game draws each frame in an offscreen
buffer, copies it to the screen and waits for three characters of an arrow key.
*State:* the two buffers, the terminal settings, the place of the snake.
*Hard:* the arithmetic of the line, the wrap at the edges, what the user sees
while a frame is copied, a `getkey` that can return any byte.
*Correct means:* lines end where they should and stay close to the ideal line;
the snake goes where the arrows lead and never off the screen; the screen shows
whole frames when the game waits.

**Project 2: semaphores and traffic simulator** (`Project_2/sys.c` from line 2361,
`trafficsim.c`; two lines each of `syscall_table.S` and `unistd.h`). Two system
calls, `cs1550_down` and `cs1550_up`, implement a counting semaphore with a linked
list of waiting processes, under one spin lock for all semaphores. The simulator
forks two producers (cars from north and south) and a flagperson; they share two
circular buffers with their indices, two flags, and five semaphores.
*State:* value, list and nodes of each semaphore; the scheduler state of each
process; buffers, indices and flags.
*Hard:* the window between `spin_unlock` and `schedule()`; signals; the values and
flags the simulator reads with no lock; the wrap of indices that nothing ties to
the semaphores; fairness between the two sides.
*Correct means:* no wake-up is lost, units go to waiting processes in order of
arrival, nodes are neither leaked nor used after they were freed; one process at a
time is in the critical section, no car is lost, overwritten or starved.

**Project 2: the rest of `sys.c`**, Linux 2.6.23 as it came. Its parts have little to
do with each other:

- *Notifier chains* (110-640). A linked list of blocks sorted by priority; others
  register and unregister blocks and call the functions of all blocks. Callers of
  two kinds walk without locks while blocks are linked and unlinked under their
  feet. Correct means: blocks stay in order, a call misses no block that stays,
  and when unregister has returned nobody sees the block any more.
- *Process groups and sessions* (1440-1600). Each process has a group and a
  session, named by pids that are used again. Correct means: the processes of a
  group are in one session; a process enters a session only by beginning it.
- *Resource usage* (`sys_times` at 1397, `k_getrusage` at 2078). Adds up the counters of a process
  while its threads count on without a lock. Correct means what the comment at
  line 2053 says: old values or new ones, all of a child or nothing of it.
- *User and group ids* (1010-1395). Eight calls with rules of their own about which
  ids may be taken and which saved id stays; each stores ids one after the other
  while another CPU may look at the task, and clears `dumpable` first. Correct
  means: a task without capabilities never gets back an id it has given up; while it
  may be dumped it acts with no ids but those for which that was allowed.
- *Supplementary groups* (1622-1860). Tasks share sorted lists by reference; a new
  list gets its pages one by one and may fail at any of them. Correct means: no
  page is lost or freed under its users, and a search finds what was put in.
- *Priorities, limits, names, `prctl`, `getcpu`, reboot*: checks and single stores.

**Project 3: page replacement** (`Project_3/PRAlgorithm.java`, `PTE.java`,
`FixedLengthQueue.java`, `vmsim.java`). Reads a trace of memory accesses and
simulates one of four algorithms: `optimal`, `clock`, `fifo` (on a circular queue
class) and `nru`. Sequential; the difficulty is that each algorithm records the
same fact in several structures (frames, a map of pages to frames, class lists, a
map of pages to classes, ref and dirty bits) over long traces.
*Correct means:* the structures agree; the page evicted is the one the algorithm
says; a page that an access wrote is written to disk when it is evicted.

The projects do not interact. Within a project: `trafficsim.c` calls the
system calls (module `TrafficSim` instantiates `Cs1550Sem`), `fifo()` calls the
queue (`FifoPaging` instantiates `FixedLengthQueue`), `vmsim` runs one of the four
algorithms (`Vmsim` instantiates them), programs call the library (`Graphics`
composes `SnakeGame` and `LineDrawing`), and usage is counted where processes begin
and end (`Usage` extends `Processes`).

## Modules

| Module | Models | State and actions |
|---|---|---|
| `FifoSemaphore` | promise of the semaphores | free units, waiting processes, status; direct hand-over in order of arrival |
| `Cs1550Sem` | `sys_cs1550_down`, `sys_cs1550_up` | `value`, the list as a sequence, `task_struct.state`, the place of each process around `schedule()`. A body under the spin lock is one action; `Schedule` and `Resume` come after the unlock |
| `Cs1550SemList` | the same with nodes and pointers | `head`, `tail`, `next`, `proc_info`, the allocated nodes; refines `Cs1550Sem` |
| `CarLanes` | promise of the simulator | two bounded FIFO lanes; every car passes |
| `TrafficSim` | `trafficsim.c` over `Cs1550Sem` | a program counter for each process; each access to memory that is not protected is a step of its own |
| `DemandPaging` | promise of a replacement algorithm | resident and unsaved pages, the line of output |
| `ClockPaging` | `clock()` | frames, map, hand; the sweep takes a step for each frame |
| `SlidingWindow` | promise of the queue class | the newest elements in order |
| `FixedLengthQueue` | `FixedLengthQueue.java` | array and index; used by `FifoPaging` |
| `FifoPaging` | `fifo()` | queue and map |
| `NruPaging` | `nru()` | frames, map, four class lists as multisets, map of classes, time to the next refresh; the random choice is nondeterministic |
| `OptPaging` | `optimal()` | both readings of the trace; lists of future accesses, frames, map |
| `Vmsim` | `vmsim.java`, `run_alg()` | the variables of the four algorithms; those the chosen one does not have are `Null` |
| `PriorityChain` | promise of the notifier chains | the blocks in the order of their calls |
| `NotifierChain` | notifier chains | head and next pointers; a step for each store of a writer and each load of a caller; `grace`, the callers an unregistration waits for. The variable `kind` is the kind of chain |
| `Processes` | `setpgid`, `setsid` | `tgid`, `real_parent`, `pgrp`, `session`, `leader`, `did_exec` of each pid. A call holds `tasklist_lock` and is one action; fork, clone, exec, exit and the reuse of pids are external |
| `Usage` | `k_getrusage`, `sys_times` | counters of tasks, of ended threads and of reaped children; a sample reads one counter a step under the siglock, which the external steps respect |
| `Credentials` | `setuid` and its seven kin, `set_user`, two options of `prctl` | the eight ids, `dumpable`, the capabilities; a call is its checks, `set_user`, the clearing of the flag, and the stores of the other ids; each of these four is a step, the last one for all the stores. The task shares its memory with no thread |
| `Groups` | `setgroups`, sort, search, `in_group_p`, `in_egroup_p` | reference counts, lengths, pages; a call gets page after page, and may fail at each. Gids have a width, and `Cmp` wraps |
| `LineDrawing` | `draw_line` | the loop, a step for each turn |
| `SnakeGame` | `snake.c` and its library calls | buffers as sets of lit places, `blit` pixel by pixel |
| `Graphics` | programs with the library | the game, or lines from anywhere to anywhere |
| `...Proofs` | | theorems and proofs about the module they are named after; those of `Usage` are in `ProcessesProofs`, of `LineDrawing` and `SnakeGame` in `GraphicsProofs`, of `Groups` in `CredentialsProofs`, of the paging modules in `VmsimProofs` |
| `MC...` | | instances for TLC |

Some definitions have a neighbour whose comment begins with "Mutant:". It is the
definition with a plausible bug (a dropped guard, an off-by-one, a swapped order).
The module does not use it; a property that still holds when it takes the
definition's place would say nothing about the code.

Abstractions: printing, times and sleeps are left out (a sleep is a process that
takes no step for a while). A line of a trace is any page with any mode. Buffers
of the simulator hold numbers of cars, as in the code. The model of `trafficsim.c`
reads memory wherever the source does: it is of a build without optimisation,
since the shared integers are not `volatile`. Calls of the kernel that are refused
by their checks change nothing and are no steps. Of the capabilities a task has all
or none, as with the default security module. That module, like the locks and RCU
primitives of the notifier chains, is external. The stores of the ids at the end of
a call are one step: in between, another CPU sees ids of before and after, never
others, and the flag as it was left before the barrier. A `prctl` by another thread
with the same memory, which could set the flag in the middle of a call, is left out.

## Runs

| Run | Bounds | Shows |
|---|---|---|
| `semaphore` | 3 processes, 2 semaphores (1 and 0 units), values up to 2 | The calls implement `FifoSemaphore`; no wake-up is lost or early (`SleepsIffListed`), whatever happens between unlock and `schedule()`; who is woken returns (`WokenReturns`) |
| `semaphore_list` | 3 processes, 3 nodes, values up to 1 | The list implements the queue; memory is neither leaked nor used after `kfree` |
| `traffic` | buffers of 2 cars | Mutual exclusion, every slot counted, indices agree with semaphores, the flagperson never blocks on `full`; the program implements `CarLanes`, with every car passing; nobody waits for ever |
| `traffic_signals` | buffers of 2, signals | *Violated:* a signal lets a process that waits for `mutex` into the critical section |
| `vmsim` | 4 pages, 3 frames; nru: a refresh at every 3rd access; opt: traces of up to 7 reads and writes | clock: second chance. nru: lists, classes and bits agree, the page evicted is of least worth. fifo: the queue holds the newest pages. opt: as few faults as the best of all choices. clock, nru: every access ends. All but fifo implement `DemandPaging`: a page is written to disk when it is evicted if some access wrote it (`written`, a history the dirty bits are compared with) |
| `fifo_oldest` | 5 pages, 3 frames | *Violated:* "evict oldest in queue" |
| `graphics` | all pairs of points of a 6 by 6 square; a screen of 4 by 3 with any keys | Every pixel is between the ends of its line and nearest to it, and the last is its end; the snake follows the arrows, stays on the screen, and is not blank while a frame is copied, but for the first one and those after an arrow over the left or upper edge |
| `notifier_chain` | 3 blocks, 2 of one priority; 2 writers; 2 callers, one of which may call one block only; SRCU and blocking chains | Blocks stay in order (`KeepsOrder`); callers never stand on a block whose unregistration returned; they miss no block that stays; unregister returns under steady calls |
| `processes` | 4 pids with init's; where times are followed, 3 tasks at a time, 2 counters, 2 ticks | A group is in one session, leaders lead, sessions are entered by beginning them; a sample of times lies between the beginning and the end of the call, with all of a child or nothing of it |
| `credentials` | root and 2 users, 2 groups | At every step of every call `dumpable` vouches for the effective ids, and for those for files (they are as when it was set, or the effective ones); what is given up stays given up; the capabilities go with the last id of root |
| `groups` | 3 tasks, 5 lists of 0, 2 or 5 groups, of 4 bits; blocks of 2, 5 pages in all | Pages and references are accounted for; the search finds every group not too far from the others |
| `groups_overflow` | the same with 2 tasks and 4 lists | *Violated:* "in the supplemental group" |

Why the bounds are enough. Three processes on two semaphores have a list of two
beside a runner, and a process listed on each semaphore; the list code tells
apart an empty list, one node, and more. A buffer of two wraps its indices, is
full, half full and empty, and lets the two producers and the flagperson block on
everything they can; the theorems hold for every size.

Three frames and a page more than frames make every frame the first, middle and
last that a sweep, a scan or the queue's index sees; states are finite without a
bound on the length of the trace, but for `optimal`, which must have it in memory
(`MaxLines`). The constraint `NumberedByFirstUse` keeps the traces of `optimal`
whose pages are numbered in the order of their first use. It loses nothing: the
program does not look at the numbers, so any other trace is one of these with other
names, and the constraint holds on to the beginning of a trace as it grows.

Three blocks give a chain a first, a middle and a last one, ties and a higher
priority; with two callers there can always be one in the chain while the other
comes and goes. Atomic chains differ from SRCU chains only in their locks, which are
external (while the system boots, writers of the one take theirs and of the other do
not, and there is one task), so the run leaves that kind out. Calls of a chain during
the boot are alone and are not modelled.

Four pids are init, a parent, a child and a process that takes the pid of a group or
session that ended. Times and calls that move processes touch no common variable,
so `measured` lets a behaviour have one or the other and not their product;
`MaxTasks` and `MaxTime` bound the former. Two users beside root are enough for
three ids that all differ. Lists of five have a sort with strides of four and one;
two blocks and three; five pages are fewer than three tasks can want, and the
length 6 is refused (`NGROUPS_MAX` is 5). Of 4-bit gids, 0 and 9 are more than half
the range apart, as 0 and 2^31 + 1 are in the kernel. Pids other than init's,
counters, users other than root, groups, tasks and lists other than `init_groups`
may be exchanged (symmetry); those runs have no liveness.

`MaxValue`: no `up()` on a semaphore with that value.

Deadlock is checked where a program never stops. `semaphore` and `semaphore_list`
switch the check off because processes may wait for units that nobody gives;
`vmsim` and `graphics` because the programs end (`optimal` with its trace, the game
when its user quits).

Fairness. `Cs1550Sem`: a runnable process inside `down()` goes on
(`WF(Kernel(p))`); nothing is assumed of callers. `TrafficSim`: weak fairness for
each process, which is what the time-sharing scheduler gives to processes that
are runnable; a process blocked in `down()` takes no step. `Vmsim`: an access that
was begun goes on by itself (the sweep of clock, the access of nru after its line
was read); the trace may end. `NotifierChain`: a call that has begun goes on, its
notifiers return, and so does a writer that is in the middle of its work; nobody
has to begin, and locks need not be fair. The other modules state safety only.

## What disagrees with the comments

- `sys.c:2405-2407`: sleeping interruptibly without looking at why `schedule()`
  returned; run `traffic_signals`.
- `FixedLengthQueue.java:47` and `PRAlgorithm.java:428-448`: `peek()` shows the
  newest element, `offer()` overwrites the oldest, so FIFO takes the wrong page out
  of its map, and judges by the wrong dirty bit; run `fifo_oldest`. `fifo()`
  therefore does not implement `DemandPaging`; `vmsim` states what its queue does.
- `sys.c:1721` and `1745`: the sort compares two gids as they are, the search by the
  sign of an `int` that holds their difference. With gids 2^31 or more apart the
  search goes to the wrong half and `in_group_p` denies a group the task was given;
  run `groups_overflow`. `SearchFinds` says what holds for the others.

Also noted and not checked: a producer that read `*sleeping` may set `*blown` after
the flagperson cleared both flags (`trafficsim.c:107-110`, `172-173`), so the next
car that should does not blow its horn; `draw_pixel` accepts `x = xres_virtual` and
`y = yres_virtual` (`library.c:96`), which the snake's wrap never passes to it.

## Theorems

Each module of proofs has an inductive invariant, the lemma that one step keeps it
with a case for each action, and the theorems that follow from it.

`Cs1550SemProofs`, for any processes, semaphores and initial values. The inductive
invariant is the conjunction of the type invariant, `ListMatchesValue`,
`WaitsOnce`, `SleepsIffListed` and `UserRuns`. They need each other: that a woken
process is not still listed needs `WaitsOnce`; that one who calls `down` is not
listed already needs `SleepsIffListed` with `UserRuns`; that `up()` finds a node
whenever the value says so needs `ListMatchesValue`. Theorem `CallsKeepPromise`
maps every step to a step or a stutter of `FifoSemaphore` (safety).

`Cs1550SemListProofs`, for any number of nodes. The invariant says that there are
sequences of nodes, one for each semaphore, that the pointers lead along, that have
no node in common, and that hold just the allocated nodes (`Holds`). The walk
along the pointers is then such a sequence, `up()` frees the first node of it, and
each step on nodes is the step of the same call on the queue
(`PointersAreQueue`). So what is proved of `Cs1550Sem` holds of the pointers, down
to `FifoSemaphore` (`PointersKeepPromise`).

`TrafficSimProofs`, for every `BufferSize` of at least one. The invariant of the
semaphores is taken over by instantiating `Cs1550SemProofs`. To it are added: the
owner of `mutex` is one process and the unit of `mutex` is accounted for
(`OneOwner`), the flagperson in front of `down(full)` saw a unit nobody else takes
(`SawUnit`), `SlotsAccounted`, where a producer may wait (`ProducerWaits`),
the distance of the indices (`IndicesFollow`), and the slot in which a car stands
that is not counted any more or not yet (`CarInPlace`). From these follow mutual
exclusion, that the flagperson never blocks for cars, that indices and semaphores
agree, and that the buffers are the lanes of `CarLanes` (`LanesInOrder`: every step
adds a car at the end, takes the first, or changes neither lane).

`GraphicsProofs`, for every pair of points and every size of the screen. Of
`draw_line` the invariant says what the error is: with `i` steps along the longer
side and `j` along the shorter, `error = 2 * (short * i - long * j)`, and it is
within `long` of zero. When `i` is `long` the error is a multiple of `2 * long`,
hence zero, and `j` is `short`. Of the game it says that the buffer has the frame
(`FrameInBuf`), that the screen agrees with it on the pixels `blit` has copied
(`ScreenShowsBuffer`), and on the others with the frame before (`OldOrNew`); since
the end of one frame's line is the beginning of the next one's, some of the snake is
on the screen (`NeverBlank`). There are two exceptions: the first frame has none
before, and when an arrow leads over the left or the upper edge the snake is in the
last places of the screen, which are copied last, while the place it leaves is
cleared first. Lines keep to the rectangle of their ends (`InRectangle`).

`VmsimProofs`, for any pages, number of frames, refresh rate and length of trace,
about all four algorithms. clock, nru and optimal need `InAgreement`: each page of
the map is in its frame, each loaded frame has a page of the map, and there are as
many pages as loaded frames. Hence what is evicted is a page in memory and the only
one that goes. The clock needs `WaitsForEviction` (while the hand moves the page of
the line is not in memory and memory is full) and `HotIsRef`: when the hand has
made `k` steps, the last `k` frames are not referenced and all others that were in
use still are; so it can stop at one that was in use only after a whole round, when
none is referenced. nru needs `PagesMatch`, which is `ClassesMatchBits`, and
`HotPageIsRef`, that the ref bits tell what was accessed since the last refresh;
then the worth of a page is its class, and the lowest list that is not empty has
the pages of least worth. optimal needs `FutureIsKnown`: the list of a page holds
the places of its accesses that are still to come; the frame the loop ends with is
then one whose page is needed no sooner than any other (`CandidateIsFarthest`).
That this is optimal (`OptIsOptimal`) is an exchange argument on the table of the
fewest faults, from the last line of the trace backwards: to hold one page in the
place of another costs one fault more at most (`Near`), and nothing if it is the one
accessed sooner (`Better`). So after each line the faults so far and the fewest that
can come are together the fewest of the trace (`ServedBest`). Theorem
`AlgorithmsKeepPromise` maps every step of these three to a step or a stutter of
`DemandPaging`. For fifo the invariant says that the array is filled in the order
of its index (`FilledInOrder`), and `QueueKeepsNewest` that it is a sliding window
over the pages that were put in.

`ProcessesProofs`, for any number of pids. To `GroupsInOneSession` and
`SessionLeaderLeads` are added: a group that has the number of a living process
is in that process's session (`GroupOfNumber`), a process whose number a session
has is in that session (`SessionOfNumber`), and init stays in its own (`InitStays`).
Without them a process could make or begin what others already have under its
number. Of `Usage`, for any tasks and counters: what a sample has read together
with what it has still to read lies between what there was when it began and what
there is now (`OwnBetween`), and the children's counters are what was read, or
unread (`ChildrenSame`). A task that ends moves its time from the threads to
`signal_time`; the sample holds the siglock, so none ends while it is half read.

`CredentialsProofs`, for any users and groups. The properties are made inductive by
what the call under way may still store: if the task will act otherwise, it has cleared
`dumpable` before it comes to its stores (`ClearsFirst`; `ActsAlike` says when it
need not), it brings back no id that was given up (`CallHoldsOwn`), who has the
capabilities has given up nothing (`PrivilegedHasAll`), and without them `fsuid` is one of the other three ids before
and after a call (`FsuidIsHeld`). Of `Groups`, for any tasks, lists, lengths and
pages: a list is counted as often as it is referred to (`Counted`), the one a call
is making has the reference of that call only (`NewIsUnshared`), a list nobody is
making has as many pages as its length asks for (`PagesHeld`), and the pages sum up
(`NoPageLost`). The last needs `PagesHeld`: `groups_free` gives back what the length
says, not what was got, and is right only because no list is put before it is
complete. For the search (`GroupsAreFound`): the inner loop of the sort moves one
element down its stride (`SunkIsMoved`), so each pass keeps the members, and the one
with a stride of 1 puts each element into the sorted list before it; the last stride
is always 1 (`FirstStrideIs`). In a sorted list of groups less than half the range
away from the one looked for, `cmp` has the sign of the difference (`CmpSign`), and
the half the search goes to has what the window had (`InHalf`). `ListsInv` says that
every task's list is sorted and has the groups the task was given; it is inductive
with the counts: a list that somebody else has too is not freed.

`NotifierChainProofs`, for any blocks, priorities, writers and callers. The
pointers lead along a sorted sequence of blocks (`IsChain`), and the place a writer
has found is still the right one when it stores (`WriterInv`). A caller may stand on
a block that has left the list, whose pointer leads to another that has left since.
So each call has a road: the blocks that were in the list at some time since it
began and that no one may free yet. The pointers of all of them lead ahead along
the road and over no block that stays. A registration inserts into the road, an
unregistration takes nothing from it. From this follow `FreedBlocksUnseen` and
`StayersAreCalled`; `ChainInOrder` is the whole refinement of `PriorityChain`.

The assumptions are those of the modules: initial values are natural numbers, the
buffer has a slot, there is a frame and a refresh rate, the range of coordinates and
the screen are not empty, processes, nodes, blocks, tasks and lists are finite, half
the range of a gid is a number, markers such as `NoTask`, `NULL` or `SELF` are none
of the values they stand beside. TLC evaluates them.

Sums and counts (pages, references, times) are folds in the modules. The proofs
need of them only what one more element adds, or that a set is counted by a
bijection. Where an argument goes from one number to the next (the walk along a
list), it takes the least number for which it fails (`LeastNat`), as the library's
induction theorems have an operator for a parameter. The loops of sort and search
are functions that call themselves; that there are such functions is `FixedPoint`:
each value is made of values of less rank, where the rank is the number of turns
left.

Model-checked only: liveness, which with `ENABLED` is beyond the prover:
`WokenReturns`, `EveryoneGoesOn`, `AccessEnds`, `UnregisterReturns`, and the fair parts
of `KeepsLanes`, `ImplementsQueue` and `Cs1550Sem!KeepsPromise`.

## Not modelled

- `sys.c`: `setpriority` applies one check and one store to each task that matches;
  `setrlimit`, `sethostname`, most options of `prctl`, `getcpu` and `umask` set or
  read single fields after checks of their arguments; reboot, power off and
  ctrl-alt-del are a straight line of calls that ends with the machine. A model
  would restate them. Of the calls that only read (`getpgid`, `getsid`, `getuid`,
  `getgroups`, ...) there is nothing to say beyond the state they read.
- `kernel/fork.c`, `exit.c` and the security module are not in the repository; they
  are modelled as far as `sys.c` relies on them.
- Raw notifier chains, whose locking is up to their callers.
- Failure of `kmalloc`, `mmap`, `fork`, `open`; the death of a process that waits
  in `down()`.
- `unistd.h` is a table of numbers.
- The methods of `FixedLengthQueue` that throw or that nothing calls; statistics
  of Project 3: the counters count the lines of output, which the models have as
  `said`.
- `sleep_ms`, colours, and integer overflow in `draw_line` for coordinates far
  beyond a screen.

## Plan

1. Done: the semaphores and the simulator first, since they are concurrent; the
   paging algorithms, their promise and the program that runs them; Project 1; of
   `sys.c` the notifier chains, groups and sessions, usage, ids and supplementary
   groups.
2. Models to come: the exit of a process that waits in `down()`; `draw_pixel` for any
   caller, against its comment; `setrlimit` beside the scheduler's use of the limits.
3. Proofs: all safety properties the runs check are proved.
