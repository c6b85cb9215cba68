------------------------------- MODULE Vmsim -------------------------------
(***************************************************************************)
(* Project_3/vmsim.java and the switch of PRAlgorithm.run_alg(): main()    *)
(* checks the arguments and run_alg() runs the algorithm they name on the  *)
(* trace.  Each algorithm is a module of its own; the variables that the   *)
(* chosen one does not have are Null.  What main() refuses (no -n or -a,   *)
(* a refresh rate that is missing for nru or given to another) ends the    *)
(* program before a trace is read, so it shows only in that nothing else   *)
(* is run.                                                                 *)
(***************************************************************************)
EXTENDS Integers, FiniteSets

CONSTANTS
  Page,         \* the pages of the trace
  NumFrames,    \* num_frames
  RefreshRate,  \* refresh_rate, for nru
  MaxLines,     \* bound: the lines of the trace, for opt
  NoPage,       \* in the frames not loaded yet
  Null          \* in the slots and variables not used

ASSUME VmsimAssumption ==
  /\ NumFrames \in Nat \ {0}    \* with no frame clock and opt end in an exception
  /\ RefreshRate \in Nat \ {0}  \* nru divides by it
  /\ MaxLines \in Nat
  /\ NoPage \notin Page
  /\ Null \notin Page /\ Null \notin [page : Page, dirty : BOOLEAN]

VARIABLES
  algorithm,  \* alg_type
  phys_mem, page_to_entry, frames_loaded, said, written,  \* of most of them
  clock_hand,                                        \* clock
  frames, index,                                     \* fifo
  page_to_class, class, ticks,                       \* nru
  line, hot,                                         \* clock and nru
  trace, access_order, pass, mem_accesses, page_faults  \* opt

OnlyClock == clock_hand
OnlyFifo  == <<frames, index>>
OnlyNru   == <<page_to_class, class, ticks>>
OnlyOpt   == <<trace, access_order, pass, mem_accesses, page_faults>>
Lines     == <<line, hot>>

vars == <<algorithm, phys_mem, page_to_entry, frames_loaded, said, written,
          OnlyClock, OnlyFifo, OnlyNru, OnlyOpt, Lines>>

Clock == INSTANCE ClockPaging
Fifo  == INSTANCE FifoPaging
Nru   == INSTANCE NruPaging
Opt   == INSTANCE OptPaging

TypeOK ==
  CASE algorithm = "clock" -> Clock!TypeOK
    [] algorithm = "fifo"  -> Fifo!TypeOK
    [] algorithm = "nru"   -> Nru!TypeOK
    [] algorithm = "opt"   -> Opt!TypeOK

-----------------------------------------------------------------------------
NoClock == clock_hand = Null
NoFifo  == frames = Null /\ index = Null
NoNru   == page_to_class = Null /\ class = Null /\ ticks = Null
NoOpt   == /\ trace = Null /\ access_order = Null /\ pass = Null
           /\ mem_accesses = Null /\ page_faults = Null
NoLines == line = Null /\ hot = Null

Init ==
  \/ algorithm = "clock" /\ Clock!Init /\ NoFifo /\ NoNru /\ NoOpt
  \/ algorithm = "fifo"  /\ Fifo!Init  /\ NoClock /\ NoNru /\ NoOpt /\ NoLines
                         /\ phys_mem = Null /\ written = Null
  \/ algorithm = "nru"   /\ Nru!Init   /\ NoClock /\ NoFifo /\ NoOpt
  \/ algorithm = "opt"   /\ Opt!Init   /\ NoClock /\ NoFifo /\ NoNru /\ NoLines

RunClock ==
  /\ algorithm = "clock" /\ Clock!Next
  /\ UNCHANGED <<algorithm, OnlyFifo, OnlyNru, OnlyOpt>>

RunFifo ==
  /\ algorithm = "fifo" /\ Fifo!Next
  /\ UNCHANGED <<algorithm, phys_mem, written, OnlyClock, OnlyNru, OnlyOpt, Lines>>

RunNru ==
  /\ algorithm = "nru" /\ Nru!Next
  /\ UNCHANGED <<algorithm, OnlyClock, OnlyFifo, OnlyOpt>>

RunOpt ==
  /\ algorithm = "opt" /\ Opt!Next
  /\ UNCHANGED <<algorithm, OnlyClock, OnlyFifo, OnlyNru, Lines>>

Next == RunClock \/ RunFifo \/ RunNru \/ RunOpt

\* The program runs on by itself; the trace may end after any line.
Work ==
  \/ RunClock /\ line # Clock!NoLine
  \/ RunNru /\ line # Nru!NoLine

Spec == Init /\ [][Next]_vars /\ WF_vars(Work)

-----------------------------------------------------------------------------
\* clock: a page that was used since the last eviction is evicted only when the
\* hand found every frame referenced and went all the way round.
SecondChance == [][algorithm = "clock" => Clock!ASecondChance]_vars

\* Every line is dealt with.  clock: the loop "while (!found)" ends, also when
\* all frames were referenced.  nru: a page to evict is found whatever the class
\* lists hold; the last one is used without a look whether it is empty.
AccessEnds ==
  algorithm \in {"clock", "nru"} /\ line # Clock!NoLine ~> line = Clock!NoLine

Memory == INSTANCE SlidingWindow WITH
  Size    <- NumFrames,
  Element <- Page,
  window  <- IF algorithm = "fifo" THEN Fifo!InOrder ELSE << >>

\* fifo: "replace oldest with new, increment head ptr": the queue holds the pages
\* that were loaded last, in order, whatever the index is.
KeepsNewest == Memory!Spec

\* nru: the four lists, the map of pages to classes and the bits of the entries
\* say the same.
ClassesMatchBits == algorithm = "nru" => Nru!ClassesMatchBits

\* nru: "evict random frame from lowest non-empty class".
EvictsLeastWorth == [][algorithm = "nru" => Nru!LeastWorthGoes]_vars

\* opt: no choice of the pages to evict has fewer faults.
Optimal == algorithm = "opt" => Opt!Optimal

\* The algorithms whose map tells what is in the frames.  fifo's does not: it
\* keeps the pages that came first in the map when their slots are taken.
Honest == algorithm # "fifo"

Resident == IF Honest THEN {p \in Page : page_to_entry[p] # Clock!NoFrame} ELSE {}

Paging == INSTANCE DemandPaging WITH
  resident <- Resident,
  unsaved  <- IF Honest THEN written ELSE {},
  said     <- IF Honest THEN said ELSE "nothing"

\* clock, nru, opt: whatever they evict, they are demand paging; in particular
\* no page that the trace wrote since it was loaded is dropped without a write
\* to disk.  What was written is told from the accesses: the dirty bits that the
\* algorithms set on hits and loads and look at later must remember all of it.
KeepsPromise == Paging!Spec

=============================================================================
