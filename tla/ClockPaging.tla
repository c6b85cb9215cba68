---------------------------- MODULE ClockPaging ----------------------------
(***************************************************************************)
(* clock() of Project_3/PRAlgorithm.java.  The lines of the trace file are *)
(* any accesses; a line that hits or finds an empty frame is one step, the *)
(* loop that looks for a page to evict takes a step for each frame the     *)
(* hand passes.                                                            *)
(***************************************************************************)
EXTENDS Integers, FiniteSets

CONSTANTS
  Page,       \* the pages of the trace
  NumFrames,  \* num_frames
  NoPage      \* in the frames not loaded yet

Frame == 0..NumFrames - 1
NoFrame == -1
NoLine == [page |-> NoPage, write |-> FALSE]

VARIABLES
  phys_mem,       \* the entry in each frame
  page_to_entry,  \* the frame of each page; NoFrame: not in the map
  frames_loaded,
  clock_hand,
  line,           \* the access for which the hand moves, or NoLine
  said,           \* the last line of output
  hot,            \* history: the frames accessed since the last eviction
  written         \* history: the pages that the trace wrote since they were loaded

vars == <<phys_mem, page_to_entry, frames_loaded, clock_hand, line, said, hot, written>>

PTE == [page : Page \cup {NoPage}, dirty : BOOLEAN, ref : BOOLEAN]

TypeOK ==
  /\ phys_mem \in [Frame -> PTE]
  /\ page_to_entry \in [Page -> Frame \cup {NoFrame}]
  /\ frames_loaded \in 0..NumFrames
  /\ clock_hand \in Frame
  /\ line = NoLine \/ line \in [page : Page, write : BOOLEAN]
  /\ said \in {"nothing", "hit", "no eviction", "evict clean", "evict dirty"}
  /\ hot \in SUBSET Frame
  /\ written \in SUBSET Page

Init ==
  /\ phys_mem = [f \in Frame |-> [page |-> NoPage, dirty |-> FALSE, ref |-> FALSE]]
  /\ page_to_entry = [p \in Page |-> NoFrame]
  /\ frames_loaded = 0
  /\ clock_hand = 0
  /\ line = NoLine
  /\ said = "nothing"
  /\ hot = {}
  /\ written = {}

-----------------------------------------------------------------------------
Resident(p) == page_to_entry[p] # NoFrame

\* The pages written after an access of page p, where write tells its kind.
Wrote(pages, p, write) == IF write THEN pages \cup {p} ELSE pages

\* Mutant: the ref bit is not set.
HitUnseen(p, write) ==
  /\ line = NoLine /\ Resident(p)
  /\ LET f == page_to_entry[p] IN
       /\ phys_mem' = [phys_mem EXCEPT ![f].dirty = @ \/ write]
       /\ hot' = hot \cup {f}
  /\ said' = "hit"
  /\ written' = Wrote(written, p, write)
  /\ UNCHANGED <<page_to_entry, frames_loaded, clock_hand, line>>

\* Mutant: the dirty bit is not set.
HitUnmarked(p, write) ==
  /\ line = NoLine /\ Resident(p)
  /\ LET f == page_to_entry[p] IN
       /\ phys_mem' = [phys_mem EXCEPT ![f].ref = TRUE]
       /\ hot' = hot \cup {f}
  /\ said' = "hit"
  /\ written' = Wrote(written, p, write)
  /\ UNCHANGED <<page_to_entry, frames_loaded, clock_hand, line>>

\* The page is in a frame.
Hit(p, write) ==
  /\ line = NoLine /\ Resident(p)
  /\ LET f == page_to_entry[p] IN
       /\ phys_mem' = [phys_mem EXCEPT ![f].dirty = @ \/ write, ![f].ref = TRUE]
       /\ hot' = hot \cup {f}
  /\ said' = "hit"
  /\ written' = Wrote(written, p, write)
  /\ UNCHANGED <<page_to_entry, frames_loaded, clock_hand, line>>

\* The entry of a page that was just loaded.
Entry(p, write) == [page |-> p, dirty |-> write, ref |-> TRUE]

\* A fault, and a frame is empty.
Load(p, write) ==
  /\ line = NoLine /\ ~Resident(p) /\ frames_loaded < NumFrames
  /\ page_to_entry' = [page_to_entry EXCEPT ![p] = frames_loaded]
  /\ phys_mem' = [phys_mem EXCEPT ![frames_loaded] = Entry(p, write)]
  /\ frames_loaded' = frames_loaded + 1
  /\ hot' = hot \cup {frames_loaded}
  /\ said' = "no eviction"
  /\ written' = Wrote(written, p, write)
  /\ UNCHANGED <<clock_hand, line>>

\* A fault, and no frame is empty: the hand begins to move.
Fault(p, write) ==
  /\ line = NoLine /\ ~Resident(p) /\ frames_loaded = NumFrames
  /\ line' = [page |-> p, write |-> write]
  /\ UNCHANGED <<phys_mem, page_to_entry, frames_loaded, clock_hand, said, hot, written>>

\* Mutant: the hand does not go round.
AdvanceFlat(hand) == hand + 1

Advance(hand) == (hand + 1) % NumFrames

\* Mutant: the ref bit stays.
PassByOnly ==
  /\ line # NoLine /\ phys_mem[clock_hand].ref
  /\ clock_hand' = Advance(clock_hand)
  /\ UNCHANGED <<phys_mem, page_to_entry, frames_loaded, line, said, hot, written>>

\* The frame at the hand was referenced: it gets another chance.
PassBy ==
  /\ line # NoLine /\ phys_mem[clock_hand].ref
  /\ phys_mem' = [phys_mem EXCEPT ![clock_hand].ref = FALSE]
  /\ clock_hand' = Advance(clock_hand)
  /\ UNCHANGED <<page_to_entry, frames_loaded, line, said, hot, written>>

Remap(old, new, f) == [page_to_entry EXCEPT ![old] = NoFrame, ![new] = f]

\* A modified page is written to disk.
Verdict(f) == IF phys_mem[f].dirty THEN "evict dirty" ELSE "evict clean"

\* It was not: its page makes place.
Evict ==
  /\ line # NoLine /\ ~phys_mem[clock_hand].ref
  /\ said' = Verdict(clock_hand)
  /\ page_to_entry' = Remap(phys_mem[clock_hand].page, line.page, clock_hand)
  /\ phys_mem' = [phys_mem EXCEPT ![clock_hand] = Entry(line.page, line.write)]
  /\ clock_hand' = Advance(clock_hand)
  /\ line' = NoLine
  /\ hot' = {clock_hand}
  /\ written' = Wrote(written \ {phys_mem[clock_hand].page}, line.page, line.write)
  /\ UNCHANGED frames_loaded

Sweep == PassBy \/ Evict

Next ==
  \/ \E p \in Page, write \in BOOLEAN : Hit(p, write) \/ Load(p, write) \/ Fault(p, write)
  \/ Sweep

\* The loop runs on by itself; the trace may end.
Spec == Init /\ [][Next]_vars /\ WF_vars(Sweep)

-----------------------------------------------------------------------------
\* A page that was used since the last eviction is evicted only when the hand
\* found every frame referenced and went all the way round.
ASecondChance ==
  line # NoLine /\ line' = NoLine /\ clock_hand \in hot
    => \A f \in Frame : ~phys_mem[f].ref

=============================================================================
