----------------------------- MODULE FifoPaging -----------------------------
(***************************************************************************)
(* fifo() of Project_3/PRAlgorithm.java, which keeps the frames in the     *)
(* queue of module FixedLengthQueue.  A line of the trace file, any access *)
(* to any page, is one step.                                               *)
(*                                                                         *)
(* get_index(new PTE(p)) finds the entry that was queued just before: it   *)
(* is the only one whose valid bit is not set yet, so its slot is the one  *)
(* that offer() filled.  The valid and ref bits tell nothing else and are  *)
(* left out.                                                               *)
(***************************************************************************)
EXTENDS Integers, FiniteSets

CONSTANTS
  Page,       \* the pages of the trace
  NumFrames,  \* num_frames
  Null        \* in the slots of the queue not used yet

PTE == [page : Page, dirty : BOOLEAN]

NoFrame == -1

VARIABLES
  frames, index,  \* phys_flq
  page_to_entry,  \* the frame of each page; NoFrame: not in the map
  frames_loaded,
  said            \* the last line of output

vars == <<frames, index, page_to_entry, frames_loaded, said>>

phys_flq == INSTANCE FixedLengthQueue WITH Size <- NumFrames, Element <- PTE

Frame == phys_flq!Slot

TypeOK ==
  /\ phys_flq!TypeOK
  /\ page_to_entry \in [Page -> Frame \cup {NoFrame}]
  /\ frames_loaded \in 0..NumFrames
  /\ said \in {"nothing", "hit", "no eviction", "evict clean", "evict dirty"}

Init ==
  /\ phys_flq!Init
  /\ page_to_entry = [p \in Page |-> NoFrame]
  /\ frames_loaded = 0
  /\ said = "nothing"

-----------------------------------------------------------------------------
InMap(p) == page_to_entry[p] # NoFrame

\* The page is in the map: a write marks the frame that the map tells.
Hit(p, write) ==
  /\ InMap(p)
  /\ said' = "hit"
  /\ frames' = IF write THEN [frames EXCEPT ![page_to_entry[p]].dirty = TRUE]
                        ELSE frames
  /\ UNCHANGED <<index, page_to_entry, frames_loaded>>

\* The new page goes into the queue and into the map.
Enqueue(p, write, map) ==
  /\ phys_flq!Offer([page |-> p, dirty |-> write])
  /\ page_to_entry' = [map EXCEPT ![p] = index]

Load(p, write) ==
  /\ ~InMap(p) /\ frames_loaded < NumFrames
  /\ said' = "no eviction"
  /\ Enqueue(p, write, page_to_entry)
  /\ frames_loaded' = frames_loaded + 1

\* The page that peek() shows leaves the map.
Evict(p, write) ==
  /\ ~InMap(p) /\ frames_loaded = NumFrames
  /\ said' = IF phys_flq!Peek.dirty THEN "evict dirty" ELSE "evict clean"
  /\ Enqueue(p, write, [page_to_entry EXCEPT ![phys_flq!Peek.page] = NoFrame])
  /\ UNCHANGED frames_loaded

Next ==
  \E p \in Page, write \in BOOLEAN : Hit(p, write) \/ Load(p, write) \/ Evict(p, write)

Spec == Init /\ [][Next]_vars

-----------------------------------------------------------------------------
\* The pages in the queue, the one loaded first in front.
InOrder == [k \in DOMAIN phys_flq!InOrder |-> phys_flq!InOrder[k].page]

-----------------------------------------------------------------------------
(* What the comments of fifo() say, and the program does not do.           *)

\* A step that evicts.
Evicts == frames_loaded = NumFrames /\ said' \in {"evict clean", "evict dirty"}

\* "eviction time, evict oldest in queue": the page that leaves the map is the
\* one that was loaded first.
EvictsOldest == [][Evicts => page_to_entry'[frames[index].page] = NoFrame]_vars

=============================================================================
