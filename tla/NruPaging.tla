----------------------------- MODULE NruPaging -----------------------------
(***************************************************************************)
(* nru() of Project_3/PRAlgorithm.java.  A line of the trace file, any     *)
(* access to any page, takes two steps: it is counted, with a refresh of   *)
(* the ref bits when it is time, and then the access is made.              *)
(*                                                                         *)
(* A class list is the number of times it holds the entry of each page,    *)
(* since its order only serves to pick an entry at random.                 *)
(***************************************************************************)
EXTENDS Integers, FiniteSets

CONSTANTS
  Page,         \* the pages of the trace
  NumFrames,    \* num_frames
  RefreshRate,  \* refresh_rate
  NoPage        \* in the frames not loaded yet

Frame == 0..NumFrames - 1
NoFrame == -1
NoLine == [page |-> NoPage, write |-> FALSE]

\* 0: c_zero (not ref, not dirty), 1: c_one (not ref, dirty),
\* 2: c_two (ref, not dirty), 3: c_three (ref, dirty)
Class == 0..3
NoClass == -1

VARIABLES
  phys_mem,       \* the entry in each frame
  page_to_entry,  \* the frame of each page; NoFrame: not in the map
  page_to_class,  \* the class of each page; it stays when the page is evicted
  class,          \* the four lists
  frames_loaded,
  ticks,          \* mem_accesses % refresh_rate
  line,           \* the access that was counted and not made yet, or NoLine
  said,           \* the last line of output
  hot,            \* history: the pages accessed since the last refresh
  written         \* history: the pages that the trace wrote since they were loaded

mem == <<phys_mem, page_to_entry, frames_loaded>>
vars == <<mem, page_to_class, class, ticks, line, said, hot, written>>

PTE == [page : Page \cup {NoPage}, dirty : BOOLEAN, ref : BOOLEAN]

TypeOK ==
  /\ phys_mem \in [Frame -> PTE]
  /\ page_to_entry \in [Page -> Frame \cup {NoFrame}]
  /\ page_to_class \in [Page -> Class \cup {NoClass}]
  /\ class \in [Class -> [Page -> Nat]]
  /\ frames_loaded \in 0..NumFrames
  /\ ticks \in 0..RefreshRate - 1
  /\ line = NoLine \/ line \in [page : Page, write : BOOLEAN]
  /\ said \in {"nothing", "hit", "no eviction", "evict clean", "evict dirty"}
  /\ hot \in SUBSET Page
  /\ written \in SUBSET Page

Init ==
  /\ phys_mem = [f \in Frame |-> [page |-> NoPage, dirty |-> FALSE, ref |-> FALSE]]
  /\ page_to_entry = [p \in Page |-> NoFrame]
  /\ page_to_class = [p \in Page |-> NoClass]
  /\ class = [c \in Class |-> [p \in Page |-> 0]]
  /\ frames_loaded = 0
  /\ ticks = 0
  /\ line = NoLine
  /\ said = "nothing"
  /\ hot = {}
  /\ written = {}

-----------------------------------------------------------------------------
Resident(p) == page_to_entry[p] # NoFrame

In(p, c) == class[c][p] > 0

Without(lists, p, c) == [lists EXCEPT ![c][p] = IF @ > 0 THEN @ - 1 ELSE 0]
With(lists, p, c) == [lists EXCEPT ![c][p] = @ + 1]

\* Mutant: the map of pages to classes is not kept up.
RefreshLists ==
  /\ class' = [c \in Class |->
                 [p \in Page |-> IF c < 2 THEN class[c][p] + class[c + 2][p] ELSE 0]]
  /\ phys_mem' = [f \in Frame |->
                    IF \E p \in Page : phys_mem[f].page = p /\ (In(p, 2) \/ In(p, 3))
                      THEN [phys_mem[f] EXCEPT !.ref = FALSE] ELSE phys_mem[f]]
  /\ UNCHANGED page_to_class

\* All of c_three goes to c_one, all of c_two to c_zero, with the ref bits off.
Refresh ==
  /\ class' = [c \in Class |->
                 [p \in Page |-> IF c < 2 THEN class[c][p] + class[c + 2][p] ELSE 0]]
  /\ phys_mem' = [f \in Frame |->
                    IF \E p \in Page : phys_mem[f].page = p /\ (In(p, 2) \/ In(p, 3))
                      THEN [phys_mem[f] EXCEPT !.ref = FALSE] ELSE phys_mem[f]]
  /\ page_to_class' = [p \in Page |-> IF In(p, 2) THEN 0
                                      ELSE IF In(p, 3) THEN 1 ELSE page_to_class[p]]

\* The next line of the trace is counted.
ReadLine(p, write) ==
  /\ line = NoLine
  /\ line' = [page |-> p, write |-> write]
  /\ ticks' = (ticks + 1) % RefreshRate
  /\ IF ticks' = 0 THEN Refresh /\ hot' = {}
                   ELSE UNCHANGED <<phys_mem, class, page_to_class, hot>>
  /\ UNCHANGED <<page_to_entry, frames_loaded, said, written>>

-----------------------------------------------------------------------------
\* Every access ends like this.  The pages given are those written of the ones that stay.
Done(verdict, pages) ==
  /\ line' = NoLine
  /\ said' = verdict
  /\ hot' = hot \cup {line.page}
  /\ written' = IF line.write THEN pages \cup {line.page} ELSE pages
  /\ UNCHANGED ticks

\* The class, after a hit, of a page that was in class c.
HitClass(c) == IF line.write THEN 3 ELSE IF c < 2 THEN c + 2 ELSE c

Hit ==
  LET p == line.page
      f == page_to_entry[p]
      old == page_to_class[p]
      new == HitClass(old) IN
  /\ line # NoLine /\ Resident(p)
  /\ phys_mem' = [phys_mem EXCEPT ![f].dirty = @ \/ line.write, ![f].ref = TRUE]
  /\ class' = IF new # old THEN With(Without(class, p, old), p, new) ELSE class
  /\ page_to_class' = [page_to_class EXCEPT ![p] = new]
  /\ UNCHANGED <<page_to_entry, frames_loaded>>
  /\ Done("hit", written)

\* The page of the line goes into frame f, with the map given; its entry goes
\* into a list of the given ones.
Enter(f, map, lists) ==
  LET p == line.page
      c == IF line.write THEN 3 ELSE 2 IN
  /\ page_to_entry' = [map EXCEPT ![p] = f]
  /\ phys_mem' = [phys_mem EXCEPT ![f] = [page |-> p, dirty |-> line.write, ref |-> TRUE]]
  /\ class' = With(lists, p, c)
  /\ page_to_class' = [page_to_class EXCEPT ![p] = c]

\* A fault, and a frame is empty.
Load ==
  /\ line # NoLine /\ ~Resident(line.page) /\ frames_loaded < NumFrames
  /\ Enter(frames_loaded, page_to_entry, class)
  /\ frames_loaded' = frames_loaded + 1
  /\ Done("no eviction", written)

Empty(c) == \A p \in Page : ~In(p, c)

\* Mutant: a dirty page that was not referenced is spared for a clean one that was.
VictimClassCleanFirst(c) ==
  IF c = 3 THEN Empty(0) /\ Empty(2) /\ Empty(1)
           ELSE ~Empty(c) /\ (c = 1 => Empty(0) /\ Empty(2)) /\ (c = 2 => Empty(0))

\* The lowest class that is not empty; c_three is not looked at.
VictimClass(c) == (c = 3 \/ ~Empty(c)) /\ \A d \in 0..c - 1 : Empty(d)

\* A modified page is written to disk.
Verdict(f) == IF phys_mem[f].dirty THEN "evict dirty" ELSE "evict clean"

\* A fault, and no frame is empty.  p is the page chosen at random.
Evict(p, c) ==
  LET f == page_to_entry[p] IN
  /\ line # NoLine /\ ~Resident(line.page) /\ frames_loaded = NumFrames
  /\ VictimClass(c) /\ In(p, c)
  /\ Enter(f, [page_to_entry EXCEPT ![p] = NoFrame], Without(class, p, c))
  /\ UNCHANGED frames_loaded
  /\ Done(Verdict(f), written \ {p})

Access ==
  \/ Hit
  \/ Load
  \/ \E p \in Page, c \in Class : Evict(p, c)

Next ==
  \/ \E p \in Page, write \in BOOLEAN : ReadLine(p, write)
  \/ Access

\* A line that was read is dealt with; the trace may end.
Spec == Init /\ [][Next]_vars /\ WF_vars(Access)

-----------------------------------------------------------------------------
\* What the four lists, the map of pages to classes and the bits of the entries
\* say of a page is the same, over hits, refreshes and evictions: the page is in
\* one list, once, that of its bits; a page that is not in memory is in none.
\* The algorithm looks at the lists, at the map or at the bits as it needs.
ClassesMatchBits ==
  \A p \in Page :
    IF Resident(p)
      THEN LET e == phys_mem[page_to_entry[p]] IN
           /\ page_to_class[p] = (IF e.ref THEN 2 ELSE 0) + (IF e.dirty THEN 1 ELSE 0)
           /\ \A c \in Class : class[c][p] = IF c = page_to_class[p] THEN 1 ELSE 0
      ELSE \A c \in Class : class[c][p] = 0

\* How much a page in memory is worth keeping, told from the accesses and not
\* from the bits.
Worth(p) == (IF p \in hot THEN 2 ELSE 0) + (IF p \in written THEN 1 ELSE 0)

\* "evict random frame from lowest non-empty class": no page is evicted while
\* another is worth less, so a page accessed since the last refresh goes only
\* when all were.
LeastWorthGoes ==
  \A p \in Page : Resident(p) /\ ~Resident(p)' =>
    \A q \in Page : Resident(q) => Worth(p) <= Worth(q)

=============================================================================
