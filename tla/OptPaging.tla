----------------------------- MODULE OptPaging -----------------------------
(***************************************************************************)
(* optimal() of Project_3/PRAlgorithm.java.  The trace file is read twice: *)
(* the first time each line, any access to any page, is noted in           *)
(* access_order, the second time each line is an access.                   *)
(***************************************************************************)
EXTENDS Integers, Sequences, FiniteSets, FiniteSetsExt

CONSTANTS
  Page,       \* the pages of the trace
  NumFrames,  \* num_frames
  NoPage,     \* in the frames not loaded yet
  MaxLines    \* bound: the lines of the trace

Frame == 0..NumFrames - 1
NoFrame == -1

VARIABLES
  trace,          \* the trace file, as far as it was read the first time
  access_order,   \* for each page the lines that access it
  pass,           \* 1, 2: the first or the second reading
  mem_accesses,   \* the lines read the second time
  phys_mem,       \* the entry in each frame
  page_to_entry,  \* the frame of each page; NoFrame: not in the map
  frames_loaded,
  page_faults,
  said,           \* the last line of output
  written         \* history: the pages that the trace wrote since they were loaded

mem == <<phys_mem, page_to_entry, frames_loaded, page_faults, said, written>>
vars == <<trace, access_order, pass, mem_accesses, mem>>

PTE == [page : Page \cup {NoPage}, dirty : BOOLEAN]

TypeOK ==
  /\ trace \in Seq([page : Page, write : BOOLEAN])
  /\ access_order \in [Page -> Seq(Nat)]
  /\ pass \in {1, 2}
  /\ mem_accesses \in 0..Len(trace)
  /\ phys_mem \in [Frame -> PTE]
  /\ page_to_entry \in [Page -> Frame \cup {NoFrame}]
  /\ frames_loaded \in 0..NumFrames
  /\ page_faults \in 0..mem_accesses
  /\ said \in {"nothing", "hit", "no eviction", "evict clean", "evict dirty"}
  /\ written \in SUBSET Page

Init ==
  /\ trace = <<>>
  /\ access_order = [p \in Page |-> <<>>]
  /\ pass = 1
  /\ mem_accesses = 0
  /\ phys_mem = [f \in Frame |-> [page |-> NoPage, dirty |-> FALSE]]
  /\ page_to_entry = [p \in Page |-> NoFrame]
  /\ frames_loaded = 0
  /\ page_faults = 0
  /\ said = "nothing"
  /\ written = {}

-----------------------------------------------------------------------------
\* First reading: sequence, the number of the line, is noted for its page.
Note(p, write) ==
  /\ pass = 1 /\ Len(trace) < MaxLines
  /\ access_order' = [access_order EXCEPT ![p] = Append(@, Len(trace))]
  /\ trace' = Append(trace, [page |-> p, write |-> write])
  /\ UNCHANGED <<pass, mem_accesses, mem>>

\* The end of the file: it is opened again.
Reopen ==
  /\ pass = 1
  /\ pass' = 2
  /\ UNCHANGED <<trace, access_order, mem_accesses, mem>>

-----------------------------------------------------------------------------
Resident(p) == page_to_entry[p] # NoFrame

\* The line that is read the second time.
Line == trace[mem_accesses + 1]

\* The next line accesses page p: it leaves the list of the page.
ReadLine(p) ==
  /\ pass = 2 /\ mem_accesses < Len(trace) /\ p = Line.page
  /\ mem_accesses' = mem_accesses + 1
  /\ access_order' = [access_order EXCEPT ![p] = Tail(@)]
  /\ UNCHANGED <<trace, pass>>

\* The pages written after the line accesses page p.
Wrote(pages, p) == IF Line.write THEN pages \cup {p} ELSE pages

\* The page is in a frame.
Hit(p) ==
  /\ ReadLine(p)
  /\ Resident(p)
  /\ phys_mem' = [phys_mem EXCEPT ![page_to_entry[p]].dirty = @ \/ Line.write]
  /\ said' = "hit"
  /\ written' = Wrote(written, p)
  /\ UNCHANGED <<page_to_entry, frames_loaded, page_faults>>

\* The page of the line goes into frame f, with the map given.
Enter(p, f, map) ==
  /\ page_faults' = page_faults + 1
  /\ page_to_entry' = [map EXCEPT ![p] = f]
  /\ phys_mem' = [phys_mem EXCEPT ![f] = [page |-> p, dirty |-> Line.write]]

\* A fault, and a frame is empty.
Load(p) ==
  /\ ReadLine(p)
  /\ ~Resident(p) /\ frames_loaded < NumFrames
  /\ Enter(p, frames_loaded, page_to_entry)
  /\ frames_loaded' = frames_loaded + 1
  /\ said' = "no eviction"
  /\ written' = Wrote(written, p)

\* Nothing accesses the page in frame f any more.
Idle(f) == access_order[phys_mem[f].page] = <<>>

NextUse(f) == Head(access_order[phys_mem[f].page])

\* Mutant: a page that is not needed again counts as needed at once.
LaterIfNeeded(f, g) == ~Idle(f) /\ (Idle(g) \/ NextUse(f) > NextUse(g))

\* The page in frame f is needed later than that in frame g, or never.
Later(f, g) == Idle(f) \/ NextUse(f) > NextUse(g)

\* to_evict when the loop has looked at the frames 0..f; an idle page ended it.
Candidate[f \in Frame] ==
  LET to_evict == IF f = 0 THEN 0 ELSE Candidate[f - 1] IN
  IF (f > 0 /\ Idle(to_evict)) \/ ~Later(f, to_evict)
    THEN to_evict ELSE page_to_entry[phys_mem[f].page]

Unmap(f) == [page_to_entry EXCEPT ![phys_mem[f].page] = NoFrame]

\* A modified page is written to disk.
Verdict(f) == IF phys_mem[f].dirty THEN "evict dirty" ELSE "evict clean"

\* A fault, and no frame is empty.
Evict(p) ==
  LET f == Candidate[NumFrames - 1] IN
  /\ ReadLine(p)
  /\ ~Resident(p) /\ frames_loaded = NumFrames
  /\ said' = Verdict(f)
  /\ written' = Wrote(written \ {phys_mem[f].page}, p)
  /\ Enter(p, f, Unmap(f))
  /\ UNCHANGED frames_loaded

Next ==
  \/ \E p \in Page, write \in BOOLEAN : Note(p, write)
  \/ Reopen
  \/ \E p \in Page : Hit(p) \/ Load(p) \/ Evict(p)

Spec == Init /\ [][Next]_vars

-----------------------------------------------------------------------------
\* The fewest faults that the lines from line n on can have, whatever pages are
\* evicted, when the pages in memory are held.
FewestFaults[n \in 0..MaxLines] ==
  [held \in SUBSET Page |->
     IF n >= Len(trace) THEN 0
     ELSE LET p == trace[n + 1].page IN
          IF p \in held THEN FewestFaults[n + 1][held]
          ELSE 1 + (IF Cardinality(held) < NumFrames
                      THEN FewestFaults[n + 1][held \cup {p}]
                      ELSE Min({FewestFaults[n + 1][(held \ {q}) \cup {p}] : q \in held}))]

\* The algorithm is optimal: no choice of the pages to evict has fewer faults.
Optimal ==
  pass = 2 /\ mem_accesses = Len(trace) => page_faults = FewestFaults[0][{}]

=============================================================================
