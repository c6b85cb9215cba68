---------------------------- MODULE VmsimProofs ----------------------------
(***************************************************************************)
(* Proofs about module Vmsim, for any pages, number of frames, refresh     *)
(* rate and trace.  What clock, nru and opt rest on is that the map of     *)
(* pages to frames and the pages in the frames agree (InAgreement): then   *)
(* what is evicted is a page in memory, and nothing else goes.  fifo's map *)
(* does not agree with its queue; its window rests on the order in which   *)
(* the slots are filled (FilledInOrder).  That opt is optimal rests on     *)
(* what it costs to hold one page in the place of another (Near, Better).  *)
(***************************************************************************)
EXTENDS Vmsim, FiniteSetTheorems, SequenceTheorems, NaturalsInduction, TLAPS

Frame == 0..NumFrames - 1

InMemory == {p \in Page : page_to_entry[p] # -1}

\* Each page of the map is in its frame, and each frame that was loaded has a
\* page of the map.
InAgreement ==
  /\ \A p \in InMemory : /\ page_to_entry[p] \in 0..frames_loaded - 1
                         /\ phys_mem[page_to_entry[p]].page = p
  /\ \A f \in 0..frames_loaded - 1 : /\ phys_mem[f].page \in Page
                                     /\ page_to_entry[phys_mem[f].page] = f
  /\ IsFiniteSet(InMemory)
  /\ Cardinality(InMemory) = frames_loaded

\* An access to a page that is not in memory waits only for an eviction.
WaitsForEviction ==
  line # Clock!NoLine => frames_loaded = NumFrames /\ line.page \notin InMemory

\* The frames that the hand passed in its last k steps.
PassedIn(k) ==
  {f \in Frame : IF f < clock_hand THEN clock_hand - f <= k
                                   ELSE clock_hand + NumFrames - f <= k}

\* When the hand began to move, all frames accessed since the last eviction were
\* referenced; those it passed are not any more.
HotIsRef ==
  IF line = Clock!NoLine
    THEN \A f \in hot : phys_mem[f].ref
    ELSE \E k \in 0..NumFrames : /\ \A f \in PassedIn(k) : ~phys_mem[f].ref
                                 /\ \A f \in hot \ PassedIn(k) : phys_mem[f].ref

\* Clock!TypeOK but for the output.
ClockTypes ==
  /\ phys_mem \in [Frame -> Clock!PTE]
  /\ page_to_entry \in [Page -> Frame \cup {-1}]
  /\ frames_loaded \in 0..NumFrames
  /\ clock_hand \in Frame
  /\ line = Clock!NoLine \/ line \in [page : Page, write : BOOLEAN]
  /\ hot \subseteq Frame

ClockInv == ClockTypes /\ InAgreement /\ WaitsForEviction /\ HotIsRef

\* A page in memory was accessed since the last refresh if its ref bit is set.
HotPageIsRef == \A p \in InMemory : p \in hot <=> phys_mem[page_to_entry[p]].ref

\* Nru!TypeOK but for the output.
NruTypes ==
  /\ phys_mem \in [Frame -> Nru!PTE]
  /\ page_to_entry \in [Page -> Frame \cup {-1}]
  /\ page_to_class \in [Page -> -1..3]
  /\ class \in [0..3 -> [Page -> Nat]]
  /\ frames_loaded \in 0..NumFrames
  /\ ticks \in 0..RefreshRate - 1
  /\ line = Nru!NoLine \/ line \in [page : Page, write : BOOLEAN]
  /\ hot \subseteq Page

\* The class that the bits of an entry tell.
Bits(e) == IF e.ref THEN IF e.dirty THEN 3 ELSE 2 ELSE IF e.dirty THEN 1 ELSE 0

\* Page p is once in list c and in no other; in none if c is no class.
OnlyIn(lists, p, c) == \A d \in 0..3 : lists[d][p] = IF d = c THEN 1 ELSE 0

\* What Nru!ClassesMatchBits says of page p.
PageMatches(p) ==
  IF p \in InMemory
    THEN /\ page_to_class[p] = Bits(phys_mem[page_to_entry[p]])
         /\ OnlyIn(class, p, page_to_class[p])
    ELSE OnlyIn(class, p, -1)

PagesMatch == \A p \in Page : PageMatches(p)

NruInv == NruTypes /\ InAgreement /\ PagesMatch /\ HotPageIsRef

FifoPTE == [page : Page, dirty : BOOLEAN]

\* Fifo!TypeOK but for the output.
FifoTypes ==
  /\ frames \in [Frame -> FifoPTE \cup {Null}]
  /\ index \in Frame
  /\ page_to_entry \in [Page -> Frame \cup {-1}]
  /\ frames_loaded \in 0..NumFrames

\* The slots of the queue are filled one after the other, and the map leads to such
\* as are filled.
FilledInOrder ==
  /\ \A f \in Frame : frames[f] # Null <=> f < frames_loaded
  /\ frames_loaded < NumFrames => index = frames_loaded
  /\ \A p \in InMemory : page_to_entry[p] < frames_loaded

FifoInv == FifoTypes /\ FilledInOrder

OptPTE == [page : Page \cup {NoPage}, dirty : BOOLEAN]

\* Opt!TypeOK but for the output.
OptTypes ==
  /\ trace \in Seq([page : Page, write : BOOLEAN])
  /\ access_order \in [Page -> Seq(Nat)]
  /\ pass \in {1, 2}
  /\ mem_accesses \in 0..Len(trace)
  /\ phys_mem \in [Frame -> OptPTE]
  /\ page_to_entry \in [Page -> Frame \cup {-1}]
  /\ frames_loaded \in 0..NumFrames
  /\ page_faults \in 0..mem_accesses

\* The numbers of the lines from n on of page p, in order.
AreUses(s, n, p) ==
  /\ \A i \in 1..Len(s) : s[i] \in n..Len(trace) - 1 /\ trace[s[i] + 1].page = p
  /\ \A i, j \in 1..Len(s) : i < j => s[i] < s[j]
  /\ \A m \in n..Len(trace) - 1 : trace[m + 1].page = p => \E i \in 1..Len(s) : s[i] = m

\* The lists of future accesses tell those lines that were not read again yet.
FutureIsKnown ==
  /\ pass = 1 => mem_accesses = 0
  /\ \A p \in Page : AreUses(access_order[p], mem_accesses, p)

OptInv == OptTypes /\ FutureIsKnown /\ InAgreement

\* The pages in memory that the dirty bits tell to be modified.
Unsaved == {p \in InMemory : phys_mem[page_to_entry[p]].dirty}

\* The dirty bits remember all that was written, and nothing else.
DirtyIsWritten == written = Unsaved

SaidTyped == said \in {"nothing", "hit", "no eviction", "evict clean", "evict dirty"}

IInv ==
  /\ algorithm \in {"clock", "fifo", "nru", "opt"}
  /\ algorithm = "clock" => ClockInv
  /\ algorithm = "fifo" => FifoInv
  /\ algorithm = "nru" => NruInv
  /\ algorithm = "opt" => OptInv
  /\ SaidTyped
  /\ Honest => DirtyIsWritten

-----------------------------------------------------------------------------
\* What an access does to the map and the frames.
Enters(p, f, map) ==
  /\ page_to_entry' = [map EXCEPT ![p] = f]
  /\ \E e : e.page = p /\ phys_mem' = [phys_mem EXCEPT ![f] = e]

MapTypes ==
  /\ frames_loaded \in 0..NumFrames
  /\ page_to_entry \in [Page -> Frame \cup {-1}]
  /\ DOMAIN phys_mem = Frame

\* A step that changes bits of the frames only.
LEMMA AgreementStays ==
  ASSUME InAgreement, UNCHANGED <<page_to_entry, frames_loaded>>,
         \A f \in 0..frames_loaded - 1 : phys_mem'[f].page = phys_mem[f].page
  PROVE  InAgreement' /\ InMemory' = InMemory
BY DEF InAgreement, InMemory

LEMMA AgreementAfterLoad ==
  ASSUME InAgreement, MapTypes, frames_loaded < NumFrames,
         NEW p \in Page, p \notin InMemory,
         Enters(p, frames_loaded, page_to_entry),
         frames_loaded' = frames_loaded + 1
  PROVE  InAgreement' /\ InMemory' = InMemory \cup {p}
<1>1. PICK e : e.page = p /\ phys_mem' = [phys_mem EXCEPT ![frames_loaded] = e]
  BY DEF Enters
<1>2. /\ frames_loaded \in Frame /\ frames_loaded \in Nat /\ frames_loaded # -1
      /\ page_to_entry' = [page_to_entry EXCEPT ![p] = frames_loaded]
  BY VmsimAssumption DEF MapTypes, Frame, Enters
<1>3. InMemory' = InMemory \cup {p}
  BY <1>2 DEF InMemory, MapTypes
<1>4. IsFiniteSet(InMemory') /\ Cardinality(InMemory') = frames_loaded'
  BY <1>3, FS_AddElement DEF InAgreement
<1>5. ASSUME NEW q \in InMemory'
      PROVE  /\ page_to_entry'[q] \in 0..frames_loaded' - 1
             /\ phys_mem'[page_to_entry'[q]].page = q
  <2>1. CASE q = p
    BY <1>1, <1>2, <2>1 DEF MapTypes
  <2>2. CASE q # p
    <3>1. /\ q \in InMemory /\ page_to_entry'[q] = page_to_entry[q]
      BY <1>2, <1>3, <2>2 DEF MapTypes, InMemory
    <3>2. /\ page_to_entry[q] \in 0..frames_loaded - 1
          /\ phys_mem[page_to_entry[q]].page = q
      BY <3>1 DEF InAgreement
    <3>3. phys_mem'[page_to_entry[q]] = phys_mem[page_to_entry[q]]
      BY <1>1, <1>2, <3>2 DEF MapTypes, Frame
    <3> QED
      BY <1>2, <3>1, <3>2, <3>3
  <2> QED
    BY <2>1, <2>2
<1>6. ASSUME NEW f \in 0..frames_loaded' - 1
      PROVE  phys_mem'[f].page \in Page /\ page_to_entry'[phys_mem'[f].page] = f
  <2>1. CASE f = frames_loaded
    BY <1>1, <1>2, <2>1 DEF MapTypes
  <2>2. CASE f # frames_loaded
    <3>1. f \in 0..frames_loaded - 1
      BY <1>2, <2>2
    <3>2. phys_mem[f].page \in Page /\ page_to_entry[phys_mem[f].page] = f
      BY <3>1 DEF InAgreement
    <3>3. phys_mem[f].page # p
      BY <1>2, <3>1, <3>2 DEF InMemory
    <3>4. phys_mem'[f] = phys_mem[f]
      BY <1>1, <1>2, <2>2, <3>1 DEF MapTypes, Frame
    <3> QED
      BY <1>2, <3>2, <3>3, <3>4 DEF MapTypes
  <2> QED
    BY <2>1, <2>2
<1> QED
  BY <1>3, <1>4, <1>5, <1>6 DEF InAgreement

\* Page v makes place for page p in its frame.
LEMMA AgreementAfterEviction ==
  ASSUME InAgreement, MapTypes, NEW p \in Page, p \notin InMemory, NEW v \in InMemory,
         Enters(p, page_to_entry[v], [page_to_entry EXCEPT ![v] = -1]),
         UNCHANGED frames_loaded
  PROVE  InAgreement' /\ InMemory' = (InMemory \ {v}) \cup {p}
<1> DEFINE f == page_to_entry[v]
<1>1. PICK e : e.page = p /\ phys_mem' = [phys_mem EXCEPT ![f] = e]
  BY DEF Enters
<1>2. /\ f \in 0..frames_loaded - 1 /\ f \in Frame /\ f # -1 /\ v \in Page /\ v # p
      /\ page_to_entry' = [[page_to_entry EXCEPT ![v] = -1] EXCEPT ![p] = f]
      /\ phys_mem[f].page = v
  BY VmsimAssumption DEF MapTypes, Frame, Enters, InAgreement, InMemory
<1>3. /\ page_to_entry'[p] = f /\ page_to_entry'[v] = -1
      /\ \A q \in Page \ {p, v} : page_to_entry'[q] = page_to_entry[q]
  BY <1>2 DEF MapTypes
<1>4. InMemory' = (InMemory \ {v}) \cup {p}
  BY <1>2, <1>3 DEF InMemory
<1>5. IsFiniteSet(InMemory') /\ Cardinality(InMemory') = frames_loaded'
  <2>1. /\ IsFiniteSet(InMemory \ {v})
        /\ Cardinality(InMemory \ {v}) = frames_loaded - 1
    BY FS_RemoveElement DEF InAgreement
  <2>2. /\ IsFiniteSet((InMemory \ {v}) \cup {p})
        /\ Cardinality((InMemory \ {v}) \cup {p}) = (frames_loaded - 1) + 1
    BY <2>1, FS_AddElement
  <2> QED
    BY <1>4, <2>2 DEF MapTypes
<1>6. ASSUME NEW q \in InMemory'
      PROVE  /\ page_to_entry'[q] \in 0..frames_loaded' - 1
             /\ phys_mem'[page_to_entry'[q]].page = q
  <2>1. CASE q = p
    BY <1>1, <1>2, <1>3, <2>1 DEF MapTypes
  <2>2. CASE q # p
    <3>1. q \in InMemory /\ q # v /\ page_to_entry'[q] = page_to_entry[q]
      BY <1>3, <1>4, <2>2 DEF InMemory
    <3>2. /\ page_to_entry[q] \in 0..frames_loaded - 1
          /\ phys_mem[page_to_entry[q]].page = q
      BY <3>1 DEF InAgreement
    <3>3. page_to_entry[q] # f
      BY <1>2, <3>1, <3>2
    <3>4. phys_mem'[page_to_entry[q]] = phys_mem[page_to_entry[q]]
      BY <1>1, <3>2, <3>3 DEF MapTypes, Frame
    <3> QED
      BY <3>1, <3>2, <3>4
  <2> QED
    BY <2>1, <2>2
<1>7. ASSUME NEW g \in 0..frames_loaded' - 1
      PROVE  phys_mem'[g].page \in Page /\ page_to_entry'[phys_mem'[g].page] = g
  <2>1. CASE g = f
    BY <1>1, <1>2, <1>3, <2>1 DEF MapTypes
  <2>2. CASE g # f
    <3>1. phys_mem[g].page \in Page /\ page_to_entry[phys_mem[g].page] = g /\ g # -1
      BY DEF InAgreement, MapTypes
    <3>2. phys_mem[g].page # p /\ phys_mem[g].page # v
      BY <2>2, <3>1 DEF InMemory
    <3>3. phys_mem'[g] = phys_mem[g]
      BY <1>1, <2>2 DEF MapTypes, Frame
    <3> QED
      BY <1>3, <3>1, <3>2, <3>3
  <2> QED
    BY <2>1, <2>2
<1> QED
  BY <1>4, <1>5, <1>6, <1>7 DEF InAgreement

-----------------------------------------------------------------------------
(* Steps of DemandPaging, with the pages in memory for the resident ones.  *)

Modified(pages, p, write) == IF write THEN pages \cup {p} ELSE pages

Hits(p, write) ==
  /\ p \in InMemory /\ InMemory' = InMemory
  /\ Unsaved' = Modified(Unsaved, p, write)
  /\ said' = "hit"

Loads(p, write) ==
  /\ p \notin InMemory /\ Cardinality(InMemory) < NumFrames
  /\ InMemory' = InMemory \cup {p}
  /\ Unsaved' = Modified(Unsaved, p, write)
  /\ said' = "no eviction"

Evicts(p, write, victim) ==
  /\ p \notin InMemory /\ Cardinality(InMemory) = NumFrames /\ victim \in InMemory
  /\ InMemory' = (InMemory \ {victim}) \cup {p}
  /\ Unsaved' = Modified(Unsaved \ {victim}, p, write)
  /\ said' = IF victim \in Unsaved THEN "evict dirty" ELSE "evict clean"

\* What is said of them.  (These are definitions for the sake of the SMT translation,
\* which does not take strings with a space.)
SaysLoaded == said' = "no eviction"
SaysEvicted(victim) ==
  said' = IF phys_mem[page_to_entry[victim]].dirty THEN "evict dirty" ELSE "evict clean"

Pages(p, write) == Hits(p, write) \/ Loads(p, write) \/ \E v \in InMemory : Evicts(p, write, v)

Rests == UNCHANGED <<InMemory, Unsaved, written, said>>

\* The history of what was written: the access of page p counts, and what it drives out
\* of memory does not count any more.
Writes(p, write) == written' = Modified(written \ (InMemory \ InMemory'), p, write)

\* What the algorithms do to the pages in memory, the dirty bits and the history.
Works == Rests \/ \E p \in Page, write \in BOOLEAN : Pages(p, write) /\ Writes(p, write)

LEMMA SameCardinality ==
  ASSUME NEW S
  PROVE  Paging!Cardinality(S) = Cardinality(S)
BY DEF Paging!Cardinality, Cardinality

LEMMA PagesIsPaging ==
  ASSUME Honest, algorithm' = algorithm, DirtyIsWritten, DirtyIsWritten', Works
  PROVE  [Paging!Next]_(Paging!vars)
<1>1. /\ Resident = InMemory /\ Resident' = InMemory'
      /\ Honest /\ Honest'
  BY DEF Resident, InMemory, Honest, Clock!NoFrame
<1>2. /\ (IF Honest THEN written ELSE {}) = Unsaved
      /\ (IF Honest THEN written ELSE {})' = Unsaved'
  BY <1>1 DEF DirtyIsWritten
<1>3. ASSUME NEW p \in Page, NEW write \in BOOLEAN, Hits(p, write)
      PROVE  Paging!Next
  <2>1. Paging!Hit(p, write)
    BY <1>1, <1>2, <1>3 DEF Hits, Paging!Hit, Paging!Modified, Modified
  <2> QED
    BY <2>1 DEF Paging!Next
<1>4. ASSUME NEW p \in Page, NEW write \in BOOLEAN, Loads(p, write)
      PROVE  Paging!Next
  <2>1. Paging!Load(p, write)
    BY <1>1, <1>2, <1>4, SameCardinality DEF Loads, Paging!Load, Paging!Modified, Modified
  <2> QED
    BY <2>1 DEF Paging!Next
<1>5. ASSUME NEW p \in Page, NEW write \in BOOLEAN, NEW v \in InMemory, Evicts(p, write, v)
      PROVE  Paging!Next
  <2>1. Paging!Evict(p, write, v)
    BY <1>1, <1>2, <1>5, SameCardinality DEF Evicts, Paging!Evict, Paging!Modified, Modified
  <2> QED
    BY <1>1, <2>1 DEF Paging!Next
<1>6. CASE Rests
  BY <1>1, <1>2, <1>6 DEF Rests, Paging!vars
<1> QED
  BY <1>3, <1>4, <1>5, <1>6 DEF Pages, Works

\* As the dirty bits change, so does what was written.
LEMMA DirtyStaysWritten ==
  ASSUME DirtyIsWritten, Works
  PROVE  DirtyIsWritten'
<1>1. CASE Rests
  BY <1>1 DEF Rests, DirtyIsWritten
<1>2. ASSUME NEW p \in Page, NEW write \in BOOLEAN, Pages(p, write), Writes(p, write)
      PROVE  DirtyIsWritten'
  <2>1. CASE Hits(p, write)
    <3>1. written \ (InMemory \ InMemory') = Unsaved
      BY <2>1 DEF Hits, DirtyIsWritten
    <3> QED
      BY <1>2, <2>1, <3>1 DEF Hits, Writes, DirtyIsWritten
  <2>2. CASE Loads(p, write)
    <3>1. written \ (InMemory \ InMemory') = Unsaved
      BY <2>2 DEF Loads, DirtyIsWritten
    <3> QED
      BY <1>2, <2>2, <3>1 DEF Loads, Writes, DirtyIsWritten
  <2>3. ASSUME NEW v \in InMemory, Evicts(p, write, v)
        PROVE  DirtyIsWritten'
    <3>1. InMemory \ InMemory' = {v}
      BY <2>3 DEF Evicts
    <3> QED
      BY <1>2, <2>3, <3>1 DEF Evicts, Writes, DirtyIsWritten
  <2> QED
    BY <1>2, <2>1, <2>2, <2>3 DEF Pages
<1> QED
  BY <1>1, <1>2 DEF Works

\* The history, where the algorithms keep it.
LEMMA WritesInMemory ==
  ASSUME NEW p, NEW write, InMemory \subseteq InMemory', written' = Modified(written, p, write)
  PROVE  Writes(p, write)
<1>1. written \ (InMemory \ InMemory') = written
  OBVIOUS
<1> QED
  BY <1>1 DEF Writes

LEMMA WritesWithoutVictim ==
  ASSUME NEW p, NEW write, NEW v \in InMemory, p \notin InMemory,
         InMemory' = (InMemory \ {v}) \cup {p}, written' = Modified(written \ {v}, p, write)
  PROVE  Writes(p, write)
<1>1. InMemory \ InMemory' = {v}
  OBVIOUS
<1> QED
  BY <1>1 DEF Writes

\* Distinct pages are in distinct frames.
LEMMA FramesDiffer ==
  ASSUME InAgreement, NEW p \in InMemory, NEW q \in InMemory, p # q
  PROVE  page_to_entry[p] # page_to_entry[q]
BY DEF InAgreement

LEMMA HitIsHit ==
  ASSUME InAgreement, MapTypes, NEW p \in InMemory, NEW write \in BOOLEAN,
         UNCHANGED <<page_to_entry, frames_loaded>>, said' = "hit",
         phys_mem'[page_to_entry[p]].dirty <=> phys_mem[page_to_entry[p]].dirty \/ write,
         \A f \in Frame : f # page_to_entry[p] => phys_mem'[f] = phys_mem[f]
  PROVE  Pages(p, write)
<1>1. InMemory' = InMemory
  BY DEF InMemory
<1>2. ASSUME NEW q \in InMemory
      PROVE  q \in Unsaved' <=> q \in Modified(Unsaved, p, write)
  <2>1. CASE q = p
    BY <1>1, <2>1 DEF Unsaved, Modified
  <2>2. CASE q # p
    <3>1. page_to_entry[q] \in Frame /\ page_to_entry[q] # page_to_entry[p]
      BY <2>2, FramesDiffer DEF InAgreement, MapTypes, Frame
    <3>2. phys_mem'[page_to_entry'[q]] = phys_mem[page_to_entry[q]]
      BY <3>1
    <3>3. q \in Unsaved' <=> q \in Unsaved
      BY <1>1, <3>2 DEF Unsaved
    <3> QED
      BY <2>2, <3>3 DEF Modified
  <2> QED
    BY <2>1, <2>2
<1>3. Unsaved' \subseteq InMemory /\ Modified(Unsaved, p, write) \subseteq InMemory
  BY <1>1 DEF Unsaved, Modified
<1>4. Unsaved' = Modified(Unsaved, p, write)
  BY <1>2, <1>3
<1> QED
  BY <1>1, <1>4 DEF Pages, Hits

LEMMA LoadIsLoad ==
  ASSUME InAgreement, MapTypes, frames_loaded < NumFrames,
         NEW p \in Page, p \notin InMemory, NEW write \in BOOLEAN,
         Enters(p, frames_loaded, page_to_entry),
         IF write THEN phys_mem'[frames_loaded].dirty ELSE ~phys_mem'[frames_loaded].dirty,
         frames_loaded' = frames_loaded + 1, SaysLoaded
  PROVE  Pages(p, write)
<1>1. InMemory' = InMemory \cup {p}
  BY AgreementAfterLoad
<1>2. PICK e : e.page = p /\ phys_mem' = [phys_mem EXCEPT ![frames_loaded] = e]
  BY DEF Enters
<1>3. frames_loaded \in Frame /\ page_to_entry' = [page_to_entry EXCEPT ![p] = frames_loaded]
  BY VmsimAssumption DEF MapTypes, Frame, Enters
<1>4. p \in Unsaved' <=> write
  BY <1>1, <1>2, <1>3 DEF Unsaved, MapTypes
<1>5. ASSUME NEW q \in InMemory
      PROVE  q \in Unsaved' <=> q \in Unsaved
  <2>1. q # p /\ page_to_entry[q] \in Frame /\ page_to_entry[q] # frames_loaded
    BY DEF InAgreement, MapTypes, Frame
  <2>2. page_to_entry'[q] = page_to_entry[q] /\ phys_mem'[page_to_entry[q]] = phys_mem[page_to_entry[q]]
    BY <1>2, <1>3, <2>1 DEF MapTypes, InMemory
  <2> QED
    BY <1>1, <2>2 DEF Unsaved
<1>6. Unsaved' = Modified(Unsaved, p, write)
  <2>1. Unsaved' \subseteq InMemory \cup {p} /\ Unsaved \subseteq InMemory
    BY <1>1 DEF Unsaved
  <2> QED
    BY <1>4, <1>5, <2>1 DEF Modified
<1> QED
  BY <1>1, <1>6 DEF Pages, Loads, InAgreement, SaysLoaded

LEMMA EvictionIsEviction ==
  ASSUME InAgreement, MapTypes, frames_loaded = NumFrames,
         NEW p \in Page, p \notin InMemory, NEW v \in InMemory, NEW write \in BOOLEAN,
         Enters(p, page_to_entry[v], [page_to_entry EXCEPT ![v] = -1]),
         IF write THEN phys_mem'[page_to_entry[v]].dirty ELSE ~phys_mem'[page_to_entry[v]].dirty,
         UNCHANGED frames_loaded, SaysEvicted(v)
  PROVE  Pages(p, write)
<1>1. InMemory' = (InMemory \ {v}) \cup {p}
  BY AgreementAfterEviction
<1>2. PICK e : e.page = p /\ phys_mem' = [phys_mem EXCEPT ![page_to_entry[v]] = e]
  BY DEF Enters
<1>3. /\ page_to_entry[v] \in Frame /\ v \in Page /\ v # p
      /\ page_to_entry' = [[page_to_entry EXCEPT ![v] = -1] EXCEPT ![p] = page_to_entry[v]]
  BY DEF MapTypes, Frame, Enters, InAgreement, InMemory
<1>4. p \in Unsaved' <=> write
  BY <1>1, <1>3 DEF Unsaved, MapTypes
<1>5. ASSUME NEW q \in InMemory \ {v}
      PROVE  q \in Unsaved' <=> q \in Unsaved
  <2>1. q # p /\ q \in Page /\ page_to_entry[q] \in Frame /\ page_to_entry[q] # page_to_entry[v]
    BY FramesDiffer DEF InAgreement, MapTypes, Frame, InMemory
  <2>2. page_to_entry'[q] = page_to_entry[q] /\ phys_mem'[page_to_entry[q]] = phys_mem[page_to_entry[q]]
    BY <1>2, <1>3, <2>1 DEF MapTypes
  <2> QED
    BY <1>1, <2>2 DEF Unsaved
<1>6. Unsaved' = Modified(Unsaved \ {v}, p, write)
  <2>1. Unsaved' \subseteq (InMemory \ {v}) \cup {p} /\ Unsaved \subseteq InMemory
    BY <1>1 DEF Unsaved
  <2> QED
    BY <1>4, <1>5, <2>1 DEF Modified
<1>7. said' = IF v \in Unsaved THEN "evict dirty" ELSE "evict clean"
  BY DEF Unsaved, SaysEvicted
<1>8. Evicts(p, write, v)
  BY <1>1, <1>6, <1>7 DEF Evicts, InAgreement
<1> QED
  BY <1>8 DEF Pages

-----------------------------------------------------------------------------
(* clock                                                                   *)

LEMMA ClockMapTypes ==
  ASSUME ClockTypes
  PROVE  MapTypes
BY DEF ClockTypes, MapTypes

LEMMA ClockHit ==
  ASSUME ClockInv, NEW p \in Page, NEW write \in BOOLEAN, Clock!Hit(p, write)
  PROVE  ClockInv' /\ Pages(p, write) /\ Writes(p, write)
<1> DEFINE f == page_to_entry[p]
<1>1. /\ line = Clock!NoLine /\ p \in InMemory
      /\ phys_mem' = [phys_mem EXCEPT ![f].dirty = @ \/ write, ![f].ref = TRUE]
      /\ hot' = hot \cup {f}
      /\ said' = "hit"
      /\ UNCHANGED <<page_to_entry, frames_loaded, clock_hand, line>>
  BY DEF Clock!Hit, Clock!Resident, Clock!NoFrame, InMemory
<1>2. f \in Frame /\ phys_mem[f] \in Clock!PTE /\ MapTypes
  BY <1>1, ClockMapTypes DEF ClockInv, ClockTypes, InMemory
<1>3. /\ phys_mem' \in [Frame -> Clock!PTE]
      /\ phys_mem'[f].page = phys_mem[f].page
      /\ phys_mem'[f].ref
      /\ phys_mem'[f].dirty <=> phys_mem[f].dirty \/ write
      /\ \A g \in Frame : g # f => phys_mem'[g] = phys_mem[g]
  BY <1>1, <1>2 DEF ClockInv, ClockTypes, Clock!PTE
<1>4. ClockTypes'
  <2>1. hot' \subseteq Frame
    BY <1>1, <1>2 DEF ClockInv, ClockTypes
  <2> QED
    BY <1>1, <1>3, <2>1 DEF ClockInv, ClockTypes
<1>5. \A g \in 0..frames_loaded - 1 : phys_mem'[g].page = phys_mem[g].page
  <2>1. 0..frames_loaded - 1 \subseteq Frame
    BY <1>2, VmsimAssumption DEF MapTypes, Frame
  <2> QED
    BY <1>3, <2>1
<1>6. InAgreement' /\ InMemory' = InMemory
  BY <1>1, <1>5, AgreementStays DEF ClockInv
<1>7. WaitsForEviction' /\ HotIsRef'
  BY <1>1, <1>2, <1>3 DEF ClockInv, ClockTypes, WaitsForEviction, HotIsRef, Clock!NoLine
<1>8. Pages(p, write)
  BY <1>1, <1>2, <1>3, HitIsHit DEF ClockInv
<1>9. Writes(p, write)
  <2>1. written' = Modified(written, p, write)
    BY DEF Clock!Hit, Clock!Wrote, Modified
  <2> QED
    BY <1>6, <2>1, WritesInMemory
<1> QED
  BY <1>4, <1>6, <1>7, <1>8, <1>9 DEF ClockInv

LEMMA ClockLoad ==
  ASSUME ClockInv, NEW p \in Page, NEW write \in BOOLEAN, Clock!Load(p, write)
  PROVE  ClockInv' /\ Pages(p, write) /\ Writes(p, write)
<1> DEFINE f == frames_loaded
<1>1. /\ line = Clock!NoLine /\ p \notin InMemory /\ frames_loaded < NumFrames
      /\ page_to_entry' = [page_to_entry EXCEPT ![p] = f]
      /\ phys_mem' = [phys_mem EXCEPT ![f] = Clock!Entry(p, write)]
      /\ frames_loaded' = frames_loaded + 1
      /\ hot' = hot \cup {f}
      /\ SaysLoaded
      /\ UNCHANGED <<clock_hand, line>>
  BY DEF Clock!Load, Clock!Resident, Clock!NoFrame, InMemory, SaysLoaded
<1>2. f \in Frame /\ MapTypes
  BY <1>1, ClockMapTypes, VmsimAssumption DEF ClockInv, ClockTypes, Frame
<1>3. Enters(p, f, page_to_entry)
  BY <1>1 DEF Enters, Clock!Entry
<1>4. /\ Clock!Entry(p, write) \in Clock!PTE
      /\ phys_mem'[f] = Clock!Entry(p, write)
      /\ \A g \in Frame : g # f => phys_mem'[g] = phys_mem[g]
  BY <1>1, <1>2 DEF ClockInv, ClockTypes, Clock!PTE, Clock!Entry
<1>5. phys_mem'[f].ref /\ IF write THEN phys_mem'[f].dirty ELSE ~phys_mem'[f].dirty
  BY <1>4 DEF Clock!Entry
<1>6. ClockTypes'
  <2>1. phys_mem' \in [Frame -> Clock!PTE]
    BY <1>1, <1>4 DEF ClockInv, ClockTypes
  <2>2. page_to_entry' \in [Page -> Frame \cup {-1}] /\ frames_loaded' \in 0..NumFrames
    BY <1>1, <1>2, VmsimAssumption DEF ClockInv, ClockTypes
  <2> QED
    BY <1>1, <1>2, <2>1, <2>2 DEF ClockInv, ClockTypes, Clock!NoLine
<1>7. InAgreement' /\ InMemory' = InMemory \cup {p}
  BY <1>1, <1>2, <1>3, AgreementAfterLoad DEF ClockInv
<1>8. WaitsForEviction' /\ HotIsRef'
  BY <1>1, <1>2, <1>4, <1>5 DEF ClockInv, ClockTypes, WaitsForEviction, HotIsRef, Clock!NoLine
<1>9. Pages(p, write)
  BY <1>1, <1>2, <1>3, <1>5, LoadIsLoad DEF ClockInv
<1>10. Writes(p, write)
  <2>1. written' = Modified(written, p, write)
    BY DEF Clock!Load, Clock!Wrote, Modified
  <2> QED
    BY <1>7, <2>1, WritesInMemory
<1> QED
  BY <1>6, <1>7, <1>8, <1>9, <1>10 DEF ClockInv

LEMMA ClockFault ==
  ASSUME ClockInv, NEW p \in Page, NEW write \in BOOLEAN, Clock!Fault(p, write)
  PROVE  ClockInv' /\ Rests
<1>1. /\ line = Clock!NoLine /\ p \notin InMemory /\ frames_loaded = NumFrames
      /\ line' = [page |-> p, write |-> write]
      /\ UNCHANGED <<phys_mem, page_to_entry, frames_loaded, clock_hand, said, hot, written>>
  BY DEF Clock!Fault, Clock!Resident, Clock!NoFrame, InMemory
<1>2. InMemory' = InMemory /\ Rests
  BY <1>1 DEF InMemory, Unsaved, Rests
<1>3. ClockTypes'
  BY <1>1 DEF ClockInv, ClockTypes
<1>4. InAgreement'
  BY <1>1, <1>2 DEF ClockInv, InAgreement
<1>5. WaitsForEviction'
  BY <1>1, <1>2 DEF WaitsForEviction
<1>6. HotIsRef'
  <2>1. line' # Clock!NoLine
    BY <1>1, VmsimAssumption DEF Clock!NoLine
  <2>2. PassedIn(0) = {} /\ PassedIn(0)' = {}
    BY <1>1, VmsimAssumption DEF PassedIn, ClockInv, ClockTypes, Frame
  <2>3. \A f \in hot : phys_mem[f].ref
    BY <1>1 DEF ClockInv, HotIsRef
  <2>4. /\ \A f \in PassedIn(0)' : ~phys_mem'[f].ref
        /\ \A f \in hot' \ PassedIn(0)' : phys_mem'[f].ref
    BY <1>1, <2>2, <2>3
  <2>5. 0 \in 0..NumFrames
    BY VmsimAssumption
  <2> QED
    BY <2>1, <2>4, <2>5 DEF HotIsRef, Clock!NoLine, PassedIn
<1> QED
  BY <1>2, <1>3, <1>4, <1>5, <1>6 DEF ClockInv

\* The frame at the hand, which was referenced, is passed.
LEMMA ClockPassBy ==
  ASSUME ClockInv, Clock!PassBy
  PROVE  ClockInv' /\ Rests
<1> DEFINE h == clock_hand
<1>1. /\ line # Clock!NoLine /\ phys_mem[h].ref
      /\ phys_mem' = [phys_mem EXCEPT ![h].ref = FALSE]
      /\ clock_hand' = Clock!Advance(h)
      /\ UNCHANGED <<page_to_entry, frames_loaded, line, said, hot, written>>
  BY DEF Clock!PassBy
<1>2. h \in Frame /\ phys_mem[h] \in Clock!PTE /\ MapTypes
  BY ClockMapTypes DEF ClockInv, ClockTypes
<1>3. clock_hand' = IF h = NumFrames - 1 THEN 0 ELSE h + 1
  BY <1>1, <1>2, VmsimAssumption DEF Clock!Advance, Frame
<1>4. /\ phys_mem' \in [Frame -> Clock!PTE]
      /\ ~phys_mem'[h].ref
      /\ \A g \in Frame : g # h => phys_mem'[g] = phys_mem[g]
  BY <1>1, <1>2 DEF ClockInv, ClockTypes, Clock!PTE
<1>5. \A g \in Frame : phys_mem'[g].page = phys_mem[g].page /\ phys_mem'[g].dirty = phys_mem[g].dirty
  BY <1>1, <1>2 DEF ClockInv, ClockTypes, Clock!PTE
<1>6. ClockTypes'
  <2>1. clock_hand' \in Frame
    BY <1>2, <1>3, VmsimAssumption DEF Frame
  <2> QED
    BY <1>1, <1>4, <2>1 DEF ClockInv, ClockTypes
<1>7. 0..frames_loaded - 1 \subseteq Frame
  BY <1>2, VmsimAssumption DEF MapTypes, Frame
<1>8. InAgreement' /\ InMemory' = InMemory
  BY <1>1, <1>5, <1>7, AgreementStays DEF ClockInv
<1>9. Rests
  <2>1. \A p \in InMemory : page_to_entry[p] \in Frame
    BY <1>7 DEF ClockInv, InAgreement
  <2>2. Unsaved' = Unsaved
    BY <1>1, <1>5, <1>8, <2>1 DEF Unsaved
  <2> QED
    BY <1>1, <1>8, <2>2 DEF Rests
<1>10. WaitsForEviction'
  BY <1>1, <1>8 DEF ClockInv, WaitsForEviction
<1>11. HotIsRef'
  <2>1. PICK k \in 0..NumFrames : /\ \A f \in PassedIn(k) : ~phys_mem[f].ref
                                  /\ \A f \in hot \ PassedIn(k) : phys_mem[f].ref
    BY <1>1 DEF ClockInv, HotIsRef
  <2>2. h \notin PassedIn(k)
    BY <1>1, <2>1
  <2>3. k + 1 \in 0..NumFrames
    BY <1>2, <2>2, VmsimAssumption DEF PassedIn, Frame
  <2>4. PassedIn(k + 1)' = PassedIn(k) \cup {h}
    BY <1>2, <1>3, <2>2, <2>3, VmsimAssumption DEF PassedIn, Frame
  <2>5. PassedIn(k) \subseteq Frame /\ hot \subseteq Frame
    BY DEF PassedIn, ClockInv, ClockTypes
  <2>6. /\ \A f \in PassedIn(k + 1)' : ~phys_mem'[f].ref
        /\ \A f \in hot' \ PassedIn(k + 1)' : phys_mem'[f].ref
    BY <1>1, <1>4, <2>1, <2>2, <2>4, <2>5
  <2>7. line' # Clock!NoLine
    BY <1>1
  <2> QED
    BY <2>3, <2>6, <2>7 DEF HotIsRef, PassedIn, Clock!NoLine
<1> QED
  BY <1>6, <1>8, <1>9, <1>10, <1>11 DEF ClockInv

\* When the hand stops at a frame that was in use it has gone all the way round.
LEMMA ClockWentRound ==
  ASSUME ClockInv, Clock!Evict, clock_hand \in hot
  PROVE  \A f \in Frame : ~phys_mem[f].ref
<1>1. line # Clock!NoLine /\ ~phys_mem[clock_hand].ref
  BY DEF Clock!Evict
<1>2. PICK k \in 0..NumFrames : /\ \A f \in PassedIn(k) : ~phys_mem[f].ref
                                /\ \A f \in hot \ PassedIn(k) : phys_mem[f].ref
  BY <1>1 DEF ClockInv, HotIsRef
<1>3. clock_hand \in PassedIn(k)
  BY <1>1, <1>2
<1>4. PassedIn(k) = Frame
  BY <1>3, VmsimAssumption DEF PassedIn, Frame, ClockInv, ClockTypes
<1> QED
  BY <1>2, <1>4

LEMMA ClockEvict ==
  ASSUME ClockInv, Clock!Evict
  PROVE  ClockInv' /\ Works
<1> DEFINE h == clock_hand
           p == line.page
           v == phys_mem[h].page
<1>1. /\ line # Clock!NoLine
      /\ SaysEvicted(v) \/ ~(page_to_entry[v] = h)
      /\ page_to_entry' = [page_to_entry EXCEPT ![v] = -1, ![p] = h]
      /\ phys_mem' = [phys_mem EXCEPT ![h] = Clock!Entry(p, line.write)]
      /\ clock_hand' = Clock!Advance(h)
      /\ line' = Clock!NoLine
      /\ hot' = {h}
      /\ UNCHANGED frames_loaded
  BY DEF Clock!Evict, Clock!Remap, Clock!NoFrame, Clock!Verdict, SaysEvicted
<1>2. h \in Frame /\ phys_mem[h] \in Clock!PTE /\ MapTypes
  BY ClockMapTypes DEF ClockInv, ClockTypes
<1>3. /\ p \in Page /\ line.write \in BOOLEAN
      /\ p \notin InMemory /\ frames_loaded = NumFrames
  BY <1>1 DEF ClockInv, ClockTypes, WaitsForEviction
<1>4. v \in InMemory /\ page_to_entry[v] = h
  <2>1. h \in 0..frames_loaded - 1 /\ h # -1
    BY <1>2, <1>3, VmsimAssumption DEF Frame
  <2> QED
    BY <2>1 DEF ClockInv, InAgreement, InMemory
<1>5. Enters(p, page_to_entry[v], [page_to_entry EXCEPT ![v] = -1])
  BY <1>1, <1>4 DEF Enters, Clock!Entry
<1>6. /\ Clock!Entry(p, line.write) \in Clock!PTE
      /\ phys_mem' \in [Frame -> Clock!PTE]
      /\ phys_mem'[h] = Clock!Entry(p, line.write)
  BY <1>1, <1>2, <1>3 DEF ClockInv, ClockTypes, Clock!PTE, Clock!Entry
<1>7. phys_mem'[h].ref /\ IF line.write THEN phys_mem'[h].dirty ELSE ~phys_mem'[h].dirty
  BY <1>6 DEF Clock!Entry
<1>8. ClockTypes'
  <2>1. clock_hand' \in Frame
    BY <1>1, <1>2, VmsimAssumption DEF Clock!Advance, Frame
  <2>2. page_to_entry' \in [Page -> Frame \cup {-1}]
    BY <1>1, <1>2 DEF ClockInv, ClockTypes
  <2>3. frames_loaded' \in 0..NumFrames /\ hot' \subseteq Frame
    BY <1>1, <1>2 DEF ClockInv, ClockTypes
  <2> QED
    BY <1>1, <1>6, <2>1, <2>2, <2>3 DEF ClockTypes, Clock!NoLine
<1>9. InAgreement' /\ InMemory' = (InMemory \ {v}) \cup {p}
  BY <1>1, <1>2, <1>3, <1>4, <1>5, AgreementAfterEviction DEF ClockInv
<1>10. WaitsForEviction' /\ HotIsRef'
  BY <1>1, <1>7 DEF WaitsForEviction, HotIsRef, Clock!NoLine
<1>11. Pages(p, line.write)
  BY <1>1, <1>2, <1>3, <1>4, <1>5, <1>7, EvictionIsEviction DEF ClockInv
<1>12. Writes(p, line.write)
  <2>1. written' = Modified(written \ {v}, p, line.write)
    BY DEF Clock!Evict, Clock!Wrote, Modified
  <2> QED
    BY <1>3, <1>4, <1>9, <2>1, WritesWithoutVictim
<1> QED
  BY <1>3, <1>8, <1>9, <1>10, <1>11, <1>12 DEF ClockInv, Works

-----------------------------------------------------------------------------
(* nru                                                                     *)

LEMMA BitsAreAClass ==
  ASSUME NEW e
  PROVE  /\ Bits(e) \in 0..3
         /\ Bits(e) = (IF e.ref THEN 2 ELSE 0) + (IF e.dirty THEN 1 ELSE 0)
         /\ e.ref <=> Bits(e) \in {2, 3}
         /\ e.dirty <=> Bits(e) \in {1, 3}
<1>1. CASE e.ref /\ e.dirty
  BY <1>1 DEF Bits
<1>2. CASE e.ref /\ ~e.dirty
  BY <1>2 DEF Bits
<1>3. CASE ~e.ref /\ e.dirty
  BY <1>3 DEF Bits
<1>4. CASE ~e.ref /\ ~e.dirty
  BY <1>4 DEF Bits
<1> QED
  BY <1>1, <1>2, <1>3, <1>4

LEMMA MatchesAreTheSame == PagesMatch <=> Nru!ClassesMatchBits
<1>1. ASSUME NEW p \in Page
      PROVE  p \in InMemory <=> Nru!Resident(p)
  BY DEF InMemory, Nru!Resident, Nru!NoFrame
<1>2. ASSUME NEW p \in Page, p \notin InMemory
      PROVE  OnlyIn(class, p, -1) <=> \A c \in Nru!Class : class[c][p] = 0
  BY DEF OnlyIn, Nru!Class
<1>3. ASSUME NEW p \in Page
      PROVE  OnlyIn(class, p, page_to_class[p])
               <=> \A c \in Nru!Class : class[c][p] = IF c = page_to_class[p] THEN 1 ELSE 0
  BY DEF OnlyIn, Nru!Class
<1> QED
  BY <1>1, <1>2, <1>3, BitsAreAClass DEF PagesMatch, PageMatches, Nru!ClassesMatchBits

LEMMA NruMapTypes ==
  ASSUME NruTypes
  PROVE  MapTypes
BY DEF NruTypes, MapTypes

\* The lists are changed for page p only.
OthersKeep(lists, new, p) ==
  /\ new \in [0..3 -> [Page -> Nat]]
  /\ \A q \in Page, d \in 0..3 : q # p => new[d][q] = lists[d][q]

LEMMA EnterList ==
  ASSUME NEW lists \in [0..3 -> [Page -> Nat]], NEW p \in Page, NEW c \in 0..3,
         OnlyIn(lists, p, -1)
  PROVE  OnlyIn(Nru!With(lists, p, c), p, c) /\ OthersKeep(lists, Nru!With(lists, p, c), p)
BY DEF OnlyIn, OthersKeep, Nru!With

LEMMA LeaveList ==
  ASSUME NEW lists \in [0..3 -> [Page -> Nat]], NEW p \in Page, NEW c \in 0..3,
         OnlyIn(lists, p, c)
  PROVE  OnlyIn(Nru!Without(lists, p, c), p, -1) /\ OthersKeep(lists, Nru!Without(lists, p, c), p)
BY DEF OnlyIn, OthersKeep, Nru!Without

\* A page in a list is in memory, in its class.
LEMMA ListedIsInMemory ==
  ASSUME NruInv, NEW p \in Page, NEW c \in 0..3, class[c][p] > 0
  PROVE  p \in InMemory /\ page_to_class[p] = c
<1>1. PageMatches(p)
  BY DEF NruInv, PagesMatch
<1>2. CASE p \in InMemory
  BY <1>1, <1>2 DEF PageMatches, OnlyIn
<1>3. CASE p \notin InMemory
  BY <1>1, <1>3 DEF PageMatches, OnlyIn
<1> QED
  BY <1>2, <1>3

LEMMA InMemoryIsListed ==
  ASSUME NruInv, NEW p \in InMemory
  PROVE  /\ p \in Page /\ page_to_entry[p] \in Frame
         /\ page_to_class[p] = Bits(phys_mem[page_to_entry[p]])
         /\ page_to_class[p] \in 0..3
         /\ class[page_to_class[p]][p] = 1
<1>1. p \in Page /\ PageMatches(p) /\ page_to_entry[p] \in Frame
  BY DEF NruInv, PagesMatch, InMemory, NruTypes
<1> QED
  BY <1>1, BitsAreAClass DEF PageMatches, OnlyIn

LEMMA NruHit ==
  ASSUME NruInv, Nru!Hit
  PROVE  NruInv' /\ Works
<1> DEFINE p == line.page
           f == page_to_entry[p]
           old == page_to_class[p]
           new == Nru!HitClass(old)
<1>1. /\ line # Nru!NoLine /\ Nru!Resident(p)
      /\ phys_mem' = [phys_mem EXCEPT ![f].dirty = @ \/ line.write, ![f].ref = TRUE]
      /\ class' = IF new # old THEN Nru!With(Nru!Without(class, p, old), p, new) ELSE class
      /\ page_to_class' = [page_to_class EXCEPT ![p] = new]
      /\ line' = Nru!NoLine
      /\ hot' = hot \cup {p}
      /\ said' = "hit"
      /\ UNCHANGED <<page_to_entry, frames_loaded, ticks>>
  BY DEF Nru!Hit, Nru!Done
<1>2. p \in Page /\ line.write \in BOOLEAN
  BY <1>1 DEF NruInv, NruTypes
<1>3. p \in InMemory
  BY <1>1, <1>2 DEF InMemory, Nru!Resident, Nru!NoFrame
<1>4. f \in Frame /\ phys_mem[f] \in Nru!PTE /\ MapTypes
  BY <1>3, NruMapTypes DEF NruInv, NruTypes, InMemory
<1>5. /\ phys_mem' \in [Frame -> Nru!PTE]
      /\ phys_mem'[f].page = phys_mem[f].page
      /\ phys_mem'[f].ref
      /\ phys_mem'[f].dirty <=> phys_mem[f].dirty \/ line.write
      /\ \A g \in Frame : g # f => phys_mem'[g] = phys_mem[g]
  BY <1>1, <1>2, <1>4 DEF NruInv, NruTypes, Nru!PTE
<1>6. InAgreement' /\ InMemory' = InMemory
  <2>1. 0..frames_loaded - 1 \subseteq Frame
    BY <1>4, VmsimAssumption DEF MapTypes, Frame
  <2>2. \A g \in 0..frames_loaded - 1 : phys_mem'[g].page = phys_mem[g].page
    BY <1>5, <2>1
  <2> QED
    BY <1>1, <2>2, AgreementStays DEF NruInv
<1>7. /\ old = Bits(phys_mem[f]) /\ old \in 0..3
      /\ OnlyIn(class, p, old)
  <2>1. PageMatches(p)
    BY <1>2 DEF NruInv, PagesMatch
  <2> QED
    BY <1>3, <2>1, BitsAreAClass DEF PageMatches
<1>8. new = Bits(phys_mem'[f])
  <2>1. CASE line.write
    BY <1>5, <2>1 DEF Nru!HitClass, Bits
  <2>2. CASE ~line.write
    <3>1. new = IF old < 2 THEN old + 2 ELSE old
      BY <2>2 DEF Nru!HitClass
    <3>2. phys_mem'[f].dirty <=> phys_mem[f].dirty
      BY <1>5, <2>2
    <3>3. CASE phys_mem[f].dirty
      <4>1. old \in {1, 3} /\ Bits(phys_mem'[f]) = 3
        BY <1>5, <1>7, <3>2, <3>3 DEF Bits
      <4> QED
        BY <3>1, <4>1
    <3>4. CASE ~phys_mem[f].dirty
      <4>1. old \in {0, 2} /\ Bits(phys_mem'[f]) = 2
        BY <1>5, <1>7, <3>2, <3>4 DEF Bits
      <4> QED
        BY <3>1, <4>1
    <3> QED
      BY <3>3, <3>4
  <2> QED
    BY <2>1, <2>2
<1>9. OnlyIn(class', p, new) /\ OthersKeep(class, class', p) /\ new \in 0..3
  <2>1. new \in 0..3 /\ class \in [0..3 -> [Page -> Nat]]
    BY <1>8, BitsAreAClass DEF NruInv, NruTypes
  <2>2. CASE new = old
    BY <1>1, <1>7, <2>1, <2>2 DEF OthersKeep
  <2>3. CASE new # old
    <3> DEFINE out == Nru!Without(class, p, old)
    <3>1. OnlyIn(out, p, -1) /\ OthersKeep(class, out, p)
      BY <1>2, <1>7, <2>1, LeaveList
    <3>2. OnlyIn(Nru!With(out, p, new), p, new) /\ OthersKeep(out, Nru!With(out, p, new), p)
      BY <1>2, <2>1, <3>1, EnterList DEF OthersKeep
    <3> QED
      BY <1>1, <2>1, <2>3, <3>1, <3>2 DEF OthersKeep
  <2> QED
    BY <2>2, <2>3
<1>10. NruTypes'
  <2>1. page_to_class' \in [Page -> -1..3]
    BY <1>1, <1>2, <1>9 DEF NruInv, NruTypes
  <2>2. hot' \subseteq Page /\ class' \in [0..3 -> [Page -> Nat]]
    BY <1>1, <1>2, <1>9 DEF NruInv, NruTypes, OthersKeep
  <2> QED
    BY <1>1, <1>5, <2>1, <2>2 DEF NruInv, NruTypes
<1>11. PagesMatch'
  <2> SUFFICES ASSUME NEW q \in Page
               PROVE  PageMatches(q)'
    BY DEF PagesMatch
  <2>1. CASE q = p
    <3>1. page_to_class'[p] = new
      BY <1>1, <1>2 DEF NruInv, NruTypes
    <3> QED
      BY <1>1, <1>3, <1>6, <1>8, <1>9, <2>1, <3>1 DEF PageMatches
  <2>2. CASE q # p
    <3>1. PageMatches(q)
      BY DEF NruInv, PagesMatch
    <3>2. page_to_class'[q] = page_to_class[q] /\ \A d \in 0..3 : class'[d][q] = class[d][q]
      BY <1>1, <1>9, <2>2 DEF NruInv, NruTypes, OthersKeep
    <3>3. q \in InMemory => phys_mem'[page_to_entry[q]] = phys_mem[page_to_entry[q]]
      <4>1. q \in InMemory => page_to_entry[q] \in Frame /\ page_to_entry[q] # f
        BY <1>3, <2>2, FramesDiffer, InMemoryIsListed DEF NruInv
      <4> QED
        BY <1>5, <4>1
    <3>4. CASE q \in InMemory
      BY <1>1, <1>6, <3>1, <3>2, <3>3, <3>4 DEF PageMatches, OnlyIn
    <3>5. CASE q \notin InMemory
      BY <1>6, <3>1, <3>2, <3>5 DEF PageMatches, OnlyIn
    <3> QED
      BY <3>4, <3>5
  <2> QED
    BY <2>1, <2>2
<1>12. HotPageIsRef'
  <2> SUFFICES ASSUME NEW q \in InMemory
               PROVE  q \in hot' <=> phys_mem'[page_to_entry[q]].ref
    BY <1>1, <1>6 DEF HotPageIsRef
  <2>1. CASE q = p
    BY <1>1, <1>5, <2>1
  <2>2. CASE q # p
    <3>1. phys_mem'[page_to_entry[q]] = phys_mem[page_to_entry[q]]
      BY <1>3, <1>5, <2>2, FramesDiffer, InMemoryIsListed DEF NruInv
    <3> QED
      BY <1>1, <2>2, <3>1 DEF NruInv, HotPageIsRef
  <2> QED
    BY <2>1, <2>2
<1>13. Pages(p, line.write)
  BY <1>1, <1>2, <1>3, <1>4, <1>5, HitIsHit DEF NruInv
<1>14. Writes(p, line.write)
  <2>1. written' = Modified(written, p, line.write)
    BY DEF Nru!Hit, Nru!Done, Modified
  <2> QED
    BY <1>6, <2>1, WritesInMemory
<1> QED
  BY <1>2, <1>6, <1>10, <1>11, <1>12, <1>13, <1>14 DEF NruInv, Works

LEMMA NruReadOn ==
  ASSUME NruInv, NEW p \in Page, NEW write \in BOOLEAN, Nru!ReadLine(p, write), ticks' # 0
  PROVE  NruInv' /\ Rests
<1>1. /\ line' = [page |-> p, write |-> write]
      /\ ticks' = (ticks + 1) % RefreshRate
      /\ UNCHANGED <<phys_mem, class, page_to_class, hot, page_to_entry, frames_loaded, said,
                     written>>
  BY DEF Nru!ReadLine
<1>2. InMemory' = InMemory /\ Rests
  BY <1>1 DEF InMemory, Unsaved, Rests
<1>3. NruTypes'
  <2>1. ticks' \in 0..RefreshRate - 1
    BY <1>1, VmsimAssumption DEF NruInv, NruTypes
  <2> QED
    BY <1>1, <2>1 DEF NruInv, NruTypes
<1>4. InAgreement' /\ HotPageIsRef'
  BY <1>1, <1>2 DEF NruInv, InAgreement, HotPageIsRef
<1>5. PagesMatch'
  BY <1>1, <1>2 DEF NruInv, PagesMatch, PageMatches, OnlyIn
<1> QED
  BY <1>2, <1>3, <1>4, <1>5 DEF NruInv

\* A refresh moves each page in memory to the class of its dirty bit.
LEMMA NruRefresh ==
  ASSUME NruInv, NEW p \in Page, NEW write \in BOOLEAN, Nru!ReadLine(p, write), ticks' = 0
  PROVE  NruInv' /\ Rests
<1>1. /\ line' = [page |-> p, write |-> write]
      /\ Nru!Refresh /\ hot' = {}
      /\ UNCHANGED <<page_to_entry, frames_loaded, said, written>>
  BY DEF Nru!ReadLine
<1>2. /\ class' \in [0..3 -> [Page -> Nat]]
      /\ \A q \in Page : /\ class'[0][q] = class[0][q] + class[2][q]
                         /\ class'[1][q] = class[1][q] + class[3][q]
                         /\ class'[2][q] = 0
                         /\ class'[3][q] = 0
  <2>1. class' = [c \in 0..3 |->
                    [q \in Page |-> IF c < 2 THEN class[c][q] + class[c + 2][q] ELSE 0]]
    BY <1>1 DEF Nru!Refresh, Nru!Class
  <2>2. class \in [0..3 -> [Page -> Nat]]
    BY DEF NruInv, NruTypes
  <2>3. \A c \in 0..1 : c + 2 \in 0..3
    OBVIOUS
  <2> QED
    BY <2>1, <2>2, <2>3
<1>3. \A q \in Page : page_to_class'[q] = IF class[2][q] > 0 THEN 0
                                          ELSE IF class[3][q] > 0 THEN 1 ELSE page_to_class[q]
  BY <1>1 DEF Nru!Refresh, Nru!In
<1>4. \A f \in Frame : /\ phys_mem'[f] \in Nru!PTE
                       /\ phys_mem'[f].page = phys_mem[f].page
                       /\ phys_mem'[f].dirty = phys_mem[f].dirty
  BY <1>1 DEF Nru!Refresh, NruInv, NruTypes, Nru!PTE, Frame, Nru!Frame
<1>5. \A q \in InMemory : class[2][q] > 0 \/ class[3][q] > 0 => ~phys_mem'[page_to_entry[q]].ref
  <2> SUFFICES ASSUME NEW q \in InMemory, class[2][q] > 0 \/ class[3][q] > 0
               PROVE  ~phys_mem'[page_to_entry[q]].ref
    OBVIOUS
  <2> DEFINE f == page_to_entry[q]
  <2>1. q \in Page /\ f \in Frame /\ phys_mem[f].page = q /\ phys_mem[f] \in Nru!PTE
    BY InMemoryIsListed DEF NruInv, InAgreement, NruTypes
  <2>2. Nru!In(q, 2) \/ Nru!In(q, 3)
    BY DEF Nru!In
  <2>3. phys_mem'[f] = [phys_mem[f] EXCEPT !.ref = FALSE]
    BY <1>1, <2>1, <2>2 DEF Nru!Refresh, Frame, Nru!Frame
  <2> QED
    BY <2>1, <2>3 DEF Nru!PTE
<1>6. \A q \in InMemory : class[2][q] = 0 /\ class[3][q] = 0
                            => phys_mem'[page_to_entry[q]] = phys_mem[page_to_entry[q]]
  <2> SUFFICES ASSUME NEW q \in InMemory, class[2][q] = 0 /\ class[3][q] = 0
               PROVE  phys_mem'[page_to_entry[q]] = phys_mem[page_to_entry[q]]
    OBVIOUS
  <2> DEFINE f == page_to_entry[q]
  <2>1. q \in Page /\ f \in Frame /\ phys_mem[f].page = q
    BY InMemoryIsListed DEF NruInv, InAgreement
  <2>2. ~Nru!In(q, 2) /\ ~Nru!In(q, 3)
    BY DEF Nru!In
  <2> QED
    BY <1>1, <2>1, <2>2 DEF Nru!Refresh, Frame, Nru!Frame
<1>7. InAgreement' /\ InMemory' = InMemory
  <2>1. 0..frames_loaded - 1 \subseteq Frame
    BY VmsimAssumption DEF NruInv, NruTypes, Frame
  <2> QED
    BY <1>1, <1>4, <2>1, AgreementStays DEF NruInv
<1>8. ASSUME NEW q \in InMemory
      PROVE  /\ q \in Page /\ page_to_entry[q] \in Frame
             /\ ~phys_mem'[page_to_entry[q]].ref
             /\ PageMatches(q)'
  <2> DEFINE f == page_to_entry[q]
             old == page_to_class[q]
  <2>1. q \in Page /\ f \in Frame /\ old = Bits(phys_mem[f]) /\ old \in 0..3 /\ OnlyIn(class, q, old)
    BY InMemoryIsListed DEF NruInv, PagesMatch, PageMatches
  <2>2. phys_mem'[f].dirty = phys_mem[f].dirty
    BY <1>4, <2>1
  <2>3. CASE old \in {2, 3}
    <3>1. class[2][q] > 0 \/ class[3][q] > 0
      BY <2>1, <2>3 DEF OnlyIn
    <3>2. ~phys_mem'[f].ref
      BY <1>5, <3>1
    <3>3. page_to_class'[q] = old - 2 /\ OnlyIn(class', q, old - 2)
      BY <1>2, <1>3, <2>1, <2>3 DEF OnlyIn
    <3>4. old - 2 = Bits(phys_mem'[f])
      BY <2>1, <2>2, <2>3, <3>2 DEF Bits
    <3> QED
      BY <1>1, <1>7, <2>1, <3>2, <3>3, <3>4 DEF PageMatches
  <2>4. CASE old \in {0, 1}
    <3>1. class[2][q] = 0 /\ class[3][q] = 0
      BY <2>1, <2>4 DEF OnlyIn
    <3>2. phys_mem'[f] = phys_mem[f] /\ ~phys_mem[f].ref
      <4>1. ~phys_mem[f].ref
        BY <2>1, <2>4 DEF Bits
      <4> QED
        BY <1>6, <3>1, <4>1
    <3>3. page_to_class'[q] = old /\ OnlyIn(class', q, old)
      BY <1>2, <1>3, <2>1, <2>4, <3>1 DEF OnlyIn
    <3> QED
      BY <1>1, <1>7, <2>1, <3>2, <3>3 DEF PageMatches
  <2> QED
    BY <2>1, <2>3, <2>4
<1>9. PagesMatch'
  <2> SUFFICES ASSUME NEW q \in Page, q \notin InMemory
               PROVE  PageMatches(q)'
    BY <1>8 DEF PagesMatch
  <2>1. OnlyIn(class, q, -1)
    BY DEF NruInv, PagesMatch, PageMatches
  <2>2. OnlyIn(class', q, -1)
    BY <1>2, <2>1 DEF OnlyIn
  <2> QED
    BY <1>7, <2>2 DEF PageMatches
<1>10. HotPageIsRef'
  BY <1>1, <1>7, <1>8 DEF HotPageIsRef
<1>11. NruTypes'
  <2>1. page_to_class' \in [Page -> -1..3]
    BY <1>1 DEF Nru!Refresh, NruInv, NruTypes
  <2>2. phys_mem' \in [Frame -> Nru!PTE]
    BY <1>1, <1>4 DEF Nru!Refresh, Frame, Nru!Frame
  <2>3. ticks' \in 0..RefreshRate - 1
    BY VmsimAssumption
  <2> QED
    BY <1>1, <1>2, <2>1, <2>2, <2>3 DEF NruInv, NruTypes
<1>12. Rests
  <2>1. Unsaved' = Unsaved
    BY <1>1, <1>4, <1>7, <1>8 DEF Unsaved
  <2> QED
    BY <1>1, <1>7, <2>1 DEF Rests
<1> QED
  BY <1>7, <1>9, <1>10, <1>11, <1>12 DEF NruInv

\* What Nru!Enter does to the entry and the lists of the page of the line.
LEMMA NruEntry ==
  ASSUME NruTypes, line # Nru!NoLine, NEW f \in Frame, NEW map,
         NEW lists \in [0..3 -> [Page -> Nat]], OnlyIn(lists, line.page, -1),
         Nru!Enter(f, map, lists)
  PROVE  /\ line.page \in Page /\ line.write \in BOOLEAN
         /\ Enters(line.page, f, map)
         /\ phys_mem' \in [Frame -> Nru!PTE]
         /\ phys_mem'[f].ref
         /\ IF line.write THEN phys_mem'[f].dirty ELSE ~phys_mem'[f].dirty
         /\ \A g \in Frame : g # f => phys_mem'[g] = phys_mem[g]
         /\ page_to_class' \in [Page -> -1..3]
         /\ page_to_class'[line.page] = Bits(phys_mem'[f])
         /\ \A q \in Page : q # line.page => page_to_class'[q] = page_to_class[q]
         /\ OnlyIn(class', line.page, page_to_class'[line.page])
         /\ OthersKeep(lists, class', line.page)
<1> DEFINE p == line.page
           c == IF line.write THEN 3 ELSE 2
           e == [page |-> p, dirty |-> line.write, ref |-> TRUE]
<1>1. /\ page_to_entry' = [map EXCEPT ![p] = f]
      /\ phys_mem' = [phys_mem EXCEPT ![f] = e]
      /\ class' = Nru!With(lists, p, c)
      /\ page_to_class' = [page_to_class EXCEPT ![p] = c]
  BY DEF Nru!Enter
<1>2. p \in Page /\ line.write \in BOOLEAN
  BY DEF NruTypes
<1>3. Enters(p, f, map)
  <2>1. e.page = p
    OBVIOUS
  <2> QED
    BY <1>1, <2>1 DEF Enters
<1>4. /\ e \in Nru!PTE
      /\ phys_mem' \in [Frame -> Nru!PTE]
      /\ phys_mem'[f] = e
      /\ \A g \in Frame : g # f => phys_mem'[g] = phys_mem[g]
  BY <1>1, <1>2 DEF NruTypes, Nru!PTE
<1>5. phys_mem'[f].ref /\ IF line.write THEN phys_mem'[f].dirty ELSE ~phys_mem'[f].dirty
  BY <1>4
<1>6. /\ page_to_class' \in [Page -> -1..3] /\ page_to_class'[p] = c
      /\ \A q \in Page : q # p => page_to_class'[q] = page_to_class[q]
  BY <1>1, <1>2 DEF NruTypes
<1>7. c = Bits(phys_mem'[f])
  BY <1>5 DEF Bits
<1>8. OnlyIn(class', p, c) /\ OthersKeep(lists, class', p)
  <2>1. c \in 0..3
    OBVIOUS
  <2> QED
    BY <1>1, <1>2, <2>1, EnterList
<1> QED
  BY <1>2, <1>3, <1>4, <1>5, <1>6, <1>7, <1>8

\* The other pages in memory stay as they are, in lists and in frames.
LEMMA NruEnters ==
  ASSUME NruInv, line # Nru!NoLine, NEW f \in Frame, NEW map,
         NEW lists \in [0..3 -> [Page -> Nat]], OnlyIn(lists, line.page, -1),
         Nru!Enter(f, map, lists), hot' = hot \cup {line.page},
         line.page \in InMemory', page_to_entry'[line.page] = f,
         \A q \in InMemory' : q # line.page =>
           /\ q \in InMemory /\ page_to_entry'[q] = page_to_entry[q] /\ page_to_entry[q] # f
           /\ OnlyIn(lists, q, page_to_class[q]),
         \A q \in Page : q # line.page /\ q \notin InMemory' => OnlyIn(lists, q, -1)
  PROVE  PagesMatch' /\ HotPageIsRef' /\ hot' \subseteq Page
<1> DEFINE p == line.page
<1>1. /\ p \in Page
      /\ phys_mem'[f].ref
      /\ \A g \in Frame : g # f => phys_mem'[g] = phys_mem[g]
      /\ page_to_class'[p] = Bits(phys_mem'[f])
      /\ \A q \in Page : q # p => page_to_class'[q] = page_to_class[q]
      /\ OnlyIn(class', p, page_to_class'[p])
      /\ OthersKeep(lists, class', p)
  BY NruEntry DEF NruInv
<1>2. ASSUME NEW q \in InMemory', q # p
      PROVE  /\ q \in InMemory /\ q \in Page
             /\ phys_mem'[page_to_entry'[q]] = phys_mem[page_to_entry[q]]
             /\ page_to_class'[q] = Bits(phys_mem[page_to_entry[q]])
             /\ OnlyIn(class', q, page_to_class'[q])
  <2>1. /\ q \in InMemory /\ q \in Page /\ page_to_entry[q] \in Frame
        /\ page_to_class[q] = Bits(phys_mem[page_to_entry[q]])
    BY <1>2, InMemoryIsListed
  <2>2. OnlyIn(class', q, page_to_class[q])
    BY <1>1, <1>2, <2>1 DEF OnlyIn, OthersKeep
  <2> QED
    BY <1>1, <1>2, <2>1, <2>2
<1>3. ASSUME NEW q \in Page
      PROVE  PageMatches(q)'
  <2>1. CASE q = p
    BY <1>1, <2>1 DEF PageMatches
  <2>2. CASE q # p /\ q \in InMemory'
    BY <1>2, <2>2 DEF PageMatches
  <2>3. CASE q # p /\ q \notin InMemory'
    <3>1. OnlyIn(class', q, -1)
      BY <1>1, <2>3 DEF OnlyIn, OthersKeep
    <3> QED
      BY <2>3, <3>1 DEF PageMatches
  <2> QED
    BY <2>1, <2>2, <2>3
<1>4. ASSUME NEW q \in InMemory'
      PROVE  q \in hot' <=> phys_mem'[page_to_entry'[q]].ref
  <2>1. CASE q = p
    BY <1>1, <2>1
  <2>2. CASE q # p
    BY <1>2, <2>2 DEF NruInv, HotPageIsRef
  <2> QED
    BY <2>1, <2>2
<1>5. hot' \subseteq Page
  BY <1>1 DEF NruInv, NruTypes
<1> QED
  BY <1>3, <1>4, <1>5 DEF PagesMatch, HotPageIsRef

LEMMA NruLoad ==
  ASSUME NruInv, Nru!Load
  PROVE  NruInv' /\ Works
<1> DEFINE p == line.page
           f == frames_loaded
<1>1. /\ line # Nru!NoLine /\ p \notin InMemory /\ frames_loaded < NumFrames
      /\ Nru!Enter(f, page_to_entry, class)
      /\ frames_loaded' = frames_loaded + 1
      /\ line' = Nru!NoLine
      /\ SaysLoaded
      /\ hot' = hot \cup {p}
      /\ UNCHANGED ticks
  BY DEF Nru!Load, Nru!Done, Nru!Resident, Nru!NoFrame, InMemory, SaysLoaded
<1>2. f \in Frame /\ MapTypes /\ class \in [0..3 -> [Page -> Nat]]
  <2>1. MapTypes /\ class \in [0..3 -> [Page -> Nat]]
    BY NruMapTypes DEF NruInv, NruTypes
  <2>2. f \in Frame
    BY <1>1, <2>1, VmsimAssumption DEF MapTypes, Frame
  <2> QED
    BY <2>1, <2>2
<1>3. p \in Page /\ OnlyIn(class, p, -1)
  BY <1>1 DEF NruInv, NruTypes, PagesMatch, PageMatches
<1>4. /\ line.write \in BOOLEAN
      /\ Enters(p, f, page_to_entry)
      /\ phys_mem' \in [Frame -> Nru!PTE]
      /\ IF line.write THEN phys_mem'[f].dirty ELSE ~phys_mem'[f].dirty
      /\ page_to_class' \in [Page -> -1..3]
      /\ OthersKeep(class, class', p)
  BY <1>1, <1>2, <1>3, NruEntry DEF NruInv
<1>5. InAgreement' /\ InMemory' = InMemory \cup {p}
  BY <1>1, <1>2, <1>3, <1>4, AgreementAfterLoad DEF NruInv
<1>6. page_to_entry' = [page_to_entry EXCEPT ![p] = f] /\ page_to_entry'[p] = f
  BY <1>2, <1>3, <1>4 DEF Enters, MapTypes
<1>7. ASSUME NEW q \in InMemory', q # p
      PROVE  /\ q \in InMemory /\ page_to_entry'[q] = page_to_entry[q] /\ page_to_entry[q] # f
             /\ OnlyIn(class, q, page_to_class[q])
  <2>1. q \in InMemory /\ q \in Page
    BY <1>5, <1>7 DEF InMemory
  <2>2. page_to_entry[q] # f
    BY <1>2, <2>1 DEF NruInv, InAgreement, MapTypes
  <2>3. OnlyIn(class, q, page_to_class[q])
    BY <2>1 DEF NruInv, PagesMatch, PageMatches
  <2> QED
    BY <1>2, <1>6, <1>7, <2>1, <2>2, <2>3 DEF MapTypes
<1>8. ASSUME NEW q \in Page, q # p, q \notin InMemory'
      PROVE  OnlyIn(class, q, -1)
  BY <1>5, <1>8 DEF NruInv, PagesMatch, PageMatches
<1>9. PagesMatch' /\ HotPageIsRef' /\ hot' \subseteq Page
  BY <1>1, <1>2, <1>3, <1>5, <1>6, <1>7, <1>8, NruEnters
<1>10. NruTypes'
  <2>1. page_to_entry' \in [Page -> Frame \cup {-1}] /\ frames_loaded' \in 0..NumFrames
    BY <1>1, <1>2, <1>6, VmsimAssumption DEF NruInv, NruTypes
  <2>2. class' \in [0..3 -> [Page -> Nat]]
    BY <1>4 DEF OthersKeep
  <2> QED
    BY <1>1, <1>4, <1>9, <2>1, <2>2 DEF NruInv, NruTypes
<1>11. Pages(p, line.write)
  BY <1>1, <1>2, <1>3, <1>4, LoadIsLoad DEF NruInv
<1>12. Writes(p, line.write)
  <2>1. written' = Modified(written, p, line.write)
    BY DEF Nru!Load, Nru!Done, Modified
  <2> QED
    BY <1>5, <2>1, WritesInMemory
<1> QED
  BY <1>3, <1>4, <1>5, <1>9, <1>10, <1>11, <1>12 DEF NruInv, Works

LEMMA NruEvict ==
  ASSUME NruInv, NEW v \in Page, NEW c \in 0..3, Nru!Evict(v, c)
  PROVE  /\ NruInv' /\ Works
         /\ v \in InMemory /\ page_to_class[v] = c
         /\ InMemory \ InMemory' = {v}
<1> DEFINE p == line.page
           f == page_to_entry[v]
           map == [page_to_entry EXCEPT ![v] = -1]
           lists == Nru!Without(class, v, c)
<1>1. /\ line # Nru!NoLine /\ p \notin InMemory /\ frames_loaded = NumFrames
      /\ class[c][v] > 0
      /\ Nru!Enter(f, map, lists)
      /\ line' = Nru!NoLine
      /\ SaysEvicted(v)
      /\ hot' = hot \cup {p}
      /\ UNCHANGED <<frames_loaded, ticks>>
  BY DEF Nru!Evict, Nru!Done, Nru!Resident, Nru!NoFrame, Nru!In, Nru!Verdict,
         InMemory, SaysEvicted
<1>2. v \in InMemory /\ page_to_class[v] = c
  BY <1>1, ListedIsInMemory
<1>3. f \in Frame /\ MapTypes /\ class \in [0..3 -> [Page -> Nat]]
  BY <1>2, NruMapTypes, InMemoryIsListed DEF NruInv, NruTypes
<1>4. p \in Page /\ OnlyIn(class, p, -1) /\ OnlyIn(class, v, c) /\ p # v
  BY <1>1, <1>2 DEF NruInv, NruTypes, PagesMatch, PageMatches
<1>5. OnlyIn(lists, v, -1) /\ OthersKeep(class, lists, v)
  BY <1>3, <1>4, LeaveList
<1>6. OnlyIn(lists, p, -1) /\ lists \in [0..3 -> [Page -> Nat]]
  BY <1>4, <1>5 DEF OnlyIn, OthersKeep
<1>7. /\ line.write \in BOOLEAN
      /\ Enters(p, f, map)
      /\ phys_mem' \in [Frame -> Nru!PTE]
      /\ IF line.write THEN phys_mem'[f].dirty ELSE ~phys_mem'[f].dirty
      /\ page_to_class' \in [Page -> -1..3]
      /\ OthersKeep(lists, class', p)
  BY <1>1, <1>3, <1>6, NruEntry DEF NruInv
<1>8. InAgreement' /\ InMemory' = (InMemory \ {v}) \cup {p}
  BY <1>1, <1>2, <1>3, <1>4, <1>7, AgreementAfterEviction DEF NruInv
<1>9. /\ page_to_entry' = [map EXCEPT ![p] = f] /\ page_to_entry'[p] = f
      /\ page_to_entry' \in [Page -> Frame \cup {-1}]
      /\ \A q \in Page : q # p /\ q # v => page_to_entry'[q] = page_to_entry[q]
  BY <1>3, <1>4, <1>7 DEF Enters, MapTypes
<1>10. ASSUME NEW q \in InMemory', q # p
       PROVE  /\ q \in InMemory /\ page_to_entry'[q] = page_to_entry[q] /\ page_to_entry[q] # f
              /\ OnlyIn(lists, q, page_to_class[q])
  <2>1. q \in InMemory /\ q # v /\ q \in Page
    BY <1>8, <1>10 DEF InMemory
  <2>2. page_to_entry[q] # f
    BY <1>2, <2>1, FramesDiffer DEF NruInv
  <2>3. OnlyIn(class, q, page_to_class[q])
    BY <2>1 DEF NruInv, PagesMatch, PageMatches
  <2>4. OnlyIn(lists, q, page_to_class[q])
    BY <1>5, <2>1, <2>3 DEF OnlyIn, OthersKeep
  <2> QED
    BY <1>9, <1>10, <2>1, <2>2, <2>4
<1>11. ASSUME NEW q \in Page, q # p, q \notin InMemory'
       PROVE  OnlyIn(lists, q, -1)
  <2>1. CASE q = v
    BY <1>5, <2>1
  <2>2. CASE q # v
    <3>1. OnlyIn(class, q, -1)
      BY <1>8, <1>11, <2>2 DEF NruInv, PagesMatch, PageMatches
    <3> QED
      BY <1>5, <2>2, <3>1 DEF OnlyIn, OthersKeep
  <2> QED
    BY <2>1, <2>2
<1>12. PagesMatch' /\ HotPageIsRef' /\ hot' \subseteq Page
  BY <1>1, <1>3, <1>6, <1>8, <1>9, <1>10, <1>11, NruEnters
<1>13. NruTypes'
  <2>1. class' \in [0..3 -> [Page -> Nat]]
    BY <1>7 DEF OthersKeep
  <2> QED
    BY <1>1, <1>7, <1>9, <1>12, <2>1 DEF NruInv, NruTypes
<1>14. Pages(p, line.write)
  BY <1>1, <1>2, <1>3, <1>4, <1>7, EvictionIsEviction DEF NruInv
<1>15. InMemory \ InMemory' = {v}
  BY <1>1, <1>2, <1>4, <1>8
<1>16. Writes(p, line.write)
  <2>1. written' = Modified(written \ {v}, p, line.write)
    BY DEF Nru!Evict, Nru!Done, Modified
  <2> QED
    BY <1>1, <1>2, <1>8, <2>1, WritesWithoutVictim
<1> QED
  BY <1>2, <1>4, <1>7, <1>8, <1>12, <1>13, <1>14, <1>15, <1>16 DEF NruInv, Works

-----------------------------------------------------------------------------
(* fifo                                                                    *)

LEMMA Wrap ==
  ASSUME NEW i \in Frame, NEW k \in Frame
  PROVE  (i + k) % NumFrames = IF i + k < NumFrames THEN i + k ELSE i + k - NumFrames
BY VmsimAssumption DEF Frame

\* The place of the k-th element of the queue.
Slot(k) == IF frames_loaded < NumFrames \/ index + k - 1 < NumFrames
             THEN IF frames_loaded < NumFrames THEN k - 1 ELSE index + k - 1
             ELSE index + k - 1 - NumFrames

LEMMA WindowIs ==
  ASSUME FifoInv
  PROVE  Fifo!InOrder = [k \in 1..frames_loaded |-> frames[Slot(k)].page]
<1>1. Fifo!phys_flq!Full <=> frames_loaded = NumFrames
  BY VmsimAssumption DEF Fifo!phys_flq!Full, Fifo!phys_flq!Slot, FifoInv, FifoTypes, FilledInOrder, Frame
<1>2. (IF Fifo!phys_flq!Full THEN NumFrames ELSE index) = frames_loaded
  <2>1. CASE frames_loaded = NumFrames
    BY <1>1, <2>1
  <2>2. CASE frames_loaded # NumFrames
    <3>1. frames_loaded < NumFrames
      BY <2>2, VmsimAssumption DEF FifoInv, FifoTypes
    <3> QED
      BY <1>1, <2>2, <3>1 DEF FifoInv, FilledInOrder
  <2> QED
    BY <2>1, <2>2
<1>3. Fifo!InOrder = [k \in DOMAIN Fifo!phys_flq!InOrder |-> Fifo!phys_flq!InOrder[k].page]
  BY DEF Fifo!InOrder
<1>4. Fifo!phys_flq!InOrder
        = [k \in 1..frames_loaded |-> frames[Fifo!phys_flq!Oldest(k - 1)]]
  BY <1>2 DEF Fifo!phys_flq!InOrder
<1>5. ASSUME NEW k \in 1..frames_loaded
      PROVE  Fifo!phys_flq!Oldest(k - 1) = Slot(k)
  <2>1. /\ k - 1 \in Frame /\ index \in Frame /\ index \in Int /\ k \in Int
        /\ NumFrames \in Int /\ frames_loaded \in 0..NumFrames
    BY VmsimAssumption DEF FifoInv, FifoTypes, Frame
  <2>2. (index + (k - 1)) % NumFrames
          = IF index + (k - 1) < NumFrames THEN index + (k - 1) ELSE index + (k - 1) - NumFrames
    BY <2>1, Wrap
  <2>3. CASE frames_loaded = NumFrames
    BY <1>1, <2>1, <2>2, <2>3 DEF Fifo!phys_flq!Oldest, Slot
  <2>4. CASE frames_loaded < NumFrames
    BY <1>1, <2>1, <2>4 DEF Fifo!phys_flq!Oldest, Slot
  <2> QED
    BY <2>1, <2>3, <2>4
<1> QED
  BY <1>3, <1>4, <1>5

LEMMA WindowOfFifo ==
  FifoInv => Fifo!InOrder = [k \in 1..frames_loaded |-> frames[Slot(k)].page]
BY WindowIs

\* The same after a step.
LEMMA WindowAfter ==
  FifoInv' => Fifo!InOrder' = [k \in 1..frames_loaded' |-> frames'[Slot(k)'].page]
<1>1. (FifoInv => Fifo!InOrder = [k \in 1..frames_loaded |-> frames[Slot(k)].page])'
  BY WindowOfFifo, PTL
<1> QED
  BY <1>1

\* Sequences, element by element.
LEMMA AppendIs ==
  ASSUME NEW n \in Nat, NEW s \in [1..n -> Page], NEW p \in Page,
         NEW t \in [1..n + 1 -> Page], \A k \in 1..n : t[k] = s[k], t[n + 1] = p
  PROVE  Len(s) = n /\ t = Append(s, p)
<1>1. s \in Seq(Page) /\ Len(s) = n
  OBVIOUS
<1>2. /\ Append(s, p) \in Seq(Page) /\ Len(Append(s, p)) = n + 1
      /\ Append(s, p)[n + 1] = p
      /\ \A k \in 1..n : Append(s, p)[k] = s[k]
  BY <1>1
<1> QED
  BY <1>1, <1>2

LEMMA SlideIs ==
  ASSUME NEW n \in Nat \ {0}, NEW s \in [1..n -> Page], NEW p \in Page,
         NEW t \in [1..n -> Page], \A k \in 1..n - 1 : t[k] = s[k + 1], t[n] = p
  PROVE  Len(s) = n /\ t = Append(Tail(s), p)
<1>1. s \in Seq(Page) /\ Len(s) = n /\ s # <<>>
  OBVIOUS
<1>2. /\ Tail(s) \in Seq(Page) /\ Len(Tail(s)) = n - 1
      /\ \A k \in 1..n - 1 : Tail(s)[k] = s[k + 1]
  BY <1>1
<1>3. /\ Append(Tail(s), p) \in Seq(Page) /\ Len(Append(Tail(s), p)) = n
      /\ Append(Tail(s), p)[n] = p
      /\ \A k \in 1..n - 1 : Append(Tail(s), p)[k] = Tail(s)[k]
  BY <1>2
<1> QED
  BY <1>1, <1>2, <1>3

\* The slots of the window are slots of the queue, and filled.
LEMMA SlotIsFilled ==
  ASSUME FifoInv, NEW k \in 1..frames_loaded
  PROVE  Slot(k) \in Frame /\ frames[Slot(k)] \in FifoPTE /\ frames[Slot(k)].page \in Page
<1>1. Slot(k) \in Frame /\ Slot(k) < frames_loaded
  BY VmsimAssumption DEF Slot, Frame, FifoInv, FifoTypes, FilledInOrder
<1>2. frames[Slot(k)] \in FifoPTE
  BY <1>1 DEF FifoInv, FifoTypes, FilledInOrder
<1> QED
  BY <1>1, <1>2 DEF FifoPTE

LEMMA FifoHit ==
  ASSUME FifoInv, NEW p \in Page, NEW write \in BOOLEAN, Fifo!Hit(p, write)
  PROVE  FifoInv' /\ Fifo!InOrder' = Fifo!InOrder
<1> DEFINE f == page_to_entry[p]
<1>1. /\ p \in InMemory
      /\ frames' = IF write THEN [frames EXCEPT ![f] = [frames[f] EXCEPT !.dirty = TRUE]] ELSE frames
      /\ UNCHANGED <<index, page_to_entry, frames_loaded>>
  BY DEF Fifo!Hit, Fifo!InMap, Fifo!NoFrame, InMemory
<1>2. f \in Frame /\ frames[f] \in FifoPTE
  BY <1>1 DEF FifoInv, FifoTypes, FilledInOrder, InMemory
<1>3. [frames[f] EXCEPT !.dirty = TRUE] \in FifoPTE
      /\ [frames[f] EXCEPT !.dirty = TRUE].page = frames[f].page
      /\ [frames[f] EXCEPT !.dirty = TRUE] # Null /\ frames[f] # Null
  BY <1>2, VmsimAssumption DEF FifoPTE
<1> DEFINE e == [frames[f] EXCEPT !.dirty = TRUE]
<1> HIDE DEF e
<1>4. /\ frames' \in [Frame -> FifoPTE \cup {Null}]
      /\ \A g \in Frame : /\ frames'[g] # Null <=> frames[g] # Null
                          /\ frames'[g].page = frames[g].page
  <2>1. CASE write
    BY <1>1, <1>2, <1>3, <2>1 DEF e, FifoInv, FifoTypes
  <2>2. CASE ~write
    BY <1>1, <2>2 DEF FifoInv, FifoTypes
  <2> QED
    BY <2>1, <2>2
<1>5. FifoInv'
  BY <1>1, <1>4 DEF FifoInv, FifoTypes, FilledInOrder, InMemory
<1>6. ASSUME NEW k \in 1..frames_loaded
      PROVE  Slot(k)' = Slot(k) /\ frames'[Slot(k)].page = frames[Slot(k)].page
  BY <1>1, <1>4, SlotIsFilled DEF Slot
<1>7. Fifo!InOrder' = [k \in 1..frames_loaded' |-> frames'[Slot(k)'].page]
  BY <1>5, WindowAfter
<1>8. Fifo!InOrder = [k \in 1..frames_loaded |-> frames[Slot(k)].page]
  BY WindowIs
<1> QED
  BY <1>1, <1>5, <1>6, <1>7, <1>8

LEMMA FifoLoad ==
  ASSUME FifoInv, NEW p \in Page, NEW write \in BOOLEAN, Fifo!Load(p, write)
  PROVE  /\ FifoInv' /\ Len(Fifo!InOrder) < NumFrames
         /\ Fifo!InOrder' = Append(Fifo!InOrder, p)
<1> DEFINE e == [page |-> p, dirty |-> write]
<1>1. /\ p \notin InMemory /\ frames_loaded < NumFrames /\ index = frames_loaded
      /\ frames' = [frames EXCEPT ![index] = e]
      /\ index' = IF index + 1 >= NumFrames THEN 0 ELSE index + 1
      /\ page_to_entry' = [page_to_entry EXCEPT ![p] = index]
      /\ frames_loaded' = frames_loaded + 1
  BY DEF Fifo!Load, Fifo!InMap, Fifo!NoFrame, InMemory, Fifo!Enqueue, Fifo!phys_flq!Offer,
         Fifo!phys_flq!NextSlot, FifoInv, FilledInOrder
<1>2. e \in FifoPTE /\ e # Null /\ e.page = p
  BY VmsimAssumption DEF FifoPTE
<1> HIDE DEF e
<1>3. /\ index \in Frame /\ frames_loaded \in Nat /\ NumFrames \in Nat
      /\ frames \in [Frame -> FifoPTE \cup {Null}]
      /\ page_to_entry \in [Page -> Frame \cup {-1}]
  BY VmsimAssumption DEF FifoInv, FifoTypes
<1>4. /\ frames' \in [Frame -> FifoPTE \cup {Null}]
      /\ frames'[index] = e /\ \A f \in Frame \ {index} : frames'[f] = frames[f]
  BY <1>1, <1>2, <1>3
<1>5. FifoTypes'
  BY <1>1, <1>3, <1>4, VmsimAssumption DEF FifoTypes, Frame
<1>6. FilledInOrder'
  <2>1. \A f \in Frame : frames'[f] # Null <=> f < frames_loaded'
    BY <1>1, <1>2, <1>3, <1>4 DEF FifoInv, FilledInOrder, Frame
  <2>2. frames_loaded' < NumFrames => index' = frames_loaded'
    BY <1>1, <1>3
  <2>3. \A q \in InMemory' : page_to_entry'[q] < frames_loaded'
    BY <1>1, <1>3 DEF FifoInv, FilledInOrder, InMemory, Frame
  <2> QED
    BY <2>1, <2>2, <2>3 DEF FilledInOrder
<1>7. FifoInv'
  BY <1>5, <1>6 DEF FifoInv
<1>8. Fifo!InOrder' = [k \in 1..frames_loaded + 1 |-> frames'[Slot(k)'].page]
  BY <1>1, <1>7, WindowAfter
<1>9. Fifo!InOrder = [k \in 1..frames_loaded |-> frames[Slot(k)].page]
  BY WindowIs
<1>10. \A k \in 1..frames_loaded : Slot(k) = k - 1 /\ Slot(k) \in Frame \ {index}
  BY <1>1, <1>3 DEF Slot, Frame
<1>11. \A k \in 1..frames_loaded + 1 : Slot(k)' = k - 1
  BY <1>1, <1>3 DEF Slot
<1>12. Fifo!InOrder \in [1..frames_loaded -> Page]
  BY <1>9, SlotIsFilled
<1>13. /\ \A k \in 1..frames_loaded : Fifo!InOrder'[k] = Fifo!InOrder[k]
       /\ Fifo!InOrder'[frames_loaded + 1] = p
  BY <1>1, <1>2, <1>3, <1>4, <1>8, <1>9, <1>10, <1>11
<1>14. Fifo!InOrder' \in [1..frames_loaded + 1 -> Page]
  <2>1. \A k \in 1..frames_loaded + 1 : Fifo!InOrder'[k] \in Page
    BY <1>3, <1>12, <1>13
  <2> QED
    BY <1>8, <2>1
<1>15. Len(Fifo!InOrder) = frames_loaded /\ Fifo!InOrder' = Append(Fifo!InOrder, p)
  BY <1>3, <1>12, <1>13, <1>14, AppendIs
<1> QED
  BY <1>1, <1>7, <1>15

LEMMA FifoEvict ==
  ASSUME FifoInv, NEW p \in Page, NEW write \in BOOLEAN, Fifo!Evict(p, write)
  PROVE  /\ FifoInv' /\ Len(Fifo!InOrder) = NumFrames
         /\ Fifo!InOrder' = Append(Tail(Fifo!InOrder), p)
<1> DEFINE e == [page |-> p, dirty |-> write]
           old == Fifo!phys_flq!Peek.page
<1>1. /\ p \notin InMemory /\ frames_loaded = NumFrames
      /\ frames' = [frames EXCEPT ![index] = e]
      /\ index' = IF index + 1 >= NumFrames THEN 0 ELSE index + 1
      /\ page_to_entry' = [[page_to_entry EXCEPT ![old] = -1] EXCEPT ![p] = index]
      /\ frames_loaded' = frames_loaded
  BY DEF Fifo!Evict, Fifo!InMap, Fifo!NoFrame, InMemory, Fifo!Enqueue, Fifo!phys_flq!Offer,
         Fifo!phys_flq!NextSlot
<1>2. e \in FifoPTE /\ e # Null /\ e.page = p
  BY VmsimAssumption DEF FifoPTE
<1> HIDE DEF e, old
<1>3. /\ index \in Frame /\ NumFrames \in Nat /\ NumFrames > 0
      /\ frames \in [Frame -> FifoPTE \cup {Null}]
      /\ page_to_entry \in [Page -> Frame \cup {-1}]
  BY VmsimAssumption DEF FifoInv, FifoTypes
<1>4. /\ frames' \in [Frame -> FifoPTE \cup {Null}]
      /\ frames'[index] = e /\ \A f \in Frame \ {index} : frames'[f] = frames[f]
  BY <1>1, <1>2, <1>3
<1>5. FifoTypes'
  <2>1. page_to_entry' \in [Page -> Frame \cup {-1}]
    BY <1>1, <1>3
  <2>2. index' \in Frame /\ frames_loaded' \in 0..NumFrames
    BY <1>1, <1>3 DEF Frame
  <2> QED
    BY <1>4, <2>1, <2>2 DEF FifoTypes
<1>6. FilledInOrder'
  <2>1. \A f \in Frame : frames'[f] # Null /\ f < NumFrames
    BY <1>1, <1>2, <1>3, <1>4 DEF FifoInv, FilledInOrder, Frame
  <2>2. \A q \in InMemory' : page_to_entry'[q] < NumFrames
    BY <1>3, <1>5 DEF FifoTypes, InMemory, Frame
  <2>3. frames_loaded' = NumFrames /\ ~(frames_loaded' < NumFrames)
    BY <1>1, <1>3
  <2> QED
    BY <2>1, <2>2, <2>3 DEF FilledInOrder
<1>7. FifoInv'
  BY <1>5, <1>6 DEF FifoInv
<1>8. Fifo!InOrder' = [k \in 1..NumFrames |-> frames'[Slot(k)'].page]
  BY <1>1, <1>7, WindowAfter
<1>9. Fifo!InOrder = [k \in 1..NumFrames |-> frames[Slot(k)].page]
  BY <1>1, WindowIs
<1>10. \A k \in 1..NumFrames - 1 : Slot(k)' = Slot(k + 1) /\ Slot(k)' \in Frame \ {index}
  BY <1>1, <1>3 DEF Slot, Frame
<1>11. Slot(NumFrames)' = index
  BY <1>1, <1>3 DEF Slot, Frame
<1>12. Fifo!InOrder \in [1..NumFrames -> Page]
  BY <1>1, <1>9, SlotIsFilled
<1>13. /\ \A k \in 1..NumFrames - 1 : Fifo!InOrder'[k] = Fifo!InOrder[k + 1]
       /\ Fifo!InOrder'[NumFrames] = p
  <2>1. ASSUME NEW k \in 1..NumFrames - 1
        PROVE  Fifo!InOrder'[k] = Fifo!InOrder[k + 1]
    <3>1. k \in 1..NumFrames /\ k + 1 \in 1..NumFrames
      BY <1>3
    <3>2. Fifo!InOrder'[k] = frames'[Slot(k)'].page /\ Fifo!InOrder[k + 1] = frames[Slot(k + 1)].page
      BY <1>8, <1>9, <3>1
    <3> QED
      BY <1>4, <1>10, <3>2
  <2>2. Fifo!InOrder'[NumFrames] = p
    BY <1>2, <1>3, <1>4, <1>8, <1>11
  <2> QED
    BY <2>1, <2>2
<1>14. Fifo!InOrder' \in [1..NumFrames -> Page]
  <2>1. \A k \in 1..NumFrames : Fifo!InOrder'[k] \in Page
    BY <1>3, <1>12, <1>13
  <2> QED
    BY <1>8, <2>1
<1>15. Len(Fifo!InOrder) = NumFrames /\ Fifo!InOrder' = Append(Tail(Fifo!InOrder), p)
  BY <1>3, <1>12, <1>13, <1>14, SlideIs
<1> QED
  BY <1>7, <1>15

\* The window stays or moves on by one page.
Slides ==
  \/ Fifo!InOrder' = Fifo!InOrder
  \/ \E p \in Page :
       \/ Len(Fifo!InOrder) < NumFrames /\ Fifo!InOrder' = Append(Fifo!InOrder, p)
       \/ Len(Fifo!InOrder) = NumFrames /\ Fifo!InOrder' = Append(Tail(Fifo!InOrder), p)

LEMMA FifoStep ==
  ASSUME FifoInv, Fifo!Next
  PROVE  FifoInv' /\ Slides
BY FifoHit, FifoLoad, FifoEvict DEF Fifo!Next, Slides

LEMMA FifoBegins ==
  ASSUME Fifo!Init
  PROVE  FifoInv /\ Fifo!InOrder = <<>>
<1>1. /\ frames = [i \in Frame |-> Null] /\ index = 0
      /\ page_to_entry = [p \in Page |-> -1] /\ frames_loaded = 0
  BY DEF Fifo!Init, Fifo!phys_flq!Init, Fifo!phys_flq!Slot, Fifo!NoFrame, Frame
<1>2. InMemory = {}
  BY <1>1 DEF InMemory
<1>3. FifoInv
  BY <1>1, <1>2, VmsimAssumption DEF FifoInv, FifoTypes, FilledInOrder, Frame
<1>4. Fifo!InOrder = [k \in 1..0 |-> frames[Slot(k)].page]
  BY <1>1, <1>3, WindowIs
<1> QED
  BY <1>3, <1>4

-----------------------------------------------------------------------------
(* opt                                                                     *)

\* A set of numbers has a least one.
LEMMA LeastNat ==
  ASSUME NEW T, T \subseteq Nat, T # {}
  PROVE  \E x \in T : \A y \in T : x <= y
<1> DEFINE R == {ss \in Nat \X Nat : ss[1] < ss[2]}
<1>1. IsWellFoundedOn(R, Nat)
  BY NatLessThanWellFounded DEF OpToRel
<1>2. PICK x \in T : \A y \in T : ~(<<y, x>> \in R)
  <2> HIDE DEF R
  <2> QED
    BY <1>1, WFMin
<1>3. \A y \in T : ~(y < x)
  BY <1>2
<1> QED
  BY <1>3

\* What holds of 0, and of each number with the one before, holds of all.
LEMMA NatByNat ==
  ASSUME NEW T \in SUBSET Nat, 0 \in T, \A k \in Nat : k \in T => k + 1 \in T
  PROVE  T = Nat
<1> DEFINE R == Nat \ T
<1>1. SUFFICES ASSUME R # {} PROVE FALSE
  OBVIOUS
<1>2. R \subseteq Nat
  OBVIOUS
<1>3. PICK k \in R : \A j \in R : k <= j
  <2> HIDE DEF R
  <2> QED
    BY <1>1, <1>2, LeastNat
<1>4. k # 0 /\ k - 1 \in Nat /\ k - 1 \notin R
  BY <1>3
<1> QED
  BY <1>4

\* Each value of h is made from the one before.
Follows(h, n, G, first) ==
  h[0] = G[0][first] /\ \A f \in 1..n : h[f] = G[f][h[f - 1]]

LEMMA ValuesFollow ==
  ASSUME NEW D, NEW first \in D, NEW n \in Nat, NEW G \in [0..n -> [D -> D]]
  PROVE  \E h \in [0..n -> D] : Follows(h, n, G, first)
<1> DEFINE T == {k \in Nat : k <= n => \E h \in [0..k -> D] : Follows(h, k, G, first)}
<1>1. 0 \in T
  <2> DEFINE h == [f \in 0..0 |-> G[0][first]]
  <2>1. h \in [0..0 -> D] /\ Follows(h, 0, G, first)
    BY DEF Follows
  <2> HIDE DEF h
  <2> QED
    BY <2>1
<1>2. ASSUME NEW k \in Nat, k \in T PROVE k + 1 \in T
  <2> SUFFICES ASSUME k + 1 <= n
               PROVE  \E h \in [0..k + 1 -> D] : Follows(h, k + 1, G, first)
    OBVIOUS
  <2>1. PICK g \in [0..k -> D] : Follows(g, k, G, first)
    BY <1>2
  <2> DEFINE h == [f \in 0..k + 1 |-> IF f <= k THEN g[f] ELSE G[k + 1][g[k]]]
  <2>2. G[k + 1][g[k]] \in D
    OBVIOUS
  <2>3. h \in [0..k + 1 -> D]
    BY <2>2
  <2>4. \A f \in 0..k : h[f] = g[f]
    OBVIOUS
  <2>5. h[k + 1] = G[k + 1][g[k]]
    OBVIOUS
  <2> HIDE DEF h
  <2>6. Follows(h, k + 1, G, first)
    <3>1. h[0] = G[0][first]
      BY <2>1, <2>4 DEF Follows
    <3>2. ASSUME NEW f \in 1..k + 1, f # k + 1
          PROVE  h[f] = G[f][h[f - 1]]
      <4>1. f \in 1..k /\ f \in 0..k /\ f - 1 \in 0..k
        BY <3>2
      <4> QED
        BY <2>1, <2>4, <4>1 DEF Follows
    <3>3. h[(k + 1) - 1] = g[k]
      BY <2>4
    <3>4. h[k + 1] = G[k + 1][h[(k + 1) - 1]]
      BY <2>5, <3>3
    <3> QED
      BY <3>1, <3>2, <3>4 DEF Follows
  <2> QED
    BY <2>3, <2>6
<1>3. T = Nat
  <2> HIDE DEF T
  <2>1. T \in SUBSET Nat
    BY DEF T
  <2> QED
    BY <1>1, <1>2, <2>1, NatByNat
<1> QED
  BY <1>3

\* What the loop makes of its choice d when it looks at frame f.
Looks(f, d) ==
  IF (f > 0 /\ Opt!Idle(d)) \/ ~Opt!Later(f, d)
    THEN d ELSE page_to_entry[phys_mem[f].page]

\* The page in frame f is not needed before that in frame g.
NotSooner(f, g) == Opt!Idle(f) \/ (~Opt!Idle(g) /\ Opt!NextUse(f) >= Opt!NextUse(g))

\* Among the frames up to f none is needed later than c.
Farthest(c, f) == c \in Frame /\ \A g \in 0..f : NotSooner(c, g)

LEMMA UsesAreNumbers ==
  ASSUME OptTypes, InAgreement, frames_loaded = NumFrames, NEW f \in Frame, ~Opt!Idle(f)
  PROVE  Opt!NextUse(f) \in Nat
<1>1. phys_mem[f].page \in Page
  BY DEF InAgreement, Frame
<1>2. access_order[phys_mem[f].page] \in Seq(Nat)
  BY <1>1 DEF OptTypes
<1> QED
  BY <1>2, HeadTailProperties DEF Opt!Idle, Opt!NextUse

\* What the loop makes of its choice when it looks at one more frame.
LEMMA LooksFarther ==
  ASSUME OptTypes, InAgreement, frames_loaded = NumFrames, NEW f \in Frame, NEW d \in Frame,
         IF f = 0 THEN d = 0 ELSE Farthest(d, f - 1)
  PROVE  Farthest(Looks(f, d), f)
<1>1. page_to_entry[phys_mem[f].page] = f
  BY DEF InAgreement, Frame
<1>2. /\ ~Opt!Idle(f) => Opt!NextUse(f) \in Nat
      /\ ~Opt!Idle(d) => Opt!NextUse(d) \in Nat
  BY UsesAreNumbers
<1>3. Looks(f, d) \in {d, f}
  BY <1>1 DEF Looks
<1>4. ASSUME NEW g \in 0..f
      PROVE  NotSooner(Looks(f, d), g)
  <2>1. g \in Frame /\ (~Opt!Idle(g) => Opt!NextUse(g) \in Nat)
    <3>1. g \in Frame
      BY VmsimAssumption DEF Frame
    <3> QED
      BY <3>1, UsesAreNumbers
  <2>2. CASE f = 0
    BY <1>2, <1>3, <2>2 DEF NotSooner
  <2>3. CASE f # 0
    <3>1. f > 0 /\ (g = f \/ g \in 0..f - 1)
      BY <2>3 DEF Frame
    <3>2. \A h \in 0..f - 1 : NotSooner(d, h)
      BY <2>3 DEF Farthest
    <3>3. CASE Opt!Idle(d)
      BY <3>1, <3>3 DEF Looks, NotSooner
    <3>4. CASE ~Opt!Idle(d) /\ ~Opt!Later(f, d)
      <4>1. Looks(f, d) = d /\ ~Opt!Idle(f) /\ ~(Opt!NextUse(f) > Opt!NextUse(d))
        BY <3>4 DEF Looks, Opt!Later
      <4> QED
        BY <1>2, <3>1, <3>2, <3>4, <4>1 DEF NotSooner
    <3>5. CASE ~Opt!Idle(d) /\ Opt!Later(f, d)
      <4>1. Looks(f, d) = f /\ (Opt!Idle(f) \/ Opt!NextUse(f) > Opt!NextUse(d))
        BY <1>1, <3>5 DEF Looks, Opt!Later
      <4>2. g = f \/ NotSooner(d, g)
        BY <3>1, <3>2
      <4> QED
        BY <1>2, <2>1, <3>5, <4>1, <4>2 DEF NotSooner
    <3> QED
      BY <3>3, <3>4, <3>5
  <2> QED
    BY <2>2, <2>3
<1> QED
  BY <1>3, <1>4 DEF Farthest

\* The candidate is one of the frames, and none is needed later.
LEMMA CandidateIsFarthest ==
  ASSUME OptTypes, InAgreement, frames_loaded = NumFrames
  PROVE  Farthest(Opt!Candidate[NumFrames - 1], NumFrames - 1)
<1> DEFINE Body(g) == [f \in Frame |-> Looks(f, IF f = 0 THEN 0 ELSE g[f - 1])]
           C == CHOOSE g : g = Body(g)
           G == [f \in Frame |-> [d \in Frame |-> Looks(f, d)]]
           n == NumFrames - 1
<1>1. Opt!Candidate = C
  BY DEF Opt!Candidate, Opt!Frame, Frame, Looks
<1>2. n \in Nat /\ Frame = 0..n /\ 0 \in Frame
  BY VmsimAssumption DEF Frame
<1>3. \A f, d \in Frame : Looks(f, d) \in Frame
  <2>1. \A f \in Frame : page_to_entry[phys_mem[f].page] = f
    BY DEF InAgreement, Frame
  <2> QED
    BY <2>1 DEF Looks
<1>4. G \in [0..n -> [Frame -> Frame]]
  BY <1>2, <1>3
<1>5. PICK h \in [0..n -> Frame] : Follows(h, n, G, 0)
  <2> HIDE DEF G, n
  <2> QED
    BY <1>2, <1>4, ValuesFollow
<1>6. h = Body(h)
  <2>1. ASSUME NEW f \in Frame
        PROVE  h[f] = Looks(f, IF f = 0 THEN 0 ELSE h[f - 1])
    <3>1. CASE f = 0
      BY <1>2, <1>5, <3>1 DEF Follows
    <3>2. CASE f # 0
      <4>1. f \in 1..n /\ f - 1 \in 0..n
        BY <1>2, <3>2
      <4>2. h[f] = G[f][h[f - 1]] /\ h[f - 1] \in Frame
        BY <1>5, <4>1 DEF Follows
      <4> QED
        BY <3>2, <4>2
    <3> QED
      BY <3>1, <3>2
  <2> QED
    BY <1>2, <2>1
<1>7. C = Body(C)
  <2> HIDE DEF Body
  <2> QED
    BY <1>6
<1> HIDE DEF C, G
<1>8. \A f \in Frame : C[f] = Looks(f, IF f = 0 THEN 0 ELSE C[f - 1])
  BY <1>7
<1> HIDE DEF Body
<1> DEFINE T == {k \in Nat : k <= n => Farthest(C[k], k)}
<1>9. 0 \in T
  <2>1. C[0] = Looks(0, 0)
    BY <1>2, <1>8
  <2>2. Farthest(C[0], 0)
    BY <1>2, <2>1, LooksFarther
  <2> QED
    BY <2>2
<1>10. ASSUME NEW k \in Nat, k \in T
       PROVE  k + 1 \in T
  <2> SUFFICES ASSUME k + 1 <= n
               PROVE  Farthest(C[k + 1], k + 1)
    OBVIOUS
  <2>1. k + 1 \in Frame /\ k + 1 # 0 /\ (k + 1) - 1 = k /\ Farthest(C[k], k)
    BY <1>2, <1>10
  <2>2. C[k + 1] = Looks(k + 1, C[k]) /\ C[k] \in Frame
    BY <1>8, <2>1 DEF Farthest
  <2> QED
    BY <2>1, <2>2, LooksFarther
<1>11. T = Nat
  <2>1. T \in SUBSET Nat
    OBVIOUS
  <2> HIDE DEF T
  <2> QED
    BY <1>9, <1>10, <2>1, NatByNat
<1>12. Farthest(C[n], n)
  BY <1>2, <1>11
<1> QED
  BY <1>1, <1>12

\* The lists after line n is read again: its number was the first in the list of its
\* page, and is in no other list.
LEMMA UsesGoOn ==
  ASSUME NEW n \in Nat, n < Len(trace), OptTypes,
         NEW q \in Page, NEW s \in Seq(Nat), AreUses(s, n, q)
  PROVE  IF trace[n + 1].page = q
           THEN s # <<>> /\ Tail(s) \in Seq(Nat) /\ AreUses(Tail(s), n + 1, q)
           ELSE AreUses(s, n + 1, q)
<1> DEFINE last == Len(trace) - 1
<1>1. Len(trace) \in Nat /\ n \in n..last /\ Len(s) \in Nat
  BY DEF OptTypes
<1>2. /\ \A i \in 1..Len(s) : s[i] \in n..last /\ trace[s[i] + 1].page = q
      /\ \A i, j \in 1..Len(s) : i < j => s[i] < s[j]
      /\ \A m \in n..last : trace[m + 1].page = q => \E i \in 1..Len(s) : s[i] = m
  BY DEF AreUses
<1>3. ASSUME trace[n + 1].page # q
      PROVE  AreUses(s, n + 1, q)
  <2>1. \A i \in 1..Len(s) : s[i] \in n + 1..last
    <3> SUFFICES ASSUME NEW i \in 1..Len(s)
                 PROVE  s[i] \in n + 1..last
      OBVIOUS
    <3>1. s[i] \in n..last /\ s[i] # n
      BY <1>2, <1>3
    <3> QED
      BY <1>1, <3>1
  <2>2. n + 1..last \subseteq n..last
    BY <1>1
  <2> QED
    BY <1>2, <2>1, <2>2 DEF AreUses
<1>4. ASSUME trace[n + 1].page = q
      PROVE  s # <<>> /\ Tail(s) \in Seq(Nat) /\ AreUses(Tail(s), n + 1, q)
  <2>1. PICK i \in 1..Len(s) : s[i] = n
    BY <1>1, <1>2, <1>4
  <2>2. 1 \in 1..Len(s) /\ s[1] \in n..last /\ (1 < i => s[1] < s[i])
    BY <1>1, <1>2, <2>1
  <2>3. i = 1 /\ s # <<>>
    BY <1>1, <2>1, <2>2
  <2> DEFINE t == Tail(s)
  <2>4. /\ t \in Seq(Nat) /\ Len(t) = Len(s) - 1
        /\ \A k \in 1..Len(t) : t[k] = s[k + 1] /\ k + 1 \in 1..Len(s)
    BY <1>1, <2>3
  <2> HIDE DEF t
  <2>5. \A k \in 1..Len(t) : t[k] \in n + 1..last /\ trace[t[k] + 1].page = q
    <3> SUFFICES ASSUME NEW k \in 1..Len(t)
                 PROVE  t[k] \in n + 1..last /\ trace[t[k] + 1].page = q
      OBVIOUS
    <3>0. t[k] = s[k + 1] /\ k + 1 \in 1..Len(s) /\ 1 < k + 1
      BY <2>4
    <3>1. /\ t[k] = s[k + 1] /\ k + 1 \in 1..Len(s) /\ 1 < k + 1
          /\ s[k + 1] \in n..last /\ trace[s[k + 1] + 1].page = q
      BY <1>2, <3>0
    <3>2. s[1] < s[k + 1] /\ s[1] = n
      BY <1>2, <2>1, <2>2, <2>3, <3>1
    <3> QED
      BY <1>1, <3>1, <3>2
  <2>6. \A j, k \in 1..Len(t) : j < k => t[j] < t[k]
    <3> SUFFICES ASSUME NEW j \in 1..Len(t), NEW k \in 1..Len(t), j < k
                 PROVE  t[j] < t[k]
      OBVIOUS
    <3>1. j + 1 < k + 1
      BY <2>4
    <3> QED
      BY <1>2, <2>4, <3>1
  <2>7. ASSUME NEW m \in n + 1..last, trace[m + 1].page = q
        PROVE  \E k \in 1..Len(t) : t[k] = m
    <3>1. m \in n..last /\ m # n
      BY <1>1, <2>7
    <3>2. PICK j \in 1..Len(s) : s[j] = m
      BY <1>2, <2>7, <3>1
    <3>3. j - 1 \in 1..Len(t) /\ (j - 1) + 1 = j
      BY <1>1, <2>1, <2>3, <2>4, <3>1, <3>2
    <3> QED
      BY <2>4, <3>2, <3>3
  <2>8. AreUses(t, n + 1, q)
    BY <2>5, <2>6, <2>7 DEF AreUses
  <2> QED
    BY <2>3, <2>4, <2>8 DEF t
<1> QED
  BY <1>3, <1>4

LEMMA OptReadLine ==
  ASSUME OptTypes, FutureIsKnown, NEW p \in Page, Opt!ReadLine(p)
  PROVE  /\ FutureIsKnown'
         /\ access_order' \in [Page -> Seq(Nat)]
         /\ mem_accesses' = mem_accesses + 1 /\ mem_accesses' \in 0..Len(trace)
         /\ UNCHANGED <<trace, pass>>
         /\ Opt!Line.write \in BOOLEAN
<1> DEFINE n == mem_accesses
<1>1. /\ pass = 2 /\ n < Len(trace) /\ p = trace[n + 1].page
      /\ mem_accesses' = n + 1
      /\ access_order' = [access_order EXCEPT ![p] = Tail(access_order[p])]
      /\ UNCHANGED <<trace, pass>>
  BY DEF Opt!ReadLine, Opt!Line
<1>2. n \in Nat /\ Len(trace) \in Nat /\ n + 1 \in 1..Len(trace)
  BY <1>1 DEF OptTypes
<1>3. ASSUME NEW q \in Page
      PROVE  access_order'[q] \in Seq(Nat) /\ AreUses(access_order'[q], n + 1, q)
  <2>1. access_order[q] \in Seq(Nat) /\ AreUses(access_order[q], n, q)
    BY DEF OptTypes, FutureIsKnown
  <2>2. access_order'[q] = IF trace[n + 1].page = q THEN Tail(access_order[q]) ELSE access_order[q]
    BY <1>1 DEF OptTypes
  <2> QED
    BY <1>1, <1>2, <2>1, <2>2, UsesGoOn
<1>4. access_order' \in [Page -> Seq(Nat)]
  BY <1>1, <1>3 DEF OptTypes
<1>5. FutureIsKnown'
  <2>1. ASSUME NEW q \in Page
        PROVE  AreUses(access_order[q], mem_accesses, q)'
    BY <1>1, <1>3 DEF AreUses
  <2> QED
    BY <1>1, <2>1 DEF FutureIsKnown
<1>6. trace[n + 1] \in [page : Page, write : BOOLEAN]
  <2>1. trace \in Seq([page : Page, write : BOOLEAN])
    BY DEF OptTypes
  <2> QED
    BY <1>2, <2>1, ElementOfSeq
<1> QED
  BY <1>1, <1>2, <1>4, <1>5, <1>6 DEF Opt!Line

LEMMA OptNote ==
  ASSUME OptInv, NEW p \in Page, NEW write \in BOOLEAN, Opt!Note(p, write)
  PROVE  OptInv' /\ Rests
<1> DEFINE e == [page |-> p, write |-> write]
           n == Len(trace)
<1>1. /\ pass = 1 /\ mem_accesses = 0
      /\ access_order' = [access_order EXCEPT ![p] = Append(access_order[p], n)]
      /\ trace' = Append(trace, e)
      /\ UNCHANGED <<pass, mem_accesses, phys_mem, page_to_entry, frames_loaded, page_faults, said,
                     written>>
  BY DEF Opt!Note, Opt!mem, OptInv, FutureIsKnown
<1>2. e \in [page : Page, write : BOOLEAN] /\ e.page = p
  OBVIOUS
<1> HIDE DEF e
<1>3. /\ n \in Nat
      /\ trace' \in Seq([page : Page, write : BOOLEAN]) /\ Len(trace') = n + 1
      /\ trace'[n + 1] = e /\ \A k \in 1..n : trace'[k] = trace[k]
  BY <1>1, <1>2 DEF OptInv, OptTypes
<1> HIDE DEF n
<1>4. ASSUME NEW q \in Page
      PROVE  access_order'[q] \in Seq(Nat) /\ AreUses(access_order[q], mem_accesses, q)'
  <2> DEFINE s == access_order[q]
             t == access_order'[q]
  <2>1. s \in Seq(Nat) /\ Len(s) \in Nat
    BY DEF OptInv, OptTypes
  <2>2. /\ \A i \in 1..Len(s) : s[i] \in 0..n - 1 /\ trace[s[i] + 1].page = q
        /\ \A i, j \in 1..Len(s) : i < j => s[i] < s[j]
        /\ \A m \in 0..n - 1 : trace[m + 1].page = q => \E i \in 1..Len(s) : s[i] = m
    BY <1>1 DEF OptInv, FutureIsKnown, AreUses, n
  <2>3. \A m \in 0..n - 1 : m + 1 \in 1..n /\ trace'[m + 1] = trace[m + 1]
    BY <1>3
  <2>4. CASE q # p
    <3>1. t = s
      BY <1>1, <2>4 DEF OptInv, OptTypes
    <3>2. \A i \in 1..Len(s) : s[i] \in 0..n /\ trace'[s[i] + 1].page = q
      BY <1>3, <2>2, <2>3
    <3>3. ASSUME NEW m \in 0..n, trace'[m + 1].page = q
          PROVE  \E i \in 1..Len(s) : s[i] = m
      <4>1. m # n
        BY <1>2, <1>3, <2>4, <3>3
      <4>2. m \in 0..n - 1
        BY <1>3, <4>1
      <4> QED
        BY <2>2, <2>3, <3>3, <4>2
    <3>4. Len(trace') - 1 = n /\ mem_accesses' = 0
      BY <1>1, <1>3
    <3> QED
      BY <2>1, <2>2, <3>1, <3>2, <3>3, <3>4 DEF AreUses
  <2>5. CASE q = p
    <3>1. t = Append(s, n)
      BY <1>1, <2>5 DEF OptInv, OptTypes
    <3>2. /\ t \in Seq(Nat) /\ Len(t) = Len(s) + 1
          /\ t[Len(s) + 1] = n /\ \A i \in 1..Len(s) : t[i] = s[i]
      BY <1>3, <2>1, <3>1
    <3> HIDE DEF s, t
    <3>3. \A i \in 1..Len(t) : i \in 1..Len(s) \/ i = Len(s) + 1
      BY <2>1, <3>2
    <3>4. ASSUME NEW i \in 1..Len(t)
          PROVE  t[i] \in 0..n /\ trace'[t[i] + 1].page = q
      <4>1. CASE i \in 1..Len(s)
        <5>1. t[i] = s[i] /\ s[i] \in 0..n - 1 /\ trace[s[i] + 1].page = q
          BY <2>2, <3>2, <4>1
        <5>2. s[i] \in 0..n /\ trace'[s[i] + 1] = trace[s[i] + 1]
          BY <1>3, <2>3, <5>1
        <5> QED
          BY <5>1, <5>2
      <4>2. CASE i = Len(s) + 1
        BY <1>2, <1>3, <2>5, <3>2, <4>2
      <4> QED
        BY <3>3, <4>1, <4>2
    <3>5. ASSUME NEW i \in 1..Len(t), NEW j \in 1..Len(t), i < j
          PROVE  t[i] < t[j]
      <4>1. i \in 1..Len(s) /\ t[i] = s[i] /\ s[i] \in 0..n - 1
        BY <2>1, <2>2, <3>2, <3>5
      <4>2. CASE j \in 1..Len(s)
        BY <2>2, <3>2, <3>5, <4>1, <4>2
      <4>3. CASE j = Len(s) + 1
        BY <1>3, <3>2, <4>1, <4>3
      <4> QED
        BY <3>3, <4>2, <4>3
    <3>6. ASSUME NEW m \in 0..n, trace'[m + 1].page = q
          PROVE  \E i \in 1..Len(t) : t[i] = m
      <4>1. CASE m = n
        BY <2>1, <3>2, <4>1
      <4>2. CASE m # n
        <5>1. m \in 0..n - 1
          BY <1>3, <4>2
        <5>2. PICK i \in 1..Len(s) : s[i] = m
          BY <2>2, <2>3, <3>6, <5>1
        <5> QED
          BY <2>1, <3>2, <5>2
      <4> QED
        BY <4>1, <4>2
    <3>7. Len(trace') - 1 = n /\ mem_accesses' = 0
      BY <1>1, <1>3
    <3> QED
      BY <3>2, <3>4, <3>5, <3>6, <3>7 DEF AreUses, t
  <2> QED
    BY <2>4, <2>5
<1>5. FutureIsKnown'
  BY <1>1, <1>4 DEF FutureIsKnown
<1>6. OptTypes'
  <2>1. access_order' \in [Page -> Seq(Nat)]
    BY <1>1, <1>4 DEF OptInv, OptTypes
  <2>2. mem_accesses' \in 0..Len(trace') /\ page_faults' \in 0..mem_accesses'
    BY <1>1, <1>3 DEF OptInv, OptTypes
  <2> QED
    BY <1>1, <1>3, <2>1, <2>2 DEF OptInv, OptTypes
<1>7. InMemory' = InMemory /\ Rests
  BY <1>1 DEF InMemory, Unsaved, Rests
<1>8. InAgreement'
  BY <1>1, <1>7 DEF OptInv, InAgreement
<1> QED
  BY <1>5, <1>6, <1>7, <1>8 DEF OptInv

LEMMA OptReopen ==
  ASSUME OptInv, Opt!Reopen
  PROVE  OptInv' /\ Rests
<1>1. /\ pass' = 2
      /\ UNCHANGED <<trace, access_order, mem_accesses, phys_mem, page_to_entry, frames_loaded,
                     page_faults, said, written>>
  BY DEF Opt!Reopen, Opt!mem
<1>2. InMemory' = InMemory /\ Rests
  BY <1>1 DEF InMemory, Unsaved, Rests
<1>3. InAgreement' /\ OptTypes'
  BY <1>1, <1>2 DEF OptInv, InAgreement, OptTypes
<1>4. FutureIsKnown'
  BY <1>1 DEF OptInv, FutureIsKnown, AreUses
<1> QED
  BY <1>2, <1>3, <1>4 DEF OptInv

LEMMA OptMapTypes ==
  ASSUME OptTypes
  PROVE  MapTypes
BY DEF OptTypes, MapTypes

LEMMA OptHit ==
  ASSUME OptInv, NEW p \in Page, Opt!Hit(p)
  PROVE  OptInv' /\ \E write \in BOOLEAN : Pages(p, write) /\ Writes(p, write)
<1> DEFINE f == page_to_entry[p]
           w == Opt!Line.write
<1>1. /\ Opt!ReadLine(p) /\ p \in InMemory
      /\ phys_mem' = [phys_mem EXCEPT ![f].dirty = @ \/ w]
      /\ said' = "hit"
      /\ UNCHANGED <<page_to_entry, frames_loaded, page_faults>>
  BY DEF Opt!Hit, Opt!Resident, Opt!NoFrame, InMemory
<1>2. /\ FutureIsKnown' /\ access_order' \in [Page -> Seq(Nat)]
      /\ mem_accesses' = mem_accesses + 1 /\ mem_accesses' \in 0..Len(trace)
      /\ UNCHANGED <<trace, pass>> /\ w \in BOOLEAN
  BY <1>1, OptReadLine DEF OptInv
<1> HIDE DEF w
<1>3. f \in Frame /\ phys_mem[f] \in OptPTE /\ MapTypes
  BY <1>1, OptMapTypes DEF OptInv, OptTypes, InMemory
<1>4. /\ phys_mem' \in [Frame -> OptPTE]
      /\ phys_mem'[f].page = phys_mem[f].page
      /\ phys_mem'[f].dirty <=> phys_mem[f].dirty \/ w
      /\ \A g \in Frame : g # f => phys_mem'[g] = phys_mem[g]
  BY <1>1, <1>2, <1>3 DEF OptInv, OptTypes, OptPTE
<1>5. OptTypes'
  <2>1. page_faults' \in 0..mem_accesses'
    BY <1>1, <1>2 DEF OptInv, OptTypes
  <2> QED
    BY <1>1, <1>2, <1>4, <2>1 DEF OptInv, OptTypes
<1>6. \A g \in 0..frames_loaded - 1 : phys_mem'[g].page = phys_mem[g].page
  <2>1. 0..frames_loaded - 1 \subseteq Frame
    BY <1>3, VmsimAssumption DEF MapTypes, Frame
  <2> QED
    BY <1>4, <2>1
<1>7. InAgreement' /\ InMemory' = InMemory
  BY <1>1, <1>6, AgreementStays DEF OptInv
<1>8. Pages(p, w)
  BY <1>1, <1>2, <1>3, <1>4, HitIsHit DEF OptInv
<1>9. Writes(p, w)
  <2>1. written' = Modified(written, p, w)
    BY DEF Opt!Hit, Opt!Wrote, Modified, w
  <2> QED
    BY <1>7, <2>1, WritesInMemory
<1> QED
  BY <1>2, <1>5, <1>7, <1>8, <1>9 DEF OptInv

\* What the page that enters changes.
LEMMA OptEntry ==
  ASSUME OptInv, NEW p \in Page, Opt!ReadLine(p), NEW f \in Frame, NEW map,
         map \in [Page -> Frame \cup {-1}], Opt!Enter(p, f, map)
  PROVE  /\ Opt!Line.write \in BOOLEAN
         /\ Enters(p, f, map)
         /\ IF Opt!Line.write THEN phys_mem'[f].dirty ELSE ~phys_mem'[f].dirty
         /\ FutureIsKnown'
         /\ frames_loaded' \in 0..NumFrames => OptTypes'
<1> DEFINE w == Opt!Line.write
           e == [page |-> p, dirty |-> w]
<1>1. /\ FutureIsKnown' /\ access_order' \in [Page -> Seq(Nat)]
      /\ mem_accesses' = mem_accesses + 1 /\ mem_accesses' \in 0..Len(trace)
      /\ UNCHANGED <<trace, pass>> /\ w \in BOOLEAN
  BY OptReadLine DEF OptInv
<1>2. /\ page_faults' = page_faults + 1
      /\ page_to_entry' = [map EXCEPT ![p] = f]
      /\ phys_mem' = [phys_mem EXCEPT ![f] = e]
  BY DEF Opt!Enter
<1> HIDE DEF w
<1>3. e \in OptPTE /\ e.page = p /\ e.dirty = w
  BY <1>1 DEF OptPTE
<1> HIDE DEF e
<1>4. phys_mem' \in [Frame -> OptPTE] /\ phys_mem'[f] = e
  BY <1>2, <1>3 DEF OptInv, OptTypes
<1>5. Enters(p, f, map)
  BY <1>2, <1>3 DEF Enters
<1>6. page_to_entry' \in [Page -> Frame \cup {-1}]
  BY <1>2
<1>7. page_faults' \in 0..mem_accesses'
  BY <1>1, <1>2 DEF OptInv, OptTypes
<1>8. frames_loaded' \in 0..NumFrames => OptTypes'
  BY <1>1, <1>4, <1>6, <1>7 DEF OptInv, OptTypes
<1> QED
  BY <1>1, <1>3, <1>4, <1>5, <1>8 DEF w

LEMMA OptLoad ==
  ASSUME OptInv, NEW p \in Page, Opt!Load(p)
  PROVE  OptInv' /\ \E write \in BOOLEAN : Pages(p, write) /\ Writes(p, write)
<1> DEFINE f == frames_loaded
<1>1. /\ Opt!ReadLine(p) /\ p \notin InMemory /\ frames_loaded < NumFrames
      /\ Opt!Enter(p, f, page_to_entry)
      /\ frames_loaded' = frames_loaded + 1
      /\ SaysLoaded
  BY DEF Opt!Load, Opt!Resident, Opt!NoFrame, InMemory, SaysLoaded
<1>2. f \in Frame /\ MapTypes /\ frames_loaded' \in 0..NumFrames
      /\ page_to_entry \in [Page -> Frame \cup {-1}]
  BY <1>1, OptMapTypes, VmsimAssumption DEF OptInv, MapTypes, Frame
<1>3. /\ Opt!Line.write \in BOOLEAN
      /\ Enters(p, f, page_to_entry)
      /\ IF Opt!Line.write THEN phys_mem'[f].dirty ELSE ~phys_mem'[f].dirty
      /\ FutureIsKnown' /\ OptTypes'
  BY <1>1, <1>2, OptEntry
<1>4. InAgreement' /\ InMemory' = InMemory \cup {p}
  BY <1>1, <1>2, <1>3, AgreementAfterLoad DEF OptInv
<1>5. Pages(p, Opt!Line.write)
  BY <1>1, <1>2, <1>3, LoadIsLoad DEF OptInv
<1>6. Writes(p, Opt!Line.write)
  <2>1. written' = Modified(written, p, Opt!Line.write)
    BY DEF Opt!Load, Opt!Wrote, Modified
  <2> QED
    BY <1>4, <2>1, WritesInMemory
<1> QED
  BY <1>3, <1>4, <1>5, <1>6 DEF OptInv

LEMMA OptEvict ==
  ASSUME OptInv, NEW p \in Page, Opt!Evict(p)
  PROVE  OptInv' /\ \E write \in BOOLEAN : Pages(p, write) /\ Writes(p, write)
<1> DEFINE f == Opt!Candidate[NumFrames - 1]
           v == phys_mem[f].page
           map == [page_to_entry EXCEPT ![v] = -1]
<1>1. /\ Opt!ReadLine(p) /\ p \notin InMemory /\ frames_loaded = NumFrames
      /\ Opt!Enter(p, f, map)
      /\ frames_loaded' = frames_loaded
      /\ said' = Opt!Verdict(f)
      /\ written' = Modified(written \ {v}, p, Opt!Line.write)
  BY DEF Opt!Evict, Opt!Resident, Opt!NoFrame, InMemory, Opt!Unmap, Opt!Wrote, Modified
<1>2. f \in Frame /\ f \in 0..frames_loaded - 1 /\ f # -1
  BY <1>1, CandidateIsFarthest DEF OptInv, Frame, Farthest
<1>3. SaysEvicted(v)
  <2>1. page_to_entry[v] = f
    BY <1>2 DEF OptInv, InAgreement
  <2> QED
    BY <1>1, <2>1 DEF SaysEvicted, Opt!Verdict
<1> HIDE DEF f
<1>4. v \in InMemory /\ page_to_entry[v] = f
  BY <1>2 DEF OptInv, InAgreement, InMemory
<1> HIDE DEF v
<1>5. MapTypes /\ map \in [Page -> Frame \cup {-1}] /\ frames_loaded' \in 0..NumFrames
  BY <1>1, OptMapTypes DEF OptInv, MapTypes
<1>6. /\ Opt!Line.write \in BOOLEAN
      /\ Enters(p, f, map)
      /\ IF Opt!Line.write THEN phys_mem'[f].dirty ELSE ~phys_mem'[f].dirty
      /\ FutureIsKnown' /\ OptTypes'
  BY <1>1, <1>2, <1>5, OptEntry
<1>7. InAgreement' /\ InMemory' = (InMemory \ {v}) \cup {p}
  BY <1>1, <1>4, <1>5, <1>6, AgreementAfterEviction DEF OptInv
<1>8. Pages(p, Opt!Line.write)
  BY <1>1, <1>3, <1>4, <1>5, <1>6, EvictionIsEviction DEF OptInv
<1>9. Writes(p, Opt!Line.write)
  BY <1>1, <1>4, <1>7, WritesWithoutVictim
<1> QED
  BY <1>6, <1>7, <1>8, <1>9 DEF OptInv

LEMMA OptStep ==
  ASSUME OptInv, Opt!Next
  PROVE  OptInv' /\ Works
BY OptNote, OptReopen, OptHit, OptLoad, OptEvict DEF Opt!Next, Works

-----------------------------------------------------------------------------
(* opt is optimal.  To hold one page in the place of another costs one     *)
(* fault more at most (Near), and nothing if it is accessed sooner         *)
(* (Better): to evict the page that is needed last is never worse.         *)

\* The least count that next gives after page p came for one of those held.
Cheapest(next, held, p) == Opt!Min({next[(held \ {q}) \cup {p}] : q \in held})

\* The row of Opt!FewestFaults for line n, made from that for line n + 1.
Row(tr, n, next) ==
  [held \in SUBSET Page |->
     IF n >= Len(tr) THEN 0
     ELSE LET p == tr[n + 1].page IN
          IF p \in held THEN next[held]
          ELSE 1 + (IF Cardinality(held) < NumFrames
                      THEN next[held \cup {p}]
                      ELSE Cheapest(next, held, p))]

Traces == {tr \in Seq([page : Page, write : BOOLEAN]) : Len(tr) <= MaxLines}

\* F counts the fewest faults of trace tr, for each line and the pages held there.
Counts(F, tr) ==
  /\ F \in [0..MaxLines -> [SUBSET Page -> Nat]]
  /\ \A n \in 0..MaxLines : F[n] = Row(tr, n, F[n + 1])

LEMMA MinIsLeast ==
  ASSUME NEW S \in SUBSET Nat, S # {}
  PROVE  Opt!Min(S) \in S /\ \A y \in S : Opt!Min(S) <= y
BY LeastNat DEF Opt!Min

LEMMA HeldIsNotEmpty ==
  ASSUME NEW held, ~(Cardinality(held) < NumFrames)
  PROVE  held # {}
<1>1. Cardinality({}) = 0 /\ 0 < NumFrames
  BY FS_EmptySet, VmsimAssumption
<1> QED
  BY <1>1

LEMMA RowTyped ==
  ASSUME NEW tr \in Traces, NEW n \in 0..MaxLines, NEW next,
         n < Len(tr) => next \in [SUBSET Page -> Nat]
  PROVE  Row(tr, n, next) \in [SUBSET Page -> Nat]
<1> SUFFICES ASSUME NEW held \in SUBSET Page
             PROVE  Row(tr, n, next)[held] \in Nat
  BY DEF Row
<1>1. CASE n >= Len(tr)
  BY <1>1 DEF Row
<1>2. CASE ~(n >= Len(tr))
  <2> DEFINE p == tr[n + 1].page
             S == {next[(held \ {q}) \cup {p}] : q \in held}
  <2>1. n < Len(tr) /\ n + 1 \in 1..Len(tr) /\ next \in [SUBSET Page -> Nat]
    BY <1>2 DEF Traces
  <2>2. p \in Page
    <3>1. tr[n + 1] \in [page : Page, write : BOOLEAN]
      BY <2>1, ElementOfSeq DEF Traces
    <3> QED
      BY <3>1
  <2>3. Row(tr, n, next)[held] =
          IF p \in held THEN next[held]
          ELSE 1 + (IF Cardinality(held) < NumFrames THEN next[held \cup {p}] ELSE Opt!Min(S))
    BY <1>2 DEF Row, Cheapest
  <2> HIDE DEF p
  <2>4. next[held] \in Nat /\ next[held \cup {p}] \in Nat
    BY <2>1, <2>2
  <2>5. ~(Cardinality(held) < NumFrames) => Opt!Min(S) \in Nat
    <3> SUFFICES ASSUME ~(Cardinality(held) < NumFrames)
                 PROVE  Opt!Min(S) \in Nat
      OBVIOUS
    <3>1. held # {}
      BY HeldIsNotEmpty
    <3>2. S \in SUBSET Nat /\ S # {}
      BY <2>1, <2>2, <3>1
    <3> HIDE DEF S
    <3> QED
      BY <3>2, MinIsLeast
  <2> HIDE DEF S
  <2> QED
    BY <2>3, <2>4, <2>5
<1> QED
  BY <1>1, <1>2

\* Opt!FewestFaults of trace tr.
Fewest(tr) == CHOOSE g : g = [n \in 0..MaxLines |-> Row(tr, n, g[n + 1])]

LEMMA FewestIsThat == Opt!FewestFaults = Fewest(trace)
BY SameCardinality DEF Opt!FewestFaults, Fewest, Row, Cheapest, Opt!Cardinality, Cardinality

\* The recursion ends, and counts.
LEMMA FewestCounts ==
  ASSUME NEW tr \in Traces
  PROVE  Counts(Fewest(tr), tr)
<1> DEFINE V == [SUBSET Page -> Nat]
           Body(g) == [n \in 0..MaxLines |-> Row(tr, n, g[n + 1])]
           C == CHOOSE g : g = Body(g)
           G == [k \in 0..MaxLines |-> [next \in V |-> Row(tr, MaxLines - k, next)]]
<1>1. Fewest(tr) = C
  BY DEF Fewest
<1>2. MaxLines \in Nat /\ Len(tr) \in Nat /\ Len(tr) <= MaxLines
  BY VmsimAssumption DEF Traces
<1>3. G \in [0..MaxLines -> [V -> V]]
  <2>1. ASSUME NEW k \in 0..MaxLines, NEW next \in V
        PROVE  Row(tr, MaxLines - k, next) \in V
    <3>1. MaxLines - k \in 0..MaxLines
      BY <1>2
    <3> QED
      BY <3>1, RowTyped
  <2> HIDE DEF V
  <2> QED
    BY <2>1
<1>4. PICK first \in V : TRUE
  <2>1. [held \in SUBSET Page |-> 0] \in V
    OBVIOUS
  <2> QED
    BY <2>1
<1>5. PICK h \in [0..MaxLines -> V] : Follows(h, MaxLines, G, first)
  <2> HIDE DEF G, V
  <2> QED
    BY <1>2, <1>3, <1>4, ValuesFollow
<1>6. \A next, other : Row(tr, MaxLines, next) = Row(tr, MaxLines, other)
  BY <1>2 DEF Row
<1>7. \E f : f = Body(f)
  <2> DEFINE f == [n \in 0..MaxLines |-> h[MaxLines - n]]
  <2>1. ASSUME NEW n \in 0..MaxLines
        PROVE  f[n] = Row(tr, n, f[n + 1])
    <3>1. CASE n = MaxLines
      <4>1. f[n] = h[0] /\ h[0] = G[0][first] /\ G[0][first] = Row(tr, MaxLines - 0, first)
        BY <1>2, <1>4, <1>5, <3>1 DEF Follows
      <4>2. MaxLines - 0 = n
        BY <1>2, <3>1
      <4> QED
        BY <1>6, <3>1, <4>1, <4>2
    <3>2. CASE n # MaxLines
      <4> DEFINE k == MaxLines - n
      <4>1. /\ k \in 1..MaxLines /\ k \in 0..MaxLines /\ k - 1 \in 0..MaxLines
            /\ MaxLines - k = n /\ n + 1 \in 0..MaxLines /\ MaxLines - (n + 1) = k - 1
        BY <1>2, <3>2
      <4>2. f[n] = h[k] /\ f[n + 1] = h[k - 1]
        BY <4>1
      <4> HIDE DEF k, f
      <4>3. h[k] = G[k][h[k - 1]] /\ h[k - 1] \in V
        BY <1>5, <4>1 DEF Follows
      <4>4. G[k][h[k - 1]] = Row(tr, n, h[k - 1])
        <5> HIDE DEF V
        <5> QED
          BY <4>1, <4>3
      <4> QED
        BY <4>2, <4>3, <4>4
    <3> QED
      BY <3>1, <3>2
  <2>2. f = [n \in 0..MaxLines |-> f[n]]
    OBVIOUS
  <2> HIDE DEF f
  <2>3. f = Body(f)
    BY <2>1, <2>2
  <2> HIDE DEF Body
  <2> QED
    BY <2>3
<1>8. C = Body(C)
  <2> HIDE DEF Body
  <2> QED
    BY <1>7
<1> HIDE DEF C, G
<1>9. DOMAIN C = 0..MaxLines /\ C = [n \in 0..MaxLines |-> C[n]]
      /\ \A n \in 0..MaxLines : C[n] = Row(tr, n, C[n + 1])
  <2>1. /\ DOMAIN Body(C) = 0..MaxLines /\ Body(C) = [n \in 0..MaxLines |-> Body(C)[n]]
        /\ \A n \in 0..MaxLines : Body(C)[n] = Row(tr, n, C[n + 1])
    OBVIOUS
  <2> HIDE DEF Body
  <2> QED
    BY <1>8, <2>1
<1> HIDE DEF Body
<1>a. ASSUME NEW n \in 0..MaxLines, n < Len(tr) => C[n + 1] \in V
      PROVE  C[n] \in V
  <2>1. PICK next : next = C[n + 1]
    OBVIOUS
  <2>2. Row(tr, n, next) \in V
    BY <1>a, <2>1, RowTyped
  <2> HIDE DEF V
  <2> QED
    BY <1>9, <2>1, <2>2
<1> HIDE DEF V
<1> DEFINE T == {k \in Nat : k <= MaxLines => C[MaxLines - k] \in V}
<1>10. 0 \in T
  <2>1. MaxLines \in 0..MaxLines /\ MaxLines - 0 = MaxLines /\ ~(MaxLines < Len(tr))
    BY <1>2
  <2>2. C[MaxLines] \in V
    BY <1>a, <2>1
  <2> QED
    BY <2>1, <2>2
<1>11. ASSUME NEW k \in Nat, k \in T
       PROVE  k + 1 \in T
  <2> SUFFICES ASSUME k + 1 <= MaxLines
               PROVE  C[MaxLines - (k + 1)] \in V
    OBVIOUS
  <2> DEFINE n == MaxLines - (k + 1)
  <2>1. n \in 0..MaxLines /\ n + 1 = MaxLines - k /\ k <= MaxLines
    BY <1>2
  <2> HIDE DEF n
  <2>2. C[n + 1] \in V
    BY <1>11, <2>1
  <2>3. C[n] \in V
    BY <1>a, <2>1, <2>2
  <2> QED
    BY <2>3 DEF n
<1>12. T = Nat
  <2>1. T \in SUBSET Nat
    OBVIOUS
  <2> HIDE DEF T
  <2> QED
    BY <1>10, <1>11, <2>1, NatByNat
<1>13. C \in [0..MaxLines -> V]
  <2>1. ASSUME NEW n \in 0..MaxLines
        PROVE  C[n] \in V
    <3>1. MaxLines - n \in Nat /\ MaxLines - n <= MaxLines /\ MaxLines - (MaxLines - n) = n
      BY <1>2
    <3> QED
      BY <1>12, <3>1
  <2> QED
    BY <1>9, <2>1
<1> QED
  BY <1>1, <1>9, <1>13 DEF Counts, V

\* How many faults a line has, and those after it, when page p is accessed and these
\* pages are held; next counts those after it.
Serves(p, next, held, count) ==
  count = IF p \in held THEN next[held]
          ELSE 1 + (IF Cardinality(held) < NumFrames THEN next[held \cup {p}]
                                                     ELSE Cheapest(next, held, p))

Rows == [SUBSET Page -> Nat]

\* Line n is an access of page p, before which row counts the faults and after which next.
IsLine(tr, F, n, p, row, next) ==
  /\ p = tr[n + 1].page /\ row = F[n] /\ next = F[n + 1]
  /\ \A held \in SUBSET Page : Serves(p, next, held, row[held])

LEMMA RowCounts ==
  ASSUME NEW tr \in Traces, NEW F, Counts(F, tr), NEW n \in 0..Len(tr) - 1
  PROVE  \E p \in Page, row \in Rows, next \in Rows : IsLine(tr, F, n, p, row, next)
<1>1. n \in 0..MaxLines /\ n + 1 \in 0..MaxLines /\ n + 1 \in 1..Len(tr) /\ ~(n >= Len(tr))
  BY VmsimAssumption DEF Traces
<1>2. PICK p \in Page : p = tr[n + 1].page
  <2>1. tr[n + 1] \in [page : Page, write : BOOLEAN]
    BY <1>1, ElementOfSeq DEF Traces
  <2> QED
    BY <2>1
<1>3. F[n] \in Rows /\ F[n + 1] \in Rows
  BY <1>1 DEF Counts, Rows
<1>4. PICK row \in Rows, next \in Rows : row = F[n] /\ next = F[n + 1]
  BY <1>3
<1>5. row = Row(tr, n, next)
  BY <1>1, <1>4 DEF Counts
<1>6. \A held \in SUBSET Page : Serves(p, next, held, row[held])
  BY <1>1, <1>2, <1>5 DEF Row, Serves
<1> QED
  BY <1>2, <1>4, <1>6 DEF IsLine

\* The pages in memory but one, when no frame is empty.
OneLess == {T \in SUBSET Page : IsFiniteSet(T) /\ Cardinality(T) = NumFrames - 1}

With(T, x) == T \cup {x}

Swapped(T, q, p) == (T \ {q}) \cup {p}

LEMMA HitServes ==
  ASSUME NEW next \in Rows, NEW held \in SUBSET Page, NEW p \in held, NEW count,
         Serves(p, next, held, count)
  PROVE  count = next[held]
BY DEF Serves

LEMMA LoadServes ==
  ASSUME NEW next \in Rows, NEW held \in SUBSET Page, NEW p, p \notin held, NEW count,
         Serves(p, next, held, count), Cardinality(held) < NumFrames
  PROVE  count = 1 + next[With(held, p)]
BY DEF Serves, With

LEMMA EvictServes ==
  ASSUME NEW next \in Rows, NEW held \in SUBSET Page, NEW p \in Page, p \notin held, NEW count,
         Serves(p, next, held, count), ~(Cardinality(held) < NumFrames)
  PROVE  /\ \A q \in held : count <= 1 + next[Swapped(held, q, p)]
         /\ \E q \in held : count = 1 + next[Swapped(held, q, p)]
<1> DEFINE S == {next[Swapped(held, q, p)] : q \in held}
<1>1. count = 1 + Cheapest(next, held, p)
  BY DEF Serves
<1>2. Cheapest(next, held, p) = Opt!Min(S)
  BY DEF Cheapest, Swapped
<1>3. held # {}
  BY HeldIsNotEmpty
<1>4. \A r \in held : next[Swapped(held, r, p)] \in Nat
  BY DEF Swapped, Rows
<1>5. Opt!Min(S) \in S /\ \A y \in S : Opt!Min(S) <= y
  <2>1. S \in SUBSET Nat /\ S # {}
    BY <1>3, <1>4
  <2> HIDE DEF S
  <2> QED
    BY <2>1, MinIsLeast
<1>6. PICK m \in Nat : m = Opt!Min(S)
  BY <1>4, <1>5
<1>7. /\ \A r \in held : m <= next[Swapped(held, r, p)]
      /\ \E r \in held : m = next[Swapped(held, r, p)]
  BY <1>5, <1>6
<1>8. count = 1 + m
  BY <1>1, <1>2, <1>6
<1> HIDE DEF S
<1> QED
  BY <1>4, <1>7, <1>8

LEMMA FullSets ==
  ASSUME NEW T \in OneLess, NEW x \in Page \ T
  PROVE  /\ With(T, x) \in SUBSET Page
         /\ ~(Cardinality(With(T, x)) < NumFrames)
         /\ \A q \in T : Swapped(T, q, x) \in OneLess
<1>1. T \in SUBSET Page /\ IsFiniteSet(T) /\ Cardinality(T) = NumFrames - 1
  BY DEF OneLess
<1>2. Cardinality(With(T, x)) = Cardinality(T) + 1
  BY <1>1, FS_AddElement DEF With
<1>3. ASSUME NEW q \in T
      PROVE  Swapped(T, q, x) \in OneLess
  <2>1. IsFiniteSet(T \ {q}) /\ Cardinality(T \ {q}) = NumFrames - 1 - 1
    BY <1>1, FS_RemoveElement
  <2>2. /\ IsFiniteSet((T \ {q}) \cup {x})
        /\ Cardinality((T \ {q}) \cup {x}) = (NumFrames - 1 - 1) + 1
    BY <2>1, FS_AddElement
  <2>3. Cardinality((T \ {q}) \cup {x}) = NumFrames - 1
    BY <2>2, VmsimAssumption
  <2> QED
    BY <1>1, <2>2, <2>3 DEF Swapped, OneLess
<1> QED
  BY <1>1, <1>2, <1>3, VmsimAssumption DEF With

\* A fault when T and y are in memory: y goes, or a page q of T.
LEMMA FaultServes ==
  ASSUME NEW next \in Rows, NEW T \in OneLess, NEW y \in Page \ T, NEW p \in Page \ T,
         p # y, NEW count, Serves(p, next, With(T, y), count)
  PROVE  /\ count <= 1 + next[With(T, p)]
         /\ \A q \in T : count <= 1 + next[With(Swapped(T, q, p), y)]
         /\ \/ count = 1 + next[With(T, p)]
            \/ \E q \in T : count = 1 + next[With(Swapped(T, q, p), y)]
<1>1. PICK A \in SUBSET Page : A = With(T, y)
  BY FullSets
<1>2. p \notin A /\ ~(Cardinality(A) < NumFrames)
  BY <1>1, FullSets DEF With
<1>3. /\ \A q \in A : count <= 1 + next[Swapped(A, q, p)]
      /\ \E q \in A : count = 1 + next[Swapped(A, q, p)]
  BY <1>1, <1>2, EvictServes
<1>4. y \in A /\ Swapped(A, y, p) = With(T, p)
  BY <1>1 DEF With, Swapped
<1>5. \A q \in T : q \in A /\ Swapped(A, q, p) = With(Swapped(T, q, p), y)
  BY <1>1 DEF With, Swapped
<1>6. \A q \in A : q = y \/ q \in T
  BY <1>1 DEF With
<1> QED
  BY <1>3, <1>4, <1>5, <1>6

\* One page in the place of another costs one fault more at most.
Near(row) ==
  \A T \in OneLess : \A x, y \in Page \ T :
    x # y => row[With(T, x)] <= 1 + row[With(T, y)]

LEMMA RowsAreNumbers ==
  ASSUME NEW row \in Rows, NEW T \in OneLess, NEW x \in Page \ T
  PROVE  row[With(T, x)] \in Nat
BY FullSets DEF Rows

LEMMA NearStep ==
  ASSUME NEW row \in Rows, NEW next \in Rows, NEW p \in Page,
         \A held \in SUBSET Page : Serves(p, next, held, row[held]),
         Near(next)
  PROVE  Near(row)
<1> SUFFICES ASSUME NEW T \in OneLess, NEW x \in Page \ T, NEW y \in Page \ T, x # y
             PROVE  row[With(T, x)] <= 1 + row[With(T, y)]
  BY DEF Near
<1>1. /\ With(T, x) \in SUBSET Page /\ With(T, y) \in SUBSET Page
      /\ next[With(T, x)] \in Nat /\ next[With(T, y)] \in Nat
      /\ row[With(T, x)] \in Nat /\ row[With(T, y)] \in Nat
  BY FullSets, RowsAreNumbers
<1>2. PICK a, b : a = row[With(T, x)] /\ b = row[With(T, y)]
  OBVIOUS
<1>3. Serves(p, next, With(T, x), a) /\ Serves(p, next, With(T, y), b)
  BY <1>1, <1>2
<1>4. next[With(T, x)] <= 1 + next[With(T, y)]
  BY DEF Near
<1>5. CASE p \in T
  <2>1. p \in With(T, x) /\ p \in With(T, y)
    BY <1>5 DEF With
  <2>2. a = next[With(T, x)] /\ b = next[With(T, y)]
    BY <1>1, <1>3, <2>1, HitServes
  <2> QED
    BY <1>2, <1>4, <2>2
<1>6. CASE p = x
  <2>1. p \in With(T, x) /\ p \in Page \ T /\ p # y
    BY <1>6 DEF With
  <2>2. a = next[With(T, x)]
    BY <1>1, <1>3, <2>1, HitServes
  <2>3. \/ b = 1 + next[With(T, x)]
        \/ \E q \in T : b = 1 + next[With(Swapped(T, q, x), y)]
    BY <1>3, <1>6, <2>1, FaultServes
  <2>4. ASSUME NEW q \in T, b = 1 + next[With(Swapped(T, q, x), y)]
        PROVE  a <= 1 + b
    <3>1. Swapped(T, q, x) \in OneLess /\ q \in Page \ Swapped(T, q, x)
          /\ y \in Page \ Swapped(T, q, x) /\ q # y
          /\ With(Swapped(T, q, x), q) = With(T, x)
      BY FullSets DEF Swapped, With, OneLess
    <3>2. next[With(T, x)] <= 1 + next[With(Swapped(T, q, x), y)]
      BY <3>1 DEF Near
    <3>3. next[With(Swapped(T, q, x), y)] \in Nat
      BY <3>1, RowsAreNumbers
    <3> QED
      BY <1>1, <2>2, <2>4, <3>2, <3>3
  <2> QED
    BY <1>1, <1>2, <2>2, <2>3, <2>4
<1>7. CASE p = y
  <2>1. p \in With(T, y) /\ p \in Page \ T /\ p # x
    BY <1>7 DEF With
  <2>2. b = next[With(T, y)]
    BY <1>1, <1>3, <2>1, HitServes
  <2>3. a <= 1 + next[With(T, y)]
    BY <1>3, <1>7, <2>1, FaultServes
  <2> QED
    BY <1>2, <2>2, <2>3
<1>8. CASE p \notin T /\ p # x /\ p # y
  <2>1. p \in Page \ T
    BY <1>8
  <2>2. /\ a <= 1 + next[With(T, p)]
        /\ \A q \in T : a <= 1 + next[With(Swapped(T, q, p), x)]
        /\ \/ b = 1 + next[With(T, p)]
           \/ \E q \in T : b = 1 + next[With(Swapped(T, q, p), y)]
    BY <1>3, <1>8, <2>1, FaultServes
  <2>3. ASSUME NEW q \in T, b = 1 + next[With(Swapped(T, q, p), y)]
        PROVE  a <= 1 + b
    <3>1. /\ Swapped(T, q, p) \in OneLess
          /\ x \in Page \ Swapped(T, q, p) /\ y \in Page \ Swapped(T, q, p)
      BY <1>8, <2>1, FullSets DEF Swapped
    <3>2. next[With(Swapped(T, q, p), x)] <= 1 + next[With(Swapped(T, q, p), y)]
      BY <3>1 DEF Near
    <3>3. /\ next[With(Swapped(T, q, p), x)] \in Nat
          /\ next[With(Swapped(T, q, p), y)] \in Nat
      BY <3>1, RowsAreNumbers
    <3>4. a <= 1 + next[With(Swapped(T, q, p), x)]
      BY <2>2
    <3> QED
      BY <1>1, <1>2, <2>3, <3>2, <3>3, <3>4
  <2>4. next[With(T, p)] \in Nat
    BY <2>1, RowsAreNumbers
  <2> QED
    BY <1>1, <1>2, <2>2, <2>3, <2>4
<1> QED
  BY <1>5, <1>6, <1>7, <1>8

\* Page a in the place of page b costs nothing.
Better(row, a, b) ==
  \A T \in OneLess : a \notin T /\ b \notin T => row[With(T, a)] <= row[With(T, b)]

\* It is so before the access of a page if it is so after it, or if the page is a.
LEMMA BetterStep ==
  ASSUME NEW row \in Rows, NEW next \in Rows, NEW p \in Page,
         \A held \in SUBSET Page : Serves(p, next, held, row[held]),
         NEW a \in Page, NEW b \in Page, a # b, p # b,
         Near(next), p = a \/ Better(next, a, b)
  PROVE  Better(row, a, b)
<1> SUFFICES ASSUME NEW T \in OneLess, a \notin T, b \notin T
             PROVE  row[With(T, a)] <= row[With(T, b)]
  BY DEF Better
<1>1. /\ With(T, a) \in SUBSET Page /\ With(T, b) \in SUBSET Page
      /\ next[With(T, a)] \in Nat /\ next[With(T, b)] \in Nat
      /\ row[With(T, a)] \in Nat /\ row[With(T, b)] \in Nat
      /\ a \in Page \ T /\ b \in Page \ T
  BY FullSets, RowsAreNumbers
<1>2. PICK i, j : i = row[With(T, a)] /\ j = row[With(T, b)]
  OBVIOUS
<1>3. Serves(p, next, With(T, a), i) /\ Serves(p, next, With(T, b), j)
  BY <1>1, <1>2
<1>4. CASE p \in T
  <2>1. p \in With(T, a) /\ p \in With(T, b) /\ p # a
    BY <1>4 DEF With
  <2>2. i = next[With(T, a)] /\ j = next[With(T, b)]
    BY <1>1, <1>3, <2>1, HitServes
  <2>3. next[With(T, a)] <= next[With(T, b)]
    BY <2>1 DEF Better
  <2> QED
    BY <1>2, <2>2, <2>3
<1>5. CASE p = a
  <2>1. p \in With(T, a) /\ p \in Page \ T /\ p # b
    BY <1>1, <1>5 DEF With
  <2>2. i = next[With(T, a)]
    BY <1>1, <1>3, <2>1, HitServes
  <2>3. \/ j = 1 + next[With(T, a)]
        \/ \E q \in T : j = 1 + next[With(Swapped(T, q, a), b)]
    BY <1>1, <1>3, <1>5, <2>1, FaultServes
  <2>4. ASSUME NEW q \in T, j = 1 + next[With(Swapped(T, q, a), b)]
        PROVE  i <= j
    <3>1. Swapped(T, q, a) \in OneLess /\ q \in Page \ Swapped(T, q, a)
          /\ b \in Page \ Swapped(T, q, a) /\ q # b
          /\ With(Swapped(T, q, a), q) = With(T, a)
      BY <1>1, FullSets DEF Swapped, With, OneLess
    <3>2. next[With(T, a)] <= 1 + next[With(Swapped(T, q, a), b)]
      BY <3>1 DEF Near
    <3> QED
      BY <2>2, <2>4, <3>2
  <2> QED
    BY <1>1, <1>2, <2>2, <2>3, <2>4
<1>6. CASE p \notin T /\ p # a
  <2>1. p \in Page \ T /\ Better(next, a, b)
    BY <1>6
  <2>2. /\ i <= 1 + next[With(T, p)]
        /\ \A q \in T : i <= 1 + next[With(Swapped(T, q, p), a)]
    BY <1>1, <1>3, <1>6, <2>1, FaultServes
  <2>3. \/ j = 1 + next[With(T, p)]
        \/ \E q \in T : j = 1 + next[With(Swapped(T, q, p), b)]
    BY <1>1, <1>3, <2>1, FaultServes
  <2>4. ASSUME NEW q \in T, j = 1 + next[With(Swapped(T, q, p), b)]
        PROVE  i <= j
    <3>1. /\ Swapped(T, q, p) \in OneLess
          /\ a \in Page \ Swapped(T, q, p) /\ b \in Page \ Swapped(T, q, p)
      BY <1>1, <1>6, <2>1, FullSets DEF Swapped
    <3>2. next[With(Swapped(T, q, p), a)] <= next[With(Swapped(T, q, p), b)]
      BY <2>1, <3>1 DEF Better
    <3>3. /\ next[With(Swapped(T, q, p), a)] \in Nat
          /\ next[With(Swapped(T, q, p), b)] \in Nat
      BY <3>1, RowsAreNumbers
    <3>4. i <= 1 + next[With(Swapped(T, q, p), a)]
      BY <2>2
    <3> QED
      BY <1>1, <1>2, <2>4, <3>2, <3>3, <3>4
  <2> QED
    BY <1>1, <1>2, <2>2, <2>3, <2>4
<1> QED
  BY <1>4, <1>5, <1>6

-----------------------------------------------------------------------------
\* In trace tr, from line n on, page a is accessed before each access of page b.
Before(tr, n, a, b) ==
  \A j \in n..Len(tr) - 1 : tr[j + 1].page = b => \E i \in n..j - 1 : tr[i + 1].page = a

\* At the end of the trace there are no faults.
LEMMA NoFaultsAtEnd ==
  ASSUME NEW tr \in Traces, NEW F, Counts(F, tr), NEW n \in 0..MaxLines, n >= Len(tr),
         NEW held \in SUBSET Page
  PROVE  F[n][held] = 0
BY DEF Counts, Row

LEMMA LastRow ==
  ASSUME NEW tr \in Traces, NEW F, Counts(F, tr), NEW n \in 0..MaxLines, n >= Len(tr),
         NEW T \in OneLess, NEW x \in Page \ T
  PROVE  F[n][With(T, x)] = 0
BY NoFaultsAtEnd, FullSets

LEMMA AllNear ==
  ASSUME NEW tr \in Traces, NEW F, Counts(F, tr), NEW n \in 0..MaxLines
  PROVE  Near(F[n])
<1> DEFINE S == {k \in Nat : k <= MaxLines => Near(F[MaxLines - k])}
<1>1. Len(tr) \in Nat /\ MaxLines \in Nat /\ Len(tr) <= MaxLines
  BY VmsimAssumption DEF Traces
<1>2. ASSUME NEW m \in 0..MaxLines, m < Len(tr) => Near(F[m + 1])
      PROVE  Near(F[m])
  <2>1. CASE m >= Len(tr)
    BY <1>1, <2>1, LastRow DEF Near
  <2>2. CASE m < Len(tr)
    <3>1. m \in 0..Len(tr) - 1
      BY <1>1, <2>2
    <3>a. PICK p \in Page, row \in Rows, next \in Rows : IsLine(tr, F, m, p, row, next)
      BY <3>1, RowCounts
    <3>2. /\ p = tr[m + 1].page /\ row = F[m] /\ next = F[m + 1]
          /\ \A held \in SUBSET Page : Serves(p, next, held, row[held])
      BY <3>a DEF IsLine
    <3>3. Near(next)
      BY <1>2, <2>2, <3>2
    <3>4. Near(row)
      BY <3>2, <3>3, NearStep
    <3> QED
      BY <3>2, <3>4
  <2> QED
    BY <1>1, <2>1, <2>2
<1>3. 0 \in S
  <2>1. MaxLines \in 0..MaxLines /\ MaxLines - 0 = MaxLines /\ ~(MaxLines < Len(tr))
    BY <1>1
  <2>2. Near(F[MaxLines])
    BY <1>2, <2>1
  <2> QED
    BY <2>1, <2>2
<1>4. ASSUME NEW k \in Nat, k \in S
      PROVE  k + 1 \in S
  <2> SUFFICES ASSUME k + 1 <= MaxLines
               PROVE  Near(F[MaxLines - (k + 1)])
    OBVIOUS
  <2>1. PICK m : m = MaxLines - (k + 1)
    OBVIOUS
  <2>2. m \in 0..MaxLines /\ m + 1 = MaxLines - k /\ k <= MaxLines
    BY <1>1, <2>1
  <2>3. Near(F[m + 1])
    BY <1>4, <2>2
  <2> QED
    BY <1>2, <2>1, <2>2, <2>3
<1>5. S = Nat
  <2>1. S \in SUBSET Nat
    OBVIOUS
  <2> HIDE DEF S
  <2> QED
    BY <1>3, <1>4, <2>1, NatByNat
<1>6. MaxLines - n \in Nat /\ MaxLines - n <= MaxLines /\ MaxLines - (MaxLines - n) = n
  BY <1>1
<1> QED
  BY <1>5, <1>6

LEMMA BeforeGoesOn ==
  ASSUME NEW tr \in Traces, NEW n \in 0..Len(tr) - 1, NEW a, NEW b, Before(tr, n, a, b)
  PROVE  tr[n + 1].page # b /\ (tr[n + 1].page # a => Before(tr, n + 1, a, b))
<1>1. Len(tr) \in Nat
  BY DEF Traces
<1>2. tr[n + 1].page # b
  BY <1>1 DEF Before
<1>3. ASSUME tr[n + 1].page # a
      PROVE  Before(tr, n + 1, a, b)
  <2> SUFFICES ASSUME NEW j \in (n + 1)..Len(tr) - 1, tr[j + 1].page = b
               PROVE  \E i \in (n + 1)..j - 1 : tr[i + 1].page = a
    BY DEF Before
  <2>1. PICK i \in n..j - 1 : tr[i + 1].page = a
    BY <1>1 DEF Before
  <2>2. i # n
    BY <1>3, <2>1
  <2> QED
    BY <2>1, <2>2
<1> QED
  BY <1>2, <1>3

\* To hold the page that is accessed sooner costs nothing.
LEMMA SoonerIsBetter ==
  ASSUME NEW tr \in Traces, NEW F, Counts(F, tr), NEW n \in 0..MaxLines,
         NEW a \in Page, NEW b \in Page, a # b, Before(tr, n, a, b)
  PROVE  Better(F[n], a, b)
<1> DEFINE Holds(m) == Before(tr, m, a, b) => Better(F[m], a, b)
           S == {k \in Nat : k <= MaxLines => Holds(MaxLines - k)}
<1>1. Len(tr) \in Nat /\ MaxLines \in Nat /\ Len(tr) <= MaxLines
  BY VmsimAssumption DEF Traces
<1>2. ASSUME NEW m \in 0..MaxLines, m < Len(tr) => Holds(m + 1)
      PROVE  Holds(m)
  <2> SUFFICES ASSUME Before(tr, m, a, b)
               PROVE  Better(F[m], a, b)
    OBVIOUS
  <2>1. CASE m >= Len(tr)
    BY <1>1, <2>1, LastRow DEF Better
  <2>2. CASE m < Len(tr)
    <3>1. m \in 0..Len(tr) - 1 /\ m + 1 \in 0..MaxLines
      BY <1>1, <2>2
    <3>a. PICK p \in Page, row \in Rows, next \in Rows : IsLine(tr, F, m, p, row, next)
      BY <3>1, RowCounts
    <3>2. /\ p = tr[m + 1].page /\ row = F[m] /\ next = F[m + 1]
          /\ \A held \in SUBSET Page : Serves(p, next, held, row[held])
      BY <3>a DEF IsLine
    <3>3. Near(next)
      BY <3>1, <3>2, AllNear
    <3>4. p # b /\ (p # a => Better(next, a, b))
      BY <1>2, <2>2, <3>1, <3>2, BeforeGoesOn
    <3>5. Better(row, a, b)
      BY <3>2, <3>3, <3>4, BetterStep
    <3> QED
      BY <3>2, <3>5
  <2> QED
    BY <1>1, <2>1, <2>2
<1> HIDE DEF Holds
<1>3. 0 \in S
  <2>1. MaxLines \in 0..MaxLines /\ MaxLines - 0 = MaxLines /\ ~(MaxLines < Len(tr))
    BY <1>1
  <2>2. Holds(MaxLines)
    BY <1>2, <2>1
  <2> QED
    BY <2>1, <2>2
<1>4. ASSUME NEW k \in Nat, k \in S
      PROVE  k + 1 \in S
  <2> SUFFICES ASSUME k + 1 <= MaxLines
               PROVE  Holds(MaxLines - (k + 1))
    OBVIOUS
  <2>1. PICK m : m = MaxLines - (k + 1)
    OBVIOUS
  <2>2. m \in 0..MaxLines /\ m + 1 = MaxLines - k /\ k <= MaxLines
    BY <1>1, <2>1
  <2>3. Holds(m + 1)
    BY <1>4, <2>2
  <2> QED
    BY <1>2, <2>1, <2>2, <2>3
<1>5. S = Nat
  <2>1. S \in SUBSET Nat
    OBVIOUS
  <2> HIDE DEF S
  <2> QED
    BY <1>3, <1>4, <2>1, NatByNat
<1>6. MaxLines - n \in Nat /\ MaxLines - n <= MaxLines /\ MaxLines - (MaxLines - n) = n
  BY <1>1
<1>7. Holds(n)
  BY <1>5, <1>6
<1> QED
  BY <1>7 DEF Holds

\* The faults so far and the fewest that can come are the fewest of the trace.
ServedBest ==
  /\ trace \in Traces
  /\ pass = 1 => page_faults = 0 /\ InMemory = {}
  /\ page_faults + Fewest(trace)[mem_accesses][InMemory] = Fewest(trace)[0][{}]

\* What the lists tell: the page of a frame that is needed later comes after the other.
LEMMA LaterIsAfter ==
  ASSUME OptTypes, FutureIsKnown, NEW f \in Frame, NEW g \in Frame, NotSooner(f, g),
         NEW a \in Page, NEW b \in Page, a # b,
         phys_mem[f].page = b, phys_mem[g].page = a
  PROVE  Before(trace, mem_accesses, a, b)
<1> DEFINE n == mem_accesses
           last == Len(trace) - 1
           Accessed(j) == trace[j + 1].page
<1>1. PICK s, t \in Seq(Nat) : s = access_order[a] /\ t = access_order[b]
  BY DEF OptTypes
<1>2. AreUses(s, n, a) /\ AreUses(t, n, b)
  BY <1>1 DEF FutureIsKnown
<1>3. /\ \A i \in 1..Len(s) : s[i] \in n..last /\ Accessed(s[i]) = a
      /\ \A i, j \in 1..Len(t) : i < j => t[i] < t[j]
      /\ \A m \in n..last : Accessed(m) = b => \E i \in 1..Len(t) : t[i] = m
  BY <1>2 DEF AreUses
<1>4. t = <<>> \/ (s # <<>> /\ t[1] >= s[1])
  BY <1>1 DEF NotSooner, Opt!Idle, Opt!NextUse
<1>5. n \in Nat /\ last \in Int
  BY DEF OptTypes
<1> SUFFICES ASSUME NEW j \in n..last, Accessed(j) = b
             PROVE  \E i \in n..j - 1 : Accessed(i) = a
  BY DEF Before
<1> HIDE DEF n, last, Accessed
<1>6. PICK k \in 1..Len(t) : t[k] = j
  BY <1>3
<1>7. 1 \in 1..Len(t) /\ t # <<>> /\ (1 < k => t[1] < t[k])
  BY <1>3, <1>6
<1>8. PICK y \in Nat : y = t[1]
  BY <1>7, ElementOfSeq
<1>9. s # <<>> /\ 1 \in 1..Len(s) /\ y >= s[1]
  BY <1>4, <1>7, <1>8
<1>10. PICK i \in n..last : i = s[1] /\ Accessed(i) = a
  BY <1>3, <1>9
<1>11. y = j \/ y < j
  BY <1>6, <1>7, <1>8
<1>12. i <= j /\ i # j
  BY <1>5, <1>9, <1>10, <1>11
<1>13. i \in n..j - 1
  BY <1>5, <1>12
<1> QED
  BY <1>10, <1>13

\* A line that is read the second time, and the counts before and after it.
LEMMA LineCounts ==
  ASSUME OptTypes, ServedBest, NEW p \in Page, Opt!ReadLine(p)
  PROVE  \E row \in Rows, next \in Rows :
           /\ IsLine(trace, Fewest(trace), mem_accesses, p, row, next)
           /\ Serves(p, next, InMemory, row[InMemory])
           /\ Counts(Fewest(trace), trace)
           /\ mem_accesses \in 0..Len(trace) - 1 /\ mem_accesses' = mem_accesses + 1
           /\ trace' = trace /\ pass' = pass /\ pass = 2
<1>1. /\ pass = 2 /\ mem_accesses < Len(trace) /\ p = trace[mem_accesses + 1].page
      /\ mem_accesses' = mem_accesses + 1 /\ trace' = trace /\ pass' = pass
  BY DEF Opt!ReadLine, Opt!Line
<1>2. mem_accesses \in 0..Len(trace) - 1 /\ trace \in Traces
  BY <1>1 DEF OptTypes, ServedBest
<1>3. Counts(Fewest(trace), trace)
  BY <1>2, FewestCounts
<1>4. PICK q \in Page, row \in Rows, next \in Rows :
        IsLine(trace, Fewest(trace), mem_accesses, q, row, next)
  BY <1>2, <1>3, RowCounts
<1>5. q = p
  BY <1>1, <1>4 DEF IsLine
<1>6. InMemory \in SUBSET Page
  BY DEF InMemory
<1>7. Serves(p, next, InMemory, row[InMemory])
  BY <1>4, <1>5, <1>6 DEF IsLine
<1> QED
  BY <1>1, <1>2, <1>3, <1>4, <1>5, <1>7

\* The access of the line has a fault or has none, and then the rest is as good as it was.
LEMMA ServedOn ==
  ASSUME OptTypes, ServedBest, NEW p \in Page, Opt!ReadLine(p), NEW faults \in {0, 1},
         page_faults' = page_faults + faults,
         NEW row \in Rows, NEW next \in Rows,
         IsLine(trace, Fewest(trace), mem_accesses, p, row, next),
         row[InMemory] = faults + next[InMemory']
  PROVE  ServedBest'
<1>1. mem_accesses' = mem_accesses + 1 /\ trace' = trace /\ pass' = 2
  BY DEF Opt!ReadLine
<1>2. row = Fewest(trace)[mem_accesses] /\ next = Fewest(trace)[mem_accesses + 1]
  BY DEF IsLine
<1>3. page_faults + row[InMemory] = Fewest(trace)[0][{}]
  BY <1>2 DEF ServedBest
<1>4. page_faults \in Nat /\ next[InMemory'] \in Nat
  BY DEF OptTypes, InMemory, Rows
<1>5. page_faults' + next[InMemory'] = Fewest(trace)[0][{}]
  BY <1>3, <1>4
<1>6. Fewest(trace') = Fewest(trace) /\ Fewest(trace)[mem_accesses'][InMemory'] = next[InMemory']
  BY <1>1, <1>2
<1> QED
  BY <1>1, <1>5, <1>6 DEF ServedBest

LEMMA ServedHit ==
  ASSUME OptInv, ServedBest, NEW p \in Page, Opt!Hit(p)
  PROVE  ServedBest'
<1>1. /\ Opt!ReadLine(p) /\ p \in InMemory
      /\ UNCHANGED <<page_to_entry, page_faults>>
  BY DEF Opt!Hit, Opt!Resident, Opt!NoFrame, InMemory
<1>2. PICK row \in Rows, next \in Rows :
        /\ IsLine(trace, Fewest(trace), mem_accesses, p, row, next)
        /\ Serves(p, next, InMemory, row[InMemory])
  BY <1>1, LineCounts DEF OptInv
<1>3. InMemory' = InMemory /\ InMemory \in SUBSET Page
  BY <1>1 DEF InMemory
<1>4. row[InMemory] = next[InMemory]
  BY <1>1, <1>2, <1>3, HitServes
<1>5. row[InMemory] = 0 + next[InMemory'] /\ page_faults' = page_faults + 0
  BY <1>1, <1>3, <1>4 DEF OptInv, OptTypes, Rows
<1> QED
  BY <1>1, <1>2, <1>5, ServedOn DEF OptInv

LEMMA ServedLoad ==
  ASSUME OptInv, ServedBest, NEW p \in Page, Opt!Load(p)
  PROVE  ServedBest'
<1>1. /\ Opt!ReadLine(p) /\ p \notin InMemory /\ frames_loaded < NumFrames
      /\ page_faults' = page_faults + 1
      /\ page_to_entry' = [page_to_entry EXCEPT ![p] = frames_loaded]
  BY DEF Opt!Load, Opt!Resident, Opt!NoFrame, Opt!Enter, InMemory
<1>2. PICK row \in Rows, next \in Rows :
        /\ IsLine(trace, Fewest(trace), mem_accesses, p, row, next)
        /\ Serves(p, next, InMemory, row[InMemory])
  BY <1>1, LineCounts DEF OptInv
<1>3. frames_loaded # -1 /\ page_to_entry \in [Page -> Frame \cup {-1}]
  BY VmsimAssumption DEF OptInv, OptTypes
<1>4. InMemory' = With(InMemory, p) /\ InMemory \in SUBSET Page
  BY <1>1, <1>3 DEF InMemory, With
<1>5. Cardinality(InMemory) < NumFrames
  BY <1>1 DEF OptInv, InAgreement
<1>6. row[InMemory] = 1 + next[InMemory']
  BY <1>1, <1>2, <1>4, <1>5, LoadServes
<1> QED
  BY <1>1, <1>2, <1>6, ServedOn DEF OptInv

LEMMA ServedEvict ==
  ASSUME OptInv, ServedBest, NEW p \in Page, Opt!Evict(p)
  PROVE  ServedBest'
<1> DEFINE c == Opt!Candidate[NumFrames - 1]
<1>1. /\ Opt!ReadLine(p) /\ p \notin InMemory /\ frames_loaded = NumFrames
      /\ page_faults' = page_faults + 1
      /\ page_to_entry' = [[page_to_entry EXCEPT ![phys_mem[c].page] = -1] EXCEPT ![p] = c]
  BY DEF Opt!Evict, Opt!Resident, Opt!NoFrame, Opt!Enter, Opt!Unmap, InMemory
<1>2. PICK f \in Frame : f = c /\ \A g \in Frame : NotSooner(f, g)
  BY <1>1, CandidateIsFarthest DEF OptInv, Farthest, Frame
<1> HIDE DEF c
<1>3. PICK v : v = phys_mem[f].page
  OBVIOUS
<1>4. v \in InMemory /\ v # p
  BY <1>1, <1>3, <1>2 DEF OptInv, InAgreement, InMemory, Frame
<1>5. PICK mem \in SUBSET Page : mem = InMemory
  BY DEF InMemory
<1>6. InMemory' = Swapped(mem, v, p)
  <2>1. page_to_entry' = [[page_to_entry EXCEPT ![v] = -1] EXCEPT ![p] = f]
    BY <1>1, <1>2, <1>3
  <2>2. f # -1 /\ page_to_entry \in [Page -> Frame \cup {-1}]
    BY <1>2 DEF OptInv, OptTypes, Frame
  <2> QED
    BY <1>4, <1>5, <2>1, <2>2 DEF InMemory, Swapped
<1>7. PICK row \in Rows, next \in Rows :
        /\ IsLine(trace, Fewest(trace), mem_accesses, p, row, next)
        /\ Serves(p, next, InMemory, row[InMemory])
        /\ Counts(Fewest(trace), trace)
        /\ mem_accesses \in 0..Len(trace) - 1
  BY <1>1, LineCounts DEF OptInv
<1>8. IsFiniteSet(mem) /\ Cardinality(mem) = NumFrames /\ ~(Cardinality(mem) < NumFrames)
  BY <1>1, <1>5, VmsimAssumption DEF OptInv, InAgreement
<1>9. /\ row[mem] <= 1 + next[Swapped(mem, v, p)]
      /\ \E q \in mem : row[mem] = 1 + next[Swapped(mem, q, p)]
  BY <1>1, <1>4, <1>5, <1>7, <1>8, EvictServes
<1>10. PICK q \in mem : row[mem] = 1 + next[Swapped(mem, q, p)]
  BY <1>9
<1>11. ASSUME q # v
       PROVE  next[Swapped(mem, v, p)] <= next[Swapped(mem, q, p)]
  <2>1. PICK g \in Frame : phys_mem[g].page = q
    BY <1>1, <1>5 DEF OptInv, InAgreement, InMemory, Frame
  <2>2. Before(trace, mem_accesses, q, v)
    BY <1>2, <1>3, <1>4, <1>5, <1>11, <2>1, LaterIsAfter DEF OptInv, InMemory
  <2>3. p = trace[mem_accesses + 1].page /\ p # q /\ trace \in Traces
    BY <1>1, <1>5, <1>7 DEF IsLine, ServedBest
  <2>4. Before(trace, mem_accesses + 1, q, v)
    BY <1>7, <2>2, <2>3, BeforeGoesOn
  <2>5. mem_accesses + 1 \in 0..MaxLines
    BY <1>7, <2>3, VmsimAssumption DEF Traces
  <2>6. q \in Page /\ v \in Page
    BY <1>4, <1>5
  <2>7. Better(Fewest(trace)[mem_accesses + 1], q, v)
    BY <1>7, <1>11, <2>3, <2>4, <2>5, <2>6, SoonerIsBetter
  <2>8. Better(next, q, v)
    BY <1>7, <2>7 DEF IsLine
  <2>9. PICK T \in OneLess : T = mem \ {v}
    <3>1. IsFiniteSet(mem \ {v}) /\ Cardinality(mem \ {v}) = NumFrames - 1
      BY <1>4, <1>5, <1>8, FS_RemoveElement
    <3> QED
      BY <3>1 DEF OneLess
  <2>10. Swapped(T, q, p) \in OneLess /\ q \notin Swapped(T, q, p) /\ v \notin Swapped(T, q, p)
    BY <1>1, <1>4, <1>5, <1>11, <2>3, <2>9, FullSets DEF Swapped
  <2>11. /\ With(Swapped(T, q, p), q) = Swapped(mem, v, p)
         /\ With(Swapped(T, q, p), v) = Swapped(mem, q, p)
    BY <1>4, <1>5, <1>11, <2>9 DEF Swapped, With
  <2> QED
    BY <2>8, <2>10, <2>11 DEF Better
<1>12. row[InMemory] = 1 + next[InMemory']
  <2>1. next[Swapped(mem, v, p)] \in Nat /\ next[Swapped(mem, q, p)] \in Nat
    BY <1>5 DEF Swapped, Rows
  <2>2. next[Swapped(mem, v, p)] <= next[Swapped(mem, q, p)]
    BY <1>11, <2>1
  <2> QED
    BY <1>5, <1>6, <1>9, <1>10, <2>1, <2>2
<1> QED
  BY <1>1, <1>7, <1>12, ServedOn DEF OptInv

LEMMA ServedNote ==
  ASSUME OptInv, ServedBest, NEW p \in Page, NEW write \in BOOLEAN, Opt!Note(p, write)
  PROVE  ServedBest'
<1>1. /\ pass = 1 /\ Len(trace) < MaxLines
      /\ trace' = Append(trace, [page |-> p, write |-> write])
      /\ UNCHANGED <<pass, mem_accesses, page_to_entry, page_faults>>
  BY DEF Opt!Note, Opt!mem
<1>2. page_faults = 0 /\ InMemory = {} /\ mem_accesses = 0
  BY <1>1 DEF ServedBest, OptInv, FutureIsKnown
<1>3. InMemory' = InMemory
  BY <1>1 DEF InMemory
<1>4. trace' \in Traces
  BY <1>1, VmsimAssumption DEF OptInv, OptTypes, Traces
<1>5. PICK tr \in Traces : tr = trace'
  BY <1>4
<1>6. Counts(Fewest(tr), tr)
  BY FewestCounts
<1>7. Fewest(tr)[0][{}] \in Nat
  BY <1>6, VmsimAssumption DEF Counts
<1>8. 0 + Fewest(trace')[0][{}] = Fewest(trace')[0][{}]
  BY <1>5, <1>7
<1> QED
  BY <1>1, <1>2, <1>3, <1>4, <1>8 DEF ServedBest

LEMMA ServedStep ==
  ASSUME OptInv, ServedBest, Opt!Next
  PROVE  ServedBest'
<1>1. ASSUME Opt!Reopen
      PROVE  ServedBest'
  <2>1. pass' = 2 /\ UNCHANGED <<trace, mem_accesses, page_to_entry, page_faults>>
    BY <1>1 DEF Opt!Reopen, Opt!mem
  <2>2. InMemory' = InMemory
    BY <2>1 DEF InMemory
  <2> QED
    BY <2>1, <2>2 DEF ServedBest
<1> QED
  BY <1>1, ServedNote, ServedHit, ServedLoad, ServedEvict DEF Opt!Next

-----------------------------------------------------------------------------
(* All of it.                                                              *)

LEMMA ClockStep ==
  ASSUME ClockInv, Clock!Next
  PROVE  ClockInv' /\ Works
<1>1. \/ \E p \in Page, write \in BOOLEAN :
           Clock!Hit(p, write) \/ Clock!Load(p, write) \/ Clock!Fault(p, write)
      \/ Clock!PassBy
      \/ Clock!Evict
  BY DEF Clock!Next, Clock!Sweep
<1> QED
  BY <1>1, ClockHit, ClockLoad, ClockFault, ClockPassBy, ClockEvict DEF Works

LEMMA NruStep ==
  ASSUME NruInv, Nru!Next
  PROVE  NruInv' /\ Works
<1>1. \/ \E p \in Page, write \in BOOLEAN : Nru!ReadLine(p, write)
      \/ Nru!Hit
      \/ Nru!Load
      \/ \E p \in Page, c \in 0..3 : Nru!Evict(p, c)
  BY DEF Nru!Next, Nru!Access, Nru!Class
<1> QED
  BY <1>1, NruReadOn, NruRefresh, NruHit, NruLoad, NruEvict DEF Works

LEMMA OptBegins ==
  ASSUME Opt!Init, InAgreement
  PROVE  OptInv
<1>1. OptTypes
  <2>1. trace = <<>> /\ Len(trace) = 0
    BY DEF Opt!Init
  <2> QED
    BY <2>1, VmsimAssumption DEF Opt!Init, OptTypes, OptPTE, Frame, Opt!Frame, Opt!NoFrame
<1>2. FutureIsKnown
  BY DEF Opt!Init, FutureIsKnown, AreUses
<1> QED
  BY <1>1, <1>2 DEF OptInv

\* What is said of a line.
LEMMA PagesSay ==
  ASSUME SaidTyped, Works
  PROVE  SaidTyped'
BY DEF SaidTyped, Works, Rests, Pages, Hits, Loads, Evicts

LEMMA FifoSays ==
  ASSUME Fifo!Next
  PROVE  SaidTyped'
BY DEF SaidTyped, Fifo!Next, Fifo!Hit, Fifo!Load, Fifo!Evict

LEMMA IInvInit == Init => IInv
<1> SUFFICES ASSUME Init
             PROVE  IInv
  OBVIOUS
<1>1. ASSUME page_to_entry = [p \in Page |-> -1], frames_loaded = 0
      PROVE  InMemory = {} /\ InAgreement
  <2>1. InMemory = {}
    BY <1>1 DEF InMemory
  <2> QED
    BY <1>1, <2>1, FS_EmptySet DEF InAgreement
<1>7. ASSUME page_to_entry = [p \in Page |-> -1], written = {}
      PROVE  DirtyIsWritten
  BY <1>7 DEF InMemory, Unsaved, DirtyIsWritten
<1>2. SaidTyped
  BY DEF Init, Clock!Init, Fifo!Init, Nru!Init, Opt!Init, SaidTyped
<1>3. CASE algorithm = "clock" /\ Clock!Init
  <2>1. ClockTypes
    BY <1>3, VmsimAssumption
    DEF Clock!Init, ClockTypes, Frame, Clock!Frame, Clock!PTE, Clock!NoFrame
  <2>2. InAgreement
    BY <1>1, <1>3 DEF Clock!Init, Clock!NoFrame
  <2>3. WaitsForEviction /\ HotIsRef
    BY <1>3 DEF Clock!Init, WaitsForEviction, HotIsRef
  <2> QED
    BY <1>2, <1>3, <1>7, <2>1, <2>2, <2>3 DEF IInv, ClockInv, Clock!Init, Clock!NoFrame
<1>4. CASE algorithm = "nru" /\ Nru!Init
  <2>1. NruTypes
    BY <1>4, VmsimAssumption
    DEF Nru!Init, NruTypes, Frame, Nru!Frame, Nru!PTE, Nru!NoFrame, Nru!NoClass, Nru!Class
  <2>2. InMemory = {} /\ InAgreement
    BY <1>1, <1>4 DEF Nru!Init, Nru!NoFrame
  <2>3. \A p \in Page, c \in 0..3 : class[c][p] = 0
    BY <1>4 DEF Nru!Init, Nru!Class
  <2>4. PagesMatch /\ HotPageIsRef
    BY <2>2, <2>3 DEF PagesMatch, PageMatches, OnlyIn, HotPageIsRef
  <2> QED
    BY <1>2, <1>4, <1>7, <2>1, <2>2, <2>4 DEF IInv, NruInv, Nru!Init, Nru!NoFrame
<1>5. CASE algorithm = "fifo" /\ Fifo!Init
  BY <1>2, <1>5, FifoBegins DEF IInv, Honest
<1>6. CASE algorithm = "opt" /\ Opt!Init
  <2>1. InAgreement
    BY <1>1, <1>6 DEF Opt!Init, Opt!NoFrame
  <2>2. OptInv
    BY <1>6, <2>1, OptBegins
  <2> QED
    BY <1>2, <1>6, <1>7, <2>2 DEF IInv, Opt!Init, Opt!NoFrame
<1> QED
  BY <1>3, <1>4, <1>5, <1>6 DEF Init

LEMMA RunClockStep ==
  ASSUME IInv, RunClock
  PROVE  /\ algorithm = "clock" /\ algorithm' = "clock" /\ IInv'
         /\ Works
<1>1. algorithm = "clock" /\ algorithm' = "clock" /\ ClockInv /\ Clock!Next
  BY DEF RunClock, IInv
<1>2. ClockInv' /\ Works
  BY <1>1, ClockStep
<1>3. SaidTyped' /\ DirtyIsWritten'
  BY <1>1, <1>2, PagesSay, DirtyStaysWritten DEF IInv, Honest
<1> QED
  BY <1>1, <1>2, <1>3 DEF IInv

LEMMA RunNruStep ==
  ASSUME IInv, RunNru
  PROVE  /\ algorithm = "nru" /\ algorithm' = "nru" /\ IInv'
         /\ Works
<1>1. algorithm = "nru" /\ algorithm' = "nru" /\ NruInv /\ Nru!Next
  BY DEF RunNru, IInv
<1>2. NruInv' /\ Works
  BY <1>1, NruStep
<1>3. SaidTyped' /\ DirtyIsWritten'
  BY <1>1, <1>2, PagesSay, DirtyStaysWritten DEF IInv, Honest
<1> QED
  BY <1>1, <1>2, <1>3 DEF IInv

LEMMA RunOptStep ==
  ASSUME IInv, RunOpt
  PROVE  /\ algorithm = "opt" /\ algorithm' = "opt" /\ IInv'
         /\ Works
<1>1. algorithm = "opt" /\ algorithm' = "opt" /\ OptInv /\ Opt!Next
  BY DEF RunOpt, IInv
<1>2. OptInv' /\ Works
  BY <1>1, OptStep
<1>3. SaidTyped' /\ DirtyIsWritten'
  BY <1>1, <1>2, PagesSay, DirtyStaysWritten DEF IInv, Honest
<1> QED
  BY <1>1, <1>2, <1>3 DEF IInv

LEMMA RunFifoStep ==
  ASSUME IInv, RunFifo
  PROVE  /\ algorithm = "fifo" /\ algorithm' = "fifo" /\ IInv'
         /\ Slides
<1>1. algorithm = "fifo" /\ algorithm' = "fifo" /\ FifoInv /\ Fifo!Next
  BY DEF RunFifo, IInv
<1>2. FifoInv' /\ Slides
  BY <1>1, FifoStep
<1>3. SaidTyped'
  BY <1>1, FifoSays
<1> QED
  BY <1>1, <1>2, <1>3 DEF IInv, Honest

LEMMA IInvRests ==
  ASSUME IInv, UNCHANGED vars
  PROVE  IInv' /\ algorithm' = algorithm /\ Rests
<1>1. UNCHANGED <<algorithm, phys_mem, page_to_entry, frames_loaded, said, written, clock_hand,
                  page_to_class, class, ticks, line, hot, frames, index,
                  trace, access_order, pass, mem_accesses, page_faults>>
  BY DEF vars, OnlyClock, OnlyFifo, OnlyNru, OnlyOpt, Lines
<1>2. InMemory' = InMemory /\ Rests
  BY <1>1 DEF InMemory, Unsaved, Rests
<1>3. InAgreement' <=> InAgreement
  BY <1>1, <1>2 DEF InAgreement
<1>4. ClockInv => ClockInv'
  BY <1>1, <1>2, <1>3 DEF ClockInv, ClockTypes, WaitsForEviction, HotIsRef, PassedIn
<1>5. NruInv => NruInv'
  BY <1>1, <1>2, <1>3 DEF NruInv, NruTypes, PagesMatch, PageMatches, OnlyIn, HotPageIsRef
<1>6. FifoInv => FifoInv'
  BY <1>1, <1>2 DEF FifoInv, FifoTypes, FilledInOrder
<1>7. OptInv => OptInv'
  BY <1>1, <1>2, <1>3 DEF OptInv, OptTypes, FutureIsKnown, AreUses
<1>8. SaidTyped => SaidTyped'
  BY <1>1 DEF SaidTyped
<1>9. /\ Honest' <=> Honest
      /\ DirtyIsWritten => DirtyIsWritten'
  BY <1>1, <1>2 DEF Honest, DirtyIsWritten, Rests
<1> QED
  BY <1>1, <1>2, <1>4, <1>5, <1>6, <1>7, <1>8, <1>9 DEF IInv

LEMMA IInvStep == IInv /\ [Next]_vars => IInv'
<1> SUFFICES ASSUME IInv, [Next]_vars
             PROVE  IInv'
  OBVIOUS
<1>1. CASE RunClock
  BY <1>1, RunClockStep
<1>2. CASE RunFifo
  BY <1>2, RunFifoStep
<1>3. CASE RunNru
  BY <1>3, RunNruStep
<1>4. CASE RunOpt
  BY <1>4, RunOptStep
<1>5. CASE UNCHANGED vars
  BY <1>5, IInvRests
<1> QED
  BY <1>1, <1>2, <1>3, <1>4, <1>5 DEF Next

\* The invariant holds in every state of the program.
THEOREM IInvHolds == Spec => []IInv
BY IInvInit, IInvStep, PTL DEF Spec

\* nru: the four lists, the map of pages to classes and the bits of the entries say
\* the same of every page, over any hits, refreshes and evictions.
THEOREM ClassesAgree == Spec => []ClassesMatchBits
<1>1. IInv => ClassesMatchBits
  BY MatchesAreTheSame DEF IInv, NruInv, ClassesMatchBits
<1> QED
  BY <1>1, IInvHolds, PTL

LEMMA SecondChanceStep ==
  IInv /\ [Next]_vars => (algorithm = "clock" => Clock!ASecondChance)
<1> SUFFICES ASSUME IInv, [Next]_vars, algorithm = "clock",
                    line # Clock!NoLine, line' = Clock!NoLine, clock_hand \in hot
             PROVE  \A f \in Frame : ~phys_mem[f].ref
  BY DEF Clock!ASecondChance, Frame, Clock!Frame
<1>1. line' # line
  OBVIOUS
<1>2. RunClock
  BY <1>1 DEF Next, RunFifo, RunNru, RunOpt, vars, Lines
<1>3. Clock!Evict
  BY <1>1, <1>2 DEF RunClock, Clock!Next, Clock!Sweep, Clock!Hit, Clock!Load, Clock!Fault,
                    Clock!PassBy
<1> QED
  BY <1>3, ClockWentRound DEF IInv

\* clock: a page that was used since the last eviction is evicted only when the hand
\* found every frame referenced and went all the way round.
THEOREM SparesTheUsed == Spec => SecondChance
BY IInvHolds, SecondChanceStep, PTL DEF Spec, SecondChance

LEMMA WorthIsClass ==
  ASSUME NruInv, DirtyIsWritten, NEW q \in InMemory
  PROVE  Nru!Worth(q) = page_to_class[q]
<1>1. /\ page_to_class[q] = Bits(phys_mem[page_to_entry[q]])
      /\ q \in hot <=> phys_mem[page_to_entry[q]].ref
  BY InMemoryIsListed DEF NruInv, HotPageIsRef
<1>2. q \in written <=> phys_mem[page_to_entry[q]].dirty
  BY DEF DirtyIsWritten, Unsaved
<1> QED
  BY <1>1, <1>2, BitsAreAClass DEF Nru!Worth

LEMMA LeastWorthStep ==
  IInv /\ [Next]_vars => (algorithm = "nru" => Nru!LeastWorthGoes)
<1> SUFFICES ASSUME IInv, [Next]_vars, algorithm = "nru",
                    NEW p \in Page, p \in InMemory, p \notin InMemory',
                    NEW q \in Page, q \in InMemory
             PROVE  Nru!Worth(p) <= Nru!Worth(q)
  BY DEF Nru!LeastWorthGoes, Nru!Resident, Nru!NoFrame, InMemory
<1>1. NruInv /\ DirtyIsWritten
  BY DEF IInv, Honest
<1>2. page_to_entry' # page_to_entry
  BY DEF InMemory
<1>3. Nru!Next
  BY <1>2 DEF Next, RunClock, RunFifo, RunOpt, RunNru, vars
<1>4. ~Nru!Load
  <2>1. ASSUME Nru!Load
        PROVE  page_to_entry' = [page_to_entry EXCEPT ![line.page] = frames_loaded]
    BY <2>1 DEF Nru!Load, Nru!Enter
  <2>2. page_to_entry \in [Page -> Frame \cup {-1}] /\ frames_loaded \in Nat
    BY <1>1, VmsimAssumption DEF NruInv, NruTypes
  <2> QED
    BY <2>1, <2>2 DEF InMemory
<1>5. PICK v \in Page, c \in 0..3 : Nru!Evict(v, c)
  BY <1>2, <1>3, <1>4 DEF Nru!Next, Nru!Access, Nru!ReadLine, Nru!Hit, Nru!Class
<1>6. p = v /\ page_to_class[p] = c
  BY <1>1, <1>5, NruEvict
<1>7. \A d \in 0..c - 1 : class[d][q] = 0
  <2>1. \A d \in 0..c - 1 : ~Nru!In(q, d) /\ d \in 0..3
    BY <1>5 DEF Nru!Evict, Nru!VictimClass, Nru!Empty
  <2> QED
    BY <1>1, <2>1 DEF Nru!In, NruInv, NruTypes
<1>8. page_to_class[q] \in 0..3 /\ class[page_to_class[q]][q] = 1
  BY <1>1, InMemoryIsListed
<1>9. page_to_class[p] <= page_to_class[q]
  BY <1>6, <1>7, <1>8
<1> QED
  BY <1>1, <1>9, WorthIsClass

\* nru: no page is evicted while another in memory is worth less, told from what was
\* accessed since the last refresh and written since it was loaded.
THEOREM LeastWorth == Spec => EvictsLeastWorth
BY IInvHolds, LeastWorthStep, PTL DEF Spec, EvictsLeastWorth

\* Whatever the algorithm, its variables keep their types: in particular every frame of
\* the map is one of the frames, also the candidate that opt's loop ends with.
THEOREM VmsimTypesHold == Spec => []TypeOK
<1>1. IInv => TypeOK
  <2> SUFFICES ASSUME IInv
               PROVE  TypeOK
    OBVIOUS
  <2>1. CASE algorithm = "clock"
    <3>1. ClockTypes /\ SaidTyped /\ written \in SUBSET Page
      BY <2>1 DEF IInv, ClockInv, Honest, DirtyIsWritten, Unsaved, InMemory
    <3>2. Clock!TypeOK
      BY <3>1 DEF ClockTypes, SaidTyped, Clock!TypeOK, Clock!Frame, Clock!NoFrame, Frame
    <3> QED
      BY <2>1, <3>2 DEF TypeOK
  <2>2. CASE algorithm = "fifo"
    <3>1. FifoTypes /\ SaidTyped
      BY <2>2 DEF IInv, FifoInv
    <3>2. Fifo!TypeOK
      BY <3>1 DEF FifoTypes, SaidTyped, FifoPTE, Fifo!TypeOK, Fifo!phys_flq!TypeOK, Fifo!PTE,
                  Fifo!Frame, Fifo!phys_flq!Slot, Fifo!NoFrame, Frame
    <3> QED
      BY <2>2, <3>2 DEF TypeOK
  <2>3. CASE algorithm = "nru"
    <3>1. NruTypes /\ SaidTyped /\ written \in SUBSET Page
      BY <2>3 DEF IInv, NruInv, Honest, DirtyIsWritten, Unsaved, InMemory
    <3>2. Nru!Class \cup {Nru!NoClass} = -1..3
      BY DEF Nru!Class, Nru!NoClass
    <3>3. Nru!TypeOK
      BY <3>1, <3>2 DEF NruTypes, SaidTyped, Nru!TypeOK, Nru!Frame, Nru!NoFrame, Nru!Class, Frame
    <3> QED
      BY <2>3, <3>3 DEF TypeOK
  <2>4. CASE algorithm = "opt"
    <3>1. OptTypes /\ SaidTyped /\ written \in SUBSET Page
      BY <2>4 DEF IInv, OptInv, Honest, DirtyIsWritten, Unsaved, InMemory
    <3>2. Opt!TypeOK
      BY <3>1 DEF OptTypes, SaidTyped, OptPTE, Opt!TypeOK, Opt!PTE, Opt!Frame, Opt!NoFrame, Frame
    <3> QED
      BY <2>4, <3>2 DEF TypeOK
  <2> QED
    BY <2>1, <2>2, <2>3, <2>4 DEF IInv
<1> QED
  BY <1>1, IInvHolds, PTL

\* clock, nru and opt are demand paging: a fault evicts a page in memory, and only when
\* all frames are taken, and no modified page is dropped without a write.
THEOREM AlgorithmsKeepPromise == Spec => KeepsPromise
<1>1. Init => Paging!Init
  <2> SUFFICES ASSUME Init
               PROVE  Paging!Init
    OBVIOUS
  <2>1. page_to_entry = [p \in Page |-> -1] /\ said = "nothing"
    BY DEF Init, Clock!Init, Fifo!Init, Nru!Init, Opt!Init, Clock!NoFrame, Fifo!NoFrame,
           Nru!NoFrame, Opt!NoFrame
  <2>2. Resident = {}
    BY <2>1 DEF Resident, Clock!NoFrame
  <2>3. Honest => written = {}
    BY DEF Init, Honest, Clock!Init, Nru!Init, Opt!Init
  <2> QED
    BY <2>1, <2>2, <2>3 DEF Paging!Init
<1>2. IInv /\ [Next]_vars => [Paging!Next]_(Paging!vars)
  <2> SUFFICES ASSUME IInv, [Next]_vars
               PROVE  [Paging!Next]_(Paging!vars)
    OBVIOUS
  <2>1. CASE algorithm = "fifo" /\ algorithm' = "fifo"
    <3>1. ~Honest /\ ~Honest'
      BY <2>1 DEF Honest
    <3>2. Resident = {} /\ Resident' = {}
      BY <3>1 DEF Resident
    <3> QED
      BY <3>1, <3>2 DEF Paging!vars
  <2>2. CASE Honest /\ algorithm' = algorithm /\ Works
    BY <2>2, PagesIsPaging, DirtyStaysWritten DEF IInv
  <2>3. CASE RunClock
    BY <2>2, <2>3, RunClockStep DEF Honest
  <2>4. CASE RunFifo
    BY <2>1, <2>4, RunFifoStep
  <2>5. CASE RunNru
    BY <2>2, <2>5, RunNruStep DEF Honest
  <2>6. CASE RunOpt
    BY <2>2, <2>6, RunOptStep DEF Honest
  <2>7. CASE UNCHANGED vars
    BY <2>1, <2>2, <2>7, IInvRests DEF Honest, IInv, Works
  <2> QED
    BY <2>3, <2>4, <2>5, <2>6, <2>7 DEF Next
<1> QED
  BY <1>1, <1>2, IInvHolds, PTL DEF Spec, KeepsPromise, Paging!Spec

\* fifo: the queue holds the pages that were loaded last, in the order in which they
\* were loaded, whatever the index is and although the map of pages forgets to follow.
THEOREM QueueKeepsNewest == Spec => KeepsNewest
<1> DEFINE window == IF algorithm = "fifo" THEN Fifo!InOrder ELSE <<>>
<1>1. Init => Memory!Init
  <2> SUFFICES ASSUME Init
               PROVE  window = <<>>
    BY DEF Memory!Init
  <2>1. CASE algorithm = "fifo" /\ Fifo!Init
    BY <2>1, FifoBegins
  <2> QED
    BY <2>1 DEF Init
<1>2. IInv /\ [Next]_vars => [Memory!Next]_window
  <2> SUFFICES ASSUME IInv, [Next]_vars
               PROVE  [Memory!Next]_window
    OBVIOUS
  <2>1. CASE algorithm # "fifo" /\ algorithm' # "fifo"
    BY <2>1
  <2>2. CASE algorithm = "fifo" /\ algorithm' = "fifo" /\ Slides
    <3>1. window = Fifo!InOrder /\ window' = Fifo!InOrder'
      BY <2>2
    <3>2. ASSUME NEW p \in Page,
                 Len(Fifo!InOrder) < NumFrames, Fifo!InOrder' = Append(Fifo!InOrder, p)
          PROVE  Memory!Next
      <4>1. Memory!Grow(p)
        BY <2>2, <3>2 DEF Memory!Grow
      <4> QED
        BY <4>1 DEF Memory!Next
    <3>3. ASSUME NEW p \in Page,
                 Len(Fifo!InOrder) = NumFrames, Fifo!InOrder' = Append(Tail(Fifo!InOrder), p)
          PROVE  Memory!Next
      <4>1. Memory!Replace(p)
        BY <2>2, <3>3 DEF Memory!Replace
      <4> QED
        BY <4>1 DEF Memory!Next
    <3> QED
      BY <2>2, <3>1, <3>2, <3>3 DEF Slides
  <2>3. CASE RunFifo
    BY <2>2, <2>3, RunFifoStep
  <2>4. CASE RunClock \/ RunNru \/ RunOpt
    BY <2>1, <2>4 DEF RunClock, RunNru, RunOpt
  <2>5. CASE UNCHANGED vars
    <3>1. UNCHANGED <<algorithm, frames, index>>
      BY <2>5 DEF vars, OnlyFifo
    <3>2. Fifo!InOrder' = Fifo!InOrder
      BY <3>1 DEF Fifo!InOrder, Fifo!phys_flq!InOrder, Fifo!phys_flq!Full, Fifo!phys_flq!Oldest
    <3> QED
      BY <3>1, <3>2
  <2> QED
    BY <2>3, <2>4, <2>5 DEF Next
<1> QED
  BY <1>1, <1>2, IInvHolds, PTL DEF Spec, KeepsNewest, Memory!Spec

\* opt: when the trace was read to its end there were as few faults as any choice of the
\* pages to evict can have.
THEOREM OptIsOptimal == Spec => []Optimal
<1> DEFINE Served == algorithm = "opt" => ServedBest
<1>1. Init => Served
  <2> SUFFICES ASSUME Opt!Init
               PROVE  ServedBest
    BY DEF Init
  <2>1. trace = <<>> /\ mem_accesses = 0 /\ page_faults = 0 /\ InMemory = {}
    BY DEF Opt!Init, InMemory, Opt!NoFrame
  <2>2. PICK tr \in Traces : tr = trace
    <3>1. /\ <<>> \in Seq([page : Page, write : BOOLEAN])
          /\ Len(<<>>) = 0 /\ 0 <= MaxLines
      BY VmsimAssumption
    <3>2. <<>> \in Traces
      BY <3>1 DEF Traces
    <3> QED
      BY <2>1, <3>2
  <2>3. Counts(Fewest(tr), tr)
    BY FewestCounts
  <2>4. Fewest(tr)[0][{}] \in Nat
    BY <2>3, VmsimAssumption DEF Counts
  <2> QED
    BY <2>1, <2>2, <2>4 DEF ServedBest
<1>2. IInv /\ Served /\ [Next]_vars => Served'
  <2> SUFFICES ASSUME IInv, Served, [Next]_vars, algorithm' = "opt"
               PROVE  ServedBest'
    OBVIOUS
  <2>1. CASE RunOpt
    BY <2>1, ServedStep DEF RunOpt, IInv
  <2>2. CASE RunClock \/ RunFifo \/ RunNru
    BY <2>2 DEF RunClock, RunFifo, RunNru
  <2>3. CASE UNCHANGED vars
    <3>1. UNCHANGED <<algorithm, trace, pass, mem_accesses, page_to_entry, page_faults>>
      BY <2>3 DEF vars, OnlyOpt
    <3>2. InMemory' = InMemory
      BY <3>1 DEF InMemory
    <3> QED
      BY <3>1, <3>2 DEF ServedBest
  <2> QED
    BY <2>1, <2>2, <2>3 DEF Next
<1>3. IInv /\ Served => Optimal
  <2> SUFFICES ASSUME OptInv, ServedBest, pass = 2, mem_accesses = Len(trace)
               PROVE  page_faults = Opt!FewestFaults[0][{}]
    BY DEF IInv, Optimal, Opt!Optimal
  <2>1. PICK tr \in Traces : tr = trace
    BY DEF ServedBest
  <2>2. Counts(Fewest(tr), tr) /\ Len(tr) \in 0..MaxLines /\ InMemory \in SUBSET Page
    <3>1. Counts(Fewest(tr), tr)
      BY FewestCounts
    <3>2. Len(tr) \in 0..MaxLines
      BY VmsimAssumption DEF Traces
    <3> QED
      BY <3>1, <3>2 DEF InMemory
  <2>3. Fewest(tr)[Len(tr)][InMemory] = 0
    BY <2>2, NoFaultsAtEnd
  <2>4. page_faults \in Nat
    BY DEF OptInv, OptTypes
  <2>5. page_faults = Fewest(trace)[0][{}]
    BY <2>1, <2>3, <2>4 DEF ServedBest
  <2> QED
    BY <2>5, FewestIsThat
<1> QED
  BY <1>1, <1>2, <1>3, IInvHolds, PTL DEF Spec

=============================================================================
