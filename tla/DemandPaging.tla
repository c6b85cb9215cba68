---------------------------- MODULE DemandPaging ----------------------------
(***************************************************************************)
(* What every page replacement algorithm of Project_3 promises, whichever  *)
(* page it chooses to evict: at most NumFrames pages are resident, a fault *)
(* evicts a resident page only when there is no empty frame, and a page    *)
(* that was written since it was loaded is written to disk when it is      *)
(* evicted.                                                                *)
(***************************************************************************)
EXTENDS Naturals, FiniteSets

CONSTANTS Page, NumFrames

VARIABLES
  resident,  \* the pages in memory
  unsaved,   \* those that accesses wrote since they were loaded
  said       \* what the simulator says of the last access

vars == <<resident, unsaved, said>>

Init == resident = {} /\ unsaved = {} /\ said = "nothing"

\* The pages written after an access of page p, where write tells its kind.
Modified(pages, p, write) == IF write THEN pages \cup {p} ELSE pages

Hit(p, write) ==
  /\ p \in resident
  /\ said' = "hit"
  /\ unsaved' = Modified(unsaved, p, write)
  /\ UNCHANGED resident

Load(p, write) ==
  /\ p \notin resident /\ Cardinality(resident) < NumFrames
  /\ said' = "no eviction"
  /\ resident' = resident \cup {p}
  /\ unsaved' = Modified(unsaved, p, write)

Evict(p, write, victim) ==
  /\ p \notin resident /\ Cardinality(resident) = NumFrames
  /\ said' = IF victim \in unsaved THEN "evict dirty" ELSE "evict clean"
  /\ resident' = (resident \ {victim}) \cup {p}
  /\ unsaved' = Modified(unsaved \ {victim}, p, write)

Next ==
  \E p \in Page, write \in BOOLEAN :
    \/ Hit(p, write)
    \/ Load(p, write)
    \/ \E victim \in resident : Evict(p, write, victim)

Spec == Init /\ [][Next]_vars

=============================================================================
