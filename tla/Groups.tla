------------------------------- MODULE Groups -------------------------------
(***************************************************************************)
(* Supplementary groups, Project_2/sys.c: the lists of groups, which tasks *)
(* share and never change (a new list takes the place of the old one), the *)
(* pages they lie in, and the sort and the search that look up a group.    *)
(*                                                                         *)
(* sys_setgroups() is several steps while it gets its pages, since others  *)
(* want pages too.  After that it is one: nobody else knows the new list   *)
(* until it is the task's, and the counters are atomic.  A list is a       *)
(* function on 0..n - 1; which block an element lies in is left out.       *)
(***************************************************************************)
EXTENDS Integers, FiniteSets, FiniteSetsExt

CONSTANTS
  Task,
  Info,              \* where a group_info may lie, init_groups among them
  init_groups,
  NoInfo,
  GroupId,           \* some group ids
  Width,             \* the bits of a gid_t and of an int
  Size,              \* some lengths of lists
  NGROUPS_MAX, NGROUPS_SMALL, NGROUPS_PER_BLOCK,
  NumPages           \* the pages of the machine

\* Half the range of a gid_t: the number after the greatest int.
Half == 2 ^ (Width - 1)

\* What is given: tasks and memory are finite, and gids have their width.
Given ==
  /\ IsFiniteSet(Task) /\ IsFiniteSet(Info)
  /\ init_groups \in Info /\ NoInfo \notin Info
  /\ Half \in Nat \ {0} /\ GroupId \subseteq 0..2 * Half - 1
  /\ Size \subseteq Nat /\ NGROUPS_MAX \in Nat
  /\ NGROUPS_SMALL \in Nat /\ NGROUPS_PER_BLOCK \in Nat \ {0}
  /\ NumPages \in Nat

ASSUME GroupsAssumption == Given

VARIABLES
  group_info,  \* of each task; NoInfo: there is no such task
  calling,     \* the list that each task's sys_setgroups() is making
  usage,       \* 0: free memory
  ngroups,
  list,        \* the groups, as GROUP_AT() tells them
  pages,       \* the pages each group_info has got
  free_pages,
  asked        \* history: the groups each task was given

infos == <<usage, ngroups, list, pages, free_pages>>
groups_vars == <<group_info, calling, infos, asked>>

Alive == {t \in Task : group_info[t] # NoInfo}

Idle(t) == t \in Alive /\ calling[t] = NoInfo

Empty == [k \in {} |-> 0]

GroupsTypeOK ==
  /\ group_info \in [Task -> Info \cup {NoInfo}]
  /\ calling \in [Task -> Info \cup {NoInfo}]
  /\ usage \in [Info -> Nat]
  /\ ngroups \in [Info -> Size \cup {0}]
  /\ \A i \in Info : list[i] = Empty \/ list[i] \in [0..ngroups[i] - 1 -> GroupId]
  /\ pages \in [Info -> 0..NumPages]
  /\ free_pages \in 0..NumPages
  /\ asked \in [Task -> SUBSET GroupId]

\* The first task; "one for init_task, one to ensure it is never freed".
GroupsInit ==
  /\ \E t \in Task : group_info = [u \in Task |-> IF u = t THEN init_groups ELSE NoInfo]
  /\ calling = [t \in Task |-> NoInfo]
  /\ usage = [i \in Info |-> IF i = init_groups THEN 2 ELSE 0]
  /\ ngroups = [i \in Info |-> 0]
  /\ list = [i \in Info |-> Empty]
  /\ pages = [i \in Info |-> 0]
  /\ free_pages = NumPages
  /\ asked = [t \in Task |-> {}]

-----------------------------------------------------------------------------
(* groups_sort                                                             *)

\* The element at right moves down in steps of stride until none is greater.
Sunk(a, right, stride) ==
  LET place[i \in 0..right] ==
        IF i >= stride /\ a[i - stride] > a[right] THEN place[i - stride] ELSE i
      low == place[right]
  IN  [i \in DOMAIN a |->
         IF i = low THEN a[right]
         ELSE IF i > low /\ i <= right /\ (right - i) % stride = 0 THEN a[i - stride]
         ELSE a[i]]

\* One turn of "while (stride)", over a list of n.
Pass(a, n, stride) ==
  LET done[base \in 0..n - stride] ==
        IF base = 0 THEN a ELSE Sunk(done[base - 1], base - 1 + stride, stride)
  IN  done[n - stride]

\* The first stride: of 1, 4, 13, ... the largest that is less than n.
FirstStride(n) ==
  LET stride[s \in 1..3 * n + 1] == IF s < n THEN stride[3 * s + 1] ELSE s \div 3
  IN  stride[1]

Sort(a, n) ==
  LET passed[stride \in 1..3 * n + 1] ==
        IF stride > FirstStride(n) THEN a ELSE Pass(passed[3 * stride + 1], n, stride)
  IN  passed[1]

-----------------------------------------------------------------------------
(* groups_search                                                           *)

\* int cmp = grp - GROUP_AT(...): unsigned, and then taken as signed.
Cmp(grp, g) ==
  LET d == (grp - g) % (2 * Half) IN IF d >= Half THEN d - 2 * Half ELSE d

groups_search(i, grp) ==
  LET found[window \in (0..ngroups[i]) \X (0..ngroups[i])] ==
        LET left == window[1]
            right == window[2]
            mid == (left + right) \div 2
            cmp == Cmp(grp, list[i][mid]) IN
        /\ left < right
        /\ \/ cmp > 0 /\ found[<<mid + 1, right>>]
           \/ cmp < 0 /\ found[<<left, mid>>]
           \/ cmp = 0
  IN  found[<<0, ngroups[i]>>]

\* in_group_p and in_egroup_p, where own is current->fsgid or current->egid.
in_group_p(t, own, grp) == grp = own \/ groups_search(group_info[t], grp)

-----------------------------------------------------------------------------
nblocks(n) ==
  LET blocks == (n + NGROUPS_PER_BLOCK - 1) \div NGROUPS_PER_BLOCK IN
  IF blocks = 0 THEN 1 ELSE blocks

\* The list does not fit in small_block.
NeedsPages(n) == n > NGROUPS_SMALL

\* put_group_info(), and groups_free() for the last reference, which gives back
\* as many pages as the list has blocks.
Put(i) ==
  /\ usage' = [usage EXCEPT ![i] = @ - 1]
  /\ IF usage[i] > 1
       THEN UNCHANGED <<ngroups, pages, free_pages>>
       ELSE /\ ngroups' = [ngroups EXCEPT ![i] = 0]
            /\ pages' = [pages EXCEPT ![i] = 0]
            /\ free_pages' = free_pages + (IF NeedsPages(ngroups[i]) THEN nblocks(ngroups[i]) ELSE 0)

\* The lists when i is to lose a reference.
ListsWithout(lists, i) == IF usage[i] > 1 THEN lists ELSE [lists EXCEPT ![i] = Empty]

-----------------------------------------------------------------------------
(* sys_setgroups                                                           *)

\* groups_alloc() gets a group_info.
Start(t, n, i) ==
  /\ Idle(t)
  /\ n \in 0..NGROUPS_MAX
  /\ usage[i] = 0
  /\ usage' = [usage EXCEPT ![i] = 1]
  /\ ngroups' = [ngroups EXCEPT ![i] = n]
  /\ calling' = [calling EXCEPT ![t] = i]
  /\ UNCHANGED <<group_info, list, pages, free_pages, asked>>

Complete(i) == NeedsPages(ngroups[i]) => pages[i] = nblocks(ngroups[i])

\* It gets the next page.
GetPage(t) ==
  LET i == calling[t] IN
  /\ i # NoInfo /\ ~Complete(i)
  /\ free_pages > 0
  /\ free_pages' = free_pages - 1
  /\ pages' = [pages EXCEPT ![i] = @ + 1]
  /\ UNCHANGED <<group_info, calling, usage, ngroups, list, asked>>

Return(t) == calling' = [calling EXCEPT ![t] = NoInfo]

\* Mutant: "while (--i > 0)".
NoPageKeepsFirst(t) ==
  LET i == calling[t] IN
  /\ i # NoInfo /\ ~Complete(i)
  /\ free_pages' = IF pages[i] > 0 THEN free_pages + pages[i] - 1 ELSE free_pages
  /\ pages' = [pages EXCEPT ![i] = 0]
  /\ usage' = [usage EXCEPT ![i] = 0]
  /\ ngroups' = [ngroups EXCEPT ![i] = 0]
  /\ Return(t)
  /\ UNCHANGED <<group_info, list, asked>>

\* There is no page: those it has got go back, and the group_info.
NoPage(t) ==
  LET i == calling[t] IN
  /\ i # NoInfo /\ ~Complete(i)
  /\ free_pages' = free_pages + pages[i]
  /\ pages' = [pages EXCEPT ![i] = 0]
  /\ usage' = [usage EXCEPT ![i] = 0]
  /\ ngroups' = [ngroups EXCEPT ![i] = 0]
  /\ Return(t)
  /\ UNCHANGED <<group_info, list, asked>>

\* groups_from_user() fails (EFAULT), or the security module objects.
Refuse(t) ==
  LET i == calling[t] IN
  /\ i # NoInfo /\ Complete(i)
  /\ Put(i)
  /\ list' = ListsWithout(list, i)
  /\ Return(t)
  /\ UNCHANGED <<group_info, asked>>

\* Mutant: the new list is written over the old one.
InstallInPlace(t, gids) ==
  LET i == calling[t]
      old == group_info[t] IN
  /\ i # NoInfo /\ Complete(i)
  /\ list' = [list EXCEPT ![old] = Sort(gids, ngroups[i])]
  /\ ngroups' = [ngroups EXCEPT ![i] = 0, ![old] = ngroups[i]]
  /\ pages' = [pages EXCEPT ![i] = 0, ![old] = pages[i]]
  /\ usage' = [usage EXCEPT ![i] = 0]
  /\ free_pages' = free_pages + pages[old]
  /\ asked' = [asked EXCEPT ![t] = {gids[k] : k \in DOMAIN gids}]
  /\ Return(t)
  /\ UNCHANGED group_info

\* groups_from_user() and set_current_groups(): the list is sorted and becomes the
\* task's.  The reference got for the task stays, the one of the call goes.
Install(t, gids) ==
  LET i == calling[t]
      old == group_info[t] IN
  /\ i # NoInfo /\ Complete(i)
  /\ list' = ListsWithout([list EXCEPT ![i] = Sort(gids, ngroups[i])], old)
  /\ group_info' = [group_info EXCEPT ![t] = i]
  /\ Put(old)
  /\ asked' = [asked EXCEPT ![t] = {gids[k] : k \in DOMAIN gids}]
  /\ Return(t)

-----------------------------------------------------------------------------
(* The rest of the kernel.                                                 *)

\* fork: the child shares the list.
Fork(t, c) ==
  /\ Idle(t) /\ c \notin Alive
  /\ group_info' = [group_info EXCEPT ![c] = group_info[t]]
  /\ usage' = [usage EXCEPT ![group_info[t]] = @ + 1]
  /\ asked' = [asked EXCEPT ![c] = asked[t]]
  /\ UNCHANGED <<calling, ngroups, list, pages, free_pages>>

\* The last task is init, which does not exit.
Exit(t) ==
  /\ Idle(t) /\ Alive # {t}
  /\ group_info' = [group_info EXCEPT ![t] = NoInfo]
  /\ Put(group_info[t])
  /\ list' = ListsWithout(list, group_info[t])
  /\ asked' = [asked EXCEPT ![t] = {}]
  /\ UNCHANGED calling

GroupsNext ==
  \E t \in Task :
    \/ \E n \in Size, i \in Info : Start(t, n, i)
    \/ GetPage(t) \/ NoPage(t) \/ Refuse(t)
    \/ /\ calling[t] # NoInfo
       /\ \E gids \in [0..ngroups[calling[t]] - 1 -> GroupId] : Install(t, gids)
    \/ \E c \in Task : Fork(t, c)
    \/ Exit(t)

GroupsSpec == GroupsInit /\ [][GroupsNext]_groups_vars

-----------------------------------------------------------------------------
\* The tasks and calls that refer to i.
References(i) ==
  Cardinality({t \in Task : group_info[t] = i}) + Cardinality({t \in Task : calling[t] = i})

\* A list is counted as often as it is referred to (init's once more), and every
\* page is free or belongs to a list that somebody refers to, after calls that
\* failed at any page and in the middle of those of others.
MemoryAccounted ==
  /\ \A i \in Info : usage[i] = References(i) + (IF i = init_groups THEN 1 ELSE 0)
  /\ \A i \in Info : usage[i] = 0 => pages[i] = 0
  /\ free_pages + MapThenSumSet(LAMBDA i : pages[i], Info) = NumPages

\* The difference of two gids is an int.
Near(g, h) == g - h < Half /\ h - g < Half

\* A group is found when it is the task's own or one that the task was given last,
\* whatever others did with lists it shared, as long as it is less than half the
\* range of a gid away from all of them.
SearchFinds ==
  \A t \in Alive, own, grp \in GroupId :
    (\A g \in asked[t] : Near(grp, g))
      => (in_group_p(t, own, grp) <=> grp = own \/ grp \in asked[t])

\* "Check whether we're fsgid/egid or in the supplemental group.."
IsInGroup ==
  \A t \in Alive, own, grp \in GroupId :
    in_group_p(t, own, grp) <=> grp = own \/ grp \in asked[t]

=============================================================================
