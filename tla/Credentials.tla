---------------------------- MODULE Credentials ----------------------------
(***************************************************************************)
(* The user and group ids of a task and the calls of Project_2/sys.c that  *)
(* change them, between one exec and the next.  A call is several steps,   *)
(* since another CPU may look at the task meanwhile: its checks, with the  *)
(* ids it is going to have; set_user(), which may fail; the dumpable flag, *)
(* which is cleared before the write barrier; the other ids, whose stores  *)
(* are one step.  A call that is refused by its checks changes nothing and *)
(* is no step.  The task has its memory to itself: with threads that share *)
(* it, another's prctl() could set the flag in the middle of a call.       *)
(*                                                                         *)
(* Capabilities come and go in the security module, not in sys.c: here it  *)
(* is the default one, and a task has all of them or none.                 *)
(***************************************************************************)
CONSTANTS
  Uid, Gid,  \* some user and group ids
  Root,      \* 0
  Keep       \* (uid_t) -1, (gid_t) -1: the id stays

ASSUME CredentialsAssumption == Root \in Uid /\ Keep \notin Uid \cup Gid

VARIABLES
  cred,               \* the ids of the task
  dumpable,           \* get_dumpable(mm): 1; the sysctl suid_dumpable is not 1
  permitted, effective,  \* the task has all capabilities, and uses them
  keep_capabilities,
  pc,                 \* where the call is
  todo,               \* what it is going to do, or NoCall
  vouched,            \* history: what the task acted as when dumpable was set, if it is
  given_up            \* history: the user ids given up since the capabilities are gone

caps == <<permitted, effective, keep_capabilities>>
history == <<vouched, given_up>>
vars == <<cred, dumpable, caps, pc, todo, history>>

Cred == [uid : Uid, euid : Uid, suid : Uid, fsuid : Uid,
         gid : Gid, egid : Gid, sgid : Gid, fsgid : Gid]

NoCall == [old |-> Keep]

\* The ids that are looked at when the task does something, to others and to files.
Acting == [euid : Uid, egid : Gid, fsuid : Uid, fsgid : Gid]
ActsAs(c) == [euid |-> c.euid, egid |-> c.egid, fsuid |-> c.fsuid, fsgid |-> c.fsgid]
NoIds == [euid |-> Keep]

\* A call: the ids before and after, whether set_user() and later the call itself
\* clear dumpable, and what security_task_post_setuid() is told.
Call == [old : Cred, new : Cred, user_clears : BOOLEAN, clears : BOOLEAN,
         fixup : BOOLEAN]

TypeOK ==
  /\ cred \in Cred
  /\ dumpable \in BOOLEAN
  /\ permitted \in BOOLEAN /\ effective \in BOOLEAN /\ keep_capabilities \in BOOLEAN
  /\ effective => permitted
  /\ pc \in {"ready", "set_user", "clear", "store"}
  /\ IF pc = "ready" THEN todo = NoCall ELSE todo \in Call
  /\ vouched = NoIds \/ vouched \in Acting
  /\ given_up \subseteq Uid

UidsOf(c) == {c.uid, c.euid, c.suid}
GidsOf(c) == {c.gid, c.egid, c.sgid}

\* exec: the effective ids may be those of the owner of the program; then the task
\* is not dumpable.  Root has the capabilities.
Init ==
  /\ \E u, eu \in Uid, g, eg \in Gid :
       /\ cred = [uid |-> u, euid |-> eu, suid |-> eu, fsuid |-> eu,
                  gid |-> g, egid |-> eg, sgid |-> eg, fsgid |-> eg]
       /\ dumpable = (u = eu /\ g = eg)
       /\ permitted = (Root \in {u, eu})
       /\ effective = (eu = Root)
       /\ vouched = IF u = eu /\ g = eg THEN ActsAs(cred) ELSE NoIds
       /\ given_up = IF Root \in {u, eu} THEN {} ELSE Uid \ {u, eu}
  /\ keep_capabilities = FALSE
  /\ pc = "ready"
  /\ todo = NoCall

-----------------------------------------------------------------------------
\* The checks are passed.
Begin(new, user_clears, clears, fixup) ==
  /\ pc = "ready"
  /\ todo' = [old |-> cred, new |-> new, user_clears |-> user_clears,
              clears |-> clears, fixup |-> fixup]
  /\ pc' = IF new.uid # cred.uid THEN "set_user" ELSE IF clears THEN "clear" ELSE "store"
  /\ UNCHANGED <<cred, dumpable, caps, history>>

\* May be given as one of some ids: it stays, is one of those, or anything goes.
Allowed(id, held) == id = Keep \/ id \in held \/ effective

Chosen(id, now) == IF id = Keep THEN now ELSE id

\* The saved id after setreuid() or setregid().
Saved(real, eff, now, new_eff, saved) ==
  IF real # Keep \/ (eff # Keep /\ eff # now) THEN new_eff ELSE saved

Setreuid(ruid, euid) ==
  LET new_euid == Chosen(euid, cred.euid) IN
  /\ Allowed(ruid, {cred.uid, cred.euid})
  /\ Allowed(euid, UidsOf(cred))
  /\ Begin([cred EXCEPT !.uid = Chosen(ruid, @), !.euid = new_euid, !.fsuid = new_euid,
                        !.suid = Saved(ruid, euid, cred.uid, new_euid, @)],
           new_euid # cred.euid, new_euid # cred.euid, TRUE)

Setuid(uid) ==
  /\ Allowed(uid, {cred.uid, cred.suid})
  /\ Begin([cred EXCEPT !.euid = uid, !.fsuid = uid,
                        !.uid = IF effective THEN uid ELSE @,
                        !.suid = IF effective THEN uid ELSE @],
           cred.euid # uid, cred.euid # uid, TRUE)

\* set_user() is told that the effective id changes also when it is Keep.
Setresuid(ruid, euid, suid) ==
  /\ \A id \in {ruid, euid, suid} : Allowed(id, UidsOf(cred))
  /\ LET new_euid == Chosen(euid, cred.euid) IN
     Begin([cred EXCEPT !.uid = Chosen(ruid, @), !.euid = new_euid, !.fsuid = new_euid,
                        !.suid = Chosen(suid, @)],
           euid # cred.euid, new_euid # cred.euid, TRUE)

\* Mutant: setfsuid() takes any id.
SetfsuidAny(uid) == Begin([cred EXCEPT !.fsuid = uid], FALSE, uid # cred.fsuid, FALSE)

Setfsuid(uid) ==
  /\ Allowed(uid, UidsOf(cred) \cup {cred.fsuid})
  /\ Begin([cred EXCEPT !.fsuid = uid], FALSE, uid # cred.fsuid, FALSE)

Setregid(rgid, egid) ==
  LET new_egid == Chosen(egid, cred.egid) IN
  /\ Allowed(rgid, {cred.gid, cred.egid})
  /\ Allowed(egid, GidsOf(cred))
  /\ Begin([cred EXCEPT !.gid = Chosen(rgid, @), !.egid = new_egid, !.fsgid = new_egid,
                        !.sgid = Saved(rgid, egid, cred.gid, new_egid, @)],
           FALSE, new_egid # cred.egid, FALSE)

Setgid(gid) ==
  /\ Allowed(gid, {cred.gid, cred.sgid})
  /\ Begin([cred EXCEPT !.egid = gid, !.fsgid = gid,
                        !.gid = IF effective THEN gid ELSE @,
                        !.sgid = IF effective THEN gid ELSE @],
           FALSE, cred.egid # gid, FALSE)

Setresgid(rgid, egid, sgid) ==
  /\ \A id \in {rgid, egid, sgid} : Allowed(id, GidsOf(cred))
  /\ LET new_egid == Chosen(egid, cred.egid) IN
     Begin([cred EXCEPT !.gid = Chosen(rgid, @), !.egid = new_egid, !.fsgid = new_egid,
                        !.sgid = Chosen(sgid, @)],
           FALSE, new_egid # cred.egid, FALSE)

\* Mutant: dumpable is cleared for the effective ids only.
SetfsgidQuiet(gid) ==
  /\ Allowed(gid, GidsOf(cred) \cup {cred.fsgid})
  /\ Begin([cred EXCEPT !.fsgid = gid], FALSE, FALSE, FALSE)

Setfsgid(gid) ==
  /\ Allowed(gid, GidsOf(cred) \cup {cred.fsgid})
  /\ Begin([cred EXCEPT !.fsgid = gid], FALSE, gid # cred.fsgid, FALSE)

-----------------------------------------------------------------------------
\* set_dumpable(mm, suid_dumpable)
ClearDumpable == dumpable' = FALSE /\ vouched' = NoIds

Finish == pc' = "ready" /\ todo' = NoCall

\* set_user(): no memory for the user, or too many processes of it; the call ends
\* with EAGAIN.  Root may have any number.
SetUserFails ==
  /\ pc = "set_user"
  /\ Finish
  /\ UNCHANGED <<cred, dumpable, caps, history>>

AfterUser == IF todo.clears THEN "clear" ELSE "store"

\* set_user() succeeds.
SetUser ==
  /\ pc = "set_user"
  /\ pc' = AfterUser
  /\ IF todo.user_clears THEN ClearDumpable ELSE UNCHANGED <<dumpable, vouched>>
  /\ cred' = [cred EXCEPT !.uid = todo.new.uid]
  /\ UNCHANGED <<caps, todo, given_up>>

\* Before the write barrier.
Clear ==
  /\ pc = "clear" /\ pc' = "store"
  /\ ClearDumpable
  /\ UNCHANGED <<cred, caps, todo, given_up>>

\* What cap_task_post_setuid() makes of the capabilities.
Fixup(old, new) ==
  LET lost == Root \in UidsOf(old) /\ Root \notin UidsOf(new) /\ ~keep_capabilities
      still == permitted /\ ~lost IN
  /\ permitted' = still
  /\ effective' = CASE old.euid = Root /\ new.euid # Root -> FALSE
                    [] old.euid # Root /\ new.euid = Root -> still
                    [] OTHER -> effective /\ ~lost

\* Mutant: the old ids are looked up after set_user().
StoreLate ==
  /\ pc = "store"
  /\ cred' = todo.new
  /\ IF todo.fixup THEN Fixup(cred, todo.new) ELSE UNCHANGED <<permitted, effective>>
  /\ given_up' = IF permitted' THEN {} ELSE given_up \cup (Uid \ UidsOf(todo.new))
  /\ Finish
  /\ UNCHANGED <<dumpable, keep_capabilities, vouched>>

\* The other ids.  What another CPU may see between these stores is a mixture of the
\* ids before and after; dumpable is what it has been since the barrier.
Store ==
  /\ pc = "store"
  /\ cred' = todo.new
  /\ IF todo.fixup THEN Fixup(todo.old, todo.new) ELSE UNCHANGED <<permitted, effective>>
  /\ given_up' = IF permitted' THEN {} ELSE given_up \cup (Uid \ UidsOf(todo.new))
  /\ Finish
  /\ UNCHANGED <<dumpable, keep_capabilities, vouched>>

\* prctl(PR_SET_DUMPABLE, b), by the task itself: nobody else has its memory.
SetDumpable(b) ==
  /\ pc = "ready"
  /\ dumpable' = b
  /\ vouched' = IF b THEN ActsAs(cred) ELSE NoIds
  /\ UNCHANGED <<cred, caps, pc, todo, given_up>>

\* prctl(PR_SET_KEEPCAPS, b)
SetKeepcaps(b) ==
  /\ pc = "ready"
  /\ keep_capabilities' = b
  /\ UNCHANGED <<cred, dumpable, permitted, effective, pc, todo, history>>

SetUids ==
  \E r, e, s \in Uid \cup {Keep} :
    \/ s = Keep /\ Setreuid(r, e)
    \/ Setresuid(r, e, s)
    \/ e = Keep /\ s = Keep /\ r # Keep /\ (Setuid(r) \/ Setfsuid(r))

SetGids ==
  \E r, e, s \in Gid \cup {Keep} :
    \/ s = Keep /\ Setregid(r, e)
    \/ Setresgid(r, e, s)
    \/ e = Keep /\ s = Keep /\ r # Keep /\ (Setgid(r) \/ Setfsgid(r))

Next ==
  \/ SetUids \/ SetGids
  \/ SetUserFails \/ SetUser \/ Clear \/ Store
  \/ \E b \in BOOLEAN : SetDumpable(b) \/ SetKeepcaps(b)

Spec == Init /\ [][Next]_vars

-----------------------------------------------------------------------------
\* While a task is dumpable it acts as it did when dumpable was set, at every step
\* at which another CPU may look: the effective ids are those of then, and its ids
\* for files too, or the effective ones, which a call that leaves these alone stores
\* there.  "set_dumpable; smp_wmb()" come before the first store of another one.
DumpableVouches ==
  dumpable =>
    /\ cred.euid = vouched.euid /\ cred.fsuid \in {vouched.euid, vouched.fsuid}
    /\ cred.egid = vouched.egid /\ cred.fsgid \in {vouched.egid, vouched.fsgid}

\* A task that has lost the capabilities for good never gets back a user id it
\* has given up, not even for files, whatever calls it makes ("this makes it
\* possible for a setuid program to completely drop its privileges").
DropsForGood == given_up \cap (UidsOf(cred) \cup {cred.fsuid}) = {}

\* When the last id of root goes, the capabilities go, unless the task asked to
\* keep them: security_task_post_setuid() is told the ids from before the call,
\* although set_user() has stored one by then.
RootTakesCapabilities ==
  [][pc = "store" /\ todo.fixup /\ Root \in UidsOf(todo.old)
       => Root \in UidsOf(cred') \/ keep_capabilities \/ ~permitted']_vars

=============================================================================
