------------------------- MODULE CredentialsProofs -------------------------
(***************************************************************************)
(* Proofs about Credentials, for any set of user and group ids, and about  *)
(* Groups, for any number of tasks, lists, lengths and pages.              *)
(*                                                                         *)
(* In the middle of a call the ids of the task are not what the checks     *)
(* looked at; what makes the properties inductive is what the call that is *)
(* under way may still store.  The counter of a list of groups is right    *)
(* because a list that is being made is nobody else's and a list that is   *)
(* somebody's is whole; the memory is, because of what whole lists hold.   *)
(* A search finds what it should, as the lists that somebody has are       *)
(* sorted, whatever becomes of those that are shared.                      *)
(***************************************************************************)
EXTENDS Credentials, Groups, Integers, FiniteSetTheorems, NaturalsInduction, TLAPS

\* All the user ids that the task acts with.
Held(c) == UidsOf(c) \cup {c.fsuid}

\* With these ids a task acts as it does now, or with the effective ones for files.
ActsAlike(new) ==
  /\ new.euid = cred.euid /\ new.fsuid \in {cred.euid, cred.fsuid}
  /\ new.egid = cred.egid /\ new.fsgid \in {cred.egid, cred.fsgid}

\* A call that is going to store ids to act otherwise clears dumpable first.
ClearsFirst ==
  pc # "ready" =>
    /\ todo.clears \/ ActsAlike(todo.new)
    /\ pc = "store" /\ todo.clears => ~dumpable

\* Who has the capabilities has given up nothing.
PrivilegedHasAll == permitted => given_up = {}

\* A call brings back no id that was given up.
CallHoldsOwn == pc # "ready" => given_up \cap Held(todo.new) = {}

\* Without capabilities the id for files is one of the others, when a call begins
\* and when it is done.
FsuidIsHeld ==
  /\ pc \in {"ready", "set_user"} /\ ~permitted => cred.fsuid \in UidsOf(cred)
  /\ pc # "ready" /\ (~permitted \/ todo.fixup) => todo.new.fsuid \in UidsOf(todo.new)

IInv == /\ TypeOK /\ DumpableVouches /\ DropsForGood
        /\ ClearsFirst /\ PrivilegedHasAll /\ CallHoldsOwn /\ FsuidIsHeld

-----------------------------------------------------------------------------
LEMMA InitHolds == Init => IInv
<1> SUFFICES ASSUME Init PROVE IInv
  OBVIOUS
<1>1. PICK u \in Uid, eu \in Uid, g \in Gid, eg \in Gid :
        /\ cred = [uid |-> u, euid |-> eu, suid |-> eu, fsuid |-> eu,
                   gid |-> g, egid |-> eg, sgid |-> eg, fsgid |-> eg]
        /\ dumpable = (u = eu /\ g = eg)
        /\ permitted = (Root \in {u, eu})
        /\ effective = (eu = Root)
        /\ vouched = IF u = eu /\ g = eg THEN ActsAs(cred) ELSE NoIds
        /\ given_up = IF Root \in {u, eu} THEN {} ELSE Uid \ {u, eu}
  BY DEF Init
<1>2. pc = "ready" /\ todo = NoCall /\ keep_capabilities = FALSE
  BY DEF Init
<1>3. cred \in Cred
  BY <1>1 DEF Cred
<1>4. /\ UidsOf(cred) = {u, eu} /\ cred.fsuid = eu /\ cred.euid = eu
      /\ cred.egid = eg /\ cred.fsgid = eg
  BY <1>1 DEF UidsOf
<1>a. dumpable \in BOOLEAN /\ permitted \in BOOLEAN /\ effective \in BOOLEAN
  BY <1>1
<1>b. vouched = NoIds \/ vouched \in Acting
  BY <1>1, <1>4 DEF ActsAs, Acting
<1>c. (effective => permitted) /\ given_up \subseteq Uid
  BY <1>1
<1>5. TypeOK
  BY <1>2, <1>3, <1>a, <1>b, <1>c DEF TypeOK
<1>6. DumpableVouches
  BY <1>1, <1>4 DEF DumpableVouches, ActsAs
<1>7. DropsForGood /\ PrivilegedHasAll /\ FsuidIsHeld
  BY <1>1, <1>2, <1>4 DEF DropsForGood, PrivilegedHasAll, FsuidIsHeld
<1> QED
  BY <1>2, <1>5, <1>6, <1>7 DEF IInv, ClearsFirst, CallHoldsOwn

\* What the checks of a call have to see to.
LEMMA BeginKeeps ==
  ASSUME IInv, NEW new \in Cred, NEW user_clears \in BOOLEAN, NEW clears \in BOOLEAN,
         NEW fixup \in BOOLEAN, Begin(new, user_clears, clears, fixup),
         clears \/ ActsAlike(new),
         effective \/ Held(new) \subseteq Held(cred),
         ~permitted \/ fixup => new.fsuid \in UidsOf(new)
  PROVE  IInv'
<1> DEFINE call == [old |-> cred, new |-> new, user_clears |-> user_clears,
                    clears |-> clears, fixup |-> fixup]
<1>1. /\ pc = "ready" /\ pc' \in {"set_user", "clear", "store"}
      /\ pc' = "store" => ~clears \/ new.uid # cred.uid
      /\ todo' = call
      /\ UNCHANGED <<cred, dumpable, permitted, effective, keep_capabilities, vouched, given_up>>
  BY DEF Begin, caps, history
<1>2. TypeOK /\ cred \in Cred
  BY DEF IInv, TypeOK
<1>3. call \in Call
  BY <1>2 DEF Call
<1>4. TypeOK'
  BY <1>1, <1>2, <1>3 DEF TypeOK
<1>5. DumpableVouches' /\ DropsForGood' /\ PrivilegedHasAll'
  BY <1>1 DEF IInv, DumpableVouches, DropsForGood, PrivilegedHasAll, UidsOf
<1>6. pc' = "store" => ~clears
  BY DEF Begin
<1>7. ClearsFirst'
  BY <1>1, <1>6 DEF ClearsFirst, ActsAlike
<1>8. given_up \cap Held(new) = {}
  <2>1. CASE permitted
    BY <2>1 DEF IInv, PrivilegedHasAll
  <2>2. CASE ~permitted
    <3>1. Held(new) \subseteq Held(cred)
      BY <1>2, <2>2 DEF TypeOK
    <3> QED
      BY <3>1 DEF IInv, DropsForGood, Held
  <2> QED
    BY <2>1, <2>2
<1>9. CallHoldsOwn'
  BY <1>1, <1>8 DEF CallHoldsOwn, Held, UidsOf
<1>10. FsuidIsHeld'
  BY <1>1 DEF IInv, FsuidIsHeld, UidsOf
<1> QED
  BY <1>4, <1>5, <1>7, <1>9, <1>10 DEF IInv

-----------------------------------------------------------------------------
\* The calls: each asks for ids that the task holds, or has the capabilities.
LEMMA SetreuidKeeps ==
  ASSUME IInv, NEW ruid \in Uid \cup {Keep}, NEW euid \in Uid \cup {Keep}, Setreuid(ruid, euid)
  PROVE  IInv'
<1> DEFINE new_euid == Chosen(euid, cred.euid)
           new == [cred EXCEPT !.uid = Chosen(ruid, @), !.euid = new_euid, !.fsuid = new_euid,
                               !.suid = Saved(ruid, euid, cred.uid, new_euid, @)]
<1>1. cred \in Cred /\ TypeOK /\ (effective => permitted) /\ pc = "ready"
  BY DEF IInv, TypeOK, Setreuid, Begin
<1>2. new \in Cred
  BY <1>1 DEF Cred, Chosen, Saved
<1>3. effective \/ Held(new) \subseteq Held(cred)
  BY <1>1 DEF Setreuid, Allowed, Held, UidsOf, Chosen, Saved, Cred
<1>4. new.fsuid = new.euid /\ new.fsuid \in UidsOf(new)
  BY <1>1 DEF UidsOf, Cred
<1>5. (new_euid # cred.euid) \/ ActsAlike(new)
  BY <1>1 DEF Cred, ActsAlike
<1>6. Begin(new, new_euid # cred.euid, new_euid # cred.euid, TRUE)
  BY DEF Setreuid
<1> QED
  BY <1>2, <1>3, <1>4, <1>5, <1>6, BeginKeeps DEF Setreuid

\* Keep is not an id here.
LEMMA SetuidKeeps ==
  ASSUME IInv, NEW uid \in Uid, Setuid(uid)
  PROVE  IInv'
<1> DEFINE new == [cred EXCEPT !.euid = uid, !.fsuid = uid,
                               !.uid = IF effective THEN uid ELSE @,
                               !.suid = IF effective THEN uid ELSE @]
<1>1. cred \in Cred /\ TypeOK /\ (effective => permitted) /\ pc = "ready"
  BY DEF IInv, TypeOK, Setuid, Begin
<1>2. new \in Cred
  BY <1>1 DEF Cred, Chosen, Saved
<1>3. effective \/ Held(new) \subseteq Held(cred)
  <2>1. SUFFICES ASSUME ~effective PROVE Held(new) \subseteq Held(cred)
    OBVIOUS
  <2>2. uid \in {cred.uid, cred.suid}
    BY <1>1, <2>1, CredentialsAssumption DEF Setuid, Allowed
  <2>3. new.uid = cred.uid /\ new.suid = cred.suid /\ new.euid = uid /\ new.fsuid = uid
    BY <1>1, <2>1 DEF Cred
  <2> HIDE DEF new
  <2> QED
    BY <2>2, <2>3 DEF Held, UidsOf
<1>4. new.fsuid = new.euid /\ new.fsuid \in UidsOf(new)
  BY <1>1 DEF UidsOf, Cred
<1>5. (cred.euid # uid) \/ ActsAlike(new)
  BY <1>1 DEF Cred, ActsAlike
<1>6. Begin(new, cred.euid # uid, cred.euid # uid, TRUE)
  BY DEF Setuid
<1> QED
  BY <1>2, <1>3, <1>4, <1>5, <1>6, BeginKeeps DEF Setuid

\* As setreuid(), with the saved id given.
LEMMA SetresuidKeeps ==
  ASSUME IInv, NEW ruid \in Uid \cup {Keep}, NEW euid \in Uid \cup {Keep}, NEW suid \in Uid \cup {Keep}, Setresuid(ruid, euid, suid)
  PROVE  IInv'
<1> DEFINE new_euid == Chosen(euid, cred.euid)
           new == [cred EXCEPT !.uid = Chosen(ruid, @), !.euid = new_euid, !.fsuid = new_euid,
                               !.suid = Chosen(suid, @)]
<1>1. cred \in Cred /\ TypeOK /\ (effective => permitted) /\ pc = "ready"
  BY DEF IInv, TypeOK, Setresuid, Begin
<1>2. new \in Cred
  BY <1>1 DEF Cred, Chosen, Saved
<1>3. effective \/ Held(new) \subseteq Held(cred)
  BY <1>1 DEF Setresuid, Allowed, Held, UidsOf, Chosen, Saved, Cred
<1>4. new.fsuid = new.euid /\ new.fsuid \in UidsOf(new)
  BY <1>1 DEF UidsOf, Cred
<1>5. (new_euid # cred.euid) \/ ActsAlike(new)
  BY <1>1 DEF Cred, ActsAlike
<1>6. Begin(new, euid # cred.euid, new_euid # cred.euid, TRUE)
  BY DEF Setresuid
<1> QED
  BY <1>2, <1>3, <1>4, <1>5, <1>6, BeginKeeps DEF Setresuid

\* Without capabilities the id is one of the three others.
LEMMA SetfsuidKeeps ==
  ASSUME IInv, NEW uid \in Uid, Setfsuid(uid)
  PROVE  IInv'
<1> DEFINE new == [cred EXCEPT !.fsuid = uid]
<1>1. cred \in Cred /\ TypeOK /\ (effective => permitted) /\ pc = "ready"
  BY DEF IInv, TypeOK, Setfsuid, Begin
<1>2. new \in Cred
  BY <1>1 DEF Cred, Chosen, Saved
<1>a. effective \/ uid \in UidsOf(cred) \cup {cred.fsuid}
  BY CredentialsAssumption DEF Setfsuid, Allowed
<1>b. UidsOf(new) = UidsOf(cred) /\ new.fsuid = uid
  BY <1>1 DEF Cred, UidsOf
<1>3. effective \/ Held(new) \subseteq Held(cred)
  BY <1>a, <1>b DEF Held
<1>4. ~permitted => new.fsuid \in UidsOf(new)
  BY <1>1, <1>a, <1>b DEF IInv, FsuidIsHeld
<1>5. (uid # cred.fsuid) \/ ActsAlike(new)
  BY <1>1 DEF Cred, ActsAlike
<1>6. Begin(new, FALSE, uid # cred.fsuid, FALSE)
  BY DEF Setfsuid
<1> QED
  BY <1>2, <1>3, <1>4, <1>5, <1>6, BeginKeeps DEF Setfsuid

\* The calls for groups leave the user ids alone.
LEMMA SetregidKeeps ==
  ASSUME IInv, NEW rgid \in Gid \cup {Keep}, NEW egid \in Gid \cup {Keep}, Setregid(rgid, egid)
  PROVE  IInv'
<1> DEFINE new_egid == Chosen(egid, cred.egid)
           new == [cred EXCEPT !.gid = Chosen(rgid, @), !.egid = new_egid, !.fsgid = new_egid,
                               !.sgid = Saved(rgid, egid, cred.gid, new_egid, @)]
<1>1. cred \in Cred /\ TypeOK /\ (effective => permitted) /\ pc = "ready"
  BY DEF IInv, TypeOK, Setregid, Begin
<1>2. new \in Cred
  BY <1>1 DEF Cred, Chosen, Saved
<1>3. Held(new) = Held(cred)
  BY <1>1 DEF Held, UidsOf, Cred
<1>4. ~permitted => new.fsuid \in UidsOf(new)
  BY <1>1 DEF IInv, FsuidIsHeld, UidsOf, Cred
<1>5. (new_egid # cred.egid) \/ ActsAlike(new)
  BY <1>1 DEF Cred, ActsAlike
<1>6. Begin(new, FALSE, new_egid # cred.egid, FALSE)
  BY DEF Setregid
<1> QED
  BY <1>2, <1>3, <1>4, <1>5, <1>6, BeginKeeps DEF Setregid

\* Likewise.
LEMMA SetgidKeeps ==
  ASSUME IInv, NEW gid \in Gid, Setgid(gid)
  PROVE  IInv'
<1> DEFINE new == [cred EXCEPT !.egid = gid, !.fsgid = gid,
                               !.gid = IF effective THEN gid ELSE @,
                               !.sgid = IF effective THEN gid ELSE @]
<1>1. cred \in Cred /\ TypeOK /\ (effective => permitted) /\ pc = "ready"
  BY DEF IInv, TypeOK, Setgid, Begin
<1>2. new \in Cred
  BY <1>1 DEF Cred, Chosen, Saved
<1>3. Held(new) = Held(cred)
  BY <1>1 DEF Held, UidsOf, Cred
<1>4. ~permitted => new.fsuid \in UidsOf(new)
  BY <1>1 DEF IInv, FsuidIsHeld, UidsOf, Cred
<1>5. (cred.egid # gid) \/ ActsAlike(new)
  BY <1>1 DEF Cred, ActsAlike
<1>6. Begin(new, FALSE, cred.egid # gid, FALSE)
  BY DEF Setgid
<1> QED
  BY <1>2, <1>3, <1>4, <1>5, <1>6, BeginKeeps DEF Setgid

\* Likewise.
LEMMA SetresgidKeeps ==
  ASSUME IInv, NEW rgid \in Gid \cup {Keep}, NEW egid \in Gid \cup {Keep}, NEW sgid \in Gid \cup {Keep}, Setresgid(rgid, egid, sgid)
  PROVE  IInv'
<1> DEFINE new_egid == Chosen(egid, cred.egid)
           new == [cred EXCEPT !.gid = Chosen(rgid, @), !.egid = new_egid, !.fsgid = new_egid,
                               !.sgid = Chosen(sgid, @)]
<1>1. cred \in Cred /\ TypeOK /\ (effective => permitted) /\ pc = "ready"
  BY DEF IInv, TypeOK, Setresgid, Begin
<1>2. new \in Cred
  BY <1>1 DEF Cred, Chosen, Saved
<1>3. Held(new) = Held(cred)
  BY <1>1 DEF Held, UidsOf, Cred
<1>4. ~permitted => new.fsuid \in UidsOf(new)
  BY <1>1 DEF IInv, FsuidIsHeld, UidsOf, Cred
<1>5. (new_egid # cred.egid) \/ ActsAlike(new)
  BY <1>1 DEF Cred, ActsAlike
<1>6. Begin(new, FALSE, new_egid # cred.egid, FALSE)
  BY DEF Setresgid
<1> QED
  BY <1>2, <1>3, <1>4, <1>5, <1>6, BeginKeeps DEF Setresgid

\* Likewise; the effective id stays as well.
LEMMA SetfsgidKeeps ==
  ASSUME IInv, NEW gid \in Gid, Setfsgid(gid)
  PROVE  IInv'
<1> DEFINE new == [cred EXCEPT !.fsgid = gid]
<1>1. cred \in Cred /\ TypeOK /\ (effective => permitted) /\ pc = "ready"
  BY DEF IInv, TypeOK, Setfsgid, Begin
<1>2. new \in Cred
  BY <1>1 DEF Cred, Chosen, Saved
<1>3. Held(new) = Held(cred)
  BY <1>1 DEF Held, UidsOf, Cred
<1>4. ~permitted => new.fsuid \in UidsOf(new)
  BY <1>1 DEF IInv, FsuidIsHeld, UidsOf, Cred
<1>5. (gid # cred.fsgid) \/ ActsAlike(new)
  BY <1>1 DEF Cred, ActsAlike
<1>6. Begin(new, FALSE, gid # cred.fsgid, FALSE)
  BY DEF Setfsgid
<1> QED
  BY <1>2, <1>3, <1>4, <1>5, <1>6, BeginKeeps DEF Setfsgid

-----------------------------------------------------------------------------
\* The steps of a call.
LEMMA SetUserFailsKeeps ==
  ASSUME IInv, SetUserFails
  PROVE  IInv'
<1>1. /\ pc = "set_user" /\ pc' = "ready" /\ todo' = NoCall
      /\ UNCHANGED <<cred, dumpable, permitted, effective, keep_capabilities, vouched, given_up>>
  BY DEF SetUserFails, Finish, caps, history
<1>2. TypeOK'
  BY <1>1 DEF IInv, TypeOK
<1>3. DumpableVouches' /\ DropsForGood' /\ PrivilegedHasAll'
  BY <1>1 DEF IInv, DumpableVouches, DropsForGood, PrivilegedHasAll, UidsOf
<1>4. FsuidIsHeld'
  BY <1>1 DEF IInv, FsuidIsHeld, UidsOf
<1> QED
  BY <1>1, <1>2, <1>3, <1>4 DEF IInv, ClearsFirst, CallHoldsOwn

\* The real id is stored, and dumpable may be cleared for the second time later.
LEMMA SetUserKeeps ==
  ASSUME IInv, SetUser
  PROVE  IInv'
<1>1. /\ pc = "set_user" /\ pc' = AfterUser /\ todo' = todo
      /\ cred' = [cred EXCEPT !.uid = todo.new.uid]
      /\ dumpable' \in {dumpable, FALSE}
      /\ \/ dumpable' = dumpable /\ vouched' = vouched
         \/ dumpable' = FALSE /\ vouched' = NoIds
      /\ UNCHANGED <<permitted, effective, keep_capabilities, given_up>>
  BY DEF SetUser, ClearDumpable, caps
<1>2. TypeOK /\ cred \in Cred /\ todo \in Call /\ todo.new \in Cred
  BY <1>1 DEF IInv, TypeOK, Call
<1>3. /\ cred' \in Cred /\ cred'.uid = todo.new.uid
      /\ cred'.euid = cred.euid /\ cred'.suid = cred.suid /\ cred'.fsuid = cred.fsuid
      /\ cred'.egid = cred.egid /\ cred'.fsgid = cred.fsgid
  BY <1>1, <1>2 DEF Cred
<1>4. pc' \in {"clear", "store"} /\ (pc' = "store" => ~todo.clears)
  BY <1>1, <1>2 DEF AfterUser, Call
<1>5. TypeOK'
  BY <1>1, <1>2, <1>3, <1>4 DEF TypeOK
<1>6. DumpableVouches'
  BY <1>1, <1>3 DEF IInv, DumpableVouches
<1>7. DropsForGood'
  BY <1>1, <1>3 DEF IInv, DropsForGood, CallHoldsOwn, Held, UidsOf
<1>8. ClearsFirst'
  BY <1>1, <1>3, <1>4 DEF IInv, ClearsFirst, ActsAlike
<1>9. PrivilegedHasAll' /\ CallHoldsOwn'
  BY <1>1, <1>4 DEF IInv, PrivilegedHasAll, CallHoldsOwn, Held, UidsOf
<1>10. FsuidIsHeld'
  BY <1>1, <1>4 DEF IInv, FsuidIsHeld, UidsOf
<1> QED
  BY <1>5, <1>6, <1>7, <1>8, <1>9, <1>10 DEF IInv

LEMMA ClearKeeps ==
  ASSUME IInv, Clear
  PROVE  IInv'
<1>1. /\ pc = "clear" /\ pc' = "store" /\ dumpable' = FALSE /\ vouched' = NoIds
      /\ UNCHANGED <<cred, permitted, effective, keep_capabilities, todo, given_up>>
  BY DEF Clear, ClearDumpable, caps
<1>2. TypeOK'
  BY <1>1 DEF IInv, TypeOK
<1>3. DumpableVouches' /\ DropsForGood' /\ PrivilegedHasAll'
  BY <1>1 DEF IInv, DumpableVouches, DropsForGood, PrivilegedHasAll, UidsOf
<1>4. ClearsFirst' /\ CallHoldsOwn' /\ FsuidIsHeld'
  BY <1>1 DEF IInv, ClearsFirst, ActsAlike, CallHoldsOwn, FsuidIsHeld, Held, UidsOf
<1> QED
  BY <1>2, <1>3, <1>4 DEF IInv

\* The capabilities can only go.
LEMMA FixupOnlyTakes ==
  ASSUME TypeOK, NEW old, NEW new, Fixup(old, new)
  PROVE  /\ permitted' \in BOOLEAN /\ effective' \in BOOLEAN
         /\ permitted' => permitted
         /\ effective' => permitted'
<1> DEFINE lost == Root \in UidsOf(old) /\ Root \notin UidsOf(new) /\ ~keep_capabilities
<1>1. permitted' = (permitted /\ ~lost)
  BY DEF Fixup
<1>2. effective' = CASE old.euid = Root /\ new.euid # Root -> FALSE
                     [] old.euid # Root /\ new.euid = Root -> permitted /\ ~lost
                     [] OTHER -> effective /\ ~lost
  BY DEF Fixup
<1>3. (effective => permitted) /\ permitted \in BOOLEAN /\ effective \in BOOLEAN
  BY DEF TypeOK
<1> HIDE DEF lost
<1>4. CASE old.euid = Root /\ new.euid # Root
  <2>1. effective' = FALSE
    BY <1>2, <1>4
  <2> QED
    BY <1>1, <1>3, <2>1
<1>5. CASE old.euid # Root /\ new.euid = Root
  <2>1. effective' = (permitted /\ ~lost)
    BY <1>2, <1>5
  <2> QED
    BY <1>1, <1>3, <2>1
<1>6. CASE ~(old.euid = Root /\ new.euid # Root) /\ ~(old.euid # Root /\ new.euid = Root)
  <2>1. effective' = (effective /\ ~lost)
    BY <1>2, <1>6
  <2> QED
    BY <1>1, <1>3, <2>1
<1> QED
  BY <1>4, <1>5, <1>6

LEMMA StoreKeeps ==
  ASSUME IInv, Store
  PROVE  IInv'
<1>1. /\ pc = "store" /\ pc' = "ready" /\ todo' = NoCall
      /\ cred' = todo.new
      /\ given_up' = IF permitted' THEN {} ELSE given_up \cup (Uid \ UidsOf(todo.new))
      /\ UNCHANGED <<dumpable, keep_capabilities, vouched>>
  BY DEF Store, Finish
<1>2. TypeOK /\ todo \in Call /\ todo.new \in Cred
  BY <1>1 DEF IInv, TypeOK, Call
<1>3. /\ permitted' \in BOOLEAN /\ effective' \in BOOLEAN
      /\ permitted' => permitted
      /\ effective' => permitted'
      /\ todo.fixup \/ permitted' = permitted
  <2>1. CASE todo.fixup
    BY <1>2, <2>1, FixupOnlyTakes DEF Store
  <2>2. CASE ~todo.fixup
    BY <1>2, <2>2 DEF Store, TypeOK
  <2> QED
    BY <2>1, <2>2
<1>4. TypeOK'
  BY <1>1, <1>2, <1>3 DEF TypeOK
<1>5. DumpableVouches'
  BY <1>1 DEF IInv, DumpableVouches, ClearsFirst, ActsAlike
<1>6. PrivilegedHasAll'
  BY <1>1 DEF PrivilegedHasAll
<1>7. ~permitted' => cred'.fsuid \in UidsOf(cred')
  BY <1>1, <1>3 DEF IInv, FsuidIsHeld, UidsOf
<1>8. DropsForGood'
  <2>1. CASE permitted'
    BY <1>1, <2>1 DEF DropsForGood
  <2>2. CASE ~permitted'
    <3>1. given_up \cap Held(todo.new) = {}
      BY <1>1 DEF IInv, CallHoldsOwn
    <3>2. todo.new.fsuid \in UidsOf(todo.new)
      BY <1>1, <1>7, <2>2 DEF UidsOf
    <3>3. given_up' = given_up \cup (Uid \ UidsOf(todo.new))
      BY <1>1, <2>2
    <3>4. given_up' \cap Held(todo.new) = {}
      BY <3>1, <3>2, <3>3 DEF Held
    <3> QED
      BY <1>1, <3>4 DEF DropsForGood, Held, UidsOf
  <2> QED
    BY <2>1, <2>2
<1> QED
  BY <1>1, <1>4, <1>5, <1>6, <1>7, <1>8 DEF IInv, ClearsFirst, CallHoldsOwn, FsuidIsHeld, UidsOf

LEMMA PrctlKeeps ==
  ASSUME IInv, NEW b \in BOOLEAN, SetDumpable(b) \/ SetKeepcaps(b)
  PROVE  IInv'
<1>1. CASE SetDumpable(b)
  <2>1. /\ pc = "ready" /\ dumpable' = b
        /\ vouched' = IF b THEN ActsAs(cred) ELSE NoIds
        /\ UNCHANGED <<cred, permitted, effective, keep_capabilities, pc, todo, given_up>>
    BY <1>1 DEF SetDumpable, caps
  <2>2. ActsAs(cred) \in Acting
    BY DEF IInv, TypeOK, Cred, ActsAs, Acting
  <2>3. TypeOK'
    BY <2>1, <2>2 DEF IInv, TypeOK
  <2>4. DumpableVouches'
    BY <2>1 DEF DumpableVouches, ActsAs
  <2> QED
    BY <2>1, <2>3, <2>4
       DEF IInv, DropsForGood, ClearsFirst, PrivilegedHasAll, CallHoldsOwn, FsuidIsHeld, UidsOf
<1>2. CASE SetKeepcaps(b)
  <2>1. /\ pc = "ready" /\ keep_capabilities' = b
        /\ UNCHANGED <<cred, dumpable, permitted, effective, pc, todo, vouched, given_up>>
    BY <1>2 DEF SetKeepcaps, history
  <2>2. TypeOK'
    BY <2>1 DEF IInv, TypeOK
  <2> QED
    BY <2>1, <2>2 DEF IInv, DumpableVouches, DropsForGood, ClearsFirst, PrivilegedHasAll,
                      CallHoldsOwn, FsuidIsHeld, UidsOf
<1> QED
  BY <1>1, <1>2

LEMMA StutterKeeps ==
  ASSUME IInv, UNCHANGED vars
  PROVE  IInv'
  BY DEF IInv, vars, caps, history, TypeOK, DumpableVouches, DropsForGood, ClearsFirst, ActsAlike,
         PrivilegedHasAll, CallHoldsOwn, FsuidIsHeld, Held, UidsOf

LEMMA StepKeeps == IInv /\ [Next]_vars => IInv'
<1> SUFFICES ASSUME IInv, [Next]_vars PROVE IInv'
  OBVIOUS
<1>1. CASE SetUids
  BY <1>1, SetreuidKeeps, SetuidKeeps, SetresuidKeeps, SetfsuidKeeps DEF SetUids
<1>2. CASE SetGids
  BY <1>2, SetregidKeeps, SetgidKeeps, SetresgidKeeps, SetfsgidKeeps DEF SetGids
<1>3. CASE SetUserFails \/ SetUser \/ Clear \/ Store
  BY <1>3, SetUserFailsKeeps, SetUserKeeps, ClearKeeps, StoreKeeps
<1>4. CASE \E b \in BOOLEAN : SetDumpable(b) \/ SetKeepcaps(b)
  BY <1>4, PrctlKeeps
<1>5. CASE UNCHANGED vars
  BY <1>5, StutterKeeps
<1> QED
  BY <1>1, <1>2, <1>3, <1>4, <1>5 DEF Next

-----------------------------------------------------------------------------
LEMMA Invariance == Spec => []IInv
<1>1. Init => IInv
  BY InitHolds
<1>2. IInv /\ [Next]_vars => IInv'
  BY StepKeeps
<1> QED
  BY <1>1, <1>2, PTL DEF Spec

\* The variables keep their types, whatever ids there are.
THEOREM TypesHold == Spec => []TypeOK
<1>1. IInv => TypeOK
  BY DEF IInv
<1> QED
  BY <1>1, Invariance, PTL

\* While a task is dumpable, it acts with the effective ids for which it was made so,
\* and for files with those of then or with the effective ones, in the middle of
\* calls as well.
THEOREM FlagVouches == Spec => []DumpableVouches
<1>1. IInv => DumpableVouches
  BY DEF IInv
<1> QED
  BY <1>1, Invariance, PTL

\* Ids that were given up without capabilities do not come back, by any sequence of
\* calls.
THEOREM GivenUpForGood == Spec => []DropsForGood
<1>1. IInv => DropsForGood
  BY DEF IInv
<1> QED
  BY <1>1, Invariance, PTL

\* Capabilities go with the last id of root.
THEOREM RootIsAsked == Spec => RootTakesCapabilities
<1> DEFINE Taken == pc = "store" /\ todo.fixup /\ Root \in UidsOf(todo.old)
                      => Root \in UidsOf(cred') \/ keep_capabilities \/ ~permitted'
<1>1. [Next]_vars => [Taken]_vars
  <2> SUFFICES ASSUME Next, pc = "store", todo.fixup, Root \in UidsOf(todo.old)
               PROVE  Root \in UidsOf(cred') \/ keep_capabilities \/ ~permitted'
    OBVIOUS
  <2>1. Store
    BY DEF Next, SetUids, SetGids, SetUserFails, SetUser, Clear, SetDumpable, SetKeepcaps,
           Setreuid, Setuid, Setresuid, Setfsuid, Setregid, Setgid, Setresgid, Setfsgid, Begin
  <2> QED
    BY <2>1 DEF Store, Fixup
<1> QED
  BY <1>1, PTL DEF Spec, RootTakesCapabilities

-----------------------------------------------------------------------------
(* Groups: the lists that tasks share.                                     *)
(* Counts and sums.                                                        *)

\* How many tasks m leads to i.
Count(m, i) == Cardinality({t \in Task : m[t] = i})

LEMMA CountIs ==
  ASSUME IsFiniteSet(Task), NEW m, NEW i
  PROVE  /\ Count(m, i) \in Nat
         /\ Count(m, i) = 0 <=> \A t \in Task : m[t] # i
<1> DEFINE S == {t \in Task : m[t] = i}
<1>1. IsFiniteSet(S)
  BY FS_Subset
<1>2. Cardinality(S) \in Nat /\ (Cardinality(S) = 0 <=> S = {})
  BY <1>1, FS_CardinalityType, FS_EmptySet
<1> QED
  BY <1>2 DEF Count

\* Two tasks that lead to i are two.
LEMMA CountOne ==
  ASSUME IsFiniteSet(Task), NEW m, NEW i, Count(m, i) = 1,
         NEW t \in Task, NEW u \in Task, m[t] = i, m[u] = i
  PROVE  t = u
<1> DEFINE S == {v \in Task : m[v] = i}
<1>1. IsFiniteSet(S) /\ Cardinality(S) = 1 /\ t \in S
  BY FS_Subset DEF Count
<1>2. IsFiniteSet(S \ {t}) /\ Cardinality(S \ {t}) = 0
  <2> HIDE DEF S
  <2>1. Cardinality(S \ {t}) = Cardinality(S) - 1
    BY <1>1, FS_RemoveElement
  <2> QED
    BY <1>1, <2>1, FS_RemoveElement
<1>3. S \ {t} = {}
  <2> HIDE DEF S
  <2> QED
    BY <1>2, FS_EmptySet
<1> QED
  BY <1>3

\* When task t leads elsewhere.
LEMMA CountMoves ==
  ASSUME IsFiniteSet(Task), NEW t \in Task, NEW v, NEW m, NEW m2,
         m2[t] = v, \A u \in Task \ {t} : m2[u] = m[u], NEW i
  PROVE  Count(m2, i) = Count(m, i) - (IF m[t] = i THEN 1 ELSE 0) + (IF v = i THEN 1 ELSE 0)
<1> DEFINE Others == {u \in Task \ {t} : m[u] = i}
           With(x) == IF x = i THEN Others \cup {t} ELSE Others
<1>1. {u \in Task : m[u] = i} = With(m[t])
  OBVIOUS
<1>2. {u \in Task : m2[u] = i} = With(v)
  OBVIOUS
<1>3. IsFiniteSet(Others) /\ Cardinality(Others) \in Nat
  <2>1. IsFiniteSet(Others)
    BY FS_Subset
  <2> QED
    BY <2>1, FS_CardinalityType
<1>4. Cardinality(Others \cup {t}) = Cardinality(Others) + 1
  BY <1>3, FS_AddElement
<1>5. ASSUME NEW x PROVE Cardinality(With(x)) = Cardinality(Others) + (IF x = i THEN 1 ELSE 0)
  <2> HIDE DEF Others
  <2> QED
    BY <1>3, <1>4
<1> QED
  <2>1. Count(m, i) = Cardinality(With(m[t])) /\ Count(m2, i) = Cardinality(With(v))
    BY <1>1, <1>2 DEF Count
  <2>2. /\ Count(m, i) = Cardinality(Others) + (IF m[t] = i THEN 1 ELSE 0)
        /\ Count(m2, i) = Cardinality(Others) + (IF v = i THEN 1 ELSE 0)
    <3> HIDE DEF With, Others
    <3> QED
      BY <1>5, <2>1
  <2> HIDE DEF Others
  <2> QED
    BY <1>3, <2>2

\* A set of numbers has a least one.
LEMMA LeastNat ==
  ASSUME NEW T, T \subseteq Nat, T # {}
  PROVE  \E x \in T : \A y \in T : x <= y
<1> DEFINE R == {ss \in Nat \X Nat : ss[1] < ss[2]}
<1>1. IsWellFoundedOn(R, Nat)
  BY NatLessThanWellFounded DEF OpToRel
<1>2. PICK x \in T : \A y \in T : ~(<<y, x>> \in R)
  <2> HIDE DEF R
  <2> QED
    BY <1>1, WFMin
<1>3. \A y \in T : ~(y < x)
  BY <1>2
<1> QED
  BY <1>3

\* The numbers from 1 to k are k.
LEMMA UpTo ==
  ASSUME NEW k \in Nat
  PROVE  IsFiniteSet(1..k) /\ Cardinality(1..k) = k
BY FS_Interval

\* The pages of the lists in S, one by one.
Leaves(held, S) == UNION {{x} \X (1..held[x]) : x \in S}

\* Those of one list and those of the others.
LEMMA LeavesOfOne ==
  ASSUME NEW S, IsFiniteSet(S), NEW held, \A x \in S : held[x] \in Nat
  PROVE  /\ IsFiniteSet(Leaves(held, S)) /\ Cardinality(Leaves(held, S)) \in Nat
         /\ \A x \in S : Cardinality(Leaves(held, S))
                           = held[x] + Cardinality(Leaves(held, S \ {x}))
<1> DEFINE Of(x) == {x} \X (1..held[x])
<1>1. ASSUME NEW x \in S PROVE IsFiniteSet(Of(x)) /\ Cardinality(Of(x)) = held[x]
  <2>1. IsFiniteSet({x}) /\ Cardinality({x}) = 1
    BY FS_Singleton
  <2>2. IsFiniteSet(1..held[x]) /\ Cardinality(1..held[x]) = held[x]
    BY UpTo
  <2>3. IsFiniteSet(Of(x)) /\ Cardinality(Of(x)) = Cardinality({x}) * Cardinality(1..held[x])
    BY <2>1, <2>2, FS_Product
  <2> QED
    BY <2>1, <2>2, <2>3
<1>2. ASSUME NEW U \in SUBSET S PROVE IsFiniteSet(Leaves(held, U))
  <2>1. IsFiniteSet(U)
    BY FS_Subset
  <2>2. IsFiniteSet({Of(x) : x \in U})
    <3> DEFINE h == [x \in U |-> Of(x)]
               V == {Of(x) : x \in U}
    <3>1. h \in Surjection(U, V)
      BY DEF Surjection
    <3> HIDE DEF h, V
    <3>2. IsFiniteSet(V)
      BY <2>1, <3>1, FS_Surjection
    <3> QED
      BY <3>2 DEF V
  <2>3. \A T \in {Of(x) : x \in U} : IsFiniteSet(T)
    BY <1>1
  <2> QED
    BY <2>2, <2>3, FS_UNION DEF Leaves
<1>3. ASSUME NEW x \in S
      PROVE  Cardinality(Leaves(held, S)) = held[x] + Cardinality(Leaves(held, S \ {x}))
  <2> DEFINE Rest == Leaves(held, S \ {x})
  <2>1. Leaves(held, S) = Of(x) \cup Rest
    BY DEF Leaves
  <2>2. Of(x) \cap Rest = {}
    BY DEF Leaves
  <2>3. IsFiniteSet(Rest) /\ IsFiniteSet(Of(x)) /\ Cardinality(Of(x)) = held[x]
    BY <1>1, <1>2
  <2>4. Cardinality(Rest) \in Nat /\ Cardinality({}) = 0
    BY <2>3, FS_CardinalityType, FS_EmptySet
  <2> HIDE DEF Rest, Of
  <2>5. Cardinality(Of(x) \cup Rest)
          = Cardinality(Of(x)) + Cardinality(Rest) - Cardinality(Of(x) \cap Rest)
    BY <2>3, FS_Union
  <2>6. Cardinality(Of(x) \cup Rest) = held[x] + Cardinality(Rest)
    <3>1. held[x] \in Nat /\ Cardinality(Of(x) \cap Rest) = 0
      BY <2>2, <2>4
    <3> QED
      BY <2>3, <2>4, <2>5, <3>1
  <2> QED
    BY <2>1, <2>6 DEF Rest
<1>4. S \in SUBSET S
  OBVIOUS
<1>5. IsFiniteSet(Leaves(held, S)) /\ Cardinality(Leaves(held, S)) \in Nat
  <2>1. IsFiniteSet(Leaves(held, S))
    BY <1>2, <1>4
  <2> QED
    BY <2>1, FS_CardinalityType
<1> QED
  BY <1>3, <1>5

Sum(held, S) == MapThenSumSet(LAMBDA i : held[i], S)

\* A sum is the number of pages.
LEMMA SumIsLeaves ==
  ASSUME NEW S, IsFiniteSet(S), NEW held, \A x \in S : held[x] \in Nat
  PROVE  Sum(held, S) = Cardinality(Leaves(held, S))
<1> DEFINE one(s) == CHOOSE x \in s : TRUE
           F(g) == [s \in SUBSET S |-> IF s = {} THEN 0
                                       ELSE held[one(s)] + g[s \ {one(s)}]]
           iter == CHOOSE g : g = F(g)
           n == [s \in SUBSET S |-> Cardinality(Leaves(held, s))]
<1>1. Sum(held, S) = iter[S]
  BY DEF Sum, MapThenSumSet, MapThenFoldSet
<1>2. ASSUME NEW s \in SUBSET S
      PROVE  /\ IsFiniteSet(s) /\ n[s] = Cardinality(Leaves(held, s)) /\ n[s] \in Nat
             /\ s # {} => /\ one(s) \in s /\ s \ {one(s)} \in SUBSET S
                          /\ n[s] = held[one(s)] + n[s \ {one(s)}]
  <2>1. IsFiniteSet(s) /\ \A x \in s : held[x] \in Nat
    BY FS_Subset
  <2>2. /\ Cardinality(Leaves(held, s)) \in Nat
        /\ \A x \in s : Cardinality(Leaves(held, s))
                          = held[x] + Cardinality(Leaves(held, s \ {x}))
    BY <2>1, LeavesOfOne
  <2>3. s # {} => one(s) \in s
    OBVIOUS
  <2> QED
    BY <2>1, <2>2, <2>3
<1>3. n[{}] = 0
  <2>1. Leaves(held, {}) = {}
    BY DEF Leaves
  <2> QED
    BY <2>1, FS_EmptySet
<1>4. n = F(n)
  <2>1. ASSUME NEW s \in SUBSET S PROVE n[s] = F(n)[s]
    <3> HIDE DEF n, one
    <3> QED
      BY <1>2, <1>3
  <2>2. F(n) = [s \in SUBSET S |-> F(n)[s]] /\ n = [s \in SUBSET S |-> n[s]]
    OBVIOUS
  <2> HIDE DEF n, F
  <2> QED
    BY <2>1, <2>2
<1>5. iter = F(iter)
  <2> HIDE DEF n, F
  <2> QED
    BY <1>4
<1> DEFINE Bad == {s \in SUBSET S : iter[s] # n[s]}
           Sizes == {Cardinality(s) : s \in Bad}
<1>6. Bad = {}
  <2> SUFFICES ASSUME Bad # {} PROVE FALSE
    OBVIOUS
  <2>1. Sizes \subseteq Nat /\ Sizes # {}
    <3>1. ASSUME NEW s \in Bad PROVE Cardinality(s) \in Nat
      <4>1. IsFiniteSet(s)
        BY <1>2
      <4> QED
        BY <4>1, FS_CardinalityType
    <3> HIDE DEF Bad
    <3> QED
      BY <3>1
  <2>2. PICK s \in Bad : \A r \in Bad : Cardinality(s) <= Cardinality(r)
    <3>1. PICK k \in Sizes : \A m \in Sizes : k <= m
      <4> HIDE DEF Sizes
      <4> QED
        BY <2>1, LeastNat
    <3> QED
      BY <3>1
  <2>3. s \in SUBSET S /\ iter[s] # n[s] /\ IsFiniteSet(s)
    BY <1>2
  <2>4. iter[s] = IF s = {} THEN 0 ELSE held[one(s)] + iter[s \ {one(s)}]
    <3> HIDE DEF iter, one, n
    <3> QED
      BY <1>5, <2>3
  <2> DEFINE r == s \ {one(s)}
  <2>5. s # {}
    <3> HIDE DEF iter, n
    <3> QED
      BY <1>3, <2>3, <2>4
  <2>6. one(s) \in s /\ r \in SUBSET S /\ n[s] = held[one(s)] + n[r]
    BY <1>2, <2>3, <2>5
  <2>7. Cardinality(r) < Cardinality(s)
    <3>1. Cardinality(r) = Cardinality(s) - 1 /\ Cardinality(s) \in Nat
      <4> HIDE DEF one
      <4> QED
        BY <2>3, <2>6, FS_RemoveElement, FS_CardinalityType
    <3> QED
      BY <3>1
  <2>8. r \notin Bad
    <3>1. Cardinality(r) \in Nat /\ Cardinality(s) \in Nat
      BY <1>2, <2>3, <2>6, FS_CardinalityType
    <3> HIDE DEF r, Bad
    <3> QED
      BY <2>2, <2>7, <3>1
  <2> QED
    <3> HIDE DEF iter, n, one
    <3> QED
      BY <2>3, <2>4, <2>5, <2>6, <2>8
<1> QED
  BY <1>1, <1>2, <1>6

\* When one list gets other pages.
LEMMA SumMoves ==
  ASSUME IsFiniteSet(Info), NEW held \in [Info -> Nat], NEW i \in Info, NEW k \in Nat,
         NEW held2, held2 = [held EXCEPT ![i] = k]
  PROVE  /\ Sum(held, Info) \in Nat /\ held[i] <= Sum(held, Info)
         /\ Sum(held2, Info) = Sum(held, Info) - held[i] + k
<1>1. held2[i] = k /\ held[i] \in Nat /\ \A x \in Info : held2[x] \in Nat /\ held[x] \in Nat
  OBVIOUS
<1>2. Leaves(held2, Info \ {i}) = Leaves(held, Info \ {i})
  BY DEF Leaves
<1>3. IsFiniteSet(Info \ {i}) /\ \A x \in Info \ {i} : held[x] \in Nat
  BY FS_RemoveElement
<1>4. Cardinality(Leaves(held, Info \ {i})) \in Nat
  BY <1>3, LeavesOfOne
<1>5. /\ Sum(held, Info) = held[i] + Cardinality(Leaves(held, Info \ {i}))
      /\ Sum(held2, Info) = k + Cardinality(Leaves(held2, Info \ {i}))
  <2>1. Sum(held, Info) = Cardinality(Leaves(held, Info))
    BY <1>1, SumIsLeaves
  <2>2. Sum(held2, Info) = Cardinality(Leaves(held2, Info))
    BY <1>1, SumIsLeaves
  <2>3. Cardinality(Leaves(held, Info)) = held[i] + Cardinality(Leaves(held, Info \ {i}))
    BY <1>1, LeavesOfOne
  <2>4. Cardinality(Leaves(held2, Info)) = held2[i] + Cardinality(Leaves(held2, Info \ {i}))
    BY <1>1, LeavesOfOne
  <2> QED
    BY <1>1, <2>1, <2>2, <2>3, <2>4
<1> QED
  BY <1>1, <1>2, <1>4, <1>5

LEMMA SumOfNone ==
  ASSUME IsFiniteSet(Info)
  PROVE  Sum([i \in Info |-> 0], Info) = 0
<1> DEFINE held == [i \in Info |-> 0]
<1>1. Leaves(held, Info) = {}
  BY DEF Leaves
<1>2. \A x \in Info : held[x] \in Nat
  OBVIOUS
<1>3. Sum(held, Info) = Cardinality(Leaves(held, Info))
  <2> HIDE DEF held
  <2> QED
    BY <1>2, SumIsLeaves
<1> QED
  BY <1>1, <1>3, FS_EmptySet

-----------------------------------------------------------------------------
(* The memory of the groups.                                               *)

GroupsTypes ==
  /\ group_info \in [Task -> Info \cup {NoInfo}]
  /\ calling \in [Task -> Info \cup {NoInfo}]
  /\ usage \in [Info -> Nat] /\ ngroups \in [Info -> Nat] /\ pages \in [Info -> Nat]
  /\ free_pages \in Nat

\* A list is counted as often as it is referred to.
Counted ==
  \A i \in Info : usage[i] = Count(group_info, i) + Count(calling, i)
                               + (IF i = init_groups THEN 1 ELSE 0)

\* The list that a call is making has the reference of the call and no other.
NewIsUnshared ==
  \A t \in Task : calling[t] # NoInfo => group_info[t] # NoInfo /\ usage[calling[t]] = 1

\* The pages of a whole list of n groups.
Need(n) == IF NeedsPages(n) THEN nblocks(n) ELSE 0

\* A list that nobody is making has all its pages.
PagesHeld ==
  \A i \in Info :
    /\ usage[i] = 0 => pages[i] = 0
    /\ usage[i] > 0 /\ (\A t \in Task : calling[t] # i) => pages[i] = Need(ngroups[i])
    /\ ~NeedsPages(ngroups[i]) => pages[i] = 0

NoPageLost == free_pages + Sum(pages, Info) = NumPages

MemoryInv == GroupsTypes /\ Counted /\ NewIsUnshared /\ PagesHeld /\ NoPageLost

LEMMA SumAfter == Sum(pages, Info)' = Sum(pages', Info)
BY DEF Sum, MapThenSumSet, MapThenFoldSet

LEMMA NeedIsNat ==
  ASSUME Given, NEW n \in Nat
  PROVE  Need(n) \in Nat
<1>1. NGROUPS_PER_BLOCK \in Nat \ {0}
  BY DEF Given
<1>2. (n + NGROUPS_PER_BLOCK - 1) \div NGROUPS_PER_BLOCK \in Nat
  BY <1>1
<1> QED
  BY <1>2 DEF Need, nblocks

LEMMA GivenFinite ==
  ASSUME Given
  PROVE  IsFiniteSet(Task) /\ IsFiniteSet(Info)
BY DEF Given

\* Nobody else knows of the list that task t is making.
LEMMA NewIsAlone ==
  ASSUME Given, MemoryInv, NEW t \in Task, calling[t] # NoInfo
  PROVE  /\ calling[t] \in Info /\ usage[calling[t]] = 1 /\ calling[t] # init_groups
         /\ group_info[t] \in Info
         /\ \A u \in Task : group_info[u] # calling[t]
         /\ \A u \in Task : calling[u] = calling[t] => u = t
<1> DEFINE i == calling[t]
<1>1. i \in Info /\ usage[i] = 1 /\ group_info[t] \in Info
  BY DEF MemoryInv, GroupsTypes, NewIsUnshared
<1>2. usage[i] = Count(group_info, i) + Count(calling, i) + (IF i = init_groups THEN 1 ELSE 0)
  BY <1>1 DEF MemoryInv, Counted
<1>3. /\ Count(group_info, i) \in Nat /\ Count(calling, i) \in Nat
      /\ Count(group_info, i) = 0 <=> \A u \in Task : group_info[u] # i
      /\ Count(calling, i) = 0 <=> \A u \in Task : calling[u] # i
  BY CountIs, GivenFinite
<1>4. Count(calling, i) = 1 /\ Count(group_info, i) = 0 /\ i # init_groups
  BY <1>1, <1>2, <1>3
<1>5. \A u \in Task : calling[u] = i => u = t
  BY <1>4, CountOne, GivenFinite
<1> QED
  BY <1>1, <1>3, <1>4, <1>5

\* A list that a task has is counted and whole.
LEMMA OldIsWhole ==
  ASSUME Given, MemoryInv, NEW t \in Task, group_info[t] # NoInfo
  PROVE  /\ group_info[t] \in Info /\ usage[group_info[t]] > 0
         /\ pages[group_info[t]] = Need(ngroups[group_info[t]])
         /\ \A u \in Task : calling[u] # group_info[t]
<1> DEFINE i == group_info[t]
<1>1. i \in Info /\ i # NoInfo
  BY DEF MemoryInv, GroupsTypes
<1>2. usage[i] = Count(group_info, i) + Count(calling, i) + (IF i = init_groups THEN 1 ELSE 0)
  BY <1>1 DEF MemoryInv, Counted
<1>3. /\ Count(group_info, i) \in Nat /\ Count(calling, i) \in Nat
      /\ Count(group_info, i) = 0 <=> \A u \in Task : group_info[u] # i
  BY CountIs, GivenFinite
<1>4. usage[i] > 0
  BY <1>2, <1>3
<1>5. \A u \in Task : calling[u] # i
  BY <1>1, NewIsAlone
<1> QED
  BY <1>1, <1>4, <1>5 DEF MemoryInv, PagesHeld

\* A reference goes, and with the last one the pages.
LEMMA PutGivesBack ==
  ASSUME Given, MemoryInv, NEW i \in Info, usage[i] > 0,
         pages[i] = Need(ngroups[i]), Put(i)
  PROVE  /\ usage' = [usage EXCEPT ![i] = usage[i] - 1] /\ usage' \in [Info -> Nat]
         /\ ngroups' \in [Info -> Nat] /\ pages' \in [Info -> Nat] /\ free_pages' \in Nat
         /\ \A j \in Info : j # i => ngroups'[j] = ngroups[j] /\ pages'[j] = pages[j]
         /\ IF usage[i] > 1 THEN ngroups'[i] = ngroups[i] /\ pages'[i] = pages[i]
                            ELSE ngroups'[i] = 0 /\ pages'[i] = 0
         /\ NoPageLost'
<1>1. /\ usage \in [Info -> Nat] /\ ngroups \in [Info -> Nat] /\ pages \in [Info -> Nat]
      /\ free_pages \in Nat /\ IsFiniteSet(Info)
      /\ free_pages + Sum(pages, Info) = NumPages
  BY GivenFinite DEF MemoryInv, GroupsTypes, NoPageLost
<1>2. usage' = [usage EXCEPT ![i] = usage[i] - 1] /\ usage' \in [Info -> Nat]
  BY <1>1 DEF Put
<1>3. CASE usage[i] > 1
  <2>1. UNCHANGED <<ngroups, pages, free_pages>>
    BY <1>3 DEF Put
  <2>2. NoPageLost'
    BY <1>1, <2>1, SumAfter DEF NoPageLost
  <2> QED
    BY <1>1, <1>2, <1>3, <2>1, <2>2
<1>4. CASE ~(usage[i] > 1)
  <2>1. /\ ngroups' = [ngroups EXCEPT ![i] = 0] /\ pages' = [pages EXCEPT ![i] = 0]
        /\ free_pages' = free_pages + Need(ngroups[i])
    <3>1. ~(usage[i] > 1)
      BY <1>4
    <3> QED
      BY <3>1 DEF Put, Need
  <2>2. free_pages' = free_pages + pages[i] /\ pages[i] \in Nat
    BY <1>1, <2>1
  <2>3. /\ Sum(pages, Info) \in Nat
        /\ Sum(pages', Info) = Sum(pages, Info) - pages[i] + 0
    <3>1. PICK held : held = pages
      OBVIOUS
    <3>2. PICK held2 : held2 = pages'
      OBVIOUS
    <3>3. /\ held \in [Info -> Nat] /\ held2 = [held EXCEPT ![i] = 0] /\ 0 \in Nat
          /\ IsFiniteSet(Info)
      BY <1>1, <2>1, <3>1, <3>2
    <3>4. /\ Sum(held, Info) \in Nat
          /\ Sum(held2, Info) = Sum(held, Info) - held[i] + 0
      BY <3>3, SumMoves
    <3> QED
      BY <3>1, <3>2, <3>4
  <2>4. NoPageLost'
    BY <1>1, <2>2, <2>3, SumAfter DEF NoPageLost
  <2> QED
    BY <1>1, <1>2, <1>4, <2>1, <2>2, <2>4
<1> QED
  BY <1>3, <1>4

\* A step takes a reference of task t from its lists and gives it one to new
\* in group_info and one to made in calling, as usage of j tells.
Shifts(t, new, made, j) ==
  usage'[j] = usage[j] - (IF group_info[t] = j THEN 1 ELSE 0)
                       + (IF new = j THEN 1 ELSE 0)
                       - (IF calling[t] = j THEN 1 ELSE 0)
                       + (IF made = j THEN 1 ELSE 0)

\* The count of j after the step is right.
CountedAfter(j) ==
  usage'[j] = Count(group_info', j) + Count(calling', j)
                + (IF j = init_groups THEN 1 ELSE 0)

\* What a step does to the tasks is counted if task t moves from one list to another.
LEMMA CountsAfter ==
  ASSUME Given, MemoryInv, NEW t \in Task,
         NEW new \in Info \cup {NoInfo}, group_info' = [group_info EXCEPT ![t] = new],
         NEW made \in Info \cup {NoInfo}, calling' = [calling EXCEPT ![t] = made],
         NEW j \in Info, Shifts(t, new, made, j)
  PROVE  CountedAfter(j)
<1>1. /\ group_info \in [Task -> Info \cup {NoInfo}]
      /\ calling \in [Task -> Info \cup {NoInfo}]
      /\ usage \in [Info -> Nat] /\ IsFiniteSet(Task)
  BY GivenFinite DEF MemoryInv, GroupsTypes
<1>2. usage[j] = Count(group_info, j) + Count(calling, j) + (IF j = init_groups THEN 1 ELSE 0)
  BY DEF MemoryInv, Counted
<1>3. Count(group_info', j) = Count(group_info, j) - (IF group_info[t] = j THEN 1 ELSE 0)
                                + (IF new = j THEN 1 ELSE 0)
  <2>1. PICK m, m2 : m = group_info /\ m2 = group_info'
    OBVIOUS
  <2>2. m2[t] = new /\ \A u \in Task \ {t} : m2[u] = m[u]
    BY <1>1, <2>1
  <2>3. Count(m2, j) = Count(m, j) - (IF m[t] = j THEN 1 ELSE 0) + (IF new = j THEN 1 ELSE 0)
    BY <1>1, <2>2, CountMoves
  <2> QED
    BY <2>1, <2>3
<1>4. Count(calling', j) = Count(calling, j) - (IF calling[t] = j THEN 1 ELSE 0)
                             + (IF made = j THEN 1 ELSE 0)
  <2>1. PICK m, m2 : m = calling /\ m2 = calling'
    OBVIOUS
  <2>2. m2[t] = made /\ \A u \in Task \ {t} : m2[u] = m[u]
    BY <1>1, <2>1
  <2>3. Count(m2, j) = Count(m, j) - (IF m[t] = j THEN 1 ELSE 0) + (IF made = j THEN 1 ELSE 0)
    BY <1>1, <2>2, CountMoves
  <2> QED
    BY <2>1, <2>3
<1>5. Count(group_info, j) \in Nat /\ Count(calling, j) \in Nat
  BY CountIs, GivenFinite
<1> QED
  BY <1>1, <1>2, <1>3, <1>4, <1>5 DEF Shifts, CountedAfter

LEMMA MemoryBegins ==
  ASSUME Given, GroupsInit
  PROVE  MemoryInv
<1>1. PICK t \in Task : group_info = [u \in Task |-> IF u = t THEN init_groups ELSE NoInfo]
  BY DEF GroupsInit
<1>2. /\ calling = [u \in Task |-> NoInfo]
      /\ usage = [i \in Info |-> IF i = init_groups THEN 2 ELSE 0]
      /\ ngroups = [i \in Info |-> 0] /\ pages = [i \in Info |-> 0]
      /\ free_pages = NumPages
      /\ init_groups \in Info /\ NoInfo \notin Info /\ NumPages \in Nat /\ NGROUPS_SMALL \in Nat
  BY DEF GroupsInit, Given
<1>3. IsFiniteSet(Task) /\ IsFiniteSet(Info)
  BY GivenFinite
<1>4. GroupsTypes
  BY <1>1, <1>2 DEF GroupsTypes
<1>5. Counted
  <2> SUFFICES ASSUME NEW i \in Info
               PROVE  usage[i] = Count(group_info, i) + Count(calling, i)
                                   + (IF i = init_groups THEN 1 ELSE 0)
    BY DEF Counted
  <2>1. Count(calling, i) = 0
    BY <1>2, <1>3, CountIs
  <2>2. CASE i = init_groups
    <3>1. {u \in Task : group_info[u] = i} = {t}
      BY <1>1, <1>2, <2>2
    <3>2. Count(group_info, i) = 1
      BY <3>1, FS_Singleton DEF Count
    <3> QED
      BY <1>2, <2>1, <2>2, <3>2
  <2>3. CASE i # init_groups
    <3>1. \A u \in Task : group_info[u] # i
      BY <1>1, <1>2, <2>3
    <3>2. Count(group_info, i) = 0
      BY <1>3, <3>1, CountIs
    <3> QED
      BY <1>2, <2>1, <2>3, <3>2
  <2> QED
    BY <2>2, <2>3
<1>6. NewIsUnshared
  BY <1>2 DEF NewIsUnshared
<1>7. PagesHeld
  BY <1>2 DEF PagesHeld, Need, NeedsPages
<1>8. NoPageLost
  BY <1>2, <1>3, SumOfNone DEF NoPageLost
<1> QED
  BY <1>4, <1>5, <1>6, <1>7, <1>8 DEF MemoryInv

LEMMA StartKeeps ==
  ASSUME Given, MemoryInv, NEW t \in Task, NEW n \in Nat, NEW i \in Info, Start(t, n, i)
  PROVE  MemoryInv'
<1>1. /\ group_info[t] # NoInfo /\ calling[t] = NoInfo /\ usage[i] = 0
      /\ usage' = [usage EXCEPT ![i] = 1]
      /\ ngroups' = [ngroups EXCEPT ![i] = n]
      /\ calling' = [calling EXCEPT ![t] = i]
      /\ UNCHANGED <<group_info, pages, free_pages>>
  BY DEF Start, Idle, Alive
<1>2. NoInfo \notin Info /\ GroupsTypes
  BY DEF Given, MemoryInv
<1>3. group_info' = [group_info EXCEPT ![t] = group_info[t]] /\ group_info[t] \in Info \cup {NoInfo}
  BY <1>1, <1>2 DEF GroupsTypes
<1>4. GroupsTypes'
  BY <1>1, <1>2 DEF GroupsTypes
<1>5. Counted'
  <2> SUFFICES ASSUME NEW j \in Info
               PROVE  CountedAfter(j)
    BY DEF Counted, CountedAfter
  <2>1. usage'[j] = usage[j] + (IF i = j THEN 1 ELSE 0) /\ usage[j] \in Nat
    BY <1>1, <1>2 DEF GroupsTypes
  <2>2. usage'[j] = usage[j] - (IF group_info[t] = j THEN 1 ELSE 0)
                             + (IF group_info[t] = j THEN 1 ELSE 0)
                             - (IF calling[t] = j THEN 1 ELSE 0)
                             + (IF i = j THEN 1 ELSE 0)
    BY <1>1, <1>2, <2>1
  <2>3. PICK a, b : a = group_info[t] /\ b = i
    OBVIOUS
  <2>4. /\ a \in Info \cup {NoInfo} /\ b \in Info \cup {NoInfo}
        /\ group_info' = [group_info EXCEPT ![t] = a]
        /\ calling' = [calling EXCEPT ![t] = b]
    BY <1>1, <1>3, <2>3
  <2>5. Shifts(t, a, b, j)
    BY <2>2, <2>3 DEF Shifts
  <2> QED
    BY <2>4, <2>5, CountsAfter
<1>6. NewIsUnshared'
  <2> SUFFICES ASSUME NEW u \in Task, calling'[u] # NoInfo
               PROVE  group_info'[u] # NoInfo /\ usage'[calling'[u]] = 1
    BY DEF NewIsUnshared
  <2>1. CASE u = t
    BY <1>1, <1>2, <2>1 DEF GroupsTypes
  <2>2. CASE u # t
    <3>1. calling'[u] = calling[u] /\ calling[u] # NoInfo
      BY <1>1, <1>2, <2>2 DEF GroupsTypes
    <3>2. /\ calling[u] \in Info /\ usage[calling[u]] = 1 /\ group_info[u] \in Info
      BY <3>1, NewIsAlone
    <3> QED
      BY <1>1, <1>2, <3>1, <3>2 DEF GroupsTypes
  <2> QED
    BY <2>1, <2>2
<1>7. PagesHeld'
  <2> SUFFICES ASSUME NEW j \in Info
               PROVE  /\ usage'[j] = 0 => pages'[j] = 0
                      /\ usage'[j] > 0 /\ (\A u \in Task : calling'[u] # j)
                           => pages'[j] = Need(ngroups'[j])
                      /\ ~NeedsPages(ngroups'[j]) => pages'[j] = 0
    BY DEF PagesHeld, Need, NeedsPages, nblocks
  <2>1. CASE j = i
    <3>1. calling'[t] = j /\ pages'[j] = 0
      BY <1>1, <1>2, <2>1 DEF GroupsTypes, MemoryInv, PagesHeld
    <3> QED
      BY <3>1
  <2>2. CASE j # i
    <3>1. /\ usage'[j] = usage[j] /\ ngroups'[j] = ngroups[j] /\ pages'[j] = pages[j]
          /\ \A u \in Task : calling[u] = j => calling'[u] = j
      BY <1>1, <1>2, <2>2 DEF GroupsTypes
    <3> QED
      BY <3>1 DEF MemoryInv, PagesHeld
  <2> QED
    BY <2>1, <2>2
<1>8. NoPageLost'
  BY <1>1, SumAfter DEF MemoryInv, NoPageLost
<1> QED
  BY <1>4, <1>5, <1>6, <1>7, <1>8 DEF MemoryInv

\* A call gets a page for the list it is making.
LEMMA GetPageKeeps ==
  ASSUME Given, MemoryInv, NEW t \in Task, GetPage(t)
  PROVE  MemoryInv'
<1> DEFINE i == calling[t]
<1>1. /\ i # NoInfo /\ NeedsPages(ngroups[i]) /\ free_pages > 0
      /\ free_pages' = free_pages - 1
      /\ pages' = [pages EXCEPT ![i] = pages[i] + 1]
      /\ UNCHANGED <<group_info, calling, usage, ngroups>>
  BY DEF GetPage, Complete
<1>2. GroupsTypes /\ i \in Info /\ usage[i] = 1 /\ IsFiniteSet(Info)
  BY <1>1, NewIsAlone, GivenFinite DEF MemoryInv
<1> HIDE DEF i
<1>3. GroupsTypes'
  BY <1>1, <1>2 DEF GroupsTypes
<1>4. Counted' /\ NewIsUnshared'
  BY <1>1 DEF MemoryInv, Counted, NewIsUnshared
<1>5. PagesHeld'
  <2> SUFFICES ASSUME NEW j \in Info
               PROVE  /\ usage'[j] = 0 => pages'[j] = 0
                      /\ usage'[j] > 0 /\ (\A u \in Task : calling'[u] # j)
                           => pages'[j] = Need(ngroups'[j])
                      /\ ~NeedsPages(ngroups'[j]) => pages'[j] = 0
    BY DEF PagesHeld, Need, NeedsPages, nblocks
  <2>1. CASE j = i
    BY <1>1, <1>2, <2>1 DEF i
  <2>2. CASE j # i
    <3>1. pages'[j] = pages[j]
      BY <1>1, <1>2, <2>2 DEF GroupsTypes
    <3> QED
      BY <1>1, <3>1 DEF MemoryInv, PagesHeld
  <2> QED
    BY <2>1, <2>2
<1>6. NoPageLost'
  <2>1. PICK held, held2 : held = pages /\ held2 = pages'
    OBVIOUS
  <2>2. held \in [Info -> Nat] /\ held[i] + 1 \in Nat /\ held2 = [held EXCEPT ![i] = held[i] + 1]
    BY <1>1, <1>2, <2>1 DEF GroupsTypes
  <2>3. /\ Sum(held, Info) \in Nat /\ held[i] \in Nat
        /\ Sum(held2, Info) = Sum(held, Info) - held[i] + (held[i] + 1)
    BY <1>2, <2>2, SumMoves
  <2>4. Sum(held2, Info) = Sum(held, Info) + 1
    BY <2>3
  <2>5. free_pages + Sum(held, Info) = NumPages /\ free_pages \in Nat
    BY <1>2, <2>1 DEF MemoryInv, NoPageLost, GroupsTypes
  <2>6. free_pages' + Sum(held2, Info) = NumPages
    BY <1>1, <2>3, <2>4, <2>5
  <2> QED
    BY <2>1, <2>6, SumAfter DEF NoPageLost
<1> QED
  BY <1>3, <1>4, <1>5, <1>6 DEF MemoryInv

\* What is left of the invariant when a list i that is being made is given up.
LEMMA GivenUp ==
  ASSUME Given, MemoryInv, NEW t \in Task, calling[t] # NoInfo,
         usage' = [usage EXCEPT ![calling[t]] = 0],
         calling' = [calling EXCEPT ![t] = NoInfo],
         ngroups' \in [Info -> Nat], pages' \in [Info -> Nat], free_pages' \in Nat,
         \A j \in Info : j # calling[t] => ngroups'[j] = ngroups[j] /\ pages'[j] = pages[j],
         pages'[calling[t]] = 0, UNCHANGED group_info, NoPageLost'
  PROVE  MemoryInv'
<1> DEFINE i == calling[t]
<1>1. /\ GroupsTypes /\ NoInfo \notin Info
      /\ i \in Info /\ usage[i] = 1 /\ group_info[t] \in Info /\ group_info[t] # i
      /\ \A u \in Task : calling[u] = i => u = t
  BY NewIsAlone DEF MemoryInv, Given
<1>2. usage' = [usage EXCEPT ![i] = 0] /\ pages'[i] = 0
  OBVIOUS
<1>3. GroupsTypes'
  BY <1>1, <1>2 DEF GroupsTypes
<1>4. group_info' = [group_info EXCEPT ![t] = group_info[t]] /\ group_info[t] \in Info \cup {NoInfo}
  BY <1>1 DEF GroupsTypes
<1>5. Counted'
  <2> SUFFICES ASSUME NEW j \in Info
               PROVE  CountedAfter(j)
    BY DEF Counted, CountedAfter
  <2>1. usage'[j] = usage[j] - (IF i = j THEN 1 ELSE 0) /\ usage[j] \in Nat
    BY <1>1, <1>2 DEF GroupsTypes
  <2>2. usage'[j] = usage[j] - (IF group_info[t] = j THEN 1 ELSE 0)
                             + (IF group_info[t] = j THEN 1 ELSE 0)
                             - (IF i = j THEN 1 ELSE 0)
                             + (IF NoInfo = j THEN 1 ELSE 0)
    BY <1>1, <2>1
  <2>3. PICK a, b : a = group_info[t] /\ b = NoInfo
    OBVIOUS
  <2>4. /\ a \in Info \cup {NoInfo} /\ b \in Info \cup {NoInfo}
        /\ group_info' = [group_info EXCEPT ![t] = a]
        /\ calling' = [calling EXCEPT ![t] = b]
    BY <1>1, <1>4, <2>3
  <2>5. Shifts(t, a, b, j)
    BY <2>2, <2>3 DEF Shifts
  <2> QED
    BY <2>4, <2>5, CountsAfter
<1> HIDE DEF i
<1>6. NewIsUnshared'
  <2> SUFFICES ASSUME NEW u \in Task, calling'[u] # NoInfo
               PROVE  group_info'[u] # NoInfo /\ usage'[calling'[u]] = 1
    BY DEF NewIsUnshared
  <2>1. u # t /\ calling'[u] = calling[u] /\ calling[u] # NoInfo
    BY <1>1 DEF GroupsTypes
  <2>2. calling[u] \in Info /\ usage[calling[u]] = 1 /\ group_info[u] \in Info
    BY <2>1, NewIsAlone
  <2>3. calling[u] # i
    BY <1>1, <2>1
  <2> QED
    BY <1>1, <1>2, <2>1, <2>2, <2>3 DEF GroupsTypes
<1>7. PagesHeld'
  <2> SUFFICES ASSUME NEW j \in Info
               PROVE  /\ usage'[j] = 0 => pages'[j] = 0
                      /\ usage'[j] > 0 /\ (\A u \in Task : calling'[u] # j)
                           => pages'[j] = Need(ngroups'[j])
                      /\ ~NeedsPages(ngroups'[j]) => pages'[j] = 0
    BY DEF PagesHeld, Need, NeedsPages, nblocks
  <2>1. CASE j = i
    BY <1>1, <1>2, <2>1 DEF GroupsTypes
  <2>2. CASE j # i
    <3>1. /\ usage'[j] = usage[j] /\ ngroups'[j] = ngroups[j] /\ pages'[j] = pages[j]
          /\ \A u \in Task : calling[u] = j => calling'[u] = j
      BY <1>1, <1>2, <2>2 DEF GroupsTypes, i
    <3> QED
      BY <3>1 DEF MemoryInv, PagesHeld
  <2> QED
    BY <2>1, <2>2
<1> QED
  BY <1>3, <1>5, <1>6, <1>7 DEF MemoryInv

\* There is no page for the list.
LEMMA NoPageKeeps ==
  ASSUME Given, MemoryInv, NEW t \in Task, NoPage(t)
  PROVE  MemoryInv'
<1> DEFINE i == calling[t]
<1>1. /\ i # NoInfo
      /\ free_pages' = free_pages + pages[i]
      /\ pages' = [pages EXCEPT ![i] = 0]
      /\ usage' = [usage EXCEPT ![i] = 0]
      /\ ngroups' = [ngroups EXCEPT ![i] = 0]
      /\ calling' = [calling EXCEPT ![t] = NoInfo]
      /\ UNCHANGED group_info
  BY DEF NoPage, Return
<1>2. GroupsTypes /\ i \in Info /\ IsFiniteSet(Info)
  BY <1>1, NewIsAlone, GivenFinite DEF MemoryInv
<1> HIDE DEF i
<1>3. NoPageLost'
  <2>1. PICK held, held2 : held = pages /\ held2 = pages'
    OBVIOUS
  <2>2. held \in [Info -> Nat] /\ 0 \in Nat /\ held2 = [held EXCEPT ![i] = 0]
    BY <1>1, <1>2, <2>1 DEF GroupsTypes
  <2>3. /\ Sum(held, Info) \in Nat /\ held[i] \in Nat
        /\ Sum(held2, Info) = Sum(held, Info) - held[i] + 0
    BY <1>2, <2>2, SumMoves
  <2>4. free_pages + Sum(held, Info) = NumPages /\ free_pages \in Nat
    BY <1>2, <2>1 DEF MemoryInv, NoPageLost, GroupsTypes
  <2>5. free_pages' + Sum(held2, Info) = NumPages
    BY <1>1, <2>1, <2>3, <2>4
  <2> QED
    BY <2>1, <2>5, SumAfter DEF NoPageLost
<1>4. /\ ngroups' \in [Info -> Nat] /\ pages' \in [Info -> Nat] /\ free_pages' \in Nat
      /\ \A j \in Info : j # i => ngroups'[j] = ngroups[j] /\ pages'[j] = pages[j]
      /\ pages'[i] = 0
  BY <1>1, <1>2 DEF GroupsTypes
<1> QED
  BY <1>1, <1>3, <1>4, GivenUp DEF i

\* The call is refused when its list has all pages.
LEMMA RefuseKeeps ==
  ASSUME Given, MemoryInv, NEW t \in Task, Refuse(t)
  PROVE  MemoryInv'
<1> DEFINE i == calling[t]
<1>1. /\ i # NoInfo /\ Complete(i) /\ Put(i)
      /\ calling' = [calling EXCEPT ![t] = NoInfo]
      /\ UNCHANGED group_info
  BY DEF Refuse, Return
<1>2. i \in Info /\ usage[i] = 1
  BY <1>1, NewIsAlone
<1>3. pages[i] = Need(ngroups[i])
  BY <1>1, <1>2 DEF Complete, Need, MemoryInv, PagesHeld
<1>4. /\ usage' = [usage EXCEPT ![i] = usage[i] - 1]
      /\ ngroups' \in [Info -> Nat] /\ pages' \in [Info -> Nat] /\ free_pages' \in Nat
      /\ \A j \in Info : j # i => ngroups'[j] = ngroups[j] /\ pages'[j] = pages[j]
      /\ IF usage[i] > 1 THEN ngroups'[i] = ngroups[i] /\ pages'[i] = pages[i]
                         ELSE ngroups'[i] = 0 /\ pages'[i] = 0
      /\ NoPageLost'
  <2>1. usage[i] > 0
    BY <1>2
  <2> HIDE DEF i
  <2> QED
    BY <1>1, <1>2, <1>3, <2>1, PutGivesBack
<1>5. usage' = [usage EXCEPT ![i] = 0] /\ pages'[i] = 0
  BY <1>2, <1>4
<1> QED
  BY <1>1, <1>4, <1>5, GivenUp

\* A task gets list new for the one it has: the one it was making, or none.
LEMMA LeavesOld ==
  ASSUME Given, MemoryInv, NEW t \in Task, group_info[t] # NoInfo,
         NEW new \in Info \cup {NoInfo}, new = calling[t],
         group_info' = [group_info EXCEPT ![t] = new],
         calling' = [calling EXCEPT ![t] = NoInfo],
         Put(group_info[t]),
         new # NoInfo => Complete(new)
  PROVE  MemoryInv'
<1> DEFINE old == group_info[t]
<1>1. /\ GroupsTypes /\ NoInfo \notin Info
      /\ old \in Info /\ usage[old] > 0 /\ pages[old] = Need(ngroups[old])
      /\ \A u \in Task : calling[u] # old
  BY OldIsWhole DEF MemoryInv, Given
<1>2. /\ usage' = [usage EXCEPT ![old] = usage[old] - 1] /\ usage' \in [Info -> Nat]
      /\ ngroups' \in [Info -> Nat] /\ pages' \in [Info -> Nat] /\ free_pages' \in Nat
      /\ \A j \in Info : j # old => ngroups'[j] = ngroups[j] /\ pages'[j] = pages[j]
      /\ IF usage[old] > 1 THEN ngroups'[old] = ngroups[old] /\ pages'[old] = pages[old]
                           ELSE ngroups'[old] = 0 /\ pages'[old] = 0
      /\ NoPageLost'
  <2>1. Put(old)
    OBVIOUS
  <2> HIDE DEF old
  <2> QED
    BY <1>1, <2>1, PutGivesBack
<1>3. GroupsTypes'
  BY <1>1, <1>2 DEF GroupsTypes
<1>4. Counted'
  <2> SUFFICES ASSUME NEW j \in Info
               PROVE  CountedAfter(j)
    BY DEF Counted, CountedAfter
  <2>1. usage'[j] = usage[j] - (IF old = j THEN 1 ELSE 0) /\ usage[j] \in Nat
    BY <1>1, <1>2 DEF GroupsTypes
  <2>2. usage'[j] = usage[j] - (IF old = j THEN 1 ELSE 0)
                             + (IF new = j THEN 1 ELSE 0)
                             - (IF calling[t] = j THEN 1 ELSE 0)
                             + (IF NoInfo = j THEN 1 ELSE 0)
    BY <1>1, <2>1
  <2>3. PICK a, b : a = new /\ b = NoInfo
    OBVIOUS
  <2>4. /\ a \in Info \cup {NoInfo} /\ b \in Info \cup {NoInfo}
        /\ group_info' = [group_info EXCEPT ![t] = a]
        /\ calling' = [calling EXCEPT ![t] = b]
    BY <1>1, <2>3
  <2>5. Shifts(t, a, b, j)
    BY <2>2, <2>3 DEF Shifts
  <2> QED
    BY <2>4, <2>5, CountsAfter
<1> HIDE DEF old
<1>5. NewIsUnshared'
  <2> SUFFICES ASSUME NEW u \in Task, calling'[u] # NoInfo
               PROVE  group_info'[u] # NoInfo /\ usage'[calling'[u]] = 1
    BY DEF NewIsUnshared
  <2>1. /\ u # t /\ calling'[u] = calling[u] /\ calling[u] # NoInfo
        /\ group_info'[u] = group_info[u]
    BY <1>1 DEF GroupsTypes
  <2>2. calling[u] \in Info /\ usage[calling[u]] = 1 /\ group_info[u] \in Info
    BY <2>1, NewIsAlone
  <2> QED
    BY <1>1, <1>2, <2>1, <2>2 DEF GroupsTypes
<1>6. PagesHeld'
  <2> SUFFICES ASSUME NEW j \in Info
               PROVE  /\ usage'[j] = 0 => pages'[j] = 0
                      /\ usage'[j] > 0 /\ (\A u \in Task : calling'[u] # j)
                           => pages'[j] = Need(ngroups'[j])
                      /\ ~NeedsPages(ngroups'[j]) => pages'[j] = 0
    BY DEF PagesHeld, Need, NeedsPages, nblocks
  <2>1. CASE j = old
    <3>1. usage[old] \in Nat /\ usage'[old] = usage[old] - 1
      BY <1>1, <1>2 DEF GroupsTypes
    <3>2. CASE usage[old] > 1
      BY <1>1, <1>2, <2>1, <3>1, <3>2 DEF MemoryInv, PagesHeld
    <3>3. CASE ~(usage[old] > 1)
      BY <1>1, <1>2, <2>1, <3>1, <3>3
    <3> QED
      BY <3>2, <3>3
  <2>2. CASE j # old /\ j = new
    <3>1. /\ usage'[j] = usage[j] /\ ngroups'[j] = ngroups[j] /\ pages'[j] = pages[j]
      BY <1>1, <1>2, <2>2 DEF GroupsTypes
    <3>2. usage[j] = 1 /\ Complete(j)
      BY <1>1, <2>2, NewIsAlone
    <3>3. ~NeedsPages(ngroups[j]) => pages[j] = 0
      BY DEF MemoryInv, PagesHeld
    <3>4. pages[j] = Need(ngroups[j])
      BY <3>2, <3>3 DEF Complete, Need
    <3> QED
      BY <3>1, <3>2, <3>3, <3>4
  <2>3. CASE j # old /\ j # new
    <3>1. /\ usage'[j] = usage[j] /\ ngroups'[j] = ngroups[j] /\ pages'[j] = pages[j]
          /\ \A u \in Task : calling[u] = j => calling'[u] = j
      BY <1>1, <1>2, <2>3 DEF GroupsTypes
    <3> QED
      BY <3>1 DEF MemoryInv, PagesHeld
  <2> QED
    BY <2>1, <2>2, <2>3
<1> QED
  BY <1>2, <1>3, <1>4, <1>5, <1>6 DEF MemoryInv

LEMMA InstallKeeps ==
  ASSUME Given, MemoryInv, NEW t \in Task, NEW gids, Install(t, gids)
  PROVE  MemoryInv'
<1>1. /\ calling[t] # NoInfo /\ Complete(calling[t])
      /\ group_info' = [group_info EXCEPT ![t] = calling[t]]
      /\ Put(group_info[t])
      /\ calling' = [calling EXCEPT ![t] = NoInfo]
  BY DEF Install, Return
<1>2. group_info[t] # NoInfo /\ calling[t] \in Info
  BY <1>1 DEF MemoryInv, NewIsUnshared, GroupsTypes
<1> QED
  BY <1>1, <1>2, LeavesOld

LEMMA ExitKeeps ==
  ASSUME Given, MemoryInv, NEW t \in Task, Exit(t)
  PROVE  MemoryInv'
<1>1. /\ group_info[t] # NoInfo /\ calling[t] = NoInfo
      /\ group_info' = [group_info EXCEPT ![t] = NoInfo]
      /\ Put(group_info[t])
      /\ UNCHANGED calling
  BY DEF Exit, Idle, Alive
<1>2. calling' = [calling EXCEPT ![t] = NoInfo]
  BY <1>1 DEF MemoryInv, GroupsTypes
<1> QED
  BY <1>1, <1>2, LeavesOld

LEMMA ForkKeeps ==
  ASSUME Given, MemoryInv, NEW t \in Task, NEW c \in Task, Fork(t, c)
  PROVE  MemoryInv'
<1> DEFINE i == group_info[t]
<1>1. /\ i # NoInfo /\ group_info[c] = NoInfo
      /\ group_info' = [group_info EXCEPT ![c] = i]
      /\ usage' = [usage EXCEPT ![i] = usage[i] + 1]
      /\ UNCHANGED <<calling, ngroups, pages, free_pages>>
  BY DEF Fork, Idle, Alive
<1>2. /\ GroupsTypes /\ NoInfo \notin Info
      /\ i \in Info /\ usage[i] > 0 /\ usage[i] \in Nat /\ pages[i] = Need(ngroups[i])
      /\ \A u \in Task : calling[u] # i
  BY <1>1, OldIsWhole DEF MemoryInv, GroupsTypes, Given
<1> HIDE DEF i
<1>3. GroupsTypes'
  BY <1>1, <1>2 DEF GroupsTypes
<1>4. calling' = [calling EXCEPT ![c] = calling[c]] /\ calling[c] \in Info \cup {NoInfo}
  BY <1>1, <1>2 DEF GroupsTypes
<1>5. Counted'
  <2> SUFFICES ASSUME NEW j \in Info
               PROVE  CountedAfter(j)
    BY DEF Counted, CountedAfter
  <2>1. usage'[j] = usage[j] + (IF i = j THEN 1 ELSE 0) /\ usage[j] \in Nat
    BY <1>1, <1>2 DEF GroupsTypes
  <2>2. usage'[j] = usage[j] - (IF group_info[c] = j THEN 1 ELSE 0)
                             + (IF i = j THEN 1 ELSE 0)
                             - (IF calling[c] = j THEN 1 ELSE 0)
                             + (IF calling[c] = j THEN 1 ELSE 0)
    BY <1>1, <1>2, <2>1
  <2>3. PICK a, b : a = i /\ b = calling[c]
    OBVIOUS
  <2>4. /\ a \in Info \cup {NoInfo} /\ b \in Info \cup {NoInfo}
        /\ group_info' = [group_info EXCEPT ![c] = a]
        /\ calling' = [calling EXCEPT ![c] = b]
    BY <1>1, <1>2, <1>4, <2>3
  <2>5. Shifts(c, a, b, j)
    BY <2>2, <2>3 DEF Shifts
  <2> QED
    BY <2>4, <2>5, CountsAfter
<1>6. NewIsUnshared'
  <2> SUFFICES ASSUME NEW u \in Task, calling[u] # NoInfo
               PROVE  group_info'[u] # NoInfo /\ usage'[calling[u]] = 1
    BY <1>1 DEF NewIsUnshared
  <2>1. calling[u] \in Info /\ usage[calling[u]] = 1 /\ group_info[u] \in Info /\ calling[u] # i
    BY <1>2, NewIsAlone
  <2>2. u # c
    BY <1>1, <1>2, <2>1
  <2> QED
    BY <1>1, <1>2, <2>1, <2>2 DEF GroupsTypes
<1>7. PagesHeld'
  <2> SUFFICES ASSUME NEW j \in Info
               PROVE  /\ usage'[j] = 0 => pages[j] = 0
                      /\ usage'[j] > 0 /\ (\A u \in Task : calling[u] # j)
                           => pages[j] = Need(ngroups[j])
                      /\ ~NeedsPages(ngroups[j]) => pages[j] = 0
    BY <1>1 DEF PagesHeld, Need, NeedsPages, nblocks
  <2>1. CASE j = i
    <3>1. usage'[j] = usage[i] + 1 /\ ~NeedsPages(ngroups[j]) => pages[j] = 0
      BY <1>1, <1>2, <2>1 DEF GroupsTypes, MemoryInv, PagesHeld
    <3>2. usage'[j] = usage[i] + 1
      BY <1>1, <1>2, <2>1 DEF GroupsTypes
    <3> QED
      BY <1>2, <2>1, <3>1, <3>2 DEF MemoryInv, PagesHeld
  <2>2. CASE j # i
    <3>1. usage'[j] = usage[j]
      BY <1>1, <1>2, <2>2 DEF GroupsTypes
    <3> QED
      BY <3>1 DEF MemoryInv, PagesHeld
  <2> QED
    BY <2>1, <2>2
<1>8. NoPageLost'
  BY <1>1, SumAfter DEF MemoryInv, NoPageLost
<1> QED
  BY <1>3, <1>5, <1>6, <1>7, <1>8 DEF MemoryInv

LEMMA MemoryRests ==
  ASSUME MemoryInv, UNCHANGED groups_vars
  PROVE  MemoryInv'
<1>1. UNCHANGED <<group_info, calling, usage, ngroups, pages, free_pages>>
  BY DEF groups_vars, infos
<1>2. GroupsTypes' /\ Counted' /\ NewIsUnshared'
  BY <1>1 DEF MemoryInv, GroupsTypes, Counted, NewIsUnshared
<1>3. PagesHeld'
  BY <1>1 DEF MemoryInv, PagesHeld, Need, NeedsPages, nblocks
<1>4. NoPageLost'
  BY <1>1, SumAfter DEF MemoryInv, NoPageLost
<1> QED
  BY <1>2, <1>3, <1>4 DEF MemoryInv

LEMMA MemoryStep == Given /\ MemoryInv /\ [GroupsNext]_groups_vars => MemoryInv'
<1> SUFFICES ASSUME Given, MemoryInv, [GroupsNext]_groups_vars
             PROVE  MemoryInv'
  OBVIOUS
<1>1. CASE UNCHANGED groups_vars
  BY <1>1, MemoryRests
<1>2. ASSUME NEW t \in Task, NEW n \in Size, NEW i \in Info, Start(t, n, i)
      PROVE  MemoryInv'
  <2>1. n \in Nat
    BY DEF Given
  <2> QED
    BY <1>2, <2>1, StartKeeps
<1>3. ASSUME NEW t \in Task, GetPage(t) \/ NoPage(t) \/ Refuse(t) \/ Exit(t)
      PROVE  MemoryInv'
  BY <1>3, GetPageKeeps, NoPageKeeps, RefuseKeeps, ExitKeeps
<1>4. ASSUME NEW t \in Task, NEW gids, Install(t, gids)
      PROVE  MemoryInv'
  BY <1>4, InstallKeeps
<1>5. ASSUME NEW t \in Task, NEW c \in Task, Fork(t, c)
      PROVE  MemoryInv'
  BY <1>5, ForkKeeps
<1> QED
  BY <1>1, <1>2, <1>3, <1>4, <1>5 DEF GroupsNext

\* However the calls that make, share and give up lists interleave and fail for want
\* of pages, every list counts its references, free memory holds no pages and no page
\* is lost.
THEOREM MemoryIsAccounted == GroupsSpec => []MemoryAccounted
<1>a. Given
  BY GroupsAssumption
<1>1. GroupsInit => MemoryInv
  BY <1>a, MemoryBegins
<1>2. MemoryInv => MemoryAccounted
  <2> SUFFICES ASSUME MemoryInv
               PROVE  MemoryAccounted
    OBVIOUS
  <2>1. ASSUME NEW i \in Info
        PROVE  usage[i] = References(i) + (IF i = init_groups THEN 1 ELSE 0)
    <3>1. References(i) = Count(group_info, i) + Count(calling, i)
      BY DEF References, Count
    <3> QED
      BY <3>1 DEF MemoryInv, Counted
  <2>2. \A i \in Info : usage[i] = 0 => pages[i] = 0
    BY DEF MemoryInv, PagesHeld
  <2>3. free_pages + MapThenSumSet(LAMBDA i : pages[i], Info) = NumPages
    BY DEF MemoryInv, NoPageLost, Sum
  <2> QED
    BY <2>1, <2>2, <2>3 DEF MemoryAccounted
<1>3. MemoryInv /\ [GroupsNext]_groups_vars => MemoryInv'
  BY <1>a, MemoryStep
<1> QED
  BY <1>1, <1>2, <1>3, PTL DEF GroupsSpec

-----------------------------------------------------------------------------
(* Recursive functions and remainders.                                     *)

\* What holds of 0, and of each number with the one before, holds of all.
LEMMA NatByNat ==
  ASSUME NEW T \in SUBSET Nat, 0 \in T, \A k \in Nat : k \in T => k + 1 \in T
  PROVE  T = Nat
<1> DEFINE R == Nat \ T
<1>1. SUFFICES ASSUME R # {} PROVE FALSE
  OBVIOUS
<1>2. PICK k \in R : \A j \in R : k <= j
  <2>1. R \subseteq Nat
    OBVIOUS
  <2> HIDE DEF R
  <2> QED
    BY <1>1, <2>1, LeastNat
<1>3. k # 0 /\ k - 1 \in Nat /\ k - 1 \notin R
  BY <1>2
<1> QED
  BY <1>3

\* H makes a function anew, each value from values of less rank.
Ranked(D, V, H, rank) ==
  /\ H \in [[D -> V] -> [D -> V]]
  /\ rank \in [D -> Nat]
  /\ \E bound \in Nat : \A x \in D : rank[x] <= bound
  /\ \A f, g \in [D -> V], x \in D :
       (\A y \in D : rank[y] < rank[x] => f[y] = g[y]) => H[f][x] = H[g][x]

\* A function made of its own values, each of values of less rank, exists.
LEMMA FixedPoint ==
  ASSUME NEW D, NEW V, NEW start \in [D -> V], NEW H, NEW rank, Ranked(D, V, H, rank)
  PROVE  \E f \in [D -> V] : H[f] = f
<1> USE DEF Ranked
<1> DEFINE T == {k \in Nat : \E f \in [D -> V] : \A x \in D : rank[x] < k => H[f][x] = f[x]}
<1>1. 0 \in T
  <2>1. \A x \in D : ~(rank[x] < 0)
    OBVIOUS
  <2> QED
    BY <2>1
<1>2. ASSUME NEW k \in Nat, k \in T PROVE k + 1 \in T
  <2>1. PICK f \in [D -> V] : \A x \in D : rank[x] < k => H[f][x] = f[x]
    BY <1>2
  <2>2. PICK g \in [D -> V] : g = H[f]
    OBVIOUS
  <2>3. ASSUME NEW x \in D, rank[x] < k + 1 PROVE H[g][x] = g[x]
    <3>1. \A y \in D : rank[y] < rank[x] => rank[y] < k
      BY <2>3
    <3>2. \A y \in D : rank[y] < rank[x] => g[y] = f[y]
      BY <2>1, <2>2, <3>1
    <3> QED
      BY <2>2, <3>2
  <2> QED
    BY <2>3
<1>3. T = Nat
  <2>1. T \in SUBSET Nat
    OBVIOUS
  <2> HIDE DEF T
  <2> QED
    BY <1>1, <1>2, <2>1, NatByNat
<1> PICK bound \in Nat : \A x \in D : rank[x] <= bound
  OBVIOUS
<1>4. PICK f \in [D -> V] : \A x \in D : rank[x] < bound + 1 => H[f][x] = f[x]
  <2>1. bound + 1 \in T
    <3> HIDE DEF T
    <3> QED
      BY <1>3
  <2> QED
    BY <2>1
<1>5. \A x \in D : H[f][x] = f[x]
  BY <1>4
<1>6. PICK g \in [D -> V] : g = H[f]
  OBVIOUS
<1>7. g = f
  BY <1>5, <1>6
<1> QED
  BY <1>6, <1>7

\* What leaves no rest is a multiple.
LEMMA Multiple ==
  ASSUME NEW s \in Nat \ {0}, NEW x \in Nat, x % s = 0
  PROVE  \E q \in Nat : x = q * s
<1>1. x \div s \in Nat
  OBVIOUS
<1>2. x = s * (x \div s)
  OBVIOUS
<1> QED
  BY <1>1, <1>2

LEMMA MultipleOf == \A s \in Nat \ {0}, q \in Nat : (q * s) % s = 0
OBVIOUS

\* One stride on or back from a multiple is one.
LEMMA StrideOn ==
  ASSUME NEW s \in Nat \ {0}, NEW x \in Nat, x % s = 0
  PROVE  /\ (x + s) % s = 0
         /\ x > 0 => x - s \in Nat /\ (x - s) % s = 0
<1>1. PICK q \in Nat : x = q * s
  BY Multiple
<1>2. x + s = (q + 1) * s /\ ((q + 1) * s) % s = 0
  BY <1>1, MultipleOf
<1>3. ASSUME x > 0 PROVE x - s \in Nat /\ (x - s) % s = 0
  <2>1. q - 1 \in Nat /\ x - s = (q - 1) * s
    BY <1>1, <1>3
  <2>2. ((q - 1) * s) % s = 0 /\ (q - 1) * s \in Nat
    BY <2>1, MultipleOf
  <2> QED
    BY <2>1, <2>2
<1> QED
  BY <1>2, <1>3

LEMMA UpToMore == \A c, i, s \in Nat : c <= i - s => c \in 0..i
OBVIOUS

\* Two multiples of a stride are at least a stride apart.
LEMMA StrideApart ==
  ASSUME NEW s \in Nat \ {0}, NEW x \in Nat, NEW y \in Nat, x < y, x % s = 0, y % s = 0
  PROVE  y - x >= s
<1>1. PICK q \in Nat : x = q * s
  BY Multiple
<1>2. PICK r \in Nat : y = r * s
  BY Multiple
<1> QED
  BY <1>1, <1>2

-----------------------------------------------------------------------------
(* groups_sort.                                                            *)

Lists(n) == [0..n - 1 -> GroupId]

Members(a) == {a[k] : k \in DOMAIN a}

LEMMA GroupsAreNumbers == Given => GroupId \subseteq Nat
BY DEF Given

\* The list when the element at right has come to low.
Moved(a, right, stride, low) ==
  [i \in DOMAIN a |->
     IF i = low THEN a[right]
     ELSE IF i > low /\ i <= right /\ (right - i) % stride = 0 THEN a[i - stride]
     ELSE a[i]]

\* Where it comes to.
IsPlace(a, right, stride, low) ==
  /\ low \in 0..right
  /\ (right - low) % stride = 0
  /\ stride = 1 => /\ \A j \in low..right - 1 : a[j] > a[right]
                   /\ low = 0 \/ a[low - 1] <= a[right]

\* The inner loop ends, and its element is then before all that are greater.
LEMMA SunkIsMoved ==
  ASSUME Given, NEW n \in Nat, NEW a \in Lists(n), NEW right \in 0..n - 1,
         NEW stride \in Nat \ {0}
  PROVE  \E low : IsPlace(a, right, stride, low) /\ Sunk(a, right, stride) = Moved(a, right, stride, low)
<1> DEFINE D == 0..right
           Goes(i) == i >= stride /\ a[i - stride] > a[right]
           Body(g) == [i \in D |-> IF Goes(i) THEN g[i - stride] ELSE i]
           C == CHOOSE g : g = Body(g)
           H == [g \in [D -> D] |-> Body(g)]
           rank == [i \in D |-> i]
<1>1. Sunk(a, right, stride) = Moved(a, right, stride, C[right])
  BY DEF Sunk, Moved
<1>2. \A k \in 0..n - 1 : a[k] \in Nat
  BY GroupsAreNumbers DEF Lists
<1>3. right \in Nat /\ right \in D /\ D \subseteq 0..n - 1
  OBVIOUS
<1>4. PICK f \in [D -> D] : H[f] = f
  <2>1. H \in [[D -> D] -> [D -> D]]
    <3>1. ASSUME NEW g \in [D -> D] PROVE Body(g) \in [D -> D]
      OBVIOUS
    <3> HIDE DEF Body
    <3> QED
      BY <3>1
  <2>2. rank \in [D -> Nat] /\ \E bound \in Nat : \A x \in D : rank[x] <= bound
    BY <1>3
  <2>3. \A g, h \in [D -> D], x \in D :
          (\A y \in D : rank[y] < rank[x] => g[y] = h[y]) => H[g][x] = H[h][x]
    <3> SUFFICES ASSUME NEW g \in [D -> D], NEW h \in [D -> D], NEW x \in D,
                        \A y \in D : rank[y] < rank[x] => g[y] = h[y]
                 PROVE  H[g][x] = H[h][x]
      OBVIOUS
    <3>1. H[g] = Body(g) /\ H[h] = Body(h)
      OBVIOUS
    <3>2. Goes(x) => x - stride \in D /\ rank[x - stride] < rank[x]
      OBVIOUS
    <3>3. Goes(x) => g[x - stride] = h[x - stride]
      BY <3>2
    <3> QED
      BY <3>1, <3>3
  <2>4. PICK start \in [D -> D] : start = [i \in D |-> i]
    OBVIOUS
  <2>5. Ranked(D, D, H, rank)
    <3> HIDE DEF H, D, rank
    <3> QED
      BY <2>1, <2>2, <2>3 DEF Ranked
  <2> HIDE DEF H, D, rank
  <2> QED
    BY <2>4, <2>5, FixedPoint
<1>5. f = Body(f)
  BY <1>4
<1>6. C = Body(C)
  <2> HIDE DEF Body
  <2> QED
    BY <1>5
<1>7. \A i \in D : C[i] = IF Goes(i) THEN C[i - stride] ELSE i
  <2>1. \A i \in D : Body(C)[i] = IF Goes(i) THEN C[i - stride] ELSE i
    OBVIOUS
  <2> HIDE DEF Body, C, D
  <2> QED
    BY <1>6, <2>1
<1> HIDE DEF C, Body, H
<1> DEFINE EndsAt(i, c) == /\ c \in 0..i
                           /\ (i - c) % stride = 0
                           /\ stride = 1 => /\ \A j \in c..i - 1 : a[j] > a[right]
                                            /\ c = 0 \/ a[c - 1] <= a[right]
           Ends(i) == EndsAt(i, C[i])
           T == {k \in Nat : \A i \in D : i <= k => Ends(i)}
<1>8. ASSUME NEW i \in D, ~Goes(i) PROVE Ends(i)
  <2>1. C[i] = i
    BY <1>7, <1>8
  <2>2. (i - i) % stride = 0
    BY MultipleOf
  <2>3. stride = 1 /\ i # 0 => a[i - 1] <= a[right]
    BY <1>2, <1>3, <1>8
  <2> QED
    BY <2>1, <2>2, <2>3
<1>9. ASSUME NEW i \in D, Goes(i), Ends(i - stride) PROVE Ends(i)
  <2>1. C[i] = C[i - stride] /\ i - stride \in D /\ i - stride \in Nat
    BY <1>7, <1>9
  <2>a. PICK c : c = C[i - stride]
    OBVIOUS
  <2>b. c \in 0..i - stride /\ (i - stride - c) % stride = 0
    BY <1>9, <2>a
  <2>2. c \in Nat /\ c <= i - stride /\ i - stride - c \in Nat
    BY <2>b, <2>1
  <2>3. (i - stride - c) + stride = i - c
    BY <2>2
  <2>4. (i - c) % stride = 0
    BY <2>b, <2>2, <2>3, StrideOn
  <2>5. ASSUME stride = 1
        PROVE  /\ \A j \in c..i - 1 : a[j] > a[right]
               /\ c = 0 \/ a[c - 1] <= a[right]
    <3>1. ASSUME NEW j \in c..i - 1 PROVE a[j] > a[right]
      <4>1. CASE j = i - 1
        BY <1>9, <2>5, <4>1
      <4>2. CASE j # i - 1
        <5>1. j \in c..(i - stride) - 1
          BY <2>2, <2>5, <4>2
        <5> QED
          BY <1>9, <2>a, <2>5, <5>1
      <4> QED
        BY <4>1, <4>2
    <3> QED
      BY <1>9, <2>a, <2>5, <3>1
  <2>6. C[i] = c
    BY <2>1, <2>a
  <2>8. i \in Nat /\ stride \in Nat
    BY <1>3
  <2>9. c \in 0..i
    BY <2>2, <2>8, UpToMore
  <2>7. EndsAt(i, c)
    BY <2>4, <2>5, <2>9
  <2> HIDE DEF EndsAt
  <2> QED
    BY <2>6, <2>7
<1> HIDE DEF Ends
<1>10. 0 \in T
  <2>1. ~Goes(0)
    OBVIOUS
  <2> QED
    BY <1>8, <2>1
<1>11. ASSUME NEW k \in Nat, k \in T PROVE k + 1 \in T
  <2>1. ASSUME NEW i \in D, i <= k + 1 PROVE Ends(i)
    <3>1. CASE ~Goes(i)
      BY <1>8, <3>1
    <3>2. CASE Goes(i)
      <4>1. i - stride \in D /\ i - stride <= k
        BY <2>1, <3>2
      <4> QED
        BY <1>9, <1>11, <3>2, <4>1
    <3> QED
      BY <3>1, <3>2
  <2> QED
    BY <2>1
<1>12. T = Nat
  <2>1. T \in SUBSET Nat
    OBVIOUS
  <2> HIDE DEF T
  <2> QED
    BY <1>10, <1>11, <2>1, NatByNat
<1>13. Ends(right)
  BY <1>3, <1>12
<1>14. IsPlace(a, right, stride, C[right])
  BY <1>13 DEF Ends, IsPlace
<1> QED
  BY <1>1, <1>14

\* The first k elements are sorted.
SortedTo(a, k) == \A i, j \in 0..k - 1 : i <= j => a[i] <= a[j]

\* An element between those that are not greater and those that are.
LEMMA PutInPlace ==
  ASSUME NEW right \in Nat, NEW low \in Nat, low <= right, NEW a, NEW m,
         \A i \in 0..right : a[i] \in Nat,
         \A i, j \in 0..right - 1 : i <= j => a[i] <= a[j],
         \A j \in low..right - 1 : a[j] > a[right],
         low = 0 \/ a[low - 1] <= a[right],
         \A i \in 0..right :
           /\ i < low => m[i] = a[i]
           /\ i = low => m[i] = a[right]
           /\ i > low => m[i] = a[i - 1]
  PROVE  \A i, j \in 0..right : i <= j => m[i] <= m[j]
<1> SUFFICES ASSUME NEW i \in 0..right, NEW j \in 0..right, i <= j
             PROVE  m[i] <= m[j]
  OBVIOUS
<1>1. CASE j < low
  <2>1. i \in 0..right - 1 /\ j \in 0..right - 1 /\ i < low
    BY <1>1
  <2> QED
    BY <1>1, <2>1
<1>2. CASE j = low
  <2>1. CASE i = low
    BY <1>2, <2>1
  <2>2. CASE i < low
    <3>1. i \in 0..right - 1 /\ low - 1 \in 0..right - 1 /\ i <= low - 1 /\ low # 0
      BY <2>2
    <3>2. a[i] <= a[low - 1] /\ a[low - 1] <= a[right]
      BY <3>1
    <3>3. a[i] \in Nat /\ a[low - 1] \in Nat /\ a[right] \in Nat
      BY <3>1
    <3> QED
      BY <1>2, <2>2, <3>2, <3>3
  <2> QED
    BY <1>2, <2>1, <2>2
<1>3. CASE j > low
  <2>1. m[j] = a[j - 1] /\ j - 1 \in low..right - 1 /\ j - 1 \in 0..right - 1 /\ a[j - 1] \in Nat
    BY <1>3
  <2>2. CASE i < low
    <3>1. m[i] = a[i] /\ i \in 0..right - 1 /\ i <= j - 1
      BY <1>3, <2>2
    <3> QED
      BY <2>1, <3>1
  <2>3. CASE i = low
    <3>1. m[i] = a[right] /\ a[right] \in Nat /\ a[j - 1] > a[right]
      BY <2>1, <2>3
    <3> QED
      BY <2>1, <3>1
  <2>4. CASE i > low
    <3>1. m[i] = a[i - 1] /\ i - 1 \in 0..right - 1 /\ i - 1 <= j - 1
      BY <1>3, <2>4
    <3> QED
      BY <2>1, <3>1
  <2> QED
    BY <2>2, <2>3, <2>4
<1> QED
  BY <1>1, <1>2, <1>3

\* Nothing is lost or made up, and a stride of 1 puts the element in its place.
LEMMA MovedKeeps ==
  ASSUME Given, NEW n \in Nat, NEW a \in Lists(n), NEW right \in 0..n - 1,
         NEW stride \in Nat \ {0}, NEW low, IsPlace(a, right, stride, low),
         NEW m, m = Moved(a, right, stride, low)
  PROVE  /\ m \in Lists(n) /\ Members(m) = Members(a)
         /\ stride = 1 /\ SortedTo(a, right) => SortedTo(m, right + 1)
<1>1. /\ right \in Nat /\ low \in Nat /\ low <= right /\ right < n
      /\ (right - low) % stride = 0
  BY DEF IsPlace
<1>2. DOMAIN a = 0..n - 1 /\ \A k \in 0..n - 1 : a[k] \in GroupId /\ a[k] \in Nat
  BY GroupsAreNumbers DEF Lists
<1>3. DOMAIN m = 0..n - 1
  BY <1>2 DEF Moved
<1> DEFINE Behind(i) == i > low /\ i <= right /\ (right - i) % stride = 0
<1>4. \A i \in 0..n - 1 : m[i] = IF i = low THEN a[right] ELSE IF Behind(i) THEN a[i - stride] ELSE a[i]
  BY <1>2 DEF Moved
<1>5. ASSUME NEW i \in 0..n - 1, Behind(i) PROVE i - stride \in 0..n - 1 /\ i - stride >= low
  <2>1. i \in Nat /\ right - i \in Nat /\ right - low \in Nat /\ right - i < right - low
    BY <1>1, <1>5
  <2>2. (right - low) - (right - i) >= stride
    BY <1>1, <1>5, <2>1, StrideApart
  <2> QED
    BY <1>1, <2>1, <2>2
<1>6. \A i \in 0..n - 1 : \E k \in 0..n - 1 : m[i] = a[k]
  BY <1>1, <1>4, <1>5
<1>7. ASSUME NEW k \in 0..n - 1 PROVE \E i \in 0..n - 1 : m[i] = a[k]
  <2>1. CASE k = right
    BY <1>1, <1>4, <2>1
  <2>2. CASE k >= low /\ k < right /\ (right - k) % stride = 0
    <3>1. k \in Nat /\ right - k \in Nat /\ right - k > 0 /\ k + stride \in Nat
      BY <1>1, <2>2
    <3>2. right - k - stride \in Nat /\ (right - k - stride) % stride = 0
      BY <2>2, <3>1, StrideOn
    <3>3. right - (k + stride) = right - k - stride /\ k + stride - stride = k
      BY <1>1, <3>1
    <3>4. k + stride \in 0..n - 1 /\ k + stride > low /\ k + stride <= right
      BY <1>1, <2>2, <3>1, <3>2
    <3>5. Behind(k + stride)
      BY <3>2, <3>3, <3>4
    <3>6. m[k + stride] = a[k]
      BY <1>1, <1>4, <3>3, <3>4, <3>5
    <3> QED
      BY <3>4, <3>6
  <2>3. CASE k # right /\ ~(k >= low /\ k < right /\ (right - k) % stride = 0)
    <3>1. k # low /\ ~Behind(k)
      BY <1>1, <2>3
    <3> QED
      BY <1>4, <3>1
  <2> QED
    BY <2>1, <2>2, <2>3
<1> HIDE DEF Behind
<1>8. m \in Lists(n)
  <2>1. \A i \in 0..n - 1 : m[i] \in GroupId
    BY <1>2, <1>6
  <2>2. m = [i \in 0..n - 1 |-> m[i]]
    BY <1>3, <1>2 DEF Moved
  <2> QED
    BY <2>1, <2>2 DEF Lists
<1>9. Members(m) = Members(a)
  <2>1. \A x : x \in Members(m) <=> \E i \in 0..n - 1 : x = m[i]
    BY <1>3 DEF Members
  <2>2. \A x : x \in Members(a) <=> \E i \in 0..n - 1 : x = a[i]
    BY <1>2 DEF Members
  <2>3. \A x : x \in Members(m) <=> x \in Members(a)
    BY <2>1, <2>2, <1>6, <1>7
  <2> QED
    BY <2>3
<1>10. ASSUME stride = 1, SortedTo(a, right) PROVE SortedTo(m, right + 1)
  <2>1. \A i \in 0..right : Behind(i) <=> i > low
    <3>1. ASSUME NEW i \in 0..right PROVE (right - i) % stride = 0
      <4>1. right - i \in Nat /\ right - i = (right - i) * 1
        BY <1>1
      <4> QED
        BY <1>10, <4>1, MultipleOf
    <3> QED
      BY <1>1, <3>1 DEF Behind
  <2>2. \A i \in 0..right :
          /\ i < low => m[i] = a[i]
          /\ i = low => m[i] = a[right]
          /\ i > low => m[i] = a[i - 1]
    BY <1>1, <1>4, <1>10, <2>1
  <2>3. /\ \A j \in low..right - 1 : a[j] > a[right]
        /\ low = 0 \/ a[low - 1] <= a[right]
    BY <1>10 DEF IsPlace
  <2>4. \A i, j \in 0..right - 1 : i <= j => a[i] <= a[j]
    BY <1>10 DEF SortedTo
  <2>5. \A i \in 0..right : a[i] \in Nat
    BY <1>1, <1>2
  <2>6. \A i, j \in 0..right : i <= j => m[i] <= m[j]
    <3> HIDE DEF Moved
    <3> QED
      BY <1>1, <2>2, <2>3, <2>4, <2>5, PutInPlace
  <2>7. right + 1 - 1 = right
    BY <1>1
  <2> QED
    BY <2>6, <2>7 DEF SortedTo
<1> QED
  BY <1>8, <1>9, <1>10

LEMMA SunkKeeps ==
  ASSUME Given, NEW n \in Nat, NEW a \in Lists(n), NEW right \in 0..n - 1,
         NEW stride \in Nat \ {0}
  PROVE  /\ Sunk(a, right, stride) \in Lists(n)
         /\ Members(Sunk(a, right, stride)) = Members(a)
         /\ stride = 1 /\ SortedTo(a, right) => SortedTo(Sunk(a, right, stride), right + 1)
<1>1. PICK low : IsPlace(a, right, stride, low) /\ Sunk(a, right, stride) = Moved(a, right, stride, low)
  BY SunkIsMoved
<1> QED
  BY <1>1, MovedKeeps

\* A turn of the outer loop keeps the members; the last one sorts.
LEMMA PassKeeps ==
  ASSUME Given, NEW n \in Nat, NEW a \in Lists(n), NEW stride \in 1..n - 1
  PROVE  /\ Pass(a, n, stride) \in Lists(n)
         /\ Members(Pass(a, n, stride)) = Members(a)
         /\ stride = 1 => SortedTo(Pass(a, n, stride), n)
<1> DEFINE D == 0..n - stride
           V == Lists(n)
           Body(g) == [base \in D |-> IF base = 0 THEN a ELSE Sunk(g[base - 1], base - 1 + stride, stride)]
           C == CHOOSE g : g = Body(g)
           H == [g \in [D -> V] |-> Body(g)]
           rank == [base \in D |-> base]
<1>1. Pass(a, n, stride) = C[n - stride]
  BY DEF Pass
<1>2. /\ stride \in Nat \ {0} /\ n - stride \in D /\ n - stride \in Nat
      /\ \A base \in D : /\ base \in Nat
                         /\ base # 0 => base - 1 \in D /\ base - 1 + stride \in 0..n - 1
  OBVIOUS
<1>3. ASSUME NEW g \in [D -> V] PROVE Body(g) \in [D -> V]
  <2>1. ASSUME NEW base \in D PROVE Body(g)[base] \in V
    <3>1. CASE base = 0
      BY <3>1
    <3>2. CASE base # 0
      <4>1. g[base - 1] \in Lists(n)
        BY <1>2, <3>2
      <4>2. Sunk(g[base - 1], base - 1 + stride, stride) \in Lists(n)
        BY <1>2, <3>2, <4>1, SunkKeeps
      <4> QED
        BY <3>2, <4>2
    <3> QED
      BY <3>1, <3>2
  <2> QED
    BY <2>1
<1>4. PICK f \in [D -> V] : H[f] = f
  <2>1. H \in [[D -> V] -> [D -> V]]
    <3> HIDE DEF Body, D, V
    <3> QED
      BY <1>3
  <2>2. rank \in [D -> Nat] /\ \E bound \in Nat : \A x \in D : rank[x] <= bound
    <3>1. rank \in [D -> Nat]
      BY <1>2
    <3>2. \A x \in D : rank[x] <= n - stride
      OBVIOUS
    <3> QED
      BY <1>2, <3>1, <3>2
  <2>3. \A g, h \in [D -> V], x \in D :
          (\A y \in D : rank[y] < rank[x] => g[y] = h[y]) => H[g][x] = H[h][x]
    <3> SUFFICES ASSUME NEW g \in [D -> V], NEW h \in [D -> V], NEW x \in D,
                        \A y \in D : rank[y] < rank[x] => g[y] = h[y]
                 PROVE  H[g][x] = H[h][x]
      OBVIOUS
    <3>1. H[g] = Body(g) /\ H[h] = Body(h)
      OBVIOUS
    <3>2. x # 0 => x - 1 \in D /\ rank[x - 1] < rank[x]
      BY <1>2
    <3>3. x # 0 => g[x - 1] = h[x - 1]
      BY <3>2
    <3> QED
      BY <3>1, <3>3
  <2>4. PICK start \in [D -> V] : start = [base \in D |-> a]
    OBVIOUS
  <2>5. Ranked(D, V, H, rank)
    <3> HIDE DEF H, D, V, rank
    <3> QED
      BY <2>1, <2>2, <2>3 DEF Ranked
  <2> HIDE DEF H, D, V, rank
  <2> QED
    BY <2>4, <2>5, FixedPoint
<1>5. f = Body(f)
  BY <1>4
<1>6. C = Body(C)
  <2> HIDE DEF Body
  <2> QED
    BY <1>5
<1>7. \A base \in D : C[base] = IF base = 0 THEN a ELSE Sunk(C[base - 1], base - 1 + stride, stride)
  <2>1. \A base \in D : Body(C)[base] = IF base = 0 THEN a ELSE Sunk(C[base - 1], base - 1 + stride, stride)
    OBVIOUS
  <2> HIDE DEF Body, C, D
  <2> QED
    BY <1>6, <2>1
<1> HIDE DEF C, Body, H
<1> DEFINE Done(base) == /\ C[base] \in Lists(n)
                         /\ Members(C[base]) = Members(a)
                         /\ stride = 1 => SortedTo(C[base], base + 1)
           T == {k \in Nat : k \in D => Done(k)}
<1>8. 0 \in T
  <2>1. SortedTo(a, 0 + 1)
    <3>1. \A i, j \in 0..0 + 1 - 1 : i = 0 /\ j = 0
      OBVIOUS
    <3>2. 0 \in 0..n - 1
      BY <1>2
    <3>3. a[0] \in Nat
      BY <3>2, GroupsAreNumbers DEF Lists
    <3> QED
      BY <3>1, <3>3 DEF SortedTo
  <2>2. 0 \in D => C[0] = a
    BY <1>7
  <2> QED
    BY <2>1, <2>2
<1>9. ASSUME NEW k \in Nat, k \in T PROVE k + 1 \in T
  <2> SUFFICES ASSUME k + 1 \in D PROVE Done(k + 1)
    OBVIOUS
  <2>1. k \in D /\ k + 1 # 0 /\ k + 1 - 1 = k /\ k + stride \in 0..n - 1
    BY <1>2
  <2>2. Done(k)
    BY <1>9, <2>1
  <2>3. C[k + 1] = Sunk(C[k], k + stride, stride)
    BY <1>7, <2>1
  <2>4. PICK c \in Lists(n) : c = C[k]
    BY <2>2
  <2>5. /\ Sunk(c, k + stride, stride) \in Lists(n)
        /\ Members(Sunk(c, k + stride, stride)) = Members(c)
        /\ stride = 1 /\ SortedTo(c, k + stride) => SortedTo(Sunk(c, k + stride, stride), k + stride + 1)
    BY <1>2, <2>1, SunkKeeps
  <2>6. stride = 1 => SortedTo(Sunk(c, k + stride, stride), k + 1 + 1)
    BY <2>2, <2>4, <2>5
  <2> QED
    BY <2>2, <2>3, <2>4, <2>5, <2>6
<1>10. T = Nat
  <2>1. T \in SUBSET Nat
    OBVIOUS
  <2> HIDE DEF T
  <2> QED
    BY <1>8, <1>9, <2>1, NatByNat
<1>11. Done(n - stride)
  BY <1>2, <1>10
<1>12. stride = 1 => n - stride + 1 = n
  OBVIOUS
<1> QED
  BY <1>1, <1>11, <1>12

\* Strides grow, and end where they come to the length of the list.
Strides(n) == 1..3 * n + 1

StrideRank(n) == [s \in Strides(n) |-> 3 * n + 1 - s]

LEMMA StridesRanked ==
  ASSUME NEW n \in Nat
  PROVE  /\ StrideRank(n) \in [Strides(n) -> Nat]
         /\ \E bound \in Nat : \A s \in Strides(n) : StrideRank(n)[s] <= bound
         /\ \A s \in Strides(n) : s < n => /\ 3 * s + 1 \in Strides(n)
                                           /\ StrideRank(n)[3 * s + 1] < StrideRank(n)[s]
<1>1. \A s \in Strides(n) : s \in Nat /\ 3 * n + 1 - s \in Nat /\ 3 * n + 1 - s <= 3 * n + 1
  BY DEF Strides
<1>2. \A s \in Strides(n) : StrideRank(n)[s] = 3 * n + 1 - s
  BY DEF StrideRank
<1>3. StrideRank(n) \in [Strides(n) -> Nat]
  BY <1>1 DEF StrideRank
<1>4. 3 * n + 1 \in Nat
  OBVIOUS
<1>5. ASSUME NEW s \in Strides(n), s < n
      PROVE  3 * s + 1 \in Strides(n) /\ StrideRank(n)[3 * s + 1] < StrideRank(n)[s]
  <2>1. 3 * s + 1 \in Strides(n)
    BY <1>5 DEF Strides
  <2>2. s \in Nat /\ s < 3 * s + 1
    BY <1>1
  <2> QED
    BY <1>1, <1>2, <2>1, <2>2
<1> QED
  BY <1>1, <1>2, <1>3, <1>4, <1>5

\* The largest of the strides that is less than n.
LEMMA FirstStrideIs ==
  ASSUME NEW n \in Nat
  PROVE  /\ n <= 1 => FirstStride(n) = 0
         /\ n > 1 => FirstStride(n) \in 1..n - 1
<1> DEFINE D == Strides(n)
           Body(g) == [s \in D |-> IF s < n THEN g[3 * s + 1] ELSE s \div 3]
           C == CHOOSE g : g = Body(g)
           H == [g \in [D -> Nat] |-> Body(g)]
<1>1. FirstStride(n) = C[1]
  BY DEF FirstStride, Strides
<1>2. /\ 1 \in D
      /\ \A s \in D : s \in Nat /\ s \div 3 \in Nat /\ (s < n => 3 * s + 1 \in D)
  <2>1. \A s \in D : s \in Nat
    BY DEF Strides
  <2>2. \A s \in Nat : s \div 3 \in Nat
    OBVIOUS
  <2>3. 1 \in D
    BY DEF Strides
  <2> QED
    BY <2>1, <2>2, <2>3, StridesRanked
<1>3. ASSUME NEW g \in [D -> Nat] PROVE Body(g) \in [D -> Nat]
  <2>1. \A s \in D : Body(g)[s] \in Nat
    BY <1>2
  <2> HIDE DEF D
  <2> QED
    BY <2>1
<1>4. PICK f \in [D -> Nat] : H[f] = f
  <2>1. H \in [[D -> Nat] -> [D -> Nat]]
    <3> HIDE DEF Body, D
    <3> QED
      BY <1>3
  <2>3. \A g, h \in [D -> Nat], x \in D :
          (\A y \in D : StrideRank(n)[y] < StrideRank(n)[x] => g[y] = h[y]) => H[g][x] = H[h][x]
    <3> SUFFICES ASSUME NEW g \in [D -> Nat], NEW h \in [D -> Nat], NEW x \in D,
                        \A y \in D : StrideRank(n)[y] < StrideRank(n)[x] => g[y] = h[y]
                 PROVE  H[g][x] = H[h][x]
      OBVIOUS
    <3>1. H[g] = Body(g) /\ H[h] = Body(h)
      OBVIOUS
    <3>2. x < n => 3 * x + 1 \in D /\ StrideRank(n)[3 * x + 1] < StrideRank(n)[x]
      BY StridesRanked
    <3>3. x < n => g[3 * x + 1] = h[3 * x + 1]
      BY <3>2
    <3> QED
      BY <3>1, <3>3
  <2>4. PICK start \in [D -> Nat] : start = [s \in D |-> 0]
    OBVIOUS
  <2>5. PICK rank : rank = StrideRank(n)
    OBVIOUS
  <2>6. rank \in [D -> Nat] /\ \E bound \in Nat : \A s \in D : rank[s] <= bound
    BY <2>5, StridesRanked
  <2>7. Ranked(D, Nat, H, rank)
    <3> HIDE DEF H, D
    <3> QED
      BY <2>1, <2>3, <2>5, <2>6 DEF Ranked
  <2> HIDE DEF H, D
  <2> QED
    BY <2>4, <2>7, FixedPoint
<1>5. f = Body(f)
  BY <1>4
<1>6. C = Body(C)
  <2> HIDE DEF Body
  <2> QED
    BY <1>5
<1>7. \A s \in D : C[s] = IF s < n THEN C[3 * s + 1] ELSE s \div 3
  <2>1. \A s \in D : Body(C)[s] = IF s < n THEN C[3 * s + 1] ELSE s \div 3
    OBVIOUS
  <2> HIDE DEF Body, C, D
  <2> QED
    BY <1>6, <2>1
<1> HIDE DEF C, Body, H
<1> DEFINE T == {k \in Nat : \A s \in D : s < n /\ n - s <= k => C[s] \in s..n - 1}
<1>8. 0 \in T
  BY <1>2
<1>9. ASSUME NEW k \in Nat, k \in T PROVE k + 1 \in T
  <2>1. ASSUME NEW s \in D, s < n, n - s <= k + 1 PROVE C[s] \in s..n - 1
    <3>1. C[s] = C[3 * s + 1] /\ 3 * s + 1 \in D /\ s \in Nat
      BY <1>2, <1>7, <2>1
    <3>2. CASE 3 * s + 1 < n
      <4>1. n - (3 * s + 1) <= k
        BY <2>1, <3>1
      <4>2. C[3 * s + 1] \in 3 * s + 1..n - 1
        BY <1>9, <3>1, <3>2, <4>1
      <4> QED
        BY <3>1, <4>2
    <3>3. CASE ~(3 * s + 1 < n)
      <4>1. C[3 * s + 1] = (3 * s + 1) \div 3
        BY <1>7, <3>1, <3>3
      <4>2. (3 * s + 1) \div 3 = s
        BY <3>1
      <4> QED
        BY <2>1, <3>1, <4>1, <4>2
    <3> QED
      BY <3>2, <3>3
  <2> QED
    BY <2>1
<1>10. T = Nat
  <2>1. T \in SUBSET Nat
    OBVIOUS
  <2> HIDE DEF T
  <2> QED
    BY <1>8, <1>9, <2>1, NatByNat
<1>11. n > 1 => C[1] \in 1..n - 1
  <2>1. n - 1 \in Nat => n - 1 \in T
    BY <1>10
  <2> QED
    BY <1>2, <2>1
<1>12. n <= 1 => C[1] = 0
  <2>1. 1 \div 3 = 0
    OBVIOUS
  <2> QED
    BY <1>2, <1>7, <2>1
<1> QED
  BY <1>1, <1>11, <1>12

\* groups_sort() sorts, and keeps the members.
LEMMA SortSorts ==
  ASSUME Given, NEW n \in Nat, NEW a \in Lists(n)
  PROVE  /\ Sort(a, n) \in Lists(n)
         /\ Members(Sort(a, n)) = Members(a)
         /\ SortedTo(Sort(a, n), n)
<1> DEFINE D == Strides(n)
           V == Lists(n)
           F == FirstStride(n)
           Body(g) == [s \in D |-> IF s > F THEN a ELSE Pass(g[3 * s + 1], n, s)]
           C == CHOOSE g : g = Body(g)
           H == [g \in [D -> V] |-> Body(g)]
<1>1. Sort(a, n) = C[1]
  BY DEF Sort, Strides
<1>2. /\ 1 \in D
      /\ \A s \in D : s \in Nat /\ (s <= F => s < n /\ s \in 1..n - 1 /\ 3 * s + 1 \in D)
  <2>1. \A s \in D : s \in Nat /\ s >= 1
    BY DEF Strides
  <2>2. 1 \in D
    BY DEF Strides
  <2>3. F = 0 \/ F \in 1..n - 1
    BY FirstStrideIs
  <2>4. \A s \in D : s <= F => s < n /\ s \in 1..n - 1
    <3> HIDE DEF F, D
    <3> QED
      BY <2>1, <2>3
  <2> QED
    BY <2>1, <2>2, <2>4, StridesRanked
<1> HIDE DEF F
<1>3. ASSUME NEW g \in [D -> V] PROVE Body(g) \in [D -> V]
  <2>1. ASSUME NEW s \in D PROVE Body(g)[s] \in V
    <3>1. CASE s > F
      BY <3>1
    <3>2. CASE ~(s > F)
      <4>1. F \in Nat
        BY FirstStrideIs DEF F
      <4>2. s <= F
        BY <1>2, <3>2, <4>1
      <4>3. g[3 * s + 1] \in Lists(n) /\ s \in 1..n - 1
        BY <1>2, <4>2
      <4>4. Pass(g[3 * s + 1], n, s) \in Lists(n)
        BY <4>3, PassKeeps
      <4> QED
        BY <3>2, <4>4
    <3> QED
      BY <3>1, <3>2
  <2> QED
    BY <2>1
<1>a. F \in Nat
  BY FirstStrideIs DEF F
<1>4. PICK f \in [D -> V] : H[f] = f
  <2>1. H \in [[D -> V] -> [D -> V]]
    <3> HIDE DEF Body, D, V
    <3> QED
      BY <1>3
  <2>3. \A g, h \in [D -> V], x \in D :
          (\A y \in D : StrideRank(n)[y] < StrideRank(n)[x] => g[y] = h[y]) => H[g][x] = H[h][x]
    <3> SUFFICES ASSUME NEW g \in [D -> V], NEW h \in [D -> V], NEW x \in D,
                        \A y \in D : StrideRank(n)[y] < StrideRank(n)[x] => g[y] = h[y]
                 PROVE  H[g][x] = H[h][x]
      OBVIOUS
    <3>1. H[g] = Body(g) /\ H[h] = Body(h)
      OBVIOUS
    <3>2. ~(x > F) => 3 * x + 1 \in D /\ StrideRank(n)[3 * x + 1] < StrideRank(n)[x]
      BY <1>2, <1>a, StridesRanked
    <3>3. ~(x > F) => g[3 * x + 1] = h[3 * x + 1]
      BY <3>2
    <3> QED
      BY <3>1, <3>3
  <2>4. PICK start \in [D -> V] : start = [s \in D |-> a]
    OBVIOUS
  <2>5. PICK rank : rank = StrideRank(n)
    OBVIOUS
  <2>6. rank \in [D -> Nat] /\ \E bound \in Nat : \A s \in D : rank[s] <= bound
    BY <2>5, StridesRanked
  <2>7. Ranked(D, V, H, rank)
    <3> HIDE DEF H, D, V
    <3> QED
      BY <2>1, <2>3, <2>5, <2>6 DEF Ranked
  <2> HIDE DEF H, D, V
  <2> QED
    BY <2>4, <2>7, FixedPoint
<1>5. f = Body(f)
  BY <1>4
<1>6. C = Body(C)
  <2> HIDE DEF Body
  <2> QED
    BY <1>5
<1>7. \A s \in D : C[s] = IF s > F THEN a ELSE Pass(C[3 * s + 1], n, s)
  <2>1. \A s \in D : Body(C)[s] = IF s > F THEN a ELSE Pass(C[3 * s + 1], n, s)
    OBVIOUS
  <2> HIDE DEF Body, C, D
  <2> QED
    BY <1>6, <2>1
<1> HIDE DEF C, Body, H
<1> DEFINE Done(s) == /\ C[s] \in Lists(n)
                      /\ Members(C[s]) = Members(a)
                      /\ s = 1 /\ s <= F => SortedTo(C[s], n)
           T == {k \in Nat : \A s \in D : F + 1 - s <= k => Done(s)}
<1>8. ASSUME NEW s \in D, s > F PROVE Done(s)
  <2>1. C[s] = a /\ ~(s <= F)
    BY <1>2, <1>7, <1>8, <1>a
  <2> QED
    BY <2>1
<1>9. ASSUME NEW s \in D, s <= F, Done(3 * s + 1) PROVE Done(s)
  <2>1. C[s] = Pass(C[3 * s + 1], n, s) /\ s \in 1..n - 1
    BY <1>2, <1>7, <1>9, <1>a
  <2>2. PICK c \in Lists(n) : c = C[3 * s + 1]
    BY <1>9
  <2>3. /\ Pass(c, n, s) \in Lists(n)
        /\ Members(Pass(c, n, s)) = Members(c)
        /\ s = 1 => SortedTo(Pass(c, n, s), n)
    BY <2>1, PassKeeps
  <2> QED
    BY <1>9, <2>1, <2>2, <2>3
<1> HIDE DEF Done
<1>10. 0 \in T
  <2>1. ASSUME NEW s \in D, F + 1 - s <= 0 PROVE s > F
    BY <1>2, <1>a, <2>1
  <2> QED
    BY <1>8, <2>1
<1>11. ASSUME NEW k \in Nat, k \in T PROVE k + 1 \in T
  <2>1. ASSUME NEW s \in D, F + 1 - s <= k + 1 PROVE Done(s)
    <3>1. CASE s > F
      BY <1>8, <3>1
    <3>2. CASE s <= F
      <4>1. s \in Nat /\ 3 * s + 1 \in D
        BY <1>2, <3>2
      <4>2. F + 1 - (3 * s + 1) <= k
        BY <1>a, <2>1, <4>1
      <4> QED
        BY <1>9, <1>11, <3>2, <4>1, <4>2
    <3> QED
      BY <1>2, <1>a, <3>1, <3>2
  <2> QED
    BY <2>1
<1>12. T = Nat
  <2>1. T \in SUBSET Nat
    OBVIOUS
  <2> HIDE DEF T
  <2> QED
    BY <1>10, <1>11, <2>1, NatByNat
<1>13. Done(1)
  <2>1. F + 1 - 1 \in T
    <3> HIDE DEF T
    <3> QED
      BY <1>12, <1>a
  <2> QED
    BY <1>2, <2>1
<1>14. SortedTo(C[1], n)
  <2>1. CASE 1 <= F
    BY <1>13, <2>1 DEF Done
  <2>2. CASE F < 1
    <3>1. n <= 1 /\ C[1] = a
      BY <1>2, <1>7, <1>a, <2>2, FirstStrideIs DEF F
    <3>2. \A i, j \in 0..n - 1 : i = j
      BY <3>1
    <3>3. \A i \in 0..n - 1 : a[i] \in Nat
      BY GroupsAreNumbers DEF Lists
    <3> QED
      BY <3>1, <3>2, <3>3 DEF SortedTo
  <2> QED
    BY <1>a, <2>1, <2>2
<1> QED
  BY <1>1, <1>13, <1>14 DEF Done

-----------------------------------------------------------------------------
(* groups_search.                                                          *)

\* Of groups that are near each other, cmp has the sign of the difference.
LEMMA CmpSign ==
  ASSUME Given, NEW grp \in GroupId, NEW g \in GroupId, Near(grp, g)
  PROVE  /\ Cmp(grp, g) \in Int
         /\ grp > g => Cmp(grp, g) > 0
         /\ grp = g => Cmp(grp, g) = 0
         /\ grp < g => Cmp(grp, g) < 0
<1>1. PICK half \in Nat \ {0} : half = Half
  BY DEF Given
<1>2. grp \in 0..2 * half - 1 /\ g \in 0..2 * half - 1
  BY <1>1 DEF Given
<1>3. grp - g < half /\ g - grp < half
  BY <1>1 DEF Near
<1> DEFINE p == 2 * half
           d == (grp - g) % p
<1>4. Cmp(grp, g) = IF d >= half THEN d - p ELSE d
  BY <1>1 DEF Cmp
<1>5. CASE grp >= g
  <2>1. d = grp - g
    BY <1>2, <1>5
  <2> QED
    BY <1>2, <1>3, <1>4, <1>5, <2>1
<1>6. CASE grp < g
  <2>1. d = grp - g + p
    BY <1>2, <1>6
  <2> QED
    BY <1>2, <1>3, <1>4, <1>6, <2>1
<1> QED
  BY <1>2, <1>5, <1>6

\* The places of the window that the search may still look at.
HasIn(l, left, right, grp) == \E k \in left..right - 1 : l[k] = grp

\* What is in a window is in the half that the search goes to.
LEMMA InHalf ==
  ASSUME Given, NEW n \in Nat, NEW l \in Lists(n), SortedTo(l, n),
         NEW left \in 0..n, NEW right \in 0..n, left < right, NEW grp \in Nat,
         NEW mid \in left..right - 1
  PROVE  /\ grp > l[mid] => (HasIn(l, left, right, grp) <=> HasIn(l, mid + 1, right, grp))
         /\ grp < l[mid] => (HasIn(l, left, right, grp) <=> HasIn(l, left, mid, grp))
         /\ grp = l[mid] => HasIn(l, left, right, grp)
<1>1. \A k \in 0..n - 1 : l[k] \in Nat
  BY GroupsAreNumbers DEF Lists
<1>2. \A i, j \in 0..n - 1 : i <= j => l[i] <= l[j]
  BY DEF SortedTo
<1>3. mid \in 0..n - 1
  OBVIOUS
<1>4. ASSUME grp > l[mid], NEW k \in left..right - 1, l[k] = grp PROVE k \in mid + 1..right - 1
  <2>1. k \in 0..n - 1
    OBVIOUS
  <2>2. ~(k <= mid)
    BY <1>1, <1>2, <1>3, <1>4, <2>1
  <2> QED
    BY <1>3, <2>1, <2>2
<1>5. ASSUME grp < l[mid], NEW k \in left..right - 1, l[k] = grp PROVE k \in left..mid - 1
  <2>1. k \in 0..n - 1
    OBVIOUS
  <2>2. ~(mid <= k)
    BY <1>1, <1>2, <1>3, <1>5, <2>1
  <2> QED
    BY <1>3, <2>1, <2>2
<1>6. /\ \A k \in mid + 1..right - 1 : k \in left..right - 1
      /\ \A k \in left..mid - 1 : k \in left..right - 1
  OBVIOUS
<1> QED
  BY <1>4, <1>5, <1>6 DEF HasIn

LEMMA Halves ==
  \A n \in Nat : \A left, right \in 0..n :
    left < right => /\ (left + right) \div 2 \in left..right - 1
                    /\ (left + right) \div 2 + 1 \in 0..n
                    /\ (left + right) \div 2 \in 0..n
OBVIOUS

\* In a sorted list the search finds each group that is not too far from others.
LEMMA SearchIs ==
  ASSUME Given, NEW i, NEW n \in Nat, n = ngroups[i], NEW l \in Lists(n), l = list[i],
         SortedTo(l, n), NEW grp \in GroupId, \A g \in Members(l) : Near(grp, g)
  PROVE  groups_search(i, grp) <=> grp \in Members(l)
<1> DEFINE D == (0..n) \X (0..n)
           Mid(w) == (w[1] + w[2]) \div 2
           Way(w) == Cmp(grp, l[Mid(w)])
           Look(g, w) == /\ w[1] < w[2]
                         /\ \/ Way(w) > 0 /\ g[<<Mid(w) + 1, w[2]>>]
                            \/ Way(w) < 0 /\ g[<<w[1], Mid(w)>>]
                            \/ Way(w) = 0
           Body(g) == [w \in D |-> Look(g, w)]
           C == CHOOSE g : g = Body(g)
           V == BOOLEAN
           H == [g \in [D -> V] |-> Body(g)]
           rank == [w \in D |-> IF w[1] < w[2] THEN w[2] - w[1] ELSE 0]
<1>1. groups_search(i, grp) <=> C[<<0, n>>]
  BY DEF groups_search
<1>2. ASSUME NEW w \in D
      PROVE  /\ w[1] \in 0..n /\ w[2] \in 0..n /\ w[1] \in Nat /\ w[2] \in Nat
             /\ w = <<w[1], w[2]>>
  OBVIOUS
<1>3. ASSUME NEW w \in D, w[1] < w[2]
      PROVE  /\ Mid(w) \in w[1]..w[2] - 1
             /\ <<Mid(w) + 1, w[2]>> \in D /\ <<w[1], Mid(w)>> \in D
             /\ rank[<<Mid(w) + 1, w[2]>>] < rank[w]
             /\ rank[<<w[1], Mid(w)>>] < rank[w]
  <2>1. /\ Mid(w) \in w[1]..w[2] - 1
        /\ Mid(w) + 1 \in 0..n /\ Mid(w) \in 0..n
    BY <1>2, <1>3, Halves
  <2>2. <<Mid(w) + 1, w[2]>> \in D /\ <<w[1], Mid(w)>> \in D
    BY <1>2, <2>1
  <2>3. /\ rank[w] = w[2] - w[1]
        /\ rank[<<Mid(w) + 1, w[2]>>] = IF Mid(w) + 1 < w[2] THEN w[2] - (Mid(w) + 1) ELSE 0
        /\ rank[<<w[1], Mid(w)>>] = IF w[1] < Mid(w) THEN Mid(w) - w[1] ELSE 0
    BY <1>3, <2>2
  <2> HIDE DEF Mid, rank
  <2> QED
    BY <1>2, <1>3, <2>1, <2>2, <2>3
<1>4. PICK f \in [D -> V] : H[f] = f
  <2>1. H \in [[D -> V] -> [D -> V]]
    <3>1. ASSUME NEW g \in [D -> V] PROVE Body(g) \in [D -> V]
      <4>1. \A w \in D : Look(g, w) \in BOOLEAN
        OBVIOUS
      <4> HIDE DEF Look, D
      <4> QED
        BY <4>1
    <3> HIDE DEF Body, D, V
    <3> QED
      BY <3>1
  <2>2. rank \in [D -> Nat]
    <3>1. \A w \in D : (IF w[1] < w[2] THEN w[2] - w[1] ELSE 0) \in Nat
      BY <1>2
    <3> HIDE DEF D
    <3> QED
      BY <3>1
  <2>3. \E bound \in Nat : \A w \in D : rank[w] <= bound
    <3>1. \A w \in D : rank[w] = IF w[1] < w[2] THEN w[2] - w[1] ELSE 0
      OBVIOUS
    <3>2. \A w \in D : rank[w] <= n
      <4> HIDE DEF rank, D
      <4> QED
        BY <1>2, <3>1
    <3> HIDE DEF rank, D
    <3> QED
      BY <3>2
  <2>4. \A g, h \in [D -> V], w \in D :
          (\A y \in D : rank[y] < rank[w] => g[y] = h[y]) => H[g][w] = H[h][w]
    <3> SUFFICES ASSUME NEW g \in [D -> V], NEW h \in [D -> V], NEW w \in D,
                        \A y \in D : rank[y] < rank[w] => g[y] = h[y]
                 PROVE  H[g][w] = H[h][w]
      OBVIOUS
    <3>1. H[g] = Body(g) /\ H[h] = Body(h)
      OBVIOUS
    <3>2. Body(g)[w] = Look(g, w) /\ Body(h)[w] = Look(h, w)
      OBVIOUS
    <3>3. w[1] < w[2] => /\ g[<<Mid(w) + 1, w[2]>>] = h[<<Mid(w) + 1, w[2]>>]
                         /\ g[<<w[1], Mid(w)>>] = h[<<w[1], Mid(w)>>]
      <4> HIDE DEF rank, D, Mid
      <4> QED
        BY <1>3
    <3>4. Look(g, w) = Look(h, w)
      <4> HIDE DEF Way, Mid, D, rank
      <4> QED
        BY <3>3
    <3> QED
      BY <3>1, <3>2, <3>4
  <2>5. PICK start \in [D -> V] : start = [w \in D |-> FALSE]
    OBVIOUS
  <2>6. Ranked(D, V, H, rank)
    <3> HIDE DEF H, D, V, rank
    <3> QED
      BY <2>1, <2>2, <2>3, <2>4 DEF Ranked
  <2> HIDE DEF H, D, V, rank, C, Body, Look, Way, Mid
  <2>7. PICK h, r, d, v : h = H /\ r = rank /\ d = D /\ v = V
    OBVIOUS
  <2>8. Ranked(d, v, h, r) /\ start \in [d -> v]
    BY <2>6, <2>7
  <2>9. \E g \in [d -> v] : h[g] = g
    BY <2>8, FixedPoint
  <2> QED
    BY <2>7, <2>9
<1>5. f = Body(f)
  BY <1>4
<1>6. C = Body(C)
  <2> HIDE DEF Body
  <2> QED
    BY <1>5
<1>7. \A w \in D : C[w] = Look(C, w)
  <2>1. \A w \in D : Body(C)[w] = Look(C, w)
    OBVIOUS
  <2> HIDE DEF Body, C, D, Look
  <2> QED
    BY <1>6, <2>1
<1> HIDE DEF C, Body, H, rank
<1> DEFINE Finds(w) == C[w] <=> HasIn(l, w[1], w[2], grp)
           T == {k \in Nat : \A w \in D : w[2] - w[1] <= k => Finds(w)}
<1>8. ASSUME NEW w \in D, ~(w[1] < w[2]) PROVE Finds(w)
  <2>1. ~C[w]
    BY <1>7, <1>8
  <2>2. w[1]..w[2] - 1 = {}
    BY <1>2, <1>8
  <2> QED
    BY <2>1, <2>2 DEF HasIn
<1>9. ASSUME NEW w \in D, w[1] < w[2],
             Finds(<<Mid(w) + 1, w[2]>>), Finds(<<w[1], Mid(w)>>)
      PROVE  Finds(w)
  <2>1. PICK left \in 0..n, right \in 0..n, mid \in 0..n :
          left = w[1] /\ right = w[2] /\ mid = Mid(w)
    BY <1>2, <1>3, <1>9, Halves
  <2>2. left < right /\ mid \in left..right - 1 /\ mid \in 0..n - 1
    BY <1>3, <1>9, <2>1
  <2>3. l[mid] \in GroupId /\ l[mid] \in Members(l) /\ l[mid] \in Nat /\ grp \in Nat
    BY <2>2, GroupsAreNumbers DEF Lists, Members
  <2>4. /\ Way(w) \in Int
        /\ grp > l[mid] => Way(w) > 0
        /\ grp = l[mid] => Way(w) = 0
        /\ grp < l[mid] => Way(w) < 0
    BY <2>1, <2>3, CmpSign
  <2>5. /\ C[<<mid + 1, right>>] <=> HasIn(l, mid + 1, right, grp)
        /\ C[<<left, mid>>] <=> HasIn(l, left, mid, grp)
    BY <1>9, <2>1
  <2>6. /\ grp > l[mid] => (HasIn(l, left, right, grp) <=> HasIn(l, mid + 1, right, grp))
        /\ grp < l[mid] => (HasIn(l, left, right, grp) <=> HasIn(l, left, mid, grp))
        /\ grp = l[mid] => HasIn(l, left, right, grp)
    BY <2>2, <2>3, InHalf
  <2>7. C[w] <=> \/ Way(w) > 0 /\ C[<<mid + 1, right>>]
                 \/ Way(w) < 0 /\ C[<<left, mid>>]
                 \/ Way(w) = 0
    <3>1. C[w] = Look(C, w)
      BY <1>7
    <3> HIDE DEF Way, Mid, D
    <3> QED
      BY <1>9, <2>1, <3>1
  <2>8. grp > l[mid] \/ grp = l[mid] \/ grp < l[mid]
    BY <2>3
  <2> DEFINE way == Way(w)
  <2>9. /\ way > 0 => ~(way < 0) /\ ~(way = 0)
        /\ way < 0 => ~(way = 0)
    <3> HIDE DEF Way
    <3> QED
      BY <2>4
  <2>10. HasIn(l, left, right, grp) <=> C[w]
    <3> HIDE DEF Way, D
    <3>1. CASE grp > l[mid]
      BY <2>4, <2>5, <2>6, <2>7, <2>9, <3>1, Zenon
    <3>2. CASE grp = l[mid]
      BY <2>4, <2>6, <2>7, <3>2, Zenon
    <3>3. CASE grp < l[mid]
      BY <2>4, <2>5, <2>6, <2>7, <2>9, <3>3, Zenon
    <3> QED
      BY <2>8, <3>1, <3>2, <3>3
  <2> QED
    BY <2>1, <2>10
<1> HIDE DEF Finds
<1>10. 0 \in T
  <2>1. ASSUME NEW w \in D, w[2] - w[1] <= 0 PROVE ~(w[1] < w[2])
    BY <1>2, <2>1
  <2> QED
    BY <1>8, <2>1
<1>11. ASSUME NEW k \in Nat, k \in T PROVE k + 1 \in T
  <2>1. ASSUME NEW w \in D, w[2] - w[1] <= k + 1 PROVE Finds(w)
    <3>1. CASE w[1] < w[2]
      <4>1. PICK u \in D : u = <<Mid(w) + 1, w[2]>>
        BY <1>3, <3>1
      <4>2. PICK v \in D : v = <<w[1], Mid(w)>>
        BY <1>3, <3>1
      <4>3. Mid(w) \in w[1]..w[2] - 1
        BY <1>3, <3>1
      <4>4. u[1] = Mid(w) + 1 /\ u[2] = w[2] /\ v[1] = w[1] /\ v[2] = Mid(w)
        BY <4>1, <4>2
      <4>5. u[2] - u[1] <= k /\ v[2] - v[1] <= k
        <5> HIDE DEF Mid, D
        <5> QED
          BY <1>2, <2>1, <4>3, <4>4
      <4>6. Finds(u) /\ Finds(v)
        BY <1>11, <4>5
      <4> QED
        BY <1>9, <3>1, <4>1, <4>2, <4>6
    <3> QED
      BY <1>8, <3>1
  <2> QED
    BY <2>1
<1>12. T = Nat
  <2>1. T \in SUBSET Nat
    OBVIOUS
  <2> HIDE DEF T
  <2> QED
    BY <1>10, <1>11, <2>1, NatByNat
<1>13. Finds(<<0, n>>)
  <2>1. n \in T
    <3> HIDE DEF T
    <3> QED
      BY <1>12
  <2>2. <<0, n>> \in D /\ <<0, n>>[2] - <<0, n>>[1] <= n
    OBVIOUS
  <2> QED
    BY <2>1, <2>2
<1>14. HasIn(l, 0, n, grp) <=> grp \in Members(l)
  BY DEF HasIn, Members, Lists
<1> QED
  BY <1>1, <1>13, <1>14 DEF Finds

-----------------------------------------------------------------------------
(* The lists of the tasks.                                                 *)

\* Task t has a sorted list of the groups that it was given.
HasList(t) ==
  /\ list[group_info[t]] \in Lists(ngroups[group_info[t]])
  /\ SortedTo(list[group_info[t]], ngroups[group_info[t]])
  /\ Members(list[group_info[t]]) = asked[t]

ListsInv ==
  /\ DOMAIN list = Info /\ DOMAIN asked = Task
  /\ \A t \in Task : group_info[t] # NoInfo => HasList(t)

LEMMA ListsBegin == Given /\ GroupsInit => ListsInv
<1> SUFFICES ASSUME Given, GroupsInit
             PROVE  ListsInv
  OBVIOUS
<1>1. DOMAIN list = Info /\ DOMAIN asked = Task
  BY DEF GroupsInit
<1>2. ASSUME NEW t \in Task, group_info[t] # NoInfo PROVE HasList(t)
  <2>1. /\ group_info[t] = init_groups /\ init_groups \in Info
        /\ ngroups[init_groups] = 0 /\ list[init_groups] = Empty /\ asked[t] = {}
    BY <1>2 DEF GroupsInit, Given
  <2>2. 0..0 - 1 = {}
    OBVIOUS
  <2>3. Empty \in Lists(0) /\ SortedTo(Empty, 0) /\ Members(Empty) = {}
    BY <2>2 DEF Empty, Lists, SortedTo, Members
  <2> QED
    BY <2>1, <2>3 DEF HasList
<1> QED
  BY <1>1, <1>2 DEF ListsInv

\* A task of which nothing changes.
LEMMA ListStays ==
  ASSUME ListsInv, NEW u \in Task, group_info[u] # NoInfo,
         group_info'[u] = group_info[u], asked'[u] = asked[u],
         list'[group_info[u]] = list[group_info[u]],
         ngroups'[group_info[u]] = ngroups[group_info[u]]
  PROVE  HasList(u)'
<1>1. HasList(u)
  BY DEF ListsInv
<1> QED
  BY <1>1 DEF HasList, Lists, SortedTo, Members

\* A list that two tasks have is counted twice.
LEMMA SharedIsCounted ==
  ASSUME Given, MemoryInv, NEW t \in Task, NEW u \in Task, t # u,
         group_info[t] # NoInfo, group_info[u] = group_info[t]
  PROVE  usage[group_info[t]] > 1
<1>1. PICK i \in Info : i = group_info[t]
  BY OldIsWhole
<1>2. usage[i] = Count(group_info, i) + Count(calling, i) + (IF i = init_groups THEN 1 ELSE 0)
  BY DEF MemoryInv, Counted
<1>3. /\ Count(group_info, i) \in Nat /\ Count(calling, i) \in Nat
      /\ Count(group_info, i) = 0 <=> \A v \in Task : group_info[v] # i
  BY CountIs, GivenFinite
<1>4. Count(group_info, i) # 0 /\ Count(group_info, i) # 1
  BY <1>1, <1>3, CountOne, GivenFinite
<1> QED
  BY <1>1, <1>2, <1>3, <1>4

\* When a task leaves its list, the others keep theirs.
LEMMA OthersKeep ==
  ASSUME Given, MemoryInv, NEW t \in Task, group_info[t] # NoInfo, Put(group_info[t]),
         NEW u \in Task, u # t, group_info[u] # NoInfo,
         NEW lists, DOMAIN lists = Info, list' = ListsWithout(lists, group_info[t])
  PROVE  /\ ngroups'[group_info[u]] = ngroups[group_info[u]]
         /\ list'[group_info[u]] = lists[group_info[u]]
<1>1. /\ group_info[t] \in Info /\ group_info[u] \in Info /\ usage[group_info[t]] > 0
      /\ pages[group_info[t]] = Need(ngroups[group_info[t]])
  BY OldIsWhole
<1>2. /\ \A j \in Info : j # group_info[t] => ngroups'[j] = ngroups[j]
      /\ usage[group_info[t]] > 1 => ngroups'[group_info[t]] = ngroups[group_info[t]]
  BY <1>1, PutGivesBack
<1>3. CASE group_info[u] = group_info[t]
  <2>1. usage[group_info[t]] > 1
    BY <1>3, SharedIsCounted
  <2> QED
    BY <1>2, <1>3, <2>1 DEF ListsWithout
<1>4. CASE group_info[u] # group_info[t]
  BY <1>1, <1>2, <1>4 DEF ListsWithout
<1> QED
  BY <1>3, <1>4

LEMMA InstallGives ==
  ASSUME Given, MemoryInv, ListsInv, NEW t \in Task, calling[t] # NoInfo,
         NEW gids \in Lists(ngroups[calling[t]]), Install(t, gids)
  PROVE  ListsInv'
<1>1. PICK i \in Info, n \in Nat, old \in Info :
        i = calling[t] /\ n = ngroups[i] /\ old = group_info[t] /\ i # old
  BY NewIsAlone DEF MemoryInv, GroupsTypes
<1>2. PICK lists : lists = [list EXCEPT ![i] = Sort(gids, n)]
  OBVIOUS
<1>3. /\ list' = ListsWithout(lists, old) /\ Put(old)
      /\ group_info' = [group_info EXCEPT ![t] = i]
      /\ asked' = [asked EXCEPT ![t] = Members(gids)]
  BY <1>1, <1>2 DEF Install, Members
<1>4. /\ DOMAIN lists = Info /\ lists[i] = Sort(gids, n)
      /\ \A j \in Info : j # i => lists[j] = list[j]
  BY <1>2 DEF ListsInv
<1>5. /\ group_info \in [Task -> Info \cup {NoInfo}] /\ NoInfo \notin Info
      /\ group_info[t] # NoInfo
  BY <1>1 DEF MemoryInv, GroupsTypes, Given
<1>6. DOMAIN list' = Info /\ DOMAIN asked' = Task
  BY <1>3, <1>4 DEF ListsInv, ListsWithout
<1>7. HasList(t)'
  <2>1. ngroups'[i] = n
    BY <1>1, <1>3, OldIsWhole, <1>5, PutGivesBack
  <2>2. list'[i] = Sort(gids, n)
    BY <1>1, <1>3, <1>4 DEF ListsWithout
  <2>3. group_info'[t] = i /\ asked'[t] = Members(gids)
    BY <1>3, <1>5 DEF ListsInv
  <2>4. PICK g \in Lists(n) : g = gids
    BY <1>1
  <2>5. /\ Sort(g, n) \in Lists(n)
        /\ Members(Sort(g, n)) = Members(g)
        /\ SortedTo(Sort(g, n), n)
    BY SortSorts
  <2>6. PICK l : l = Sort(g, n)
    OBVIOUS
  <2>7. l \in Lists(n) /\ SortedTo(l, n)
    BY <2>5, <2>6
  <2>8. /\ list'[group_info'[t]] = l /\ ngroups'[group_info'[t]] = n
        /\ asked'[t] = Members(l)
    BY <2>1, <2>2, <2>3, <2>4, <2>5, <2>6
  <2> QED
    BY <2>7, <2>8 DEF HasList, Lists, SortedTo, Members
<1>8. ASSUME NEW u \in Task, u # t, group_info'[u] # NoInfo PROVE HasList(u)'
  <2>1. group_info'[u] = group_info[u] /\ asked'[u] = asked[u] /\ group_info[u] # i
    BY <1>1, <1>3, <1>5, <1>8, NewIsAlone DEF ListsInv
  <2>2. group_info[u] \in Info /\ group_info[u] # NoInfo
    BY <1>5, <1>8, <2>1
  <2>3. /\ ngroups'[group_info[u]] = ngroups[group_info[u]]
        /\ list'[group_info[u]] = lists[group_info[u]]
    BY <1>1, <1>3, <1>4, <1>5, <1>8, <2>2, OthersKeep
  <2> QED
    BY <1>4, <2>1, <2>2, <2>3, ListStays
<1> QED
  BY <1>6, <1>7, <1>8 DEF ListsInv

LEMMA ExitGives ==
  ASSUME Given, MemoryInv, ListsInv, NEW t \in Task, Exit(t)
  PROVE  ListsInv'
<1>1. /\ group_info[t] # NoInfo /\ Put(group_info[t])
      /\ list' = ListsWithout(list, group_info[t])
      /\ group_info' = [group_info EXCEPT ![t] = NoInfo]
      /\ asked' = [asked EXCEPT ![t] = {}]
  BY DEF Exit, Idle, Alive
<1>2. /\ group_info \in [Task -> Info \cup {NoInfo}]
      /\ DOMAIN list = Info /\ DOMAIN asked = Task
  BY DEF MemoryInv, GroupsTypes, ListsInv
<1>3. DOMAIN list' = Info /\ DOMAIN asked' = Task
  BY <1>1, <1>2 DEF ListsWithout
<1>4. ASSUME NEW u \in Task, group_info'[u] # NoInfo PROVE HasList(u)'
  <2>1. u # t /\ group_info'[u] = group_info[u] /\ asked'[u] = asked[u]
    BY <1>1, <1>2, <1>4
  <2>2. group_info[u] # NoInfo
    BY <1>4, <2>1
  <2>3. PICK lists : lists = list
    OBVIOUS
  <2>4. /\ ngroups'[group_info[u]] = ngroups[group_info[u]]
        /\ list'[group_info[u]] = lists[group_info[u]]
    BY <1>1, <1>2, <2>1, <2>2, <2>3, OthersKeep
  <2> QED
    BY <2>1, <2>2, <2>3, <2>4, ListStays
<1> QED
  BY <1>3, <1>4 DEF ListsInv

LEMMA ForkGives ==
  ASSUME Given, MemoryInv, ListsInv, NEW t \in Task, NEW c \in Task, Fork(t, c)
  PROVE  ListsInv'
<1>1. /\ group_info[t] # NoInfo /\ group_info[c] = NoInfo
      /\ group_info' = [group_info EXCEPT ![c] = group_info[t]]
      /\ asked' = [asked EXCEPT ![c] = asked[t]]
      /\ UNCHANGED <<ngroups, list>>
  BY DEF Fork, Idle, Alive
<1>2. /\ group_info \in [Task -> Info \cup {NoInfo}]
      /\ DOMAIN list = Info /\ DOMAIN asked = Task
  BY DEF MemoryInv, GroupsTypes, ListsInv
<1>3. ASSUME NEW u \in Task, group_info'[u] # NoInfo PROVE HasList(u)'
  <2>1. CASE u = c
    <3>1. HasList(t) /\ group_info'[c] = group_info[t] /\ asked'[c] = asked[t]
      BY <1>1, <1>2 DEF ListsInv
    <3> QED
      BY <1>1, <2>1, <3>1 DEF HasList, Lists, SortedTo, Members
  <2>2. CASE u # c
    <3>1. group_info'[u] = group_info[u] /\ asked'[u] = asked[u]
      BY <1>1, <1>2, <2>2
    <3> QED
      BY <1>1, <1>3, <3>1, ListStays
  <2> QED
    BY <2>1, <2>2
<1> QED
  BY <1>1, <1>2, <1>3 DEF ListsInv

\* The other steps of a call leave alone all lists that somebody has.
LEMMA CallSpares ==
  ASSUME Given, MemoryInv, ListsInv,
         UNCHANGED <<group_info, asked>>, DOMAIN list' = Info,
         \A u \in Task : group_info[u] # NoInfo =>
           /\ list'[group_info[u]] = list[group_info[u]]
           /\ ngroups'[group_info[u]] = ngroups[group_info[u]]
  PROVE  ListsInv'
<1>1. ASSUME NEW u \in Task, group_info[u] # NoInfo PROVE HasList(u)'
  BY <1>1, ListStays
<1> QED
  BY <1>1 DEF ListsInv

LEMMA CallGives ==
  ASSUME Given, MemoryInv, ListsInv, NEW t \in Task,
         GetPage(t) \/ NoPage(t) \/ Refuse(t)
  PROVE  ListsInv'
<1>1. calling[t] # NoInfo /\ UNCHANGED <<group_info, asked>>
  BY DEF GetPage, NoPage, Refuse
<1>2. PICK i \in Info : /\ i = calling[t] /\ usage[i] = 1
                        /\ \A u \in Task : group_info[u] # i
  BY <1>1, NewIsAlone
<1>3. /\ ngroups \in [Info -> Nat] /\ DOMAIN list = Info
      /\ \A u \in Task : group_info[u] # NoInfo => group_info[u] \in Info
  BY DEF MemoryInv, GroupsTypes, ListsInv
<1>4. \/ UNCHANGED <<ngroups, list>>
      \/ ngroups' = [ngroups EXCEPT ![i] = 0] /\ UNCHANGED list
      \/ ngroups' = [ngroups EXCEPT ![i] = 0] /\ list' = [list EXCEPT ![i] = Empty]
  <2>1. GetPage(t) => UNCHANGED <<ngroups, list>>
    BY DEF GetPage
  <2>2. NoPage(t) => ngroups' = [ngroups EXCEPT ![i] = 0] /\ UNCHANGED list
    BY <1>2 DEF NoPage
  <2>3. Refuse(t) => ngroups' = [ngroups EXCEPT ![i] = 0] /\ list' = [list EXCEPT ![i] = Empty]
    <3>1. ~(usage[i] > 1)
      BY <1>2
    <3> QED
      BY <1>2, <3>1 DEF Refuse, Put, ListsWithout
  <2> QED
    BY <2>1, <2>2, <2>3
<1>5. DOMAIN list' = Info
  BY <1>3, <1>4
<1>6. ASSUME NEW u \in Task, group_info[u] # NoInfo
      PROVE  /\ list'[group_info[u]] = list[group_info[u]]
             /\ ngroups'[group_info[u]] = ngroups[group_info[u]]
  BY <1>2, <1>3, <1>4, <1>6
<1> QED
  BY <1>1, <1>5, <1>6, CallSpares

LEMMA StartGives ==
  ASSUME Given, MemoryInv, ListsInv, NEW t \in Task, NEW n \in Nat, NEW i \in Info, Start(t, n, i)
  PROVE  ListsInv'
<1>1. /\ usage[i] = 0 /\ ngroups' = [ngroups EXCEPT ![i] = n]
      /\ UNCHANGED <<group_info, list, asked>>
  BY DEF Start
<1>2. \A u \in Task : group_info[u] # NoInfo => group_info[u] \in Info /\ group_info[u] # i
  BY <1>1, OldIsWhole
<1>3. ngroups \in [Info -> Nat] /\ DOMAIN list = Info
  BY DEF MemoryInv, GroupsTypes, ListsInv
<1> QED
  BY <1>1, <1>2, <1>3, CallSpares

LEMMA ListsStep == Given /\ MemoryInv /\ ListsInv /\ [GroupsNext]_groups_vars => ListsInv'
<1> SUFFICES ASSUME Given, MemoryInv, ListsInv, [GroupsNext]_groups_vars
             PROVE  ListsInv'
  OBVIOUS
<1>1. CASE UNCHANGED groups_vars
  <2>1. UNCHANGED <<group_info, asked, list, ngroups>>
    BY <1>1 DEF groups_vars, infos
  <2> QED
    BY <2>1, CallSpares DEF ListsInv
<1>2. ASSUME NEW t \in Task, NEW n \in Size, NEW i \in Info, Start(t, n, i)
      PROVE  ListsInv'
  <2>1. n \in Nat
    BY DEF Given
  <2> QED
    BY <1>2, <2>1, StartGives
<1>3. ASSUME NEW t \in Task, calling[t] # NoInfo,
             NEW gids \in [0..ngroups[calling[t]] - 1 -> GroupId], Install(t, gids)
      PROVE  ListsInv'
  <2>1. gids \in Lists(ngroups[calling[t]])
    BY DEF Lists
  <2> QED
    BY <1>3, <2>1, InstallGives
<1> QED
  BY <1>1, <1>2, <1>3, CallGives, ForkGives, ExitGives DEF GroupsNext

\* A group is found if it was given, and not if it was not, whatever others did with
\* lists that were shared, for groups that are less than half the range apart.
LEMMA ListsFind == Given /\ MemoryInv /\ ListsInv => SearchFinds
<1> SUFFICES ASSUME Given, MemoryInv, ListsInv, NEW t \in Alive, NEW own \in GroupId,
                    NEW grp \in GroupId, \A g \in asked[t] : Near(grp, g)
             PROVE  in_group_p(t, own, grp) <=> grp = own \/ grp \in asked[t]
  BY DEF SearchFinds
<1>1. t \in Task /\ group_info[t] # NoInfo /\ HasList(t)
  BY DEF Alive, ListsInv
<1>2. PICK i \in Info, n \in Nat : i = group_info[t] /\ n = ngroups[i]
  BY <1>1 DEF MemoryInv, GroupsTypes
<1>b. PICK l : l = list[i]
  OBVIOUS
<1>3. l \in Lists(n) /\ SortedTo(l, n) /\ Members(l) = asked[t]
  BY <1>1, <1>2, <1>b DEF HasList
<1>4. groups_search(i, grp) <=> grp \in Members(l)
  BY <1>2, <1>b, <1>3, SearchIs
<1> QED
  BY <1>2, <1>3, <1>4 DEF in_group_p

\* However the calls of tasks that share lists interleave, in_group_p and in_egroup_p
\* say of a task what it was given, with lists of any length.
THEOREM GroupsAreFound == GroupsSpec => []SearchFinds
<1>a. Given
  BY GroupsAssumption
<1>1. GroupsInit => MemoryInv /\ ListsInv
  BY <1>a, MemoryBegins, ListsBegin
<1>2. MemoryInv /\ ListsInv => SearchFinds
  BY <1>a, ListsFind
<1>3. MemoryInv /\ ListsInv /\ [GroupsNext]_groups_vars => (MemoryInv /\ ListsInv)'
  BY <1>a, MemoryStep, ListsStep
<1> QED
  BY <1>1, <1>2, <1>3, PTL DEF GroupsSpec

=============================================================================
