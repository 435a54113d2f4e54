--------------------------- MODULE AddrSpaceProofs ---------------------------
(***************************************************************************)
(* Page tables outlive their users, for any number of tasks and trees, as  *)
(* long as the table of shared trees does not overflow and no thread is    *)
(* killed while it is off its CPU (the two cases AddrSpaceFull.cfg and     *)
(* AddrSpaceKill.cfg refute).                                              *)
(***************************************************************************)
EXTENDS AddrSpace, FiniteSetTheorems, TLAPS

Count(s) == Cardinality(Users(s))

\* A tree with a user is allocated, and only a reaped or killed task has none.
Owned ==
  \A t \in Task :
    /\ pml4[t] \in live \cup {None}
    /\ life[t] = "none" => pml4[t] = None
    /\ life[t] \in {"on", "off", "zon"} => pml4[t] # None

\* An allocated tree has a user, and one outside the table has no second.
Counted ==
  \A s \in Space :
    /\ s \in live => Count(s) > 0
    /\ refs[s] = 0 => Count(s) <= 1
    /\ refs[s] > 0 => refs[s] = Count(s) /\ s \in live

\* Only trees that are allocated, unshared and whose user is dead are torn.
TornDead ==
  /\ torn \subseteq live
  /\ \A s \in torn : refs[s] = 0
  /\ PagesKept

IInv == TypeOK /\ Owned /\ Counted /\ TornDead

-----------------------------------------------------------------------------
(* What one assignment to t->pml4 does to the users of every tree *)

\* The users of a tree are finitely many.
LEMMA UsersFinite ==
  ASSUME NEW s \in Space
  PROVE  /\ IsFiniteSet(Users(s)) /\ Count(s) \in Nat
         /\ Count(s) = 0 <=> Users(s) = {}
  <1>1. Users(s) \subseteq Task BY DEF Users
  <1>2. IsFiniteSet(Users(s)) BY <1>1, FS_Subset, AddrSpaceAssumption
  <1> QED BY <1>2, FS_CardinalityType, FS_EmptySet DEF Count

\* Moving t from one tree to another moves one in their counts.
LEMMA Move ==
  ASSUME TypeOK, NEW t \in Task, NEW x \in Space \cup {None},
         pml4' = [pml4 EXCEPT ![t] = x], pml4[t] # x
  PROVE  \A s \in Space : Count(s)' = IF s = x THEN Count(s) + 1
                                      ELSE IF s = pml4[t] THEN Count(s) - 1
                                      ELSE Count(s)
  <1> SUFFICES ASSUME NEW s \in Space
               PROVE Count(s)' = IF s = x THEN Count(s) + 1
                                 ELSE IF s = pml4[t] THEN Count(s) - 1
                                 ELSE Count(s)
      OBVIOUS
  <1>1. IsFiniteSet(Users(s)) BY UsersFinite
  <1>2. CASE s = x
    <2>1. Users(s)' = Users(s) \cup {t} /\ t \notin Users(s)
        BY <1>2 DEF Users, TypeOK
    <2> QED BY <1>1, <1>2, <2>1, FS_AddElement, Zenon DEF Count
  <1>3. CASE s # x /\ s = pml4[t]
    <2>1. Users(s)' = Users(s) \ {t} /\ t \in Users(s)
        BY <1>3 DEF Users, TypeOK
    <2> QED BY <1>1, <1>3, <2>1, FS_RemoveElement, ZenonT(60) DEF Count
  <1>4. CASE s # x /\ s # pml4[t]
    <2>1. Users(s)' = Users(s) BY <1>4 DEF Users, TypeOK
    <2> QED BY <1>4, <2>1 DEF Count
  <1> QED BY <1>2, <1>3, <1>4

\* A task without a tree that takes one adds one to its count.
LEMMA Join ==
  ASSUME TypeOK, NEW t \in Task, NEW s \in Space, pml4[t] = None,
         pml4' = [pml4 EXCEPT ![t] = s]
  PROVE  \A r \in Space : Count(r)' = IF r = s THEN Count(r) + 1 ELSE Count(r)
  <1>1. pml4[t] # s /\ \A r \in Space : r # pml4[t] BY AddrSpaceAssumption
  <1>2. \A r \in Space : Count(r)' = IF r = s THEN Count(r) + 1
                                     ELSE IF r = pml4[t] THEN Count(r) - 1
                                     ELSE Count(r)
      BY <1>1, Move, Zenon
  <1> QED BY <1>1, <1>2

\* A task that gives its tree up takes one from its count.
LEMMA Part ==
  ASSUME TypeOK, NEW t \in Task, pml4[t] \in Space,
         pml4' = [pml4 EXCEPT ![t] = None]
  PROVE  \A r \in Space : Count(r)' = IF r = pml4[t] THEN Count(r) - 1 ELSE Count(r)
  <1>1. pml4[t] # None /\ \A r \in Space : r # None BY AddrSpaceAssumption
  <1>2. None \in Space \cup {None} OBVIOUS
  <1>3. \A r \in Space : Count(r)' = IF r = None THEN Count(r) + 1
                                     ELSE IF r = pml4[t] THEN Count(r) - 1
                                     ELSE Count(r)
      BY <1>1, <1>2, Move, Zenon
  <1> QED BY <1>1, <1>3

\* Two users count for two.
LEMMA SoleUser ==
  ASSUME NEW s \in Space, Count(s) <= 1, NEW t \in Users(s), NEW u \in Users(s)
  PROVE  t = u
  <1>1. IsFiniteSet(Users(s)) /\ Count(s) \in Nat BY UsersFinite
  <1>2. Cardinality(Users(s)) # 0 BY <1>1, FS_EmptySet
  <1>3. Cardinality(Users(s)) = 1 BY <1>1, <1>2 DEF Count
  <1>4. \E x : Users(s) = {x} BY <1>1, <1>3, FS_Singleton
  <1> QED BY <1>4

\* A tree with a user has a count of at least one.
LEMMA UserCounts ==
  ASSUME TypeOK, NEW t \in Task, pml4[t] \in Space
  PROVE  Count(pml4[t]) > 0
  <1>1. t \in Users(pml4[t]) BY DEF Users
  <1> QED BY <1>1, UsersFinite

\* The table has room for every tree that is not in it.
LEMMA TableRoom ==
  ASSUME TypeOK, NEW s \in Space, s \notin Table,
         IsFiniteSet(Space), Cardinality(Space) <= TableMax
  PROVE  Cardinality(Table) < TableMax
  <1>1. Table \subseteq Space /\ Table # Space BY DEF Table
  <1>2. IsFiniteSet(Table) /\ Cardinality(Table) <= Cardinality(Space)
        /\ Cardinality(Table) # Cardinality(Space)
      BY <1>1, FS_Subset
  <1>3. Cardinality(Table) \in Nat /\ Cardinality(Space) \in Nat
      BY <1>2, FS_CardinalityType
  <1> QED BY <1>2, <1>3, AddrSpaceAssumption

-----------------------------------------------------------------------------
LEMMA InitIInv == Init => IInv
  <1> SUFFICES ASSUME Init PROVE IInv OBVIOUS
  <1> USE AddrSpaceAssumption DEF Init
  <1>1. TypeOK BY DEF TypeOK
  <1>2. Owned BY DEF Owned
  <1>3. Users(FirstSpace) = {First} BY DEF Users
  <1>4. \A s \in Space \ {FirstSpace} : Users(s) = {} BY DEF Users
  <1>5. Count(FirstSpace) = 1 BY <1>3, FS_Singleton, Zenon DEF Count
  <1>6. \A s \in Space \ {FirstSpace} : Count(s) = 0
      BY <1>4, FS_EmptySet DEF Count
  <1>7. Counted BY <1>5, <1>6 DEF Counted
  <1>8. TornDead BY DEF TornDead, PagesKept
  <1> QED BY <1>1, <1>2, <1>7, <1>8 DEF IInv

\* A step that leaves every pml4 alone leaves the counts alone.
LEMMA SameCount ==
  ASSUME pml4' = pml4 PROVE \A s \in Space : Count(s)' = Count(s)
  BY DEF Count, Users

\* Every step keeps the invariant, given room in the table and no killed
\* threads.
LEMMA StepIInv ==
  ASSUME IInv, [Next]_vars, KillThreads = 0,
         IsFiniteSet(Space), Cardinality(Space) <= TableMax
  PROVE  IInv'
  <1> USE AddrSpaceAssumption DEF IInv
  <1>0. \A s \in Space : Count(s) \in Nat BY UsersFinite
  <1>1. CASE UNCHANGED vars
    <2>1. \A s \in Space : Count(s)' = Count(s) BY <1>1, SameCount DEF vars
    <2> QED BY <1>1, <2>1 DEF vars, TypeOK, Owned, Counted, TornDead, PagesKept
  <1>2. ASSUME NEW t \in Task,
               SwitchIn(t) \/ SwitchOut(t) \/ Exit(t) \/ ExitGroup(t) \/ KillOnCpu(t)
        PROVE IInv'
    <2>1. pml4' = pml4 /\ live' = live /\ refs' = refs
        BY <1>2 DEF SwitchIn, SwitchOut, Exit, ExitGroup, KillOnCpu
    <2>2. \A s \in Space : Count(s)' = Count(s) BY <2>1, SameCount
    <2>3. TypeOK'
        BY <1>2 DEF TypeOK, Owned, SwitchIn, SwitchOut, Exit, ExitGroup, KillOnCpu
    <2>4. Owned'
        BY <1>2, <2>1 DEF TypeOK, Owned, SwitchIn, SwitchOut, Exit, ExitGroup, KillOnCpu
    <2>5. Counted' BY <2>1, <2>2 DEF Counted
    <2>6. TornDead'
      <3>1. CASE SwitchIn(t) \/ SwitchOut(t) \/ KillOnCpu(t)
          BY <3>1, <2>1 DEF TypeOK, TornDead, PagesKept, SwitchIn, SwitchOut, KillOnCpu
      <3>2. ASSUME Exit(t) \/ ExitGroup(t), refs[pml4[t]] = 0
            PROVE  TornDead'
        <4>1. pml4[t] \in live /\ pml4[t] \in Space
            BY <3>2 DEF Owned, TypeOK, Exit, ExitGroup
        <4>2. \A u \in Task : pml4[u] = pml4[t] => u = t
            BY <4>1, <3>2, SoleUser DEF Counted, Users
        <4>3. torn' = torn \cup {pml4[t]} /\ life'[t] = "zon"
            BY <3>2 DEF Exit, ExitGroup, sched_pml4_is_shared, Table, TypeOK
        <4>4. \A u \in Task : life'[u] \in {"on", "off"} => life'[u] = life[u] /\ u # t
            BY <3>2, <4>3 DEF Exit, ExitGroup, TypeOK
        <4> QED BY <3>2, <4>1, <4>2, <4>3, <4>4, <2>1 DEF TornDead, PagesKept
      <3>3. ASSUME Exit(t) \/ ExitGroup(t), refs[pml4[t]] # 0
            PROVE  TornDead'
        <4>1. pml4[t] \in live /\ pml4[t] \in Space
            BY <3>3 DEF Owned, TypeOK, Exit, ExitGroup
        <4>2. torn' = torn
            BY <3>3, <4>1 DEF Exit, ExitGroup, sched_pml4_is_shared, Table, TypeOK
        <4>3. \A u \in Task : life'[u] \in {"on", "off"} => life'[u] = life[u]
            BY <3>3 DEF Exit, ExitGroup, TypeOK
        <4> QED BY <4>2, <4>3, <2>1 DEF TornDead, PagesKept
      <3> QED BY <1>2, <3>1, <3>2, <3>3
    <2> QED BY <2>3, <2>4, <2>5, <2>6
  <1>3. ASSUME NEW t \in Task, NEW s \in Space, NEW p \in Task, Fork(p, t, s)
        PROVE IInv'
    <2>1. /\ pml4[t] = None /\ pml4' = [pml4 EXCEPT ![t] = s]
          /\ s \in Space \cup {None} /\ s # None
        BY <1>3 DEF Fork, Owned
    <2>2. \A r \in Space : Count(r)' = IF r = s THEN Count(r) + 1 ELSE Count(r)
        BY <2>1, Join, Zenon
    <2>3. Count(s) = 0 /\ refs[s] = 0 /\ s \notin torn
      <3>1. Users(s) = {} BY <1>3 DEF Users, Owned, Fork
      <3> QED BY <3>1, <1>3, UsersFinite DEF Counted, TornDead, TypeOK, Fork
    <2>4. TypeOK' BY <1>3 DEF TypeOK, Fork
    <2>5. Owned' BY <1>3 DEF TypeOK, Owned, Fork
    <2>6. Counted' BY <1>0, <1>3, <2>2, <2>3 DEF Counted, Fork, TypeOK
    <2>7. TornDead' BY <1>3, <2>3 DEF TornDead, PagesKept, Fork, TypeOK
    <2> QED BY <2>4, <2>5, <2>6, <2>7
  <1>4. ASSUME NEW p \in Task, NEW t \in Task, CloneThread(p, t)
        PROVE IInv'
    <2> DEFINE s == pml4[p]
    <2>1. pml4[t] = None /\ s \in Space /\ s \in live /\ pml4' = [pml4 EXCEPT ![t] = s]
        BY <1>4 DEF CloneThread, Owned, TypeOK
    <2>2. \A r \in Space : Count(r)' = IF r = s THEN Count(r) + 1 ELSE Count(r)
        BY <2>1, Join, Zenon
    <2>3. refs' = [refs EXCEPT ![s] = IF refs[s] > 0 THEN refs[s] + 1 ELSE 2]
        BY <1>4, <2>1, TableRoom, Zenon DEF CloneThread, sched_pml4_ref, Table, TypeOK
    <2>4. s \notin torn BY <1>4 DEF CloneThread, TornDead, PagesKept
    <2>5. TypeOK' BY <1>4, <2>1, <2>3 DEF TypeOK, CloneThread
    <2>6. Owned' BY <1>4, <2>1 DEF TypeOK, Owned, CloneThread
    <2>7. Counted' BY <1>0, <1>4, <2>1, <2>2, <2>3, SMTT(30) DEF Counted, CloneThread, TypeOK
    <2>8. TornDead'
        BY <1>4, <2>1, <2>3, <2>4 DEF TornDead, PagesKept, CloneThread, TypeOK
    <2> QED BY <2>5, <2>6, <2>7, <2>8
  <1>5. ASSUME NEW t \in Task, NEW s \in Space, Exec(t, s)
        PROVE IInv'
    <2> DEFINE o == pml4[t]
    <2>1. o \in Space /\ o \in live /\ o # s /\ pml4' = [pml4 EXCEPT ![t] = s]
        BY <1>5 DEF Exec, Owned, TypeOK
    <2>2. \A r \in Space : Count(r)' = IF r = s THEN Count(r) + 1
                                       ELSE IF r = o THEN Count(r) - 1 ELSE Count(r)
        BY <2>1, Move, Zenon
    <2>3. Count(s) = 0 /\ refs[s] = 0 /\ s \notin torn
      <3>1. Users(s) = {} BY <1>5 DEF Users, Owned, Exec
      <3> QED BY <3>1, <1>5, UsersFinite DEF Counted, TornDead, TypeOK, Exec
    <2>4. /\ refs' \in [Space -> Nat]
          /\ \A r \in Space : refs'[r] = IF r = o /\ refs[o] > 0 THEN refs[o] - 1 ELSE refs[r]
        BY <1>5, <2>1 DEF Exec, sched_pml4_unref, Table, TypeOK
    <2>5. Count(o) > 0 BY <2>1, UserCounts
    <2>6. TypeOK' BY <1>5, <2>1, <2>4 DEF TypeOK, Exec
    <2>7. LastUnref(o) => Count(o) = 1
        BY <1>0, <2>1, <2>5 DEF LastUnref, Counted, TypeOK
    <2>8. LastUnref(o) => \A u \in Task : pml4[u] = o => u = t
        BY <1>0, <2>1, <2>7, SoleUser DEF Users
    <2>9. Owned' BY <1>5, <2>1, <2>8, SMTT(30) DEF TypeOK, Owned, Exec
    <2>10. Counted'
        BY <1>0, <1>5, <2>1, <2>2, <2>3, <2>4, <2>5, <2>7, SMTT(30) DEF Counted, Exec, TypeOK, LastUnref
    <2>11. TornDead'
        BY <1>5, <2>1, <2>3, <2>4, <2>8, SMTT(30) DEF TornDead, PagesKept, Exec, TypeOK, LastUnref
    <2> QED BY <2>6, <2>9, <2>10, <2>11
  <1>6. ASSUME NEW t \in Task, KillOffCpu(t) \/ Reap(t), pml4[t] # None
        PROVE IInv'
    <2> DEFINE o == pml4[t]
    <2>1. o \in Space /\ o \in live BY <1>6 DEF Owned, TypeOK
    <2>2. KillOffCpu(t) => LastUnref(o)
        BY <1>6, <2>1 DEF KillOffCpu, sched_pml4_is_shared, Table, LastUnref, TypeOK
    <2>3. pml4' = [pml4 EXCEPT ![t] = None] BY <1>6, <2>2 DEF KillOffCpu, Reap
    <2>4. Drop(o) BY <1>6 DEF KillOffCpu, Reap
    <2>5. /\ life' = [life EXCEPT ![t] = "zoff"] \/ life' = [life EXCEPT ![t] = "none"]
          /\ life[t] \in {"off", "zoff"}
        BY <1>6 DEF KillOffCpu, Reap
    <2>6. \A r \in Space : Count(r)' = IF r = o THEN Count(r) - 1 ELSE Count(r)
        BY <2>1, <2>3, Part, Zenon
    <2>7. /\ refs' \in [Space -> Nat]
          /\ \A r \in Space : refs'[r] = IF r = o /\ refs[o] > 0 THEN refs[o] - 1 ELSE refs[r]
        BY <2>1, <2>4 DEF Drop, sched_pml4_unref, Table, TypeOK
    <2>8. Count(o) > 0 BY <2>1, UserCounts
    <2>9. LastUnref(o) => Count(o) = 1
        BY <1>0, <2>1, <2>8 DEF LastUnref, Counted, TypeOK
    <2>10. LastUnref(o) => \A u \in Task : pml4[u] = o => u = t
        BY <1>0, <2>1, <2>9, SoleUser DEF Users
    <2>11. TypeOK' BY <2>1, <2>3, <2>4, <2>5, <2>7, SMTT(30) DEF TypeOK, Drop
    <2>12. Owned' BY <2>1, <2>3, <2>4, <2>5, <2>10, SMTT(30) DEF TypeOK, Owned, Drop
    <2>13. Counted'
        BY <1>0, <2>1, <2>4, <2>6, <2>7, <2>8, <2>9, SMTT(30) DEF Counted, Drop, TypeOK, LastUnref
    <2>14. TornDead'
        BY <2>1, <2>3, <2>4, <2>5, <2>7, <2>10, SMTT(30) DEF TornDead, PagesKept, Drop, TypeOK, LastUnref
    <2> QED BY <2>11, <2>12, <2>13, <2>14
  <1>7. ASSUME NEW t \in Task, Reap(t), pml4[t] = None
        PROVE IInv'
    <2>1. pml4' = pml4 /\ refs' = refs /\ live' = live /\ torn' = torn
          /\ life' = [life EXCEPT ![t] = "none"]
        BY <1>7 DEF Reap, TypeOK
    <2>2. \A s \in Space : Count(s)' = Count(s) BY <2>1, SameCount
    <2> QED BY <1>7, <2>1, <2>2 DEF TypeOK, Owned, Counted, TornDead, PagesKept
  <1>8. ASSUME NEW t \in Task, KillOffCpu(t) PROVE pml4[t] # None
      BY <1>8 DEF KillOffCpu, Owned
  <1> QED BY <1>1, <1>2, <1>3, <1>4, <1>5, <1>6, <1>7, <1>8 DEF Next

-----------------------------------------------------------------------------
(* The four properties of AddrSpace follow from the invariant. *)
LEMMA IInvMeans ==
  ASSUME IInv PROVE SpaceKept /\ PagesKept /\ NoSpaceLeak /\ RefsExact
  <1>1. SpaceKept BY DEF IInv, Owned, SpaceKept
  <1>2. NoSpaceLeak
    <2> SUFFICES ASSUME NEW s \in live PROVE Users(s) # {} BY DEF NoSpaceLeak
    <2>1. s \in Space /\ Count(s) > 0 BY DEF IInv, Counted, TypeOK
    <2> QED BY <2>1, UsersFinite
  <1>3. RefsExact BY DEF IInv, Counted, RefsExact, Table, Count
  <1> QED BY <1>1, <1>2, <1>3 DEF IInv, TornDead

(* The page tables of every task that can still run are allocated: exec, exit,
   kill and reap free a tree only with its last user (sched.c 151-189). *)
THEOREM SpaceKeptHolds ==
  ASSUME KillThreads = 0, IsFiniteSet(Space), Cardinality(Space) <= TableMax
  PROVE  Spec => []SpaceKept
  <1>1. IInv /\ [Next]_vars => IInv' BY StepIInv
  <1>2. IInv => SpaceKept BY IInvMeans
  <1> QED BY InitIInv, <1>1, <1>2, PTL DEF Spec

(* The exit of one thread never unmaps the memory of a live sibling
   (sched.c 1353-1358). *)
THEOREM PagesKeptHolds ==
  ASSUME KillThreads = 0, IsFiniteSet(Space), Cardinality(Space) <= TableMax
  PROVE  Spec => []PagesKept
  <1>1. IInv /\ [Next]_vars => IInv' BY StepIInv
  <1>2. IInv => PagesKept BY IInvMeans
  <1> QED BY InitIInv, <1>1, <1>2, PTL DEF Spec

(* Every allocated tree still has an unreaped user: exec, kill and reap leak
   none. *)
THEOREM NoSpaceLeakHolds ==
  ASSUME KillThreads = 0, IsFiniteSet(Space), Cardinality(Space) <= TableMax
  PROVE  Spec => []NoSpaceLeak
  <1>1. IInv /\ [Next]_vars => IInv' BY StepIInv
  <1>2. IInv => NoSpaceLeak BY IInvMeans
  <1> QED BY InitIInv, <1>1, <1>2, PTL DEF Spec

(* g_shared_refs counts the tasks of a shared tree exactly, and the state is
   well typed. *)
THEOREM RefsExactHolds ==
  ASSUME KillThreads = 0, IsFiniteSet(Space), Cardinality(Space) <= TableMax
  PROVE  Spec => [](TypeOK /\ RefsExact)
  <1>1. IInv /\ [Next]_vars => IInv' BY StepIInv
  <1>2. IInv => TypeOK /\ RefsExact BY IInvMeans DEF IInv
  <1> QED BY InitIInv, <1>1, <1>2, PTL DEF Spec

(* All of it: clone, fork, exec, exit, kill and reap in any order keep page
   tables exactly as long as some task needs them (sched.c 151-189, 1353-1358). *)
THEOREM AddressSpacesSoundHolds ==
  ASSUME KillThreads = 0, IsFiniteSet(Space), Cardinality(Space) <= TableMax
  PROVE  Spec => []AddressSpacesSound
  <1>1. IInv /\ [Next]_vars => IInv' BY StepIInv
  <1>2. IInv => AddressSpacesSound BY IInvMeans DEF IInv, AddressSpacesSound
  <1> QED BY InitIInv, <1>1, <1>2, PTL DEF Spec
=============================================================================
