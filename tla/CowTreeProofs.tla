--------------------------- MODULE CowTreeProofs ---------------------------
(***************************************************************************)
(* Theorems about CowTree for any number of threads, maps, tries, states   *)
(* and contents.                                                           *)
(***************************************************************************)
EXTENDS CowTree, Induction, FiniteSetTheorems, TLAPS

USE DEF Map, State, Null

\* The sets of tries that has_clone counts are finite.
LEMMA UsersFinite ==
    ASSUME NEW s PROVE IsFiniteSet(Users(s))
  BY FiniteAssumption, FS_Subset DEF Users

\* Before any call there is nothing to get wrong.
LEMMA InitInv == Init => IInv
  <1> SUFFICES ASSUME Init PROVE IInv
    OBVIOUS
  <1>1. TypeOK
    BY NullAssumption, SizesAssumption DEF Init, TypeOK, PC, NoArg, NoRaw
  <1>2. PtrLive /\ RefsExact /\ CloneCountExact
    BY NullAssumption DEF Init, PtrLive, RefsExact, CloneCountExact
  <1>3. CallsHold /\ ClonesDistinct /\ DiffHolds
    BY DEF Init, CallsHold, ClonesDistinct, DiffHolds
  <1>4. MtxHolds
    BY DEF Init, MtxHolds
  <1> QED BY <1>1, <1>2, <1>3, <1>4 DEF IInv

\* A step that leaves alone the trie mutexes, and what the differences that
\* hold one look at, keeps the mutexes accounted for.
LEMMA MtxStable ==
    ASSUME TypeOK, MtxHolds, UNCHANGED mtx,
           \A x \in Thread : pc[x] \in {"snap", "half"} =>
              pc'[x] = pc[x] /\ arg'[x] = arg[x] /\ raw'[x] = raw[x],
           \A x \in Thread : pc[x] = "snap" =>
              /\ StateOf(arg[x].a)' = StateOf(arg[x].a)
              /\ StateOf(arg[x].b)' = StateOf(arg[x].b)
    PROVE MtxHolds'
  <1> SUFFICES ASSUME NEW s \in State, mtx[s] # NoThread
               PROVE  \/ /\ pc'[mtx[s]] = "half"
                         /\ s = Lower(raw'[mtx[s]].sa, raw'[mtx[s]].sb)
                      \/ /\ pc'[mtx[s]] = "snap"
                         /\ s = Lower(StateOf(arg[mtx[s]].a)', StateOf(arg[mtx[s]].b)')
    BY DEF MtxHolds, Lower
  <1>1. mtx[s] \in Thread
    BY DEF TypeOK
  <1> QED BY <1>1 DEF MtxHolds

\* account_map_lock freezes a map and keeps the invariant.
LEMMA LockMapInv ==
    ASSUME IInv, NEW th \in Thread, NEW m \in Map, LockMap(th, m)
    PROVE IInv'
  <1> USE DEF IInv, LockMap, Usable, treeVars, stateVars, threadVars
  <1>1. TypeOK'
    BY DEF TypeOK
  <1>2. PtrLive' /\ RefsExact' /\ CloneCountExact'
    BY DEF TypeOK, PtrLive, RefsExact, CloneCountExact, Users
  <1>3. CallsHold'
    BY NullAssumption DEF TypeOK, CallsHold, Held, StateOf
  <1>4. ClonesDistinct' /\ DiffHolds'
    BY DEF ClonesDistinct, DiffHolds
  <1>5. MtxHolds'
    BY MtxStable DEF TypeOK, StateOf
  <1> QED BY <1>1, <1>2, <1>3, <1>4, <1>5

\* Caching an unlocked state keeps the invariant: its owner is in no call.
LEMMA ShareMapInv ==
    ASSUME IInv, NEW th \in Thread, NEW m \in Map, ShareMap(th, m)
    PROVE IInv'
  <1> USE DEF IInv, ShareMap, treeVars, stateVars, threadVars
  <1>1. TypeOK'
    BY DEF TypeOK
  <1>2. PtrLive' /\ RefsExact' /\ CloneCountExact'
    BY DEF TypeOK, PtrLive, RefsExact, CloneCountExact, Users
  <1>3. CallsHold'
    BY NullAssumption DEF TypeOK, CallsHold, Held, StateOf
  <1>4. ClonesDistinct' /\ DiffHolds'
    BY DEF ClonesDistinct, DiffHolds
  <1>5. MtxHolds'
    BY MtxStable DEF TypeOK, StateOf
  <1> QED BY <1>1, <1>2, <1>3, <1>4, <1>5

\* A trie on a SharedState of its own counts as its only user.
LEMMA AllocExact ==
    ASSUME TypeOK, PtrLive, CloneCountExact,
           NEW t \in Tree, NEW s \in State, NEW m, NEW v,
           AllocTree(t, s, m, v), UNCHANGED dying
    PROVE CloneCountExact'
  <1> USE DEF AllocTree, FreshTree, FreshState
  <1>1. Users(s)' = {t}
    BY DEF TypeOK, PtrLive, Users
  <1>2. \A x \in State \ {s} : Users(x)' = Users(x)
    BY DEF TypeOK, Users
  <1>3. Cardinality(Users(s)') = 1
    BY <1>1, FS_Singleton
  <1> SUFFICES ASSUME NEW x \in live' \ dying'
               PROVE  Cardinality(Users(x)') = clones'[x] + 1
    BY DEF CloneCountExact
  <1>4. CASE x = s
    BY <1>3, <1>4 DEF TypeOK
  <1>5. CASE x # s
    BY <1>2, <1>5 DEF TypeOK, CloneCountExact
  <1> QED BY <1>4, <1>5

\* account_map_new keeps the invariant: its trie, state and handle are new.
LEMMA NewMapInv ==
    ASSUME IInv, NEW th \in Thread, NEW m \in Map, NEW t \in Tree,
           NEW s \in State, NewMap(th, m, t, s)
    PROVE IInv'
  <1> USE DEF IInv, NewMap, AllocTree, FreshMap, FreshTree, FreshState, threadVars
  <1>1. TypeOK'
    BY NullAssumption DEF TypeOK
  <1>2. PtrLive' /\ RefsExact'
    BY NullAssumption DEF TypeOK, PtrLive, RefsExact
  <1>3. CloneCountExact'
    BY AllocExact
  <1>4. CallsHold'
    BY DEF TypeOK, CallsHold, Held, StateOf, PtrLive, RefsExact
  <1>5. ClonesDistinct'
    BY DEF TypeOK, ClonesDistinct
  <1>6. MtxHolds'
    BY NullAssumption, MtxStable DEF TypeOK, StateOf, CallsHold, Held, PtrLive, RefsExact
  <1>7. DiffHolds'
    BY DEF TypeOK, DiffHolds, CallsHold, Held, PtrLive, RefsExact
  <1> QED BY <1>1, <1>2, <1>3, <1>4, <1>5, <1>6, <1>7

\* account_map_put of a storage list keeps the invariant: the old trie loses
\* one reference and the map gets another trie.
LEMMA ReplaceInv ==
    ASSUME IInv, NEW th \in Thread, NEW m \in Map, NEW v \in Val, NEW t \in Tree,
           NEW s \in State, Replace(th, m, v, t, s)
    PROVE IInv'
  <1> USE DEF IInv, Replace, MayWrite, Usable, AllocTree, FreshTree, FreshState, threadVars
  <1>0. slot[m] \in Tree /\ slot[m] # t
    BY NullAssumption, SMTT(20) DEF TypeOK, RefsExact
  <1>10. \A x \in Thread : pc[x] # "idle" =>
            /\ arg[x].a # m
            /\ pc[x] \in {"diff1", "diff2", "snap", "diff3", "raw", "half"} => arg[x].b # m
    <2>1. by[m] = th
      OBVIOUS
    <2> SUFFICES ASSUME NEW x \in Thread, pc[x] # "idle"
                 PROVE  /\ Held(x, m) => FALSE
                        /\ Held(x, arg[x].a)
                        /\ pc[x] \in {"diff1", "diff2", "snap", "diff3", "raw", "half"} =>
                              Held(x, arg[x].b)
      OBVIOUS
    <2>2. x # th
      OBVIOUS
    <2> QED BY <2>1, <2>2, NullAssumption DEF CallsHold, Held
  <1>1. TypeOK'
    BY NullAssumption DEF TypeOK
  <1>2. PtrLive'
    BY <1>0, NullAssumption DEF TypeOK, PtrLive
  <1>3. RefsExact'
    <2>1. \A n \in Map \ {m} : slot'[n] = slot[n] /\ slot[n] # t
      BY NullAssumption DEF TypeOK, RefsExact
    <2>2. slot'[m] = t /\ ptr'[t] # Null
      BY DEF TypeOK
    <2>3. \A x \in Tree : refs'[x] = IF x = t THEN {m} ELSE refs[x] \ {m}
      OBVIOUS
    <2>4. \A n \in Map : slot'[n] # NoTree => n \in refs'[slot'[n]]
      BY <2>1, <2>2, <2>3, NullAssumption DEF TypeOK, RefsExact
    <2>5. \A x \in Tree, n \in Map : n \in refs'[x] => slot'[n] = x
      BY <2>1, <2>2, <2>3 DEF RefsExact
    <2>6. \A n, o \in Map : slot'[n] # NoTree /\ slot'[n] = slot'[o] => n = o
      BY <2>1, <2>2 DEF RefsExact
    <2>7. \A x \in Tree : refs'[x] # {} => ptr'[x] # Null
      BY <2>2, <2>3 DEF TypeOK, RefsExact
    <2> QED BY <2>4, <2>5, <2>6, <2>7 DEF RefsExact
  <1>4. CloneCountExact'
    BY AllocExact
  <1>5. CallsHold'
    BY <1>10 DEF TypeOK, CallsHold, Held, StateOf, PtrLive, RefsExact
  <1>6. ClonesDistinct'
    BY DEF TypeOK, ClonesDistinct
  <1>7. MtxHolds'
    BY <1>10, NullAssumption, MtxStable DEF TypeOK, StateOf, CallsHold, Held, PtrLive, RefsExact
  <1>8. DiffHolds'
    BY <1>10, NullAssumption DEF TypeOK, DiffHolds, CallsHold, Held, PtrLive, RefsExact
  <1> QED BY <1>1, <1>2, <1>3, <1>4, <1>5, <1>6, <1>7, <1>8

\* Steps that move no trie and no state.
Quiet == UNCHANGED <<slot, frozen, by, refs, ptr, live, dying, clones, content>>

\* A step that moves only locks and program counters leaves the tries alone.
LEMMA QuietInv ==
    ASSUME PtrLive, RefsExact, CloneCountExact, Quiet
    PROVE PtrLive' /\ RefsExact' /\ CloneCountExact'
  BY DEF PtrLive, RefsExact, CloneCountExact, Users, Quiet

\* The start of account_map_clone keeps the invariant.
LEMMA CloneCallInv ==
    ASSUME IInv, NEW th \in Thread, NEW m \in Map, NEW n \in Map,
           CloneCall(th, m, n)
    PROVE IInv'
  <1> USE DEF IInv, CloneCall, Usable, FreshMap, treeVars, stateVars
  <1>1. TypeOK'
    BY NullAssumption DEF TypeOK, PC
  <1>2. PtrLive' /\ RefsExact' /\ CloneCountExact'
    BY QuietInv DEF Quiet
  <1>3. CallsHold' /\ ClonesDistinct'
    BY DEF TypeOK, CallsHold, ClonesDistinct, Held, StateOf
  <1>4. DiffHolds'
    BY DEF TypeOK, DiffHolds
  <1>5. MtxHolds'
    BY MtxStable DEF TypeOK, StateOf
  <1> QED BY <1>1, <1>2, <1>3, <1>4, <1>5

\* The start of a write keeps the invariant: the map is not frozen.
LEMMA WriteCallInv ==
    ASSUME IInv, NEW th \in Thread, NEW m \in Map, NEW v \in Val,
           WriteCall(th, m, v)
    PROVE IInv'
  <1> USE DEF IInv, WriteCall, MayWrite, Usable, treeVars, stateVars
  <1>1. TypeOK'
    BY NullAssumption DEF TypeOK, PC
  <1>2. PtrLive' /\ RefsExact' /\ CloneCountExact'
    BY QuietInv DEF Quiet
  <1>3. CallsHold' /\ ClonesDistinct'
    BY DEF TypeOK, CallsHold, ClonesDistinct, Held, StateOf
  <1>4. DiffHolds'
    BY DEF TypeOK, DiffHolds
  <1>5. MtxHolds'
    BY MtxStable DEF TypeOK, StateOf
  <1> QED BY <1>1, <1>2, <1>3, <1>4, <1>5

\* The first map lock of difference_full keeps the invariant.
LEMMA DiffCallInv ==
    ASSUME IInv, NEW th \in Thread, NEW m \in Map, NEW n \in Map,
           DiffCall(th, m, n)
    PROVE IInv'
  <1> USE DEF IInv, DiffCall, Usable, Lower, treeVars, stateVars
  <1>1. TypeOK'
    BY NullAssumption DEF TypeOK, PC
  <1>2. PtrLive' /\ RefsExact' /\ CloneCountExact'
    BY QuietInv DEF Quiet
  <1>3. CallsHold' /\ ClonesDistinct'
    BY DEF TypeOK, CallsHold, ClonesDistinct, Held, StateOf
  <1>4. DiffHolds'
    BY DEF TypeOK, DiffHolds
  <1>5. MtxHolds'
    BY MtxStable DEF TypeOK, StateOf
  <1> QED BY <1>1, <1>2, <1>3, <1>4, <1>5

\* The second map lock of difference_full keeps the invariant.
LEMMA DiffLockSecondInv ==
    ASSUME IInv, NEW th \in Thread, DiffLockSecond(th)
    PROVE IInv'
  <1> USE DEF IInv, DiffLockSecond, Upper, treeVars, stateVars
  <1>1. TypeOK'
    BY DEF TypeOK, PC, CallsHold, Held
  <1>2. PtrLive' /\ RefsExact' /\ CloneCountExact'
    BY QuietInv DEF Quiet
  <1>3. CallsHold' /\ ClonesDistinct'
    BY DEF TypeOK, CallsHold, ClonesDistinct, Held, StateOf
  <1>4. DiffHolds'
    BY DEF TypeOK, DiffHolds
  <1>5. MtxHolds'
    BY MtxStable DEF TypeOK, StateOf
  <1> QED BY <1>1, <1>2, <1>3, <1>4, <1>5

\* The early return of difference_full keeps the invariant.
LEMMA DiffEqualInv ==
    ASSUME IInv, NEW th \in Thread, DiffEqual(th)
    PROVE IInv'
  <1> USE DEF IInv, DiffEqual, BothUnlocked, NoArg, treeVars, stateVars
  <1>1. TypeOK'
    BY NullAssumption DEF TypeOK, PC
  <1>2. PtrLive' /\ RefsExact' /\ CloneCountExact'
    BY QuietInv DEF Quiet
  <1>3. CallsHold' /\ ClonesDistinct'
    BY DEF TypeOK, CallsHold, ClonesDistinct, Held, StateOf
  <1>4. DiffHolds'
    BY DEF TypeOK, DiffHolds
  <1>5. MtxHolds'
    BY MtxStable DEF TypeOK, StateOf
  <1> QED BY <1>1, <1>2, <1>3, <1>4, <1>5

\* A state with has_clone = 0 has one user.
LEMMA SoleUser ==
    ASSUME CloneCountExact, NEW s \in live \ dying, clones[s] = 0,
           NEW x \in Users(s), NEW y \in Users(s)
    PROVE x = y
  <1>1. Cardinality(Users(s)) = 1
    BY DEF CloneCountExact
  <1>2. PICK z : Users(s) = {z}
    BY <1>1, UsersFinite, FS_Singleton
  <1> QED BY <1>2

\* The state of a map a call works on is allocated.
LEMMA HeldState ==
    ASSUME TypeOK, PtrLive, RefsExact, NEW th, NEW m, Held(th, m)
    PROVE /\ m \in Map /\ slot[m] \in Tree /\ m \in refs[slot[m]]
          /\ StateOf(m) \in live \ dying /\ StateOf(m) \in State
          /\ slot[m] \in Users(StateOf(m))
  BY DEF TypeOK, PtrLive, RefsExact, Held, StateOf, Users

\* clone_merkletree_locked keeps the invariant: has_clone grows by one as
\* the state gets one more trie.
LEMMA CloneTreeInv ==
    ASSUME IInv, NEW th \in Thread, NEW t \in Tree, CloneTree(th, t)
    PROVE IInv'
  <1> USE DEF IInv, CloneTree, FreshTree
  <1>0. /\ Held(th, arg[th].a) /\ arg[th].b \in Map /\ slot[arg[th].b] = NoTree
        /\ StateOf(arg[th].a) \in live \ dying /\ StateOf(arg[th].a) \in State
    BY HeldState DEF CallsHold
  <1> PICK m \in Map, new \in Map, s \in State :
             m = arg[th].a /\ new = arg[th].b /\ s = StateOf(m)
    BY <1>0 DEF Held
  <1>1. /\ Held(th, m) /\ slot[new] = NoTree
        /\ s \in live \ dying
    BY <1>0
  <1>2. TypeOK'
    BY <1>1, NullAssumption, SMTT(30) DEF TypeOK, PC, NoArg
  <1>3. PtrLive' /\ RefsExact'
    BY <1>1, NullAssumption DEF TypeOK, PtrLive, RefsExact, Held
  <1>4. CloneCountExact'
    <2>1. t \notin Users(s) /\ Users(s)' = Users(s) \cup {t}
      BY <1>1 DEF TypeOK, Users
    <2>2. Cardinality(Users(s)') = Cardinality(Users(s)) + 1
      <3>1. IsFiniteSet(Users(s))
        BY UsersFinite
      <3>2. Cardinality(Users(s) \cup {t}) = Cardinality(Users(s)) + 1
        BY ONLY <2>1, <3>1, FS_AddElement
      <3> QED BY <2>1, <3>2
    <2> SUFFICES ASSUME NEW x \in live' \ dying'
                 PROVE  Cardinality(Users(x)') = clones'[x] + 1
      BY DEF CloneCountExact
    <2>3. CASE x = s
      BY <1>1, <2>2, <2>3 DEF TypeOK, CloneCountExact
    <2>4. CASE x # s
      <3>1. Users(x)' = Users(x)
        BY <1>1, <2>4 DEF TypeOK, Users
      <3> QED BY <3>1, <2>4 DEF TypeOK, CloneCountExact
    <2> QED BY <2>3, <2>4
  <1>5. CallsHold'
    <2> SUFFICES ASSUME NEW other \in Thread, pc'[other] # "idle"
                 PROVE /\ Held(other, arg[other].a)'
                       /\ pc'[other] \in {"write", "insert"} =>
                             ~frozen'[arg[other].a] /\ by'[arg[other].a] = other
                       /\ pc'[other] = "insert" => clones'[StateOf(arg[other].a)'] = 0
                       /\ pc'[other] = "clone" =>
                             arg[other].b \in Map /\ slot'[arg[other].b] = NoTree
                       /\ pc'[other] \in {"diff1", "diff2", "snap", "diff3", "raw", "half"} =>
                             Held(other, arg[other].b)'
                       /\ arg'[other] = arg[other]
      BY DEF CallsHold, TypeOK
    <2>1. other # th /\ pc'[other] = pc[other] /\ arg'[other] = arg[other]
      BY DEF TypeOK
    <2>2. Held(other, arg[other].a)'
      BY <1>1, <2>1 DEF TypeOK, CallsHold, Held
    <2>3. pc[other] \in {"diff1", "diff2", "snap", "diff3", "raw", "half"} =>
             Held(other, arg[other].b)'
      BY <1>1, <2>1 DEF TypeOK, CallsHold, Held
    <2>4. pc[other] = "clone" => arg[other].b \in Map /\ slot'[arg[other].b] = NoTree
      BY <1>1, <2>1 DEF TypeOK, CallsHold, ClonesDistinct
    <2>5. pc[other] \in {"write", "insert"} =>
             ~frozen'[arg[other].a] /\ by'[arg[other].a] = other
      BY <1>1, <2>1 DEF TypeOK, CallsHold, Held
    <2>6. ASSUME pc[other] = "insert" PROVE clones'[StateOf(arg[other].a)'] = 0
      <3>1. /\ Held(other, arg[other].a) /\ ~frozen[arg[other].a]
            /\ by[arg[other].a] = other
        BY <2>6 DEF CallsHold
      <3>2. arg[other].a # m
        BY <1>1, <2>1, <3>1, NullAssumption DEF Held, TypeOK
      <3>3. StateOf(arg[other].a) # s
        <4> SUFFICES ASSUME StateOf(arg[other].a) = s PROVE FALSE
          OBVIOUS
        <4>1. clones[s] = 0
          BY <2>6 DEF CallsHold
        <4>2. slot[m] \in Users(s) /\ slot[arg[other].a] \in Users(s)
          BY <1>1, <3>1, HeldState
        <4>3. slot[m] = slot[arg[other].a]
          BY <1>1, <4>1, <4>2, SoleUser
        <4> QED BY <1>1, <3>1, <3>2, <4>3 DEF RefsExact, Held
      <3>4. StateOf(arg[other].a)' = StateOf(arg[other].a)
        BY <1>1, <2>1, <3>1 DEF TypeOK, StateOf, Held, PtrLive, RefsExact
      <3> QED BY <1>1, <2>6, <3>1, <3>3, <3>4, HeldState DEF CallsHold, TypeOK
    <2> QED BY <2>1, <2>2, <2>3, <2>4, <2>5, <2>6
  <1>6. ClonesDistinct'
    BY DEF TypeOK, ClonesDistinct
  <1>7. MtxHolds'
    <2>1. ASSUME NEW x \in Map, slot[x] # NoTree
          PROVE  StateOf(x)' = StateOf(x)
      BY <1>1, <2>1 DEF TypeOK, StateOf, RefsExact
    <2>2. \A other \in Thread : pc[other] = "snap" =>
             /\ StateOf(arg[other].a)' = StateOf(arg[other].a)
             /\ StateOf(arg[other].b)' = StateOf(arg[other].b)
      <3> SUFFICES ASSUME NEW other \in Thread, pc[other] = "snap"
                   PROVE  /\ StateOf(arg[other].a)' = StateOf(arg[other].a)
                          /\ StateOf(arg[other].b)' = StateOf(arg[other].b)
        OBVIOUS
      <3>1. /\ Held(other, arg[other].a) /\ Held(other, arg[other].b)
            /\ arg'[other] = arg[other]
        BY DEF TypeOK, CallsHold
      <3> QED BY <2>1, <3>1 DEF Held, StateOf
    <2>3. \A other \in Thread : pc[other] \in {"snap", "half"} =>
             pc'[other] = pc[other] /\ arg'[other] = arg[other] /\ raw'[other] = raw[other]
      BY DEF TypeOK
    <2> QED BY <2>2, <2>3, MtxStable
  <1>8. DiffHolds'
    BY <1>1 DEF TypeOK, DiffHolds, CallsHold, Held, PtrLive, RefsExact
  <1> QED BY <1>2, <1>3, <1>4, <1>5, <1>6, <1>7, <1>8

\* A write in place, or into the private copy, is seen by no other map.
LEMMA InsertInv ==
    ASSUME IInv, NEW th \in Thread, pc[th] \in {"write", "insert"},
           clones[StateOf(arg[th].a)] = 0, InsertAndReturn(th)
    PROVE IInv'
  <1> USE DEF IInv, InsertAndReturn, treeVars
  <1>0. Held(th, arg[th].a) /\ ~frozen[arg[th].a] /\ by[arg[th].a] = th
    BY DEF CallsHold
  <1> PICK m \in Map : m = arg[th].a
    BY <1>0 DEF Held
  <1> PICK s \in State : s = StateOf(m)
    BY <1>0, HeldState
  <1>1. /\ Held(th, m) /\ ~frozen[m] /\ by[m] = th
        /\ s \in live \ dying /\ clones[s] = 0 /\ slot[m] \in Users(s)
    BY <1>0, HeldState DEF Held
  <1>2. TypeOK'
    BY <1>1, NullAssumption DEF TypeOK, PC, NoArg
  <1>3. PtrLive' /\ RefsExact' /\ CloneCountExact'
    BY DEF PtrLive, RefsExact, CloneCountExact, Users
  <1>4. CallsHold' /\ ClonesDistinct'
    BY DEF TypeOK, CallsHold, Held, StateOf, ClonesDistinct
  <1>5. MtxHolds'
    BY MtxStable DEF TypeOK, StateOf
  <1>6. ASSUME NEW n \in Map, slot[n] # NoTree, n # m
        PROVE  content'[ptr[slot[n]]] = content[ptr[slot[n]]]
    <2>1. ptr[slot[n]] # s
      <3> SUFFICES ASSUME ptr[slot[n]] = s PROVE FALSE
        OBVIOUS
      <3>1. slot[n] \in Users(s)
        BY <1>6 DEF TypeOK, Users
      <3>2. slot[n] = slot[m]
        BY <1>1, <3>1, SoleUser
      <3> QED BY <1>6, <3>2 DEF RefsExact
    <2> QED BY <2>1 DEF TypeOK
  <1>7. DiffHolds'
    <2> SUFFICES ASSUME NEW other \in Thread, pc'[other] \in {"diff3", "raw", "half"}
                 PROVE  /\ pc[other] = pc'[other] /\ arg'[other] = arg[other]
                        /\ content'[ptr[raw[other].ta]] = content[ptr[raw[other].ta]]
                        /\ content'[ptr[raw[other].tb]] = content[ptr[raw[other].tb]]
      BY DEF DiffHolds
    <2>1. pc[other] = pc'[other] /\ arg'[other] = arg[other] /\ other # th
      BY DEF TypeOK
    <2>2. /\ Held(other, arg[other].a) /\ Held(other, arg[other].b)
          /\ raw[other].ta = slot[arg[other].a] /\ raw[other].tb = slot[arg[other].b]
      BY <2>1 DEF CallsHold, DiffHolds
    <2>3. arg[other].a # m /\ arg[other].b # m
      BY <1>1, <2>1, <2>2, NullAssumption DEF Held
    <2> QED BY <1>6, <2>1, <2>2, <2>3 DEF Held
  <1> QED BY <1>2, <1>3, <1>4, <1>5, <1>7

\* make_writeable_locked keeps the invariant: the shared state loses one
\* trie, the copy has that one.
LEMMA WriteDetachInv ==
    ASSUME IInv, NEW th \in Thread, NEW new \in State, WriteDetach(th, new)
    PROVE IInv'
  <1> USE DEF IInv, WriteDetach, FreshState, mapVars
  <1>0. Held(th, arg[th].a) /\ ~frozen[arg[th].a] /\ by[arg[th].a] = th
    BY DEF CallsHold
  <1> PICK m \in Map : m = arg[th].a
    BY <1>0 DEF Held
  <1> PICK t \in Tree, s \in State : t = slot[m] /\ s = ptr[t]
    BY <1>0, HeldState DEF StateOf
  <1>1. /\ slot[m] # NoTree /\ ~frozen[m] /\ by[m] = th
        /\ s \in live \ dying /\ t \in Users(s) /\ s # new
    BY <1>0, HeldState DEF Held, StateOf
  <1>2. TypeOK'
    BY <1>1, SMTT(20) DEF TypeOK, PC
  <1>3. PtrLive' /\ RefsExact'
    BY <1>1 DEF TypeOK, PtrLive, RefsExact
  <1>4. CloneCountExact'
    <2>1. t \in Users(s) /\ Users(s)' = Users(s) \ {t}
      BY <1>1 DEF TypeOK, Users
    <2>2. Cardinality(Users(s)') = Cardinality(Users(s)) - 1
      <3>1. IsFiniteSet(Users(s))
        BY UsersFinite
      <3>2. Cardinality(Users(s) \ {t}) = Cardinality(Users(s)) - 1
        BY ONLY <2>1, <3>1, FS_RemoveElement
      <3> QED BY <2>1, <3>2
    <2>3. Users(new)' = {t}
      BY <1>1 DEF TypeOK, PtrLive, Users
    <2>4. Cardinality(Users(new)') = 1
      BY <2>3, FS_Singleton
    <2> SUFFICES ASSUME NEW x \in live' \ dying'
                 PROVE  Cardinality(Users(x)') = clones'[x] + 1
      BY DEF CloneCountExact
    <2>5. CASE x = s
      <3>1. Cardinality(Users(s)) = clones[s] + 1 /\ clones'[s] = clones[s] - 1
        BY <1>1 DEF TypeOK, CloneCountExact
      <3>2. Cardinality(Users(x)') = Cardinality(Users(s)) - 1
        BY <2>2, <2>5
      <3>3. clones[s] \in Int
        BY DEF TypeOK
      <3>4. Cardinality(Users(x)') = clones'[s] + 1
        BY ONLY <3>1, <3>2, <3>3
      <3> QED BY <2>5, <3>4
    <2>6. CASE x = new
      BY <1>1, <2>4, <2>6 DEF TypeOK
    <2>7. CASE x # s /\ x # new
      <3>1. Users(x)' = Users(x)
        BY <2>7 DEF TypeOK, Users
      <3> QED BY <3>1, <2>7 DEF TypeOK, CloneCountExact
    <2> QED BY <2>5, <2>6, <2>7
  <1>5. ASSUME NEW n \in Map, slot[n] # NoTree, n # m
        PROVE  /\ ptr'[slot[n]] = ptr[slot[n]]
               /\ ptr[slot[n]] # new
               /\ content'[ptr[slot[n]]] = content[ptr[slot[n]]]
    BY <1>1, <1>5 DEF TypeOK, PtrLive, RefsExact
  <1>6. CallsHold' /\ ClonesDistinct'
    <2>1. ClonesDistinct'
      BY DEF TypeOK, ClonesDistinct
    <2>2. CallsHold'
      <3> SUFFICES ASSUME NEW other \in Thread, pc'[other] = "insert"
                   PROVE  clones'[StateOf(arg[other].a)'] = 0
        BY ZenonT(40) DEF TypeOK, CallsHold, Held
      <3>1. CASE other = th
        BY <1>1, <3>1 DEF TypeOK, StateOf
      <3>2. CASE other # th
        <4>1. /\ pc[other] = "insert" /\ Held(other, arg[other].a)
              /\ by[arg[other].a] = other /\ clones[StateOf(arg[other].a)] = 0
          BY <3>2 DEF TypeOK, CallsHold
        <4>2. arg[other].a \in Map /\ arg[other].a # m /\ slot[arg[other].a] # NoTree
          BY <1>1, <3>2, <4>1, NullAssumption DEF Held
        <4>3. ptr[slot[arg[other].a]] # s
          BY <1>1, <4>1 DEF StateOf
        <4> QED BY <1>5, <4>1, <4>2, <4>3, HeldState DEF StateOf, TypeOK
      <3> QED BY <3>1, <3>2
    <2> QED BY <2>1, <2>2
  <1>7. MtxHolds'
    <2>1. \A other \in Thread : pc[other] = "snap" =>
             /\ StateOf(arg[other].a)' = StateOf(arg[other].a)
             /\ StateOf(arg[other].b)' = StateOf(arg[other].b)
      <3> SUFFICES ASSUME NEW other \in Thread, pc[other] = "snap"
                   PROVE  /\ StateOf(arg[other].a)' = StateOf(arg[other].a)
                          /\ StateOf(arg[other].b)' = StateOf(arg[other].b)
        OBVIOUS
      <3>1. other # th /\ Held(other, arg[other].a) /\ Held(other, arg[other].b)
        BY DEF CallsHold
      <3>2. arg[other].a # m /\ arg[other].b # m
        BY <1>1, <3>1, NullAssumption DEF Held
      <3> QED BY <1>5, <3>1, <3>2 DEF Held, StateOf
    <2>2. \A other \in Thread : pc[other] \in {"snap", "half"} =>
             pc'[other] = pc[other] /\ arg'[other] = arg[other] /\ raw'[other] = raw[other]
      BY DEF TypeOK
    <2> QED BY <2>1, <2>2, MtxStable
  <1>8. DiffHolds'
    <2> SUFFICES ASSUME NEW other \in Thread, pc'[other] \in {"diff3", "raw", "half"}
                 PROVE  /\ pc[other] = pc'[other]
                        /\ ptr'[raw[other].ta] = ptr[raw[other].ta]
                        /\ ptr'[raw[other].tb] = ptr[raw[other].tb]
                        /\ content'[ptr[raw[other].ta]] = content[ptr[raw[other].ta]]
                        /\ content'[ptr[raw[other].tb]] = content[ptr[raw[other].tb]]
      BY DEF DiffHolds
    <2>1. pc[other] = pc'[other] /\ other # th
      BY DEF TypeOK
    <2>2. /\ Held(other, arg[other].a) /\ Held(other, arg[other].b)
          /\ raw[other].ta = slot[arg[other].a] /\ raw[other].tb = slot[arg[other].b]
      BY <2>1 DEF CallsHold, DiffHolds
    <2>3. arg[other].a # m /\ arg[other].b # m
      BY <1>1, <2>1, <2>2, NullAssumption DEF Held
    <2> QED BY <1>5, <2>1, <2>2, <2>3 DEF Held
  <1> QED BY <1>2, <1>3, <1>4, <1>6, <1>7, <1>8

\* The first mutex of the state tries keeps the invariant.
LEMMA DiffLockTrieInv ==
    ASSUME IInv, NEW th \in Thread, DiffLockTrie(th)
    PROVE IInv'
  <1> USE DEF IInv, DiffLockTrie, mapVars, treeVars, stateVars
  <1>1. TypeOK'
    BY DEF TypeOK, PC
  <1>2. PtrLive' /\ RefsExact' /\ CloneCountExact'
    BY QuietInv DEF Quiet
  <1>3. CallsHold' /\ ClonesDistinct'
    BY DEF TypeOK, CallsHold, ClonesDistinct, Held, StateOf
  <1>4. DiffHolds'
    BY DEF TypeOK, DiffHolds
  <1>5. MtxHolds'
    <2> SUFFICES ASSUME NEW s \in State, mtx'[s] # NoThread
                 PROVE  \/ /\ pc'[mtx'[s]] = "half"
                           /\ s = Lower(raw'[mtx'[s]].sa, raw'[mtx'[s]].sb)
                        \/ /\ pc'[mtx'[s]] = "snap"
                           /\ s = Lower(ptr'[slot'[arg'[mtx'[s]].a]],
                                        ptr'[slot'[arg'[mtx'[s]].b]])
      BY DEF MtxHolds, Lower, StateOf
    <2>1. CASE s = Lower(StateOf(arg[th].a), StateOf(arg[th].b))
      <3>1. mtx' = [mtx EXCEPT ![s] = th] /\ pc' = [pc EXCEPT ![th] = "snap"]
        BY <2>1
      <3>2. mtx'[s] = th /\ pc'[th] = "snap"
        BY <3>1 DEF TypeOK
      <3>3. ptr' = ptr /\ slot' = slot /\ arg' = arg
        OBVIOUS
      <3> HIDE DEF DiffLockTrie
      <3> QED BY <2>1, <3>2, <3>3 DEF StateOf
    <2>2. CASE s # Lower(StateOf(arg[th].a), StateOf(arg[th].b))
      <3>1. mtx'[s] = mtx[s] /\ mtx[s] \in Thread
        BY <2>2 DEF TypeOK
      <3>2. pc[mtx[s]] \in {"snap", "half"}
        BY <3>1 DEF MtxHolds
      <3>3. mtx[s] # th /\ pc'[mtx[s]] = pc[mtx[s]]
        BY <3>1, <3>2 DEF TypeOK
      <3> QED BY <3>1, <3>3 DEF MtxHolds, StateOf, Lower
    <2> QED BY <2>1, <2>2
  <1> QED BY <1>1, <1>2, <1>3, <1>4, <1>5

\* snapshot_side keeps the invariant: the kept tries are those of the maps.
LEMMA DiffSnapshotInv ==
    ASSUME IInv, NEW th \in Thread, DiffSnapshot(th)
    PROVE IInv'
  <1> USE DEF IInv, DiffSnapshot, BothUnlocked, stateVars
  <1>1. Held(th, arg[th].a) /\ Held(th, arg[th].b)
    BY DEF CallsHold
  <1> PICK m \in Map, n \in Map : m = arg[th].a /\ n = arg[th].b
    BY <1>1 DEF Held
  <1>2. /\ slot[m] \in Tree /\ StateOf(m) \in State
        /\ slot[n] \in Tree /\ StateOf(n) \in State
    BY <1>1, HeldState
  <1>3. TypeOK'
    BY <1>2, NullAssumption, ZenonT(40) DEF TypeOK, PC, StateOf
  <1>4. PtrLive' /\ RefsExact' /\ CloneCountExact'
    <2>1. ptr[slot[m]] # Null /\ ptr[slot[n]] # Null
      BY <1>2 DEF StateOf
    <2>2. \A x \in Tree : refs[x] \subseteq refs'[x] /\ refs'[x] \subseteq refs[x] \cup {th}
      OBVIOUS
    <2>3. \A x \in Tree : refs'[x] # {} => ptr[x] # Null
      BY <1>2, <2>1 DEF RefsExact
    <2>4. th \notin Map
      BY NullAssumption
    <2>5. \A k \in Map : slot[k] # NoTree => k \in refs'[slot[k]]
      BY <2>2, SMTT(20) DEF TypeOK, RefsExact
    <2>6. \A x \in Tree, k \in Map : k \in refs'[x] => slot[k] = x
      BY <2>2, <2>4 DEF RefsExact
    <2>7. RefsExact'
      BY <2>3, <2>5, <2>6 DEF RefsExact
    <2> QED BY <2>7 DEF PtrLive, CloneCountExact, Users
  <1>5. CallsHold' /\ ClonesDistinct'
    BY DEF TypeOK, CallsHold, ClonesDistinct, Held, StateOf
  <1>6. MtxHolds'
    BY <1>2, ZenonT(40) DEF TypeOK, MtxHolds, StateOf, Lower
  <1>7. DiffHolds'
    <2> SUFFICES ASSUME NEW other \in Thread, pc'[other] \in {"diff3", "raw", "half"}
                 PROVE  /\ raw'[other].ta = slot'[arg'[other].a]
                        /\ raw'[other].tb = slot'[arg'[other].b]
                        /\ other \in refs'[raw'[other].ta] \cap refs'[raw'[other].tb]
                        /\ content'[ptr'[raw'[other].ta]] = raw'[other].va
                        /\ content'[ptr'[raw'[other].tb]] = raw'[other].vb
                        /\ pc'[other] \in {"raw", "half"} =>
                              /\ raw'[other].sa = ptr'[raw'[other].ta]
                              /\ raw'[other].sb = ptr'[raw'[other].tb]
      BY DEF DiffHolds
    <2>1. CASE other = th
      BY <1>2, <2>1 DEF TypeOK, StateOf
    <2>2. CASE other # th
      <3>1. /\ Held(other, arg[other].a) /\ Held(other, arg[other].b)
            /\ pc'[other] = pc[other] /\ raw'[other] = raw[other]
        BY <2>2 DEF CallsHold, TypeOK
      <3>2. raw[other].ta \in Tree /\ raw[other].tb \in Tree
        BY <3>1, HeldState DEF DiffHolds
      <3> QED BY <3>1, <3>2 DEF DiffHolds
    <2> QED BY <2>1, <2>2
  <1> QED BY <1>3, <1>4, <1>5, <1>6, <1>7

\* Reading shared_state without a lock keeps the invariant: both tries are
\* referenced and no write may touch their maps.
LEMMA DiffReadPointersInv ==
    ASSUME IInv, NEW th \in Thread, DiffReadPointers(th)
    PROVE IInv'
  <1> USE DEF IInv, DiffReadPointers, mapVars, treeVars, stateVars
  <1>1. /\ Held(th, arg[th].a) /\ Held(th, arg[th].b)
        /\ raw[th].ta = slot[arg[th].a] /\ raw[th].tb = slot[arg[th].b]
    BY DEF CallsHold, DiffHolds
  <1>2. raw[th].ta \in Tree /\ raw[th].tb \in Tree
    BY <1>1, HeldState
  <1>3. TypeOK'
    <2> DEFINE Raw == [ta : Tree \cup {NoTree}, tb : Tree \cup {NoTree},
                       sa : State \cup {Null}, sb : State \cup {Null},
                       va : Val, vb : Val]
               r == [raw[th] EXCEPT !.sa = ptr[raw[th].ta], !.sb = ptr[raw[th].tb]]
    <2>1. raw[th] \in Raw /\ ptr[raw[th].ta] \in State \cup {Null}
          /\ ptr[raw[th].tb] \in State \cup {Null}
      BY <1>2 DEF TypeOK
    <2>2. r \in Raw
      BY <2>1
    <2>3. raw' = [raw EXCEPT ![th] = r]
      OBVIOUS
    <2> HIDE DEF r
    <2>4. raw' \in [Thread -> Raw]
      BY <2>2, <2>3 DEF TypeOK
    <2> QED BY <2>4 DEF TypeOK, PC
  <1>4. PtrLive' /\ RefsExact' /\ CloneCountExact'
    BY QuietInv DEF Quiet
  <1>5. CallsHold' /\ ClonesDistinct'
    BY DEF TypeOK, CallsHold, ClonesDistinct, Held, StateOf
  <1>6. DiffHolds'
    BY DEF TypeOK, DiffHolds
  <1>7. MtxHolds'
    BY MtxStable DEF TypeOK, StateOf
  <1> QED BY <1>3, <1>4, <1>5, <1>6, <1>7

\* The first mutex of SharedStateLock keeps the invariant.
LEMMA DiffLockLowerInv ==
    ASSUME IInv, NEW th \in Thread, DiffLockLower(th)
    PROVE IInv'
  <1> USE DEF IInv, DiffLockLower, Lower, mapVars, treeVars, stateVars
  <1>1. TypeOK'
    BY DEF TypeOK, PC
  <1>2. PtrLive' /\ RefsExact' /\ CloneCountExact'
    BY QuietInv DEF Quiet
  <1>3. CallsHold' /\ ClonesDistinct'
    BY DEF TypeOK, CallsHold, ClonesDistinct, Held, StateOf
  <1>4. DiffHolds'
    BY DEF TypeOK, DiffHolds
  <1>5. MtxHolds'
    BY DEF TypeOK, MtxHolds, StateOf
  <1> QED BY <1>1, <1>2, <1>3, <1>4, <1>5

\* The end of difference_full keeps the invariant: all it held is released.
LEMMA DiffLockUpperInv ==
    ASSUME IInv, NEW th \in Thread, DiffLockUpper(th)
    PROVE IInv'
  <1> USE DEF IInv, DiffLockUpper, Lower, mapVars, stateVars
  <1>1. TypeOK'
    BY NullAssumption DEF TypeOK, PC, NoArg, NoRaw
  <1>2. PtrLive' /\ RefsExact' /\ CloneCountExact'
    <2>1. \A x \in Tree : refs'[x] = refs[x] \ {th}
      OBVIOUS
    <2>2. RefsExact'
      BY <2>1, NullAssumption DEF TypeOK, RefsExact
    <2> QED BY <2>2 DEF PtrLive, CloneCountExact, Users
  <1>3. CallsHold' /\ ClonesDistinct'
    BY DEF TypeOK, CallsHold, ClonesDistinct, Held, StateOf
  <1>4. MtxHolds'
    BY ZenonT(40) DEF TypeOK, MtxHolds, StateOf
  <1>5. DiffHolds'
    <2> SUFFICES ASSUME NEW other \in Thread, pc'[other] \in {"diff3", "raw", "half"}
                 PROVE  /\ other # th /\ pc'[other] = pc[other] /\ raw'[other] = raw[other]
                        /\ arg'[other] = arg[other]
                        /\ other \in refs'[raw[other].ta] \cap refs'[raw[other].tb]
      BY DEF DiffHolds
    <2>1. other # th /\ pc'[other] = pc[other] /\ raw'[other] = raw[other]
          /\ arg'[other] = arg[other]
      BY DEF TypeOK
    <2>2. Held(other, arg[other].a) /\ Held(other, arg[other].b)
      BY <2>1 DEF CallsHold
    <2>3. raw[other].ta \in Tree /\ raw[other].tb \in Tree
      BY <2>1, <2>2, HeldState DEF DiffHolds
    <2> QED BY <2>1, <2>3 DEF DiffHolds
  <1> QED BY <1>1, <1>2, <1>3, <1>4, <1>5

\* Collecting a handle keeps the invariant: no call works on it.
LEMMA DropMapInv ==
    ASSUME IInv, NEW m \in Map, DropMap(m)
    PROVE IInv'
  <1> USE DEF IInv, DropMap, stateVars, threadVars
  <1>1. slot[m] \in Tree
    BY DEF TypeOK
  <1>2. TypeOK'
    BY <1>1 DEF TypeOK
  <1>3. PtrLive' /\ RefsExact' /\ CloneCountExact'
    BY <1>1, NullAssumption DEF TypeOK, PtrLive, RefsExact, CloneCountExact, Users
  <1>4. CallsHold' /\ ClonesDistinct'
    BY DEF TypeOK, CallsHold, ClonesDistinct, Held, StateOf
  <1>5. MtxHolds'
    BY NullAssumption, MtxStable DEF TypeOK, StateOf, CallsHold, Held, PtrLive, RefsExact
  <1>6. DiffHolds'
    BY <1>1, NullAssumption DEF TypeOK, CallsHold, Held, DiffHolds
  <1> QED BY <1>2, <1>3, <1>4, <1>5, <1>6

\* A destructed trie is no map's, so what maps and calls see stays.
LEMMA UnreferencedUnused ==
    ASSUME IInv, NEW t \in Tree, refs[t] = {}
    PROVE /\ \A m \in Map : slot[m] # t
          /\ \A th \in Thread : pc[th] \in {"diff3", "raw", "half"} =>
                raw[th].ta # t /\ raw[th].tb # t
  <1> USE DEF IInv
  <1>1. \A m \in Map : slot[m] # t
    BY NullAssumption DEF TypeOK, RefsExact
  <1>2. ASSUME NEW th \in Thread, pc[th] \in {"diff3", "raw", "half"}
        PROVE  raw[th].ta # t /\ raw[th].tb # t
    BY <1>2 DEF DiffHolds
  <1> QED BY <1>1, <1>2

\* A destructor that leaves a shared state keeps the invariant: has_clone
\* shrinks by one as the state loses one trie.
LEMMA DestructSharedInv ==
    ASSUME IInv, NEW t \in Tree, DestructShared(t)
    PROVE IInv'
  <1> USE DEF IInv, DestructShared, mapVars, threadVars
  <1> PICK s \in State : s = ptr[t]
    BY DEF TypeOK
  <1>1. s \in live \ dying /\ t \in Users(s)
    BY DEF PtrLive, Users
  <1>2. TypeOK'
    BY DEF TypeOK
  <1>3. PtrLive' /\ RefsExact'
    BY DEF TypeOK, PtrLive, RefsExact
  <1>4. CloneCountExact'
    <2>1. Users(s)' = Users(s) \ {t}
      BY <1>1 DEF TypeOK, Users
    <2>2. Cardinality(Users(s)') = Cardinality(Users(s)) - 1
      <3>1. IsFiniteSet(Users(s))
        BY UsersFinite
      <3>2. Cardinality(Users(s) \ {t}) = Cardinality(Users(s)) - 1
        BY ONLY <1>1, <3>1, FS_RemoveElement
      <3> QED BY <2>1, <3>2
    <2> SUFFICES ASSUME NEW x \in live' \ dying'
                 PROVE  Cardinality(Users(x)') = clones'[x] + 1
      BY DEF CloneCountExact
    <2>3. CASE x = s
      BY <1>1, <2>2, <2>3 DEF TypeOK, CloneCountExact
    <2>4. CASE x # s
      <3>1. Users(x)' = Users(x)
        BY <2>4 DEF TypeOK, Users
      <3> QED BY <3>1, <2>4 DEF TypeOK, CloneCountExact
    <2> QED BY <2>3, <2>4
  <1>5. CallsHold'
    <2> SUFFICES ASSUME NEW th \in Thread, pc[th] = "insert"
                 PROVE  clones'[StateOf(arg[th].a)'] = 0
      BY DEF CallsHold, Held
    <2>1. Held(th, arg[th].a) /\ clones[StateOf(arg[th].a)] = 0
      BY DEF CallsHold
    <2>2. StateOf(arg[th].a)' = StateOf(arg[th].a)
      BY <2>1, UnreferencedUnused DEF StateOf, Held, TypeOK
    <2> QED BY <2>1, <2>2, HeldState DEF TypeOK
  <1>6. ClonesDistinct'
    BY DEF ClonesDistinct
  <1>7. MtxHolds'
    <2>1. \A n \in Map : slot[n] # NoTree => StateOf(n)' = StateOf(n)
      BY UnreferencedUnused DEF TypeOK, StateOf
    <2>2. \A other \in Thread : pc[other] = "snap" =>
             /\ StateOf(arg[other].a)' = StateOf(arg[other].a)
             /\ StateOf(arg[other].b)' = StateOf(arg[other].b)
      BY <2>1 DEF CallsHold, Held, StateOf
    <2> QED BY <2>2, MtxStable
  <1>8. DiffHolds'
    BY UnreferencedUnused DEF TypeOK, DiffHolds
  <1> QED BY <1>2, <1>3, <1>4, <1>5, <1>6, <1>7, <1>8

\* The destructor of the last trie keeps the invariant: nobody else can
\* reach the state it is going to delete.
LEMMA DestructLastInv ==
    ASSUME IInv, NEW t \in Tree, DestructLast(t)
    PROVE IInv'
  <1> USE DEF IInv, DestructLast, mapVars, threadVars
  <1> PICK s \in State : s = ptr[t]
    BY DEF TypeOK
  <1>1. s \in live \ dying /\ t \in Users(s) /\ clones[s] = 0
    BY DEF PtrLive, Users
  <1>2. \A u \in Tree \ {t} : ptr[u] # s
    BY <1>1, SoleUser DEF Users
  <1>3. TypeOK'
    BY <1>1 DEF TypeOK
  <1>4. PtrLive' /\ RefsExact'
    BY <1>2 DEF TypeOK, PtrLive, RefsExact
  <1>5. CloneCountExact'
    <2> SUFFICES ASSUME NEW x \in live' \ dying'
                 PROVE  Cardinality(Users(x)') = clones'[x] + 1
      BY DEF CloneCountExact
    <2>1. Users(x)' = Users(x)
      BY DEF TypeOK, Users
    <2> QED BY <2>1 DEF TypeOK, CloneCountExact
  <1>6. CallsHold'
    <2> SUFFICES ASSUME NEW th \in Thread, pc[th] = "insert"
                 PROVE  clones'[StateOf(arg[th].a)'] = 0
      BY DEF CallsHold, Held
    <2>1. Held(th, arg[th].a) /\ clones[StateOf(arg[th].a)] = 0
      BY DEF CallsHold
    <2>2. StateOf(arg[th].a)' = StateOf(arg[th].a)
      BY <2>1, UnreferencedUnused DEF StateOf, Held, TypeOK
    <2> QED BY <2>1, <2>2
  <1>7. ClonesDistinct'
    BY DEF ClonesDistinct
  <1>8. MtxHolds'
    <2>1. \A n \in Map : slot[n] # NoTree => StateOf(n)' = StateOf(n)
      BY UnreferencedUnused DEF TypeOK, StateOf
    <2>2. \A other \in Thread : pc[other] = "snap" =>
             /\ StateOf(arg[other].a)' = StateOf(arg[other].a)
             /\ StateOf(arg[other].b)' = StateOf(arg[other].b)
      BY <2>1 DEF CallsHold, Held, StateOf
    <2> QED BY <2>2, MtxStable
  <1>9. DiffHolds'
    BY UnreferencedUnused DEF TypeOK, DiffHolds
  <1> QED BY <1>3, <1>4, <1>5, <1>6, <1>7, <1>8, <1>9

\* Deleting a dying state keeps the invariant: no trie points there.
LEMMA FreeStateInv ==
    ASSUME IInv, NEW s \in State, FreeState(s)
    PROVE IInv'
  <1> USE DEF IInv, FreeState, mapVars, treeVars, threadVars
  <1>1. TypeOK'
    BY DEF TypeOK
  <1>2. PtrLive' /\ RefsExact' /\ CloneCountExact'
    BY DEF TypeOK, PtrLive, RefsExact, CloneCountExact, Users
  <1>3. CallsHold' /\ ClonesDistinct' /\ DiffHolds'
    BY DEF CallsHold, ClonesDistinct, DiffHolds, Held, StateOf
  <1>4. MtxHolds'
    BY MtxStable DEF TypeOK, StateOf
  <1> QED BY <1>1, <1>2, <1>3, <1>4

\* A step that changes nothing.
LEMMA StutterInv == IInv /\ UNCHANGED vars => IInv'
  <1> SUFFICES ASSUME IInv, UNCHANGED vars PROVE IInv'
    OBVIOUS
  <1> USE DEF IInv, vars
  <1>1. TypeOK' /\ PtrLive' /\ RefsExact' /\ CloneCountExact'
    BY DEF TypeOK, PtrLive, RefsExact, CloneCountExact, Users
  <1>2. CallsHold' /\ ClonesDistinct' /\ DiffHolds'
    BY DEF CallsHold, ClonesDistinct, DiffHolds, Held, StateOf
  <1>3. MtxHolds'
    BY MtxStable DEF TypeOK, StateOf
  <1> QED BY <1>1, <1>2, <1>3

\* Every step of the protocol keeps the invariant.
LEMMA NextInv == IInv /\ [Next]_vars => IInv'
  <1> SUFFICES ASSUME IInv, [Next]_vars PROVE IInv'
    OBVIOUS
  <1>1. ASSUME NEW th \in Thread, Call(th) PROVE IInv'
    BY <1>1, NewMapInv, ReplaceInv, LockMapInv, ShareMapInv, CloneCallInv, WriteCallInv,
       DiffCallInv DEF Call
  <1>2. ASSUME NEW th \in Thread, Step(th) PROVE IInv'
    <2>1. CASE WriteInPlace(th)
      BY <2>1, InsertInv DEF WriteInPlace
    <2>2. CASE WriteInsert(th)
      BY <2>2, InsertInv DEF WriteInsert, IInv, CallsHold
    <2> QED BY <1>2, <2>1, <2>2, CloneTreeInv, WriteDetachInv,
               DiffLockSecondInv, DiffEqualInv, DiffLockTrieInv, DiffSnapshotInv,
               DiffReadPointersInv, DiffLockLowerInv, DiffLockUpperInv DEF Step
  <1>3. ASSUME NEW m \in Map, DropMap(m) PROVE IInv'
    BY <1>3, DropMapInv
  <1>4. CASE Reclaim
    BY <1>4, DestructSharedInv, DestructLastInv, FreeStateInv DEF Reclaim
  <1>5. CASE UNCHANGED vars
    BY <1>5, StutterInv
  <1> QED BY <1>1, <1>2, <1>3, <1>4, <1>5 DEF Next

\* The strengthening under which every step of the protocol is safe holds in
\* every reachable state.
THEOREM Invariance == Spec => []IInv
  BY InitInv, NextInv, PTL DEF Spec

\* Every variable keeps its type: no NULL pointer is followed by clone,
\* write or difference_full.
THEOREM TypeCorrect == Spec => []TypeOK
  <1>1. IInv => TypeOK
    BY DEF IInv
  <1> QED BY <1>1, Invariance, PTL

\* has_clone is exact in every reachable state, however many maps share a
\* state and in whatever order they write and are collected.
THEOREM CloneCountsExact == Spec => []CloneCountExact
  <1>1. IInv => CloneCountExact
    BY DEF IInv
  <1> QED BY <1>1, Invariance, PTL

\* What a difference holds on to while it has no map lock.
LEMMA DiffStates ==
    ASSUME IInv, NEW th \in Thread, pc[th] \in {"raw", "half"}
    PROVE /\ raw[th].sa \in live \ dying /\ raw[th].sb \in live \ dying
          /\ content[raw[th].sa] = raw[th].va /\ content[raw[th].sb] = raw[th].vb
  <1>1. /\ Held(th, arg[th].a) /\ Held(th, arg[th].b)
        /\ raw[th].sa = StateOf(arg[th].a) /\ raw[th].sb = StateOf(arg[th].b)
        /\ content[raw[th].sa] = raw[th].va /\ content[raw[th].sb] = raw[th].vb
    BY DEF IInv, CallsHold, DiffHolds, StateOf
  <1> QED BY <1>1, HeldState DEF IInv

\* No trie, diff or locked mutex ever refers to a deleted SharedState: the
\* raw pointers of difference_full and the deferred destructors are safe.
THEOREM NoUseAfterFree == Spec => []NoDanglingState
  <1>1. ASSUME IInv PROVE NoDanglingState
    <2>1. \A t \in Tree : ptr[t] # Null => ptr[t] \in live \ dying
      BY <1>1 DEF IInv, PtrLive
    <2>2. ASSUME NEW th \in Thread, pc[th] \in {"raw", "half"}
          PROVE  {raw[th].sa, raw[th].sb} \subseteq live \ dying
      BY <1>1, <2>2, DiffStates
    <2>3. ASSUME NEW s \in State, mtx[s] # NoThread
          PROVE  s \in live \ dying
      <3>1. mtx[s] \in Thread
        BY <1>1, <2>3 DEF IInv, TypeOK
      <3>2. CASE pc[mtx[s]] = "half"
        <4>1. s \in {raw[mtx[s]].sa, raw[mtx[s]].sb}
          BY <1>1, <2>3, <3>2 DEF IInv, MtxHolds, Lower
        <4> QED BY <1>1, <3>1, <3>2, <4>1, DiffStates
      <3>3. CASE pc[mtx[s]] = "snap"
        <4>1. s \in {StateOf(arg[mtx[s]].a), StateOf(arg[mtx[s]].b)}
          BY <1>1, <2>3, <3>3 DEF IInv, MtxHolds, Lower
        <4>2. Held(mtx[s], arg[mtx[s]].a) /\ Held(mtx[s], arg[mtx[s]].b)
          BY <1>1, <3>1, <3>3 DEF IInv, CallsHold
        <4> QED BY <1>1, <4>1, <4>2, HeldState DEF IInv
      <3> QED BY <1>1, <2>3, <3>2, <3>3 DEF IInv, MtxHolds
    <2> QED BY <2>1, <2>2, <2>3 DEF NoDanglingState
  <1> QED BY <1>1, Invariance, PTL

\* difference_full compares what both maps held while it had their locks.
THEOREM DiffIsConsistent == Spec => []DiffReadsSnapshot
  <1>1. IInv => DiffReadsSnapshot
    BY DiffStates DEF DiffReadsSnapshot
  <1> QED BY <1>1, Invariance, PTL

-----------------------------------------------------------------------------
(* The refinement of MapValues.                                             *)

\* The value MapValues sees.
Abs == [m \in Map |-> IF slot[m] = NoTree THEN NoVal ELSE Value(m)]

\* MapValues calls missing what has no trie.
LEMMA MissingIsUnused ==
    ASSUME IInv, NEW m \in Map
    PROVE  Abs[m] = NoVal <=> slot[m] = NoTree
  <1>1. CASE slot[m] = NoTree
    BY <1>1 DEF Abs
  <1>2. CASE slot[m] # NoTree
    <2>1. slot[m] \in Tree
      BY <1>2 DEF IInv, TypeOK
    <2>2. ptr[slot[m]] \in State
      BY <1>2, <2>1 DEF IInv, TypeOK, RefsExact
    <2>3. Value(m) \in Val
      BY <2>2 DEF IInv, TypeOK, Value
    <2> QED BY <1>2, <2>3, NullAssumption DEF Abs
  <1> QED BY <1>1, <1>2

\* A map whose trie, state and content stay keeps its value.
LEMMA Unaffected ==
    ASSUME NEW n \in Map, slot'[n] = slot[n],
           slot[n] # NoTree => /\ ptr'[slot[n]] = ptr[slot[n]]
                               /\ content'[ptr[slot[n]]] = content[ptr[slot[n]]]
    PROVE  Abs'[n] = Abs[n]
  BY DEF Abs, Value

\* One map takes a new value.
LEMMA OneChanged ==
    ASSUME NEW m \in Map, NEW v, Abs'[m] = v,
           \A n \in Map \ {m} : Abs'[n] = Abs[n]
    PROVE  Abs' = [Abs EXCEPT ![m] = v]
  BY DEF Abs

\* Values stay when no map changes its trie and no trie its content.
LEMMA NoneChanged ==
    ASSUME \A n \in Map : Abs'[n] = Abs[n]
    PROVE  Abs' = Abs
  BY DEF Abs

\* What the steps that allocate a trie do: only m changes.
LEMMA AllocValue ==
    ASSUME IInv, NEW t \in Tree, NEW s \in State, NEW m \in Map, NEW v \in Val,
           AllocTree(t, s, m, v)
    PROVE  Abs' = [Abs EXCEPT ![m] = v]
  <1> USE DEF AllocTree, FreshTree, FreshState, IInv
  <1>1. Abs'[m] = v
    BY NullAssumption DEF TypeOK, Abs, Value
  <1>2. ASSUME NEW n \in Map \ {m} PROVE Abs'[n] = Abs[n]
    <2>1. slot'[n] = slot[n]
      BY DEF TypeOK
    <2>2. slot[n] # NoTree =>
             ptr'[slot[n]] = ptr[slot[n]] /\ content'[ptr[slot[n]]] = content[ptr[slot[n]]]
      BY DEF TypeOK, PtrLive, RefsExact
    <2> QED BY <2>1, <2>2, Unaffected
  <1> QED BY <1>1, <1>2, OneChanged

\* A write: only the map it names changes.
LEMMA InsertValue ==
    ASSUME IInv, NEW th \in Thread, pc[th] \in {"write", "insert"},
           clones[StateOf(arg[th].a)] = 0, InsertAndReturn(th)
    PROVE  /\ arg[th].a \in Map /\ slot[arg[th].a] # NoTree /\ ~frozen[arg[th].a]
           /\ Abs' = [Abs EXCEPT ![arg[th].a] = arg[th].v]
  <1> USE DEF IInv, InsertAndReturn
  <1>0. Held(th, arg[th].a) /\ ~frozen[arg[th].a]
    BY DEF CallsHold
  <1> PICK m \in Map : m = arg[th].a
    BY <1>0 DEF Held
  <1> PICK s \in State : s = StateOf(m)
    BY <1>0, HeldState
  <1>1. slot[m] \in Tree /\ s \in live \ dying /\ slot[m] \in Users(s) /\ clones[s] = 0
    BY <1>0, HeldState
  <1>2. Abs'[m] = arg[th].v
    BY <1>1, NullAssumption DEF TypeOK, Abs, Value, StateOf, treeVars
  <1>3. ASSUME NEW n \in Map \ {m} PROVE Abs'[n] = Abs[n]
    <2>1. slot[n] # NoTree => ptr[slot[n]] # s
      <3> SUFFICES ASSUME slot[n] # NoTree, ptr[slot[n]] = s PROVE FALSE
        OBVIOUS
      <3>1. slot[n] \in Users(s)
        BY DEF TypeOK, Users
      <3>2. slot[n] = slot[m]
        BY <1>1, <3>1, SoleUser
      <3> QED BY <3>2 DEF RefsExact
    <2> QED BY <2>1, Unaffected DEF TypeOK, treeVars
  <1> QED BY <1>0, <1>1, <1>2, <1>3, OneChanged, NullAssumption

\* Every step of the protocol does to the values what MapValues allows.
LEMMA StepSimulates == IInv /\ [Next]_vars => [Values!Next]_(Values!vars)
  <1> SUFFICES ASSUME IInv, [Next]_vars
               PROVE  Values!Next \/ (Abs' = Abs /\ frozen' = frozen)
    BY DEF Values!vars, Abs
  <1> USE DEF Values!Next
  <1>1. ASSUME NEW th \in Thread, NEW m \in Map, NEW t \in Tree, NEW s \in State,
               NewMap(th, m, t, s)
        PROVE  Values!New(m)
    <2>1. Abs[m] = NoVal /\ Abs' = [Abs EXCEPT ![m] = Empty]
      BY <1>1, AllocValue, NullAssumption DEF NewMap, FreshMap, Abs
    <2> QED BY <1>1, <2>1 DEF NewMap, Values!New, Values!Create, Abs
  <1>2. ASSUME NEW th \in Thread, NEW m \in Map, NEW v \in Val, NEW t \in Tree,
               NEW s \in State, Replace(th, m, v, t, s)
        PROVE  Values!Write(m, v)
    <2>1. Abs' = [Abs EXCEPT ![m] = v]
      BY <1>2, AllocValue DEF Replace
    <2>2. Abs[m] # NoVal
      BY <1>2, MissingIsUnused DEF Replace, MayWrite, Usable
    <2> QED BY <1>2, <2>1, <2>2 DEF Replace, Values!Write, Abs
  <1>3. ASSUME NEW th \in Thread, NEW m \in Map, LockMap(th, m)
        PROVE  Values!Lock(m)
    <2>1. Abs[m] # NoVal
      BY <1>3, MissingIsUnused DEF LockMap, Usable
    <2>2. Abs' = Abs
      BY <1>3, Unaffected, NoneChanged DEF LockMap, treeVars, stateVars
    <2> QED BY <1>3, <2>1, <2>2 DEF LockMap, Values!Lock, Abs
  <1>4. ASSUME NEW th \in Thread, NEW t \in Tree, CloneTree(th, t)
        PROVE  \E m, new \in Map : Values!Clone(m, new)
    <2>1. /\ Held(th, arg[th].a) /\ arg[th].b \in Map /\ slot[arg[th].b] = NoTree
      BY <1>4 DEF CloneTree, IInv, CallsHold
    <2> PICK m \in Map, new \in Map : m = arg[th].a /\ new = arg[th].b
      BY <2>1 DEF Held
    <2>2. /\ Abs[m] # NoVal /\ Abs[new] = NoVal
          /\ slot[m] \in Tree /\ StateOf(m) \in State
      BY <2>1, MissingIsUnused, HeldState DEF Held, IInv
    <2>3. Abs'[new] = Abs[m]
      BY <1>4, <2>1, <2>2, NullAssumption
         DEF CloneTree, FreshTree, Abs, Value, StateOf, IInv, TypeOK
    <2>4. ASSUME NEW n \in Map \ {new} PROVE Abs'[n] = Abs[n]
      <3>1. slot'[n] = slot[n]
        BY <1>4 DEF CloneTree, IInv, TypeOK
      <3>2. slot[n] # NoTree =>
               ptr'[slot[n]] = ptr[slot[n]] /\ content'[ptr[slot[n]]] = content[ptr[slot[n]]]
        BY <1>4 DEF CloneTree, FreshTree, IInv, TypeOK, RefsExact
      <3> QED BY <3>1, <3>2, Unaffected
    <2>5. Abs' = [Abs EXCEPT ![new] = Abs[m]]
      BY <2>3, <2>4, OneChanged
    <2>6. Values!Clone(m, new)
      BY <1>4, <2>2, <2>5 DEF CloneTree, Values!Clone, Values!Create, Abs
    <2> QED BY <2>6
  <1>5. ASSUME NEW th \in Thread, WriteInPlace(th) \/ WriteInsert(th)
        PROVE  \E m \in Map, v \in Val : Values!Write(m, v)
    <2>1. /\ pc[th] \in {"write", "insert"} /\ InsertAndReturn(th)
          /\ clones[StateOf(arg[th].a)] = 0
      BY <1>5 DEF WriteInPlace, WriteInsert, IInv, CallsHold
    <2>2. arg[th].v \in Val
      BY DEF IInv, TypeOK
    <2>3. /\ arg[th].a \in Map /\ slot[arg[th].a] # NoTree /\ ~frozen[arg[th].a]
          /\ Abs' = [Abs EXCEPT ![arg[th].a] = arg[th].v]
      BY <2>1, InsertValue
    <2> PICK m \in Map, v \in Val : m = arg[th].a /\ v = arg[th].v
      BY <2>2, <2>3
    <2>4. Abs[m] # NoVal
      BY <2>3, MissingIsUnused
    <2>5. Values!Write(m, v)
      BY <2>1, <2>3, <2>4 DEF InsertAndReturn, Values!Write, Abs
    <2> QED BY <2>5
  <1>6. ASSUME NEW m \in Map, DropMap(m)
        PROVE  Values!Drop(m)
    <2>1. Abs[m] # NoVal
      BY <1>6, MissingIsUnused DEF DropMap
    <2>2. Abs'[m] = NoVal
      BY <1>6 DEF DropMap, Abs, IInv, TypeOK
    <2>3. ASSUME NEW n \in Map \ {m} PROVE Abs'[n] = Abs[n]
      BY <1>6, Unaffected DEF DropMap, stateVars, IInv, TypeOK
    <2>4. Abs' = [Abs EXCEPT ![m] = NoVal]
      BY <2>2, <2>3, OneChanged
    <2> QED BY <1>6, <2>1, <2>4 DEF DropMap, Values!Drop, Abs
  <1>7. ASSUME NEW th \in Thread, NEW new \in State, WriteDetach(th, new)
        PROVE  Abs' = Abs /\ frozen' = frozen
    <2>1. slot' = slot /\ frozen' = frozen
      BY <1>7 DEF WriteDetach, mapVars
    <2>2. Held(th, arg[th].a)
      BY <1>7 DEF WriteDetach, IInv, CallsHold
    <2> PICK m \in Map : m = arg[th].a
      BY <2>2 DEF Held
    <2>3. slot[m] \in Tree /\ StateOf(m) \in State /\ StateOf(m) # new
      BY <1>7, <2>2, HeldState DEF WriteDetach, FreshState, IInv
    <2>4. Abs'[m] = Abs[m]
      BY <1>7, <2>1, <2>3 DEF WriteDetach, Abs, Value, StateOf, IInv, TypeOK
    <2>5. ASSUME NEW n \in Map \ {m} PROVE Abs'[n] = Abs[n]
      <3>1. slot[n] # NoTree => slot[n] # slot[m] /\ ptr[slot[n]] # new
        <4>1. new \notin live /\ (slot[n] # NoTree => slot[n] \in Tree)
          BY <1>7 DEF WriteDetach, FreshState, IInv, TypeOK
        <4>2. slot[n] # NoTree => ptr[slot[n]] # Null /\ slot[n] # slot[m]
          BY <2>3, <4>1 DEF IInv, RefsExact
        <4> QED BY <4>1, <4>2 DEF IInv, PtrLive
      <3> QED BY <1>7, <2>1, <2>3, <3>1, Unaffected
              DEF WriteDetach, IInv, TypeOK
    <2> QED BY <2>1, <2>4, <2>5, NoneChanged
  <1>8. ASSUME NEW t \in Tree, DestructShared(t) \/ DestructLast(t)
        PROVE  Abs' = Abs /\ frozen' = frozen
    <2>1. \A n \in Map : slot[n] # t
      BY <1>8, UnreferencedUnused DEF DestructShared, DestructLast
    <2>2. \A n \in Map : Abs'[n] = Abs[n]
      BY <1>8, <2>1, Unaffected DEF DestructShared, DestructLast, mapVars, IInv, TypeOK
    <2> QED BY <1>8, <2>2, NoneChanged DEF DestructShared, DestructLast, mapVars
  <1>9. ASSUME UNCHANGED <<slot, frozen, ptr, content>>
        PROVE  Abs' = Abs /\ frozen' = frozen
    BY <1>9, Unaffected, NoneChanged
  <1>10. ASSUME NEW th \in Thread, Call(th)
         PROVE  Values!Next \/ (Abs' = Abs /\ frozen' = frozen)
    <2>1. CASE \E m, n \in Map : CloneCall(th, m, n) \/ DiffCall(th, m, n) \/ ShareMap(th, m)
      BY <2>1, <1>9 DEF CloneCall, DiffCall, ShareMap, treeVars, stateVars
    <2>2. CASE \E m \in Map, v \in Val : WriteCall(th, m, v)
      BY <2>2, <1>9 DEF WriteCall, treeVars, stateVars
    <2> QED BY <1>1, <1>2, <1>3, <1>10, <2>1, <2>2 DEF Call
  <1>11. ASSUME NEW th \in Thread, Step(th)
         PROVE  Values!Next \/ (Abs' = Abs /\ frozen' = frozen)
    <2>1. CASE DiffLockSecond(th) \/ DiffEqual(th) \/ DiffLockTrie(th) \/ DiffSnapshot(th)
      BY <2>1, <1>9 DEF DiffLockSecond, DiffEqual, DiffLockTrie, DiffSnapshot,
                        mapVars, treeVars, stateVars
    <2>2. CASE DiffReadPointers(th) \/ DiffLockLower(th) \/ DiffLockUpper(th)
      BY <2>2, <1>9 DEF DiffReadPointers, DiffLockLower, DiffLockUpper,
                        mapVars, treeVars, stateVars
    <2> QED BY <1>4, <1>5, <1>7, <1>11, <2>1, <2>2 DEF Step
  <1>12. CASE Reclaim
    <2>1. CASE \E s \in State : FreeState(s)
      BY <2>1, <1>9 DEF FreeState, mapVars, treeVars
    <2> QED BY <1>8, <1>12, <2>1 DEF Reclaim
  <1>13. CASE UNCHANGED vars
    BY <1>9, <1>13 DEF vars
  <1> QED BY <1>6, <1>10, <1>11, <1>12, <1>13 DEF Next

\* CowTree implements MapValues: sharing, detaching, comparing and reclaiming
\* tries are invisible, each handle is a value of its own.
THEOREM Refinement == Spec => ImplementsValues
  <1>1. Init => Values!Init
    BY DEF Init, Values!Init
  <1> QED BY <1>1, StepSimulates, Invariance, PTL DEF Spec, ImplementsValues, Values!Spec

\* A locked map keeps its value through every step: what BlockProcess caches
\* and hands to every other process never changes under them.
THEOREM FrozenIsImmutable == Spec => FrozenNeverChanges
  <1>1. ASSUME IInv, IInv', [Next]_vars, NEW m \in Map, frozen[m], frozen'[m]
        PROVE  Value(m)' = Value(m)
    <2>1. Abs'[m] = Abs[m]
      <3>1. Abs[m] # NoVal /\ frozen \in [Map -> BOOLEAN]
        BY <1>1, MissingIsUnused DEF IInv, TypeOK, RefsExact
      <3>2. ASSUME NEW n \in Map, NEW v, Values!Create(n, v) PROVE Abs'[m] = Abs[m]
        BY <1>1, <3>1, <3>2 DEF Values!Create, Abs
      <3>3. ASSUME NEW n \in Map, NEW v, Values!Write(n, v) PROVE Abs'[m] = Abs[m]
        BY <1>1, <3>1, <3>3 DEF Values!Write, Abs
      <3>4. ASSUME NEW n \in Map, Values!Lock(n) \/ Values!Drop(n)
            PROVE Abs'[m] = Abs[m]
        BY <1>1, <3>1, <3>4 DEF Values!Lock, Values!Drop, Abs
      <3>5. CASE UNCHANGED Values!vars
        BY <3>5 DEF Values!vars, Abs
      <3>6. CASE Values!Next
        <4> PICK n \in Map :
                \/ Values!New(n)
                \/ \E new \in Map : Values!Clone(n, new)
                \/ \E v \in Val : Values!Write(n, v)
                \/ Values!Lock(n)
                \/ Values!Drop(n)
          BY <3>6 DEF Values!Next
        <4>1. CASE Values!New(n)
          BY <3>2, <4>1 DEF Values!New
        <4>2. CASE \E new \in Map : Values!Clone(n, new)
          <5> PICK new \in Map : Values!Clone(n, new)
            BY <4>2
          <5> QED BY <1>1, <3>1 DEF Values!Clone, Values!Create, Abs
        <4>3. CASE \E v \in Val : Values!Write(n, v)
          <5> PICK v \in Val : Values!Write(n, v)
            BY <4>3
          <5> QED BY <3>3
        <4> QED BY <3>4, <4>1, <4>2, <4>3
      <3> QED BY <1>1, <3>5, <3>6, StepSimulates
    <2>2. slot[m] # NoTree /\ slot'[m] # NoTree
      BY <1>1 DEF IInv, RefsExact
    <2> QED BY <2>1, <2>2 DEF Abs, Value
  <1>2. IInv /\ IInv' /\ [Next]_vars
           => [\A m \in Map : frozen[m] /\ frozen'[m] => Value(m)' = Value(m)]_vars
    BY <1>1
  <1> QED BY <1>2, Invariance, PTL DEF Spec, FrozenNeverChanges

-----------------------------------------------------------------------------
(* The order of the mutexes.                                                *)

\* The program counters of a difference.
InDiff == {"diff1", "diff2", "snap", "diff3", "raw", "half"}

\* The steps of a call keep each held map lock in the hands of a call that
\* works on the map.
LEMMA StepMapLocks ==
    ASSUME IInv, MapLockHolds, NEW th \in Thread, Step(th)
    PROVE  MapLockHolds'
  <1>0. pc \in [Thread -> PC] /\ mapLock \in [Map -> Thread \cup {NoThread}]
        /\ DOMAIN arg = Thread
    BY DEF IInv, TypeOK
  <1>1. ASSUME NEW t \in Tree, CloneTree(th, t) PROVE MapLockHolds'
    BY <1>0, <1>1 DEF CloneTree, MapLockHolds, Lower
  <1>2. CASE WriteInPlace(th) \/ WriteInsert(th)
    <2>1. pc[th] \in {"write", "insert"} /\ InsertAndReturn(th)
      BY <1>2 DEF WriteInPlace, WriteInsert
    <2>2. /\ mapLock' = [mapLock EXCEPT ![arg[th].a] = NoThread]
          /\ \A x \in Thread \ {th} : pc'[x] = pc[x] /\ arg'[x] = arg[x]
      BY <1>0, <2>1 DEF InsertAndReturn
    <2>3. \A m \in Map : mapLock[m] = th => m = arg[th].a
      BY <2>1, NullAssumption DEF MapLockHolds
    <2> QED
      BY <1>0, <2>2, <2>3 DEF MapLockHolds, Lower
  <1>3. ASSUME NEW s \in State, WriteDetach(th, s) PROVE MapLockHolds'
    BY <1>0, <1>3 DEF WriteDetach, mapVars, MapLockHolds, Lower
  <1>4. CASE DiffLockSecond(th)
    BY <1>0, <1>4 DEF DiffLockSecond, MapLockHolds, Lower, Upper
  <1>5. CASE DiffEqual(th)
    BY <1>0, <1>5 DEF DiffEqual, BothUnlocked, MapLockHolds, Lower
  <1>6. CASE DiffLockTrie(th)
    BY <1>0, <1>6 DEF DiffLockTrie, mapVars, MapLockHolds, Lower
  <1>7. CASE DiffSnapshot(th)
    BY <1>0, <1>7 DEF DiffSnapshot, BothUnlocked, MapLockHolds, Lower
  <1>8. CASE DiffReadPointers(th)
    BY <1>0, <1>8 DEF DiffReadPointers, mapVars, MapLockHolds, Lower
  <1>9. CASE DiffLockLower(th)
    BY <1>0, <1>9 DEF DiffLockLower, mapVars, MapLockHolds, Lower
  <1>10. CASE DiffLockUpper(th)
    BY <1>0, <1>10 DEF DiffLockUpper, mapVars, MapLockHolds, Lower
  <1> QED
    BY <1>1, <1>2, <1>3, <1>4, <1>5, <1>6, <1>7, <1>8, <1>9, <1>10 DEF Step

\* So does the start of a call.
LEMMA CallMapLocks ==
    ASSUME IInv, MapLockHolds, NEW th \in Thread, Call(th)
    PROVE  MapLockHolds'
  <1>0. pc \in [Thread -> PC] /\ mapLock \in [Map -> Thread \cup {NoThread}]
        /\ DOMAIN arg = Thread
    BY DEF IInv, TypeOK
  <1>1. CASE UNCHANGED <<mapLock, pc, arg>>
    BY <1>0, <1>1 DEF MapLockHolds, Lower
  <1>2. ASSUME NEW m \in Map, NEW n \in Map, CloneCall(th, m, n) PROVE MapLockHolds'
    BY <1>0, <1>2 DEF CloneCall, MapLockHolds, Lower
  <1>3. ASSUME NEW m \in Map, NEW v \in Val, WriteCall(th, m, v) PROVE MapLockHolds'
    BY <1>0, <1>3 DEF WriteCall, MapLockHolds, Lower
  <1>4. ASSUME NEW m \in Map, NEW n \in Map, DiffCall(th, m, n) PROVE MapLockHolds'
    BY <1>0, <1>4 DEF DiffCall, MapLockHolds, Lower
  <1>5. ASSUME NEW m \in Map, NEW v \in Val, NEW t \in Tree, NEW s \in State,
               NewMap(th, m, t, s) \/ Replace(th, m, v, t, s)
        PROVE  MapLockHolds'
    BY <1>1, <1>5 DEF NewMap, Replace, threadVars
  <1>6. ASSUME NEW m \in Map, LockMap(th, m) \/ ShareMap(th, m) PROVE MapLockHolds'
    BY <1>1, <1>6 DEF LockMap, ShareMap, threadVars
  <1> QED
    BY <1>2, <1>3, <1>4, <1>5, <1>6, NullAssumption DEF Call, TypeOK, IInv

\* No step moves a map that a difference works on to another state: only
\* the call itself could write to the map.
LEMMA StatesKept ==
    ASSUME IInv, [Next]_vars, NEW x \in Thread, pc[x] \in InDiff,
           NEW k \in Map, k \in {arg[x].a, arg[x].b}
    PROVE  StateOf(k)' = StateOf(k)
  <1>1. Held(x, k) /\ slot[k] \in Tree /\ k \in refs[slot[k]] /\ StateOf(k) \in State
    BY HeldState DEF IInv, CallsHold, InDiff
  <1>2. slot[k] # NoTree /\ by[k] \in {x, NoThread}
    BY <1>1 DEF Held
  <1>3. pc[x] \notin {"idle", "clone", "write", "insert"}
    BY DEF InDiff
  <1>4. ASSUME UNCHANGED <<slot, ptr>> PROVE StateOf(k)' = StateOf(k)
    BY <1>4 DEF StateOf
  <1>5. ASSUME NEW m \in Map \ {k}, NEW t \in Tree, NEW s \in State, NEW v \in Val,
               AllocTree(t, s, m, v)
        PROVE  StateOf(k)' = StateOf(k)
    BY <1>1, <1>5 DEF AllocTree, FreshTree, StateOf, IInv, TypeOK
  <1>6. ASSUME NEW th \in Thread, NEW m \in Map, NEW v \in Val, NEW t \in Tree,
               NEW s \in State, NewMap(th, m, t, s) \/ Replace(th, m, v, t, s)
        PROVE  StateOf(k)' = StateOf(k)
    <2>1. CASE NewMap(th, m, t, s)
      <3>1. m # k /\ AllocTree(t, s, m, Empty)
        BY <1>2, <2>1 DEF NewMap, FreshMap
      <3> QED
        BY <1>5, <3>1, NullAssumption
    <2>2. CASE Replace(th, m, v, t, s)
      <3>1. m # k /\ AllocTree(t, s, m, v)
        BY <1>2, <1>3, <2>2, NullAssumption DEF Replace, MayWrite, Usable
      <3> QED
        BY <1>5, <3>1
    <2> QED
      BY <1>6, <2>1, <2>2
  <1>7. ASSUME NEW th \in Thread, NEW t \in Tree, CloneTree(th, t)
        PROVE  StateOf(k)' = StateOf(k)
    <2>1. arg[th].b # k
      BY <1>2, <1>7 DEF CloneTree, IInv, CallsHold
    <2>2. slot[k] # t
      BY <1>1, <1>7 DEF CloneTree, FreshTree
    <2> QED
      BY <1>1, <1>7, <2>1, <2>2 DEF CloneTree, StateOf, IInv, TypeOK
  <1>8. ASSUME NEW th \in Thread, NEW s \in State, WriteDetach(th, s)
        PROVE  StateOf(k)' = StateOf(k)
    <2>1. pc[th] = "write" /\ by[arg[th].a] = th /\ arg[th].a \in Map
          /\ slot[arg[th].a] # NoTree
      BY <1>8 DEF WriteDetach, IInv, CallsHold, Held
    <2>2. arg[th].a # k
      BY <1>2, <1>3, <2>1, NullAssumption
    <2>3. slot[arg[th].a] # slot[k]
      BY <2>1, <2>2 DEF IInv, RefsExact
    <2>4. slot' = slot /\ ptr' = [ptr EXCEPT ![slot[arg[th].a]] = s]
      BY <1>8 DEF WriteDetach, mapVars
    <2> QED
      BY <1>1, <2>3, <2>4 DEF StateOf, IInv, TypeOK
  <1>9. ASSUME NEW m \in Map, DropMap(m)
        PROVE  StateOf(k)' = StateOf(k)
    BY <1>9 DEF DropMap, StateOf, IInv, TypeOK
  <1>10. ASSUME NEW t \in Tree, DestructShared(t) \/ DestructLast(t)
         PROVE  StateOf(k)' = StateOf(k)
    <2>1. slot[k] # t
      BY <1>10, UnreferencedUnused DEF DestructShared, DestructLast
    <2>2. slot' = slot /\ ptr' = [ptr EXCEPT ![t] = Null]
      BY <1>10 DEF DestructShared, DestructLast, mapVars
    <2> QED
      BY <1>1, <2>1, <2>2 DEF StateOf, IInv, TypeOK
  <1>11. ASSUME NEW th \in Thread, Call(th) PROVE StateOf(k)' = StateOf(k)
    <2>1. CASE UNCHANGED <<slot, ptr>>
      BY <1>4, <2>1
    <2>2. ASSUME NEW m \in Map, NEW n \in Map, NEW v \in Val,
                 \/ LockMap(th, m) \/ ShareMap(th, m) \/ CloneCall(th, m, n)
                 \/ WriteCall(th, m, v) \/ DiffCall(th, m, n)
          PROVE  UNCHANGED <<slot, ptr>>
      BY <2>2 DEF LockMap, ShareMap, CloneCall, WriteCall, DiffCall, treeVars
    <2> QED
      BY <1>6, <1>11, <2>1, <2>2, NullAssumption DEF Call
  <1>12. ASSUME NEW th \in Thread, Step(th) PROVE StateOf(k)' = StateOf(k)
    <2>1. CASE WriteInPlace(th) \/ WriteInsert(th)
      BY <1>4, <2>1 DEF WriteInPlace, WriteInsert, InsertAndReturn, treeVars
    <2>2. CASE DiffLockSecond(th) \/ DiffEqual(th) \/ DiffLockTrie(th) \/ DiffSnapshot(th)
      BY <1>4, <2>2 DEF DiffLockSecond, DiffEqual, DiffLockTrie, DiffSnapshot,
                        mapVars, treeVars
    <2>3. CASE DiffReadPointers(th) \/ DiffLockLower(th) \/ DiffLockUpper(th)
      BY <1>4, <2>3 DEF DiffReadPointers, DiffLockLower, DiffLockUpper,
                        mapVars, treeVars
    <2> QED
      BY <1>7, <1>8, <1>12, <2>1, <2>2, <2>3 DEF Step
  <1>13. ASSUME NEW s \in State, FreeState(s) PROVE StateOf(k)' = StateOf(k)
    BY <1>4, <1>13 DEF FreeState, mapVars, treeVars
  <1>14. CASE UNCHANGED vars
    BY <1>4, <1>14 DEF vars
  <1> QED
    BY <1>9, <1>10, <1>11, <1>12, <1>13, <1>14 DEF Next, Reclaim

\* How a thread comes to be in a difference: by a call on two maps, by
\* DiffLockTrie on two states, or by going on.
LEMMA DiffMoves ==
    ASSUME IInv, [Next]_vars, NEW x \in Thread, pc'[x] \in InDiff
    PROVE  \/ pc'[x] = "diff1" /\ arg'[x].a # arg'[x].b
           \/ /\ pc[x] \in InDiff /\ arg'[x] = arg[x]
              /\ \/ pc'[x] = pc[x]
                 \/ pc'[x] = "diff2"
                 \/ StateOf(arg[x].a) # StateOf(arg[x].b)
                 \/ pc[x] \in {"snap", "diff3", "raw"}
  <1> DEFINE Moves ==
           \/ pc'[x] = "diff1" /\ arg'[x].a # arg'[x].b
           \/ /\ pc[x] \in InDiff /\ arg'[x] = arg[x]
              /\ \/ pc'[x] = pc[x]
                 \/ pc'[x] = "diff2"
                 \/ StateOf(arg[x].a) # StateOf(arg[x].b)
                 \/ pc[x] \in {"snap", "diff3", "raw"}
  <1>0. pc \in [Thread -> PC] /\ DOMAIN arg = Thread
    BY DEF IInv, TypeOK
  <1>1. ASSUME pc'[x] = pc[x], arg'[x] = arg[x] PROVE Moves
    BY <1>1
  <1>2. ASSUME NEW th \in Thread, Call(th) PROVE Moves
    <2>1. CASE UNCHANGED <<pc, arg>>
      BY <1>1, <2>1
    <2>2. ASSUME NEW m \in Map, NEW n \in Map, NEW v \in Val,
                 CloneCall(th, m, n) \/ WriteCall(th, m, v)
          PROVE  Moves
      BY <1>0, <1>1, <2>2 DEF CloneCall, WriteCall, InDiff
    <2>3. ASSUME NEW m \in Map, NEW n \in Map, DiffCall(th, m, n)
          PROVE  Moves
      BY <1>0, <1>1, <2>3 DEF DiffCall, InDiff
    <2>4. ASSUME NEW m \in Map, NEW v \in Val, NEW t \in Tree, NEW s \in State,
                 \/ NewMap(th, m, t, s) \/ Replace(th, m, v, t, s)
                 \/ LockMap(th, m) \/ ShareMap(th, m)
          PROVE  UNCHANGED <<pc, arg>>
      BY <2>4 DEF NewMap, Replace, LockMap, ShareMap, threadVars
    <2>5. ASSUME NEW m \in Map, LockMap(th, m) \/ ShareMap(th, m)
          PROVE  UNCHANGED <<pc, arg>>
      BY <2>5 DEF LockMap, ShareMap, threadVars
    <2> HIDE DEF Moves
    <2> QED
      BY <1>2, <2>1, <2>2, <2>3, <2>4, <2>5, NullAssumption DEF Call
  <1>3. ASSUME NEW th \in Thread, Step(th) PROVE Moves
    <2>1. ASSUME x # th, \E p \in PC : pc' = [pc EXCEPT ![th] = p],
                 \/ arg' = arg
                 \/ arg' = [arg EXCEPT ![th] = NoArg]
          PROVE  Moves
      BY <1>0, <1>1, <2>1
    <2>2. ASSUME NEW t \in Tree, CloneTree(th, t) PROVE Moves
      BY <1>0, <2>1, <2>2 DEF CloneTree, InDiff, PC
    <2>3. CASE WriteInPlace(th) \/ WriteInsert(th)
      BY <1>0, <2>1, <2>3 DEF WriteInPlace, WriteInsert, InsertAndReturn, InDiff, PC
    <2>4. ASSUME NEW s \in State, WriteDetach(th, s) PROVE Moves
      BY <1>0, <2>1, <2>4 DEF WriteDetach, InDiff, PC
    <2>5. CASE DiffLockSecond(th)
      BY <1>0, <2>1, <2>5 DEF DiffLockSecond, InDiff, PC
    <2>6. CASE DiffEqual(th) \/ DiffLockUpper(th)
      BY <1>0, <2>1, <2>6 DEF DiffEqual, DiffLockUpper, InDiff, PC
    <2>7. CASE DiffLockTrie(th)
      BY <1>0, <2>1, <2>7 DEF DiffLockTrie, InDiff, PC
    <2>8. CASE DiffSnapshot(th) \/ DiffReadPointers(th) \/ DiffLockLower(th)
      BY <1>0, <2>1, <2>8 DEF DiffSnapshot, DiffReadPointers, DiffLockLower, InDiff, PC
    <2> HIDE DEF Moves
    <2> QED
      BY <1>3, <2>2, <2>3, <2>4, <2>5, <2>6, <2>7, <2>8 DEF Step
  <1>4. ASSUME Reclaim PROVE Moves
    <2>1. UNCHANGED threadVars
      BY <1>4 DEF Reclaim, DestructShared, DestructLast, FreeState
    <2>2. pc'[x] = pc[x] /\ arg'[x] = arg[x]
      BY <2>1 DEF threadVars
    <2> HIDE DEF Moves
    <2> QED
      BY <1>1, <2>2
  <1>5. ASSUME NEW m \in Map, DropMap(m) PROVE Moves
    BY <1>1, <1>5 DEF DropMap, threadVars
  <1>6. ASSUME UNCHANGED vars PROVE Moves
    BY <1>1, <1>6 DEF vars
  <1> HIDE DEF Moves
  <1>7. Moves
    <2>1. ASSUME NEW th \in Thread, Call(th) \/ Step(th) PROVE Moves
      BY <1>2, <1>3, <2>1
    <2>2. CASE Next
      BY <1>4, <1>5, <2>1, <2>2, Zenon DEF Next
    <2> QED
      BY <1>6, <2>2, Zenon
  <1> QED
    BY <1>7 DEF Moves

\* Every step keeps the map locks accounted for and the two sides of a
\* difference apart.
LEMMA LocksKept == IInv /\ LocksInv /\ [Next]_vars => LocksInv'
  <1> SUFFICES ASSUME IInv, LocksInv, [Next]_vars PROVE LocksInv'
    OBVIOUS
  <1>1. MapLockHolds'
    <2>1. CASE UNCHANGED <<mapLock, pc, arg>>
      BY <2>1 DEF LocksInv, MapLockHolds, Lower
    <2>2. Reclaim \/ (\E m \in Map : DropMap(m)) \/ UNCHANGED vars
             => UNCHANGED <<mapLock, pc, arg>>
      BY DEF Reclaim, DestructShared, DestructLast, FreeState, DropMap, vars,
             mapVars, threadVars
    <2> QED
      BY <2>1, <2>2, CallMapLocks, StepMapLocks DEF LocksInv, Next
  <1>2. DiffApart'
    <2> SUFFICES ASSUME NEW x \in Thread
                 PROVE  /\ pc'[x] = "diff1" => arg'[x].a # arg'[x].b
                        /\ pc'[x] \in {"snap", "diff3", "raw", "half"} =>
                              StateOf(arg[x].a)' # StateOf(arg[x].b)'
      BY DEF DiffApart
    <2>1. ASSUME pc[x] \in InDiff, arg'[x] = arg[x]
          PROVE  /\ StateOf(arg[x].a)' = StateOf(arg[x].a)
                 /\ StateOf(arg[x].b)' = StateOf(arg[x].b)
      <3>1. arg[x].a \in Map /\ arg[x].b \in Map
        BY <2>1 DEF IInv, CallsHold, Held, InDiff
      <3> PICK m \in Map, n \in Map : m = arg[x].a /\ n = arg[x].b
        BY <3>1
      <3>2. StateOf(m)' = StateOf(m) /\ StateOf(n)' = StateOf(n)
        BY <2>1, StatesKept
      <3> QED
        BY <2>1, <3>2 DEF StateOf
    <2>2. CASE pc'[x] \notin InDiff
      BY <2>2 DEF InDiff
    <2>3. CASE pc'[x] \in InDiff
      BY <2>1, <2>3, DiffMoves DEF LocksInv, DiffApart, InDiff
    <2> QED
      BY <2>2, <2>3
  <1> QED
    BY <1>1, <1>2 DEF LocksInv

\* Every thread that holds a mutex in the middle of its call waits for a
\* later one.
LEMMA HolderWaitsForLater ==
    ASSUME IInv, LocksInv, NEW k \in Lock, Holder(k) \in Thread
    PROVE  Need(Holder(k)) \in Lock /\ Need(Holder(k)) > k
  <1>0. MaxMap \in Nat /\ MaxState \in Nat
    BY SizesAssumption
  <1> PICK th \in Thread : th = Holder(k)
    OBVIOUS
  <1>1. ASSUME pc[th] # "idle" PROVE arg[th].a \in Map /\ StateOf(arg[th].a) \in State
    BY <1>1, HeldState DEF IInv, CallsHold
  <1>2. ASSUME pc[th] \in InDiff PROVE arg[th].b \in Map /\ StateOf(arg[th].b) \in State
    BY <1>2, HeldState DEF IInv, CallsHold, InDiff
  <1>3. CASE k \in Map
    <2>1. mapLock[k] = th /\ mapLock[k] # NoThread
      BY <1>3, NullAssumption DEF Holder
    <2>2. CASE pc[th] \in {"clone", "write", "insert"}
      <3>1. Need(th) = MaxMap + StateOf(arg[th].a)
        BY <2>2 DEF Need
      <3> QED
        BY <1>0, <1>1, <1>3, <2>2, <3>1 DEF Lock
    <2>3. CASE pc[th] = "diff1" /\ k = Lower(arg[th].a, arg[th].b)
      <3>1. Need(th) = Upper(arg[th].a, arg[th].b)
        BY <2>3 DEF Need
      <3>2. arg[th].a # arg[th].b /\ arg[th].a \in Map /\ arg[th].b \in Map
        BY <1>1, <1>2, <2>3 DEF LocksInv, DiffApart, InDiff
      <3>3. /\ Upper(arg[th].a, arg[th].b) \in Map
            /\ Upper(arg[th].a, arg[th].b) > Lower(arg[th].a, arg[th].b)
        BY <1>0, <3>2 DEF Lower, Upper
      <3> QED
        BY <1>0, <2>3, <3>1, <3>3 DEF Lock
    <2>4. CASE pc[th] \in {"diff2", "snap"}
      <3>1. \/ Need(th) = MaxMap + Lower(StateOf(arg[th].a), StateOf(arg[th].b))
            \/ Need(th) = MaxMap + Upper(StateOf(arg[th].a), StateOf(arg[th].b))
        BY <2>4 DEF Need
      <3>2. \/ Need(th) = MaxMap + StateOf(arg[th].a)
            \/ Need(th) = MaxMap + StateOf(arg[th].b)
        BY <3>1 DEF Lower, Upper
      <3> QED
        BY <1>0, <1>1, <1>2, <1>3, <2>4, <3>2 DEF Lock, InDiff
    <2> QED
      BY <1>3, <2>1, <2>2, <2>3, <2>4 DEF LocksInv, MapLockHolds
  <1>4. CASE k \notin Map
    <2> PICK s \in State : s = k - MaxMap
      BY <1>0, <1>4 DEF Lock
    <2>0. Holder(k) = mtx[k - MaxMap]
      BY <1>4 DEF Holder
    <2>1. mtx[s] = th /\ mtx[s] # NoThread /\ k = MaxMap + s
      BY <1>0, <2>0, NullAssumption DEF Lock
    <2>2. CASE pc[th] = "half" /\ s = Lower(raw[th].sa, raw[th].sb)
      <3>1. Need(th) = MaxMap + Upper(raw[th].sa, raw[th].sb)
        BY <2>2 DEF Need
      <3>2. raw[th].sa = StateOf(arg[th].a) /\ raw[th].sb = StateOf(arg[th].b)
        BY <2>2 DEF IInv, DiffHolds, StateOf
      <3>3. StateOf(arg[th].a) # StateOf(arg[th].b)
        BY <2>2 DEF LocksInv, DiffApart
      <3> QED
        BY <1>0, <1>1, <1>2, <2>1, <2>2, <3>1, <3>2, <3>3 DEF Lock, Lower, Upper, InDiff
    <2>3. CASE pc[th] = "snap" /\ s = Lower(StateOf(arg[th].a), StateOf(arg[th].b))
      <3>1. Need(th) = MaxMap + Upper(StateOf(arg[th].a), StateOf(arg[th].b))
        BY <2>3 DEF Need
      <3>2. StateOf(arg[th].a) # StateOf(arg[th].b)
        BY <2>3 DEF LocksInv, DiffApart
      <3> QED
        BY <1>0, <1>1, <1>2, <2>1, <2>3, <3>1, <3>2 DEF Lock, Lower, Upper, InDiff
    <2> QED
      BY <2>1, <2>2, <2>3 DEF IInv, MtxHolds
  <1> QED
    BY <1>3, <1>4

\* Each waits for a later mutex than the one before, so a circle of waiting
\* threads would have no last mutex.
LEMMA NoCircle == IInv /\ LocksInv => NoCircularWait
  <1> SUFFICES ASSUME IInv, LocksInv, NEW W \in SUBSET Thread, W # {},
                      \A th \in W : Holder(Need(th)) \in W
               PROVE  FALSE
    BY DEF NoCircularWait
  <1>0. MaxMap \in Nat /\ MaxState \in Nat
    BY SizesAssumption
  <1>1. ASSUME NEW th \in W PROVE Need(th) \in Lock
    <2>1. Holder(Need(th)) # NoThread
      BY NullAssumption
    <2> QED
      BY <1>0, <2>1 DEF Holder, Lock
  <1> DEFINE After == {d \in Nat : \E th \in W : d = MaxMap + MaxState - Need(th)}
  <1>2. After # {}
    <2> PICK th \in W : TRUE
      OBVIOUS
    <2>1. MaxMap + MaxState - Need(th) \in Nat
      BY <1>0, <1>1 DEF Lock
    <2> QED
      BY <2>1
  <1>3. PICK d \in After : \A e \in After : d <= e
    <2> HIDE DEF After
    <2>1. After \in SUBSET Nat
      BY DEF After
    <2> QED
      BY <1>2, <2>1, LeastNatural
  <1> PICK th \in W : d = MaxMap + MaxState - Need(th)
    BY <1>3
  <1> PICK h \in W : h = Holder(Need(th))
    OBVIOUS
  <1>4. Need(th) \in Lock /\ Need(h) \in Lock /\ Need(h) > Need(th)
    BY <1>1, HolderWaitsForLater
  <1>5. MaxMap + MaxState - Need(h) \in After
    BY <1>0, <1>4 DEF Lock
  <1>6. d <= MaxMap + MaxState - Need(h)
    BY <1>3, <1>5
  <1> QED
    BY <1>0, <1>4, <1>6 DEF Lock

\* Calls never wait on one another in a circle, whatever maps and states they
\* work on and in whatever order their arguments come.
THEOREM LockOrder == Spec => []NoCircularWait
  <1>1. Init => LocksInv
    BY DEF Init, LocksInv, MapLockHolds, DiffApart
  <1> QED
    BY <1>1, LocksKept, NoCircle, Invariance, PTL DEF Spec
=============================================================================
