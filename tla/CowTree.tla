------------------------------ MODULE CowTree ------------------------------
(***************************************************************************)
(* The copy-on-write protocol of c_src/nif.cpp: tries ("merkletree"        *)
(* resources) that share one SharedState until the first write.            *)
(*                                                                         *)
(*   - a map handle (accountmap) owns one trie here; the several tries of  *)
(*     a real map are written one after the other under the map's mutex,   *)
(*     and module AccountMap models them together;                         *)
(*   - a trie points at a SharedState (its root, content and mutex), and   *)
(*     SharedState::has_clone counts the other tries pointing there;       *)
(*   - account_map_clone shares the state, the first write detaches;       *)
(*   - account_map_difference_full keeps two tries, drops the map locks    *)
(*     and goes on with the raw SharedState pointers;                      *)
(*   - destructors run later, on a scheduler's own time.                   *)
(*                                                                         *)
(* A critical section that waits for nothing inside is one action; where   *)
(* a thread waits for a mutex while it holds another, it is several.       *)
(***************************************************************************)
EXTENDS Integers, FiniteSets

CONSTANTS
    Thread,     \* scheduler threads inside a NIF call
    MaxMap,     \* number of SharedAccountMap addresses
    Tree,       \* merkletree resources
    MaxState,   \* number of SharedState addresses
    Val,        \* contents a trie can have
    Empty,      \* the content of a new trie
    NoThread, NoTree, NoVal

ASSUME SizesAssumption == MaxMap \in Nat /\ MaxState \in Nat
ASSUME FiniteAssumption == IsFiniteSet(Tree)
ASSUME NullAssumption ==
    /\ NoThread \notin Thread
    /\ NoTree \notin Tree
    /\ Empty \in Val /\ NoVal \notin Val
    /\ Thread \cap (1 .. MaxMap) = {}

\* Mutexes are taken in address order, so addresses are numbers; 0 is NULL.
Map == 1 .. MaxMap
State == 1 .. MaxState
Null == 0

VARIABLES
    slot,       \* the trie a map holds, NoTree when the handle is unused
    frozen,     \* SharedAccountMap::frozen
    by,         \* the thread that has a handle to itself, NoThread once shared
    mapLock,    \* holder of SharedAccountMap::mtx
    refs,       \* holders of references to a trie: its map, diffing threads
    ptr,        \* merkletree::shared_state
    live,       \* SharedStates allocated
    dying,      \* SharedStates a destructor has decided to delete
    clones,     \* SharedState::has_clone
    content,    \* what SharedState::tree holds
    mtx,        \* holder of SharedState::mtx across steps
    pc,         \* where each thread is in its call
    arg,        \* arguments of its call
    raw         \* the locals of difference_full

mapVars == <<slot, frozen, by, mapLock>>
treeVars == <<refs, ptr>>
stateVars == <<live, dying, clones, content>>
threadVars == <<pc, arg, raw>>
vars == <<slot, frozen, by, mapLock, refs, ptr, live, dying, clones, content,
          mtx, pc, arg, raw>>

NoArg == [a |-> Null, b |-> Null, v |-> Empty]
NoRaw == [ta |-> NoTree, tb |-> NoTree, sa |-> Null, sb |-> Null,
          va |-> Empty, vb |-> Empty]

PC == {"idle", "clone", "write", "insert", "diff1", "diff2", "snap",
       "diff3", "raw", "half"}

TypeOK ==
    /\ slot \in [Map -> Tree \cup {NoTree}]
    /\ frozen \in [Map -> BOOLEAN]
    /\ by \in [Map -> Thread \cup {NoThread}]
    /\ mapLock \in [Map -> Thread \cup {NoThread}]
    /\ refs \in [Tree -> SUBSET (Map \cup Thread)]
    /\ ptr \in [Tree -> State \cup {Null}]
    /\ live \in SUBSET State
    /\ dying \in SUBSET live
    /\ clones \in [State -> Int]
    /\ content \in [State -> Val]
    /\ mtx \in [State -> Thread \cup {NoThread}]
    /\ pc \in [Thread -> PC]
    /\ arg \in [Thread -> [a : Map \cup {Null}, b : Map \cup {Null}, v : Val]]
    /\ raw \in [Thread -> [ta : Tree \cup {NoTree}, tb : Tree \cup {NoTree},
                           sa : State \cup {Null}, sb : State \cup {Null},
                           va : Val, vb : Val]]

Init ==
    /\ slot = [m \in Map |-> NoTree]
    /\ frozen = [m \in Map |-> FALSE]
    /\ by = [m \in Map |-> NoThread]
    /\ mapLock = [m \in Map |-> NoThread]
    /\ refs = [t \in Tree |-> {}]
    /\ ptr = [t \in Tree |-> Null]
    /\ live = {}
    /\ dying = {}
    /\ clones = [s \in State |-> 0]
    /\ content = [s \in State |-> Empty]
    /\ mtx = [s \in State |-> NoThread]
    /\ pc = [th \in Thread |-> "idle"]
    /\ arg = [th \in Thread |-> NoArg]
    /\ raw = [th \in Thread |-> NoRaw]

-----------------------------------------------------------------------------
(* Which handle a process may pass to a call.  A handle is known to the     *)
(* process that made it until it is put in a cache (BlockProcess, JumpState) *)
(* for all to find, locked or not.  From there it is read and cloned, and    *)
(* writes go to a clone; only to a locked one may anybody try to write.      *)
Usable(th, m) == slot[m] # NoTree /\ by[m] \in {th, NoThread}
MayWrite(th, m) == Usable(th, m) /\ (by[m] = th \/ frozen[m])

\* An unused handle that no clone under way is about to return.
FreshMap(m) == slot[m] = NoTree /\ \A th \in Thread : arg[th].b # m
FreshTree(t) == ptr[t] = Null /\ refs[t] = {}
FreshState(s) == s \notin live

\* The SharedState of the trie of map m.
StateOf(m) == ptr[slot[m]]

\* alloc_merkletree_resource: a trie on a SharedState of its own.
AllocTree(t, s, m, v) ==
    /\ FreshTree(t) /\ FreshState(s)
    /\ ptr' = [ptr EXCEPT ![t] = s]
    /\ live' = live \cup {s}
    /\ clones' = [clones EXCEPT ![s] = 0]
    /\ content' = [content EXCEPT ![s] = v]
    /\ slot' = [slot EXCEPT ![m] = t]

\* account_map_new
NewMap(th, m, t, s) ==
    /\ pc[th] = "idle"
    /\ FreshMap(m)
    /\ AllocTree(t, s, m, Empty)
    /\ refs' = [refs EXCEPT ![t] = {m}]
    /\ frozen' = [frozen EXCEPT ![m] = FALSE]
    /\ by' = [by EXCEPT ![m] = th]
    /\ UNCHANGED <<mapLock, dying, mtx, threadVars>>

\* account_map_put with a storage list: a new trie takes the entry's place
\* and the old one loses the map's reference.
Replace(th, m, v, t, s) ==
    /\ pc[th] = "idle"
    /\ MayWrite(th, m)
    /\ mapLock[m] = NoThread
    /\ ~frozen[m]
    /\ AllocTree(t, s, m, v)
    /\ refs' = [x \in Tree |-> IF x = t THEN {m} ELSE refs[x] \ {m}]
    /\ UNCHANGED <<frozen, by, mapLock, dying, mtx, threadVars>>

\* account_map_lock.  cache_block locks a state and caches it: others may
\* have the handle from here on.
LockMap(th, m) ==
    /\ pc[th] = "idle"
    /\ Usable(th, m)
    /\ mapLock[m] = NoThread
    /\ frozen' = [frozen EXCEPT ![m] = TRUE]
    /\ by' = [by EXCEPT ![m] = NoThread]
    /\ UNCHANGED <<slot, mapLock, treeVars, stateVars, mtx, threadVars>>

\* BlockProcess.fetch_state and JumpState cache the state they read from the
\* tables as it is, not locked.
ShareMap(th, m) ==
    /\ pc[th] = "idle"
    /\ slot[m] # NoTree /\ by[m] = th
    /\ by' = [by EXCEPT ![m] = NoThread]
    /\ UNCHANGED <<slot, frozen, mapLock, treeVars, stateVars, mtx, threadVars>>

\* account_map_clone: the map lock, then each trie's lock in turn.
CloneCall(th, m, new) ==
    /\ pc[th] = "idle"
    /\ Usable(th, m)
    /\ FreshMap(new)
    /\ mapLock[m] = NoThread
    /\ mapLock' = [mapLock EXCEPT ![m] = th]
    /\ pc' = [pc EXCEPT ![th] = "clone"]
    /\ arg' = [arg EXCEPT ![th] = [a |-> m, b |-> new, v |-> Empty]]
    /\ UNCHANGED <<slot, frozen, by, treeVars, stateVars, mtx, raw>>

\* clone_merkletree_locked and the return of account_map_clone.
CloneTree(th, t) ==
    LET m == arg[th].a
        new == arg[th].b
        s == StateOf(m) IN
    /\ pc[th] = "clone"
    /\ mtx[s] = NoThread
    /\ FreshTree(t)
    /\ ptr' = [ptr EXCEPT ![t] = s]
    /\ clones' = [clones EXCEPT ![s] = @ + 1]
    /\ refs' = [refs EXCEPT ![t] = {new}]
    /\ slot' = [slot EXCEPT ![new] = t]
    /\ frozen' = [frozen EXCEPT ![new] = FALSE]
    /\ by' = [by EXCEPT ![new] = th]
    /\ mapLock' = [mapLock EXCEPT ![m] = NoThread]
    /\ pc' = [pc EXCEPT ![th] = "idle"]
    /\ arg' = [arg EXCEPT ![th] = NoArg]
    /\ UNCHANGED <<live, dying, content, mtx, raw>>

-----------------------------------------------------------------------------
(* Writes: storage_put_map, apply_difference, and put for the state trie.   *)

\* Variant: make_writeable_accountmap is not asked.
WriteCallUnchecked(th, m, v) ==
    /\ pc[th] = "idle"
    /\ MayWrite(th, m)
    /\ mapLock[m] = NoThread
    /\ mapLock' = [mapLock EXCEPT ![m] = th]
    /\ pc' = [pc EXCEPT ![th] = "write"]
    /\ arg' = [arg EXCEPT ![th] = [a |-> m, b |-> Null, v |-> v]]
    /\ UNCHANGED <<slot, frozen, by, treeVars, stateVars, mtx, raw>>

\* The map lock and the test of make_writeable_accountmap.
WriteCall(th, m, v) ==
    /\ pc[th] = "idle"
    /\ MayWrite(th, m)
    /\ mapLock[m] = NoThread
    /\ ~frozen[m]
    /\ mapLock' = [mapLock EXCEPT ![m] = th]
    /\ pc' = [pc EXCEPT ![th] = "write"]
    /\ arg' = [arg EXCEPT ![th] = [a |-> m, b |-> Null, v |-> v]]
    /\ UNCHANGED <<slot, frozen, by, treeVars, stateVars, mtx, raw>>

\* Variant: the write returns with the map still locked.
InsertAndKeepLock(th) ==
    /\ mtx[StateOf(arg[th].a)] = NoThread
    /\ content' = [content EXCEPT ![StateOf(arg[th].a)] = arg[th].v]
    /\ pc' = [pc EXCEPT ![th] = "idle"]
    /\ arg' = [arg EXCEPT ![th] = NoArg]
    /\ UNCHANGED <<mapVars, treeVars, live, dying, clones, mtx, raw>>

\* The end of a write: insert into the locked state, unlock everything.
InsertAndReturn(th) ==
    LET m == arg[th].a IN
    /\ mtx[StateOf(m)] = NoThread
    /\ content' = [content EXCEPT ![StateOf(m)] = arg[th].v]
    /\ mapLock' = [mapLock EXCEPT ![m] = NoThread]
    /\ pc' = [pc EXCEPT ![th] = "idle"]
    /\ arg' = [arg EXCEPT ![th] = NoArg]
    /\ UNCHANGED <<slot, frozen, by, treeVars, live, dying, clones, mtx, raw>>

\* Variant: one clone more than allowed.
WriteInPlaceShared(th) ==
    /\ pc[th] = "write"
    /\ clones[StateOf(arg[th].a)] <= 1
    /\ InsertAndReturn(th)

\* make_writeable_locked finds has_clone = 0 and the write is in place.
WriteInPlace(th) ==
    /\ pc[th] = "write"
    /\ clones[StateOf(arg[th].a)] = 0
    /\ InsertAndReturn(th)

\* make_writeable_locked finds has_clone > 0: it leaves the shared state
\* with a copy and unlocks it before it locks the copy.
WriteDetach(th, new) ==
    LET t == slot[arg[th].a]
        s == ptr[t] IN
    /\ pc[th] = "write"
    /\ mtx[s] = NoThread
    /\ clones[s] > 0
    /\ FreshState(new)
    /\ clones' = [clones EXCEPT ![s] = @ - 1, ![new] = 0]
    /\ live' = live \cup {new}
    /\ content' = [content EXCEPT ![new] = content[s]]
    /\ ptr' = [ptr EXCEPT ![t] = new]
    /\ pc' = [pc EXCEPT ![th] = "insert"]
    /\ UNCHANGED <<mapVars, refs, dying, mtx, arg, raw>>

\* The write into the private copy.
WriteInsert(th) ==
    /\ pc[th] = "insert"
    /\ InsertAndReturn(th)

-----------------------------------------------------------------------------
(* account_map_difference_full.                                             *)

Lower(x, y) == IF x < y THEN x ELSE y
Upper(x, y) == IF x < y THEN y ELSE x

\* DualAccountMapLock takes the lower address first ...
DiffCall(th, m, n) ==
    /\ pc[th] = "idle"
    /\ Usable(th, m) /\ Usable(th, n) /\ m # n
    /\ mapLock[Lower(m, n)] = NoThread
    /\ mapLock' = [mapLock EXCEPT ![Lower(m, n)] = th]
    /\ pc' = [pc EXCEPT ![th] = "diff1"]
    /\ arg' = [arg EXCEPT ![th] = [a |-> m, b |-> n, v |-> Empty]]
    /\ UNCHANGED <<slot, frozen, by, treeVars, stateVars, mtx, raw>>

\* ... then the other.
DiffLockSecond(th) ==
    LET hi == Upper(arg[th].a, arg[th].b) IN
    /\ pc[th] = "diff1"
    /\ mapLock[hi] = NoThread
    /\ mapLock' = [mapLock EXCEPT ![hi] = th]
    /\ pc' = [pc EXCEPT ![th] = "diff2"]
    /\ UNCHANGED <<slot, frozen, by, treeVars, stateVars, mtx, arg, raw>>

BothUnlocked(th) ==
    [mapLock EXCEPT ![arg[th].a] = NoThread, ![arg[th].b] = NoThread]

\* Equal SharedState pointers mean equal maps: the empty list is returned.
DiffEqual(th) ==
    /\ pc[th] = "diff2"
    /\ StateOf(arg[th].a) = StateOf(arg[th].b)
    /\ mapLock' = BothUnlocked(th)
    /\ pc' = [pc EXCEPT ![th] = "idle"]
    /\ arg' = [arg EXCEPT ![th] = NoArg]
    /\ UNCHANGED <<slot, frozen, by, treeVars, stateVars, mtx, raw>>

\* Otherwise SharedStateLock takes the mutexes of the two state tries, the
\* lower address first, with both map locks held ...
DiffLockTrie(th) ==
    LET sa == StateOf(arg[th].a)
        sb == StateOf(arg[th].b) IN
    /\ pc[th] = "diff2"
    /\ sa # sb
    /\ mtx[Lower(sa, sb)] = NoThread
    /\ mtx' = [mtx EXCEPT ![Lower(sa, sb)] = th]
    /\ pc' = [pc EXCEPT ![th] = "snap"]
    /\ UNCHANGED <<mapVars, treeVars, stateVars, arg, raw>>

\* Variant: the guard of the state tries outlives the snapshot.
DiffSnapshotLocked(th) ==
    LET ta == slot[arg[th].a]
        tb == slot[arg[th].b] IN
    /\ pc[th] = "snap"
    /\ mtx[Upper(ptr[ta], ptr[tb])] = NoThread
    /\ refs' = [t \in Tree |->
                  IF t \in {ta, tb} THEN refs[t] \cup {th} ELSE refs[t]]
    /\ raw' = [raw EXCEPT ![th] = [ta |-> ta, tb |-> tb,
                                   sa |-> Null, sb |-> Null,
                                   va |-> content[ptr[ta]],
                                   vb |-> content[ptr[tb]]]]
    /\ mapLock' = BothUnlocked(th)
    /\ pc' = [pc EXCEPT ![th] = "diff3"]
    /\ UNCHANGED <<slot, frozen, by, ptr, stateVars, arg, mtx>>

\* ... then the upper; the tries are compared and unlocked, snapshot_side
\* keeps a reference to both and the map locks are dropped.
\* va and vb are history: what the tries held at that moment.
DiffSnapshot(th) ==
    LET ta == slot[arg[th].a]
        tb == slot[arg[th].b] IN
    /\ pc[th] = "snap"
    /\ mtx[Upper(ptr[ta], ptr[tb])] = NoThread
    /\ mtx' = [mtx EXCEPT ![Lower(ptr[ta], ptr[tb])] = NoThread]
    /\ refs' = [t \in Tree |->
                  IF t \in {ta, tb} THEN refs[t] \cup {th} ELSE refs[t]]
    /\ raw' = [raw EXCEPT ![th] = [ta |-> ta, tb |-> tb,
                                   sa |-> Null, sb |-> Null,
                                   va |-> content[ptr[ta]],
                                   vb |-> content[ptr[tb]]]]
    /\ mapLock' = BothUnlocked(th)
    /\ pc' = [pc EXCEPT ![th] = "diff3"]
    /\ UNCHANGED <<slot, frozen, by, ptr, stateVars, arg>>

\* build_storage_diff_list reads both shared_state pointers with no lock.
DiffReadPointers(th) ==
    /\ pc[th] = "diff3"
    /\ raw' = [raw EXCEPT ![th] = [@ EXCEPT !.sa = ptr[raw[th].ta],
                                           !.sb = ptr[raw[th].tb]]]
    /\ pc' = [pc EXCEPT ![th] = "raw"]
    /\ UNCHANGED <<mapVars, treeVars, stateVars, mtx, arg>>

\* SharedStateLock: the lower address ...
DiffLockLower(th) ==
    LET lo == Lower(raw[th].sa, raw[th].sb) IN
    /\ pc[th] = "raw"
    /\ mtx[lo] = NoThread
    /\ mtx' = [mtx EXCEPT ![lo] = th]
    /\ pc' = [pc EXCEPT ![th] = "half"]
    /\ UNCHANGED <<mapVars, treeVars, stateVars, arg, raw>>

\* Variant: the lower mutex stays locked.
DiffKeepsLower(th) ==
    /\ pc[th] = "half"
    /\ mtx[Upper(raw[th].sa, raw[th].sb)] = NoThread
    /\ refs' = [t \in Tree |-> refs[t] \ {th}]
    /\ pc' = [pc EXCEPT ![th] = "idle"]
    /\ arg' = [arg EXCEPT ![th] = NoArg]
    /\ raw' = [raw EXCEPT ![th] = NoRaw]
    /\ UNCHANGED <<mapVars, ptr, stateVars, mtx>>

\* ... then the upper; both are read and unlocked, and the references go.
DiffLockUpper(th) ==
    LET lo == Lower(raw[th].sa, raw[th].sb)
        hi == Upper(raw[th].sa, raw[th].sb) IN
    /\ pc[th] = "half"
    /\ mtx[hi] = NoThread
    /\ mtx' = [mtx EXCEPT ![lo] = NoThread]
    /\ refs' = [t \in Tree |-> refs[t] \ {th}]
    /\ pc' = [pc EXCEPT ![th] = "idle"]
    /\ arg' = [arg EXCEPT ![th] = NoArg]
    /\ raw' = [raw EXCEPT ![th] = NoRaw]
    /\ UNCHANGED <<mapVars, ptr, stateVars>>

-----------------------------------------------------------------------------
(* Reclaim.  The runtime collects a handle no process and no call refers    *)
(* to, and runs destructors from a context of its own.                      *)

\* destruct_accountmap_type
DropMap(m) ==
    /\ slot[m] # NoTree
    /\ mapLock[m] = NoThread
    /\ \A th \in Thread : m \notin {arg[th].a, arg[th].b}
    /\ refs' = [refs EXCEPT ![slot[m]] = @ \ {m}]
    /\ slot' = [slot EXCEPT ![m] = NoTree]
    /\ frozen' = [frozen EXCEPT ![m] = FALSE]
    /\ by' = [by EXCEPT ![m] = NoThread]
    /\ UNCHANGED <<mapLock, ptr, stateVars, mtx, threadVars>>

\* release_merkletree_shared under the state's mutex, while others share it
DestructShared(t) ==
    LET s == ptr[t] IN
    /\ s # Null /\ refs[t] = {}
    /\ mtx[s] = NoThread
    /\ clones[s] # 0
    /\ clones' = [clones EXCEPT ![s] = @ - 1]
    /\ ptr' = [ptr EXCEPT ![t] = Null]
    /\ UNCHANGED <<mapVars, refs, live, dying, content, mtx, threadVars>>

\* Variant: the last trie but one deletes the state.
DestructEarly(t) ==
    LET s == ptr[t] IN
    /\ s # Null /\ refs[t] = {}
    /\ mtx[s] = NoThread
    /\ clones[s] <= 1
    /\ dying' = dying \cup {s}
    /\ ptr' = [ptr EXCEPT ![t] = Null]
    /\ UNCHANGED <<mapVars, refs, live, clones, content, mtx, threadVars>>

\* release_merkletree_shared by the last trie: the state is deleted, but
\* only after its mutex has been unlocked (FreeState)
DestructLast(t) ==
    LET s == ptr[t] IN
    /\ s # Null /\ refs[t] = {}
    /\ mtx[s] = NoThread
    /\ clones[s] = 0
    /\ dying' = dying \cup {s}
    /\ ptr' = [ptr EXCEPT ![t] = Null]
    /\ UNCHANGED <<mapVars, refs, live, clones, content, mtx, threadVars>>

\* Variant: the state can be deleted twice.
FreeAgain(s) ==
    /\ s \in dying
    /\ live' = live \ {s}
    /\ UNCHANGED <<mapVars, treeVars, dying, clones, content, mtx, threadVars>>

FreeState(s) ==
    /\ s \in dying
    /\ dying' = dying \ {s}
    /\ live' = live \ {s}
    /\ UNCHANGED <<mapVars, treeVars, clones, content, mtx, threadVars>>

-----------------------------------------------------------------------------
\* A call a process may make.
Call(th) ==
    \/ \E m \in Map, t \in Tree, s \in State : NewMap(th, m, t, s)
    \/ \E m \in Map, v \in Val, t \in Tree, s \in State : Replace(th, m, v, t, s)
    \/ \E m \in Map : LockMap(th, m) \/ ShareMap(th, m)
    \/ \E m, n \in Map : CloneCall(th, m, n)
    \/ \E m \in Map, v \in Val : WriteCall(th, m, v)
    \/ \E m, n \in Map : DiffCall(th, m, n)

\* The steps of a call under way.
Step(th) ==
    \/ \E t \in Tree : CloneTree(th, t)
    \/ WriteInPlace(th)
    \/ \E s \in State : WriteDetach(th, s)
    \/ WriteInsert(th)
    \/ DiffLockSecond(th)
    \/ DiffEqual(th)
    \/ DiffLockTrie(th)
    \/ DiffSnapshot(th)
    \/ DiffReadPointers(th)
    \/ DiffLockLower(th)
    \/ DiffLockUpper(th)

Reclaim ==
    \/ \E t \in Tree : DestructShared(t) \/ DestructLast(t)
    \/ \E s \in State : FreeState(s)

Next ==
    \/ \E th \in Thread : Call(th) \/ Step(th)
    \/ \E m \in Map : DropMap(m)
    \/ Reclaim

Spec == Init /\ [][Next]_vars

\* A call that can always proceed again does proceed: the platform's mutexes
\* do not starve a waiter for ever, and the runtime runs its destructors.
Fairness ==
    /\ \A th \in Thread : SF_vars(Step(th))
    /\ \A t \in Tree : SF_vars(DestructShared(t) \/ DestructLast(t))
    /\ \A s \in State : WF_vars(FreeState(s))

FairSpec == Spec /\ Fairness

-----------------------------------------------------------------------------
(* Properties.                                                              *)

Users(s) == {t \in Tree : ptr[t] = s}

\* SharedState::has_clone is one less than the number of tries that point
\* at the state: what make_writeable_locked and release_merkletree_shared
\* both decide on.
CloneCountExact ==
    \A s \in live \ dying : Cardinality(Users(s)) = clones[s] + 1

\* No trie, no diff in progress and no locked mutex refers to a SharedState
\* that was deleted or is about to be.
NoDanglingState ==
    /\ \A t \in Tree : ptr[t] # Null => ptr[t] \in live \ dying
    /\ \A th \in Thread : pc[th] \in {"raw", "half"} =>
          {raw[th].sa, raw[th].sb} \subseteq live \ dying
    /\ \A s \in State : mtx[s] # NoThread => s \in live \ dying

\* difference_full works on what the two maps held while it had their locks,
\* although it reads the tries after dropping them.
DiffReadsSnapshot ==
    \A th \in Thread : pc[th] \in {"raw", "half"} =>
        /\ content[raw[th].sa] = raw[th].va
        /\ content[raw[th].sb] = raw[th].vb

\* Every mutex as a number, in the order of LOCK_ORDER.md: the maps by
\* address, then the states by address.
Lock == 1 .. MaxMap + MaxState
Holder(k) == IF k \in Map THEN mapLock[k]
             ELSE IF k \in Lock THEN mtx[k - MaxMap] ELSE NoThread

\* The mutex a thread waits for in its call, 0 when it waits for none.
Need(th) ==
    LET a == arg[th].a
        b == arg[th].b IN
    CASE pc[th] \in {"clone", "write", "insert"} -> MaxMap + StateOf(a)
      [] pc[th] = "diff1" -> Upper(a, b)
      [] pc[th] = "diff2" -> MaxMap + Lower(StateOf(a), StateOf(b))
      [] pc[th] = "snap" -> MaxMap + Upper(StateOf(a), StateOf(b))
      [] pc[th] = "raw" -> MaxMap + Lower(raw[th].sa, raw[th].sb)
      [] pc[th] = "half" -> MaxMap + Upper(raw[th].sa, raw[th].sb)
      [] OTHER -> 0

\* In every set of threads there is one that waits for no other of the set:
\* calls on the same maps in opposite orders never wait on one another
\* (LOCK_ORDER.md D-C1, D-C8).
NoCircularWait ==
    \A W \in (SUBSET Thread) \ {{}} : \E th \in W : Holder(Need(th)) \notin W

\* The content of a map as its users see it.
Value(m) == content[ptr[slot[m]]]

\* A locked map never changes, whatever its clones and their clones do.
FrozenNeverChanges ==
    [][\A m \in Map : frozen[m] /\ frozen'[m] => Value(m)' = Value(m)]_vars

\* Every call returns.
CallsReturn == \A th \in Thread : pc[th] # "idle" ~> pc[th] = "idle"

\* Storage is given back: a trie nobody refers to is destructed.
UnreferencedReclaimed ==
    \A t \in Tree : (ptr[t] # Null /\ refs[t] = {}) ~> ptr[t] = Null

-----------------------------------------------------------------------------
(* The inductive invariant.                                                 *)

\* A trie that has not been destructed points at an allocated state.
PtrLive == \A t \in Tree : ptr[t] # Null => ptr[t] \in live \ dying

\* References keep a trie from its destructor; a map's trie is its alone.
RefsExact ==
    /\ \A m \in Map : slot[m] # NoTree => m \in refs[slot[m]]
    /\ \A t \in Tree, m \in Map : m \in refs[t] => slot[m] = t
    /\ \A m, n \in Map : slot[m] # NoTree /\ slot[m] = slot[n] => m = n
    /\ \A t \in Tree : refs[t] # {} => ptr[t] # Null
    /\ \A m \in Map : frozen[m] => slot[m] # NoTree

\* The map a call of th works on stays what it is during the call: nobody
\* else may write to it, and the call keeps the handle referenced.
Held(th, m) == m \in Map /\ slot[m] # NoTree /\ by[m] \in {th, NoThread}

CallsHold ==
    \A th \in Thread :
        /\ pc[th] # "idle" => Held(th, arg[th].a)
        /\ pc[th] \in {"write", "insert"} => ~frozen[arg[th].a] /\ by[arg[th].a] = th
        /\ pc[th] = "insert" => clones[StateOf(arg[th].a)] = 0
        /\ pc[th] = "clone" => arg[th].b \in Map /\ slot[arg[th].b] = NoTree
        /\ pc[th] \in {"diff1", "diff2", "snap", "diff3", "raw", "half"} =>
              Held(th, arg[th].b)

\* No two clones under way return the same handle.
ClonesDistinct ==
    \A th, other \in Thread :
        (pc[th] = "clone" /\ pc[other] = "clone" /\ arg[th].b = arg[other].b)
            => th = other

\* What a difference kept is what its maps still hold.
DiffHolds ==
    \A th \in Thread :
        /\ pc[th] \in {"diff3", "raw", "half"} =>
              /\ raw[th].ta = slot[arg[th].a] /\ raw[th].tb = slot[arg[th].b]
              /\ th \in refs[raw[th].ta] \cap refs[raw[th].tb]
              /\ content[ptr[raw[th].ta]] = raw[th].va
              /\ content[ptr[raw[th].tb]] = raw[th].vb
        /\ pc[th] \in {"raw", "half"} =>
              raw[th].sa = ptr[raw[th].ta] /\ raw[th].sb = ptr[raw[th].tb]

\* Only a difference keeps a state's mutex from one step to the next: the
\* lower one of the two it compares.
MtxHolds ==
    \A s \in State : mtx[s] # NoThread =>
        LET th == mtx[s] IN
        \/ pc[th] = "half" /\ s = Lower(raw[th].sa, raw[th].sb)
        \/ pc[th] = "snap" /\ s = Lower(StateOf(arg[th].a), StateOf(arg[th].b))

\* Together they are inductive, and imply TypeOK, CloneCountExact,
\* NoDanglingState and DiffReadsSnapshot.
IInv ==
    /\ TypeOK /\ PtrLive /\ RefsExact /\ CloneCountExact
    /\ CallsHold /\ ClonesDistinct /\ DiffHolds /\ MtxHolds

\* A map's mutex is held by a call that works on the map.
MapLockHolds ==
    \A m \in Map : mapLock[m] # NoThread =>
        LET th == mapLock[m] IN
        \/ pc[th] \in {"clone", "write", "insert"} /\ m = arg[th].a
        \/ pc[th] = "diff1" /\ m = Lower(arg[th].a, arg[th].b)
        \/ pc[th] \in {"diff2", "snap"} /\ m \in {arg[th].a, arg[th].b}

\* A difference works on two maps, and from DiffLockTrie on on two states.
DiffApart ==
    \A th \in Thread :
        /\ pc[th] = "diff1" => arg[th].a # arg[th].b
        /\ pc[th] \in {"snap", "diff3", "raw", "half"} =>
              StateOf(arg[th].a) # StateOf(arg[th].b)

\* With IInv they are inductive, and imply NoCircularWait.
LocksInv == MapLockHolds /\ DiffApart

-----------------------------------------------------------------------------
\* Each map is a value of its own: cloning copies, writing touches one map.
Values == INSTANCE MapValues WITH
    Missing <- NoVal,
    val <- [m \in Map |-> IF slot[m] = NoTree THEN NoVal ELSE Value(m)]
ImplementsValues == Values!Spec
=============================================================================
