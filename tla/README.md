# Formal models of diode_server

TLA+ models of the Diode network node (Elixir under `lib/`, the merkle tree
NIF under `c_src/`, the virtual machine under `evm/`), TLC configurations for
small instances of them, and proofs for TLAPS. All paths below are relative to the repository root.

- [1. The system](#1-the-system): components, state, interactions, hazards
- [2. Modules](#2-modules): what is modelled and how it corresponds to the code
- [3. Runs](#3-runs): what TLC checks, bounds, fairness
- [4. Proofs](#4-proofs): what holds for every instance, and why
- [5. Disagreements found](#5-disagreements-between-the-code-and-its-documentation)
- [6. Not modelled](#6-not-modelled)
- [7. Plan](#7-plan)

`PROJECT.json` maps every definition to the lines it models and every hazard
to the properties that cover it.

## 1. The system

A node keeps a proof-of-stake-like chain ("BlockQuick") whose blocks are
executed by an EVM, relays traffic between edge devices, and proxies a few
remote chains.

| Component | State it keeps | Operations | Talks to |
|---|---|---|---|
| **Trie sharing** `c_src/nif.cpp` | `SharedState` (tree, mutex, `has_clone`), `SharedAccountMap` (mutex, `frozen`), `merkletree` resources | new, put, clone, lock, write with copy on first write, difference, destructors | scheduler threads of the VM, the collector |
| **Account maps** `c_src/nif.cpp`, `lib/caccount_map.ex`, `lib/chain/state.ex` | entries (fields, storage in nil / compact / live form), the state trie over them | get, put, delete, storage read and write, compact and uncompact, difference, apply_difference | trie sharing; everything that reads or makes a state |
| **Merkle tree and node pool** `c_src/merkletree.cpp`, `item_pool.cpp` | nodes with reference counts, cached hashes | insert, split, hash, difference, proof | trie sharing |
| **Chain server and block table** `lib/chain.ex`, `lib/model/chainsql.ex`, `lib/block_process.ex` | peak, ETS index (hash and number), SQLite rows, the Writer's table and queue, block and state caches | add block, import, fork choice, reorganisation, writing behind, restart and repair | importers (peers, miner), Writer, every reader |
| **Block rules** `lib/chain/block.ex`, `block_cache.ex`, `block_quick_pool.ex` | headers, cached window of miners | validate, difficulty, finality window | chain, registry contract state |
| **Transaction pool and miner** `lib/chain/pool.ex`, `worker.ex` | transactions by key, the candidate block | add, replace, proposal, build candidate, commit | chain, EVM |
| **EVM port** `lib/evm.ex`, `lib/chain/transaction.ex`, `evm/main.cpp`, `evm/host.cpp` | one external process per frame, its caches of storage slots; the state's account map | run a transaction, nested calls, creations, self destructions, failures | account maps, interpreter |
| **Interpreter** `evm/libaleth-interpreter`, `evm/evmc` | stack, memory, gas, program counter of a frame | 256 opcodes in nine revisions | its host, words |
| **Words** `evm/intx` | none | arithmetic on 256 bit words | interpreter |
| **Peers and synchronisation** `lib/network/peer_handler.ex`, `server.ex`, `lib/model/syncsql.ex` | connections, current sync job, table of blocks to import | exchange of blocks, sync job, broadcast | chain, Kademlia |
| **Kademlia** `lib/kademlia.ex`, `kademliasearch.ex`, `kbuckets.ex` | buckets, stored objects | find, store, search, redistribute | peers |
| **Remote chains** `lib/remote_chain/*.ex` | response cache and waiting callers, last block, next nonce, pending transactions | RPC with coalescing, fail over between nodes, nonce allocation, relay | edge protocol |
| **LRU caches** `lib/etslru.ex`, `lru.ex` | ETS entries and an eviction order | put, fetch, evict, flush | chain, block process |
| **Edge protocol, RPC** `lib/network/edge_v2.ex`, `rpc*.ex` | ports, channels, tickets per connection | device requests | all of the above |
| **Supervision** `lib/diode.ex`, `lib/model/sql.ex` | process tree | start order, what restarts with what | all |

### Interactions

A block's state is a map handle. `Block.simulate` clones the parent's
state, which is locked and cached, runs the transactions against the clone and
hands the result to `BlockProcess.cache_block`, which locks it; from then on
any process may read or clone it. `Block.validate` in the importing process
puts the block into the Writer's table and the hash into the public ETS table;
only then does the importer call the Chain server, which alone moves the peak.
The Writer inserts rows and numbers behind the server's back; a reorganisation
waits for it and then rewrites numbers itself, one statement at a time. Readers
use the ETS table and the peak without asking the server. At a start all of
that is rebuilt from the rows with a number.

### What is hard about each part

- *Trie sharing.* Scheduler threads clone, write, compare and destruct at once;
  `account_map_difference_full` goes on after dropping the map locks, with raw
  pointers; the last user of a state deletes it after unlocking it. Correct
  means: exact reference counts, nothing freed in use, no cycle of waiting, and
  nobody can tell that states are shared.
- *Account maps.* Each operation updates an entry and the state trie; batches
  stop in the middle. Storage exists in three forms and moves between them even
  on reads. Correct means: the state root commits to the accounts, locked
  maps never change, and a delta brings back the state it was made of.
- *Chain.* Four kinds of process and two storages that follow each other with a
  delay, crashes of either half at any point. Correct means: one row per
  number, every known block can be loaded, the heaviest branch wins in any
  order of arrival, the disk follows, importers get their answer.
- *Merkle tree.* Copies share nodes that are counted by hand; writes fork the
  nodes of their path; hashes are computed late, into nodes that other trees
  share, and the same walk collapses small nodes. Correct means: exact counts, no
  tree sees another's writes, and a root hash that depends on the pairs alone.
- *EVM port.* Each frame runs in a process of its own that caches storage and
  sends its writes late; the node changes one account map in place, also for
  frames that fail. Correct means: value is kept, reads give the latest write,
  a failure leaves nothing behind but the fee.
- *Interpreter.* Raw pointers into the stack and memory, guarded by a table
  that is kept elsewhere; code that jumps; gas that leaves and comes back.
  Correct means: no access outside, no execution of data, memory paid for, no
  change in static mode, gas that falls.
- *Words.* Carries, shifts by zero and by the width, corrections of quotient
  digits that few operands need.
- *Block rules.* Finality depends on a window of 100 miners computed
  incrementally in a cache (`blockquick_window`), difficulty on timestamps.
- *Miner.* The candidate is built from a peak and a pool that move meanwhile.
- *Synchronisation.* Blocks arrive out of order, from several peers, in jobs
  whose queue survives a restart.
- *Kademlia.* Bounded parallel search with answers that come late or never.
- *Remote chains.* A request that timed out and was sent again is answered
  twice; nonces are reset while transactions are in flight.
- *LRU.* A cache written by many processes with no lock.

## 2. Modules

| Module | Models |
|---|---|
| `MapValues` | what a map handle promises: it is a value of its own |
| `CowTree` | copy on write, locks and reclaim between threads; refines `MapValues` |
| `CowTreeProofs` | theorems about `CowTree` |
| `AccountMap` | account maps and their deltas; refines `MapValues` |
| `AccountMapProofs` | theorems about `AccountMap` |
| `TreeValues` | what a tree promises: a set of pairs of its own |
| `MerkleTree` | trees, nodes, hashes and the node pool; refines `TreeValues` |
| `MerkleTreeProofs` | theorems about `MerkleTree` |
| `ChainCore` | Chain server, Writer, ETS index, importers, restarts |
| `ChainCoreProofs` | theorems about `ChainCore` |
| `EvmPort` | a transaction: frames, port programs, their caches, the state |
| `EvmPortProofs` | theorems about `EvmPort` |
| `Opcodes` | the tables of the interpreter: gas and stack of every byte |
| `Interpreter` | one frame of the virtual machine; uses `Opcodes` |
| `InterpreterSafety` | theorems about stack, code, memory, gas and static mode of `Interpreter`, and lemmas on the tables of `Opcodes` |
| `Induction` | lemmas: induction over naturals and the existence of recursive functions |
| `Words` | the arithmetic of the interpreter's words |
| `WordsProofs` | theorems about sums, comparisons, shifts, single bits, products and powers of `Words` |
| `MC...` | instances for TLC |

The modules meet where the parts do. A map's state trie in `AccountMap` and
the content of a state in `CowTree` are the values that `MerkleTree` implements;
the account map that `EvmPort` changes in place is a map of `AccountMap`, which
the node has cloned before; a frame of `EvmPort`, whose reads, writes, calls and
end are open, is a run of `Interpreter`, whose host's answers are open in turn;
and the results of computing opcodes, open in `Interpreter`, are those of `Words`.

`CowTree` and `AccountMap` look at the same code from two sides and implement
the same abstract specification. `CowTree` has one trie per map and all
interleavings: in the code the several tries of a map are treated one after
the other while its mutex is held, with the same protocol for each.
`AccountMap` has all entries and forms of storage of a map, and takes the
atomicity of an operation on it for granted, which is what the map mutex gives
and `CowTree` shows not to be lost by sharing.

### CowTree

| Variable | Code |
|---|---|
| `slot`, `frozen`, `mapLock` | a map's trie, `SharedAccountMap::frozen`, `::mtx` |
| `ptr`, `refs` | `merkletree::shared_state`, resource references (`enif_keep_resource`) |
| `live`, `dying`, `clones`, `content`, `mtx` | the `SharedState` objects: allocated, doomed by a destructor, `has_clone`, `tree`, `mtx` |
| `pc`, `arg`, `raw` | a thread's position in its call, its arguments, the locals of `difference_full` |
| `by` | the one thread that knows a handle, nobody once it is shared |

A critical section in which a thread waits for nothing is one action. Where
code waits for a mutex while holding another it is several: clone (map, then
trie), write (map, then shared state, then copy), difference (both maps in
address order, both state tries in address order, then, with no map lock, both
storage tries in address order). `WriteDetach` and `WriteInsert` are the two
halves of `make_writeable_locked`, which unlocks the shared state before it
locks the copy. `DestructLast` and `FreeState` are the two halves of the
destructor, which unlocks a mutex before it deletes it.

*Discipline of the callers.* `Usable` and `MayWrite` say which process passes
which handle to which call. A fresh clone belongs to the process that asked for
it. `LockMap` and `ShareMap` make it known to all: `BlockProcess.cache_block`
locks what it caches, `BlockProcess.fetch_state` and the `JumpState` cache do
not, although comments in `lib/shell.ex`, `lib/network/rpc.ex` and
`lib/network/edge_v2.ex` say that cached states are locked. Shared handles are read, cloned and compared by anybody, and
every writer in `lib/` clones first, so an unlocked handle is written by its
owner only. A locked one may be written to by anybody in the model; the write
is refused. The proofs rest on this discipline: two processes that write to one
unlocked handle are not covered.

*Abstractions.* Addresses are numbers, so the address order of locks is the
order of numbers; a freed address may be reused. `content` is a value out of a
set: what a tree does with it is for a later module. The temporary tries that
`difference_full` builds for entries without a live trie
(`storage_for_diff_side`) are known to one thread only and left out.
`va` and `vb` in `raw` are history variables.

### AccountMap

`entries` are the `AccountEntry` records, `trie` the state trie, as a function
from addresses to what a leaf's hash commits to (the pair of the account's
fields and storage; `LeafOf` is `AccountHashCtx::compute`), `store` the content
of each live storage trie, and `torn` remembers maps on which a batch failed
half way. There is one action per NIF operation that changes a map, and `ReadStorage`,
`ReadProof` and `ReadRoots` because reading may turn compact storage into a live
trie (`Materialize`). Compact storage is nil, an inlined value or a list of slots
(`CompactForm`), and `Parsed` is what reading it back gives.
`ApplyMismatch` is `apply_difference` on a map that is not the one the delta
was made of: reports are taken in list order, which is arbitrary here (`done`),
the slots of the failing report are written up to the first that does not fit
(`y` leaves open how many), and fields likewise (`x`). `UncompactResource` is
only in runs that set `ResourceUncompact`, see section 5.

### ChainCore

| Variable | Code |
|---|---|
| `stored`, `numbered` | rows of `blocks`, those with a number |
| `pending`, `queue` | the Writer's ETS table, the requests in its queue |
| `known`, `at` | ETS entries of Chain by hash, by number |
| `peak`, `job` | the Chain server's state; where it is in `put_peak` / `ets_refetch` |
| `pc`, `blk` | each importer's position and block |

An import is `Validate` (look up the parent, validate), `Store` (the end of
`Block.validate`: Writer table, ETS table) and the call `add_block`, which is
one of `AddAlt`, `AddExtend`, `AddReplace`. A reorganisation is a sequence of
steps, one per SQL statement or ETS write, in which the Writer, importers and
crashes may interleave: `PutPeakClear`, then per block `NormClear`,
`NormNumber` or `NormDone`, then `RefetchStep`s and `RefetchDone`. `Restart`
may happen at any moment and keeps only rows; `RestartRewind` is the repair
path when the state of the peak does not load.

`WriterCrash` is a crash of the Writer alone: its supervisor is one_for_one, the
ETS table belongs to the supervisor's side and survives, the queue does not.
When the server waits in a call to it (`wait_for_done`) the server dies too,
and the supervision tree stops the node, which is `Restart`. The row of the
insert it was in may or may not have been committed (`Interrupted`).

Block trees are constants (`Parent`, `Number`, `Total`) because a block names
its parent and total difficulty itself; only valid blocks are offered.

### MerkleTree

`pool` is an `ItemPool`: the nodes by place, their reference counts and the
number of pairs in use. `root` holds the root of every `Tree`. `Tree()` makes a
pool of its own, so a pool belongs to one tree and the copies made of it, and the
model has one such family. Operators take a pool and return the pool after the
call, in the order of the code: `ForkForWrite` before anything on the path is
changed, `SplitNode` when a bucket is too large, `Collapse` inside
`UpdateHashes`. A bucket, a list sorted by key in the code, is a function.
A hash is the term that is hashed (`LeafTerm`, `NodeTerm`), so hashes are equal
exactly when their terms are. Which free place a new node takes has no
consequence: the code takes the last one freed, the model the first.

The code's loops and recursions over a tree are one step that is taken as often
as the tree can need (`Steps`), a step with nothing left to do being none:
`get_bucket`, `each` and `insert_path` go down at most `HashBits` times,
`decr_ref` frees at most the nodes there are, `update_merkle_hash_count` enters
and leaves each of them once. The code's pool grows when it is full; a call of the model
that may need new nodes waits for places enough (`Room`): one for each node of a path,
two for each split, and the proofs show that no write runs out of them.
`EdgesCounted`, `CleanHashesRight` and `ReadsAgree` compare the pool with
definitions that know only the pairs of a tree.

### EvmPort

| Variable | Code |
|---|---|
| `state` | the account map in `Evm.Task.chain_state`: balances, slots, which accounts exist and have code |
| `stack` | the frames: `do_eval`'s calls that wait in `loop`, each with its port |
| `host` | `Host` in the port program: `m_complete`, the cache and the dirty slots |
| `idle` | the process dictionary's list of ports that can be used again |
| `phase` | where `Transaction.apply` is |
| `latest`, `failed`, `burned` | history variables for the properties |

A frame may read and write slots, call, create, destroy itself, return and fail
in any order. `Asked` is the request for a slot with its read-ahead, `Preload` the
message that forgets all and sends a small account as a whole, `Flush` the
updates a Host sends before a nested call and at its end, also when the
execution failed. `Enter` is a new frame in a port that was used before or is
new, `Resume` the caller's frame after it. `Undo` is what `Transaction.apply`
does after a failure: it writes the sender's account into a map that the
failed code has changed in place. `Bury` is the loop over the accounts that
destroyed themselves, each of which gives what it has left to its heir; an
account that is listed twice, or whose heir comes later in the list, is what
makes the order matter, so it is a recursion along the list (`Buried`). A storage
overlaid by writes is `Over`.

`do_call_contract`, `do_create` and `Transaction.apply` subtract from a balance
without asking whether it suffices. That it does rests on the machine
having asked in another process (`caseCallSetup`), some messages ago, and on the
frames in between; `NoOverdraft` says that it is never wrong. Blocks with the
flag `double_spend_delegatecall` transfer a DELEGATECALL's value again without
asking; there an account can be overdrawn, so the runs have
`DoubleSpend = FALSE`.

### Interpreter, Opcodes

`Opcodes` has the rows of `instruction_metrics.c` (gas, words on the stack
before, change of the height) for every byte and revision as sets of bytes, and
the gas prices of `VMConfig.h`'s schedules. A frame starts with a scan of its code
(`InitEntry`) and every opcode is one `Step`: the check of the stack against the
row (`BadStack`), the payment (`Pay`), the growth of memory (`MemGas`, `Grow`),
then its effect. Each group of cases in `VM.cpp` is an action. What a handler
touches is recorded in `last`: how many words of the stack its case reads
and writes through raw pointers, the end of the memory and of the code it
reads, the call it makes to its host. The properties compare that with what was
checked. Results and answers of the host are any of `Result`; contents of memory
are left out, its size is not.

The program's host runs every frame with `EVMC_CONSTANTINOPLE` (`main.cpp:66`);
the other revisions are offered by the library and checked as well. SSTORE calls
the host before it charges, as in the code, and BLOCKHASH has no check of the
range, which the code marks as a modification of its own. Not in the model: the
truncation of memory offsets to 32 bits, for which a frame would have to pay more
than 2^44 gas, and the optimising pass, which is not compiled in.

### Words

A machine word has `B` bits instead of 64; everything above it (carries, halves,
normalisation, estimated quotient digits, corrections, add-back, the loops) is
that of the code with every intermediate value reduced where a C type wraps.
Operations are the handlers of `VM.cpp`, so that the order of the operands is
checked too, and the properties compare them with plain arithmetic.
`reciprocal_2by1`, a table and Newton steps for exactly 64 bits, is modelled by
its documented value. A division by zero is answered by the handlers and never
reaches `udivrem`.

Loops over machine words are recursive functions: `Upto` and `Downto` take the
loop's variables from one value of the index to the next, and powers of two are
`TwoTo`. What the proofs unfold is thus the same loop as the code's, with its
invariant.

## 3. Runs

| Run | Config | Question |
|---|---|---|
| `cow_safety` | `MCCowTree.cfg` | dangling pointers, consistent differences, no circle of calls that wait on one another, locked maps constant, refinement of `MapValues` |
| `cow_liveness` | `MCCowTreeLive.cfg` | calls return, unreferenced tries are reclaimed |
| `account_storage` | `MCAccountMap.cfg` | two accounts, storage contents: state trie, aliasing, failed batches, refinement |
| `account_copies` | `MCAccountMapResource.cfg` | one account whose fields change too, live maps rebuilt: every way to make a map gives a copy, deltas bring back a state |
| `chain_uneven` | `MCChainCore.cfg` | a short heavy branch against a long light one: numbers, fork choice, loadable blocks, disk, restarts, every import is answered |
| `chain_even` | `MCChainEven.cfg` | equal weights: the number index follows the peak |
| `words` | `MCWords.cfg` | multi-word arithmetic against plain arithmetic |
| `interpreter` | `MCInterpreter.cfg` | every opcode of every revision: stack, code, memory, gas, static mode |
| `merkle_trees` | `MCMerkleTree.cfg` | reference counts, hashes, proofs and differences of trees that share nodes, refinement of `TreeValues` |
| `evm_port` | `MCEvmPort.cfg` | value, balances and storage through nested frames and their caches |
| `account_deletion` | `MCAccountMapDeletion.cfg` | violation, section 5 |
| `tx_failed_call` | `MCTxFailed.cfg` | violation, section 5 |

### Bounds

*CowTree*: 2 threads, 3 maps, 3 tries, 2 states, 2 contents. Two threads
suffice for each pair of calls to meet in every step, three maps allow a clone
of a clone beside its source, two states are a shared one and a private copy,
two contents show a write where it should not. Addresses are reused, so a
pointer that outlives its state would meet another state there. Running out of
addresses disables an allocation, which fails in the code; no property but those
of the liveness run, where there are enough, speaks of a step that must come. The
same properties hold with three states (3.1 million states of the model, too
slow for a routine run). The liveness run has 2 maps, 3 tries, 2 states and one
content. `IInv`, the inductive invariant of the proofs, can be added to
`MCCowTree.cfg` (with `LocksInv`) and `MCChainCore.cfg` to see that it holds there.

*AccountMap*: 2 maps with 2 accounts, 4 tries, 2 storages; or 1 account with 2
values of its fields and 3 tries. Two maps are all an operation relates, and the
empty and one other storage make all forms distinct.

*ChainCore*: 6 blocks on two branches, 2 importers, `MaxPending = 1` for
the code's 24 (the wait happens from the second block on), one node restart and
one Writer crash. The uneven tree has a trunk block and
then `a1 a2 a3` of weight 2 each against `b1` of weight 5, so that a heavier
branch can be shorter and there is a fork above the genesis block to lose. The
restart can come at every step of a reorganisation; a second one would start
from a state of the kind `Init` followed by imports already reaches.

*Words*: digits of 3 bits, so a word has 12 bits and 4096 values; operands are
those whose digits are zero, the top bit or all ones, the small numbers (shift
amounts, byte indices, small divisors) and neighbours of 2^11 and 2^12. Carries
into and out of each digit, both corrections of `udivrem_3by2` and the
add-back occur. With so few bits the second correction inside `reciprocal_3by2`
never fires.

*Interpreter*: programs of up to 19 instructions. `StackLimit` is 18 for 1024,
since no opcode reaches deeper than 17, so every byte is tried from an empty
stack to a full one; `MaxInt63` and `WordLimit` are small enough for arguments
that are out of gas by size alone. `Sweep` has every byte at every height,
`Revisions` repeats the heights at which rows differ in five older and newer
revisions, `Charged` has what costs more than its row with zero, small and huge
arguments, in and out of static mode and at the deepest call, `CallsAndCopies`
returned data and memory that grows twice, `Jumps` all programs of five bytes over
eight bytes, which finds every way to jump into push data.

*MerkleTree*: 2 trees, 4 keys of 3 bits of which three part late, 2 values of
one key, `LEAF_SIZE = 2` for 16, so that a tree has up to three levels and
splits and collapses cascade. `MaxItem = 22`, so that there is room for a write in
every state: two trees of these keys have at most five nodes each, and a write asks
for 10 more. Nodes are counted once
however they are placed in the pool and with the stale hashes of dirty nodes
ignored (`VIEW View`): neither is read by any operation.

*EvmPort*: a transaction of up to 6 steps in up to 3 nested frames over 4
accounts, one of them without an account and two with code; 2 slots.
`PreloadBelow = 2` stands for 100, so that one contract is sent as a whole and the
other is asked for slot by slot, `ReadAhead = 1` for 10. Three frames are the
smallest number for a contract that is called by the contract it called.

`CHECK_DEADLOCK FALSE` is set everywhere because an instance may run out: all
handles used with nobody obliged to drop one, all blocks imported, a program or
a transaction at its end. That calls do not wait for each other is checked as
`NoCircularWait` (no set of threads is such that each waits for a mutex another
of them has) and by the liveness properties instead.

Symmetry is used for threads and tries, for handles, accounts and tries, and
for importers, and in no run with a liveness property.

### Fairness

*CowTree* assumes strong fairness of each thread's next step within a call and
of destructors: the mutexes of the VM (pthread mutexes under `enif_mutex`) do
not let a waiter starve for ever although threads that come later take the lock
in between, NIF calls are not preempted away, and the collector runs. No
fairness is assumed of callers.

*ChainCore* assumes weak fairness of the server's next step, the Writer's next
request and an importer's own steps (the VM's scheduler), and strong fairness of
an importer's `add_block` call, because the server's mailbox is served in
order while other calls may keep it busy in between. A restart of the node ends
the imports under way; those that begin after it are answered.

The other modules are of programs that run one at a time. That a frame of the
interpreter ends needs no property of its own: its gas falls with every
opcode (`GasFalls`).


## 4. Proofs

`CowTreeProofs` proves for any numbers of threads, maps and states, any finite
set of tries and any set of contents (the named assumptions in `CowTree`):

| Theorem | Says |
|---|---|
| `TypeCorrect` | `Spec => []TypeOK`; no call follows a NULL pointer |
| `Invariance` | `Spec => []IInv` |
| `CloneCountsExact` | `has_clone` is the number of tries on a state less one |
| `NoUseAfterFree` | no trie, difference or locked mutex refers to a deleted state |
| `DiffIsConsistent` | `difference_full` compares what the maps held while it had their locks |
| `FrozenIsImmutable` | a locked map keeps its value in every step |
| `LockOrder` | `Spec => []NoCircularWait`: no threads wait on one another |
| `Refinement` | `CowTree` implements `MapValues` |

`CloneCountExact` is not inductive alone. The argument is this.

- A destructor runs only for a trie without references, so one needs to know
  who holds references: `RefsExact` (a map's trie is referenced by it and is no
  other map's) and, for differences, `DiffHolds` (the thread holds a reference
  to both tries it kept).
- `PtrLive`: a trie not destructed points at a state that is allocated and not
  doomed. It is kept by `DestructLast` because `has_clone = 0` means a single
  user (`SoleUser`, from `CloneCountExact` and the finiteness of `Tree`).
- The same lemma makes a write in place invisible: nobody else has the
  state. Between `WriteDetach` and `WriteInsert` no lock is held; `CallsHold`
  says that the copy still has one user then, as only the owner of the handle
  could clone it, and the owner is in this call.
- `DiffHolds` says that the tries and contents a difference kept are still
  those of its maps: the maps are shared, so nobody writes to them, or known to
  this thread only.
- `MtxHolds`: a trie mutex that is held from one step to the next belongs to a
  thread in a difference and is the lower of the two it compares.
- `ClonesDistinct`: two clones under way do not return the same handle.

`IInv` is their conjunction. There is one lemma per action, named after it; a
step of a map is mapped to the action of `MapValues` of the same meaning and
everything else to a stutter.

`LockOrder` numbers all mutexes, the maps by address and then the states by
address, which is the order of `c_src/LOCK_ORDER.md`, and shows that every
holder waits for a later one (`HolderWaitsForLater`); a circle of
waiting threads would have no last mutex (`NoCircle`). This needs two more
invariants. `MapLockHolds` says which call a held map lock belongs to.
`DiffApart` says that a difference works on two maps and, from the moment it has
found their states different, on two states: it then takes two mutexes, with
and without the map locks, and would wait for itself if the states could become
one. They cannot because nobody else may write to its maps (`StatesKept`).

`AccountMapProofs` proves for any numbers of maps, accounts, tries, fields and
storage contents, where no live map is given to `uncompact_state`
(`ResourceUncompact` is false, section 5):

| Theorem | Says |
|---|---|
| `TypeCorrect` | `Spec => []TypeOK` |
| `Invariance` | `Spec => []IInv` |
| `TrieCommits` | `Spec => []TrieAgrees`: the state trie commits to exactly the accounts |
| `TriesAreOwned` | `Spec => []NoSharedTrie` |
| `TornNarrowly` | `Spec => StopsAtOneAccount` |
| `DeltaRoundTrip` | `Spec => []RoundTripWithoutDeletion` |
| `HandlesAreValues` | `Spec => ImplementsValues`: every handle is a value of its own |
| `NewMapsCopy` | `Spec => NewMapsAreCopies`: a map comes into use empty or as a copy |

The argument:

- `TrieAgrees` alone is not inductive: a write through one entry would change
  what another stands for if they had a trie in common. `TriesApart` forbids
  that for all handles, in use or not; `UnusedEmpty` says that the others
  hold nothing, so that a map that comes into use starts in step.
- An operation on one account is an `EntryStep`: the new entry has the trie the
  account had, a fresh one or none, and the tries of all other accounts keep
  their contents (`Suits`). `EntryInv` then gives the invariant and what
  became of the accounts. Reading (`MaterializeInv`) is the case where the
  leaf of the entry, and so the trie, does not change; it is allowed on
  frozen maps for that reason.
- Clones, maps read back and deltas change a whole row (`RowInv`). Their tries
  come from the map itself or from an injective choice of fresh ones
  (`DrawnApart`), and the contents of a clone are those of the original because
  the choice is injective (`CloneLeaves`).
- A delta that fails half way has updated the accounts before the failing one
  together with their leaves; writing to the failing one's trie disturbs none of
  them (`ApplyMismatchInv`).
- The delta of two states is followed account by account, through the three
  ways an account is not reported (`ReportTurns`).
- That the handles are values follows from what each step does to the accounts
  (`Effect`).

`ChainCoreProofs` proves for any finite tree of blocks in which a child has the
next number and more weight (`TreeAssumption`), any importers and any bounds on
pending blocks, restarts and Writer crashes:

| Theorem | Says |
|---|---|
| `TypeCorrect` | `Spec => []TypeOK`; the peak is a known block |
| `Invariance` | `Spec => []IInv` |
| `NumbersAreUnique` | at most one row holds a block number, at any moment |
| `KnownBlocksAlwaysLoad` | what `block_by_hash?` knows can be loaded, with its ancestors |
| `HeaviestAlwaysWins` | when nobody is importing no known block outweighs the peak |
| `DiskAlwaysFollows` | when the Writer has caught up the rows with a number are the peak's chain, Writer crashes left out |
| `RestartsKeepFork` | a restart in a reorganisation lands on the old branch or the new one, and not below the fork |
| `IndexAlwaysFollows` | between calls block numbers lead to the peak's chain and nowhere above it, where a heavier block is a higher one (`HeavierIsHigher`) |

The argument:

- `NumbersUnique` speaks of rows, but a number asked for and not yet written
  will become one. `NumbersFollow` therefore says of numbers given *and* queued
  that they are distinct and end at the peak. `AddExtend` asks for the next
  one. A reorganisation begins with an empty queue, and nothing is asked for
  until it ends, because `add_block` calls wait for the server: old requests
  never meet new numbers.
- `set_normative` goes down from the new peak. It stops because the genesis
  block keeps number 0 (`GenesisStays`), also in `NormClear`, whose victims
  have the number of a block other than the genesis block.
- `HeaviestWins` is about idle moments. `HeavierIsOffered` is its form for all
  others: what outweighs the branch the server is on, or going to, is in the
  hands of an importer that has yet to call `add_block`. Blocks become known
  only in `Store`, one such importer each.
- After a restart the rows that link up are parent-closed and have distinct
  numbers (`LinkedFacts`, `NumbersFollow`); of such rows the highest is the
  heaviest (`TopIsHeaviest`: take the highest one heavier than it, its child on
  the chain is heavier still).
- All a Writer can do to the rows is one formula, `Wrote`, whichever of its
  three forms it comes in: the message it sends itself, the write forced by a
  full table, and its crash.
- `DiskFollowsPeak` is about moments with an empty queue. `RowsFollow` is its
  form for all others: rows and requests together are the chain, a number is
  never written before its row is there (`QueueCarries`: an UPDATE that misses
  its row is silent), and on `set_normative`'s way down the rows meet the new
  branch at its cursor (`RowsMeet`). A Writer that crashes alone forgets
  requests, which is why those runs are left out (section 5).
- `RestartKeepsFork` speaks of `Ancestors`, a recursive function. That its
  recursion has a solution is proved by giving one: the least set that holds a
  block and the parents of its members (`Branch`). The chain that ends in a
  block is then unique and equals it, and `BranchesKept` follows the rows of
  both branches through `set_normative`, row by row.
- `IndexFollowsPeak`: `ets_refetch` stops where the index is right already. It
  is right below that place because the index was linked by parents
  (`LinkedUpTo`), and there is nothing above the new peak because that is never
  lower than the old one. This last is `HeavierIsHigher`, and it is needed:
  without it the index goes wrong (section 5, item 4).

`InterpreterSafety` proves, for any messages, codes, revisions, answers of
the host and limits:

| Theorem | Says |
|---|---|
| `StaticIsSafe` | `Spec => []StaticChangesNothing` |

`StaticChangesNothing` is about the call the last opcode made, so it needs no
strengthening, but a proof that each opcode keeps it: `Kept` says that the message
stays and that what a step asked of the host changes nothing if the frame is
static. Most opcodes ask for nothing (`TouchHarmless` and its kin); SSTORE, LOG,
SELFDESTRUCT and CREATE fail in a static frame before they reach the host; CALL
fails if it sends value and otherwise passes the ban on, whichever of the four
calls it is.

It also proves, for any code of bytes that fits a word with its
33 bytes of padding, any `int64` gas, any answers of the host, and any limits
(`LimitsAssumption`, `FrameAssumption`):

| Theorem | Says |
|---|---|
| `TypesKept` | `Spec => []TypeOK`; gas is never negative nor more than the frame was given |
| `Invariant` | `Spec => []IInv` |
| `StackIsChecked` | `Spec => []StackChecked`: no raw pointer of an opcode leaves the stack |
| `CodeIsChecked` | `Spec => []CodeChecked`: only instructions are executed, never push data; reads stay in the padded code |
| `MemoryIsPaid` | `Spec => []MemoryPaid`: an opcode touches memory it has grown and paid for |
| `GasAlwaysFalls` | `Spec => GasFalls`: each opcode costs something, so a frame ends |
| `CallerAlwaysKeeps64th` | `Spec => CallerKeeps64th`, from Tangerine Whistle on |

The argument:

- `StackChecked` and the others are about what the last opcode touched; the
  check before it reads a table that is kept in another file. The first section
  of the module reads the rows: for every group of opcodes, what it pops and
  pushes and the least it costs in every revision. Each opcode then has a lemma `...Good`:
  it keeps `IInv`, its gas falls, and a call leaves a 64th.
- `IInv` says in addition where things fit: `PcFits` (the program counter is
  at an instruction, or in the padding), `StackFits`, `GasFits`, `MemoryFits`
  (memory is whole words, and its price and the gas left are together no more
  than the frame was given: a frame cannot have memory it has not paid for),
  `DestsFit` (jump destinations are instructions) and `LastFits`.
- Instructions are what the code's own walk reaches: `Starts` is the least set
  with 0 and, with each position, the one after its push data. The scan at
  entry finds destinations among them (`ScannedStarts`), so a jump leads to one;
  the step from one instruction to the next stays among them by definition.
- Memory is charged by the difference of two quadratic prices. `MemoryGrows`
  shows that what an opcode pays makes up for its growth: more memory is never
  cheaper (`GasForMemGrows`), and a size beyond `int64` has a price no gas
  suffices for (`Never`), so no accepted size exceeds it.
- A call is the one place where gas comes back: the stipend, 2300, is less
  than the 9000 that a call with value has paid (`CallCosts`), so it falls even if
  the callee returns all it was given. `CallerKeeps` is the arithmetic of `g - g/64`.

`EvmPortProofs` proves for any finite set of accounts with natural balances, any
slots, values, read-ahead, preload limit and depth, and code that does anything
(`PortAssumption`):

| Theorem | Says |
|---|---|
| `Invariance` | `Spec => []IInv` |
| `ValueAlwaysKept` | `Spec => []ValueKept`: no value is made or lost, whatever fails or destroys itself |
| `LatestWriteAlwaysCounts` | `Spec => []LatestWriteCounts`: until a frame fails no write of any Host is lost or overtaken |
| `NeverOverdrawn` | `Spec => []NoOverdraft`, unless the block has `double_spend_delegatecall` |

The argument:

- A sum over all accounts takes them in the order of `CHOOSE`; the proofs
  need that one summand can be exchanged (`SumUpdate`). That such sums exist
  at all is by induction over the size of the set (`SumsExist`). A transfer then
  exchanges two summands, and so does each burial.
- `MapAgrees`: the map is behind the last writes only at the account of
  the frame that runs, and what its Host has still to send makes up for
  exactly that (`HostAgrees`). `Flush` moves it into the map before a nested call and
  at the end, and a Host that starts or resumes forgets all it has and is given
  the account as it is then (`Preload`).
- `Buried` has a solution because lists are finite (`Induction!Recursion`);
  it keeps sums and storages by induction along the list.
- `Afloat`: what the machine has asked for is still there, since between the
  question and the subtraction nothing else runs; and a transaction whose
  check passed could pay value and fee together.

`WordsProofs` proves, for a machine word of more than one
bit that is made of whole bytes (`WidthAssumption`), and for any words on the
first stack (`OperandAssumption`):

| Theorem | Says |
|---|---|
| `CarriesAreRight` | `Spec => []CarriesRight`: sums, differences, comparisons, shifts, BYTE and SIGNEXTEND are those of naturals modulo 2^256 |
| `ProductsAreRight` | `Spec => []ProductsRight`: so are products, in each of the three ways the code builds them, and powers by squaring |

The argument:

- The code works on halves, and on halves of halves. What a level does is
  stated once for numbers, with H the size of a half (`SumOfHalves` and
  its kin), and cited with H = 2^B for `uint128` and H = 2^(2B) for `uint256`.
- A loop over machine words has an invariant about the number its digits make
  so far; `UptoKeeps` and `DowntoKeeps` turn "the body keeps it" into "the loop
  establishes it". For a product it is that a row adds one digit of one factor
  times the other factor (`Row`), and that a product by rows drops exactly what
  lies beyond the width.
- The power by squaring is compared with the sequence of powers of its base
  modulo 2^256: each bit of the exponent doubles the place in the sequence.
- The opcodes: an operation asks for the two words on top of the stack, so it
  is enough that the first stack holds words and that every later state
  remembers the arguments its result was computed from (`CarriesInv`,
  `ProductsInv`).

`MerkleTreeProofs` proves for any finite sets of trees and keys, any values, any
number of bits of a hash, any `LEAF_SIZE` and any number of places in the pool,
where different keys have different hashes and Null is neither a node, a value
nor a set of pairs (`TreeAssumption`):

| Theorem | Says |
|---|---|
| `TreesStayRight` | `Spec => []IInv` |
| `EdgesAlwaysCounted` | `Spec => []EdgesCounted`: a node has as many references as roots and parents lead to it and is there while it has one; no `pair_t` is lost or given back twice |
| `CleanHashesAreRight` | `Spec => []CleanHashesRight`: what a clean node says of itself depends on the pairs below it and on nothing else |
| `ReadsAlwaysAgree` | `Spec => []ReadsAgree`: proofs fold up to the root hash, lookups and differences agree with the pairs |
| `TreesAreValues` | `Spec => ImplementsTreeValues`: trees that share nodes are values of their own |

The argument:

- `IInv` says that some function F gives every node of the pool, whoever shares it, the
  pairs below it (`TreesRight`). F is not computed from the pool: it is handed from one
  step to the next, and a step says at which nodes it changes. A node that two
  trees reach has one F, which is why they cannot see each other's writes as long
  as a write changes F only at nodes that are its own.
- `Core`: every node has the references that `Edges` and the roots (`Refs`) give
  it, nothing but a new node is there without one, a child's prefix is its
  parent's and one bit more, `pairs` is the sum of all buckets. In
  the middle of a call the roots stand for the nodes the call has in hand too, and
  `new` for those it has not linked yet. An operation on the pool changes one node at
  a time, so it is enough to see that its own edges and pairs balance (`CoreByOne`).
- `Holds`: F of a leaf is its bucket, and F of an inner node falls apart by the next
  bit into F of its children (`NodeHolds`). So the enumeration, which goes
  everywhere, and the lookup, which follows the bits, find the same pairs
  (`EachRight`, `LookupRight`).
- `Settled`: a leaf holds few pairs, a clean node's hashes and count are those
  its pairs make, and a clean inner node holds too many for a leaf and has clean children.
  The last two are what `CleanHashesRight` and `ReadsAgree` need and do not say:
  without them a node that was not collapsed would hash as no leaf does, and a proof
  could take up the old hash of a dirty sibling. The hashes of a prefix depend
  only on pairs that agree with it (`HashesLocal`), hence on F of the node.
- A write forks from the root down. A node with one reference, whose parent
  has one, and so on to a root that one tree has, is nobody else's
  (`TrailSealed`); a forked node starts with one reference and passes one
  to each child, so the next node down has two and is forked in turn. All
  nodes of the path are the writer's own when the leaf is written, and marked
  dirty on the way back (`InsertPathRight`).
- A split takes two places and leaves two parts of which at most one is still
  too large (`SplitStep`); as different keys have different hashes, it ends within the
  bits of a hash (`OneKey`).
- Hashing changes shared nodes and must not change F. A collapse takes the
  pairs from below and drops both children (`CollapseRight`), which frees nodes
  that only this node had and no others: every node that goes has a longer prefix,
  so none is on the path that is still to be hashed (`HashStep`).
- A proof goes down through clean nodes: at each one the hash of the side it
  comes from is made of the sibling's hash and the next one (`CleanInner`,
  `CollectStep`), so that folding them in reverse order (`FoldedRight`) comes back
  to the root's hash of the column of the key.

`Induction` is what these proofs need of recursion. The library states
induction with an operator for the induction hypothesis, which the provers
here cannot instantiate; `Induction` states it with a set, from the
well-foundedness of `<` (`LeastNatural`, `AllNaturals`), and proves that a
function defined by recursion over numbers exists.

### Only model-checked

- Liveness (`CallsReturn`, `UnreferencedReclaimed`, `ImportReturns`): no prover
  here handles `ENABLED`, and so fairness. `LockOrder` proves the part of
  `CallsReturn` that is about mutexes.
- Division (`DivisionsRight`): Knuth's algorithm needs the bound on how far an
  estimated digit can be off, and the reciprocal of a machine word its error,
  both of them nonlinear in three numbers at once.
- What the rebuilding of live maps adds to `AccountMap` (`ResourceUncompact`),
  a Writer crash in `DiskFollowsPeak`, and the index without `HeavierIsHigher`:
  the statements are false there (section 5).
- The properties of the two runs that find a violation.

## 5. Disagreements between the code and its documentation

Two runs check what a comment or a test says and find a behaviour of the code
that breaks it. Each config checks one property and TLC prints the behaviour.

1. **Deltas cannot delete** (`account_deletion`, `RoundTrip`). A difference
   reports a deleted account as its fields going to zero and
   `apply_difference` then keeps an all-zero entry, which the state root
   commits to. `test/chain_state_merkle_test.exs` says the two must
   round-trip. Without deletion they do (`RoundTripWithoutDeletion`).
2. **A failed transaction leaves more than its fee** (`tx_failed_call`,
   `FailureChangesOnlySender`). `Transaction.apply` goes on with `state` where the
   call failed and with `new_state` where it succeeded, but both are the
   same account map, changed in place: the receiver keeps the value the sender
   is given back, and slots that the failed code wrote stay written.

More of this kind can be seen by changing a config:

3. **Rebuilding from a live map aliases its storage.**
   `account_map_uncompact_state` accepts a live map and takes over its storage
   pointers; writing to the result writes to the source, locked or not.
   Documents and tests promise immutability of locked maps. Add
   `PROPERTY FrozenNeverChanges` to `MCAccountMapResource.cfg`. The Elixir code
   normally passes the stored form, which is copied; hence
   `ResourceUncompact = FALSE` in `account_storage`.
4. **Stale numbers after a shorter branch.** Numbers above a shorter, heavier
   peak stay in the ETS index; when the longer branch returns, `ets_refetch`
   takes the first of them for the end of its work and leaves lower numbers on
   the abandoned branch. Add `INVARIANT BranchIsNormative` to `MCChainCore.cfg`.
   `IndexFollowsPeak` is therefore checked on branches of equal weight.
5. **A Writer crash forgets numbers.** The Writer's successor finds pending
   blocks in the ETS table, not the numbers it was asked to write; the next start
   cuts the chain at the first missing one. Add
   `INVARIANT WriterCrashLosesNothing` to `MCChainCore.cfg`. `DiskFollowsPeak`
   leaves Writer crashes out.
6. **Read-ahead overwrites unsent writes.** A Host that lacks a slot of an account
   too large to be sent as a whole is given the next slots as well
   (`EVM_STORAGE_READ_AHEAD`, 10 by default) and stores them over values it has
   written and not yet sent (`host.cpp:82`); the code then reads the old value.
   `LatestWriteCounts` claims the reads of complete Hosts only: without
   `TopHost.complete` in it, `evm_port` fails with `ReadAhead = 1` and passes with 0.

Met while reading, in code the models leave out: the message for a nested call
carries neither the static flag nor the depth (`host.cpp:240`); logs of nested
frames are dropped, and LOG0 counts from 1 down to 0 (`evm.ex:736`);
EXTCODECOPY from beyond the end of the code has a negative length
(`evm.ex:634`).

## 6. Not modelled

- *Merkle tree*: SHA-256 and the byte layout of hashed terms (a hash is its
  term), the preallocator's memory blocks, two threads that hash nodes
  shared by tries of different states at once, the `Item::m_tree` pointer of a
  node that outlives the tree it was made for. `CowTree` and `AccountMap` look at a
  root hash as what it commits to.
- *Chain*: the prefetch cache files (`select_hashes`), stored states and
  their bases (`prepare_state`), `maybe_repair_block`, `set_peak` (no caller),
  the block and state caches, importers that die alone, failing SQL inserts.
- *EVM port*: nonces; gas other than the limit and what was used; precompiles;
  logs; queries of code, balance and block hashes; a port that exits or times
  out. A transaction to its own sender is excluded: its two copies of the
  account overwrite each other (`transaction.ex:234`), which no run here
  needs TLC to see. The probe sequence of the Host's hash map is left out.
- *Interpreter*: contents of memory, of return data and of the input; the
  tracing hooks; the first pass of the optimiser, SIMD and subroutine
  opcodes, none of which is compiled in.
- *Words*: conversions to and from text and bytes and what no opcode calls.
- Validity of blocks; the miner; synchronisation; Kademlia; remote chains;
  LRU caches; see the plan.
- Edge protocol, RPC, shell, objects, tickets, encodings: mostly decoding and
  formatting; their part in the shared state is to read locked maps.
- `sha256_std.c` and `evmc.h` beyond the messages: a vendored algorithm and an
  interface of declarations.
- Liveness of destructors is relative to a collector that runs.

## 7. Plan

Done: `CowTree`, `AccountMap`, `ChainCore`, `MerkleTree`, `Words`, `Interpreter`,
`EvmPort`, and the proofs of section 4. What would come next, in order of
importance; each with its runs and the property worth proving.

1. Proofs: division in `Words`, from the bound on an estimated digit.
2. `EtsLru`: concurrent `put`, `fetch` and eviction; promise: bounded size, a
   key's value is one somebody put. The abstract specification is a lossy map.
3. `BlockQuick`: the window of miners, its cache, finality and difficulty; the
   incremental window against its definition; no final block is ever replaced
   (composed with `ChainCore`).
4. `RpcCache` and `NonceProvider`: coalesced requests, late answers, retries,
   nonce resets; a caller is answered exactly once, a nonce given out once.
5. `PeerSync`: two peers, a sync job, its persisted table, restarts; blocks
   are handed to the chain parents first and the job ends.
6. `Worker` with `Pool`: candidates against a moving peak; no transaction is
   included twice, none is lost in a reorganisation.
7. `ChainCore` with stored states: the base of a delta, jump blocks, repair.
8. Kademlia: buckets and the bounded parallel search.
