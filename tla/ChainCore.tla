----------------------------- MODULE ChainCore -----------------------------
(***************************************************************************)
(* How a node keeps its chain: the Chain server (lib/chain.ex), the table  *)
(* of blocks in blockchain.sq3 and the Writer that fills it behind the     *)
(* server's back (lib/model/chainsql.ex), the public ETS table with the    *)
(* known hashes and the block number index, the processes that import      *)
(* blocks, and what a restart makes of the rows it finds.                  *)
(*                                                                         *)
(* Every block offered here is valid; what makes one valid is the subject  *)
(* of Block.validate.  Memory is lost in a crash, committed rows are not.  *)
(***************************************************************************)
EXTENDS Integers, Sequences, FiniteSets, SequencesExt

CONSTANTS
    Block,              \* every block that exists, on any branch
    Genesis,
    Parent,             \* the parent of each other block
    Number,             \* Block.number
    Total,              \* Block.total_difficulty
    NoBlock,
    Importer,           \* processes that import blocks: peers, the miner
    MaxPending,         \* the Writer's table when an importer has to wait
    MaxRestarts,        \* bound on node restarts
    MaxWriterCrashes    \* bound on crashes of the Writer alone, per start

\* validate/2 demands number(parent) + 1, difficulty/1 at least a minimum.
ASSUME TreeAssumption ==
    /\ IsFiniteSet(Block)
    /\ Genesis \in Block /\ NoBlock \notin Block
    /\ Number \in [Block -> Nat] /\ Number[Genesis] = 0
    /\ Total \in [Block -> Nat]
    /\ Parent \in [Block \ {Genesis} -> Block]
    /\ \A b \in Block \ {Genesis} :
          /\ Number[b] = Number[Parent[b]] + 1
          /\ Total[b] > Total[Parent[b]]

ASSUME BoundsAssumption ==
    MaxPending \in Nat /\ MaxRestarts \in Nat /\ MaxWriterCrashes \in Nat

Numbers == {Number[b] : b \in Block}

VARIABLES
    stored,         \* disk: the rows of table blocks
    numbered,       \* disk: those whose number is not NULL
    pending,        \* ETS table of the Writer: blocks not yet inserted
    queue,          \* what the Writer was asked to do, in order
    known,          \* ETS table of Chain: the hashes in it
    at,             \* ETS table of Chain: the hash a number maps to
    peak,           \* peak_hash in the state of the Chain server
    job,            \* the put_peak and ets_refetch the server is in
    pc,             \* where each importer is
    blk,            \* the block it imports
    restarts,       \* node restarts so far
    writerCrashes   \* Writer crashes since the last start

disk == <<stored, numbered>>
writer == <<pending, queue>>
memory == <<known, at, peak>>
importers == <<pc, blk>>
bounds == <<restarts, writerCrashes>>
vars == <<stored, numbered, pending, queue, known, at, peak, job, pc, blk,
          restarts, writerCrashes>>

\* What the Writer is asked: insert a block, or give a row its number.
Insert(b) == <<"hash", b>>
Numbering(b) == <<"num", b>>
Request == {"hash", "num"} \X Block

Idle == [step |-> "idle", target |-> Genesis, cursor |-> Genesis]
Job == [step : {"idle", "wait", "norm", "index"}, target : Block, cursor : Block]

TypeOK ==
    /\ stored \in SUBSET Block
    /\ numbered \in SUBSET stored
    /\ pending \in SUBSET Block
    /\ queue \in Seq(Request)
    /\ known \in SUBSET Block
    /\ at \in [Numbers -> Block \cup {NoBlock}]
    /\ peak \in known
    /\ job \in Job
    /\ pc \in [Importer -> {"idle", "store", "add", "wait"}]
    /\ blk \in [Importer -> Block \cup {NoBlock}]
    /\ restarts \in 0 .. MaxRestarts
    /\ writerCrashes \in 0 .. MaxWriterCrashes

\* The index after the blocks of S, no two of one number, were added.
IndexOf(S) == [n \in Numbers |->
    IF \E b \in S : Number[b] = n THEN CHOOSE b \in S : Number[b] = n
    ELSE NoBlock]

\* A database seeded with the genesis state (Chain.seed).
Init ==
    /\ stored = {Genesis} /\ numbered = {Genesis}
    /\ pending = {} /\ queue = <<>>
    /\ known = {Genesis}
    /\ at = IndexOf({Genesis})
    /\ peak = Genesis
    /\ job = Idle
    /\ pc = [i \in Importer |-> "idle"]
    /\ blk = [i \in Importer |-> NoBlock]
    /\ restarts = 0 /\ writerCrashes = 0

-----------------------------------------------------------------------------
(* The Writer works off its queue (Writer.do_write): q is the queue, p the  *)
(* pending blocks when it takes the first request.                          *)

\* INSERT OR FAIL with number NULL, and the block is pending no more; a
\* block another request has inserted already is skipped.
WriteBlock(q, p) ==
    /\ q # <<>>
    /\ \E b \in Block :
          /\ Head(q) = Insert(b)
          /\ stored' = IF b \in p THEN stored \cup {b} ELSE stored
          /\ pending' = p \ {b}
    /\ queue' = Tail(q)
    /\ UNCHANGED numbered

\* UPDATE blocks SET number = .. WHERE hash = ..
WriteNumber(q, p) ==
    /\ q # <<>>
    /\ \E b \in Block :
          /\ Head(q) = Numbering(b)
          /\ numbered' = numbered \cup ({b} \cap stored)
    /\ pending' = p
    /\ queue' = Tail(q)
    /\ UNCHANGED stored

WriteFirst(q, p) == WriteBlock(q, p) \/ WriteNumber(q, p)

\* The message :write the Writer sends itself.
Write ==
    /\ WriteFirst(queue, pending)
    /\ UNCHANGED <<memory, job, importers, bounds>>

\* What a crash may leave of the write it interrupts: the row is committed
\* before the block leaves the Writer's table.
Interrupted ==
    {b \in pending : queue # <<>> /\ Head(queue) = Insert(b)}

\* The Writer dies and its supervisor starts another, which finds the pending
\* blocks in the ETS table; the rest of the queue dies with the process.  If
\* the Chain server has a call in it (wait_for_done, once nothing is pending)
\* the server dies too and halts the node: that is Restart.
WriterCrash ==
    /\ writerCrashes < MaxWriterCrashes
    /\ job.step = "wait" => pending # {}
    /\ writerCrashes' = writerCrashes + 1
    /\ stored' \in {stored, stored \cup Interrupted}
    /\ \E q \in SetToSeqs(pending) :
          queue' = [n \in DOMAIN q |-> Insert(q[n])]
    /\ UNCHANGED <<numbered, pending, memory, job, importers, restarts>>

-----------------------------------------------------------------------------
(* Importing a block: Chain.do_import_blocks_reduce, Block.validate.        *)

\* block_by_hash? does not know the block; validate finds its parent.
Validate(i, b) ==
    /\ pc[i] = "idle"
    /\ b \notin known
    /\ b # Genesis /\ Parent[b] \in known
    /\ pc' = [pc EXCEPT ![i] = "store"]
    /\ blk' = [blk EXCEPT ![i] = b]
    /\ UNCHANGED <<disk, writer, memory, job, bounds>>

\* Writer.submit_new_block: the block joins the table and the queue; while
\* the table is too full, the Writer must write its first request as well.
SubmitNewBlock(b) ==
    LET p == pending \cup {b}
        q == Append(queue, Insert(b)) IN
    IF Cardinality(p) > MaxPending
      THEN WriteFirst(q, p)
      ELSE pending' = p /\ queue' = q /\ UNCHANGED disk

\* The end of validate: put_new_block, ets_add_alt, cache_block.  Another
\* importer may have got there first.
Store(i) ==
    /\ pc[i] = "store"
    /\ SubmitNewBlock(blk[i])
    /\ known' = known \cup {blk[i]}
    /\ pc' = [pc EXCEPT ![i] = "add"]
    /\ UNCHANGED <<at, peak, job, blk, bounds>>

\* The importer is answered and goes on to the next block.
Answered(i) ==
    /\ pc' = [pc EXCEPT ![i] = "idle"]
    /\ blk' = [blk EXCEPT ![i] = NoBlock]

\* handle_call {:add_block, ..} runs only between the server's other calls.
Offered(i) == pc[i] = "add" /\ job.step = "idle"

\* Variant for the runs: the weight is not compared.
AddAltAlways(i) ==
    /\ Offered(i)
    /\ Parent[blk[i]] # peak
    /\ Answered(i)
    /\ UNCHANGED <<disk, writer, memory, job, bounds>>

\* "Extended alt": neither on top of the peak nor heavier than it.
AddAlt(i) ==
    /\ Offered(i)
    /\ Parent[blk[i]] # peak
    /\ Total[blk[i]] <= Total[peak]
    /\ Answered(i)
    /\ UNCHANGED <<disk, writer, memory, job, bounds>>

\* "Extending main": the number is written later, by the Writer.
AddExtend(i) ==
    LET b == blk[i] IN
    /\ Offered(i)
    /\ Parent[b] = peak
    /\ queue' = Append(queue, Numbering(b))
    /\ at' = [at EXCEPT ![Number[b]] = b]
    /\ peak' = b
    /\ Answered(i)
    /\ UNCHANGED <<disk, pending, known, job, bounds>>

\* "Replacing main": put_peak starts, the importer waits for its end.
AddReplace(i) ==
    LET b == blk[i] IN
    /\ Offered(i)
    /\ Parent[b] # peak
    /\ Total[b] > Total[peak]
    /\ job' = [step |-> "wait", target |-> b, cursor |-> b]
    /\ pc' = [pc EXCEPT ![i] = "wait"]
    /\ UNCHANGED <<disk, writer, memory, blk, bounds>>

-----------------------------------------------------------------------------
(* The reorganisation: ChainSql.put_peak, then ets_refetch.                 *)

\* Variants: no number is set to NULL; all of them are.
PutPeakClearNone ==
    /\ job.step = "wait"
    /\ queue = <<>>
    /\ job' = [job EXCEPT !.step = "norm"]
    /\ UNCHANGED <<disk, writer, memory, importers, bounds>>

PutPeakClearAll ==
    /\ job.step = "wait"
    /\ queue = <<>>
    /\ numbered' = {Genesis}
    /\ job' = [job EXCEPT !.step = "norm"]
    /\ UNCHANGED <<stored, writer, memory, importers, bounds>>

\* Writer.wait_for_done, then UPDATE .. SET number = NULL WHERE number > ..
PutPeakClear ==
    /\ job.step = "wait"
    /\ queue = <<>>
    /\ numbered' = {b \in numbered : Number[b] <= Number[job.target]}
    /\ job' = [job EXCEPT !.step = "norm"]
    /\ UNCHANGED <<stored, writer, memory, importers, bounds>>

\* The rows that hold the number of the block set_normative is at.
Holders == {b \in numbered : Number[b] = Number[job.cursor]}

\* set_normative, once wait_for_flush has found the block inserted
Normalising == job.step = "norm" /\ job.cursor \notin pending

\* Another row holds the number: its number becomes NULL.
NormClear ==
    /\ Normalising
    /\ Holders \notin {{}, {job.cursor}}
    /\ numbered' = numbered \ Holders
    /\ UNCHANGED <<stored, writer, memory, job, importers, bounds>>

\* Variant: the row that holds the number keeps it.
NormNumberTaken ==
    /\ Normalising
    /\ Holders # {job.cursor}
    /\ numbered' = numbered \cup ({job.cursor} \cap stored)
    /\ job' = [job EXCEPT !.cursor = Parent[@]]
    /\ UNCHANGED <<stored, writer, memory, importers, bounds>>

\* No row holds it: this block's does now, and the parent is next.
NormNumber ==
    /\ Normalising
    /\ Holders = {}
    /\ numbered' = numbered \cup ({job.cursor} \cap stored)
    /\ job' = [job EXCEPT !.cursor = Parent[@]]
    /\ UNCHANGED <<stored, writer, memory, importers, bounds>>

\* This block holds it: the branch has met the chain.
NormDone ==
    /\ Normalising
    /\ Holders = {job.cursor}
    /\ job' = [job EXCEPT !.step = "index", !.cursor = job.target]
    /\ UNCHANGED <<disk, writer, memory, importers, bounds>>

\* ets_refetch, down to the first number that maps to the branch already
RefetchStep ==
    LET c == job.cursor IN
    /\ job.step = "index"
    /\ at[Number[c]] # c
    /\ at' = [at EXCEPT ![Number[c]] = c]
    /\ known' = known \cup {c}
    /\ job' = [job EXCEPT !.cursor = Parent[c]]
    /\ UNCHANGED <<disk, writer, peak, importers, bounds>>

\* Variants: only the first number is refetched; the importer is not answered.
RefetchOne ==
    /\ job.step = "index"
    /\ at[Number[job.target]] = job.target
    /\ peak' = job.target
    /\ job' = Idle
    /\ \E i \in Importer : pc[i] = "wait" /\ Answered(i)
    /\ UNCHANGED <<disk, writer, known, at, bounds>>

RefetchSilent ==
    /\ job.step = "index"
    /\ at[Number[job.cursor]] = job.cursor
    /\ peak' = job.target
    /\ job' = Idle
    /\ UNCHANGED <<disk, writer, known, at, importers, bounds>>

RefetchDone ==
    /\ job.step = "index"
    /\ at[Number[job.cursor]] = job.cursor
    /\ peak' = job.target
    /\ job' = Idle
    /\ \E i \in Importer : pc[i] = "wait" /\ Answered(i)
    /\ UNCHANGED <<disk, writer, known, at, bounds>>

-----------------------------------------------------------------------------
(* Restarting.                                                              *)

\* ets_prefetch reads the rows by number and stops at the first one whose
\* parent is not the row before it.
Linked(rows) ==
    {b \in rows : \A c \in rows \ {Genesis} :
        Number[c] <= Number[b] => Parent[c] \in rows}

Top(S) == CHOOSE b \in S : \A c \in S : Number[c] <= Number[b]

\* Variants: the known hashes, or the peak, outlive the restart.
StartOnKnown(good) ==
    /\ restarts < MaxRestarts
    /\ restarts' = restarts + 1
    /\ writerCrashes' = 0
    /\ numbered' = good
    /\ pending' = {} /\ queue' = <<>>
    /\ known' = known
    /\ at' = IndexOf(good)
    /\ peak' = Top(good)
    /\ job' = Idle
    /\ pc' = [i \in Importer |-> "idle"]
    /\ blk' = [i \in Importer |-> NoBlock]

StartOnPeak(good) ==
    /\ restarts < MaxRestarts
    /\ restarts' = restarts + 1
    /\ writerCrashes' = 0
    /\ numbered' = good
    /\ pending' = {} /\ queue' = <<>>
    /\ known' = good
    /\ at' = IndexOf(good)
    /\ peak' = peak
    /\ job' = Idle
    /\ pc' = [i \in Importer |-> "idle"]
    /\ blk' = [i \in Importer |-> NoBlock]

\* The node starts on the rows of good; everything in memory is lost.
StartOn(good) ==
    /\ restarts < MaxRestarts
    /\ restarts' = restarts + 1
    /\ writerCrashes' = 0
    /\ numbered' = good
    /\ pending' = {} /\ queue' = <<>>
    /\ known' = good
    /\ at' = IndexOf(good)
    /\ peak' = Top(good)
    /\ job' = Idle
    /\ pc' = [i \in Importer |-> "idle"]
    /\ blk' = [i \in Importer |-> NoBlock]

\* A crash at any moment, and load_blocks: put_peak drops the numbers above
\* the last row ets_prefetch could link.
Restart ==
    /\ StartOn(Linked(numbered))
    /\ UNCHANGED stored

\* The same when the state of the peak is corrupt: rewind to block n, whose
\* state is sound, and delete the rows without a number.
RestartRewind(n) ==
    LET good == {b \in Linked(numbered) : Number[b] <= n} IN
    /\ 1 <= n /\ n < Number[Top(Linked(numbered))]
    /\ StartOn(good)
    /\ stored' = good

-----------------------------------------------------------------------------
Import(i) ==
    \/ \E b \in Block : Validate(i, b)
    \/ Store(i)
    \/ AddAlt(i) \/ AddExtend(i) \/ AddReplace(i)

PutPeak ==
    \/ PutPeakClear
    \/ NormClear \/ NormNumber \/ NormDone
    \/ RefetchStep \/ RefetchDone

Next ==
    \/ \E i \in Importer : Import(i)
    \/ PutPeak
    \/ Write
    \/ WriterCrash
    \/ Restart
    \/ \E n \in Numbers : RestartRewind(n)

Spec == Init /\ [][Next]_vars

\* Processes are scheduled: the server and the Writer go on while they can,
\* and an importer's call is taken up in its turn.
Fairness ==
    /\ WF_vars(PutPeak)
    /\ WF_vars(Write)
    /\ \A i \in Importer :
          /\ WF_vars(Store(i))
          /\ SF_vars(AddAlt(i) \/ AddExtend(i) \/ AddReplace(i))

FairSpec == Spec /\ Fairness

-----------------------------------------------------------------------------
(* Properties.                                                              *)

\* At any moment, also in the middle of a reorganisation and after a restart
\* from there, at most one row holds a block number (blocks.number is what
\* every query of the main chain selects by).
NumbersUnique ==
    \A b, c \in numbered : Number[b] = Number[c] => b = c

\* A block known in the ETS table can be loaded, from its row or from the
\* Writer's table, and so can its ancestors: with_block and validate go by
\* block_by_hash? alone.
KnownBlocksLoad ==
    \A b \in known :
        /\ b \in stored \cup pending
        /\ b # Genesis => Parent[b] \in known

\* Fork choice: when nobody is importing, no known block is heavier than the
\* peak, whatever order the importers came in.
HeaviestWins ==
    (job.step = "idle" /\ \A i \in Importer : pc[i] # "add")
        => \A b \in known : Total[b] <= Total[peak]

\* S is a chain from the genesis block to b.
ChainTo(S, b) ==
    /\ b \in S
    /\ \A c \in S : Number[c] <= Number[b]
    /\ \A c \in S \ {Genesis} : Parent[c] \in S
    /\ \A c, d \in S : Number[c] = Number[d] => c = d

\* Once the Writer has caught up and has not crashed, the numbered rows are
\* the chain that ends in the peak of the Chain server.
DiskFollowsPeak ==
    (job.step = "idle" /\ queue = <<>> /\ writerCrashes = 0)
        => ChainTo(numbered, peak)

\* The same, with Writer crashes: "ensuring after a writer crash that all
\* pending blocks are still written" (the comment in Writer.init).
WriterCrashLosesNothing ==
    (job.step = "idle" /\ queue = <<>>) => ChainTo(numbered, peak)

\* Between two calls of the server, block numbers map to the chain that ends
\* in the peak and to nothing above it: Chain.blockhash, which the EVM's
\* BLOCKHASH and every lookup by number use.
IndexFollowsPeak ==
    job.step = "idle" =>
        \A n \in Numbers :
            IF n > Number[peak] THEN at[n] = NoBlock
            ELSE /\ n = Number[peak] => at[n] = peak
                 /\ n > 0 => at[n] # NoBlock /\ at[n - 1] = Parent[at[n]]

\* The part of it the comments on put_peak and ets_refetch promise:
\* "Recursively makes a new branch normative".
BranchIsNormative ==
    job.step = "idle" =>
        \A n \in Numbers : (0 < n /\ n <= Number[peak]) =>
            at[n] # NoBlock /\ at[n - 1] = Parent[at[n]]

\* The blocks from the genesis block to b.
Ancestors[b \in Block] ==
    IF b = Genesis THEN {b} ELSE {b} \cup Ancestors[Parent[b]]

\* The branch the server is on, and the one it is going to.
Target == IF job.step = "idle" THEN peak ELSE job.target

\* A crash in the middle of a reorganisation neither invents a branch nor
\* loses the chain below the fork: the peak after the restart lies on the old
\* branch or on the new one and, once the reorganisation has begun to write
\* (put_peak updates row by row, with no transaction around it), not below
\* what both have in common.
RestartKeepsFork ==
    [][(restarts' # restarts /\ stored' = stored) =>
          /\ peak' \in Ancestors[peak] \cup Ancestors[Target]
          /\ (job.step \in {"norm", "index"} /\ writerCrashes = 0) =>
                Ancestors[peak] \cap Ancestors[Target] \subseteq Ancestors[peak']]_vars

\* Every importer gets its answer, however many blocks the Writer still has
\* to write and however often it crashes.
ImportReturns ==
    \A i \in Importer : pc[i] \in {"add", "wait"} ~> pc[i] = "idle"

-----------------------------------------------------------------------------
(* The inductive invariant.                                                 *)

\* The blocks that will have a number once the Writer has read the queue q.
Queued(q) == {b \in Block : \E n \in DOMAIN q : q[n] = Numbering(b)}

\* Old requests of the Writer never meet a reorganisation: numbers given and
\* requested are distinct and end at the peak; put_peak starts on an empty
\* queue and nobody asks for a number until it is done.
NumbersFollow ==
    /\ \A b, c \in numbered \cup Queued(queue) : Number[b] = Number[c] => b = c
    /\ job.step \in {"idle", "wait"} =>
          \A b \in numbered \cup Queued(queue) : Number[b] <= Number[peak]
    /\ job.step \in {"norm", "index"} =>
          /\ Queued(queue) = {}
          /\ \A b \in numbered : Number[b] <= Number[job.target]

\* The genesis block is on every branch and never loses its number.
GenesisStays == Genesis \in numbered /\ at[0] = Genesis

\* What importers and the server work on is known, up to the parent of a
\* block that is still being validated.
WorkIsKnown ==
    /\ \A i \in Importer : pc[i] # "idle" =>
          /\ blk[i] \in Block \ {Genesis}
          /\ Parent[blk[i]] \in known
          /\ pc[i] # "store" => blk[i] \in known
    /\ job.step # "idle" =>
          /\ {job.target, job.cursor} \subseteq known
          /\ Number[job.cursor] <= Number[job.target]

\* A known block that beats the branch the server is on, or going to, is yet
\* to be offered.
HeavierIsOffered ==
    \A b \in known :
        \/ Total[b] <= Total[Target]
        \/ \E i \in Importer : pc[i] = "add" /\ blk[i] = b

\* Together they are inductive and imply NumbersUnique and HeaviestWins.
IInv ==
    /\ TypeOK /\ NumbersFollow /\ GenesisStays /\ KnownBlocksLoad
    /\ WorkIsKnown /\ HeavierIsOffered
=============================================================================
