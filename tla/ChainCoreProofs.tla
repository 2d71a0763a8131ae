-------------------------- MODULE ChainCoreProofs --------------------------
(***************************************************************************)
(* Theorems about ChainCore for any finite tree of blocks, any importers   *)
(* and any bounds.                                                         *)
(***************************************************************************)
EXTENDS ChainCore, FiniteSetTheorems, WellFoundedInduction, TLAPS

-----------------------------------------------------------------------------
(* Sets of numbers and of blocks.                                           *)

\* A non-empty set of numbers has a least one.
LEMMA LeastNumber ==
    ASSUME NEW S \in SUBSET Nat, S # {}
    PROVE  \E n \in S : \A k \in S : n <= k
  <1>1. \E R : /\ IsWellFoundedOn(R, Nat)
               /\ \A k, n \in Nat : k < n => <<k, n>> \in R
    BY NatLessThanWellFounded DEF OpToRel
  <1>2. PICK R : /\ IsWellFoundedOn(R, Nat)
                 /\ \A k, n \in Nat : k < n => <<k, n>> \in R
    BY <1>1
  <1>3. S \subseteq Nat
    OBVIOUS
  <1>4. \E n \in S : \A k \in S : ~ (<<k, n>> \in R)
    <2>1. IsWellFoundedOn(R, Nat)
      BY <1>2
    <2> QED BY ONLY <2>1, <1>3, S # {}, WFMin, Zenon
  <1>5. PICK n \in S : \A k \in S : ~ (<<k, n>> \in R)
    BY <1>4
  <1>6. ASSUME NEW k \in S PROVE n <= k
    <2>1. k \in Nat /\ n \in Nat /\ ~ (k < n)
      BY <1>2, <1>5
    <2> QED BY <2>1
  <1> QED BY <1>6

\* A non-empty finite set of numbers has a greatest one: a smallest set
\* without one would still lack it with one element less.
LEMMA GreatestNumber ==
    ASSUME NEW S \in SUBSET Nat, IsFiniteSet(S), S # {}
    PROVE  \E n \in S : \A k \in S : k <= n
  <1> DEFINE NoMax(U) == U # {} /\ \A n \in U : \E k \in U : k > n
             Sizes == {Cardinality(U) : U \in {V \in SUBSET S : NoMax(V)}}
  <1> SUFFICES ASSUME NoMax(S) PROVE FALSE
    <2>1. NoMax(S) \/ \E n \in S : \A k \in S : ~ (k > n)
      OBVIOUS
    <2> QED BY <2>1
  <1>1. \A U \in SUBSET S : IsFiniteSet(U) /\ Cardinality(U) \in Nat
    BY FS_Subset, FS_CardinalityType
  <1>2. Sizes \in SUBSET Nat /\ Sizes # {}
    BY <1>1
  <1>3. PICK U \in SUBSET S : NoMax(U) /\ \A k \in Sizes : Cardinality(U) <= k
    BY <1>2, LeastNumber
  <1>4. PICK x \in U : TRUE
    BY <1>3
  <1>5. PICK y \in U : y > x
    BY <1>3
  <1>6. NoMax(U \ {x})
    <2> SUFFICES ASSUME NEW n \in U \ {x} PROVE \E k \in U \ {x} : k > n
      BY <1>5
    <2>1. PICK k \in U : k > n
      BY <1>3
    <2>2. CASE k # x
      BY <2>1, <2>2
    <2>3. CASE k = x
      <3>1. y \in U \ {x} /\ y > n
        BY <1>5, <2>1, <2>3
      <3> QED BY <3>1
    <2> QED BY <2>2, <2>3
  <1>7. Cardinality(U \ {x}) = Cardinality(U) - 1
    BY <1>1, <1>4, FS_RemoveElement
  <1>8. U \ {x} \in SUBSET S
    OBVIOUS
  <1>9. Cardinality(U \ {x}) \in Sizes
    BY <1>6, <1>8
  <1>10. Cardinality(U) \in Nat /\ Cardinality(U) <= Cardinality(U \ {x})
    BY <1>1, <1>3, <1>9
  <1> QED BY <1>7, <1>10

\* The highest of some blocks is one of them and none is higher.
LEMMA TopIsHighest ==
    ASSUME NEW S \in SUBSET Block, S # {}
    PROVE  Top(S) \in S /\ \A c \in S : Number[c] <= Number[Top(S)]
  <1> DEFINE f == [b \in S |-> Number[b]]
             N == {Number[b] : b \in S}
  <1>1. IsFiniteSet(S)
    BY FS_Subset, TreeAssumption
  <1>2. IsFiniteSet(N)
    <2>1. f \in Surjection(S, N)
      BY DEF Surjection
    <2> QED BY <1>1, <2>1, FS_Surjection
  <1>3. N \in SUBSET Nat /\ N # {}
    BY TreeAssumption
  <1>4. \E n \in N : \A k \in N : k <= n
    BY <1>2, <1>3, GreatestNumber
  <1>5. \E b \in S : \A c \in S : Number[c] <= Number[b]
    BY <1>4
  <1> QED BY <1>5 DEF Top

\* On a chain from the genesis block nothing weighs more than its last block.
LEMMA TopIsHeaviest ==
    ASSUME NEW S \in SUBSET Block, S # {},
           \A c \in S \ {Genesis} : Parent[c] \in S,
           \A c, d \in S : Number[c] = Number[d] => c = d
    PROVE  \A b \in S : Total[b] <= Total[Top(S)]
  <1> DEFINE Heavier == {b \in S : Total[b] > Total[Top(S)]}
             b == Top(Heavier)
             Above == {c \in S : Number[c] > Number[b]}
             N == {Number[c] : c \in Above}
  <1>1. \A c \in S : Total[c] \in Nat /\ Number[c] \in Nat
    BY TreeAssumption
  <1>2. Top(S) \in S /\ \A c \in S : Number[c] <= Number[Top(S)]
    BY TopIsHighest
  <1> HIDE DEF b, Above, Heavier
  <1> SUFFICES ASSUME Heavier # {} PROVE FALSE
    BY <1>1, <1>2 DEF Heavier
  <1>3. b \in Heavier /\ \A c \in Heavier : Number[c] <= Number[b]
    <2>1. Heavier \in SUBSET Block
      BY DEF Heavier
    <2> QED BY <2>1, TopIsHighest DEF b
  <1>4. b \in S /\ Total[b] > Total[Top(S)]
    BY <1>3 DEF Heavier
  <1>5. Top(S) \in Above
    <2>1. Number[b] <= Number[Top(S)] /\ b # Top(S)
      BY <1>1, <1>2, <1>4
    <2>2. Number[b] # Number[Top(S)]
      BY <1>2, <1>4, <2>1
    <2> QED BY <1>1, <1>2, <1>4, <2>1, <2>2 DEF Above
  <1>6. PICK c \in Above : \A d \in Above : Number[c] <= Number[d]
    <2>1. N \in SUBSET Nat /\ N # {}
      BY <1>1, <1>5 DEF Above
    <2>2. PICK n \in N : \A k \in N : n <= k
      BY <2>1, LeastNumber
    <2> QED BY <2>2
  <1>7. c \in S /\ Number[c] > Number[b]
    BY <1>6 DEF Above
  <1>8. c # Genesis /\ Parent[c] \in S /\ Number[c] = Number[Parent[c]] + 1
        /\ Total[c] > Total[Parent[c]]
    BY <1>1, <1>4, <1>7, TreeAssumption
  <1>9. Parent[c] = b
    <2>1. ~ (Number[Parent[c]] > Number[b])
      BY <1>1, <1>6, <1>7, <1>8 DEF Above
    <2>2. Number[Parent[c]] = Number[b]
      BY <1>1, <1>4, <1>7, <1>8, <2>1
    <2> QED BY <1>4, <1>8, <2>2
  <1>10. Total[c] > Total[Top(S)]
    BY <1>1, <1>2, <1>4, <1>7, <1>8, <1>9
  <1>11. c \in Heavier
    BY <1>7, <1>10 DEF Heavier
  <1> QED BY <1>1, <1>3, <1>4, <1>7, <1>11

\* The tree: only the genesis block has number 0, a parent comes one below.
LEMMA TreeFacts ==
    /\ \A b \in Block : Number[b] \in Nat /\ Total[b] \in Nat /\ Number[b] \in Numbers
    /\ 0 \in Numbers /\ Number[Genesis] = 0 /\ Genesis \in Block
    /\ \A b \in Block \ {Genesis} :
          /\ Parent[b] \in Block
          /\ Number[b] = Number[Parent[b]] + 1 /\ Number[b] # 0
          /\ Total[b] > Total[Parent[b]]
  BY TreeAssumption DEF Numbers

\* Rows that follow each other by parent start with the genesis block.
LEMMA LinkedFacts ==
    ASSUME NEW rows \in SUBSET Block, Genesis \in rows
    PROVE  /\ Linked(rows) \subseteq rows
           /\ Genesis \in Linked(rows)
           /\ \A c \in Linked(rows) \ {Genesis} : Parent[c] \in Linked(rows)
  <1>1. Linked(rows) \subseteq rows
    BY DEF Linked
  <1>2. Genesis \in Linked(rows)
    <2>1. \A c \in rows \ {Genesis} : ~ (Number[c] <= Number[Genesis])
      BY TreeFacts
    <2> QED BY <2>1 DEF Linked
  <1>3. ASSUME NEW b \in Linked(rows) \ {Genesis} PROVE Parent[b] \in Linked(rows)
    <2>1. /\ b \in rows \ {Genesis}
          /\ \A c \in rows \ {Genesis} : Number[c] <= Number[b] => Parent[c] \in rows
      BY DEF Linked
    <2>2. Parent[b] \in rows
      BY <2>1, TreeFacts
    <2>3. \A c \in rows \ {Genesis} :
              Number[c] <= Number[Parent[b]] => Number[c] <= Number[b]
      BY <2>1, TreeFacts
    <2> QED BY <2>1, <2>2, <2>3 DEF Linked
  <1> QED BY <1>1, <1>2, <1>3

-----------------------------------------------------------------------------
(* What the Writer does to the rows, however it comes to run.               *)

\* Rows are only added and only get numbers that were asked for; no block, not
\* even one of new, is in neither place, and no number is asked for.
Wrote(new) ==
    /\ stored' \in SUBSET Block /\ stored \subseteq stored'
    /\ numbered' \in SUBSET stored' /\ numbered \subseteq numbered'
    /\ numbered' \subseteq numbered \cup Queued(queue)
    /\ pending' \in SUBSET Block
    /\ stored \cup pending \cup new \subseteq stored' \cup pending'
    /\ queue' \in Seq(Request)
    /\ Queued(queue') \subseteq Queued(queue)

\* One request written by the Writer.
LEMMA WriteFirstWrites ==
    ASSUME TypeOK, NEW new \in SUBSET Block, NEW q \in Seq(Request),
           Queued(q) = Queued(queue), WriteFirst(q, pending \cup new)
    PROVE  Wrote(new)
  <1> DEFINE p == pending \cup new
  <1>1. p \in SUBSET Block /\ stored \in SUBSET Block /\ numbered \in SUBSET stored
    BY DEF TypeOK
  <1>2. q # <<>> /\ queue' = Tail(q)
    BY DEF WriteFirst, WriteBlock, WriteNumber
  <1>3. queue' \in Seq(Request)
    BY <1>2
  <1>4. Queued(queue') \subseteq Queued(queue)
    <2>1. \A n \in DOMAIN queue' : n + 1 \in DOMAIN q /\ queue'[n] = q[n + 1]
      BY <1>2
    <2>2. Queued(queue') \subseteq Queued(q)
      BY <2>1 DEF Queued
    <2> QED BY <2>2
  <1>5. CASE WriteBlock(q, p)
    <2>1. PICK b \in Block :
              /\ stored' = IF b \in p THEN stored \cup {b} ELSE stored
              /\ pending' = p \ {b}
              /\ numbered' = numbered
      BY <1>5 DEF WriteBlock
    <2> QED BY <1>1, <1>3, <1>4, <2>1 DEF Wrote
  <1>6. CASE WriteNumber(q, p)
    <2>1. PICK b \in Block :
              /\ Head(q) = Numbering(b)
              /\ numbered' = numbered \cup ({b} \cap stored)
              /\ pending' = p
              /\ stored' = stored
      BY <1>6 DEF WriteNumber
    <2>2. b \in Queued(q)
      <3>1. 1 \in DOMAIN q /\ q[1] = Numbering(b)
        BY <1>2, <2>1
      <3> QED BY <3>1 DEF Queued
    <2> QED BY <1>1, <1>3, <1>4, <2>1, <2>2 DEF Wrote
  <1> QED BY <1>5, <1>6 DEF WriteFirst

\* Asking for the insertion of a block asks for no number.
LEMMA AppendInsert ==
    ASSUME NEW q \in Seq(Request), NEW b \in Block
    PROVE  Append(q, Insert(b)) \in Seq(Request) /\ Queued(Append(q, Insert(b))) = Queued(q)
  <1> DEFINE a == Append(q, Insert(b))
  <1>1. Insert(b) \in Request /\ \A c \in Block : Insert(b) # Numbering(c)
    BY DEF Insert, Numbering, Request
  <1>2. a \in Seq(Request) /\ Len(a) = Len(q) + 1 /\ a[Len(q) + 1] = Insert(b)
        /\ \A n \in 1 .. Len(q) : a[n] = q[n]
    BY <1>1
  <1>3. ASSUME NEW c \in Block
        PROVE  (\E n \in DOMAIN a : a[n] = Numbering(c))
                   <=> (\E n \in DOMAIN q : q[n] = Numbering(c))
    <2>1. DOMAIN a = 1 .. Len(q) + 1 /\ DOMAIN q = 1 .. Len(q) /\ Len(q) \in Nat
      BY <1>2
    <2> HIDE DEF a
    <2>2. \A n \in DOMAIN a : n \in DOMAIN q \/ n = Len(q) + 1
      BY <2>1
    <2>3. DOMAIN q \subseteq DOMAIN a
      BY <2>1
    <2> QED BY <1>1, <1>2, <2>1, <2>2, <2>3
  <1> QED BY <1>2, <1>3 DEF Queued

\* Asking for a number adds that block to those that will have one.
LEMMA AppendNumbering ==
    ASSUME NEW q \in Seq(Request), NEW b \in Block
    PROVE  /\ Append(q, Numbering(b)) \in Seq(Request)
           /\ Queued(Append(q, Numbering(b))) \subseteq Queued(q) \cup {b}
  <1> DEFINE a == Append(q, Numbering(b))
  <1>1. Numbering(b) \in Request /\ \A c \in Block : Numbering(b) = Numbering(c) => b = c
    BY DEF Numbering, Request
  <1>2. a \in Seq(Request) /\ Len(a) = Len(q) + 1 /\ a[Len(q) + 1] = Numbering(b)
        /\ \A n \in 1 .. Len(q) : a[n] = q[n]
    BY <1>1
  <1>3. DOMAIN a = 1 .. Len(q) + 1 /\ DOMAIN q = 1 .. Len(q) /\ Len(q) \in Nat
    BY <1>2
  <1> HIDE DEF a
  <1>4. \A n \in DOMAIN a : n \in DOMAIN q \/ n = Len(q) + 1
    BY <1>3
  <1>5. Queued(a) \subseteq Queued(q) \cup {b}
    BY <1>1, <1>2, <1>3, <1>4 DEF Queued
  <1> QED BY <1>2, <1>5 DEF a

\* Writer.submit_new_block.
LEMMA SubmitWrites ==
    ASSUME TypeOK, NEW b \in Block, SubmitNewBlock(b)
    PROVE  Wrote({b})
  <1> DEFINE p == pending \cup {b}
             q == Append(queue, Insert(b))
  <1>1. q \in Seq(Request) /\ Queued(q) = Queued(queue)
    BY AppendInsert DEF TypeOK
  <1>2. CASE WriteFirst(q, p)
    BY <1>1, <1>2, WriteFirstWrites
  <1>3. CASE pending' = p /\ queue' = q /\ UNCHANGED disk
    BY <1>1, <1>3 DEF Wrote, TypeOK, disk
  <1> QED BY <1>2, <1>3 DEF SubmitNewBlock

\* The Writer that replaces a crashed one has no number to write.
LEMMA CrashWrites ==
    ASSUME TypeOK, WriterCrash
    PROVE  Wrote({})
  <1>1. Interrupted \subseteq Block
    BY DEF Interrupted, TypeOK
  <1>2. PICK q \in SetToSeqs(pending) : queue' = [n \in DOMAIN q |-> Insert(q[n])]
    BY DEF WriterCrash
  <1>3. q \in [1 .. Cardinality(pending) -> pending] /\ Cardinality(pending) \in Nat
    <2>1. IsFiniteSet(pending)
      BY FS_Subset, TreeAssumption DEF TypeOK
    <2> QED BY <2>1, FS_CardinalityType DEF SetToSeqs
  <1>4. \A n \in DOMAIN q : q[n] \in Block
    BY <1>3 DEF TypeOK
  <1>5. queue' \in [1 .. Cardinality(pending) -> Request]
    BY <1>2, <1>3, <1>4 DEF Insert, Request
  <1>6. queue' \in Seq(Request)
    BY <1>3, <1>5
  <1>7. Queued(queue') = {}
    <2>1. \A n \in DOMAIN queue' : \A c \in Block : queue'[n] # Numbering(c)
      BY <1>2 DEF Insert, Numbering
    <2> QED BY <2>1 DEF Queued
  <1> QED BY <1>1, <1>6, <1>7 DEF WriterCrash, Wrote, TypeOK

\* Whatever the Writer does meanwhile, the numbers stay in order and what is
\* known can be loaded.
LEMMA WritingKeepsNumbers ==
    ASSUME IInv, NEW new \in SUBSET Block, Wrote(new), UNCHANGED <<job, peak, at>>
    PROVE  NumbersFollow' /\ GenesisStays'
  <1>1. numbered' \cup Queued(queue') \subseteq numbered \cup Queued(queue)
    BY DEF Wrote
  <1>2. NumbersFollow'
    BY <1>1 DEF IInv, NumbersFollow, Wrote
  <1> QED BY <1>2 DEF IInv, GenesisStays, Wrote

-----------------------------------------------------------------------------
(* Each action keeps the inductive invariant.                               *)

LEMMA InitIInv == Init => IInv
  <1> SUFFICES ASSUME Init PROVE IInv
    OBVIOUS
  <1>1. at \in [Numbers -> Block \cup {NoBlock}] /\ at[0] = Genesis
    BY TreeFacts DEF Init, IndexOf
  <1>2. Queued(queue) = {} /\ queue \in Seq(Request)
    BY DEF Init, Queued
  <1>3. TypeOK
    <2>1. job \in Job
      BY TreeFacts DEF Init, Job, Idle
    <2>2. restarts \in 0 .. MaxRestarts /\ writerCrashes \in 0 .. MaxWriterCrashes
      BY BoundsAssumption DEF Init
    <2> QED BY <1>1, <1>2, <2>1, <2>2, TreeFacts DEF Init, TypeOK
  <1>4. NumbersFollow
    BY <1>2, TreeFacts DEF Init, NumbersFollow, Idle
  <1>5. GenesisStays /\ KnownBlocksLoad /\ WorkIsKnown
    BY <1>1 DEF Init, GenesisStays, KnownBlocksLoad, WorkIsKnown, Idle
  <1>6. HeavierIsOffered
    BY TreeFacts DEF Init, HeavierIsOffered, Target, Idle
  <1> QED BY <1>3, <1>4, <1>5, <1>6 DEF IInv

\* A step that leaves the rows, the Writer and the server alone.
LEMMA ImporterStep ==
    ASSUME IInv, UNCHANGED <<disk, writer, memory>>,
           job.step \in {"idle", "wait"} => job'.step \in {"idle", "wait"},
           job.step \in {"norm", "index"} => job' = job
    PROVE  NumbersFollow' /\ GenesisStays' /\ KnownBlocksLoad'
  <1>1. job \in Job
    BY DEF IInv, TypeOK
  <1>2. NumbersFollow'
    BY <1>1 DEF IInv, NumbersFollow, Queued, Job, disk, writer, memory
  <1> QED BY <1>2 DEF IInv, GenesisStays, KnownBlocksLoad, disk, writer, memory

LEMMA ValidateKeeps ==
    ASSUME IInv, NEW i \in Importer, NEW b \in Block, Validate(i, b)
    PROVE  IInv'
  <1> USE DEF Validate, disk, writer, memory, bounds
  <1>1. TypeOK'
    BY DEF IInv, TypeOK
  <1>2. NumbersFollow' /\ GenesisStays' /\ KnownBlocksLoad'
    BY ImporterStep DEF IInv, TypeOK, Job
  <1>3. WorkIsKnown'
    BY DEF IInv, TypeOK, WorkIsKnown
  <1>4. HeavierIsOffered'
    BY DEF IInv, TypeOK, HeavierIsOffered, Target
  <1> QED BY <1>1, <1>2, <1>3, <1>4 DEF IInv

LEMMA StoreKeeps ==
    ASSUME IInv, NEW i \in Importer, Store(i)
    PROVE  IInv'
  <1>1. /\ blk[i] \in Block \ {Genesis} /\ Parent[blk[i]] \in known
        /\ pc' = [pc EXCEPT ![i] = "add"] /\ known' = known \cup {blk[i]}
        /\ UNCHANGED <<at, peak, job, blk, bounds>>
    BY DEF Store, IInv, WorkIsKnown
  <1>2. Wrote({blk[i]})
    BY <1>1, SubmitWrites DEF Store, IInv
  <1>3. TypeOK'
    BY <1>1, <1>2 DEF IInv, TypeOK, Wrote, bounds
  <1>4. NumbersFollow' /\ GenesisStays'
    BY <1>1, <1>2, WritingKeepsNumbers
  <1>5. KnownBlocksLoad'
    BY <1>1, <1>2 DEF IInv, KnownBlocksLoad, Wrote
  <1>6. WorkIsKnown'
    BY <1>1 DEF IInv, TypeOK, WorkIsKnown
  <1>7. HeavierIsOffered'
    BY <1>1 DEF IInv, TypeOK, HeavierIsOffered, Target
  <1> QED BY <1>3, <1>4, <1>5, <1>6, <1>7 DEF IInv

LEMMA AddAltKeeps ==
    ASSUME IInv, NEW i \in Importer, AddAlt(i)
    PROVE  IInv'
  <1> USE DEF AddAlt, Answered, Offered, disk, writer, memory, bounds
  <1>1. TypeOK'
    BY DEF IInv, TypeOK
  <1>2. NumbersFollow' /\ GenesisStays' /\ KnownBlocksLoad'
    BY ImporterStep
  <1>3. WorkIsKnown'
    BY DEF IInv, TypeOK, WorkIsKnown
  <1>4. HeavierIsOffered'
    BY DEF IInv, TypeOK, HeavierIsOffered, Target
  <1> QED BY <1>1, <1>2, <1>3, <1>4 DEF IInv

LEMMA AddExtendKeeps ==
    ASSUME IInv, NEW i \in Importer, AddExtend(i)
    PROVE  IInv'
  <1> DEFINE b == blk[i]
  <1>1. /\ b \in Block \ {Genesis} /\ b \in known /\ b \in Block
        /\ peak \in Block /\ job.step = "idle" /\ Parent[b] = peak
    BY DEF AddExtend, Offered, IInv, TypeOK, WorkIsKnown
  <1>2. Number[b] = Number[peak] + 1 /\ Total[b] > Total[peak] /\ Number[b] # 0
    BY <1>1, TreeFacts
  <1>3. /\ queue' = Append(queue, Numbering(b))
        /\ at' = [at EXCEPT ![Number[b]] = b]
        /\ peak' = b
        /\ pc' = [pc EXCEPT ![i] = "idle"] /\ blk' = [blk EXCEPT ![i] = NoBlock]
        /\ UNCHANGED <<stored, numbered, pending, known, job, restarts, writerCrashes>>
    BY DEF AddExtend, Answered, disk, bounds
  <1>4. queue' \in Seq(Request) /\ Queued(queue') \subseteq Queued(queue) \cup {b}
    BY <1>1, <1>3, AppendNumbering DEF IInv, TypeOK
  <1> HIDE DEF b
  <1>5. TypeOK'
    <2>1. at' \in [Numbers -> Block \cup {NoBlock}]
      BY <1>1, <1>3 DEF IInv, TypeOK
    <2>2. pc' \in [Importer -> {"idle", "store", "add", "wait"}]
          /\ blk' \in [Importer -> Block \cup {NoBlock}]
      BY <1>3 DEF IInv, TypeOK
    <2> QED BY <1>1, <1>3, <1>4, <2>1, <2>2 DEF IInv, TypeOK
  <1>6. NumbersFollow'
    <2> DEFINE N == numbered \cup Queued(queue)
    <2>1. numbered' \cup Queued(queue') \subseteq N \cup {b}
      BY <1>3, <1>4
    <2>2. \A c \in N : c \in Block /\ Number[c] <= Number[peak]
      BY <1>1 DEF IInv, TypeOK, NumbersFollow, Queued
    <2>3. \A c \in N : Number[c] < Number[b]
      BY <1>1, <1>2, <2>2, TreeFacts
    <2>4. \A c, d \in N : Number[c] = Number[d] => c = d
      BY DEF IInv, NumbersFollow
    <2> HIDE DEF N
    <2>5. \A c, d \in N \cup {b} : Number[c] = Number[d] => c = d
      BY <1>1, <2>2, <2>3, <2>4, TreeFacts
    <2>6. \A c \in N \cup {b} : Number[c] <= Number[b]
      BY <1>1, <2>2, <2>3, TreeFacts
    <2>7. \A c, d \in numbered' \cup Queued(queue') : Number[c] = Number[d] => c = d
      BY <2>1, <2>5
    <2>8. \A c \in numbered' \cup Queued(queue') : Number[c] <= Number[peak']
      BY <1>3, <2>1, <2>6
    <2> QED BY <1>1, <1>3, <2>7, <2>8 DEF NumbersFollow
  <1>7. GenesisStays'
    <2>1. at'[0] = at[0]
      BY <1>1, <1>2, <1>3, TreeFacts DEF IInv, TypeOK
    <2> QED BY <1>3, <2>1 DEF IInv, GenesisStays
  <1>8. KnownBlocksLoad'
    BY <1>3 DEF IInv, KnownBlocksLoad
  <1>9. WorkIsKnown'
    BY <1>1, <1>3 DEF IInv, TypeOK, WorkIsKnown
  <1>10. HeavierIsOffered'
    <2>1. Target = peak /\ Target' = b
      BY <1>1, <1>3 DEF Target
    <2>2. ASSUME NEW c \in known
          PROVE  \/ Total[c] <= Total[b]
                 \/ \E j \in Importer : pc'[j] = "add" /\ blk'[j] = c
      <3>1. CASE Total[c] <= Total[peak]
        BY <1>1, <1>2, <3>1, TreeFacts DEF IInv, TypeOK
      <3>2. CASE c = b
        BY <1>1, <3>2, TreeFacts
      <3>3. CASE c # b /\ \E j \in Importer : pc[j] = "add" /\ blk[j] = c
        BY <1>3, <3>3 DEF IInv, TypeOK, b
      <3> QED BY <2>1, <3>1, <3>2, <3>3 DEF IInv, HeavierIsOffered
    <2> QED BY <1>3, <2>1, <2>2 DEF HeavierIsOffered
  <1> QED BY <1>5, <1>6, <1>7, <1>8, <1>9, <1>10 DEF IInv

LEMMA AddReplaceKeeps ==
    ASSUME IInv, NEW i \in Importer, AddReplace(i)
    PROVE  IInv'
  <1> DEFINE b == blk[i]
  <1>1. /\ b \in Block /\ b \in known
        /\ peak \in Block /\ job.step = "idle" /\ Total[b] > Total[peak]
    BY DEF AddReplace, Offered, IInv, TypeOK, WorkIsKnown
  <1>2. /\ job' = [step |-> "wait", target |-> b, cursor |-> b]
        /\ pc' = [pc EXCEPT ![i] = "wait"]
        /\ UNCHANGED <<disk, writer, memory, blk, bounds>>
    BY DEF AddReplace
  <1>3. TypeOK'
    BY <1>1, <1>2 DEF IInv, TypeOK, Job, disk, writer, memory, bounds
  <1>4. NumbersFollow' /\ GenesisStays' /\ KnownBlocksLoad'
    BY <1>1, <1>2, ImporterStep
  <1>5. WorkIsKnown'
    <2>1. known' = known /\ blk' = blk
          /\ \A j \in Importer : pc'[j] = IF j = i THEN "wait" ELSE pc[j]
      BY <1>2 DEF IInv, TypeOK, memory
    <2>2. pc[i] = "add"
      BY DEF AddReplace, Offered
    <2>3. /\ {job'.target, job'.cursor} \subseteq known'
          /\ Number[job'.cursor] <= Number[job'.target]
      BY <1>1, <1>2, <2>1, TreeFacts
    <2> HIDE DEF b
    <2> QED BY <2>1, <2>2, <2>3 DEF IInv, WorkIsKnown
  <1>6. HeavierIsOffered'
    <2>1. Target = peak /\ Target' = b /\ known' = known
      BY <1>1, <1>2 DEF Target, memory
    <2> HIDE DEF b
    <2>2. ASSUME NEW c \in known
          PROVE  \/ Total[c] <= Total[b]
                 \/ \E j \in Importer : pc'[j] = "add" /\ blk'[j] = c
      <3>1. CASE Total[c] <= Total[peak]
        BY <1>1, <3>1, TreeFacts DEF IInv, TypeOK
      <3>2. CASE c = b
        BY <1>1, <3>2, TreeFacts
      <3>3. CASE c # b /\ \E j \in Importer : pc[j] = "add" /\ blk[j] = c
        BY <1>2, <3>3 DEF IInv, TypeOK, b
      <3> QED BY <2>1, <3>1, <3>2, <3>3 DEF IInv, HeavierIsOffered
    <2> QED BY <2>1, <2>2 DEF HeavierIsOffered
  <1> QED BY <1>3, <1>4, <1>5, <1>6 DEF IInv

LEMMA WriteKeeps ==
    ASSUME IInv, Write \/ WriterCrash
    PROVE  IInv'
  <1>1. UNCHANGED <<known, at, peak, job, pc, blk, restarts>>
    BY DEF Write, WriterCrash, memory, importers, bounds
  <1>2. writerCrashes' \in 0 .. MaxWriterCrashes
    BY BoundsAssumption DEF IInv, TypeOK, Write, WriterCrash, bounds
  <1>3. Wrote({})
    <2>1. CASE Write
      <3>1. pending \cup {} = pending
        OBVIOUS
      <3> QED BY <2>1, <3>1, WriteFirstWrites DEF Write, IInv, TypeOK
    <2>2. CASE WriterCrash
      BY <2>2, CrashWrites DEF IInv
    <2> QED BY <2>1, <2>2
  <1>4. TypeOK'
    BY <1>1, <1>2, <1>3 DEF IInv, TypeOK, Wrote
  <1>5. NumbersFollow' /\ GenesisStays'
    BY <1>1, <1>3, WritingKeepsNumbers
  <1>6. KnownBlocksLoad'
    BY <1>1, <1>3 DEF IInv, KnownBlocksLoad, Wrote
  <1>7. WorkIsKnown' /\ HeavierIsOffered'
    BY <1>1 DEF IInv, WorkIsKnown, HeavierIsOffered, Target
  <1> QED BY <1>4, <1>5, <1>6, <1>7 DEF IInv

\* What a step of the reorganisation works on.
LEMMA JobFacts ==
    ASSUME IInv, job.step # "idle"
    PROVE  /\ job.target \in Block /\ job.cursor \in Block
           /\ job.target \in known /\ job.cursor \in known
           /\ Number[job.cursor] <= Number[job.target]
           /\ job = [step |-> job.step, target |-> job.target, cursor |-> job.cursor]
  BY DEF IInv, TypeOK, WorkIsKnown, Job

\* Below the fork there is always the genesis block, so the branch ends.
LEMMA CursorGoesDown ==
    ASSUME IInv, job.step # "idle", job.cursor # Genesis
    PROVE  /\ Parent[job.cursor] \in known /\ Parent[job.cursor] \in Block
           /\ Number[Parent[job.cursor]] <= Number[job.target]
  <1>1. Parent[job.cursor] \in known
    BY JobFacts DEF IInv, KnownBlocksLoad
  <1>2. Number[job.cursor] = Number[Parent[job.cursor]] + 1 /\ Parent[job.cursor] \in Block
    BY JobFacts, TreeFacts
  <1> QED BY <1>1, <1>2, JobFacts, TreeFacts

LEMMA PutPeakClearKeeps ==
    ASSUME IInv, PutPeakClear
    PROVE  IInv'
  <1>1. /\ job' = [step |-> "norm", target |-> job.target, cursor |-> job.cursor]
        /\ job.step = "wait" /\ queue = <<>>
        /\ numbered' = {b \in numbered : Number[b] <= Number[job.target]}
        /\ UNCHANGED <<stored, pending, queue, known, at, peak, pc, blk,
                       restarts, writerCrashes>>
    BY JobFacts DEF PutPeakClear, writer, memory, importers, bounds
  <1>2. TypeOK'
    BY <1>1, JobFacts DEF IInv, TypeOK, Job
  <1>3. NumbersFollow'
    <2>1. Queued(queue') = {}
      BY <1>1 DEF Queued
    <2> QED BY <1>1, <2>1 DEF IInv, NumbersFollow
  <1>4. GenesisStays'
    BY <1>1, JobFacts, TreeFacts DEF IInv, GenesisStays
  <1>5. KnownBlocksLoad' /\ WorkIsKnown'
    BY <1>1, JobFacts DEF IInv, KnownBlocksLoad, WorkIsKnown
  <1>6. HeavierIsOffered'
    BY <1>1 DEF IInv, HeavierIsOffered, Target
  <1> QED BY <1>2, <1>3, <1>4, <1>5, <1>6 DEF IInv

LEMMA NormClearKeeps ==
    ASSUME IInv, NormClear
    PROVE  IInv'
  <1>1. /\ job.step = "norm" /\ Holders \notin {{}, {job.cursor}}
        /\ numbered' = numbered \ Holders
        /\ UNCHANGED <<stored, pending, queue, known, at, peak, job, pc, blk,
                       restarts, writerCrashes>>
    BY DEF NormClear, Normalising, writer, memory, importers, bounds
  <1>2. TypeOK' /\ KnownBlocksLoad' /\ WorkIsKnown'
    BY <1>1 DEF IInv, TypeOK, KnownBlocksLoad, WorkIsKnown
  <1>3. NumbersFollow'
    BY <1>1 DEF IInv, NumbersFollow, Queued
  <1>4. GenesisStays'
    <2>1. Genesis \notin Holders
      <3> SUFFICES ASSUME Genesis \in Holders PROVE FALSE
        OBVIOUS
      <3>1. Number[job.cursor] = 0
        BY TreeFacts DEF Holders
      <3>2. job.cursor = Genesis
        BY <1>1, <3>1, JobFacts, TreeFacts
      <3>3. \A b \in Holders : b = Genesis
        BY <3>1, TreeFacts DEF Holders, IInv, TypeOK
      <3> QED BY <1>1, <3>2, <3>3
    <2> QED BY <1>1, <2>1 DEF IInv, GenesisStays
  <1>5. HeavierIsOffered'
    BY <1>1 DEF IInv, HeavierIsOffered, Target
  <1> QED BY <1>2, <1>3, <1>4, <1>5 DEF IInv

LEMMA NormNumberKeeps ==
    ASSUME IInv, NormNumber
    PROVE  IInv'
  <1> DEFINE c == job.cursor
  <1>1. /\ job.step = "norm" /\ Holders = {}
        /\ numbered' = numbered \cup ({c} \cap stored)
        /\ job' = [step |-> "norm", target |-> job.target, cursor |-> Parent[c]]
        /\ UNCHANGED <<stored, pending, queue, known, at, peak, pc, blk,
                       restarts, writerCrashes>>
    BY JobFacts DEF NormNumber, Normalising, writer, memory, importers, bounds
  <1>2. \A b \in numbered : Number[b] # Number[c]
    BY <1>1 DEF Holders
  <1>3. c # Genesis
    BY <1>2 DEF IInv, GenesisStays
  <1>4. TypeOK'
    BY <1>1, <1>3, JobFacts, CursorGoesDown DEF IInv, TypeOK, Job
  <1>5. NumbersFollow'
    <2>1. Queued(queue') = {} /\ \A b \in numbered : Number[b] <= Number[job.target]
      BY <1>1 DEF IInv, NumbersFollow
    <2>2. \A b, d \in numbered : Number[b] = Number[d] => b = d
      BY DEF IInv, NumbersFollow
    <2>3. \A b, d \in numbered' : Number[b] = Number[d] => b = d
      BY <1>1, <1>2, <2>2
    <2>4. \A b \in numbered' : Number[b] <= Number[job'.target]
      BY <1>1, <2>1, JobFacts
    <2> QED BY <1>1, <2>1, <2>3, <2>4 DEF NumbersFollow
  <1>6. GenesisStays' /\ KnownBlocksLoad'
    BY <1>1 DEF IInv, GenesisStays, KnownBlocksLoad
  <1>7. WorkIsKnown'
    BY <1>1, <1>3, JobFacts, CursorGoesDown DEF IInv, WorkIsKnown
  <1>8. HeavierIsOffered'
    BY <1>1 DEF IInv, HeavierIsOffered, Target
  <1> QED BY <1>4, <1>5, <1>6, <1>7, <1>8 DEF IInv

LEMMA NormDoneKeeps ==
    ASSUME IInv, NormDone
    PROVE  IInv'
  <1>1. /\ job.step = "norm"
        /\ job' = [step |-> "index", target |-> job.target, cursor |-> job.target]
        /\ UNCHANGED <<stored, numbered, pending, queue, known, at, peak, pc, blk,
                       restarts, writerCrashes>>
    BY JobFacts DEF NormDone, Normalising, disk, writer, memory, importers, bounds
  <1>2. TypeOK'
    BY <1>1, JobFacts DEF IInv, TypeOK, Job
  <1>3. NumbersFollow' /\ GenesisStays' /\ KnownBlocksLoad'
    BY <1>1 DEF IInv, NumbersFollow, Queued, GenesisStays, KnownBlocksLoad
  <1>4. WorkIsKnown'
    BY <1>1, JobFacts, TreeFacts DEF IInv, WorkIsKnown
  <1>5. HeavierIsOffered'
    BY <1>1 DEF IInv, HeavierIsOffered, Target
  <1> QED BY <1>2, <1>3, <1>4, <1>5 DEF IInv

LEMMA RefetchStepKeeps ==
    ASSUME IInv, RefetchStep
    PROVE  IInv'
  <1> DEFINE c == job.cursor
  <1>1. /\ job.step = "index" /\ at[Number[c]] # c
        /\ at' = [at EXCEPT ![Number[c]] = c]
        /\ known' = known
        /\ job' = [step |-> "index", target |-> job.target, cursor |-> Parent[c]]
        /\ UNCHANGED <<stored, numbered, pending, queue, peak, pc, blk,
                       restarts, writerCrashes>>
    BY JobFacts DEF RefetchStep, disk, writer, importers, bounds
  <1>2. c # Genesis
    BY <1>1, TreeFacts DEF IInv, GenesisStays
  <1>3. c \in Block /\ Number[c] # 0 /\ Number[c] \in Numbers
    BY <1>1, <1>2, JobFacts, TreeFacts
  <1>4. TypeOK'
    <2>1. at' \in [Numbers -> Block \cup {NoBlock}]
      BY <1>1, <1>3 DEF IInv, TypeOK
    <2>2. job' \in Job
      BY <1>1, <1>2, JobFacts, CursorGoesDown DEF Job
    <2> QED BY <1>1, <2>1, <2>2 DEF IInv, TypeOK
  <1>5. NumbersFollow' /\ KnownBlocksLoad'
    BY <1>1 DEF IInv, NumbersFollow, Queued, KnownBlocksLoad
  <1>6. GenesisStays'
    <2>1. at'[0] = at[0]
      BY <1>1, <1>3, TreeFacts DEF IInv, TypeOK
    <2> QED BY <1>1, <2>1 DEF IInv, GenesisStays
  <1>7. WorkIsKnown'
    BY <1>1, <1>2, JobFacts, CursorGoesDown DEF IInv, WorkIsKnown
  <1>8. HeavierIsOffered'
    BY <1>1 DEF IInv, HeavierIsOffered, Target
  <1> QED BY <1>4, <1>5, <1>6, <1>7, <1>8 DEF IInv

LEMMA RefetchDoneKeeps ==
    ASSUME IInv, RefetchDone
    PROVE  IInv'
  <1>1. /\ job.step = "index" /\ peak' = job.target /\ job' = Idle
        /\ UNCHANGED <<stored, numbered, pending, queue, known, at,
                       restarts, writerCrashes>>
    BY DEF RefetchDone, disk, writer, bounds
  <1>2. PICK i \in Importer :
            /\ pc[i] = "wait"
            /\ pc' = [pc EXCEPT ![i] = "idle"]
            /\ blk' = [blk EXCEPT ![i] = NoBlock]
    BY DEF RefetchDone, Answered
  <1>3. TypeOK'
    <2>1. job' \in Job
      BY <1>1, TreeFacts DEF Job, Idle
    <2> QED BY <1>1, <1>2, <2>1, JobFacts DEF IInv, TypeOK
  <1>4. NumbersFollow'
    BY <1>1 DEF IInv, NumbersFollow, Queued, Idle
  <1>5. GenesisStays' /\ KnownBlocksLoad'
    BY <1>1 DEF IInv, GenesisStays, KnownBlocksLoad
  <1>6. WorkIsKnown'
    BY <1>1, <1>2 DEF IInv, TypeOK, WorkIsKnown, Idle
  <1>7. HeavierIsOffered'
    <2>1. Target' = Target /\ known' = known
      BY <1>1 DEF Target, Idle
    <2> QED BY <1>2, <2>1 DEF IInv, TypeOK, HeavierIsOffered
  <1> QED BY <1>3, <1>4, <1>5, <1>6, <1>7 DEF IInv

\* A start on rows that are a chain from the genesis block.
LEMMA StartOnKeeps ==
    ASSUME IInv, NEW good \in SUBSET numbered, Genesis \in good,
           \A c \in good \ {Genesis} : Parent[c] \in good,
           StartOn(good), stored' \in SUBSET Block, good \subseteq stored'
    PROVE  IInv'
  <1>1. good \in SUBSET Block /\ \A c, d \in good : Number[c] = Number[d] => c = d
    BY DEF IInv, TypeOK, NumbersFollow
  <1>2. Top(good) \in good /\ \A c \in good : Number[c] <= Number[Top(good)]
    BY <1>1, TopIsHighest
  <1>3. \A c \in good : Total[c] <= Total[Top(good)]
    BY <1>1, TopIsHeaviest
  <1>4. /\ restarts' \in 0 .. MaxRestarts /\ writerCrashes' \in 0 .. MaxWriterCrashes
    BY BoundsAssumption DEF StartOn, IInv, TypeOK
  <1>5. /\ numbered' = good /\ pending' = {} /\ queue' = <<>> /\ known' = good
        /\ at' = IndexOf(good) /\ peak' = Top(good) /\ job' = Idle
        /\ pc' = [i \in Importer |-> "idle"] /\ blk' = [i \in Importer |-> NoBlock]
    BY DEF StartOn
  <1>6. at' \in [Numbers -> Block \cup {NoBlock}] /\ at'[0] = Genesis
    <2>1. \A n \in Numbers : (\E b \in good : Number[b] = n) =>
              (CHOOSE b \in good : Number[b] = n) \in Block
      BY <1>1
    <2>2. (CHOOSE b \in good : Number[b] = 0) = Genesis
      BY <1>1, TreeFacts
    <2>3. \E b \in good : Number[b] = 0
      BY TreeFacts
    <2> QED BY <1>5, <2>1, <2>2, <2>3, TreeFacts DEF IndexOf
  <1>7. TypeOK'
    <2>1. job' \in Job
      BY <1>5, TreeFacts DEF Job, Idle
    <2> QED BY <1>1, <1>2, <1>4, <1>5, <1>6, <2>1 DEF TypeOK
  <1>8. NumbersFollow'
    <2>1. Queued(queue') = {}
      BY <1>5 DEF Queued
    <2> QED BY <1>1, <1>2, <1>5, <2>1 DEF NumbersFollow, Idle
  <1>9. GenesisStays' /\ KnownBlocksLoad' /\ WorkIsKnown'
    BY <1>5, <1>6 DEF GenesisStays, KnownBlocksLoad, WorkIsKnown, Idle
  <1>10. HeavierIsOffered'
    BY <1>3, <1>5 DEF HeavierIsOffered, Target, Idle
  <1> QED BY <1>7, <1>8, <1>9, <1>10 DEF IInv

LEMMA RestartKeeps ==
    ASSUME IInv, Restart
    PROVE  IInv'
  <1>1. numbered \in SUBSET Block /\ Genesis \in numbered /\ stored' \in SUBSET Block
        /\ numbered \subseteq stored'
    BY DEF IInv, TypeOK, GenesisStays, Restart
  <1>2. /\ Linked(numbered) \in SUBSET numbered /\ Genesis \in Linked(numbered)
        /\ \A c \in Linked(numbered) \ {Genesis} : Parent[c] \in Linked(numbered)
    BY <1>1, LinkedFacts
  <1> QED BY <1>1, <1>2, StartOnKeeps DEF Restart

LEMMA RestartRewindKeeps ==
    ASSUME IInv, NEW n \in Numbers, RestartRewind(n)
    PROVE  IInv'
  <1> DEFINE good == {b \in Linked(numbered) : Number[b] <= n}
  <1>1. numbered \in SUBSET Block /\ Genesis \in numbered
    BY DEF IInv, TypeOK, GenesisStays
  <1>2. /\ Linked(numbered) \in SUBSET numbered /\ Genesis \in Linked(numbered)
        /\ \A c \in Linked(numbered) \ {Genesis} : Parent[c] \in Linked(numbered)
    BY <1>1, LinkedFacts
  <1>3. n \in Nat /\ Genesis \in good /\ good \in SUBSET numbered
    BY <1>2, TreeFacts DEF Numbers
  <1>4. \A c \in good \ {Genesis} : Parent[c] \in good
    <2> SUFFICES ASSUME NEW c \in good \ {Genesis} PROVE Parent[c] \in good
      OBVIOUS
    <2>1. Parent[c] \in Linked(numbered) /\ c \in Block \ {Genesis} /\ Number[c] <= n
      BY <1>1, <1>2
    <2>2. Number[Parent[c]] <= n
      BY <1>3, <2>1, TreeFacts
    <2> QED BY <2>1, <2>2
  <1>5. StartOn(good) /\ stored' = good
    BY DEF RestartRewind
  <1> HIDE DEF good
  <1> QED BY <1>1, <1>3, <1>4, <1>5, StartOnKeeps

-----------------------------------------------------------------------------
(* The theorems.                                                            *)

\* Every step keeps the inductive invariant.
LEMMA NextKeeps == IInv /\ [Next]_vars => IInv'
  <1> SUFFICES ASSUME IInv, [Next]_vars PROVE IInv'
    OBVIOUS
  <1>1. CASE UNCHANGED vars
    BY <1>1 DEF IInv, TypeOK, NumbersFollow, GenesisStays, KnownBlocksLoad,
                WorkIsKnown, HeavierIsOffered, Target, Queued, vars
  <1>2. ASSUME NEW i \in Importer, Import(i) PROVE IInv'
    BY <1>2, ValidateKeeps, StoreKeeps, AddAltKeeps, AddExtendKeeps,
       AddReplaceKeeps DEF Import
  <1>3. CASE PutPeak
    BY <1>3, PutPeakClearKeeps, NormClearKeeps, NormNumberKeeps, NormDoneKeeps,
       RefetchStepKeeps, RefetchDoneKeeps DEF PutPeak
  <1>4. CASE Write \/ WriterCrash
    BY <1>4, WriteKeeps
  <1>5. CASE Restart
    BY <1>5, RestartKeeps
  <1>6. ASSUME NEW n \in Numbers, RestartRewind(n) PROVE IInv'
    BY <1>6, RestartRewindKeeps
  <1> QED BY <1>1, <1>2, <1>3, <1>4, <1>5, <1>6 DEF Next

\* The inductive invariant always holds: numbers given or asked for never
\* collide, whatever the Writer still has to write when put_peak or a crash
\* comes in between.
THEOREM Invariance == Spec => []IInv
  <1>1. Init => IInv
    BY InitIInv
  <1>2. IInv /\ [Next]_vars => IInv'
    BY NextKeeps
  <1> QED BY <1>1, <1>2, PTL DEF Spec

\* Every variable keeps its type; in particular the peak is a known block.
THEOREM TypeCorrect == Spec => []TypeOK
  <1>1. IInv => TypeOK
    BY DEF IInv
  <1> QED BY <1>1, Invariance, PTL

\* No two rows ever hold one block number, also in the middle of a
\* reorganisation and after a crash there (set_normative clears the number of
\* the old row before it gives it to the new one).
THEOREM NumbersAreUnique == Spec => []NumbersUnique
  <1>1. IInv => NumbersUnique
    BY DEF IInv, NumbersFollow, NumbersUnique
  <1> QED BY <1>1, Invariance, PTL

\* What block_by_hash? knows can be loaded, with all its ancestors, although
\* the rows are written later and by another process.
THEOREM KnownBlocksAlwaysLoad == Spec => []KnownBlocksLoad
  <1>1. IInv => KnownBlocksLoad
    BY DEF IInv
  <1> QED BY <1>1, Invariance, PTL

\* Fork choice (handle_call {:add_block, ..}): when no import is under way the
\* peak is a heaviest known block, in whatever order blocks were offered.
THEOREM HeaviestAlwaysWins == Spec => []HeaviestWins
  <1>1. IInv => HeaviestWins
    BY DEF IInv, HeavierIsOffered, HeaviestWins, Target
  <1> QED BY <1>1, Invariance, PTL
-----------------------------------------------------------------------------
(* Chains from the genesis block.  ChainTo(S, b) pins S down: there is one   *)
(* chain to each block, and Ancestors is it.                                *)

\* A block on top of the last block of a chain makes a longer chain.
LEMMA ChainExtends ==
    ASSUME NEW S \in SUBSET Block, NEW b \in Block \ {Genesis}, ChainTo(S, Parent[b])
    PROVE  ChainTo(S \cup {b}, b)
  <1>1. /\ Parent[b] \in S /\ \A c \in S : Number[c] <= Number[Parent[b]]
        /\ \A c \in S \ {Genesis} : Parent[c] \in S
        /\ \A c, d \in S : Number[c] = Number[d] => c = d
    BY DEF ChainTo
  <1>2. \A c \in S : Number[c] < Number[b]
    BY <1>1, TreeFacts
  <1>3. \A c \in S \cup {b} : Number[c] <= Number[b]
    BY <1>2, TreeFacts
  <1>4. \A c, d \in S \cup {b} : Number[c] = Number[d] => c = d
    BY <1>1, <1>2, TreeFacts
  <1>5. \A c \in (S \cup {b}) \ {Genesis} : Parent[c] \in S \cup {b}
    BY <1>1
  <1> QED BY <1>3, <1>4, <1>5 DEF ChainTo

\* A chain has a block of every number up to the last.
LEMMA ChainIsFull ==
    ASSUME NEW S \in SUBSET Block, NEW b \in Block, ChainTo(S, b),
           NEW n \in Nat, n <= Number[b]
    PROVE  \E c \in S : Number[c] = n
  <1> DEFINE N == {k \in Nat : k >= n /\ \E c \in S : Number[c] = k}
  <1>1. b \in S /\ \A c \in S \ {Genesis} : Parent[c] \in S
    BY DEF ChainTo
  <1>2. Number[b] \in N
    BY <1>1, TreeFacts
  <1>3. N \in SUBSET Nat
    OBVIOUS
  <1>4. PICK k \in N : \A j \in N : k <= j
    <2> HIDE DEF N
    <2> QED BY <1>2, <1>3, LeastNumber
  <1>5. PICK c \in S : Number[c] = k /\ k >= n /\ k \in Nat
    OBVIOUS
  <1>6. CASE k = n
    BY <1>5, <1>6
  <1>7. CASE k # n
    <2>1. c # Genesis
      BY <1>5, <1>7, TreeFacts
    <2>2. Parent[c] \in S /\ Number[Parent[c]] \in Nat /\ k = Number[Parent[c]] + 1
      BY <1>1, <1>5, <2>1, TreeFacts
    <2>3. Number[Parent[c]] \in N
      BY <1>5, <1>7, <2>2
    <2>4. k <= Number[Parent[c]]
      BY <1>4, <2>3
    <2> QED BY <1>5, <2>2, <2>4
  <1> QED BY <1>6, <1>7

\* There is one chain to a block: the highest block of one that the other
\* lacks would be the parent of one they share.
LEMMA ChainIsInside ==
    ASSUME NEW S \in SUBSET Block, NEW R \in SUBSET Block, NEW b \in Block,
           ChainTo(S, b), ChainTo(R, b)
    PROVE  S \subseteq R
  <1> DEFINE D == S \ R
             x == Top(D)
  <1> SUFFICES ASSUME D # {} PROVE FALSE
    OBVIOUS
  <1>1. x \in D /\ \A c \in D : Number[c] <= Number[x]
    <2> HIDE DEF D
    <2>1. D \in SUBSET Block
      BY DEF D
    <2> QED BY <2>1, TopIsHighest
  <1> HIDE DEF x
  <1>2. x \in S /\ x \notin R /\ x \in Block /\ b \in R
    BY <1>1 DEF ChainTo
  <1>3. Number[x] < Number[b]
    BY <1>2, TreeFacts DEF ChainTo
  <1>4. PICK n \in Nat : n = Number[x] + 1
    BY <1>2, TreeFacts
  <1>5. n <= Number[b]
    BY <1>2, <1>3, <1>4, TreeFacts
  <1>6. PICK y \in S : Number[y] = n
    BY <1>5, ChainIsFull
  <1>7. y \in R /\ y # Genesis
    BY <1>1, <1>2, <1>4, <1>6, TreeFacts
  <1>8. Parent[y] \in S /\ Parent[y] \in R /\ Number[Parent[y]] = Number[x]
    BY <1>2, <1>4, <1>6, <1>7, TreeFacts DEF ChainTo
  <1> QED BY <1>2, <1>8 DEF ChainTo

LEMMA ChainIsUnique ==
    ASSUME NEW S \in SUBSET Block, NEW R \in SUBSET Block, NEW b \in Block,
           ChainTo(S, b), ChainTo(R, b)
    PROVE  S = R
  BY ChainIsInside

\* A chain cut at one of its blocks is the chain to that block.
LEMMA ChainIsCut ==
    ASSUME NEW S \in SUBSET Block, NEW b \in Block, ChainTo(S, b), NEW c \in S
    PROVE  ChainTo({d \in S : Number[d] <= Number[c]}, c)
  <1> DEFINE R == {d \in S : Number[d] <= Number[c]}
  <1>1. c \in R
    BY TreeFacts
  <1>2. ASSUME NEW d \in R \ {Genesis} PROVE Parent[d] \in R
    <2>1. Parent[d] \in S /\ Number[d] = Number[Parent[d]] + 1 /\ Number[d] <= Number[c]
      BY TreeFacts DEF ChainTo
    <2> QED BY <2>1, TreeFacts
  <1> QED BY <1>1, <1>2 DEF ChainTo

\* The least set with b that is closed under parents.
Closed(S) == \A c \in S \ {Genesis} : Parent[c] \in S
Branch(b) == {c \in Block : \A S \in SUBSET Block : b \in S /\ Closed(S) => c \in S}

LEMMA BranchSteps ==
    ASSUME NEW b \in Block
    PROVE  Branch(b) = IF b = Genesis THEN {b} ELSE {b} \cup Branch(Parent[b])
  <1>1. b \in Branch(b) /\ Branch(b) \in SUBSET Block
    BY DEF Branch
  <1>2. CASE b = Genesis
    <2>1. Closed({b}) /\ {b} \in SUBSET Block
      BY <1>2 DEF Closed
    <2>2. Branch(b) \subseteq {b}
      BY <2>1 DEF Branch
    <2> QED BY <1>1, <1>2, <2>2
  <1>3. CASE b # Genesis
    <2> DEFINE p == Parent[b]
               T == {b} \cup Branch(p)
    <2>1. p \in Block
      BY <1>3, TreeFacts
    <2>2. p \in Branch(p) /\ T \in SUBSET Block /\ b \in T
      BY <2>1 DEF Branch
    <2>3. \A c \in Branch(p) \ {Genesis} : Parent[c] \in Branch(p)
      <3> SUFFICES ASSUME NEW c \in Branch(p) \ {Genesis}, NEW S \in SUBSET Block, p \in S, Closed(S)
                   PROVE  Parent[c] \in Block /\ Parent[c] \in S
        BY TreeFacts DEF Branch
      <3>1. c \in S /\ c \in Block
        BY DEF Branch
      <3> QED BY <3>1, TreeFacts DEF Closed
    <2>4. Closed(T)
      BY <2>2, <2>3 DEF Closed
    <2>5. Branch(b) \subseteq T
      BY <2>2, <2>4 DEF Branch
    <2>6. ASSUME NEW c \in Branch(p), NEW S \in SUBSET Block, b \in S, Closed(S)
          PROVE  c \in S
      <3>1. p \in S
        BY <1>3, <2>6 DEF Closed
      <3> QED BY <2>6, <3>1 DEF Branch
    <2>7. Branch(p) \subseteq Branch(b)
      BY <2>6 DEF Branch
    <2> QED BY <1>1, <1>3, <2>5, <2>7
  <1> QED BY <1>2, <1>3

\* The recursion that defines Ancestors has a solution.
LEMMA AncestorsStep ==
    ASSUME NEW b \in Block
    PROVE  Ancestors[b] = IF b = Genesis THEN {b} ELSE {b} \cup Ancestors[Parent[b]]
  <1> DEFINE Fits(f) == f = [x \in Block |-> IF x = Genesis THEN {x} ELSE {x} \cup f[Parent[x]]]
             g == [x \in Block |-> Branch(x)]
             a == CHOOSE f : Fits(f)
  <1>1. ASSUME NEW x \in Block
        PROVE  Branch(x) = IF x = Genesis THEN {x} ELSE {x} \cup g[Parent[x]]
    BY BranchSteps, TreeFacts
  <1>2. g = [x \in Block |-> IF x = Genesis THEN {x} ELSE {x} \cup g[Parent[x]]]
    <2>1. [x \in Block |-> Branch(x)]
          = [x \in Block |-> IF x = Genesis THEN {x} ELSE {x} \cup g[Parent[x]]]
      BY <1>1
    <2> QED BY <2>1, Zenon
  <1>3. \E f : Fits(f)
    BY <1>2, Zenon
  <1>4. Fits(a)
    <2> HIDE DEF Fits
    <2> QED BY <1>3
  <1>5. Ancestors = a
    BY DEF Ancestors
  <1> HIDE DEF a
  <1> QED BY <1>4, <1>5

LEMMA AncestorsAreChain ==
    ASSUME NEW b \in Block
    PROVE  Ancestors[b] \in SUBSET Block /\ ChainTo(Ancestors[b], b)
  <1> DEFINE Good(c) == Ancestors[c] \in SUBSET Block /\ ChainTo(Ancestors[c], c)
             N == {n \in Nat : \E c \in Block : Number[c] = n /\ ~ Good(c)}
  <1> HIDE DEF Good
  <1> SUFFICES ASSUME ~ Good(b) PROVE FALSE
    BY DEF Good
  <1>1. N \in SUBSET Nat /\ Number[b] \in N
    BY TreeFacts
  <1>2. PICK n \in N : \A k \in N : n <= k
    <2> HIDE DEF N
    <2> QED BY <1>1, LeastNumber
  <1>3. PICK c \in Block : Number[c] = n /\ ~ Good(c)
    OBVIOUS
  <1>4. CASE c = Genesis
    <2>1. Ancestors[c] = {c}
      BY <1>4, AncestorsStep
    <2>2. ChainTo({c}, c)
      BY <1>4, TreeFacts DEF ChainTo
    <2> QED BY <1>3, <2>1, <2>2 DEF Good
  <1>5. CASE c # Genesis
    <2>1. Parent[c] \in Block /\ Number[Parent[c]] \in Nat /\ Number[c] = Number[Parent[c]] + 1
      BY <1>5, TreeFacts
    <2>2. Good(Parent[c])
      <3>1. Number[Parent[c]] \notin N
        BY <1>2, <1>3, <2>1
      <3> QED BY <2>1, <3>1
    <2>3. Ancestors[c] = Ancestors[Parent[c]] \cup {c}
      BY <1>5, AncestorsStep
    <2>4. Ancestors[Parent[c]] \in SUBSET Block /\ ChainTo(Ancestors[Parent[c]], Parent[c])
      BY <2>2 DEF Good
    <2>5. ChainTo(Ancestors[Parent[c]] \cup {c}, c)
      BY <1>5, <2>4, ChainExtends
    <2> QED BY <1>3, <2>3, <2>4, <2>5 DEF Good
  <1> QED BY <1>4, <1>5

\* So what is a chain to b is what Ancestors says.
LEMMA ChainIsAncestors ==
    ASSUME NEW S \in SUBSET Block, NEW b \in Block, ChainTo(S, b)
    PROVE  S = Ancestors[b]
  BY AncestorsAreChain, ChainIsUnique

\* Two ancestors of a block are in line.
LEMMA AncestorsInLine ==
    ASSUME NEW b \in Block, NEW x \in Ancestors[b], NEW y \in Ancestors[b],
           Number[x] <= Number[y]
    PROVE  x \in Ancestors[y]
  <1>1. Ancestors[b] \in SUBSET Block /\ ChainTo(Ancestors[b], b)
    BY AncestorsAreChain
  <1>2. ChainTo({d \in Ancestors[b] : Number[d] <= Number[y]}, y)
    BY <1>1, ChainIsCut
  <1>3. {d \in Ancestors[b] : Number[d] <= Number[y]} = Ancestors[y]
    BY <1>1, <1>2, ChainIsAncestors
  <1> QED BY <1>3

LEMMA AncestorsOfAncestor ==
    ASSUME NEW b \in Block, NEW y \in Ancestors[b]
    PROVE  Ancestors[y] \subseteq Ancestors[b]
  <1>1. Ancestors[b] \in SUBSET Block /\ ChainTo(Ancestors[b], b)
    BY AncestorsAreChain
  <1>2. ChainTo({d \in Ancestors[b] : Number[d] <= Number[y]}, y)
    BY <1>1, ChainIsCut
  <1>3. {d \in Ancestors[b] : Number[d] <= Number[y]} = Ancestors[y]
    BY <1>1, <1>2, ChainIsAncestors
  <1> QED BY <1>3
-----------------------------------------------------------------------------
(* While the Writer has not crashed, the rows follow the peak.              *)

\* Every pending block has a request to insert it, and a number is asked for
\* a block that is a row already or is inserted before the number is written:
\* the UPDATE never misses its row.
QueueCarries(q, p, rows) ==
    /\ \A b \in p : \E n \in DOMAIN q : q[n] = Insert(b)
    /\ \A b \in Block, m \in DOMAIN q : q[m] = Numbering(b) =>
          \/ b \in rows
          \/ b \in p /\ \E n \in 1 .. m - 1 : q[n] = Insert(b)

\* set_normative on its way down: from its cursor up the rows are the branch,
\* below it they still are a chain.
RowsMeet ==
    /\ \/ job.cursor = job.target
       \/ job.target \in numbered /\ Number[job.cursor] < Number[job.target]
    /\ \A c \in numbered \ {Genesis} :
          \/ Parent[c] \in numbered /\ Number[c] <= Number[job.cursor]
          \/ Parent[c] = job.cursor
          \/ Parent[c] \in numbered /\ Number[Parent[c]] > Number[job.cursor]

RowsInPlace ==
    /\ job.step \in {"idle", "wait"} => ChainTo(numbered \cup Queued(queue), peak)
    /\ job.step = "norm" => RowsMeet
    /\ job.step = "index" => ChainTo(numbered, job.target)

RowsFollow ==
    /\ job.step = "wait" => job.cursor = job.target
    /\ writerCrashes = 0 => QueueCarries(queue, pending, stored) /\ RowsInPlace

\* What is left of a queue when its first request is written.
LEMMA TailFacts ==
    ASSUME NEW q \in Seq(Request), q # <<>>
    PROVE  /\ 1 \in DOMAIN q /\ q[1] = Head(q)
           /\ \A n \in DOMAIN q : n \in Nat /\ n >= 1
           /\ \A n \in DOMAIN q \ {1} : n - 1 \in DOMAIN Tail(q) /\ Tail(q)[n - 1] = q[n]
           /\ \A n \in DOMAIN Tail(q) : n \in Nat /\ n + 1 \in DOMAIN q /\ Tail(q)[n] = q[n + 1]
  <1>1. Len(q) \in Nat /\ Len(q) >= 1 /\ DOMAIN q = 1 .. Len(q)
    OBVIOUS
  <1>2. DOMAIN Tail(q) = 1 .. Len(q) - 1 /\ \A n \in 1 .. Len(q) - 1 : Tail(q)[n] = q[n + 1]
    OBVIOUS
  <1>3. q[1] = Head(q)
    OBVIOUS
  <1> QED BY <1>1, <1>2, <1>3

LEMMA RequestsDiffer ==
    \A b, c : Insert(b) # Numbering(c) /\ (Insert(b) = Insert(c) => b = c)
              /\ (Numbering(b) = Numbering(c) => b = c)
  BY DEF Insert, Numbering

LEMMA EarlierStays ==
    ASSUME NEW q \in Seq(Request), q # <<>>, NEW m \in Nat, m + 1 \in DOMAIN q,
           NEW r, r # Head(q), NEW n \in 1 .. (m + 1) - 1, q[n] = r
    PROVE  \E k \in 1 .. m - 1 : Tail(q)[k] = r
  <1>1. n \in Nat /\ n <= m /\ n >= 1
    OBVIOUS
  <1>2. n \in DOMAIN q
    <2>1. DOMAIN q = 1 .. Len(q) /\ Len(q) \in Nat
      OBVIOUS
    <2> QED BY ONLY <1>1, <2>1, m \in Nat, m + 1 \in DOMAIN q
  <1>3. n # 1
    BY TailFacts
  <1>4. Tail(q)[n - 1] = r
    BY <1>2, <1>3, TailFacts
  <1>5. n - 1 \in 1 .. m - 1
    BY ONLY <1>1, <1>3, m \in Nat
  <1> QED BY <1>4, <1>5

\* Written in order, no number is lost.
LEMMA QueueWritten ==
    ASSUME TypeOK, NEW q \in Seq(Request), NEW p \in SUBSET Block,
           QueueCarries(q, p, stored), WriteFirst(q, p)
    PROVE  /\ QueueCarries(queue', pending', stored')
           /\ numbered' \cup Queued(queue') = numbered \cup Queued(q)
  <1>1. q # <<>> /\ queue' = Tail(q)
    BY DEF WriteFirst, WriteBlock, WriteNumber
  <1>2. /\ 1 \in DOMAIN q /\ q[1] = Head(q)
        /\ \A n \in DOMAIN q : n \in Nat /\ n >= 1
        /\ \A n \in DOMAIN q \ {1} : n - 1 \in DOMAIN queue' /\ queue'[n - 1] = q[n]
        /\ \A n \in DOMAIN queue' : n \in Nat /\ n + 1 \in DOMAIN q /\ queue'[n] = q[n + 1]
    BY <1>1, TailFacts
  <1>3. Queued(queue') \subseteq Queued(q)
    BY <1>2 DEF Queued
  <1>4. CASE WriteBlock(q, p)
    <2>1. PICK b \in Block :
              /\ Head(q) = Insert(b)
              /\ stored' = IF b \in p THEN stored \cup {b} ELSE stored
              /\ pending' = p \ {b}
              /\ numbered' = numbered
      BY <1>4 DEF WriteBlock
    <2>2. Queued(q) \subseteq Queued(queue')
      <3> SUFFICES ASSUME NEW c \in Block, NEW n \in DOMAIN q, q[n] = Numbering(c)
                   PROVE  \E m \in DOMAIN queue' : queue'[m] = Numbering(c)
        BY DEF Queued
      <3>1. n # 1
        BY <1>2, <2>1, RequestsDiffer
      <3> QED BY <1>2, <3>1
    <2>3. ASSUME NEW c \in pending' PROVE \E n \in DOMAIN queue' : queue'[n] = Insert(c)
      <3>1. c \in p /\ c # b
        BY <2>1
      <3>2. PICK n \in DOMAIN q : q[n] = Insert(c)
        BY <3>1 DEF QueueCarries
      <3>3. n # 1
        BY <1>2, <2>1, <3>1, <3>2, RequestsDiffer
      <3> QED BY <1>2, <3>2, <3>3
    <2>4. ASSUME NEW c \in Block, NEW m \in DOMAIN queue', queue'[m] = Numbering(c)
          PROVE  \/ c \in stored'
                 \/ c \in pending' /\ \E n \in 1 .. m - 1 : queue'[n] = Insert(c)
      <3>1. m \in Nat /\ m + 1 \in DOMAIN q /\ q[m + 1] = Numbering(c)
        BY <1>2, <2>4
      <3>2. \/ c \in stored
            \/ c \in p /\ \E n \in 1 .. (m + 1) - 1 : q[n] = Insert(c)
        BY <3>1 DEF QueueCarries
      <3>3. CASE c \in stored \/ c = b
        BY <2>1, <3>2, <3>3
      <3>4. CASE c \notin stored /\ c # b
        <4>1. PICK n \in 1 .. (m + 1) - 1 : q[n] = Insert(c)
          BY <3>2, <3>4
        <4>2. Insert(c) # Head(q)
          BY <2>1, <3>4, RequestsDiffer
        <4>3. \E k \in 1 .. m - 1 : queue'[k] = Insert(c)
          BY <1>1, <3>1, <4>1, <4>2, EarlierStays
        <4> QED BY <2>1, <3>2, <3>4, <4>3
      <3> QED BY <3>3, <3>4
    <2>5. QueueCarries(queue', pending', stored')
      BY <2>3, <2>4 DEF QueueCarries
    <2> QED BY <1>3, <2>1, <2>2, <2>5
  <1>5. CASE WriteNumber(q, p)
    <2>1. PICK b \in Block :
              /\ Head(q) = Numbering(b)
              /\ numbered' = numbered \cup ({b} \cap stored)
              /\ pending' = p
              /\ stored' = stored
      BY <1>5 DEF WriteNumber
    <2>2. b \in stored
      <3>1. ~ \E n \in 1 .. 1 - 1 : q[n] = Insert(b)
        OBVIOUS
      <3> QED BY <1>2, <2>1, <3>1 DEF QueueCarries
    <2>3. Queued(q) \subseteq Queued(queue') \cup {b}
      <3> SUFFICES ASSUME NEW c \in Block, NEW n \in DOMAIN q, q[n] = Numbering(c), c # b
                   PROVE  \E m \in DOMAIN queue' : queue'[m] = Numbering(c)
        BY DEF Queued
      <3>1. n # 1
        BY <1>2, <2>1, RequestsDiffer
      <3> QED BY <1>2, <3>1
    <2>4. b \in Queued(q)
      BY <1>2, <2>1 DEF Queued
    <2>5. ASSUME NEW c \in pending' PROVE \E n \in DOMAIN queue' : queue'[n] = Insert(c)
      <3>1. PICK n \in DOMAIN q : q[n] = Insert(c)
        BY <2>1 DEF QueueCarries
      <3>2. n # 1
        BY <1>2, <2>1, <3>1, RequestsDiffer
      <3> QED BY <1>2, <3>1, <3>2
    <2>6. ASSUME NEW c \in Block, NEW m \in DOMAIN queue', queue'[m] = Numbering(c)
          PROVE  \/ c \in stored'
                 \/ c \in pending' /\ \E n \in 1 .. m - 1 : queue'[n] = Insert(c)
      <3>1. m \in Nat /\ m + 1 \in DOMAIN q /\ q[m + 1] = Numbering(c)
        BY <1>2, <2>6
      <3>2. \/ c \in stored
            \/ c \in p /\ \E n \in 1 .. (m + 1) - 1 : q[n] = Insert(c)
        BY <3>1 DEF QueueCarries
      <3>3. CASE c \in stored
        BY <2>1, <3>3
      <3>4. CASE c \notin stored
        <4>1. PICK n \in 1 .. (m + 1) - 1 : q[n] = Insert(c)
          BY <3>2, <3>4
        <4>2. Insert(c) # Head(q)
          BY <2>1, RequestsDiffer
        <4>3. \E k \in 1 .. m - 1 : queue'[k] = Insert(c)
          BY <1>1, <3>1, <4>1, <4>2, EarlierStays
        <4> QED BY <2>1, <3>2, <3>4, <4>3
      <3> QED BY <3>3, <3>4
    <2>7. QueueCarries(queue', pending', stored')
      BY <2>5, <2>6 DEF QueueCarries
    <2> QED BY <1>3, <2>1, <2>2, <2>3, <2>4, <2>7
  <1> QED BY <1>4, <1>5 DEF WriteFirst

\* A request at the end of the queue.
LEMMA AppendedRequest ==
    ASSUME NEW q \in Seq(Request), NEW r \in Request
    PROVE  LET a == Append(q, r) IN
           /\ \A n \in DOMAIN q : n \in DOMAIN a /\ a[n] = q[n] /\ n \in Nat
           /\ \A n \in DOMAIN a : n \in DOMAIN q \/ (n = Len(q) + 1 /\ a[n] = r)
           /\ Len(q) + 1 \in DOMAIN a /\ a[Len(q) + 1] = r
           /\ DOMAIN q = 1 .. Len(q) /\ Len(q) \in Nat
  <1> DEFINE a == Append(q, r)
  <1>1. a \in Seq(Request) /\ Len(a) = Len(q) + 1 /\ a[Len(q) + 1] = r
        /\ \A n \in 1 .. Len(q) : a[n] = q[n]
    OBVIOUS
  <1>2. DOMAIN a = 1 .. Len(q) + 1 /\ DOMAIN q = 1 .. Len(q) /\ Len(q) \in Nat
    BY <1>1
  <1> HIDE DEF a
  <1>3. \A n \in DOMAIN a : n \in DOMAIN q \/ n = Len(q) + 1
    BY <1>2
  <1>4. \A n \in DOMAIN q : n \in DOMAIN a /\ a[n] = q[n] /\ n \in Nat
    BY <1>1, <1>2
  <1> QED BY <1>1, <1>2, <1>3, <1>4 DEF a

LEMMA InsertionCarries ==
    ASSUME NEW q \in Seq(Request), NEW p, NEW rows, NEW b \in Block, QueueCarries(q, p, rows)
    PROVE  QueueCarries(Append(q, Insert(b)), p \cup {b}, rows)
  <1> DEFINE a == Append(q, Insert(b))
  <1>1. Insert(b) \in Request
    BY DEF Insert, Request
  <1>2. /\ \A n \in DOMAIN q : n \in DOMAIN a /\ a[n] = q[n] /\ n \in Nat
        /\ \A n \in DOMAIN a : n \in DOMAIN q \/ (n = Len(q) + 1 /\ a[n] = Insert(b))
        /\ Len(q) + 1 \in DOMAIN a /\ a[Len(q) + 1] = Insert(b)
        /\ DOMAIN q = 1 .. Len(q) /\ Len(q) \in Nat
    BY <1>1, AppendedRequest
  <1> HIDE DEF a
  <1>3. ASSUME NEW c \in p \cup {b} PROVE \E n \in DOMAIN a : a[n] = Insert(c)
    BY <1>2 DEF QueueCarries
  <1>4. ASSUME NEW c \in Block, NEW m \in DOMAIN a, a[m] = Numbering(c)
        PROVE  \/ c \in rows
               \/ c \in p \cup {b} /\ \E n \in 1 .. m - 1 : a[n] = Insert(c)
    <2>1. m \in DOMAIN q /\ q[m] = Numbering(c)
      BY <1>2, <1>4, RequestsDiffer
    <2>2. \A n \in 1 .. m - 1 : n \in DOMAIN q
      BY <1>2, <2>1
    <2> QED BY <1>2, <2>1, <2>2 DEF QueueCarries
  <1>5. QueueCarries(a, p \cup {b}, rows)
    BY <1>3, <1>4 DEF QueueCarries
  <1> QED BY <1>5 DEF a

LEMMA NumberingCarries ==
    ASSUME NEW q \in Seq(Request), NEW p, NEW rows, NEW b \in Block, QueueCarries(q, p, rows),
           b \in rows \cup p
    PROVE  /\ QueueCarries(Append(q, Numbering(b)), p, rows)
           /\ Queued(Append(q, Numbering(b))) = Queued(q) \cup {b}
  <1> DEFINE a == Append(q, Numbering(b))
  <1>1. Numbering(b) \in Request
    BY DEF Numbering, Request
  <1>2. /\ \A n \in DOMAIN q : n \in DOMAIN a /\ a[n] = q[n] /\ n \in Nat
        /\ \A n \in DOMAIN a : n \in DOMAIN q \/ (n = Len(q) + 1 /\ a[n] = Numbering(b))
        /\ Len(q) + 1 \in DOMAIN a /\ a[Len(q) + 1] = Numbering(b)
        /\ DOMAIN q = 1 .. Len(q) /\ Len(q) \in Nat
    BY <1>1, AppendedRequest
  <1> HIDE DEF a
  <1>3. ASSUME NEW c \in p PROVE \E n \in DOMAIN a : a[n] = Insert(c)
    BY <1>2 DEF QueueCarries
  <1>4. ASSUME NEW c \in Block, NEW m \in DOMAIN a, a[m] = Numbering(c)
        PROVE  \/ c \in rows
               \/ c \in p /\ \E n \in 1 .. m - 1 : a[n] = Insert(c)
    <2>1. CASE m \in DOMAIN q
      <3>1. q[m] = Numbering(c) /\ \A n \in 1 .. m - 1 : n \in DOMAIN q
        BY <1>2, <1>4, <2>1
      <3> QED BY <1>2, <2>1, <3>1 DEF QueueCarries
    <2>2. CASE m \notin DOMAIN q
      <3>1. m = Len(q) + 1 /\ c = b
        BY <1>2, <1>4, <2>2, RequestsDiffer
      <3>2. CASE b \in p
        <4>1. PICK n \in DOMAIN q : q[n] = Insert(b)
          BY <3>2 DEF QueueCarries
        <4>2. n \in 1 .. m - 1 /\ a[n] = Insert(b)
          BY <1>2, <3>1, <4>1
        <4> QED BY <3>1, <3>2, <4>2
      <3> QED BY <3>1, <3>2
    <2> QED BY <2>1, <2>2
  <1>5. QueueCarries(a, p, rows)
    BY <1>3, <1>4 DEF QueueCarries
  <1>6. Queued(q) \cup {b} \subseteq Queued(a)
    BY <1>2 DEF Queued
  <1>7. Queued(a) \subseteq Queued(q) \cup {b}
    BY AppendNumbering DEF a
  <1> QED BY <1>5, <1>6, <1>7 DEF a
\* Steps that leave the rows alone.
LEMMA RowsStay ==
    ASSUME RowsFollow, UNCHANGED <<disk, writer, peak, writerCrashes>>,
           \/ job' = job
           \/ job.step = "idle" /\ \E b \in Block : job' = [step |-> "wait", target |-> b, cursor |-> b]
    PROVE  RowsFollow'
  <1>1. UNCHANGED <<stored, numbered, pending, queue, peak, writerCrashes>>
    BY DEF disk, writer
  <1>2. CASE job' = job
    <2>1. RowsInPlace' <=> RowsInPlace
      BY <1>1, <1>2 DEF RowsInPlace, RowsMeet, ChainTo, Queued
    <2> QED BY <1>1, <1>2, <2>1 DEF RowsFollow
  <1>3. CASE job.step = "idle" /\ \E b \in Block : job' = [step |-> "wait", target |-> b, cursor |-> b]
    <2>1. job'.step = "wait" /\ job'.cursor = job'.target
      BY <1>3
    <2>2. RowsInPlace => RowsInPlace'
      BY <1>1, <1>3, <2>1 DEF RowsInPlace, ChainTo, Queued
    <2> QED BY <1>1, <2>1, <2>2 DEF RowsFollow
  <1> QED BY <1>2, <1>3

\* Steps in which the Writer writes a request.
LEMMA RowsWritten ==
    ASSUME IInv, RowsFollow, UNCHANGED <<peak, job, writerCrashes>>, numbered \subseteq numbered',
           writerCrashes = 0 =>
              /\ QueueCarries(queue', pending', stored')
              /\ numbered' \cup Queued(queue') = numbered \cup Queued(queue)
    PROVE  RowsFollow'
  <1> SUFFICES ASSUME writerCrashes = 0 PROVE RowsInPlace'
    BY DEF RowsFollow
  <1>1. RowsInPlace /\ numbered' \cup Queued(queue') = numbered \cup Queued(queue)
    BY DEF RowsFollow
  <1>2. job.step \in {"norm", "index"} => numbered' = numbered
    BY <1>1 DEF IInv, NumbersFollow
  <1>3. job.step \in {"idle", "wait"} => ChainTo(numbered' \cup Queued(queue'), peak)
    BY <1>1 DEF RowsInPlace
  <1> QED BY <1>1, <1>2, <1>3 DEF RowsInPlace, RowsMeet, ChainTo

LEMMA WriteRows ==
    ASSUME IInv, RowsFollow, Write
    PROVE  RowsFollow'
  <1>1. WriteFirst(queue, pending) /\ UNCHANGED <<peak, job, writerCrashes>>
    BY DEF Write, memory, bounds
  <1>2. numbered \subseteq numbered'
    BY <1>1 DEF WriteFirst, WriteBlock, WriteNumber
  <1>3. queue \in Seq(Request) /\ pending \in SUBSET Block /\ TypeOK
    BY DEF IInv, TypeOK
  <1>4. writerCrashes = 0 => QueueCarries(queue, pending, stored)
    BY DEF RowsFollow
  <1>5. writerCrashes = 0 =>
              /\ QueueCarries(queue', pending', stored')
              /\ numbered' \cup Queued(queue') = numbered \cup Queued(queue)
    BY <1>1, <1>3, <1>4, QueueWritten
  <1> QED BY <1>1, <1>2, <1>5, RowsWritten

LEMMA StoreRows ==
    ASSUME IInv, RowsFollow, NEW i \in Importer, Store(i)
    PROVE  RowsFollow'
  <1>1. PICK b \in Block : b = blk[i]
    BY DEF Store, IInv, WorkIsKnown
  <1>2. SubmitNewBlock(b) /\ UNCHANGED <<peak, job, writerCrashes>>
    BY <1>1 DEF Store, bounds
  <1> DEFINE p == pending \cup {b}
             q == Append(queue, Insert(b))
  <1>3. queue \in Seq(Request) /\ p \in SUBSET Block /\ TypeOK
    BY DEF IInv, TypeOK
  <1>4. q \in Seq(Request) /\ Queued(q) = Queued(queue)
    BY <1>3, AppendInsert
  <1>5. writerCrashes = 0 => QueueCarries(q, p, stored)
    BY <1>3, InsertionCarries DEF RowsFollow
  <1>6. WriteFirst(q, p) \/ (pending' = p /\ queue' = q /\ UNCHANGED disk)
    BY <1>2 DEF SubmitNewBlock
  <1> HIDE DEF p, q
  <1>7. CASE WriteFirst(q, p)
    <2>1. numbered \subseteq numbered'
      BY <1>7 DEF WriteFirst, WriteBlock, WriteNumber
    <2>2. writerCrashes = 0 =>
              /\ QueueCarries(queue', pending', stored')
              /\ numbered' \cup Queued(queue') = numbered \cup Queued(queue)
      BY <1>3, <1>4, <1>5, <1>7, QueueWritten
    <2> QED BY <1>2, <2>1, <2>2, RowsWritten
  <1>8. CASE pending' = p /\ queue' = q /\ UNCHANGED disk
    <2>1. numbered \subseteq numbered'
      BY <1>8 DEF disk
    <2>2. writerCrashes = 0 =>
              /\ QueueCarries(queue', pending', stored')
              /\ numbered' \cup Queued(queue') = numbered \cup Queued(queue)
      BY <1>4, <1>5, <1>8 DEF disk
    <2> QED BY <1>2, <2>1, <2>2, RowsWritten
  <1> QED BY <1>6, <1>7, <1>8

\* Extending main lengthens the chain of rows, given or asked for.
LEMMA AddExtendRows ==
    ASSUME IInv, RowsFollow, NEW i \in Importer, AddExtend(i)
    PROVE  RowsFollow'
  <1>1. PICK b \in Block \ {Genesis} : b = blk[i] /\ b \in known
    BY DEF AddExtend, Offered, IInv, WorkIsKnown
  <1>2. /\ job.step = "idle" /\ Parent[b] = peak
        /\ queue' = Append(queue, Numbering(b)) /\ peak' = b
        /\ UNCHANGED <<stored, numbered, pending, job, writerCrashes>>
    BY <1>1 DEF AddExtend, Offered, disk, bounds
  <1> SUFFICES ASSUME writerCrashes = 0
               PROVE  QueueCarries(queue', pending', stored') /\ RowsInPlace'
    BY <1>2 DEF RowsFollow
  <1>3. /\ QueueCarries(queue, pending, stored)
        /\ ChainTo(numbered \cup Queued(queue), peak)
    BY <1>2 DEF RowsFollow, RowsInPlace
  <1>4. b \in stored \cup pending /\ queue \in Seq(Request)
        /\ numbered \cup Queued(queue) \in SUBSET Block
    BY <1>1 DEF IInv, TypeOK, KnownBlocksLoad, Queued
  <1>5. QueueCarries(queue', pending, stored) /\ Queued(queue') = Queued(queue) \cup {b}
    BY <1>2, <1>3, <1>4, NumberingCarries
  <1>6. ChainTo((numbered \cup Queued(queue)) \cup {b}, b)
    BY <1>2, <1>3, <1>4, ChainExtends
  <1>7. (numbered \cup Queued(queue)) \cup {b} = numbered' \cup Queued(queue')
    BY <1>2, <1>5
  <1>8. ChainTo(numbered' \cup Queued(queue'), peak')
    BY <1>2, <1>6, <1>7
  <1>9. RowsInPlace'
    BY <1>2, <1>8 DEF RowsInPlace
  <1> QED BY <1>2, <1>5, <1>9

LEMMA PutPeakClearRows ==
    ASSUME IInv, RowsFollow, PutPeakClear
    PROVE  RowsFollow'
  <1>1. /\ job' = [step |-> "norm", target |-> job.target, cursor |-> job.cursor]
        /\ job.step = "wait" /\ queue = <<>>
        /\ numbered' = {b \in numbered : Number[b] <= Number[job.target]}
        /\ UNCHANGED <<stored, pending, queue, peak, writerCrashes>>
    BY JobFacts DEF PutPeakClear, writer, memory, importers, bounds
  <1>2. job.cursor = job.target /\ job.target \in Block /\ numbered \in SUBSET Block
    BY <1>1, JobFacts DEF RowsFollow, IInv, TypeOK
  <1> SUFFICES ASSUME writerCrashes = 0 PROVE RowsMeet'
    BY <1>1 DEF RowsFollow, RowsInPlace
  <1>3. ChainTo(numbered, peak)
    <2>1. Queued(queue) = {}
      BY <1>1 DEF Queued
    <2>2. numbered \cup Queued(queue) = numbered
      BY <2>1
    <2> QED BY <1>1, <2>2 DEF RowsFollow, RowsInPlace
  <1>4. ASSUME NEW c \in numbered' \ {Genesis}
        PROVE  Parent[c] \in numbered' /\ Number[c] <= Number[job.target]
    <2>1. Parent[c] \in numbered /\ Number[c] <= Number[job.target]
      BY <1>1, <1>3 DEF ChainTo
    <2>2. Number[Parent[c]] <= Number[job.target]
      BY <1>1, <1>2, <2>1, TreeFacts
    <2> QED BY <1>1, <2>1, <2>2
  <1> QED BY <1>1, <1>2, <1>4 DEF RowsMeet

LEMMA NormClearRows ==
    ASSUME IInv, RowsFollow, NormClear
    PROVE  RowsFollow'
  <1>1. /\ job.step = "norm" /\ Holders \notin {{}, {job.cursor}}
        /\ numbered' = numbered \ Holders
        /\ UNCHANGED <<stored, pending, queue, peak, job, writerCrashes>>
    BY DEF NormClear, Normalising, writer, memory, importers, bounds
  <1>2. job.cursor \in Block /\ job.target \in Block /\ numbered \in SUBSET Block
    BY <1>1, JobFacts DEF IInv, TypeOK
  <1> SUFFICES ASSUME writerCrashes = 0 PROVE RowsMeet'
    BY <1>1 DEF RowsFollow, RowsInPlace
  <1>3. RowsMeet
    BY <1>1 DEF RowsFollow, RowsInPlace
  <1>4. \A c \in numbered : Number[c] = Number[job.cursor] <=> c \in Holders
    BY DEF Holders
  <1>5. job.target \in numbered /\ Number[job.cursor] < Number[job.target] => job.target \in numbered'
    BY <1>1, <1>2, <1>4, TreeFacts
  <1>6. ASSUME NEW c \in numbered' \ {Genesis}
        PROVE  \/ Parent[c] \in numbered' /\ Number[c] <= Number[job.cursor]
               \/ Parent[c] = job.cursor
               \/ Parent[c] \in numbered' /\ Number[Parent[c]] > Number[job.cursor]
    <2>1. c \in numbered /\ c \notin Holders /\ Number[c] = Number[Parent[c]] + 1
          /\ Number[c] \in Nat /\ Number[Parent[c]] \in Nat /\ Number[job.cursor] \in Nat
      BY <1>1, <1>2, TreeFacts
    <2>2. CASE Parent[c] \in numbered /\ Number[c] <= Number[job.cursor]
      <3>1. Number[Parent[c]] # Number[job.cursor]
        BY <2>1, <2>2
      <3> QED BY <1>1, <1>4, <2>2, <3>1
    <2>3. CASE Parent[c] = job.cursor
      BY <2>3
    <2>4. CASE Parent[c] \in numbered /\ Number[Parent[c]] > Number[job.cursor]
      <3>1. Number[Parent[c]] # Number[job.cursor]
        BY <2>1, <2>4
      <3> QED BY <1>1, <1>4, <2>4, <3>1
    <2> QED BY <1>3, <2>1, <2>2, <2>3, <2>4 DEF RowsMeet
  <1> QED BY <1>1, <1>3, <1>5, <1>6 DEF RowsMeet

\* The row of the cursor exists: wait_for_flush has found it inserted.
LEMMA CursorIsStored ==
    ASSUME IInv, Normalising
    PROVE  job.cursor \in stored /\ job.cursor \in Block
  BY JobFacts DEF IInv, KnownBlocksLoad, Normalising

LEMMA NormNumberRows ==
    ASSUME IInv, RowsFollow, NormNumber
    PROVE  RowsFollow'
  <1> DEFINE c == job.cursor
  <1>1. /\ job.step = "norm" /\ Holders = {}
        /\ numbered' = numbered \cup {c}
        /\ job' = [step |-> "norm", target |-> job.target, cursor |-> Parent[c]]
        /\ UNCHANGED <<stored, pending, queue, peak, writerCrashes>>
    BY JobFacts, CursorIsStored DEF NormNumber, Normalising, writer, memory, importers, bounds
  <1>2. \A b \in numbered : Number[b] # Number[c]
    BY <1>1 DEF Holders
  <1>3. c # Genesis /\ c \in Block /\ job.target \in Block /\ numbered \in SUBSET Block
    BY <1>1, <1>2, JobFacts DEF IInv, GenesisStays, TypeOK
  <1> SUFFICES ASSUME writerCrashes = 0 PROVE RowsMeet'
    BY <1>1 DEF RowsFollow, RowsInPlace
  <1>4. RowsMeet
    BY <1>1 DEF RowsFollow, RowsInPlace
  <1> DEFINE p == Parent[c]
  <1>5. p \in Block /\ Number[p] \in Nat /\ Number[c] \in Nat /\ Number[c] = Number[p] + 1
    BY <1>3, TreeFacts
  <1>6. job.target \in numbered' /\ Number[p] < Number[job.target]
    BY <1>1, <1>3, <1>4, <1>5, TreeFacts DEF RowsMeet
  <1> HIDE DEF p, c
  <1>7. ASSUME NEW b \in numbered' \ {Genesis}
        PROVE  \/ Parent[b] \in numbered' /\ Number[b] <= Number[p]
               \/ Parent[b] = p
               \/ Parent[b] \in numbered' /\ Number[Parent[b]] > Number[p]
    <2>1. b \in Block \ {Genesis}
      BY <1>1, <1>3
    <2>2. Number[b] \in Nat /\ Number[Parent[b]] \in Nat /\ Number[b] = Number[Parent[b]] + 1
      BY <2>1, TreeFacts
    <2>3. CASE b = c
      BY <2>3 DEF p
    <2>4. CASE b # c
      <3>1. b \in numbered \ {Genesis} /\ Number[b] # Number[c]
        BY <1>1, <1>2, <2>4
      <3>2. \/ Parent[b] \in numbered /\ Number[b] <= Number[c]
            \/ Parent[b] = c
            \/ Parent[b] \in numbered /\ Number[Parent[b]] > Number[c]
        BY <1>4, <3>1 DEF RowsMeet, c
      <3>3. Parent[b] = c => Parent[b] \in numbered' /\ Number[Parent[b]] > Number[p]
        BY <1>1, <1>5
      <3>4. Number[b] <= Number[c] => Number[b] <= Number[p]
        BY <1>5, <2>2, <3>1
      <3>5. Number[Parent[b]] > Number[c] => Number[Parent[b]] > Number[p]
        BY <1>5, <2>2
      <3> QED BY <1>1, <3>2, <3>3, <3>4, <3>5
    <2> QED BY <2>3, <2>4
  <1>8. job'.cursor = p /\ job'.target = job.target
    BY <1>1 DEF p
  <1> QED BY <1>6, <1>7, <1>8 DEF RowsMeet

\* Where the branch meets the chain, the rows are the branch.
LEMMA NormDoneRows ==
    ASSUME IInv, RowsFollow, NormDone
    PROVE  RowsFollow'
  <1>1. /\ job.step = "norm" /\ Holders = {job.cursor}
        /\ job' = [step |-> "index", target |-> job.target, cursor |-> job.target]
        /\ UNCHANGED <<stored, numbered, pending, queue, peak, writerCrashes>>
    BY JobFacts DEF NormDone, Normalising, disk, writer, memory, importers, bounds
  <1> SUFFICES ASSUME writerCrashes = 0 PROVE ChainTo(numbered, job.target)
    BY <1>1 DEF RowsFollow, RowsInPlace, ChainTo
  <1>2. RowsMeet
    BY <1>1 DEF RowsFollow, RowsInPlace
  <1>3. job.cursor \in numbered
    BY <1>1 DEF Holders
  <1>4. job.target \in numbered /\ \A c \in numbered \ {Genesis} : Parent[c] \in numbered
    BY <1>2, <1>3 DEF RowsMeet
  <1>5. /\ \A c \in numbered : Number[c] <= Number[job.target]
        /\ \A c, d \in numbered : Number[c] = Number[d] => c = d
    BY <1>1 DEF IInv, NumbersFollow
  <1> QED BY <1>4, <1>5 DEF ChainTo

LEMMA RefetchRows ==
    ASSUME IInv, RowsFollow, RefetchStep \/ RefetchDone
    PROVE  RowsFollow'
  <1>1. UNCHANGED <<stored, numbered, pending, queue, writerCrashes>> /\ job.step = "index"
    BY DEF RefetchStep, RefetchDone, disk, writer, bounds
  <1>2. Queued(queue) = {}
    BY <1>1 DEF IInv, NumbersFollow
  <1>3. numbered' \cup Queued(queue') = numbered
    BY <1>1, <1>2 DEF Queued
  <1>4. CASE RefetchStep
    <2>1. job' = [step |-> "index", target |-> job.target, cursor |-> Parent[job.cursor]]
      BY <1>1, <1>4, JobFacts DEF RefetchStep
    <2> QED BY <1>1, <2>1 DEF RowsFollow, RowsInPlace, ChainTo
  <1>5. CASE RefetchDone
    <2>1. job'.step = "idle" /\ peak' = job.target
      BY <1>5 DEF RefetchDone, Idle
    <2> QED BY <1>1, <1>3, <2>1 DEF RowsFollow, RowsInPlace
  <1> QED BY <1>4, <1>5

\* The rows a node starts on are a chain again, whatever the crash left.
LEMMA GoodIsChain ==
    ASSUME IInv, NEW good \in SUBSET numbered, Genesis \in good,
           \A c \in good \ {Genesis} : Parent[c] \in good
    PROVE  ChainTo(good, Top(good)) /\ Top(good) \in Block /\ good \in SUBSET Block
  <1>1. good \in SUBSET Block /\ \A c, d \in good : Number[c] = Number[d] => c = d
    BY DEF IInv, TypeOK, NumbersFollow
  <1>2. Top(good) \in good /\ \A c \in good : Number[c] <= Number[Top(good)]
    BY <1>1, TopIsHighest
  <1> QED BY <1>1, <1>2 DEF ChainTo

LEMMA StartOnRows ==
    ASSUME IInv, NEW good \in SUBSET numbered, Genesis \in good,
           \A c \in good \ {Genesis} : Parent[c] \in good, StartOn(good)
    PROVE  RowsFollow'
  <1>1. numbered' = good /\ pending' = {} /\ queue' = <<>> /\ peak' = Top(good) /\ job' = Idle
    BY DEF StartOn
  <1>2. numbered' \cup Queued(queue') = good
    BY <1>1 DEF Queued
  <1>3. ChainTo(good, Top(good))
    BY GoodIsChain
  <1>4. QueueCarries(queue', pending', stored')
    BY <1>1 DEF QueueCarries
  <1>5. job'.step = "idle"
    BY <1>1 DEF Idle
  <1>6. RowsInPlace'
    BY <1>1, <1>2, <1>3, <1>5 DEF RowsInPlace
  <1> QED BY <1>4, <1>5, <1>6 DEF RowsFollow

\* The rows Restart and RestartRewind start on.
Starting(good) ==
    /\ good \in SUBSET numbered /\ Genesis \in good
    /\ \A c \in good \ {Genesis} : Parent[c] \in good
    /\ StartOn(good)

LEMMA RestartStarts ==
    ASSUME IInv, Restart
    PROVE  Starting(Linked(numbered))
  <1>1. numbered \in SUBSET Block /\ Genesis \in numbered
    BY DEF IInv, TypeOK, GenesisStays
  <1> QED BY <1>1, LinkedFacts DEF Restart, Starting

LEMMA RewindStarts ==
    ASSUME IInv, NEW n \in Numbers, RestartRewind(n)
    PROVE  Starting({b \in Linked(numbered) : Number[b] <= n})
  <1> DEFINE good == {b \in Linked(numbered) : Number[b] <= n}
  <1>1. numbered \in SUBSET Block /\ Genesis \in numbered
    BY DEF IInv, TypeOK, GenesisStays
  <1>2. /\ Linked(numbered) \in SUBSET numbered /\ Genesis \in Linked(numbered)
        /\ \A c \in Linked(numbered) \ {Genesis} : Parent[c] \in Linked(numbered)
    BY <1>1, LinkedFacts
  <1>3. n \in Nat /\ Genesis \in good /\ good \in SUBSET numbered
    BY <1>2, TreeFacts DEF Numbers
  <1>4. \A c \in good \ {Genesis} : Parent[c] \in good
    <2> SUFFICES ASSUME NEW c \in good \ {Genesis} PROVE Parent[c] \in good
      OBVIOUS
    <2>1. Parent[c] \in Linked(numbered) /\ c \in Block \ {Genesis} /\ Number[c] <= n
      BY <1>1, <1>2
    <2>2. Number[Parent[c]] <= n
      BY <1>3, <2>1, TreeFacts
    <2> QED BY <2>1, <2>2
  <1>5. StartOn(good)
    BY DEF RestartRewind
  <1> HIDE DEF good
  <1>6. Starting(good)
    BY <1>3, <1>4, <1>5 DEF Starting
  <1> QED BY <1>6 DEF good

LEMMA RowsNext == IInv /\ RowsFollow /\ [Next]_vars => RowsFollow'
  <1> SUFFICES ASSUME IInv, RowsFollow, [Next]_vars PROVE RowsFollow'
    OBVIOUS
  <1>1. CASE UNCHANGED vars
    BY <1>1, RowsStay DEF vars, disk, writer
  <1>2. ASSUME NEW i \in Importer, Import(i) PROVE RowsFollow'
    <2>1. ASSUME NEW b \in Block, Validate(i, b) PROVE RowsFollow'
      BY <2>1, RowsStay DEF Validate, memory, bounds
    <2>2. CASE AddAlt(i)
      BY <2>2, RowsStay DEF AddAlt, memory, bounds
    <2>3. CASE AddReplace(i)
      <3>1. blk[i] \in Block
        BY <2>3 DEF AddReplace, Offered, IInv, WorkIsKnown
      <3> QED BY <2>3, <3>1, RowsStay DEF AddReplace, Offered, memory, bounds
    <2> QED BY <1>2, <2>1, <2>2, <2>3, StoreRows, AddExtendRows DEF Import
  <1>3. CASE PutPeak
    BY <1>3, PutPeakClearRows, NormClearRows, NormNumberRows, NormDoneRows, RefetchRows
       DEF PutPeak
  <1>4. CASE Write
    BY <1>4, WriteRows
  <1>5. CASE WriterCrash
    <2>1. writerCrashes' # 0 /\ job' = job
      BY <1>5 DEF WriterCrash, memory, IInv, TypeOK
    <2> QED BY <2>1 DEF RowsFollow
  <1>6. CASE Restart
    BY <1>6, RestartStarts, StartOnRows DEF Starting
  <1>7. ASSUME NEW n \in Numbers, RestartRewind(n) PROVE RowsFollow'
    BY <1>7, RewindStarts, StartOnRows DEF Starting
  <1> QED BY <1>1, <1>2, <1>3, <1>4, <1>5, <1>6, <1>7 DEF Next

LEMMA RowsInit == Init => RowsFollow
  <1> SUFFICES ASSUME Init PROVE RowsFollow
    OBVIOUS
  <1>1. numbered = {Genesis} /\ pending = {} /\ queue = <<>> /\ peak = Genesis /\ job.step = "idle"
    BY DEF Init, Idle
  <1>2. numbered \cup Queued(queue) = {Genesis}
    BY <1>1 DEF Queued
  <1>3. ChainTo({Genesis}, Genesis)
    BY TreeFacts DEF ChainTo
  <1>4. QueueCarries(queue, pending, stored)
    BY <1>1 DEF QueueCarries
  <1>5. RowsInPlace
    BY <1>1, <1>2, <1>3 DEF RowsInPlace
  <1> QED BY <1>1, <1>4, <1>5 DEF RowsFollow

LEMMA RowsAlwaysFollow == Spec => [](IInv /\ RowsFollow)
  <1>1. Init => IInv /\ RowsFollow
    BY InitIInv, RowsInit
  <1>2. (IInv /\ RowsFollow) /\ [Next]_vars => (IInv /\ RowsFollow)'
    BY NextKeeps, RowsNext
  <1> QED BY <1>1, <1>2, PTL DEF Spec

\* Once the Writer has caught up, the numbered rows are the chain that ends in
\* the peak, after any sequence of reorganisations and restarts: put_peak waits
\* for the queue, set_normative works down to where the branch meets the rows,
\* and a row is there when its number is written.  Only a crash of the Writer
\* alone, whose requests for numbers die with it, is left out.
THEOREM DiskAlwaysFollows == Spec => []DiskFollowsPeak
  <1>1. IInv /\ RowsFollow => DiskFollowsPeak
    <2> SUFFICES ASSUME RowsFollow, job.step = "idle", queue = <<>>, writerCrashes = 0
                 PROVE  ChainTo(numbered, peak)
      BY DEF DiskFollowsPeak
    <2>1. numbered \cup Queued(queue) = numbered
      BY DEF Queued
    <2> QED BY <2>1 DEF RowsFollow, RowsInPlace
  <1> QED BY <1>1, RowsAlwaysFollow, PTL
-----------------------------------------------------------------------------
(* A crash keeps the fork.                                                  *)

\* What both branches have.
Common == Ancestors[peak] \cap Ancestors[job.target]

\* Rows are on the branch of the peak, and while set_normative goes down the
\* new branch those above its cursor are on that one; what both branches have
\* never loses its number on the way.
BranchesKept ==
    /\ job.step \in {"idle", "wait"} =>
          numbered \cup Queued(queue) \subseteq Ancestors[peak]
    /\ job.step = "norm" =>
          /\ job.cursor \in Ancestors[job.target]
          /\ \A c \in numbered :
                IF Number[c] > Number[job.cursor] THEN c \in Ancestors[job.target]
                ELSE c \in Ancestors[peak]
          /\ writerCrashes = 0 => Common \subseteq numbered
    /\ job.step = "index" => numbered \subseteq Ancestors[job.target]

LEMMA BranchesStay ==
    ASSUME BranchesKept, UNCHANGED <<peak, writerCrashes>>, numbered' = numbered,
           Queued(queue') \subseteq Queued(queue),
           \/ job' = job
           \/ job.step = "idle" /\ job'.step = "wait"
    PROVE  BranchesKept'
  <1>1. CASE job' = job
    BY <1>1 DEF BranchesKept, Common
  <1>2. CASE job.step = "idle" /\ job'.step = "wait"
    BY <1>2 DEF BranchesKept
  <1> QED BY <1>1, <1>2

\* The Writer writes only numbers that were asked for.
LEMMA BranchesWritten ==
    ASSUME IInv, BranchesKept, NEW new, Wrote(new), UNCHANGED <<peak, job>>,
           writerCrashes' = 0 => writerCrashes = 0
    PROVE  BranchesKept'
  <1>1. /\ numbered \subseteq numbered' /\ numbered' \subseteq numbered \cup Queued(queue)
        /\ Queued(queue') \subseteq Queued(queue)
    BY DEF Wrote
  <1>2. job.step \in {"norm", "index"} => numbered' = numbered
    BY <1>1 DEF IInv, NumbersFollow
  <1>3. numbered' \cup Queued(queue') \subseteq numbered \cup Queued(queue)
    BY <1>1
  <1> QED BY <1>2, <1>3 DEF BranchesKept, Common

LEMMA AddExtendBranches ==
    ASSUME IInv, BranchesKept, NEW i \in Importer, AddExtend(i)
    PROVE  BranchesKept'
  <1>1. PICK b \in Block \ {Genesis} : b = blk[i]
    BY DEF AddExtend, Offered, IInv, WorkIsKnown
  <1>2. /\ job.step = "idle" /\ Parent[b] = peak
        /\ queue' = Append(queue, Numbering(b)) /\ peak' = b
        /\ UNCHANGED <<numbered, job>>
    BY <1>1 DEF AddExtend, Offered, disk, bounds
  <1>3. Queued(queue') \subseteq Queued(queue) \cup {b}
    BY <1>2, AppendNumbering DEF IInv, TypeOK
  <1>4. Ancestors[b] = {b} \cup Ancestors[peak]
    BY <1>2, AncestorsStep
  <1>5. numbered \cup Queued(queue) \subseteq Ancestors[peak]
    BY <1>2 DEF BranchesKept
  <1>6. numbered' \cup Queued(queue') \subseteq Ancestors[peak']
    BY <1>2, <1>3, <1>4, <1>5
  <1> QED BY <1>2, <1>6 DEF BranchesKept

LEMMA PutPeakClearBranches ==
    ASSUME IInv, RowsFollow, BranchesKept, PutPeakClear
    PROVE  BranchesKept'
  <1>1. /\ job' = [step |-> "norm", target |-> job.target, cursor |-> job.cursor]
        /\ job.step = "wait" /\ queue = <<>>
        /\ numbered' = {b \in numbered : Number[b] <= Number[job.target]}
        /\ UNCHANGED <<peak, writerCrashes>>
    BY JobFacts DEF PutPeakClear, memory, bounds
  <1>2. job.cursor = job.target /\ job.target \in Block /\ peak \in Block
        /\ numbered \in SUBSET Block
    BY <1>1, JobFacts DEF RowsFollow, IInv, TypeOK
  <1>3. /\ ChainTo(Ancestors[job.target], job.target)
        /\ Ancestors[job.target] \in SUBSET Block
    BY <1>2, AncestorsAreChain
  <1>4. job.target \in Ancestors[job.target]
    BY <1>3 DEF ChainTo
  <1>5. numbered \subseteq Ancestors[peak]
    BY <1>1 DEF BranchesKept
  <1>6. \A c \in numbered' : c \in Ancestors[peak] /\ ~ (Number[c] > Number[job.target])
    BY <1>1, <1>2, <1>5, TreeFacts
  <1>7. ASSUME writerCrashes = 0 PROVE Common \subseteq numbered'
    <2>1. numbered \cup Queued(queue) = numbered
      BY <1>1 DEF Queued
    <2>2. ChainTo(numbered, peak)
      BY <1>1, <1>7, <2>1 DEF RowsFollow, RowsInPlace
    <2>3. numbered = Ancestors[peak]
      BY <1>2, <2>2, ChainIsAncestors
    <2>4. \A c \in Common : c \in numbered /\ Number[c] <= Number[job.target]
      BY <1>3, <2>3 DEF Common, ChainTo
    <2> QED BY <1>1, <2>4
  <1>8. Common' = Common
    BY <1>1 DEF Common
  <1> QED BY <1>1, <1>2, <1>4, <1>6, <1>7, <1>8 DEF BranchesKept

LEMMA NormClearBranches ==
    ASSUME IInv, BranchesKept, NormClear
    PROVE  BranchesKept'
  <1>1. /\ job.step = "norm" /\ Holders \notin {{}, {job.cursor}}
        /\ numbered' = numbered \ Holders
        /\ UNCHANGED <<peak, job, writerCrashes>>
    BY DEF NormClear, Normalising, memory, bounds
  <1>2. job.cursor \in Block /\ job.target \in Block /\ job.cursor \in Ancestors[job.target]
    BY <1>1, JobFacts DEF BranchesKept
  <1>3. ChainTo(Ancestors[job.target], job.target)
    BY <1>2, AncestorsAreChain
  <1>4. ASSUME NEW d \in Holders PROVE d \notin Common
    <2>1. d \in numbered /\ Number[d] = Number[job.cursor]
      BY DEF Holders
    <2>2. \A c \in Holders : c = d
      BY <2>1 DEF Holders, IInv, NumbersFollow
    <2>3. d # job.cursor
      BY <1>1, <2>2
    <2> QED BY <1>2, <1>3, <2>1, <2>3 DEF Common, ChainTo
  <1>5. writerCrashes = 0 => Common \subseteq numbered'
    BY <1>1, <1>4 DEF BranchesKept
  <1>6. Common' = Common
    BY <1>1 DEF Common
  <1> QED BY <1>1, <1>5, <1>6 DEF BranchesKept

LEMMA NormNumberBranches ==
    ASSUME IInv, BranchesKept, NormNumber
    PROVE  BranchesKept'
  <1> DEFINE c == job.cursor
             p == Parent[c]
  <1>1. /\ job.step = "norm" /\ Holders = {}
        /\ numbered' = numbered \cup {c}
        /\ job' = [step |-> "norm", target |-> job.target, cursor |-> p]
        /\ UNCHANGED <<peak, writerCrashes>>
    BY JobFacts, CursorIsStored DEF NormNumber, Normalising, memory, bounds
  <1>2. \A b \in numbered : Number[b] # Number[c]
    BY <1>1 DEF Holders
  <1>3. c # Genesis /\ c \in Block /\ job.target \in Block /\ numbered \in SUBSET Block
    BY <1>1, <1>2, JobFacts DEF IInv, GenesisStays, TypeOK
  <1>4. p \in Block /\ Number[p] \in Nat /\ Number[c] = Number[p] + 1
    BY <1>3, TreeFacts
  <1>5. c \in Ancestors[job.target] /\ ChainTo(Ancestors[job.target], job.target)
    BY <1>1, <1>3, AncestorsAreChain DEF BranchesKept
  <1>6. p \in Ancestors[job.target]
    BY <1>3, <1>5 DEF ChainTo
  <1>7. ASSUME NEW b \in numbered'
        PROVE  IF Number[b] > Number[p] THEN b \in Ancestors[job.target]
               ELSE b \in Ancestors[peak]
    <2>1. CASE b = c
      BY <1>4, <1>5, <2>1
    <2>2. CASE b # c
      <3>1. b \in numbered /\ Number[b] # Number[c] /\ Number[b] \in Nat
        BY <1>1, <1>2, <1>3, <2>2, TreeFacts
      <3>2. IF Number[b] > Number[c] THEN b \in Ancestors[job.target]
            ELSE b \in Ancestors[peak]
        BY <1>1, <3>1 DEF BranchesKept
      <3>3. Number[b] > Number[p] <=> Number[b] > Number[c]
        BY <1>4, <3>1
      <3> QED BY <3>2, <3>3
    <2> QED BY <2>1, <2>2
  <1>8. Common' = Common /\ (writerCrashes = 0 => Common \subseteq numbered')
    BY <1>1 DEF BranchesKept, Common
  <1> HIDE DEF p, c
  <1> QED BY <1>1, <1>6, <1>7, <1>8 DEF BranchesKept

\* The cursor is on both branches when it meets the rows, and so is all below.
LEMMA NormDoneBranches ==
    ASSUME IInv, BranchesKept, NormDone
    PROVE  BranchesKept'
  <1> DEFINE c == job.cursor
  <1>1. /\ job.step = "norm" /\ Holders = {c}
        /\ job' = [step |-> "index", target |-> job.target, cursor |-> job.target]
        /\ UNCHANGED <<numbered, peak, writerCrashes>>
    BY JobFacts DEF NormDone, Normalising, disk, memory, bounds
  <1>2. c \in Block /\ job.target \in Block /\ peak \in Block /\ numbered \in SUBSET Block
    BY <1>1, JobFacts DEF IInv, TypeOK
  <1>3. c \in numbered /\ c \in Ancestors[job.target]
    BY <1>1 DEF Holders, BranchesKept
  <1>4. c \in Ancestors[peak]
    <2>1. ~ (Number[c] > Number[c])
      BY <1>2, TreeFacts
    <2> QED BY <1>1, <1>3, <2>1 DEF BranchesKept
  <1>5. ASSUME NEW b \in numbered PROVE b \in Ancestors[job.target]
    <2>1. CASE Number[b] > Number[c]
      BY <1>1, <2>1 DEF BranchesKept
    <2>2. CASE ~ (Number[b] > Number[c])
      <3>1. b \in Ancestors[peak] /\ Number[b] <= Number[c]
        BY <1>1, <1>2, <2>2, TreeFacts DEF BranchesKept
      <3>2. b \in Ancestors[c]
        BY <1>2, <1>4, <3>1, AncestorsInLine
      <3>3. Ancestors[c] \subseteq Ancestors[job.target]
        BY <1>2, <1>3, AncestorsOfAncestor
      <3> QED BY <3>2, <3>3
    <2> QED BY <2>1, <2>2
  <1> QED BY <1>1, <1>5 DEF BranchesKept

LEMMA RefetchBranches ==
    ASSUME IInv, BranchesKept, RefetchStep \/ RefetchDone
    PROVE  BranchesKept'
  <1>1. UNCHANGED <<numbered, queue>> /\ job.step = "index"
    BY DEF RefetchStep, RefetchDone, disk, writer
  <1>2. Queued(queue') = {} /\ numbered \subseteq Ancestors[job.target]
    BY <1>1 DEF IInv, NumbersFollow, BranchesKept
  <1>3. CASE RefetchStep
    <2>1. job' = [step |-> "index", target |-> job.target, cursor |-> Parent[job.cursor]]
      BY <1>1, <1>3, JobFacts DEF RefetchStep
    <2> QED BY <1>1, <1>2, <2>1 DEF BranchesKept
  <1>4. CASE RefetchDone
    <2>1. job'.step = "idle" /\ peak' = job.target
      BY <1>4 DEF RefetchDone, Idle
    <2> QED BY <1>1, <1>2, <2>1 DEF BranchesKept
  <1> QED BY <1>3, <1>4

LEMMA StartBranches ==
    ASSUME IInv, NEW good, Starting(good)
    PROVE  BranchesKept'
  <1>1. numbered' = good /\ queue' = <<>> /\ peak' = Top(good) /\ job'.step = "idle"
    BY DEF Starting, StartOn, Idle
  <1>2. ChainTo(good, Top(good)) /\ Top(good) \in Block /\ good \in SUBSET Block
    BY GoodIsChain DEF Starting
  <1>3. good = Ancestors[Top(good)]
    BY <1>2, ChainIsAncestors
  <1>4. numbered' \cup Queued(queue') = good
    BY <1>1 DEF Queued
  <1> QED BY <1>1, <1>3, <1>4 DEF BranchesKept

LEMMA BranchesNext == IInv /\ RowsFollow /\ BranchesKept /\ [Next]_vars => BranchesKept'
  <1> SUFFICES ASSUME IInv, RowsFollow, BranchesKept, [Next]_vars PROVE BranchesKept'
    OBVIOUS
  <1>1. CASE UNCHANGED vars
    BY <1>1, BranchesStay DEF vars
  <1>2. ASSUME NEW i \in Importer, Import(i) PROVE BranchesKept'
    <2>1. ASSUME NEW b \in Block, Validate(i, b) PROVE BranchesKept'
      BY <2>1, BranchesStay DEF Validate, memory, bounds, disk, writer
    <2>2. CASE AddAlt(i)
      BY <2>2, BranchesStay DEF AddAlt, memory, bounds, disk, writer
    <2>3. CASE AddReplace(i)
      BY <2>3, BranchesStay DEF AddReplace, Offered, memory, bounds, disk, writer
    <2>4. CASE Store(i)
      <3>1. blk[i] \in Block /\ SubmitNewBlock(blk[i]) /\ UNCHANGED <<peak, job, writerCrashes>>
        BY <2>4 DEF Store, IInv, WorkIsKnown, bounds
      <3>2. Wrote({blk[i]})
        BY <3>1, SubmitWrites DEF IInv
      <3> QED BY <3>1, <3>2, BranchesWritten
    <2> QED BY <1>2, <2>1, <2>2, <2>3, <2>4, AddExtendBranches DEF Import
  <1>3. CASE PutPeak
    BY <1>3, PutPeakClearBranches, NormClearBranches, NormNumberBranches, NormDoneBranches,
       RefetchBranches DEF PutPeak
  <1>4. CASE Write
    <2>1. UNCHANGED <<peak, job, writerCrashes>> /\ WriteFirst(queue, pending)
      BY <1>4 DEF Write, memory, bounds
    <2>2. pending \cup {} = pending
      OBVIOUS
    <2>3. Wrote({})
      BY <2>1, <2>2, WriteFirstWrites DEF IInv, TypeOK
    <2> QED BY <2>1, <2>3, BranchesWritten
  <1>5. CASE WriterCrash
    <2>1. UNCHANGED <<peak, job>> /\ writerCrashes' # 0
      BY <1>5 DEF WriterCrash, memory, IInv, TypeOK
    <2>2. Wrote({})
      BY <1>5, CrashWrites DEF IInv
    <2> QED BY <2>1, <2>2, BranchesWritten
  <1>6. CASE Restart
    BY <1>6, RestartStarts, StartBranches
  <1>7. ASSUME NEW n \in Numbers, RestartRewind(n) PROVE BranchesKept'
    BY <1>7, RewindStarts, StartBranches
  <1> QED BY <1>1, <1>2, <1>3, <1>4, <1>5, <1>6, <1>7 DEF Next

LEMMA BranchesInit == Init => BranchesKept
  <1> SUFFICES ASSUME Init PROVE BranchesKept
    OBVIOUS
  <1>1. numbered = {Genesis} /\ queue = <<>> /\ peak = Genesis /\ job.step = "idle"
    BY DEF Init, Idle
  <1>2. numbered \cup Queued(queue) = {Genesis}
    BY <1>1 DEF Queued
  <1>3. Ancestors[Genesis] = {Genesis}
    BY AncestorsStep, TreeFacts
  <1> QED BY <1>1, <1>2, <1>3 DEF BranchesKept

\* Every row is on one of the two branches.
LEMMA RowsOnBranches ==
    ASSUME IInv, BranchesKept
    PROVE  numbered \subseteq Ancestors[peak] \cup Ancestors[Target]
  <1>1. job.step \in {"idle", "wait", "norm", "index"}
    BY DEF IInv, TypeOK, Job
  <1>2. CASE job.step \in {"idle", "wait"}
    BY <1>2 DEF BranchesKept
  <1>3. CASE job.step \in {"norm", "index"}
    BY <1>3 DEF BranchesKept, Target
  <1> QED BY <1>1, <1>2, <1>3

\* What both branches have is read again after the restart.
LEMMA CommonIsLinked ==
    ASSUME IInv, RowsFollow, BranchesKept, job.step \in {"norm", "index"}, writerCrashes = 0
    PROVE  Common \subseteq Linked(numbered)
  <1>1. /\ job.target \in Block /\ job.cursor \in Block /\ peak \in Block
        /\ numbered \in SUBSET Block
    BY JobFacts DEF IInv, TypeOK
  <1>2. CASE job.step = "index"
    <2>1. ChainTo(numbered, job.target)
      BY <1>2 DEF RowsFollow, RowsInPlace
    <2>2. numbered = Ancestors[job.target]
      BY <1>1, <2>1, ChainIsAncestors
    <2>3. Linked(numbered) = numbered
      BY <2>1 DEF Linked, ChainTo
    <2> QED BY <2>2, <2>3 DEF Common
  <1>3. CASE job.step = "norm"
    <2>1. Common \subseteq numbered /\ job.cursor \in Ancestors[job.target] /\ RowsMeet
      BY <1>3 DEF BranchesKept, RowsFollow, RowsInPlace
    <2>2. ASSUME NEW x \in Common, NEW c \in numbered \ {Genesis}, Number[c] <= Number[x]
          PROVE  Parent[c] \in numbered
      <3>1. x \in Block /\ c \in Block \ {Genesis} /\ x \in Ancestors[job.target] /\ x \in Ancestors[peak]
        BY <1>1, <2>1 DEF Common
      <3>2. Number[c] = Number[Parent[c]] + 1 /\ Number[Parent[c]] \in Nat /\ Number[x] \in Nat
        BY <3>1, TreeFacts
      <3>3. CASE Parent[c] = job.cursor
        <4>1. Number[job.cursor] <= Number[x]
          BY <2>2, <3>2, <3>3
        <4>2. job.cursor \in Ancestors[x]
          BY <1>1, <2>1, <3>1, <4>1, AncestorsInLine
        <4>3. job.cursor \in Ancestors[peak]
          BY <1>1, <3>1, <4>2, AncestorsOfAncestor
        <4> QED BY <2>1, <3>3, <4>3 DEF Common
      <3> QED BY <2>1, <3>3 DEF RowsMeet
    <2> QED BY <2>1, <2>2 DEF Linked
  <1> QED BY <1>2, <1>3

\* A step that restarts the node and deletes no row is Restart.
LEMMA RestartStep ==
    ASSUME IInv, [Next]_vars, restarts' # restarts, stored' = stored
    PROVE  Restart
  <1>1. restarts \in Nat
    BY BoundsAssumption DEF IInv, TypeOK
  <1>2. ASSUME NEW i \in Importer PROVE ~ Import(i)
    BY DEF Import, Validate, Store, AddAlt, AddExtend, AddReplace, bounds
  <1>3. ~ PutPeak
    BY DEF PutPeak, PutPeakClear, NormClear, NormNumber, NormDone, RefetchStep, RefetchDone, bounds
  <1>4. ~ Write /\ ~ WriterCrash
    BY DEF Write, WriterCrash, bounds
  <1>5. ASSUME NEW n \in Numbers, RestartRewind(n) PROVE FALSE
    <2>1. stored = {b \in Linked(numbered) : Number[b] <= n}
      BY <1>5 DEF RestartRewind
    <2>2. Top(Linked(numbered)) \in Linked(numbered) /\ Linked(numbered) \subseteq numbered
      <3>1. numbered \in SUBSET Block /\ Genesis \in numbered
        BY DEF IInv, TypeOK, GenesisStays
      <3>2. /\ Linked(numbered) \subseteq numbered /\ Genesis \in Linked(numbered)
        BY <3>1, LinkedFacts
      <3> QED BY <3>1, <3>2, TopIsHighest
    <2>3. Top(Linked(numbered)) \in stored /\ Top(Linked(numbered)) \in Block
      BY <2>2 DEF IInv, TypeOK
    <2>4. Number[Top(Linked(numbered))] <= n
      BY <2>1, <2>3
    <2>5. n < Number[Top(Linked(numbered))]
      BY <1>5 DEF RestartRewind
    <2>6. n \in Nat /\ Number[Top(Linked(numbered))] \in Nat
      BY <2>3, TreeFacts DEF Numbers
    <2> QED BY <2>4, <2>5, <2>6
  <1> QED BY <1>2, <1>3, <1>4, <1>5 DEF Next, vars

LEMMA RestartFork ==
    ASSUME IInv, RowsFollow, BranchesKept, Restart
    PROVE  /\ peak' \in Ancestors[peak] \cup Ancestors[Target]
           /\ (job.step \in {"norm", "index"} /\ writerCrashes = 0) =>
                 Ancestors[peak] \cap Ancestors[Target] \subseteq Ancestors[peak']
  <1> DEFINE good == Linked(numbered)
  <1>1. good \in SUBSET numbered /\ peak' = Top(good)
    BY RestartStarts DEF Starting, StartOn
  <1>2. ChainTo(good, peak') /\ peak' \in Block /\ good \in SUBSET Block
    BY <1>1, RestartStarts, GoodIsChain DEF Starting
  <1> HIDE DEF good
  <1>3. peak' \in good /\ good = Ancestors[peak']
    BY <1>2, ChainIsAncestors DEF ChainTo
  <1>4. peak' \in Ancestors[peak] \cup Ancestors[Target]
    BY <1>1, <1>3, RowsOnBranches
  <1>5. ASSUME job.step \in {"norm", "index"}, writerCrashes = 0
        PROVE  Ancestors[peak] \cap Ancestors[Target] \subseteq Ancestors[peak']
    <2>1. Common \subseteq good
      BY <1>5, CommonIsLinked DEF good
    <2>2. Target = job.target
      BY <1>5 DEF Target
    <2> QED BY <1>3, <2>1, <2>2 DEF Common
  <1> QED BY <1>4, <1>5

\* A crash in the middle of a reorganisation, which updates row by row with no
\* transaction around it: the node restarts on the old branch or on the new
\* one, and not below the fork once the rows have begun to change.
THEOREM RestartsKeepFork == Spec => RestartKeepsFork
  <1>1. Init => IInv /\ RowsFollow /\ BranchesKept
    BY InitIInv, RowsInit, BranchesInit
  <1>2. (IInv /\ RowsFollow /\ BranchesKept) /\ [Next]_vars
        => (IInv /\ RowsFollow /\ BranchesKept)'
    BY NextKeeps, RowsNext, BranchesNext
  <1>3. (IInv /\ RowsFollow /\ BranchesKept) /\ [Next]_vars
        => [(restarts' # restarts /\ stored' = stored) =>
              /\ peak' \in Ancestors[peak] \cup Ancestors[Target]
              /\ (job.step \in {"norm", "index"} /\ writerCrashes = 0) =>
                    Ancestors[peak] \cap Ancestors[Target] \subseteq Ancestors[peak']]_vars
    BY RestartStep, RestartFork
  <1> QED BY <1>1, <1>2, <1>3, PTL DEF Spec, RestartKeepsFork
-----------------------------------------------------------------------------
(* The number index, where a heavier block is a higher one: in dev mode, and *)
(* wherever blocks have equal difficulty.  Without that ets_refetch leaves   *)
(* numbers behind (BranchIsNormative), so the assumption is needed.          *)

HeavierIsHigher == \A b, c \in Block : Total[b] > Total[c] => Number[b] > Number[c]

\* Up to k the index is linked by parents, and empty above the peak.
LinkedUpTo(k) ==
    \A n \in Numbers \ {0} : n <= k =>
        IF n > Number[peak] THEN at[n] = NoBlock
        ELSE at[n] # NoBlock /\ at[n - 1] = Parent[at[n]]

\* The index of the chain that ends in the peak.
IndexTo(b) ==
    \A n \in Numbers :
        IF n > Number[b] THEN at[n] = NoBlock
        ELSE /\ n = Number[b] => at[n] = b
             /\ n > 0 => at[n] # NoBlock /\ at[n - 1] = Parent[at[n]]

\* ets_refetch on its way down: above the cursor the index is the new branch.
IndexBetween ==
    /\ \A n \in Numbers : n > Number[job.target] => at[n] = NoBlock
    /\ \/ job.cursor = job.target
       \/ at[Number[job.target]] = job.target /\ Number[job.cursor] < Number[job.target]
    /\ \A n \in Numbers : Number[job.cursor] < n /\ n <= Number[job.target] =>
          /\ at[n] # NoBlock
          /\ Parent[at[n]] = IF n - 1 = Number[job.cursor] THEN job.cursor ELSE at[n - 1]
    /\ LinkedUpTo(Number[job.cursor])

IndexKept ==
    /\ job.step # "idle" => Number[job.target] > Number[peak]
    /\ job.step = "index" => IndexBetween
    /\ job.step # "index" => IndexTo(peak)

LEMMA NumbersFacts ==
    /\ \A n \in Numbers : n \in Nat
    /\ \A n \in Numbers \ {0} : n - 1 \in Numbers
  <1>1. \A n \in Numbers : n \in Nat
    BY TreeFacts DEF Numbers
  <1>2. ASSUME NEW n \in Numbers \ {0} PROVE n - 1 \in Numbers
    <2>1. PICK b \in Block : Number[b] = n
      BY DEF Numbers
    <2>2. b # Genesis
      BY <2>1, TreeFacts
    <2>3. Parent[b] \in Block /\ Number[Parent[b]] \in Nat /\ n = Number[Parent[b]] + 1
      BY <2>1, <2>2, TreeFacts
    <2>4. n - 1 = Number[Parent[b]]
      BY <2>3
    <2> QED BY <2>3, <2>4, TreeFacts
  <1> QED BY <1>1, <1>2

LEMMA IndexStays ==
    ASSUME IndexKept, UNCHANGED <<at, peak>>,
           \/ job' = job
           \/ job.step = "idle" /\ job'.step = "wait" /\ Number[job'.target] > Number[peak]
           \/ job.step # "idle" /\ job'.step # "idle" /\ job'.target = job.target
              /\ (job.step = "index" <=> job'.step = "index")
              /\ (job.step = "index" => job' = job)
    PROVE  IndexKept'
  BY DEF IndexKept, IndexTo, IndexBetween, LinkedUpTo

LEMMA AddExtendIndex ==
    ASSUME IInv, IndexKept, NEW i \in Importer, AddExtend(i)
    PROVE  IndexKept'
  <1>1. PICK b \in Block \ {Genesis} : b = blk[i]
    BY DEF AddExtend, Offered, IInv, WorkIsKnown
  <1>2. /\ job.step = "idle" /\ Parent[b] = peak /\ job' = job
        /\ at' = [at EXCEPT ![Number[b]] = b] /\ peak' = b
    BY <1>1 DEF AddExtend, Offered
  <1>3. /\ Number[b] = Number[peak] + 1 /\ Number[peak] \in Nat /\ Number[b] \in Nat
        /\ Number[b] \in Numbers /\ Number[peak] \in Numbers /\ b # NoBlock
    BY <1>2, TreeFacts, TreeAssumption
  <1>4. at \in [Numbers -> Block \cup {NoBlock}] /\ IndexTo(peak)
    BY <1>2 DEF IInv, TypeOK, IndexKept
  <1>5. at'[Number[b]] = b /\ \A n \in Numbers : n # Number[b] => at'[n] = at[n]
    BY <1>2, <1>3, <1>4
  <1>6. at[Number[peak]] = peak
    BY <1>3, <1>4 DEF IndexTo
  <1>7. ASSUME NEW n \in Numbers
        PROVE  IF n > Number[b] THEN at'[n] = NoBlock
               ELSE /\ n = Number[b] => at'[n] = b
                    /\ n > 0 => at'[n] # NoBlock /\ at'[n - 1] = Parent[at'[n]]
    <2>1. n \in Nat
      BY NumbersFacts
    <2>2. CASE n > Number[b]
      BY <1>3, <1>4, <1>5, <2>1, <2>2 DEF IndexTo
    <2>3. CASE n = Number[b]
      <3>1. n - 1 = Number[peak] /\ n - 1 # Number[b]
        BY <1>3, <2>3
      <3>2. at'[n - 1] = peak
        BY <1>3, <1>5, <1>6, <3>1
      <3> QED BY <1>2, <1>3, <1>5, <2>3, <3>2
    <2>4. CASE n < Number[b]
      <3>1. ~ (n > Number[peak]) /\ n # Number[b] /\ ~ (n > Number[b])
        BY <1>3, <2>1, <2>4
      <3>2. n > 0 => at[n] # NoBlock /\ at[n - 1] = Parent[at[n]]
        BY <1>4, <3>1 DEF IndexTo
      <3>3. n > 0 => n - 1 \in Numbers /\ n - 1 # Number[b]
        <4>1. n > 0 => n - 1 # Number[b]
          BY <1>3, <2>1, <2>4
        <4> QED BY <2>1, <4>1, NumbersFacts
      <3> QED BY <1>5, <3>1, <3>2, <3>3
    <2> QED BY <1>3, <2>1, <2>2, <2>3, <2>4
  <1>8. IndexTo(peak)'
    BY <1>2, <1>7 DEF IndexTo
  <1> QED BY <1>2, <1>8 DEF IndexKept

\* The heavier block is above the peak, and so is all that follows it.
LEMMA NormDoneIndex ==
    ASSUME IInv, IndexKept, NormDone
    PROVE  IndexKept'
  <1>1. /\ job.step = "norm" /\ UNCHANGED <<at, peak>>
        /\ job' = [step |-> "index", target |-> job.target, cursor |-> job.target]
    BY JobFacts DEF NormDone, Normalising, memory
  <1>2. Number[job.target] > Number[peak] /\ IndexTo(peak)
    BY <1>1 DEF IndexKept
  <1>3. Number[job.target] \in Nat /\ Number[peak] \in Nat
    BY <1>1, JobFacts, TreeFacts DEF IInv, TypeOK
  <1>4. \A n \in Numbers : n > Number[job.target] => at[n] = NoBlock
    BY <1>2, <1>3, NumbersFacts DEF IndexTo
  <1>5. LinkedUpTo(Number[job.target])
    BY <1>2, <1>3, NumbersFacts DEF IndexTo, LinkedUpTo
  <1>6. \A n \in Numbers : ~ (Number[job.target] < n /\ n <= Number[job.target])
    BY <1>3, NumbersFacts
  <1>7. IndexBetween'
    BY <1>1, <1>4, <1>5, <1>6 DEF IndexBetween, LinkedUpTo
  <1> QED BY <1>1, <1>2, <1>7 DEF IndexKept

LEMMA RefetchStepIndex ==
    ASSUME IInv, IndexKept, RefetchStep
    PROVE  IndexKept'
  <1>0. PICK c \in Block, t \in Block : c = job.cursor /\ t = job.target
    BY JobFacts DEF RefetchStep
  <1> DEFINE p == Parent[c]
  <1>1. /\ job.step = "index" /\ at[Number[c]] # c /\ peak' = peak
        /\ at' = [at EXCEPT ![Number[c]] = c]
        /\ job' = [step |-> "index", target |-> t, cursor |-> p]
    BY <1>0, JobFacts DEF RefetchStep
  <1>2. c # Genesis
    BY <1>1, TreeFacts DEF IInv, GenesisStays
  <1>3. c \in Block /\ t \in Block /\ Number[c] <= Number[t] /\ peak \in Block
    BY <1>0, <1>1, JobFacts DEF IInv, TypeOK
  <1>4. /\ p \in Block /\ Number[c] = Number[p] + 1 /\ Number[p] \in Nat
        /\ Number[c] \in Nat /\ Number[c] \in Numbers /\ Number[t] \in Nat
        /\ Number[t] \in Numbers /\ Number[peak] \in Nat
        /\ c # NoBlock
    BY <1>2, <1>3, TreeFacts, TreeAssumption
  <1>5. Number[p] < Number[t] /\ Number[p] < Number[c]
    BY <1>3, <1>4
  <1>6. at \in [Numbers -> Block \cup {NoBlock}]
    BY DEF IInv, TypeOK
  <1>7. at'[Number[c]] = c /\ \A n \in Numbers : n # Number[c] => at'[n] = at[n]
    BY <1>1, <1>4, <1>6
  <1>8. IndexBetween
    BY <1>1 DEF IndexKept
  <1> HIDE DEF p
  <1>9. /\ \A n \in Numbers : n > Number[t] => at[n] = NoBlock
        /\ c = t \/ (at[Number[t]] = t /\ Number[c] < Number[t])
        /\ \A n \in Numbers : Number[c] < n /\ n <= Number[t] =>
              at[n] # NoBlock /\ Parent[at[n]] = IF n - 1 = Number[c] THEN c ELSE at[n - 1]
        /\ LinkedUpTo(Number[c])
    BY <1>0, <1>8 DEF IndexBetween
  <1>10. ASSUME NEW n \in Numbers, n > Number[t] PROVE at'[n] = NoBlock
    <2>1. n # Number[c]
      BY <1>3, <1>4, <1>10, NumbersFacts
    <2> QED BY <1>7, <1>9, <1>10, <2>1
  <1>11. at'[Number[t]] = t
    <2>1. CASE c = t
      BY <1>7, <2>1
    <2>2. CASE c # t
      <3>1. Number[t] # Number[c]
        BY <1>4, <1>9, <2>2
      <3> QED BY <1>4, <1>7, <1>9, <2>2, <3>1
    <2> QED BY <2>1, <2>2
  <1>12. ASSUME NEW n \in Numbers, Number[p] < n, n <= Number[t]
         PROVE  at'[n] # NoBlock /\ Parent[at'[n]] = IF n - 1 = Number[p] THEN p ELSE at'[n - 1]
    <2>1. n \in Nat /\ n # 0
      BY <1>4, <1>12, NumbersFacts
    <2>2. n - 1 \in Numbers
      BY <2>1, NumbersFacts
    <2>3. CASE n = Number[c]
      <3>1. n - 1 = Number[p]
        BY <1>4, <2>3
      <3> QED BY <1>4, <1>7, <2>3, <3>1 DEF p
    <2>4. CASE n # Number[c]
      <3>1. Number[c] < n /\ n - 1 # Number[p]
        BY <1>4, <1>12, <2>1, <2>4
      <3>2. at[n] # NoBlock /\ Parent[at[n]] = IF n - 1 = Number[c] THEN c ELSE at[n - 1]
        BY <1>9, <1>12, <3>1
      <3>3. at'[n] = at[n]
        BY <1>7, <2>4
      <3>4. (IF n - 1 = Number[c] THEN c ELSE at[n - 1]) = at'[n - 1]
        BY <1>7, <2>2
      <3> QED BY <3>1, <3>2, <3>3, <3>4
    <2> QED BY <2>3, <2>4
  <1>13. ASSUME NEW n \in Numbers \ {0}, n <= Number[p]
         PROVE  IF n > Number[peak] THEN at'[n] = NoBlock
                ELSE at'[n] # NoBlock /\ at'[n - 1] = Parent[at'[n]]
    <2>1. n \in Nat /\ n - 1 \in Numbers
      BY NumbersFacts
    <2>2. n <= Number[c] /\ n # Number[c] /\ n - 1 # Number[c]
      BY <1>4, <1>13, <2>1
    <2>3. IF n > Number[peak] THEN at[n] = NoBlock
          ELSE at[n] # NoBlock /\ at[n - 1] = Parent[at[n]]
      BY <1>9, <2>2 DEF LinkedUpTo
    <2>4. at'[n] = at[n] /\ at'[n - 1] = at[n - 1]
      BY <1>7, <2>1, <2>2
    <2> QED BY <2>3, <2>4
  <1>14. LinkedUpTo(Number[p])'
    BY <1>1, <1>13 DEF LinkedUpTo
  <1>15. job'.cursor = p /\ job'.target = t /\ job'.step = "index"
    BY <1>1
  <1>16. IndexBetween'
    BY <1>5, <1>10, <1>11, <1>12, <1>14, <1>15 DEF IndexBetween, LinkedUpTo
  <1>17. Number[t] > Number[peak]
    BY <1>0, <1>1 DEF IndexKept
  <1> QED BY <1>1, <1>15, <1>16, <1>17 DEF IndexKept

\* Where the index maps to the branch already, it is the branch from there on.
LEMMA RefetchDoneIndex ==
    ASSUME IInv, IndexKept, RefetchDone
    PROVE  IndexKept'
  <1> DEFINE c == job.cursor
             t == job.target
  <1>1. /\ job.step = "index" /\ at[Number[c]] = c /\ peak' = t /\ at' = at
        /\ job'.step = "idle"
    BY DEF RefetchDone, Idle
  <1>2. c \in Block /\ t \in Block /\ Number[c] <= Number[t] /\ peak \in Block
    BY <1>1, JobFacts DEF IInv, TypeOK
  <1>3. /\ Number[c] \in Nat /\ Number[c] \in Numbers /\ Number[t] \in Nat
        /\ Number[t] \in Numbers /\ Number[peak] \in Nat /\ c # NoBlock
    BY <1>2, TreeFacts, TreeAssumption
  <1>4. IndexBetween
    BY <1>1 DEF IndexKept
  <1> HIDE DEF c, t
  <1>5. /\ \A n \in Numbers : n > Number[t] => at[n] = NoBlock
        /\ c = t \/ (at[Number[t]] = t /\ Number[c] < Number[t])
        /\ \A n \in Numbers : Number[c] < n /\ n <= Number[t] =>
              at[n] # NoBlock /\ Parent[at[n]] = IF n - 1 = Number[c] THEN c ELSE at[n - 1]
        /\ LinkedUpTo(Number[c])
    BY <1>4 DEF IndexBetween, c, t
  <1>6. Number[c] <= Number[peak] \/ Number[c] = 0
    BY <1>1, <1>3, <1>5 DEF LinkedUpTo
  <1>7. at[Number[t]] = t
    BY <1>1, <1>5
  <1>8. ASSUME NEW n \in Numbers, n > 0, n <= Number[t]
        PROVE  at[n] # NoBlock /\ at[n - 1] = Parent[at[n]]
    <2>1. n \in Nat /\ n \in Numbers \ {0}
      BY <1>8, NumbersFacts
    <2>2. CASE Number[c] < n
      <3>1. at[n] # NoBlock /\ Parent[at[n]] = IF n - 1 = Number[c] THEN c ELSE at[n - 1]
        BY <1>5, <1>8, <2>2
      <3>2. (IF n - 1 = Number[c] THEN c ELSE at[n - 1]) = at[n - 1]
        BY <1>1
      <3> QED BY <3>1, <3>2
    <2>3. CASE ~ (Number[c] < n)
      <3>1. n <= Number[c] /\ ~ (n > Number[peak])
        BY <1>3, <1>6, <1>8, <2>1, <2>3
      <3> QED BY <1>5, <2>1, <3>1 DEF LinkedUpTo
    <2> QED BY <2>2, <2>3
  <1>9. ASSUME NEW n \in Numbers
        PROVE  IF n > Number[t] THEN at[n] = NoBlock
               ELSE /\ n = Number[t] => at[n] = t
                    /\ n > 0 => at[n] # NoBlock /\ at[n - 1] = Parent[at[n]]
    <2>1. n > Number[t] \/ n <= Number[t]
      BY <1>3, NumbersFacts
    <2> QED BY <1>3, <1>5, <1>7, <1>8, <2>1, NumbersFacts
  <1>10. IndexTo(peak)'
    BY <1>1, <1>9 DEF IndexTo
  <1> QED BY <1>1, <1>10 DEF IndexKept

LEMMA StartIndex ==
    ASSUME IInv, NEW good, Starting(good)
    PROVE  IndexKept'
  <1>1. at' = IndexOf(good) /\ peak' = Top(good) /\ job'.step = "idle"
    BY DEF Starting, StartOn, Idle
  <1>2. ChainTo(good, Top(good)) /\ Top(good) \in Block /\ good \in SUBSET Block
    BY GoodIsChain DEF Starting
  <1>3. PICK b \in Block : b = Top(good)
    BY <1>2
  <1>4. ChainTo(good, b) /\ \A c \in good : c \in Block /\ c # NoBlock
    BY <1>2, <1>3, TreeAssumption
  <1>5. ASSUME NEW n \in Numbers
        PROVE  /\ n > Number[b] => at'[n] = NoBlock
               /\ n <= Number[b] => at'[n] \in good /\ Number[at'[n]] = n
    <2>1. n \in Nat /\ Number[b] \in Nat /\ \A c \in good : Number[c] <= Number[b]
      BY <1>4, NumbersFacts, TreeFacts DEF ChainTo
    <2>2. n > Number[b] => ~ \E c \in good : Number[c] = n
      BY <1>4, <2>1, TreeFacts
    <2>3. n <= Number[b] => \E c \in good : Number[c] = n
      BY <1>2, <1>4, <2>1, ChainIsFull
    <2>4. at'[n] = IF \E c \in good : Number[c] = n THEN CHOOSE c \in good : Number[c] = n
                   ELSE NoBlock
      BY <1>1 DEF IndexOf
    <2> QED BY <2>2, <2>3, <2>4
  <1>6. ASSUME NEW n \in Numbers
        PROVE  IF n > Number[b] THEN at'[n] = NoBlock
               ELSE /\ n = Number[b] => at'[n] = b
                    /\ n > 0 => at'[n] # NoBlock /\ at'[n - 1] = Parent[at'[n]]
    <2>1. n \in Nat /\ Number[b] \in Nat /\ b \in good
      BY <1>4, NumbersFacts, TreeFacts DEF ChainTo
    <2>2. CASE n > Number[b]
      BY <1>5, <2>2
    <2>3. CASE ~ (n > Number[b])
      <3>1. n <= Number[b]
        BY <2>1, <2>3
      <3>2. PICK c \in good : at'[n] = c /\ Number[c] = n
        BY <1>5, <3>1
      <3>3. n = Number[b] => c = b
        BY <1>4, <2>1, <3>2 DEF ChainTo
      <3>4. ASSUME n > 0 PROVE at'[n - 1] = Parent[c]
        <4>1. n - 1 \in Numbers /\ n - 1 <= Number[b] /\ c # Genesis
          BY <2>1, <3>1, <3>2, <3>4, NumbersFacts, TreeFacts
        <4>2. at'[n - 1] \in good /\ Number[at'[n - 1]] = n - 1
          BY <1>5, <4>1
        <4>3. Parent[c] \in good /\ Number[c] = Number[Parent[c]] + 1 /\ Number[Parent[c]] \in Nat
          BY <1>4, <4>1, TreeFacts DEF ChainTo
        <4>4. Number[Parent[c]] = n - 1
          BY <3>2, <4>3
        <4> QED BY <1>4, <4>2, <4>3, <4>4 DEF ChainTo
      <3> QED BY <1>4, <2>3, <3>2, <3>3, <3>4
    <2> QED BY <2>2, <2>3
  <1>7. IndexTo(peak)'
    BY <1>1, <1>3, <1>6 DEF IndexTo
  <1> QED BY <1>1, <1>7 DEF IndexKept

LEMMA IndexNext ==
    ASSUME HeavierIsHigher
    PROVE  IInv /\ IndexKept /\ [Next]_vars => IndexKept'
  <1> SUFFICES ASSUME IInv, IndexKept, [Next]_vars PROVE IndexKept'
    OBVIOUS
  <1>1. CASE UNCHANGED vars
    BY <1>1, IndexStays DEF vars
  <1>2. ASSUME NEW i \in Importer, Import(i) PROVE IndexKept'
    <2>1. ASSUME NEW b \in Block, Validate(i, b) PROVE IndexKept'
      BY <2>1, IndexStays DEF Validate, memory
    <2>2. CASE AddAlt(i)
      BY <2>2, IndexStays DEF AddAlt, memory
    <2>3. CASE AddReplace(i)
      <3>1. PICK b \in Block : b = blk[i]
        BY <2>3 DEF AddReplace, Offered, IInv, WorkIsKnown
      <3>2. /\ job.step = "idle" /\ Total[b] > Total[peak] /\ UNCHANGED <<at, peak>>
            /\ job'.step = "wait" /\ job'.target = b
        BY <2>3, <3>1 DEF AddReplace, Offered, memory
      <3>3. Number[b] > Number[peak]
        BY <3>2 DEF HeavierIsHigher, IInv, TypeOK
      <3> QED BY <3>2, <3>3, IndexStays
    <2>4. CASE Store(i)
      BY <2>4, IndexStays DEF Store
    <2> QED BY <1>2, <2>1, <2>2, <2>3, <2>4, AddExtendIndex DEF Import
  <1>3. CASE PutPeak
    <2>1. CASE PutPeakClear
      <3>1. job.step = "wait" /\ job'.step = "norm" /\ job'.target = job.target
            /\ UNCHANGED <<at, peak>>
        BY <2>1, JobFacts DEF PutPeakClear, memory
      <3> QED BY <3>1, IndexStays
    <2>2. CASE NormClear
      BY <2>2, IndexStays DEF NormClear, memory
    <2>3. CASE NormNumber
      <3>1. job.step = "norm" /\ job'.step = "norm" /\ job'.target = job.target
            /\ UNCHANGED <<at, peak>>
        <4>1. job.step = "norm" /\ UNCHANGED <<at, peak>>
              /\ job' = [job EXCEPT !.cursor = Parent[@]]
          BY <2>3 DEF NormNumber, Normalising, memory
        <4>2. job = [step |-> job.step, target |-> job.target, cursor |-> job.cursor]
          BY <4>1, JobFacts
        <4> QED BY <4>1, <4>2
      <3> QED BY <3>1, IndexStays
    <2> QED BY <1>3, <2>1, <2>2, <2>3, NormDoneIndex, RefetchStepIndex, RefetchDoneIndex
            DEF PutPeak
  <1>4. CASE Write
    BY <1>4, IndexStays DEF Write, memory
  <1>5. CASE WriterCrash
    BY <1>5, IndexStays DEF WriterCrash, memory
  <1>6. CASE Restart
    BY <1>6, RestartStarts, StartIndex
  <1>7. ASSUME NEW n \in Numbers, RestartRewind(n) PROVE IndexKept'
    BY <1>7, RewindStarts, StartIndex
  <1> QED BY <1>1, <1>2, <1>3, <1>4, <1>5, <1>6, <1>7 DEF Next

LEMMA IndexInit == Init => IndexKept
  <1> SUFFICES ASSUME Init PROVE IndexKept
    OBVIOUS
  <1>1. at = IndexOf({Genesis}) /\ peak = Genesis /\ job.step = "idle"
    BY DEF Init, Idle
  <1>2. ASSUME NEW n \in Numbers
        PROVE  at[n] = IF n > 0 THEN NoBlock ELSE Genesis
    BY <1>1, NumbersFacts, TreeFacts DEF IndexOf
  <1>3. IndexTo(Genesis)
    BY <1>2, NumbersFacts, TreeFacts DEF IndexTo
  <1> QED BY <1>1, <1>3 DEF IndexKept

\* Between two calls of the server block numbers map to the chain that ends in
\* the peak and to nothing above it (Chain.blockhash), after any sequence of
\* extensions, reorganisations, crashes of the Writer and restarts, wherever a
\* heavier block is a higher one.
THEOREM IndexAlwaysFollows ==
    ASSUME HeavierIsHigher
    PROVE  Spec => []IndexFollowsPeak
  <1>1. Init => IInv /\ IndexKept
    BY InitIInv, IndexInit
  <1>2. (IInv /\ IndexKept) /\ [Next]_vars => (IInv /\ IndexKept)'
    BY NextKeeps, IndexNext
  <1>3. IInv /\ IndexKept => IndexFollowsPeak
    BY DEF IndexKept, IndexTo, IndexFollowsPeak
  <1> QED BY <1>1, <1>2, <1>3, PTL DEF Spec
=============================================================================
