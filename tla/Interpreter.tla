---------------------------- MODULE Interpreter ----------------------------
(***************************************************************************)
(* One frame of the virtual machine of src/evm/libaleth-interpreter: code  *)
(* is copied and scanned for jump destinations, then fetched, metered and  *)
(* executed opcode by opcode (VM.cpp, VMCalls.cpp, VMOpt.cpp).  What the   *)
(* host answers (balances, storage, nested calls) is any answer it may     *)
(* give.  The computing opcodes are in module Words; here their result is  *)
(* any value, and a word is a natural below WordLimit.                     *)
(***************************************************************************)
EXTENDS Opcodes

CONSTANTS
    Frame,       \* messages executed: [code, rev, static, deep, gas]
    StackLimit,  \* words on the stack (1024)
    MaxInt63,    \* largest size that is not out of gas by itself (2^63 - 1)
    WordLimit,   \* number of words (2^256)
    Result       \* what a computing opcode or the host may answer

ASSUME LimitsAssumption ==
    /\ StackLimit \in Nat /\ MaxInt63 \in Nat
    /\ WordLimit \in Nat /\ WordLimit > MaxInt63
    /\ Result \subseteq 0 .. WordLimit - 1

\* Gas is an int64_t, and a position in the extended code fits in a word.
ASSUME FrameAssumption ==
    \A f \in Frame :
        /\ f \in [code : Seq(Byte), rev : Revision, static : BOOLEAN, deep : BOOLEAN,
                  gas : 0 .. MaxInt63]
        /\ Len(f.code) + 33 <= WordLimit

VARIABLES
    frame,    \* the message and its code
    status,   \* "entry", "running", or how the frame ended
    dests,    \* m_jumpDests
    undefs,   \* synthetic opcodes of the code, made UNDEFINED
    pc, gas, stack, mem,   \* m_PC, m_io_gas, words with the top first, m_mem.size()
    ret,      \* m_returnData.size()
    last      \* what the last opcode touched, see NoStep

vars == <<frame, status, dests, undefs, pc, gas, stack, mem, ret, last>>

\* height: words before; slots: how many of them the case uses;
\* put: whether it writes a result; end: end of the memory it touches; codeEnd:
\* last byte of code it reads; host: the call it makes; given: gas of a nested
\* call; mayChange: whether a nested call may change state.
NoStep == [height |-> 0, slots |-> 0, put |-> FALSE, end |-> 0, codeEnd |-> 0,
           host |-> "none", given |-> 0, mayChange |-> FALSE]

-----------------------------------------------------------------------------
(* Code: copied, extended by 33 zero bytes and scanned once *)

Size == Len(frame.code)
PushBytes(b) == IF b \in 96 .. 127 THEN b - 95 ELSE 0
UndefinedOp == 175

Source(i) == IF i < Size THEN frame.code[i + 1] ELSE 0
ExtraBytes == 33

\* m_code after optimize; defined below Size + ExtraBytes only.
Code(i) == IF i \in undefs THEN UndefinedOp ELSE Source(i)

\* Variant: the scan does not step over push data.
ScannedBytes == 0 .. Size - 1

\* The positions the scan visits: it steps over push data.
Scanned ==
    LET from[p \in 0 .. Size + 32] ==
            IF p >= Size THEN {} ELSE {p} \cup from[p + 1 + PushBytes(Source(p))]
    IN  from[0]

Init ==
    /\ frame \in Frame
    /\ status = "entry" /\ dests = {} /\ undefs = {}
    /\ pc = 0 /\ gas = frame.gas /\ stack = <<>> /\ mem = 0 /\ ret = 0
    /\ last = NoStep

\* initEntry: optimize, then interpretCases.
InitEntry ==
    /\ status = "entry"
    /\ status' = "running"
    /\ dests' = {p \in Scanned : Label[Source(p)] = "JUMPDEST"}
    /\ undefs' = {p \in Scanned : Source(p) \in 172 .. 174}
    /\ UNCHANGED <<frame, pc, gas, stack, mem, ret, last>>

-----------------------------------------------------------------------------
(* Metering: a cost beyond every gas stands for toInt63 throwing OutOfGas *)

Never == MaxInt63 + 1
Int63(n) == IF n <= MaxInt63 THEN n ELSE Never

\* VMSchedule::callStipend
CallStipend == 2300

\* Variant: a word that is only partly used is not counted.
WholeWords(n) == n \div 32
Words(n) == (n + 31) \div 32
MemNeed(offset, size) == IF size = 0 THEN 0 ELSE Int63(offset + size)

GasForMem(size) ==
    LET s == size \div 32 IN IF size >= Never THEN Never ELSE Int63(3 * s + (s * s) \div 512)

NewSize(need) == Words(need) * 32
MemAfter(need) == IF NewSize(need) > mem THEN NewSize(need) ELSE mem

\* updateGas: what growing the memory and copying cost on top.
MemGas(need, copied) ==
    (IF NewSize(need) > mem
     THEN IF NewSize(need) >= Never THEN Never ELSE GasForMem(NewSize(need)) - GasForMem(mem)
     ELSE 0)
    + (IF copied >= Never THEN Never ELSE 3 * Words(copied))

-----------------------------------------------------------------------------
(* Fetching: the row of the byte, the stack's bounds, then its case *)

\* The cases of interpretCases, those that differ in a computation only together.
Cases ==
    [unary |-> {"ISZERO", "NOT"},
     binary |-> {"ADD", "MUL", "SUB", "DIV", "SDIV", "MOD", "SMOD", "LT", "GT", "SLT",
                 "SGT", "EQ", "AND", "OR", "XOR", "BYTE", "SIGNEXTEND"},
     ternary |-> {"ADDMOD", "MULMOD"}, shift |-> {"SHL", "SHR", "SAR"}, exp |-> {"EXP"},
     message |-> {"ADDRESS", "ORIGIN", "CALLER", "CALLVALUE", "CALLDATASIZE", "RETURNDATASIZE",
                  "CODESIZE"},
     block |-> {"GASPRICE", "COINBASE", "TIMESTAMP", "NUMBER", "DIFFICULTY", "GASLIMIT",
                "CHAINID", "SELFBALANCE"},
     counter |-> {"PC", "MSIZE", "GAS"}, blockhash |-> {"BLOCKHASH"}, sload |-> {"SLOAD"},
     query |-> {"BALANCE", "EXTCODESIZE", "EXTCODEHASH", "CALLDATALOAD"},
     pop |-> {"POP"}, jump |-> {"JUMP"}, jumpi |-> {"JUMPI"}, jumpdest |-> {"JUMPDEST"},
     push |-> {Label[b] : b \in 96 .. 127}, dup |-> {Label[b] : b \in 128 .. 143},
     swap |-> {Label[b] : b \in 144 .. 159}, log |-> {Label[b] : b \in 160 .. 164},
     mload |-> {"MLOAD"}, mstore |-> {"MSTORE", "MSTORE8"}, sha3 |-> {"SHA3"},
     datacopy |-> {"CALLDATACOPY", "CODECOPY"}, extcodecopy |-> {"EXTCODECOPY"},
     returndatacopy |-> {"RETURNDATACOPY"}, return |-> {"RETURN", "REVERT"}, stop |-> {"STOP"},
     sstore |-> {"SSTORE"}, selfdestruct |-> {"SELFDESTRUCT"}, create |-> {"CREATE", "CREATE2"},
     call |-> {"CALL", "CALLCODE", "DELEGATECALL", "STATICCALL"}]

\* The cases of all other labels throw: the ones of extensions that are not
\* compiled in, of the optimizer's own opcodes, and of bytes without a meaning.
CaseOf == [b \in Byte |->
    IF \E c \in DOMAIN Cases : Label[b] \in Cases[c]
    THEN CHOOSE c \in DOMAIN Cases : Label[b] \in Cases[c] ELSE "bad"]

Op == Code(pc)
Metric == Metrics[frame.rev][Op]
Arg(k) == stack[k + 1]                 \* m_SP[k]

Running == status = "running"
TooShort == Len(stack) < Metric.required
TooLong == Len(stack) + Metric.change > StackLimit

At(case) == Running /\ CaseOf[Op] = case /\ ~TooShort /\ ~TooLong
From(rev) == frame.rev >= rev

\* Variant: what is left of the gas is returned.
ThrowKeepingGas(why) == status' = why /\ UNCHANGED <<gas, frame, dests, undefs, pc, stack, mem, ret>>

\* execute(): a frame that throws anything but a revert returns no gas.
Throw(why) ==
    /\ status' = why
    /\ gas' = 0
    /\ UNCHANGED <<frame, dests, undefs, pc, stack, mem, ret>>

Fail(why) == Throw(why) /\ last' = [NoStep EXCEPT !.height = Len(stack)]

Touch(slots) == [NoStep EXCEPT !.height = Len(stack), !.slots = slots, !.codeEnd = pc]

\* updateIOGas
Left(cost) == gas - cost
Pay(cost, Then) == IF gas < cost THEN Fail("out of gas") ELSE gas' = Left(cost) /\ Then

\* m_SPP: the stack moved by the row's change, its top not yet written.
Moved == IF Metric.change > 0 THEN <<0>> \o stack
         ELSE SubSeq(stack, 1 - Metric.change, Len(stack))

Put(value) == stack' = [Moved EXCEPT ![1] = value]
Pops == stack' = Moved

\* The next opcode follows; memory and return data stay.
Next1 == /\ pc' = pc + 1
         /\ UNCHANGED <<frame, status, dests, undefs, ret>>
Plain == Next1 /\ UNCHANGED mem

Ends(how) == /\ status' = how
             /\ UNCHANGED <<frame, dests, undefs, pc, ret>>

BadStack ==
    /\ Running
    /\ \/ TooShort /\ Fail("stack underflow")
       \/ ~TooShort /\ TooLong /\ Fail("stack overflow")

-----------------------------------------------------------------------------
(* Ordinary opcodes *)

PutsWith(slots, value) == Put(value) /\ last' = [Touch(slots) EXCEPT !.put = TRUE]

Compute ==
    \E r \in Result :
        \/ At("unary") /\ Pay(Metric.gas, PutsWith(1, r) /\ Plain)
        \/ At("binary") /\ Pay(Metric.gas, PutsWith(2, r) /\ Plain)
        \/ At("ternary") /\ Pay(Metric.gas, PutsWith(3, r) /\ Plain)

Shift ==
    /\ At("shift")
    /\ IF From(Constantinople)
       THEN \E r \in Result : Pay(Metric.gas, PutsWith(2, r) /\ Plain)
       ELSE Fail("undefined instruction")

\* Bytes of the exponent that count.
Significant8(n) == IF n = 0 THEN 0 ELSE IF n < 256 THEN 1 ELSE IF n < 65536 THEN 2 ELSE 3

Exp ==
    /\ At("exp")
    /\ \E r \in Result :
          Pay(10 + (IF From(SpuriousDragon) THEN 50 ELSE 10) * Significant8(Arg(1)), PutsWith(2, r) /\ Plain)

\* What the frame knows of its message, its code and its last call.
MessageData ==
    /\ At("message")
    /\ IF Label[Op] = "RETURNDATASIZE" /\ ~From(Byzantium)
       THEN Fail("undefined instruction")
       ELSE \E r \in Result :
              LET value == CASE Label[Op] = "RETURNDATASIZE" -> ret
                             [] Label[Op] = "CODESIZE" -> Size
                             [] OTHER -> r
              IN  Pay(Metric.gas, PutsWith(0, value) /\ Plain)

\* What the host knows of the transaction and the block.
BlockData ==
    /\ At("block")
    /\ IF Label[Op] \in {"CHAINID", "SELFBALANCE"} /\ ~From(Istanbul)
       THEN Fail("undefined instruction")
       ELSE \E r \in Result : Pay(Metric.gas, PutsWith(0, r) /\ Plain)

Counter ==
    /\ At("counter")
    /\ LET value == CASE Label[Op] = "PC" -> pc
                      [] Label[Op] = "MSIZE" -> mem
                      [] Label[Op] = "GAS" -> Left(Metric.gas)
       IN  Pay(Metric.gas, PutsWith(0, value) /\ Plain)

\* One word in, one word out of the host or the call data.
Query ==
    /\ At("query")
    /\ IF Label[Op] = "EXTCODEHASH" /\ ~From(Constantinople)
       THEN Fail("undefined instruction")
       ELSE \E r \in Result : Pay(Metric.gas, PutsWith(1, r) /\ Plain)

\* The host is asked for any block, also one that is not there yet.
BlockHash == At("blockhash") /\ \E r \in Result : Pay(20, PutsWith(1, r) /\ Plain)

SLoad == At("sload") /\ \E r \in Result : Pay(Metric.gas, PutsWith(1, r) /\ Plain)

Pop == At("pop") /\ Pay(Metric.gas, Pops /\ last' = Touch(0) /\ Plain)

Dup ==
    /\ At("dup")
    /\ Pay(Metric.gas, PutsWith(Op - 127, Arg(Op - 128)) /\ Plain)

Swap ==
    /\ At("swap")
    /\ LET n == Op - 143
       IN  Pay(Metric.gas,
               /\ stack' = [stack EXCEPT ![1] = Arg(n), ![n + 1] = Arg(0)]
               /\ last' = Touch(n + 1)
               /\ Plain)

\* PUSH1 .. PUSH32: the bytes that follow, as far as the code was extended.
Push ==
    /\ At("push")
    /\ LET n == PushBytes(Op)
           value[i \in 0 .. n] == IF i = 0 THEN 0 ELSE (value[i - 1] * 256 + Code(pc + i)) % WordLimit
       IN  Pay(Metric.gas,
               /\ Put(value[n])
               /\ last' = [Touch(0) EXCEPT !.put = TRUE, !.codeEnd = pc + n]
               /\ pc' = pc + n + 1
               /\ UNCHANGED <<frame, status, dests, undefs, ret, mem>>)

-----------------------------------------------------------------------------
(* Jumps *)

\* verifyJumpDest
JumpTo(dest) ==
    IF dest <= MaxInt63 /\ dest \in dests
    THEN /\ pc' = dest /\ Pops
         /\ UNCHANGED <<frame, status, dests, undefs, ret, mem>>
    ELSE status' = "bad jump destination" /\ UNCHANGED <<frame, dests, undefs, pc, stack, mem, ret>>

Jump ==
    /\ At("jump")
    /\ IF gas < Metric.gas THEN Fail("out of gas")
       ELSE /\ JumpTo(Arg(0))
            /\ gas' = IF status' = "running" THEN Left(Metric.gas) ELSE 0
            /\ last' = Touch(1)

JumpI ==
    /\ At("jumpi")
    /\ IF gas < Metric.gas THEN Fail("out of gas")
       ELSE /\ IF Arg(1) # 0 THEN JumpTo(Arg(0)) ELSE Pops /\ Plain
            /\ gas' = IF status' = "running" THEN Left(Metric.gas) ELSE 0
            /\ last' = Touch(2)

JumpDest == At("jumpdest") /\ Pay(1, Pops /\ last' = Touch(0) /\ Plain)

-----------------------------------------------------------------------------
(* Memory *)

Access(slots, offset, size) ==
    [Touch(slots) EXCEPT !.end = IF size = 0 THEN 0 ELSE offset + size]

Grow(need) == mem' = MemAfter(need) /\ Next1

MLoad ==
    /\ At("mload")
    /\ LET need == Int63(Arg(0)) + 32
       IN  \E r \in Result :
              Pay(Metric.gas + MemGas(need, 0),
                  Put(r) /\ last' = [Access(1, Arg(0), 32) EXCEPT !.put = TRUE] /\ Grow(need))

MStore ==
    /\ At("mstore")
    /\ LET size == IF Label[Op] = "MSTORE" THEN 32 ELSE 1
           need == Int63(Arg(0)) + size
       IN  Pay(Metric.gas + MemGas(need, 0), Pops /\ last' = Access(2, Arg(0), size) /\ Grow(need))

Sha3 ==
    /\ At("sha3")
    /\ LET need == MemNeed(Arg(0), Arg(1))
       IN  \E r \in Result :
              Pay(Int63(30 + Words(Arg(1)) * 6) + MemGas(need, 0),
                  Put(r) /\ last' = [Access(2, Arg(0), Arg(1)) EXCEPT !.put = TRUE] /\ Grow(need))

Copies(slots, to, size) ==
    LET need == MemNeed(to, size)
    IN  Pay(Metric.gas + MemGas(need, Int63(size)),
            Pops /\ last' = Access(slots, to, size) /\ Grow(need))

\* copyDataToMemory fills what lies beyond the data with zeros.
Copy ==
    \/ At("datacopy") /\ Copies(3, Arg(0), Arg(2))
    \/ At("extcodecopy") /\ Copies(4, Arg(1), Arg(3))
    \/ /\ At("returndatacopy")
       /\ IF ~From(Byzantium) THEN Fail("undefined instruction")
          ELSE IF ret < Arg(1) + Arg(2) THEN Fail("invalid memory access")
          ELSE Copies(3, Arg(0), Arg(2))

\* RETURN and REVERT: the output is a piece of the memory.
Return ==
    /\ At("return")
    /\ LET need == MemNeed(Arg(0), Arg(1))
       IN  IF Label[Op] = "REVERT" /\ ~From(Byzantium) THEN Fail("undefined instruction")
           ELSE Pay(Metric.gas + MemGas(need, 0),
                    /\ Ends(IF Label[Op] = "RETURN" THEN "success" ELSE "revert")
                    /\ Pops /\ mem' = MemAfter(need)
                    /\ last' = Access(2, Arg(0), Arg(1)))

Stop == At("stop") /\ Pay(Metric.gas, Ends("success") /\ Pops /\ UNCHANGED mem /\ last' = Touch(0))

-----------------------------------------------------------------------------
(* What a static frame may not do *)

Static == frame.static
Violation == Fail("static mode violation")

Log ==
    /\ At("log")
    /\ LET topics == Op - 160
           need == MemNeed(Arg(0), Arg(1))
       IN  IF Static THEN Violation
           ELSE Pay(Int63(375 + 375 * topics + 8 * Arg(1)) + MemGas(need, 0),
                    /\ Pops
                    /\ last' = [Access(2 + topics, Arg(0), Arg(1)) EXCEPT !.host = "emit_log"]
                    /\ Grow(need))

\* The host changes the storage first and says what it was; the gas is taken
\* after that.
SStoreGas(answer) ==
    CASE answer = "added" -> 20000
      [] answer = "modified" -> 5000
      [] answer = "unchanged" ->
           IF frame.rev = Constantinople \/ From(Istanbul)
           THEN Metrics[frame.rev][84].gas ELSE 5000

Stored(answer) ==
    /\ last' = [Touch(2) EXCEPT !.host = "set_storage"]
    /\ IF gas < SStoreGas(answer) THEN Throw("out of gas")
       ELSE gas' = gas - SStoreGas(answer) /\ Pops /\ Plain

SStore ==
    /\ At("sstore")
    /\ \/ Static /\ Violation
       \/ ~Static /\ From(Istanbul) /\ gas <= CallStipend /\ Fail("out of gas")
       \/ /\ ~Static /\ ~(From(Istanbul) /\ gas <= CallStipend)
          /\ \E answer \in {"added", "modified", "unchanged"} : Stored(answer)

\* What is left goes to an account that may have to be made.
SelfDestructCost(funds, exists) ==
    Metric.gas
    + (IF From(TangerineWhistle) /\ (frame.rev = TangerineWhistle \/ funds) /\ ~exists
       THEN 25000 ELSE 0)

SelfDestruct ==
    /\ At("selfdestruct")
    /\ IF Static THEN Violation
       ELSE \E funds, exists \in BOOLEAN :
              Pay(SelfDestructCost(funds, exists),
                  /\ Ends("success") /\ Pops /\ UNCHANGED mem
                  /\ last' = [Touch(1) EXCEPT !.host = "selfdestruct"])

-----------------------------------------------------------------------------
(* Calls out: all gas, or all but one 64th of it, goes with the message *)

\* Variant: one revision late.
AllBut64thLate(g) == IF frame.rev > TangerineWhistle THEN g - (g \div 64) ELSE g

AllBut64th(g) == IF From(TangerineWhistle) THEN g - (g \div 64) ELSE g

\* The nested frame gives back part of the gas it was given and some data.
Returned(given) == [left : {0, given}, ok : BOOLEAN, size : {0, 2}]

CreateCost ==
    32000 + (IF Label[Op] = "CREATE2" THEN Int63(Words(Arg(2)) * 6) ELSE 0)
    + MemGas(MemNeed(Arg(1), Arg(2)), 0)

Create ==
    /\ At("create")
    /\ LET need == MemNeed(Arg(1), Arg(2))
           slots == IF Label[Op] = "CREATE2" THEN 4 ELSE 3
           paid == gas - CreateCost
           given == AllBut64th(paid)
           step == [Access(slots, Arg(1), Arg(2)) EXCEPT !.put = TRUE]
       IN  IF Label[Op] = "CREATE2" /\ ~From(Constantinople) THEN Fail("undefined instruction")
           ELSE IF Static THEN Violation
           ELSE IF gas < CreateCost THEN Fail("out of gas")
           ELSE /\ mem' = MemAfter(need) /\ pc' = pc + 1
                /\ UNCHANGED <<frame, status, dests, undefs>>
                /\ \E funds \in BOOLEAN :
                     IF funds /\ ~frame.deep
                     THEN \E r \in Returned(given) :
                             /\ gas' = paid - (given - r.left)
                             /\ Put(IF r.ok THEN 1 ELSE 0) /\ ret' = r.size
                             /\ last' = [step EXCEPT !.host = "create", !.given = given,
                                                     !.mayChange = TRUE]
                     ELSE gas' = paid /\ Put(0) /\ ret' = 0 /\ last' = step

HasValue == Label[Op] \in {"CALL", "CALLCODE"}
SendsValue == HasValue /\ Arg(2) > 0

\* Variant: a transfer of value is free.
CallCostNoTransfer(exists, self, need) ==
    (IF From(Berlin) /\ self THEN 40 ELSE Metric.gas)
    + (IF Label[Op] = "CALL" /\ (Arg(2) > 0 \/ ~From(SpuriousDragon)) /\ ~exists THEN 25000 ELSE 0)
    + MemGas(need, 0)

\* caseCallSetup's charges before the gas of the message itself.
CallCost(exists, self, need) ==
    (IF From(Berlin) /\ self THEN 40 ELSE Metric.gas)
    + (IF Label[Op] = "CALL" /\ (Arg(2) > 0 \/ ~From(SpuriousDragon)) /\ ~exists THEN 25000 ELSE 0)
    + (IF SendsValue THEN 9000 ELSE 0)
    + MemGas(need, 0)

\* Variant: only a STATICCALL forbids changes, whoever makes it.
NestedStaticByOpcode == Label[Op] = "STATICCALL"

\* The flags of the message: a static frame passes its own on.
NestedStatic == Static \/ Label[Op] = "STATICCALL"

\* The gas of the message, before the stipend.
CallGas(paid) ==
    IF From(TangerineWhistle) /\ AllBut64th(paid) < Arg(0) THEN AllBut64th(paid) ELSE Int63(Arg(0))

\* The message goes out if the caller has the value and is not too deep; if
\* not, its gas comes back with the stipend.
CallOut(slots, need, exists, self, funds) ==
    LET cost == CallCost(exists, self, need)
        paid == gas - cost
        own == CallGas(paid)
        given == own + (IF SendsValue THEN CallStipend ELSE 0)
        step == [Touch(slots) EXCEPT !.put = TRUE, !.end = need]
        goesOut == (SendsValue => funds) /\ ~frame.deep
    IN  \/ (gas < cost \/ paid < own) /\ Fail("out of gas")
        \/ /\ ~(gas < cost \/ paid < own)
           /\ mem' = MemAfter(need) /\ pc' = pc + 1
           /\ UNCHANGED <<frame, status, dests, undefs>>
           /\ \/ /\ goesOut
                 /\ \E r \in Returned(given) :
                       /\ gas' = paid - own + r.left
                       /\ Put(IF r.ok THEN 1 ELSE 0) /\ ret' = r.size
                       /\ last' = [step EXCEPT !.host = "call", !.given = given,
                                              !.mayChange = ~NestedStatic]
              \/ /\ ~goesOut
                 /\ gas' = paid - own + given
                 /\ Put(0) /\ ret' = 0 /\ last' = step

Call ==
    /\ At("call")
    /\ LET base == IF HasValue THEN 3 ELSE 2
           in == MemNeed(Arg(base), Arg(base + 1))
           out == MemNeed(Arg(base + 2), Arg(base + 3))
           need == IF in > out THEN in ELSE out
       IN  IF \/ Label[Op] = "DELEGATECALL" /\ ~From(Homestead)
              \/ Label[Op] = "STATICCALL" /\ ~From(Byzantium)
           THEN Fail("undefined instruction")
           ELSE IF Label[Op] = "CALL" /\ Static /\ Arg(2) # 0 THEN Violation
           ELSE \E exists, self, funds \in BOOLEAN :
                CallOut(base + 4, need, exists, self, funds)

-----------------------------------------------------------------------------
(* Opcodes without a case of their own, and the run of a frame *)

Invalid == 254

Bad ==
    /\ At("bad")
    /\ Fail(IF Op = Invalid THEN "invalid instruction" ELSE "undefined instruction")

Step ==
    \/ BadStack \/ Compute \/ Shift \/ Exp \/ MessageData \/ BlockData \/ Counter
    \/ Query \/ BlockHash \/ SLoad \/ Pop \/ Dup \/ Swap \/ Push
    \/ Jump \/ JumpI \/ JumpDest \/ MLoad \/ MStore \/ Sha3 \/ Copy \/ Return \/ Stop
    \/ Log \/ SStore \/ SelfDestruct \/ Create \/ Call \/ Bad

Next == InitEntry \/ Step

Spec == Init /\ [][Next]_vars

-----------------------------------------------------------------------------
(* Correctness *)

Ended == status \in {"success", "revert", "out of gas", "stack underflow", "stack overflow",
                     "bad jump destination", "invalid instruction", "undefined instruction",
                     "invalid memory access", "static mode violation"}

\* Types, and a frame that was thrown out of has no gas left.
TypeOK ==
    /\ status \in {"entry", "running"} \/ Ended
    /\ pc \in Nat /\ gas \in 0 .. frame.gas /\ mem \in Nat /\ ret \in Nat
    /\ \A i \in DOMAIN stack : stack[i] \in 0 .. WordLimit - 1
    /\ Ended /\ status \notin {"success", "revert"} => gas = 0

\* In every revision the row of a byte makes fetchInstruction check the very
\* slots the byte's case then reads and writes through m_SP and m_SPP, which
\* are raw pointers: the table, the jump table and the cases agree.
StackChecked ==
    /\ last.slots <= last.height
    /\ last.put => Len(stack) > 0 \/ gas = 0
    /\ Len(stack) <= StackLimit

\* Positions where an instruction starts, by the definition: the first byte,
\* and the byte after an instruction with its push data.
InstructionStart(p) ==
    LET start[i \in 0 .. p] ==
            i = 0 \/ \E q \in 0 .. i - 1 : i = q + 1 + PushBytes(Source(q)) /\ start[q]
    IN  start[p]

\* Fetches and push data stay in the extended code, a push as the last byte
\* included, and no sequence of jumps ever executes push data.
CodeChecked ==
    /\ last.codeEnd < Size + ExtraBytes
    /\ Running => pc < Size + ExtraBytes /\ (pc < Size => InstructionStart(pc))

\* Every opcode touches memory that exists, and memory exists only as far as
\* the frame's gas has paid for it.
MemoryPaid ==
    /\ last.end <= mem
    /\ mem % 32 = 0
    /\ gas + GasForMem(mem) <= frame.gas

\* A static frame asks the host for no change and passes the ban on.
StaticChangesNothing ==
    frame.static => /\ last.host \notin {"set_storage", "emit_log", "selfdestruct", "create"}
                    /\ ~last.mayChange

\* An opcode that lets the frame go on costs gas, also when a nested call
\* returns all it was given and the stipend with it.
GasFalls == [][Running /\ status' = "running" => gas' < gas]_vars

\* Since Tangerine Whistle a frame keeps one 64th of its gas when it calls out,
\* whatever the nested frame uses of what it is given beyond its stipend.
CallerKeeps64th ==
    [][From(TangerineWhistle) =>
          /\ last'.host = "create" => gas' >= (gas' + last'.given) \div 64
          /\ last'.host = "call" => gas' >= (gas' + last'.given - CallStipend) \div 64]_vars
=============================================================================
