------------------------------ MODULE Opcodes ------------------------------
(***************************************************************************)
(* The opcodes of the interpreter: the jump table that dispatches a byte   *)
(* of code to its case (VMConfig.h), and the metrics a byte has in every   *)
(* revision of the virtual machine: its base gas, the number of words it   *)
(* needs on the stack and by how much it changes the stack's height        *)
(* (evmc/instruction_metrics.c).                                           *)
(***************************************************************************)
EXTENDS Integers, Sequences

Byte == 0 .. 255

-----------------------------------------------------------------------------
(* The jump table, eight labels a line *)

LabelsLow == <<
    "STOP", "ADD", "MUL", "SUB", "DIV", "SDIV", "MOD", "SMOD",
    "ADDMOD", "MULMOD", "EXP", "SIGNEXTEND", "INVALID", "INVALID", "INVALID", "INVALID",
    "LT", "GT", "SLT", "SGT", "EQ", "ISZERO", "AND", "OR",
    "XOR", "NOT", "BYTE", "SHL", "SHR", "SAR", "INVALID", "INVALID",
    "SHA3", "INVALID", "INVALID", "INVALID", "INVALID", "INVALID", "INVALID", "INVALID",
    "INVALID", "INVALID", "INVALID", "INVALID", "INVALID", "INVALID", "INVALID", "INVALID",
    "ADDRESS", "BALANCE", "ORIGIN", "CALLER", "CALLVALUE", "CALLDATALOAD", "CALLDATASIZE", "CALLDATACOPY",
    "CODESIZE", "CODECOPY", "GASPRICE", "EXTCODESIZE", "EXTCODECOPY", "RETURNDATASIZE", "RETURNDATACOPY", "EXTCODEHASH",
    "BLOCKHASH", "COINBASE", "TIMESTAMP", "NUMBER", "DIFFICULTY", "GASLIMIT", "CHAINID", "SELFBALANCE",
    "INVALID", "INVALID", "INVALID", "INVALID", "INVALID", "INVALID", "INVALID", "INVALID",
    "POP", "MLOAD", "MSTORE", "MSTORE8", "SLOAD", "SSTORE", "JUMP", "JUMPI",
    "PC", "MSIZE", "GAS", "JUMPDEST", "BEGINDATA", "BEGINSUB", "INVALID", "INVALID",
    "PUSH1", "PUSH2", "PUSH3", "PUSH4", "PUSH5", "PUSH6", "PUSH7", "PUSH8",
    "PUSH9", "PUSH10", "PUSH11", "PUSH12", "PUSH13", "PUSH14", "PUSH15", "PUSH16",
    "PUSH17", "PUSH18", "PUSH19", "PUSH20", "PUSH21", "PUSH22", "PUSH23", "PUSH24",
    "PUSH25", "PUSH26", "PUSH27", "PUSH28", "PUSH29", "PUSH30", "PUSH31", "PUSH32" >>

LabelsHigh == <<
    "DUP1", "DUP2", "DUP3", "DUP4", "DUP5", "DUP6", "DUP7", "DUP8",
    "DUP9", "DUP10", "DUP11", "DUP12", "DUP13", "DUP14", "DUP15", "DUP16",
    "SWAP1", "SWAP2", "SWAP3", "SWAP4", "SWAP5", "SWAP6", "SWAP7", "SWAP8",
    "SWAP9", "SWAP10", "SWAP11", "SWAP12", "SWAP13", "SWAP14", "SWAP15", "SWAP16",
    "LOG0", "LOG1", "LOG2", "LOG3", "LOG4", "INVALID", "INVALID", "INVALID",
    "INVALID", "INVALID", "INVALID", "INVALID", "PUSHC", "JUMPC", "JUMPCI", "INVALID",
    "JUMPTO", "JUMPIF", "JUMPSUB", "JUMPV", "JUMPSUBV", "BEGINSUB", "BEGINDATA", "RETURNSUB",
    "PUTLOCAL", "GETLOCAL", "INVALID", "INVALID", "INVALID", "INVALID", "INVALID", "INVALID",
    "INVALID", "XADD", "XMUL", "XSUB", "XDIV", "XSDIV", "XMOD", "XSMOD",
    "INVALID", "INVALID", "INVALID", "INVALID", "INVALID", "INVALID", "INVALID", "INVALID",
    "XLT", "XGT", "XSLT", "XSGT", "XEQ", "XISZERO", "XAND", "XOOR",
    "XXOR", "XNOT", "INVALID", "XSHL", "XSHR", "XSAR", "XROL", "XROR",
    "XPUSH", "XMLOAD", "XMSTORE", "INVALID", "XSLOAD", "XSSTORE", "XVTOWIDE", "XWIDETOV",
    "XGET", "XPUT", "XSWIZZLE", "XSHUFFLE", "INVALID", "INVALID", "INVALID", "INVALID",
    "CREATE", "CALL", "CALLCODE", "RETURN", "DELEGATECALL", "CREATE2", "INVALID", "INVALID",
    "INVALID", "INVALID", "STATICCALL", "INVALID", "INVALID", "REVERT", "INVALID", "SELFDESTRUCT" >>

Label == [b \in Byte |-> IF b < 128 THEN LabelsLow[b + 1] ELSE LabelsHigh[b - 127]]

-----------------------------------------------------------------------------
(* Revisions, in their order *)

Frontier == 0
Homestead == 1
TangerineWhistle == 2
SpuriousDragon == 3
Byzantium == 4
Constantinople == 5
Petersburg == 6
Istanbul == 7
Berlin == 8
Revision == Frontier .. Berlin

-----------------------------------------------------------------------------
(* The metrics of one byte, and the tables of each revision in two halves. *)
(* A table is what it changes in the one of the revision before.           *)

Zero == 0
Base == 2
VeryLow == 3
Low == 5
Mid == 8
High == 10

Row(gas, required, change) == [gas |-> gas, required |-> required, change |-> change]
Undefined == Row(0, 0, 0)

Changed(table, rows) == [b \in DOMAIN table |-> IF b \in DOMAIN rows THEN rows[b] ELSE table[b]]
Rows(bytes, row) == [b \in bytes |-> row]

FrontierLow == [b \in 0 .. 127 |->
    CASE b \in {1, 3} \cup 16 .. 20 \cup {22, 23, 24, 26} -> Row(VeryLow, 2, -1)
      [] b \in {2, 4, 5, 6, 7, 11} -> Row(Low, 2, -1)
      [] b \in {8, 9} -> Row(Mid, 3, -2)
      [] b = 10 -> Row(High, 2, -1)
      [] b \in {21, 25, 53, 81} -> Row(VeryLow, 1, 0)
      [] b = 32 -> Row(30, 2, -1)
      [] b \in {48, 50, 51, 52, 54, 56, 58} \cup 65 .. 69 \cup {88, 89, 90} -> Row(Base, 0, 1)
      [] b \in {49, 59, 64} -> Row(20, 1, 0)
      [] b \in {55, 57} -> Row(VeryLow, 3, -3)
      [] b = 60 -> Row(20, 4, -4)
      [] b = 80 -> Row(Base, 1, -1)
      [] b \in {82, 83} -> Row(VeryLow, 2, -2)
      [] b = 84 -> Row(50, 1, 0)
      [] b = 85 -> Row(Zero, 2, -2)
      [] b = 86 -> Row(Mid, 1, -1)
      [] b = 87 -> Row(High, 2, -2)
      [] b = 91 -> Row(1, 0, 0)
      [] b \in 96 .. 127 -> Row(VeryLow, 0, 1)
      [] OTHER -> Undefined]

\* Variant: the row of LOG0 for all logs.
FrontierHighOneLog == [b \in 128 .. 255 |->
    CASE b \in 128 .. 143 -> Row(VeryLow, b - 127, 1)
      [] b \in 144 .. 159 -> Row(VeryLow, b - 142, 0)
      [] b \in 160 .. 164 -> Row(375, 2, -2)
      [] b = 240 -> Row(32000, 3, -2)
      [] b \in {241, 242} -> Row(40, 7, -6)
      [] b = 243 -> Row(Zero, 2, -2)
      [] b = 255 -> Row(Zero, 1, -1)
      [] OTHER -> Undefined]

FrontierHigh == [b \in 128 .. 255 |->
    CASE b \in 128 .. 143 -> Row(VeryLow, b - 127, 1)
      [] b \in 144 .. 159 -> Row(VeryLow, b - 142, 0)
      [] b \in 160 .. 164 -> Row((b - 159) * 375, b - 158, 158 - b)
      [] b = 240 -> Row(32000, 3, -2)
      [] b \in {241, 242} -> Row(40, 7, -6)
      [] b = 243 -> Row(Zero, 2, -2)
      [] b = 255 -> Row(Zero, 1, -1)
      [] OTHER -> Undefined]

HomesteadLow == FrontierLow
HomesteadHigh == Changed(FrontierHigh, Rows({244}, Row(40, 6, -5)))

TangerineWhistleLow ==
    Changed(HomesteadLow, [b \in {49, 59, 60, 84} |->
        CASE b = 49 -> Row(400, 1, 0) [] b = 59 -> Row(700, 1, 0)
          [] b = 60 -> Row(700, 4, -4) [] b = 84 -> Row(200, 1, 0)])
TangerineWhistleHigh ==
    Changed(HomesteadHigh, [b \in {241, 242, 244, 255} |->
        CASE b \in {241, 242} -> Row(700, 7, -6) [] b = 244 -> Row(700, 6, -5)
          [] b = 255 -> Row(5000, 1, -1)])

ByzantiumLow ==
    Changed(TangerineWhistleLow, [b \in {61, 62} |->
        CASE b = 61 -> Row(Base, 0, 1) [] b = 62 -> Row(VeryLow, 3, -3)])
ByzantiumHigh ==
    Changed(TangerineWhistleHigh, [b \in {250, 253} |->
        CASE b = 250 -> Row(700, 6, -5) [] b = 253 -> Row(Zero, 2, -2)])

ConstantinopleLow ==
    Changed(ByzantiumLow, [b \in 27 .. 29 \cup {63} |->
        CASE b \in 27 .. 29 -> Row(VeryLow, 2, -1) [] b = 63 -> Row(400, 1, 0)])
ConstantinopleHigh == Changed(ByzantiumHigh, Rows({245}, Row(32000, 4, -3)))

IstanbulLow ==
    Changed(ConstantinopleLow, [b \in {49, 63, 70, 71, 84} |->
        CASE b \in {49, 63} -> Row(700, 1, 0) [] b = 70 -> Row(Base, 0, 1)
          [] b = 71 -> Row(Low, 0, 1) [] b = 84 -> Row(800, 1, 0)])
IstanbulHigh == ConstantinopleHigh

Both(low, high) == [b \in Byte |-> IF b < 128 THEN low[b] ELSE high[b]]

\* evmc_get_instruction_metrics_table
MetricsTable(rev) ==
    CASE rev >= Istanbul -> Both(IstanbulLow, IstanbulHigh)
      [] rev \in {Constantinople, Petersburg} -> Both(ConstantinopleLow, ConstantinopleHigh)
      [] rev = Byzantium -> Both(ByzantiumLow, ByzantiumHigh)
      [] rev \in {TangerineWhistle, SpuriousDragon} -> Both(TangerineWhistleLow, TangerineWhistleHigh)
      [] rev = Homestead -> Both(HomesteadLow, HomesteadHigh)
      [] rev = Frontier -> Both(FrontierLow, FrontierHigh)

\* VM::initMetrics: the table of every revision, with the rows of the opcodes
\* only the optimizer makes.
Metrics == [rev \in Revision |->
    LET table == MetricsTable(rev)
    IN  Changed(table, [b \in 172 .. 174 |->
            CASE b = 172 -> table[96] [] b = 173 -> table[86] [] b = 174 -> table[87]])]
=============================================================================
