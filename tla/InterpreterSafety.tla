------------------------- MODULE InterpreterSafety -------------------------
(***************************************************************************)
(* The interpreter stays within its stack, its code, its memory and its    *)
(* gas, and a static frame changes nothing, for any code, any message, any *)
(* answers of the host and any limits.                                     *)
(***************************************************************************)
EXTENDS Interpreter, Induction

-----------------------------------------------------------------------------
(* The tables of the revisions, from the one of Frontier *)

LEMMA ChangedRow ==
    ASSUME NEW table, NEW rows, NEW b \in DOMAIN table
    PROVE  Changed(table, rows)[b] = IF b \in DOMAIN rows THEN rows[b] ELSE table[b]
  BY DEF Changed

LEMMA Domains ==
    /\ DOMAIN FrontierLow = 0 .. 127 /\ DOMAIN FrontierHigh = 128 .. 255
    /\ DOMAIN HomesteadHigh = 128 .. 255
    /\ DOMAIN TangerineWhistleLow = 0 .. 127 /\ DOMAIN TangerineWhistleHigh = 128 .. 255
    /\ DOMAIN ByzantiumLow = 0 .. 127 /\ DOMAIN ByzantiumHigh = 128 .. 255
    /\ DOMAIN ConstantinopleLow = 0 .. 127 /\ DOMAIN ConstantinopleHigh = 128 .. 255
    /\ DOMAIN IstanbulLow = 0 .. 127
  <1>1. DOMAIN FrontierLow = 0 .. 127
    BY DEF FrontierLow
  <1>2. DOMAIN FrontierHigh = 128 .. 255
    BY DEF FrontierHigh
  <1>3. DOMAIN HomesteadHigh = 128 .. 255
    BY <1>2 DEF HomesteadHigh, Changed
  <1>4. DOMAIN TangerineWhistleLow = 0 .. 127
    BY <1>1 DEF HomesteadLow, TangerineWhistleLow, Changed
  <1>5. DOMAIN TangerineWhistleHigh = 128 .. 255
    BY <1>3 DEF TangerineWhistleHigh, Changed
  <1>6. DOMAIN ByzantiumLow = 0 .. 127
    BY <1>4 DEF ByzantiumLow, Changed
  <1>7. DOMAIN ByzantiumHigh = 128 .. 255
    BY <1>5 DEF ByzantiumHigh, Changed
  <1>8. DOMAIN ConstantinopleLow = 0 .. 127
    BY <1>6 DEF ConstantinopleLow, Changed
  <1>9. DOMAIN ConstantinopleHigh = 128 .. 255
    BY <1>7 DEF ConstantinopleHigh, Changed
  <1>10. DOMAIN IstanbulLow = 0 .. 127
    BY <1>8 DEF IstanbulLow, Changed
  <1> QED
    BY <1>1, <1>2, <1>3, <1>4, <1>5, <1>6, <1>7, <1>8, <1>9, <1>10

\* The table of a revision, by the revision that brought it.
LowTable(rev) ==
    IF rev >= Istanbul THEN IstanbulLow
    ELSE IF rev >= Constantinople THEN ConstantinopleLow
    ELSE IF rev = Byzantium THEN ByzantiumLow
    ELSE IF rev >= TangerineWhistle THEN TangerineWhistleLow ELSE FrontierLow

HighTable(rev) ==
    IF rev >= Constantinople THEN ConstantinopleHigh
    ELSE IF rev = Byzantium THEN ByzantiumHigh
    ELSE IF rev >= TangerineWhistle THEN TangerineWhistleHigh
    ELSE IF rev = Homestead THEN HomesteadHigh ELSE FrontierHigh

USE DEF Frontier, Homestead, TangerineWhistle, SpuriousDragon, Byzantium, Constantinople,
        Petersburg, Istanbul, Berlin, Revision

LEMMA TableHalves ==
    ASSUME NEW rev \in Revision
    PROVE  MetricsTable(rev) = Both(LowTable(rev), HighTable(rev))
  BY DEF MetricsTable, LowTable, HighTable, HomesteadLow, IstanbulHigh

LEMMA MetricsRow ==
    ASSUME NEW rev \in Revision, NEW b \in Byte \ 172 .. 174
    PROVE  Metrics[rev][b] = IF b < 128 THEN LowTable(rev)[b] ELSE HighTable(rev)[b]
  <1>1. PICK table : table = MetricsTable(rev)
    OBVIOUS
  <1>2. table = Both(LowTable(rev), HighTable(rev))
    BY <1>1, TableHalves
  <1>3. /\ DOMAIN table = Byte
        /\ table[b] = IF b < 128 THEN LowTable(rev)[b] ELSE HighTable(rev)[b]
    BY <1>2 DEF Both
  <1>4. PICK rows : /\ DOMAIN rows = 172 .. 174
                    /\ Metrics[rev] = Changed(table, rows)
    BY <1>1 DEF Metrics
  <1> QED
    BY <1>3, <1>4, ChangedRow

\* The rows no revision changes.
LEMMA FrontierRow ==
    ASSUME NEW rev \in Revision
    PROVE  /\ \A b \in 0 .. 127 \ (27 .. 29 \cup {49, 59, 60, 61, 62, 63, 70, 71, 84}) :
                 Metrics[rev][b] = FrontierLow[b]
           /\ \A b \in 128 .. 255 \ (172 .. 174 \cup {241, 242, 244, 245, 250, 253, 255}) :
                 Metrics[rev][b] = FrontierHigh[b]
  <1>1. ASSUME NEW b \in 0 .. 127 \ (27 .. 29 \cup {49, 59, 60, 61, 62, 63, 70, 71, 84})
        PROVE  Metrics[rev][b] = FrontierLow[b]
    <2>1. TangerineWhistleLow[b] = FrontierLow[b]
      BY Domains DEF TangerineWhistleLow, HomesteadLow, Changed
    <2>2. ByzantiumLow[b] = FrontierLow[b]
      BY <2>1, Domains DEF ByzantiumLow, Changed
    <2>3. ConstantinopleLow[b] = FrontierLow[b]
      BY <2>2, Domains DEF ConstantinopleLow, Changed
    <2>4. IstanbulLow[b] = FrontierLow[b]
      BY <2>3, Domains DEF IstanbulLow, Changed
    <2> QED
      BY <2>1, <2>2, <2>3, <2>4, MetricsRow DEF LowTable, Byte
  <1>2. ASSUME NEW b \in 128 .. 255 \ (172 .. 174 \cup {241, 242, 244, 245, 250, 253, 255})
        PROVE  Metrics[rev][b] = FrontierHigh[b]
    <2>1. HomesteadHigh[b] = FrontierHigh[b]
      BY Domains DEF HomesteadHigh, Changed, Rows
    <2>2. TangerineWhistleHigh[b] = FrontierHigh[b]
      BY <2>1, Domains DEF TangerineWhistleHigh, Changed
    <2>3. ByzantiumHigh[b] = FrontierHigh[b]
      BY <2>2, Domains DEF ByzantiumHigh, Changed
    <2>4. ConstantinopleHigh[b] = FrontierHigh[b]
      BY <2>3, Domains DEF ConstantinopleHigh, Changed, Rows
    <2> QED
      BY <2>1, <2>2, <2>3, <2>4, MetricsRow DEF HighTable, Byte
  <1> QED
    BY <1>1, <1>2

\* The rows a revision changes, in the revisions where the opcode exists.
LEMMA LaterLow ==
    ASSUME NEW rev \in Revision
    PROVE  /\ rev >= Constantinople => \A b \in 27 .. 29 : Metrics[rev][b] = Row(3, 2, -1)
           /\ \A b \in {49, 59, 84} :
                 \E cost \in Nat \ {0} : Metrics[rev][b] = Row(cost, 1, 0)
           /\ \E cost \in Nat \ {0} : Metrics[rev][60] = Row(cost, 4, -4)
           /\ rev >= Byzantium => /\ Metrics[rev][61] = Row(2, 0, 1)
                                  /\ Metrics[rev][62] = Row(3, 3, -3)
           /\ rev >= Constantinople => \E cost \in Nat \ {0} : Metrics[rev][63] = Row(cost, 1, 0)
           /\ rev >= Istanbul => /\ Metrics[rev][70] = Row(2, 0, 1)
                                 /\ Metrics[rev][71] = Row(5, 0, 1)
  <1> USE Domains DEF Changed, Base, VeryLow, Low
  <1>1. /\ FrontierLow[49] = Row(20, 1, 0) /\ FrontierLow[59] = Row(20, 1, 0)
        /\ FrontierLow[60] = Row(20, 4, -4) /\ FrontierLow[84] = Row(50, 1, 0)
    BY DEF FrontierLow
  <1>2. /\ TangerineWhistleLow[49] = Row(400, 1, 0) /\ TangerineWhistleLow[59] = Row(700, 1, 0)
        /\ TangerineWhistleLow[60] = Row(700, 4, -4) /\ TangerineWhistleLow[84] = Row(200, 1, 0)
    BY DEF TangerineWhistleLow, HomesteadLow
  <1>3. /\ ByzantiumLow[61] = Row(2, 0, 1) /\ ByzantiumLow[62] = Row(3, 3, -3)
        /\ \A b \in {49, 59, 60, 84} : ByzantiumLow[b] = TangerineWhistleLow[b]
    BY DEF ByzantiumLow
  <1>4. /\ \A b \in 27 .. 29 : ConstantinopleLow[b] = Row(3, 2, -1)
        /\ ConstantinopleLow[63] = Row(400, 1, 0)
        /\ \A b \in {49, 59, 60, 61, 62, 84} : ConstantinopleLow[b] = ByzantiumLow[b]
    BY DEF ConstantinopleLow
  <1>5. /\ IstanbulLow[49] = Row(700, 1, 0) /\ IstanbulLow[63] = Row(700, 1, 0)
        /\ IstanbulLow[70] = Row(2, 0, 1) /\ IstanbulLow[71] = Row(5, 0, 1)
        /\ IstanbulLow[84] = Row(800, 1, 0)
        /\ \A b \in 27 .. 29 \cup {59, 60, 61, 62} : IstanbulLow[b] = ConstantinopleLow[b]
    BY DEF IstanbulLow
  <1>6. \A b \in 0 .. 127 : Metrics[rev][b] = LowTable(rev)[b]
    BY MetricsRow, SMTT(20) DEF Byte
  <1>7. \A b \in {49, 59, 84} : \E cost \in Nat \ {0} : LowTable(rev)[b] = Row(cost, 1, 0)
    BY <1>1, <1>2, <1>3, <1>4, <1>5 DEF LowTable
  <1>8. \E cost \in Nat \ {0} : LowTable(rev)[60] = Row(cost, 4, -4)
    BY <1>1, <1>2, <1>3, <1>4, <1>5 DEF LowTable
  <1>9. rev >= Constantinople => \E cost \in Nat \ {0} : LowTable(rev)[63] = Row(cost, 1, 0)
    BY <1>4, <1>5 DEF LowTable
  <1>10. /\ rev >= Constantinople => \A b \in 27 .. 29 : LowTable(rev)[b] = Row(3, 2, -1)
         /\ rev >= Byzantium => /\ LowTable(rev)[61] = Row(2, 0, 1)
                                /\ LowTable(rev)[62] = Row(3, 3, -3)
         /\ rev >= Istanbul => /\ LowTable(rev)[70] = Row(2, 0, 1)
                               /\ LowTable(rev)[71] = Row(5, 0, 1)
    BY <1>3, <1>4, <1>5 DEF LowTable
  <1> QED
    BY <1>6, <1>7, <1>8, <1>9, <1>10

LEMMA LaterHigh ==
    ASSUME NEW rev \in Revision
    PROVE  /\ \A b \in {241, 242} :
                 \E cost \in Nat \ {0} : Metrics[rev][b] = Row(cost, 7, -6)
           /\ rev >= Homestead => \E cost \in Nat \ {0} : Metrics[rev][244] = Row(cost, 6, -5)
           /\ rev >= Constantinople => Metrics[rev][245] = Row(32000, 4, -3)
           /\ rev >= Byzantium => /\ Metrics[rev][250] = Row(700, 6, -5)
                                  /\ Metrics[rev][253] = Row(0, 2, -2)
           /\ \E cost \in Nat : Metrics[rev][255] = Row(cost, 1, -1)
  <1> USE Domains DEF Changed, Rows, Zero
  <1>1. /\ \A b \in {241, 242} : FrontierHigh[b] = Row(40, 7, -6)
        /\ FrontierHigh[255] = Row(0, 1, -1)
    BY DEF FrontierHigh
  <1>2. /\ HomesteadHigh[244] = Row(40, 6, -5)
        /\ \A b \in {241, 242, 255} : HomesteadHigh[b] = FrontierHigh[b]
    BY DEF HomesteadHigh
  <1>3. /\ \A b \in {241, 242} : TangerineWhistleHigh[b] = Row(700, 7, -6)
        /\ TangerineWhistleHigh[244] = Row(700, 6, -5)
        /\ TangerineWhistleHigh[255] = Row(5000, 1, -1)
    BY DEF TangerineWhistleHigh
  <1>4. /\ ByzantiumHigh[250] = Row(700, 6, -5) /\ ByzantiumHigh[253] = Row(0, 2, -2)
        /\ \A b \in {241, 242, 244, 255} : ByzantiumHigh[b] = TangerineWhistleHigh[b]
    BY DEF ByzantiumHigh
  <1>5. /\ ConstantinopleHigh[245] = Row(32000, 4, -3)
        /\ \A b \in {241, 242, 244, 250, 253, 255} : ConstantinopleHigh[b] = ByzantiumHigh[b]
    BY DEF ConstantinopleHigh
  <1>6. \A b \in {241, 242, 244, 245, 250, 253, 255} : Metrics[rev][b] = HighTable(rev)[b]
    BY MetricsRow DEF Byte
  <1>7. \A b \in {241, 242} : \E cost \in Nat \ {0} : HighTable(rev)[b] = Row(cost, 7, -6)
    BY <1>1, <1>2, <1>3, <1>4, <1>5 DEF HighTable
  <1>8. rev >= Homestead => \E cost \in Nat \ {0} : HighTable(rev)[244] = Row(cost, 6, -5)
    BY <1>2, <1>3, <1>4, <1>5 DEF HighTable
  <1>9. \E cost \in Nat : HighTable(rev)[255] = Row(cost, 1, -1)
    BY <1>1, <1>2, <1>3, <1>4, <1>5 DEF HighTable
  <1>10. /\ rev >= Constantinople => HighTable(rev)[245] = Row(32000, 4, -3)
         /\ rev >= Byzantium => /\ HighTable(rev)[250] = Row(700, 6, -5)
                                /\ HighTable(rev)[253] = Row(0, 2, -2)
    BY <1>4, <1>5 DEF HighTable
  <1> QED
    BY <1>6, <1>7, <1>8, <1>9, <1>10

-----------------------------------------------------------------------------
(* The bytes that are dispatched to each case *)

\* A byte is dispatched to a case for its label.
LEMMA CaseLabel ==
    ASSUME NEW b \in Byte, CaseOf[b] # "bad"
    PROVE  CaseOf[b] \in DOMAIN Cases /\ Label[b] \in Cases[CaseOf[b]]
  <1>1. CaseOf[b] = IF \E c \in DOMAIN Cases : Label[b] \in Cases[c]
                    THEN CHOOSE c \in DOMAIN Cases : Label[b] \in Cases[c] ELSE "bad"
    BY DEF CaseOf
  <1> QED
    BY <1>1

\* The bytes of each case.
CaseBytes ==
    [unary |-> {21, 25},
     binary |-> 1 .. 7 \cup {11} \cup 16 .. 20 \cup {22, 23, 24, 26},
     ternary |-> {8, 9},
     shift |-> 27 .. 29,
     exp |-> {10},
     message |-> {48, 50, 51, 52, 54, 56, 61},
     block |-> {58, 71} \cup 65 .. 70,
     counter |-> {88, 89, 90},
     blockhash |-> {64},
     sload |-> {84},
     query |-> {49, 53, 59, 63},
     pop |-> {80},
     jump |-> {86},
     jumpi |-> {87},
     jumpdest |-> {91},
     push |-> 96 .. 127,
     dup |-> 128 .. 143,
     swap |-> 144 .. 159,
     log |-> 160 .. 164,
     mload |-> {81},
     mstore |-> {82, 83},
     sha3 |-> {32},
     datacopy |-> {55, 57},
     extcodecopy |-> {60},
     returndatacopy |-> {62},
     return |-> {243, 253},
     stop |-> {0},
     sstore |-> {85},
     selfdestruct |-> {255},
     create |-> {240, 245},
     call |-> {241, 242, 244, 250}]

LEMMA BytesOfCases ==
    ASSUME NEW b \in Byte
    PROVE  /\ Label[b] \in Cases.unary => b \in CaseBytes.unary
           /\ Label[b] \in Cases.binary => b \in CaseBytes.binary
           /\ Label[b] \in Cases.ternary => b \in CaseBytes.ternary
           /\ Label[b] \in Cases.shift => b \in CaseBytes.shift
           /\ Label[b] \in Cases.exp => b \in CaseBytes.exp
           /\ Label[b] \in Cases.message => b \in CaseBytes.message
           /\ Label[b] \in Cases.block => b \in CaseBytes.block
           /\ Label[b] \in Cases.counter => b \in CaseBytes.counter
           /\ Label[b] \in Cases.blockhash => b \in CaseBytes.blockhash
           /\ Label[b] \in Cases.sload => b \in CaseBytes.sload
           /\ Label[b] \in Cases.query => b \in CaseBytes.query
           /\ Label[b] \in Cases.pop => b \in CaseBytes.pop
           /\ Label[b] \in Cases.jump => b \in CaseBytes.jump
           /\ Label[b] \in Cases.jumpi => b \in CaseBytes.jumpi
           /\ Label[b] \in Cases.jumpdest => b \in CaseBytes.jumpdest
           /\ Label[b] \in Cases.push => b \in CaseBytes.push
           /\ Label[b] \in Cases.dup => b \in CaseBytes.dup
           /\ Label[b] \in Cases.swap => b \in CaseBytes.swap
           /\ Label[b] \in Cases.log => b \in CaseBytes.log
           /\ Label[b] \in Cases.mload => b \in CaseBytes.mload
           /\ Label[b] \in Cases.mstore => b \in CaseBytes.mstore
           /\ Label[b] \in Cases.sha3 => b \in CaseBytes.sha3
           /\ Label[b] \in Cases.datacopy => b \in CaseBytes.datacopy
           /\ Label[b] \in Cases.extcodecopy => b \in CaseBytes.extcodecopy
           /\ Label[b] \in Cases.returndatacopy => b \in CaseBytes.returndatacopy
           /\ Label[b] \in Cases.return => b \in CaseBytes.return
           /\ Label[b] \in Cases.stop => b \in CaseBytes.stop
           /\ Label[b] \in Cases.sstore => b \in CaseBytes.sstore
           /\ Label[b] \in Cases.selfdestruct => b \in CaseBytes.selfdestruct
           /\ Label[b] \in Cases.create => b \in CaseBytes.create
           /\ Label[b] \in Cases.call => b \in CaseBytes.call
  <1> USE DEF Label, LabelsLow, LabelsHigh, Byte, Cases, CaseBytes
  <1>1. Label[b] \in Cases.unary => b \in CaseBytes.unary
    OBVIOUS
  <1>2. Label[b] \in Cases.binary => b \in CaseBytes.binary
    OBVIOUS
  <1>3. Label[b] \in Cases.ternary => b \in CaseBytes.ternary
    OBVIOUS
  <1>4. Label[b] \in Cases.shift => b \in CaseBytes.shift
    OBVIOUS
  <1>5. Label[b] \in Cases.exp => b \in CaseBytes.exp
    OBVIOUS
  <1>6. Label[b] \in Cases.message => b \in CaseBytes.message
    OBVIOUS
  <1>7. Label[b] \in Cases.block => b \in CaseBytes.block
    OBVIOUS
  <1>8. Label[b] \in Cases.counter => b \in CaseBytes.counter
    OBVIOUS
  <1>9. Label[b] \in Cases.blockhash => b \in CaseBytes.blockhash
    OBVIOUS
  <1>10. Label[b] \in Cases.sload => b \in CaseBytes.sload
    OBVIOUS
  <1>11. Label[b] \in Cases.query => b \in CaseBytes.query
    OBVIOUS
  <1>12. Label[b] \in Cases.pop => b \in CaseBytes.pop
    OBVIOUS
  <1>13. Label[b] \in Cases.jump => b \in CaseBytes.jump
    OBVIOUS
  <1>14. Label[b] \in Cases.jumpi => b \in CaseBytes.jumpi
    OBVIOUS
  <1>15. Label[b] \in Cases.jumpdest => b \in CaseBytes.jumpdest
    OBVIOUS
  <1>16. Label[b] \in Cases.push => b \in CaseBytes.push
    OBVIOUS
  <1>17. Label[b] \in Cases.dup => b \in CaseBytes.dup
    OBVIOUS
  <1>18. Label[b] \in Cases.swap => b \in CaseBytes.swap
    OBVIOUS
  <1>19. Label[b] \in Cases.log => b \in CaseBytes.log
    OBVIOUS
  <1>20. Label[b] \in Cases.mload => b \in CaseBytes.mload
    OBVIOUS
  <1>21. Label[b] \in Cases.mstore => b \in CaseBytes.mstore
    OBVIOUS
  <1>22. Label[b] \in Cases.sha3 => b \in CaseBytes.sha3
    OBVIOUS
  <1>23. Label[b] \in Cases.datacopy => b \in CaseBytes.datacopy
    OBVIOUS
  <1>24. Label[b] \in Cases.extcodecopy => b \in CaseBytes.extcodecopy
    OBVIOUS
  <1>25. Label[b] \in Cases.returndatacopy => b \in CaseBytes.returndatacopy
    OBVIOUS
  <1>26. Label[b] \in Cases.return => b \in CaseBytes.return
    OBVIOUS
  <1>27. Label[b] \in Cases.stop => b \in CaseBytes.stop
    OBVIOUS
  <1>28. Label[b] \in Cases.sstore => b \in CaseBytes.sstore
    OBVIOUS
  <1>29. Label[b] \in Cases.selfdestruct => b \in CaseBytes.selfdestruct
    OBVIOUS
  <1>30. Label[b] \in Cases.create => b \in CaseBytes.create
    OBVIOUS
  <1>31. Label[b] \in Cases.call => b \in CaseBytes.call
    OBVIOUS
  <1> HIDE DEF Label, LabelsLow, LabelsHigh, Byte, Cases, CaseBytes
  <1> QED
    BY <1>1, <1>2, <1>3, <1>4, <1>5, <1>6, <1>7, <1>8, <1>9, <1>10, <1>11, <1>12, <1>13,
       <1>14, <1>15, <1>16, <1>17, <1>18, <1>19, <1>20, <1>21, <1>22, <1>23, <1>24, <1>25,
       <1>26, <1>27, <1>28, <1>29, <1>30, <1>31

LEMMA Dispatched ==
    ASSUME NEW b \in Byte, NEW c \in DOMAIN CaseBytes, CaseOf[b] = c
    PROVE  b \in CaseBytes[c]
  <1>1. c \in {"unary", "binary", "ternary", "shift", "exp", "message", "block", "counter",
               "blockhash", "sload", "query", "pop", "jump", "jumpi", "jumpdest", "push", "dup",
               "swap", "log", "mload", "mstore", "sha3", "datacopy", "extcodecopy",
               "returndatacopy", "return", "stop", "sstore", "selfdestruct", "create", "call"}
    BY DEF CaseBytes
  <1>2. c # "bad"
    BY <1>1
  <1>3. Label[b] \in Cases[c]
    BY <1>2, CaseLabel
  <1> QED
    BY <1>1, <1>3, BytesOfCases

\* The row of byte b: words needed, change of the height, least base gas.
RowIs(rev, b, required, change, least) ==
    LET row == Metrics[rev][b]
    IN  /\ row.required = required /\ row.change = change
        /\ row.gas \in Nat /\ row.gas >= least

LEMMA RowIsRow ==
    ASSUME NEW rev, NEW b, NEW cost \in Nat, NEW required, NEW change, NEW least \in Int,
           Metrics[rev][b] = Row(cost, required, change), cost >= least
    PROVE  RowIs(rev, b, required, change, least)
  BY DEF RowIs, Row

\* In every revision that has the opcode the rows of a case agree with what
\* the case does.
LEMMA RowsOfComputing ==
    ASSUME NEW rev \in Revision
    PROVE  /\ \A b \in CaseBytes.unary : RowIs(rev, b, 1, 0, 1)
           /\ \A b \in CaseBytes.binary : RowIs(rev, b, 2, -1, 1)
           /\ \A b \in CaseBytes.ternary : RowIs(rev, b, 3, -2, 1)
           /\ RowIs(rev, 10, 2, -1, 0)
           /\ \A b \in CaseBytes.counter : RowIs(rev, b, 0, 1, 1)
           /\ \A b \in CaseBytes.push : RowIs(rev, b, 0, 1, 1)
  <1>1. ASSUME NEW b \in CaseBytes.unary PROVE RowIs(rev, b, 1, 0, 1)
    <2>1. FrontierLow[b] = Row(3, 1, 0) /\ b \in {21, 25}
      BY DEF FrontierLow, VeryLow, CaseBytes
    <2> QED
      BY <2>1, FrontierRow DEF RowIs, Row
  <1>2. ASSUME NEW b \in CaseBytes.binary PROVE RowIs(rev, b, 2, -1, 1)
    <2>1. b \in 1 .. 7 \cup {11} \cup 16 .. 20 \cup {22, 23, 24, 26}
      BY DEF CaseBytes
    <2>2. FrontierLow[b] = Row(3, 2, -1) \/ FrontierLow[b] = Row(5, 2, -1)
      <3>1. \A c \in {1, 3} \cup 16 .. 20 \cup {22, 23, 24, 26} : FrontierLow[c] = Row(3, 2, -1)
        BY DEF FrontierLow, VeryLow
      <3>2. \A c \in {2, 4, 5, 6, 7, 11} : FrontierLow[c] = Row(5, 2, -1)
        BY DEF FrontierLow, Low
      <3>3. b \in {1, 3} \cup 16 .. 20 \cup {22, 23, 24, 26} \/ b \in {2, 4, 5, 6, 7, 11}
        BY <2>1
      <3> QED
        BY <3>1, <3>2, <3>3
    <2>3. Metrics[rev][b] = FrontierLow[b]
      BY <2>1, FrontierRow
    <2> QED
      BY <2>2, <2>3 DEF RowIs, Row
  <1>3. ASSUME NEW b \in CaseBytes.ternary PROVE RowIs(rev, b, 3, -2, 1)
    <2>1. FrontierLow[b] = Row(8, 3, -2) /\ b \in {8, 9}
      BY DEF FrontierLow, Mid, CaseBytes
    <2> QED
      BY <2>1, FrontierRow DEF RowIs, Row
  <1>4. RowIs(rev, 10, 2, -1, 0)
    <2>1. FrontierLow[10] = Row(10, 2, -1)
      BY DEF FrontierLow, High
    <2> QED
      BY <2>1, FrontierRow DEF RowIs, Row
  <1>5. ASSUME NEW b \in CaseBytes.counter PROVE RowIs(rev, b, 0, 1, 1)
    <2>1. FrontierLow[b] = Row(2, 0, 1) /\ b \in {88, 89, 90}
      BY DEF FrontierLow, Base, CaseBytes
    <2> QED
      BY <2>1, FrontierRow DEF RowIs, Row
  <1>6. ASSUME NEW b \in CaseBytes.push PROVE RowIs(rev, b, 0, 1, 1)
    <2>1. FrontierLow[b] = Row(3, 0, 1) /\ b \in 96 .. 127
      BY DEF FrontierLow, VeryLow, CaseBytes
    <2> QED
      BY <2>1, FrontierRow DEF RowIs, Row
  <1> QED
    BY <1>1, <1>2, <1>3, <1>4, <1>5, <1>6

LEMMA RowsOfData ==
    ASSUME NEW rev \in Revision
    PROVE  /\ rev >= Constantinople => \A b \in CaseBytes.shift : RowIs(rev, b, 2, -1, 1)
           /\ \A b \in CaseBytes.message : (b = 61 => rev >= Byzantium) => RowIs(rev, b, 0, 1, 1)
           /\ \A b \in CaseBytes.block :
                 (b \in {70, 71} => rev >= Istanbul) => RowIs(rev, b, 0, 1, 1)
           /\ RowIs(rev, 64, 1, 0, 0) /\ RowIs(rev, 84, 1, 0, 1)
           /\ \A b \in CaseBytes.query :
                 (b = 63 => rev >= Constantinople) => RowIs(rev, b, 1, 0, 1)
  <1>1. ASSUME rev >= Constantinople, NEW b \in CaseBytes.shift PROVE RowIs(rev, b, 2, -1, 1)
    BY <1>1, LaterLow DEF RowIs, Row, CaseBytes
  <1>2. ASSUME NEW b \in CaseBytes.message, b = 61 => rev >= Byzantium
        PROVE  RowIs(rev, b, 0, 1, 1)
    <2>1. b \in {48, 50, 51, 52, 54, 56, 61}
      BY DEF CaseBytes
    <2>2. b # 61 => FrontierLow[b] = Row(2, 0, 1)
      BY <2>1 DEF FrontierLow, Base
    <2>3. Metrics[rev][b] = Row(2, 0, 1)
      BY <1>2, <2>1, <2>2, FrontierRow, LaterLow
    <2> QED
      BY <2>3 DEF RowIs, Row
  <1>3. ASSUME NEW b \in CaseBytes.block, b \in {70, 71} => rev >= Istanbul
        PROVE  RowIs(rev, b, 0, 1, 1)
    <2>1. b \in {58, 71} \cup 65 .. 70
      BY DEF CaseBytes
    <2>2. b \notin {70, 71} => FrontierLow[b] = Row(2, 0, 1)
      BY <2>1 DEF FrontierLow, Base
    <2>3. Metrics[rev][b] = Row(2, 0, 1) \/ Metrics[rev][b] = Row(5, 0, 1)
      BY <1>3, <2>1, <2>2, FrontierRow, LaterLow
    <2> QED
      BY <2>3 DEF RowIs, Row
  <1>4. RowIs(rev, 64, 1, 0, 0)
    <2>1. FrontierLow[64] = Row(20, 1, 0)
      BY DEF FrontierLow
    <2> QED
      BY <2>1, FrontierRow DEF RowIs, Row
  <1>5. ASSUME NEW b \in {49, 59, 84} PROVE RowIs(rev, b, 1, 0, 1)
    <2>1. PICK cost \in Nat \ {0} : Metrics[rev][b] = Row(cost, 1, 0)
      BY LaterLow
    <2> QED
      BY <2>1 DEF RowIs, Row
  <1>6. ASSUME rev >= Constantinople PROVE RowIs(rev, 63, 1, 0, 1)
    <2>1. PICK cost \in Nat \ {0} : Metrics[rev][63] = Row(cost, 1, 0)
      BY <1>6, LaterLow
    <2> QED
      BY <2>1 DEF RowIs, Row
  <1>7. RowIs(rev, 53, 1, 0, 1)
    <2>1. FrontierLow[53] = Row(3, 1, 0)
      BY DEF FrontierLow, VeryLow
    <2> QED
      BY <2>1, FrontierRow DEF RowIs, Row
  <1>8. ASSUME NEW b \in CaseBytes.query, b = 63 => rev >= Constantinople
        PROVE  RowIs(rev, b, 1, 0, 1)
    <2>1. b \in {49, 53, 59, 63}
      BY DEF CaseBytes
    <2> QED
      BY <1>5, <1>6, <1>7, <1>8, <2>1
  <1> QED
    BY <1>1, <1>2, <1>3, <1>4, <1>5, <1>8

LEMMA RowsOfFlow ==
    ASSUME NEW rev \in Revision
    PROVE  /\ RowIs(rev, 80, 1, -1, 1) /\ RowIs(rev, 86, 1, -1, 1) /\ RowIs(rev, 87, 2, -2, 1)
           /\ RowIs(rev, 91, 0, 0, 0) /\ RowIs(rev, 0, 0, 0, 0) /\ RowIs(rev, 85, 2, -2, 0)
           /\ RowIs(rev, 81, 1, 0, 1) /\ \A b \in CaseBytes.mstore : RowIs(rev, b, 2, -2, 1)
           /\ RowIs(rev, 32, 2, -1, 0) /\ \A b \in CaseBytes.datacopy : RowIs(rev, b, 3, -3, 1)
           /\ RowIs(rev, 60, 4, -4, 1) /\ (rev >= Byzantium => RowIs(rev, 62, 3, -3, 1))
  <1>1. /\ FrontierLow[80] = Row(2, 1, -1) /\ FrontierLow[86] = Row(8, 1, -1)
        /\ FrontierLow[87] = Row(10, 2, -2) /\ FrontierLow[91] = Row(1, 0, 0)
        /\ FrontierLow[81] = Row(3, 1, 0) /\ FrontierLow[32] = Row(30, 2, -1)
        /\ FrontierLow[0] = Row(0, 0, 0) /\ FrontierLow[85] = Row(0, 2, -2)
    BY DEF FrontierLow, VeryLow, Mid, High, Base, Zero, Undefined
  <1>2. \A b \in {80, 86, 87, 91, 81, 32, 0, 85} : Metrics[rev][b] = FrontierLow[b]
    BY FrontierRow
  <1>3. RowIs(rev, 80, 1, -1, 1) /\ RowIs(rev, 86, 1, -1, 1) /\ RowIs(rev, 87, 2, -2, 1)
    BY <1>1, <1>2 DEF RowIs, Row
  <1>4. RowIs(rev, 91, 0, 0, 0) /\ RowIs(rev, 0, 0, 0, 0) /\ RowIs(rev, 85, 2, -2, 0)
    BY <1>1, <1>2 DEF RowIs, Row
  <1>5. RowIs(rev, 81, 1, 0, 1) /\ RowIs(rev, 32, 2, -1, 0)
    BY <1>1, <1>2 DEF RowIs, Row
  <1>6. ASSUME NEW b \in CaseBytes.mstore PROVE RowIs(rev, b, 2, -2, 1)
    <2>1. FrontierLow[b] = Row(3, 2, -2) /\ b \in {82, 83}
      BY DEF FrontierLow, VeryLow, CaseBytes
    <2> QED
      BY <2>1, FrontierRow DEF RowIs, Row
  <1>7. ASSUME NEW b \in CaseBytes.datacopy PROVE RowIs(rev, b, 3, -3, 1)
    <2>1. FrontierLow[b] = Row(3, 3, -3) /\ b \in {55, 57}
      BY DEF FrontierLow, VeryLow, CaseBytes
    <2> QED
      BY <2>1, FrontierRow DEF RowIs, Row
  <1>8. RowIs(rev, 60, 4, -4, 1)
    <2>1. PICK cost \in Nat \ {0} : Metrics[rev][60] = Row(cost, 4, -4)
      BY LaterLow
    <2> QED
      BY <2>1 DEF RowIs, Row
  <1>9. ASSUME rev >= Byzantium PROVE RowIs(rev, 62, 3, -3, 1)
    <2>1. Metrics[rev][62] = Row(3, 3, -3)
      BY <1>9, LaterLow
    <2> QED
      BY <2>1 DEF RowIs, Row
  <1> QED
    BY <1>3, <1>4, <1>5, <1>6, <1>7, <1>8, <1>9

LEMMA RowsOfHighCases ==
    ASSUME NEW rev \in Revision
    PROVE  /\ \A b \in CaseBytes.dup : RowIs(rev, b, b - 127, 1, 1)
           /\ \A b \in CaseBytes.swap : RowIs(rev, b, b - 142, 0, 1)
           /\ \A b \in CaseBytes.log : RowIs(rev, b, b - 158, 158 - b, 0)
           /\ RowIs(rev, 243, 2, -2, 0) /\ (rev >= Byzantium => RowIs(rev, 253, 2, -2, 0))
           /\ RowIs(rev, 255, 1, -1, 0)
           /\ RowIs(rev, 240, 3, -2, 0) /\ (rev >= Constantinople => RowIs(rev, 245, 4, -3, 0))
           /\ \A b \in {241, 242} : RowIs(rev, b, 7, -6, 1)
           /\ rev >= Homestead => RowIs(rev, 244, 6, -5, 1)
           /\ rev >= Byzantium => RowIs(rev, 250, 6, -5, 1)
  <1>1. ASSUME NEW b \in CaseBytes.dup PROVE RowIs(rev, b, b - 127, 1, 1)
    <2>1. FrontierHigh[b] = Row(3, b - 127, 1) /\ b \in 128 .. 143
      BY DEF FrontierHigh, VeryLow, CaseBytes
    <2> QED
      BY <2>1, FrontierRow DEF RowIs, Row
  <1>2. ASSUME NEW b \in CaseBytes.swap PROVE RowIs(rev, b, b - 142, 0, 1)
    <2>1. FrontierHigh[b] = Row(3, b - 142, 0) /\ b \in 144 .. 159
      BY DEF FrontierHigh, VeryLow, CaseBytes
    <2> QED
      BY <2>1, FrontierRow DEF RowIs, Row
  <1>3. ASSUME NEW b \in CaseBytes.log PROVE RowIs(rev, b, b - 158, 158 - b, 0)
    <2>1. FrontierHigh[b] = Row((b - 159) * 375, b - 158, 158 - b) /\ b \in 160 .. 164
      BY DEF FrontierHigh, CaseBytes
    <2> QED
      BY <2>1, FrontierRow DEF RowIs, Row
  <1>4. RowIs(rev, 243, 2, -2, 0) /\ RowIs(rev, 240, 3, -2, 0)
    <2>1. FrontierHigh[243] = Row(0, 2, -2) /\ FrontierHigh[240] = Row(32000, 3, -2)
      BY DEF FrontierHigh, Zero
    <2>2. \A b \in {240, 243} : Metrics[rev][b] = FrontierHigh[b]
      BY FrontierRow
    <2> QED
      BY <2>1, <2>2 DEF RowIs, Row
  <1>5. ASSUME rev >= Byzantium PROVE RowIs(rev, 253, 2, -2, 0) /\ RowIs(rev, 250, 6, -5, 1)
    <2>1. Metrics[rev][250] = Row(700, 6, -5) /\ Metrics[rev][253] = Row(0, 2, -2)
      BY <1>5, LaterHigh
    <2> QED
      BY <2>1 DEF RowIs, Row
  <1>6. RowIs(rev, 255, 1, -1, 0)
    <2>1. PICK cost \in Nat : Metrics[rev][255] = Row(cost, 1, -1)
      BY LaterHigh
    <2> QED
      BY <2>1 DEF RowIs, Row
  <1>7. ASSUME rev >= Constantinople PROVE RowIs(rev, 245, 4, -3, 0)
    <2>1. Metrics[rev][245] = Row(32000, 4, -3)
      BY <1>7, LaterHigh
    <2> QED
      BY <2>1 DEF RowIs, Row
  <1>8. ASSUME NEW b \in {241, 242} PROVE RowIs(rev, b, 7, -6, 1)
    <2>1. PICK cost \in Nat \ {0} : Metrics[rev][b] = Row(cost, 7, -6)
      BY LaterHigh
    <2> QED
      BY <2>1 DEF RowIs, Row
  <1>9. ASSUME rev >= Homestead PROVE RowIs(rev, 244, 6, -5, 1)
    <2>1. PICK cost \in Nat \ {0} : Metrics[rev][244] = Row(cost, 6, -5)
      BY <1>9, LaterHigh
    <2> QED
      BY <2>1 DEF RowIs, Row
  <1> QED
    BY <1>1, <1>2, <1>3, <1>4, <1>5, <1>6, <1>7, <1>8, <1>9

\* The labels the cases look at themselves.
LEMMA LabelsInCases ==
    /\ Label[61] = "RETURNDATASIZE" /\ Label[63] = "EXTCODEHASH"
    /\ Label[70] = "CHAINID" /\ Label[71] = "SELFBALANCE"
    /\ Label[82] = "MSTORE" /\ Label[91] = "JUMPDEST" /\ Label[253] = "REVERT"
    /\ Label[240] = "CREATE" /\ Label[245] = "CREATE2" /\ Label[241] = "CALL"
    /\ Label[242] = "CALLCODE" /\ Label[244] = "DELEGATECALL" /\ Label[250] = "STATICCALL"
  BY DEF Label, LabelsLow, LabelsHigh, Byte

\* Code that has come to its end stops, and opcodes made undefined throw.
LEMMA EndOfCode == CaseOf[0] \in {"stop", "bad"} /\ CaseOf[UndefinedOp] = "bad"
  <1>1. DOMAIN Cases = DOMAIN CaseBytes
    BY DEF Cases, CaseBytes
  <1>2. \A b \in Byte : CaseOf[b] # "bad" =>
           \E c \in DOMAIN CaseBytes : CaseOf[b] = c /\ b \in CaseBytes[c]
    BY <1>1, CaseLabel, Dispatched
  <1>3. \A c \in DOMAIN CaseBytes : 175 \notin CaseBytes[c] /\ (0 \in CaseBytes[c] => c = "stop")
    BY DEF CaseBytes
  <1>4. 0 \in Byte /\ 175 \in Byte
    BY DEF Byte
  <1> QED
    BY <1>2, <1>3, <1>4 DEF UndefinedOp

-----------------------------------------------------------------------------
(* Positions of the code where an instruction starts *)

ByteAt(code, i) == IF i < Len(code) THEN code[i + 1] ELSE 0
After(code, p) == p + 1 + PushBytes(ByteAt(code, p))

\* What is reached from p by going from each instruction to the next.
ReachedFrom(code, p) ==
    {q \in Nat : \A A \in SUBSET Nat :
        p \in A /\ (\A x \in A : After(code, x) \in A) => q \in A}

Starts(code) == ReachedFrom(code, 0)

LEMMA PushBytesRange == ASSUME NEW b \in Byte PROVE PushBytes(b) \in 0 .. 32
  BY DEF PushBytes, Byte

LEMMA ByteAtByte == ASSUME NEW code \in Seq(Byte), NEW i \in Nat PROVE ByteAt(code, i) \in Byte
  <1>1. Len(code) \in Nat
    OBVIOUS
  <1>2. i < Len(code) => i + 1 \in 1 .. Len(code)
    BY <1>1
  <1>3. i < Len(code) => code[i + 1] \in Byte
    BY <1>2
  <1>4. 0 \in Byte
    BY DEF Byte
  <1> QED
    BY <1>3, <1>4 DEF ByteAt

LEMMA AfterRange ==
    ASSUME NEW code \in Seq(Byte), NEW p \in Nat
    PROVE  /\ After(code, p) \in Nat /\ After(code, p) >= p + 1 /\ After(code, p) <= p + 33
           /\ p >= Len(code) => After(code, p) = p + 1
  <1>1. PushBytes(ByteAt(code, p)) \in 0 .. 32
    BY ByteAtByte, PushBytesRange
  <1>2. p >= Len(code) => PushBytes(ByteAt(code, p)) = 0
    BY DEF ByteAt, PushBytes
  <1>3. PICK n \in 0 .. 32 : n = PushBytes(ByteAt(code, p))
    BY <1>1
  <1>4. After(code, p) = p + 1 + n
    BY <1>3 DEF After
  <1>5. p >= Len(code) => n = 0
    BY <1>2, <1>3
  <1>6. n \in Nat /\ n <= 32
    OBVIOUS
  <1> QED
    BY <1>4, <1>5, <1>6

LEMMA ReachedSelf ==
    ASSUME NEW code \in Seq(Byte), NEW p \in Nat
    PROVE  p \in ReachedFrom(code, p)
  BY DEF ReachedFrom

LEMMA ReachedAfter ==
    ASSUME NEW code \in Seq(Byte), NEW p \in Nat, NEW q \in ReachedFrom(code, p)
    PROVE  After(code, q) \in ReachedFrom(code, p)
  <1>1. q \in Nat /\ After(code, q) \in Nat
    BY AfterRange DEF ReachedFrom
  <1> QED
    BY <1>1 DEF ReachedFrom

LEMMA ReachedLater ==
    ASSUME NEW code \in Seq(Byte), NEW p \in Nat, NEW q \in ReachedFrom(code, p)
    PROVE  q \in Nat /\ q >= p
  <1> DEFINE A == {x \in Nat : x >= p}
  <1>1. A \in SUBSET Nat /\ p \in A
    OBVIOUS
  <1>2. ASSUME NEW x \in A PROVE After(code, x) \in A
    <2>1. x \in Nat /\ x >= p
      OBVIOUS
    <2>2. After(code, x) \in Nat /\ After(code, x) >= x + 1
      BY <2>1, AfterRange
    <2> QED
      BY <2>1, <2>2
  <1>3. q \in Nat /\ q \in A
    BY <1>1, <1>2 DEF ReachedFrom
  <1> QED
    BY <1>3

\* From p: p itself, and what is reached from the next instruction.
LEMMA ReachedStep ==
    ASSUME NEW code \in Seq(Byte), NEW p \in Nat
    PROVE  ReachedFrom(code, p) = {p} \cup ReachedFrom(code, After(code, p))
  <1> DEFINE n == After(code, p)
  <1>1. n \in Nat
    BY AfterRange
  <1>2. ASSUME NEW q \in ReachedFrom(code, p)
        PROVE  q \in {p} \cup ReachedFrom(code, n)
    <2> DEFINE A == {p} \cup ReachedFrom(code, n)
    <2>1. A \in SUBSET Nat /\ p \in A
      BY DEF ReachedFrom
    <2>2. \A x \in A : After(code, x) \in A
      BY <1>1, ReachedAfter, ReachedSelf
    <2> QED
      BY <2>1, <2>2 DEF ReachedFrom
  <1>3. ASSUME NEW q \in ReachedFrom(code, n)
        PROVE  q \in ReachedFrom(code, p)
    BY <1>1, <1>3 DEF ReachedFrom
  <1> QED
    BY <1>2, <1>3, ReachedSelf

\* Before a position an instruction starts at lies another one, or nothing.
LEMMA StartsBackwards ==
    ASSUME NEW code \in Seq(Byte), NEW i \in Nat
    PROVE  i \in Starts(code) <=>
              \/ i = 0
              \/ \E q \in 0 .. i - 1 : i = After(code, q) /\ q \in Starts(code)
  <1> DEFINE A == {0} \cup {After(code, q) : q \in Starts(code)}
  <1>1. \A q \in Starts(code) : q \in Nat /\ After(code, q) \in Starts(code)
    BY ReachedAfter DEF Starts, ReachedFrom
  <1>2. 0 \in Starts(code)
    BY ReachedSelf DEF Starts
  <1>3. A \in SUBSET Nat /\ A \subseteq Starts(code)
    BY <1>1, <1>2, AfterRange
  <1>4. \A x \in A : After(code, x) \in A
    BY <1>3
  <1>5. ASSUME i \in Starts(code), i # 0
        PROVE  \E q \in 0 .. i - 1 : i = After(code, q) /\ q \in Starts(code)
    <2>1. i \in A
      <3> HIDE DEF A
      <3>1. 0 \in A
        BY DEF A
      <3> QED
        BY <1>5, <1>3, <1>4, <3>1 DEF Starts, ReachedFrom
    <2>2. PICK q \in Starts(code) : i = After(code, q)
      BY <2>1, <1>5
    <2>3. q \in Nat /\ i >= q + 1
      BY <1>1, <2>2, AfterRange
    <2> QED
      BY <2>2, <2>3
  <1> QED
    BY <1>1, <1>2, <1>5

\* InstructionStart is the recursive form of the same.
LEMMA StartsFunction ==
    ASSUME frame.code \in Seq(Byte), NEW p \in Nat
    PROVE  \E f : f = [i \in 0 .. p |->
                 i = 0 \/ \E q \in 0 .. i - 1 : i = q + 1 + PushBytes(Source(q)) /\ f[q]]
  <1> DEFINE g == [i \in 0 .. p |-> i \in Starts(frame.code)]
  <1>1. \A q \in Nat : After(frame.code, q) = q + 1 + PushBytes(Source(q))
    BY DEF After, ByteAt, Source, Size
  <1>2. ASSUME NEW i \in 0 .. p
        PROVE  i \in Starts(frame.code) <=>
                  i = 0 \/ \E q \in 0 .. i - 1 : i = q + 1 + PushBytes(Source(q)) /\ g[q]
    <2>1. i \in Nat /\ \A q \in 0 .. i - 1 : q \in Nat /\ q \in 0 .. p
      OBVIOUS
    <2>2. \A q \in 0 .. i - 1 : g[q] <=> q \in Starts(frame.code)
      BY <2>1
    <2>3. \A q \in 0 .. i - 1 : After(frame.code, q) = q + 1 + PushBytes(Source(q))
      BY <1>1, <2>1
    <2> HIDE DEF g
    <2>4. i \in Starts(frame.code) <=>
             \/ i = 0
             \/ \E q \in 0 .. i - 1 : i = After(frame.code, q) /\ q \in Starts(frame.code)
      BY <2>1, StartsBackwards
    <2> QED
      BY <2>2, <2>3, <2>4
  <1> HIDE DEF g
  <1>3. [i \in 0 .. p |-> i \in Starts(frame.code)]
        = [i \in 0 .. p |->
               i = 0 \/ \E q \in 0 .. i - 1 : i = q + 1 + PushBytes(Source(q)) /\ g[q]]
    BY <1>2
  <1>4. g = [i \in 0 .. p |->
               i = 0 \/ \E q \in 0 .. i - 1 : i = q + 1 + PushBytes(Source(q)) /\ g[q]]
    BY <1>3, Zenon DEF g
  <1> QED
    BY <1>4, Zenon

LEMMA StartsAreStarts ==
    ASSUME frame.code \in Seq(Byte), NEW p \in Starts(frame.code)
    PROVE  InstructionStart(p)
  <1> DEFINE Fits(f) == f = [i \in 0 .. p |->
                 i = 0 \/ \E q \in 0 .. i - 1 : i = q + 1 + PushBytes(Source(q)) /\ f[q]]
             start == CHOOSE f : Fits(f)
  <1>1. p \in Nat
    BY DEF Starts, ReachedFrom
  <1>2. \A q \in Nat : After(frame.code, q) = q + 1 + PushBytes(Source(q))
    BY DEF After, ByteAt, Source, Size
  <1>3. \E f : Fits(f)
    BY <1>1, StartsFunction, Zenon
  <1>4. Fits(start)
    <2> HIDE DEF Fits
    <2> QED
      BY <1>3
  <1>5. InstructionStart(p) = start[p]
    BY DEF InstructionStart
  <1> HIDE DEF start
  <1>5a. \A i \in 0 .. p : (i = 0 \/ \E q \in 0 .. i - 1 : i = q + 1 + PushBytes(Source(q)) /\ start[q])
                             => start[i]
    BY <1>4
  <1> HIDE DEF Fits
  <1> DEFINE A == {i \in Nat : i <= p /\ i \in Starts(frame.code) => start[i]}
  <1>6. ASSUME NEW i \in Nat, \A k \in 0 .. i - 1 : k \in A
        PROVE  i \in A
    <2> SUFFICES ASSUME i <= p, i \in Starts(frame.code)
                 PROVE  start[i]
      OBVIOUS
    <2>1. CASE i = 0
      BY <1>1, <1>5a, <2>1
    <2>2. CASE i # 0
      <3>1. PICK q \in 0 .. i - 1 : i = After(frame.code, q) /\ q \in Starts(frame.code)
        BY <2>2, StartsBackwards
      <3>2. start[q]
        BY <1>1, <1>6, <3>1
      <3>3. i \in 0 .. p /\ i = q + 1 + PushBytes(Source(q))
        BY <1>1, <1>2, <3>1
      <3> QED
        BY <1>5a, <3>1, <3>2, <3>3
    <2> QED
      BY <2>1, <2>2
  <1>7. p \in A
    <2> HIDE DEF A
    <2> QED
      BY <1>1, <1>6, AllNaturalsStrong
  <1> QED
    BY <1>1, <1>5, <1>7

\* The scan finds only such positions.
LEMMA ScanFunction ==
    ASSUME frame.code \in Seq(Byte)
    PROVE  \E f : f = [p \in 0 .. Size + 32 |->
                 IF p >= Size THEN {} ELSE {p} \cup f[p + 1 + PushBytes(Source(p))]]
  <1> DEFINE g == [p \in 0 .. Size + 32 |-> {q \in ReachedFrom(frame.code, p) : q < Size}]
  <1>1. Size \in Nat /\ Size = Len(frame.code)
    BY DEF Size
  <1>2. \A p \in Nat : After(frame.code, p) = p + 1 + PushBytes(Source(p))
    BY DEF After, ByteAt, Source, Size
  <1>3. ASSUME NEW p \in 0 .. Size + 32
        PROVE  g[p] = IF p >= Size THEN {} ELSE {p} \cup g[p + 1 + PushBytes(Source(p))]
    <2>1. p \in Nat /\ g[p] = {q \in ReachedFrom(frame.code, p) : q < Size}
      BY <1>1
    <2>2. CASE p >= Size
      <3>1. \A q \in ReachedFrom(frame.code, p) : q \in Nat /\ q >= p
        BY <2>1, ReachedLater
      <3>2. {q \in ReachedFrom(frame.code, p) : q < Size} = {}
        BY <1>1, <2>1, <2>2, <3>1
      <3> QED
        BY <2>1, <2>2, <3>2
    <2>3. CASE ~(p >= Size)
      <3>1. PICK n : n = After(frame.code, p)
        OBVIOUS
      <3>2. n \in Nat /\ n >= p + 1 /\ n <= p + 33
        BY <2>1, <3>1, AfterRange
      <3>3. n \in 0 .. Size + 32
        BY <1>1, <2>1, <2>3, <3>2
      <3>4. g[n] = {q \in ReachedFrom(frame.code, n) : q < Size}
        BY <3>3
      <3>5. ReachedFrom(frame.code, p) = {p} \cup ReachedFrom(frame.code, n)
        BY <2>1, <3>1, ReachedStep
      <3> HIDE DEF g
      <3>6. p < Size
        BY <1>1, <2>1, <2>3
      <3>7. g[p] = {p} \cup g[n]
        BY <2>1, <3>4, <3>5, <3>6
      <3>8. n = p + 1 + PushBytes(Source(p))
        BY <1>2, <2>1, <3>1
      <3> QED
        BY <2>3, <3>7, <3>8
    <2> QED
      BY <2>2, <2>3
  <1> HIDE DEF g
  <1>4. [p \in 0 .. Size + 32 |-> g[p]]
        = [p \in 0 .. Size + 32 |->
              IF p >= Size THEN {} ELSE {p} \cup g[p + 1 + PushBytes(Source(p))]]
    BY <1>3
  <1>5. g = [p \in 0 .. Size + 32 |-> g[p]]
    BY DEF g
  <1> QED
    BY <1>4, <1>5, Zenon

LEMMA ScannedStarts ==
    ASSUME frame.code \in Seq(Byte)
    PROVE  Scanned \subseteq Starts(frame.code)
  <1> DEFINE Fits(f) == f = [p \in 0 .. Size + 32 |->
                 IF p >= Size THEN {} ELSE {p} \cup f[p + 1 + PushBytes(Source(p))]]
             from == CHOOSE f : Fits(f)
             End == Size + 32
  <1>1. Size \in Nat /\ Size = Len(frame.code) /\ End \in Nat
    BY DEF Size
  <1>2. \A p \in Nat : After(frame.code, p) = p + 1 + PushBytes(Source(p))
    BY DEF After, ByteAt, Source, Size
  <1>3. \E f : Fits(f)
    BY ScanFunction, Zenon
  <1>4. Fits(from)
    <2> HIDE DEF Fits
    <2> QED
      BY <1>3
  <1>5. Scanned = from[0]
    BY DEF Scanned
  <1> HIDE DEF from
  <1>5a. \A p \in 0 .. Size + 32 :
           from[p] = IF p >= Size THEN {} ELSE {p} \cup from[p + 1 + PushBytes(Source(p))]
    BY <1>4
  <1> HIDE DEF Fits
  <1> DEFINE A == {n \in Nat : n <= End => from[End - n] \subseteq ReachedFrom(frame.code, End - n)}
  <1>6. ASSUME NEW n \in Nat, \A k \in 0 .. n - 1 : k \in A
        PROVE  n \in A
    <2> SUFFICES ASSUME n <= End
                 PROVE  from[End - n] \subseteq ReachedFrom(frame.code, End - n)
      OBVIOUS
    <2>1. PICK p \in Nat : p = End - n
      <3> HIDE DEF A, End
      <3>1. End - n \in Nat
        BY <1>1
      <3> QED
        BY <3>1
    <2>2. p \in 0 .. Size + 32
      BY <1>1, <2>1
    <2>3. from[p] = IF p >= Size THEN {} ELSE {p} \cup from[p + 1 + PushBytes(Source(p))]
      BY <1>5a, <2>2
    <2>4. CASE p >= Size
      BY <2>1, <2>3, <2>4
    <2>5. CASE ~(p >= Size)
      <3>1. PICK q : q = After(frame.code, p)
        OBVIOUS
      <3>2. q \in Nat /\ q >= p + 1 /\ q <= p + 33
        BY <3>1, AfterRange
      <3>3. End - q \in 0 .. n - 1 /\ End - (End - q) = q /\ End - q <= End
        BY <1>1, <2>1, <2>5, <3>2
      <3>4. from[q] \subseteq ReachedFrom(frame.code, q)
        BY <1>6, <3>3
      <3>5. ReachedFrom(frame.code, p) = {p} \cup ReachedFrom(frame.code, q)
        BY <3>1, ReachedStep
      <3>6. from[p] = {p} \cup from[q]
        BY <1>2, <2>3, <2>5, <3>1
      <3> QED
        BY <2>1, <3>4, <3>5, <3>6
    <2> QED
      BY <2>4, <2>5
  <1>7. End \in A
    <2> HIDE DEF A, End
    <2> QED
      BY <1>1, <1>6, AllNaturalsStrong
  <1>8. End - End = 0 /\ End <= End
    BY <1>1
  <1> QED
    BY <1>5, <1>7, <1>8 DEF Starts

-----------------------------------------------------------------------------
(* The price of memory *)

LEMMA Limits ==
    /\ StackLimit \in Nat /\ MaxInt63 \in Nat /\ WordLimit \in Nat /\ MaxInt63 < WordLimit
    /\ Never \in Nat /\ Never = MaxInt63 + 1 /\ Result \subseteq 0 .. WordLimit - 1
  BY LimitsAssumption DEF Never

LEMMA Int63Range ==
    ASSUME NEW n \in Nat
    PROVE  /\ Int63(n) \in Nat
           /\ Int63(n) < Never => n = Int63(n)
           /\ n >= 1 => Int63(n) >= 1
  BY Limits DEF Int63

LEMMA SquaresGrow ==
    ASSUME NEW s \in Nat, NEW t \in Nat, s <= t
    PROVE  (s * s) \div 512 <= (t * t) \div 512 /\ (s * s) \div 512 \in Nat
  <1>1. s * s \in Nat /\ t * t \in Nat /\ s * s <= t * t
    OBVIOUS
  <1>2. \A a, b \in Nat : a <= b => a \div 512 <= b \div 512 /\ a \div 512 \in Nat
    OBVIOUS
  <1> QED
    BY <1>1, <1>2

\* More memory never costs less.
LEMMA GasForMemGrows ==
    ASSUME NEW m \in Nat, NEW n \in Nat, m <= n
    PROVE  /\ GasForMem(m) \in Nat /\ GasForMem(m) <= GasForMem(n)
           /\ GasForMem(m) < Never => m < Never
  <1> DEFINE s == m \div 32
             t == n \div 32
             a == 3 * s + (s * s) \div 512
             b == 3 * t + (t * t) \div 512
  <1>1. s \in Nat /\ t \in Nat /\ s <= t
    OBVIOUS
  <1>2. a \in Nat /\ b \in Nat /\ a <= b
    <2> HIDE DEF s, t
    <2>1. /\ (s * s) \div 512 \in Nat /\ (t * t) \div 512 \in Nat
          /\ (s * s) \div 512 <= (t * t) \div 512
      BY <1>1, SquaresGrow
    <2> QED
      BY <1>1, <2>1
  <1>3. /\ GasForMem(m) = IF m >= Never THEN Never ELSE Int63(a)
        /\ GasForMem(n) = IF n >= Never THEN Never ELSE Int63(b)
    BY DEF GasForMem
  <1> HIDE DEF a, b
  <1> QED
    BY <1>2, <1>3, Limits DEF Int63

LEMMA GasForMemOf ==
    ASSUME NEW m \in Nat
    PROVE  GasForMem(m) \in Nat /\ (GasForMem(m) < Never => m < Never)
  <1>1. m <= m
    OBVIOUS
  <1> QED
    BY <1>1, GasForMemGrows

LEMMA WholeWordsOf ==
    ASSUME NEW need \in Nat
    PROVE  NewSize(need) \in Nat /\ NewSize(need) % 32 = 0 /\ NewSize(need) >= need
  BY DEF NewSize, Words

\* A size that has been paid for is below every limit, and what was paid is
\* at least the difference in price.
Grown(need, cost) ==
    /\ MemAfter(need) \in Nat /\ MemAfter(need) % 32 = 0
    /\ MemAfter(need) >= mem /\ MemAfter(need) >= need /\ MemAfter(need) < Never
    /\ GasForMem(MemAfter(need)) <= GasForMem(mem) + cost

LEMMA MemoryGrows ==
    ASSUME NEW need \in Nat, NEW copied \in Nat, mem \in Nat, mem % 32 = 0, mem < Never
    PROVE  /\ MemGas(need, copied) \in Nat
           /\ MemGas(need, copied) < Never => Grown(need, MemGas(need, copied)) /\ copied < Never
  <1> DEFINE n == NewSize(need)
             copy == IF copied >= Never THEN Never ELSE 3 * Words(copied)
             grow == IF n > mem THEN IF n >= Never THEN Never ELSE GasForMem(n) - GasForMem(mem)
                     ELSE 0
  <1>1. n \in Nat /\ n % 32 = 0 /\ n >= need
    BY WholeWordsOf
  <1>2. copy \in Nat
    BY Limits DEF Words
  <1>3. GasForMem(mem) \in Nat /\ (n > mem => GasForMem(n) \in Nat /\ GasForMem(n) >= GasForMem(mem))
    <2> HIDE DEF n
    <2> QED
      BY <1>1, GasForMemGrows
  <1>4. MemGas(need, copied) = grow + copy /\ MemAfter(need) = IF n > mem THEN n ELSE mem
    BY DEF MemGas, MemAfter
  <1>5. grow \in Nat
    <2> HIDE DEF n
    <2> QED
      BY <1>1, <1>3, Limits
  <1>6. grow < Never => n <= mem \/ (n > mem /\ n < Never /\ grow = GasForMem(n) - GasForMem(mem))
    <2> HIDE DEF n
    <2> QED
      BY <1>1, Limits
  <1>7. copy < Never => copied < Never
    BY Limits
  <1> HIDE DEF n, copy, grow
  <1> QED
    BY <1>1, <1>2, <1>3, <1>4, <1>5, <1>6, <1>7, Limits DEF Grown

-----------------------------------------------------------------------------
(* The inductive invariant *)

Word == 0 .. WordLimit - 1

Errors == {"out of gas", "stack underflow", "stack overflow", "bad jump destination",
           "invalid instruction", "undefined instruction", "invalid memory access",
           "static mode violation"}

\* Jump destinations and synthetic opcodes are where the scan found them.
DestsFit ==
    /\ \A p \in dests : p \in Starts(frame.code) /\ p < Len(frame.code)
    /\ \A p \in undefs : ByteAt(frame.code, p) \in 172 .. 174

PcFits ==
    /\ pc \in Nat /\ (status = "entry" => pc = 0)
    /\ status = "running" => /\ pc < Len(frame.code) + 33
                             /\ pc < Len(frame.code) => pc \in Starts(frame.code)

GasFits == gas \in 0 .. frame.gas /\ (status \in Errors => gas = 0)

StackFits == stack \in Seq(Word) /\ Len(stack) <= StackLimit

MemoryFits == mem \in Nat /\ mem % 32 = 0 /\ gas + GasForMem(mem) <= frame.gas

LastFits ==
    /\ last.slots <= last.height /\ last.end <= mem /\ last.codeEnd < Len(frame.code) + 33
    /\ last.put => Len(stack) > 0 \/ gas = 0
    /\ status = "entry" => last = NoStep

IInv ==
    /\ frame \in Frame /\ status \in {"entry", "running", "success", "revert"} \cup Errors
    /\ DestsFit /\ PcFits /\ GasFits /\ StackFits /\ MemoryFits /\ ret \in 0 .. 2 /\ LastFits

LEMMA FrameFits ==
    ASSUME frame \in Frame
    PROVE  /\ frame.code \in Seq(Byte) /\ Len(frame.code) \in Nat
           /\ Len(frame.code) + 33 <= WordLimit
           /\ frame.rev \in Revision /\ frame.gas \in 0 .. MaxInt63
  BY FrameAssumption

LEMMA InvariantImplies == IInv => TypeOK /\ StackChecked /\ CodeChecked /\ MemoryPaid
  <1> SUFFICES ASSUME IInv PROVE TypeOK /\ StackChecked /\ CodeChecked /\ MemoryPaid
    OBVIOUS
  <1>1. TypeOK
    <2>1. \A i \in DOMAIN stack : stack[i] \in Word
      BY DEF IInv, StackFits
    <2>2. status \in {"entry", "running"} \/ Ended
      BY DEF IInv, Ended, Errors
    <2>3. Ended /\ status \notin {"success", "revert"} => gas = 0
      BY DEF IInv, Ended, Errors, GasFits
    <2>4. pc \in Nat /\ gas \in 0 .. frame.gas /\ mem \in Nat /\ ret \in Nat
      BY DEF IInv, PcFits, GasFits, MemoryFits
    <2> QED
      BY <2>1, <2>2, <2>3, <2>4 DEF TypeOK, Word
  <1>2. StackChecked
    BY DEF IInv, StackChecked, LastFits, StackFits
  <1>3. CodeChecked
    BY FrameFits, StartsAreStarts DEF IInv, CodeChecked, LastFits, PcFits, Running, Size, ExtraBytes
  <1>4. MemoryPaid
    BY DEF IInv, MemoryPaid, LastFits, MemoryFits
  <1> QED
    BY <1>1, <1>2, <1>3, <1>4

LEMMA InitFits == Init => IInv
  <1> SUFFICES ASSUME Init PROVE IInv
    OBVIOUS
  <1>1. frame \in Frame /\ frame.gas \in 0 .. MaxInt63 /\ Len(frame.code) \in Nat
    BY FrameFits DEF Init
  <1>2. GasForMem(0) = 0
    <2>1. 0 \div 32 = 0 /\ (0 * 0) \div 512 = 0
      OBVIOUS
    <2> QED
      BY <2>1, Limits DEF GasForMem, Int63
  <1>3. <<>> \in Seq(Word) /\ Len(<<>>) = 0
    OBVIOUS
  <1>4. DestsFit /\ PcFits
    BY DEF Init, DestsFit, PcFits
  <1>5. GasFits /\ StackFits
    BY <1>1, <1>3, Limits DEF Init, GasFits, StackFits, Errors
  <1>6. MemoryFits
    BY <1>1, <1>2 DEF Init, MemoryFits
  <1>7. LastFits
    BY <1>1 DEF Init, LastFits, NoStep
  <1> QED
    BY <1>1, <1>4, <1>5, <1>6, <1>7 DEF Init, IInv

-----------------------------------------------------------------------------
(* The byte that is executed *)

LEMMA OpFits ==
    ASSUME IInv
    PROVE  /\ Op \in Byte
           /\ Op # 0 => pc < Len(frame.code)
           /\ PushBytes(Op) = PushBytes(ByteAt(frame.code, pc))
           /\ \A i \in Nat : Code(i) \in Byte
  <1>1. \A i \in Nat : Source(i) = ByteAt(frame.code, i) /\ Source(i) \in Byte
    BY FrameFits, ByteAtByte DEF IInv, Source, ByteAt, Size
  <1>2. UndefinedOp \in Byte
    BY DEF UndefinedOp, Byte
  <1>3. pc \in Nat
    BY DEF IInv, PcFits
  <1>4. \A i \in Nat : Code(i) \in Byte
    BY <1>1, <1>2 DEF Code
  <1>5. CASE pc \in undefs
    <2>1. Op = 175 /\ ByteAt(frame.code, pc) \in 172 .. 174
      BY <1>5 DEF IInv, DestsFit, Op, Code, UndefinedOp
    <2>2. Len(frame.code) \in Nat
      BY FrameFits DEF IInv
    <2>3. pc < Len(frame.code)
      BY <1>3, <2>1, <2>2 DEF ByteAt
    <2>4. PushBytes(Op) = 0 /\ PushBytes(ByteAt(frame.code, pc)) = 0
      BY <2>1 DEF PushBytes
    <2>5. Op \in Byte
      BY <1>3, <1>4 DEF Op
    <2> QED
      BY <1>4, <2>3, <2>4, <2>5
  <1>6. CASE pc \notin undefs
    <2>1. Op = ByteAt(frame.code, pc)
      BY <1>1, <1>3, <1>6 DEF Op, Code
    <2>2. Op # 0 => pc < Len(frame.code)
      BY <2>1 DEF ByteAt
    <2> QED
      BY <1>3, <1>4, <2>1, <2>2 DEF Op
  <1> QED
    BY <1>5, <1>6

-----------------------------------------------------------------------------
(* What a step does: it keeps the invariant, it costs gas if the frame goes *)
(* on, and it keeps one 64th when it calls out.                             *)

SixtyFourth ==
    From(TangerineWhistle) =>
        /\ last'.host = "create" => gas' >= (gas' + last'.given) \div 64
        /\ last'.host = "call" => gas' >= (gas' + last'.given - CallStipend) \div 64

Good == IInv' /\ (status' = "running" => gas' < gas) /\ SixtyFourth

\* The report of an opcode in last.
Says(slots, put, end, at) ==
    /\ last'.height = Len(stack) /\ last'.slots = slots /\ last'.put = put
    /\ last'.end = end /\ last'.codeEnd = at

LastGood ==
    /\ last'.slots <= last'.height /\ last'.end <= mem' /\ last'.codeEnd < Len(frame.code) + 33
    /\ last'.put => Len(stack') > 0

SameFrame == frame' = frame /\ dests' = dests /\ undefs' = undefs

Spends == gas' \in Nat /\ gas' <= gas /\ (status' = "running" => gas' < gas)

Memory == mem' \in Nat /\ mem' % 32 = 0 /\ gas' + GasForMem(mem') <= gas + GasForMem(mem)

LEMMA Effect ==
    ASSUME IInv, SameFrame, status' \in {"running", "success", "revert"} \cup Errors,
           status' \in Errors => gas' = 0,
           pc' \in Nat,
           status' = "running" => /\ pc' < Len(frame.code) + 33
                                  /\ pc' < Len(frame.code) => pc' \in Starts(frame.code),
           Spends, Memory, stack' \in Seq(Word), Len(stack') <= StackLimit, ret' \in 0 .. 2,
           LastGood, SixtyFourth
    PROVE  Good
  <1>1. frame' = frame /\ dests' = dests /\ undefs' = undefs
    BY DEF SameFrame
  <1>2. DestsFit'
    BY <1>1 DEF IInv, DestsFit
  <1>3. status' # "entry"
    BY DEF Errors
  <1>4. PcFits'
    BY <1>1, <1>3 DEF PcFits
  <1>5. /\ gas \in 0 .. frame.gas /\ frame.gas \in 0 .. MaxInt63 /\ MaxInt63 \in Nat
        /\ mem \in Nat /\ gas + GasForMem(mem) <= frame.gas
    BY FrameFits, Limits DEF IInv, GasFits, MemoryFits
  <1>6. GasFits'
    BY <1>1, <1>5 DEF GasFits, Spends
  <1>7. StackFits'
    BY DEF StackFits
  <1>8. GasForMem(mem) \in Nat /\ GasForMem(mem') \in Nat
    BY <1>5, GasForMemGrows DEF Memory
  <1>9. MemoryFits'
    <2>1. gas' + GasForMem(mem') <= gas + GasForMem(mem)
      BY DEF Memory
    <2>2. gas' \in Nat /\ gas \in Nat /\ frame.gas \in Nat
      BY <1>5 DEF Spends
    <2>3. gas' + GasForMem(mem') <= frame'.gas
      BY <1>1, <1>5, <1>8, <2>1, <2>2
    <2>4. mem' \in Nat /\ mem' % 32 = 0
      BY DEF Memory
    <2> QED
      BY <2>3, <2>4 DEF MemoryFits
  <1>10. LastFits'
    BY <1>1, <1>3 DEF LastFits, LastGood
  <1>11. IInv'
    BY <1>1, <1>2, <1>4, <1>6, <1>7, <1>9, <1>10 DEF IInv
  <1> QED
    BY <1>11 DEF Good, Spends

\* What is reported without memory, and with it.
LEMMA Touched ==
    ASSUME NEW slots
    PROVE  /\ last' = Touch(slots) => Says(slots, FALSE, 0, pc) /\ last'.host = "none"
           /\ last' = [Touch(slots) EXCEPT !.put = TRUE] =>
                 Says(slots, TRUE, 0, pc) /\ last'.host = "none"
  BY DEF Touch, NoStep, Says

LEMMA Accessed ==
    ASSUME NEW slots, NEW offset, NEW size, NEW end, end = IF size = 0 THEN 0 ELSE offset + size
    PROVE  /\ last' = Access(slots, offset, size) =>
                 Says(slots, FALSE, end, pc) /\ last'.host = "none"
           /\ last' = [Access(slots, offset, size) EXCEPT !.put = TRUE] =>
                 Says(slots, TRUE, end, pc) /\ last'.host = "none"
           /\ last' = [Access(slots, offset, size) EXCEPT !.host = "emit_log"] =>
                 Says(slots, FALSE, end, pc) /\ last'.host = "emit_log"
  BY DEF Access, Touch, NoStep, Says

\* A frame that is thrown out of keeps everything but its gas.
LEMMA Thrown ==
    ASSUME IInv, NEW why \in Errors, Throw(why), LastGood, SixtyFourth
    PROVE  Good
  <1>1. SameFrame /\ status' = why /\ gas' = 0 /\ pc' = pc /\ stack' = stack /\ mem' = mem /\ ret' = ret
    BY DEF Throw, SameFrame
  <1>2. why # "running" /\ why \in {"running", "success", "revert"} \cup Errors
    BY DEF Errors
  <1>3. gas \in Nat /\ mem \in Nat /\ GasForMem(mem) \in Nat /\ mem % 32 = 0
    <2>1. gas \in Nat
      BY FrameFits DEF IInv, GasFits
    <2>2. mem \in Nat /\ mem % 32 = 0
      BY DEF IInv, MemoryFits
    <2> QED
      BY <2>1, <2>2, GasForMemOf
  <1>4. Spends /\ Memory
    BY <1>1, <1>2, <1>3 DEF Spends, Memory
  <1>5. stack' \in Seq(Word) /\ Len(stack') <= StackLimit /\ ret' \in 0 .. 2 /\ pc' \in Nat
    BY <1>1 DEF IInv, StackFits, PcFits
  <1>6. status' # "running" /\ status' \in {"running", "success", "revert"} \cup Errors
    BY <1>1, <1>2
  <1> QED
    BY <1>1, <1>4, <1>5, <1>6, Effect

LEMMA Failed ==
    ASSUME IInv, NEW why \in Errors, Fail(why)
    PROVE  Good
  <1>1. Throw(why) /\ last' = [NoStep EXCEPT !.height = Len(stack)]
    BY DEF Fail
  <1>2. Says(0, FALSE, 0, 0) /\ last'.host = "none"
    BY <1>1 DEF NoStep, Says
  <1>3. Len(stack) \in Nat /\ Len(frame.code) \in Nat /\ mem \in Nat /\ mem' = mem
    BY <1>1, FrameFits DEF IInv, StackFits, MemoryFits, Throw
  <1>4. LastGood
    BY <1>2, <1>3 DEF LastGood, Says
  <1>5. SixtyFourth
    BY <1>2 DEF SixtyFourth
  <1> QED
    BY <1>1, <1>4, <1>5, Thrown

-----------------------------------------------------------------------------
(* The stack: what a row promises is what the case finds *)

Ready(required, change, least) ==
    /\ Metric.required = required /\ Metric.change = change
    /\ Metric.gas \in Nat /\ Metric.gas >= least
    /\ Len(stack) >= required /\ Len(stack) + change <= StackLimit

LEMMA IsReady ==
    ASSUME IInv, NEW required \in Int, NEW change \in Int, NEW least \in Int,
           RowIs(frame.rev, Op, required, change, least), ~TooShort, ~TooLong
    PROVE  Ready(required, change, least)
  <1>1. Len(stack) \in Nat
    BY DEF IInv, StackFits
  <1>2. /\ Metric.required = required /\ Metric.change = change
        /\ Metric.gas \in Nat /\ Metric.gas >= least
    BY DEF RowIs, Metric
  <1>3. ~(Len(stack) < required) /\ ~(Len(stack) + change > StackLimit)
    BY <1>2 DEF TooShort, TooLong
  <1>4. Len(stack) >= required /\ Len(stack) + change <= StackLimit
    BY <1>1, <1>3, Limits
  <1> QED
    BY <1>2, <1>4 DEF Ready

LEMMA IsAt ==
    ASSUME IInv, NEW c \in DOMAIN CaseBytes, At(c)
    PROVE  Running /\ Op \in CaseBytes[c] /\ ~TooShort /\ ~TooLong /\ frame.rev \in Revision
  BY OpFits, Dispatched, FrameFits DEF At, IInv

LEMMA Args ==
    ASSUME IInv, NEW required, NEW change, NEW least, Ready(required, change, least),
           required \in Nat, NEW k \in Nat, k < required
    PROVE  Arg(k) \in Word /\ Arg(k) \in Nat
  <1>1. stack \in Seq(Word) /\ Len(stack) \in Nat
    BY DEF IInv, StackFits
  <1>2. k + 1 \in 1 .. Len(stack)
    BY <1>1 DEF Ready
  <1>3. stack[k + 1] \in Word
    BY <1>1, <1>2
  <1> QED
    BY <1>3, Limits DEF Arg, Word

\* The stack after the opcode, before and after its result is written.
LEMMA MovedFits ==
    ASSUME IInv, NEW required \in Nat, NEW change \in Int, NEW least,
           Ready(required, change, least), change <= 1, required + change >= 0
    PROVE  /\ Moved \in Seq(Word) /\ Len(Moved) = Len(stack) + change
           /\ Len(Moved) <= StackLimit /\ Len(Moved) >= required + change
  <1>1. stack \in Seq(Word) /\ Len(stack) \in Nat
    BY DEF IInv, StackFits
  <1>2. /\ Metric.change = change /\ Len(stack) >= required
        /\ Len(stack) + change <= StackLimit
    BY DEF Ready
  <1>3. CASE change > 0
    <2>1. 0 \in Word
      BY Limits DEF Word
    <2>2. <<0>> \in Seq(Word) /\ Len(<<0>>) = 1
      BY <2>1
    <2>3. <<0>> \o stack \in Seq(Word) /\ Len(<<0>> \o stack) = Len(stack) + 1
      BY <1>1, <2>2
    <2> QED
      BY <1>1, <1>2, <1>3, <2>3, Limits DEF Moved
  <1>4. CASE ~(change > 0)
    <2>1. PICK m : m = 1 - change
      OBVIOUS
    <2>2. m \in Nat /\ m >= 1 /\ m <= Len(stack) + 1
      BY <1>1, <1>2, <1>4, <2>1
    <2>3. /\ SubSeq(stack, m, Len(stack)) \in Seq(Word)
          /\ Len(SubSeq(stack, m, Len(stack))) = Len(stack) - m + 1
      BY <1>1, <2>2
    <2>4. Moved = SubSeq(stack, m, Len(stack))
      BY <1>2, <1>4, <2>1 DEF Moved
    <2> QED
      BY <1>1, <1>2, <2>1, <2>3, <2>4, Limits
  <1> QED
    BY <1>3, <1>4

LEMMA PutFits ==
    ASSUME NEW moved \in Seq(Word), Len(moved) > 0, NEW v \in Word
    PROVE  /\ [moved EXCEPT ![1] = v] \in Seq(Word)
           /\ Len([moved EXCEPT ![1] = v]) = Len(moved)
  OBVIOUS

-----------------------------------------------------------------------------
(* An opcode that pays and goes on *)

Ordinary == Running /\ Op # 0 /\ PushBytes(Op) = 0

LEMMA NextPosition ==
    ASSUME IInv, Running, Op # 0, NEW p, p = pc + 1 + PushBytes(Op)
    PROVE  /\ p \in Nat /\ p < Len(frame.code) + 33
           /\ p < Len(frame.code) => p \in Starts(frame.code)
  <1>1. pc \in Nat /\ pc < Len(frame.code) /\ frame.code \in Seq(Byte) /\ Len(frame.code) \in Nat
    BY OpFits, FrameFits DEF IInv, PcFits
  <1>2. pc \in Starts(frame.code)
    BY <1>1 DEF IInv, PcFits, Running
  <1>3. p = After(frame.code, pc)
    BY OpFits DEF After
  <1>4. p \in Nat /\ p <= pc + 33
    BY <1>1, <1>3, AfterRange
  <1>5. p \in Starts(frame.code)
    BY <1>1, <1>2, <1>3, ReachedAfter DEF Starts
  <1> QED
    BY <1>1, <1>4, <1>5

LEMMA Reports ==
    ASSUME IInv, Running, NEW slots, NEW put, NEW end, Says(slots, put, end, pc),
           slots <= Len(stack), end <= mem', put => Len(stack') > 0
    PROVE  LastGood
  <1>1. pc < Len(frame.code) + 33
    BY DEF IInv, PcFits, Running
  <1> QED
    BY <1>1 DEF LastGood, Says

LEMMA GoesOn ==
    ASSUME IInv, Ordinary, Next1, gas' \in Nat, gas' < gas, Memory,
           stack' \in Seq(Word), Len(stack') <= StackLimit, LastGood,
           last'.host \notin {"create", "call"}
    PROVE  Good
  <1>1. SameFrame /\ status' = "running" /\ ret' = ret /\ pc' = pc + 1
    BY DEF Next1, SameFrame, Ordinary, Running
  <1>2. status' \notin Errors
    BY <1>1 DEF Errors
  <1>3. pc' = pc + 1 + PushBytes(Op)
    <2>1. pc \in Nat
      BY DEF IInv, PcFits
    <2> QED
      BY <1>1, <2>1 DEF Ordinary
  <1>4. /\ pc' \in Nat /\ pc' < Len(frame.code) + 33
        /\ pc' < Len(frame.code) => pc' \in Starts(frame.code)
    BY <1>3, NextPosition DEF Ordinary
  <1>5. gas \in Nat
    BY FrameFits DEF IInv, GasFits
  <1>6. Spends
    BY <1>5 DEF Spends
  <1>7. ret' \in 0 .. 2
    BY <1>1 DEF IInv
  <1>8. SixtyFourth
    BY DEF SixtyFourth
  <1> QED
    BY <1>1, <1>2, <1>4, <1>6, <1>7, <1>8, Effect

LEMMA Numbers ==
    ASSUME IInv
    PROVE  /\ gas \in Nat /\ gas <= MaxInt63 /\ pc \in Nat /\ Len(stack) \in Nat
           /\ mem \in Nat /\ mem % 32 = 0 /\ mem < Never /\ GasForMem(mem) \in Nat
  <1>1. gas \in Nat /\ gas <= MaxInt63 /\ gas <= frame.gas /\ frame.gas <= MaxInt63
    BY FrameFits, Limits DEF IInv, GasFits
  <1>2. mem \in Nat /\ mem % 32 = 0 /\ gas + GasForMem(mem) <= frame.gas
    BY DEF IInv, MemoryFits
  <1>3. GasForMem(mem) \in Nat
    BY <1>2, GasForMemOf
  <1>4. frame.gas \in Int
    BY FrameFits DEF IInv
  <1>5. GasForMem(mem) < Never
    BY <1>1, <1>2, <1>3, <1>4, Limits
  <1>6. mem < Never
    BY <1>2, <1>5, GasForMemOf
  <1>7. pc \in Nat /\ Len(stack) \in Nat
    BY DEF IInv, PcFits, StackFits
  <1> QED
    BY <1>1, <1>2, <1>3, <1>6, <1>7

\* Memory stays as it is, or grows by what the opcode needs.
LEMMA MemoryStays ==
    ASSUME IInv, mem' = mem, gas' \in Nat, gas' <= gas
    PROVE  Memory /\ 0 <= mem'
  BY Numbers DEF Memory

LEMMA PutsGood ==
    ASSUME IInv, Ordinary, NEW required \in Nat, NEW change \in Int, NEW least,
           Ready(required, change, least), change <= 1, required + change >= 1,
           NEW slots \in Nat, slots <= required, NEW v \in Word, NEW cost \in Nat, cost >= 1,
           Pay(cost, PutsWith(slots, v) /\ Plain)
    PROVE  Good
  <1>1. CASE gas < cost
    <2>1. "out of gas" \in Errors
      BY DEF Errors
    <2> QED
      BY <1>1, <2>1, Failed DEF Pay
  <1>2. CASE ~(gas < cost)
    <2>1. /\ gas' = gas - cost /\ Put(v) /\ last' = [Touch(slots) EXCEPT !.put = TRUE]
          /\ Next1 /\ mem' = mem
      BY <1>2 DEF Pay, PutsWith, Plain, Left
    <2>2. gas \in Nat
      BY FrameFits DEF IInv, GasFits
    <2>3. gas' \in Nat /\ gas' < gas
      BY <1>2, <2>1, <2>2
    <2>4. /\ Moved \in Seq(Word) /\ Len(Moved) <= StackLimit /\ Len(Moved) >= 1
          /\ Len(Moved) \in Nat
      BY MovedFits
    <2>5. stack' \in Seq(Word) /\ Len(stack') = Len(Moved)
      BY <2>1, <2>4, PutFits DEF Put
    <2>6. Says(slots, TRUE, 0, pc) /\ last'.host = "none"
      BY <2>1, Touched
    <2>7. Memory /\ 0 <= mem'
      BY <2>1, <2>2, <2>3, MemoryStays
    <2>8. slots <= Len(stack)
      BY DEF Ready, IInv, StackFits
    <2>9. Len(stack') > 0
      BY <2>4, <2>5
    <2>10. LastGood
      BY <2>6, <2>7, <2>8, <2>9, Reports DEF Ordinary
    <2> QED
      BY <2>1, <2>3, <2>4, <2>5, <2>6, <2>7, <2>10, GoesOn
  <1> QED
    BY <1>1, <1>2

LEMMA PopsGood ==
    ASSUME IInv, Ordinary, NEW required \in Nat, NEW change \in Int, NEW least,
           Ready(required, change, least), change <= 1, required + change >= 0,
           NEW cost \in Nat, cost >= 1, Pay(cost, Pops /\ last' = Touch(0) /\ Plain)
    PROVE  Good
  <1>1. CASE gas < cost
    <2>1. "out of gas" \in Errors
      BY DEF Errors
    <2> QED
      BY <1>1, <2>1, Failed DEF Pay
  <1>2. CASE ~(gas < cost)
    <2>1. gas' = gas - cost /\ stack' = Moved /\ last' = Touch(0) /\ Next1 /\ mem' = mem
      BY <1>2 DEF Pay, Pops, Plain, Left
    <2>2. gas \in Nat
      BY FrameFits DEF IInv, GasFits
    <2>3. gas' \in Nat /\ gas' < gas
      BY <1>2, <2>1, <2>2
    <2>4. Moved \in Seq(Word) /\ Len(Moved) <= StackLimit
      BY MovedFits
    <2>5. Says(0, FALSE, 0, pc) /\ last'.host = "none"
      BY <2>1, Touched
    <2>6. Memory /\ 0 <= mem'
      BY <2>1, <2>2, <2>3, MemoryStays
    <2>7. 0 <= Len(stack)
      BY DEF IInv, StackFits
    <2>8. LastGood
      BY <2>5, <2>6, <2>7, Reports DEF Ordinary
    <2> QED
      BY <2>1, <2>3, <2>4, <2>5, <2>6, <2>8, GoesOn
  <1> QED
    BY <1>1, <1>2

LEMMA IsOrdinary ==
    ASSUME IInv, NEW c \in DOMAIN CaseBytes \ {"push", "stop"}, At(c)
    PROVE  Ordinary
  <1>1. \A k \in DOMAIN CaseBytes \ {"push", "stop"} : \A b \in CaseBytes[k] :
           b # 0 /\ b \notin 96 .. 127
    BY SMTT(60) DEF CaseBytes
  <1>2. Op \in CaseBytes[c] /\ Running
    BY IsAt
  <1> QED
    BY <1>1, <1>2 DEF Ordinary, PushBytes

LEMMA Names ==
    /\ {"unary", "binary", "ternary", "shift", "exp", "message", "block", "counter", "blockhash",
        "sload", "query", "pop", "jump", "jumpi", "jumpdest", "dup", "swap", "log", "mload",
        "mstore", "sha3", "datacopy", "extcodecopy", "returndatacopy", "return", "sstore",
        "selfdestruct", "create", "call"} \subseteq DOMAIN CaseBytes \ {"push", "stop"}
    /\ {"push", "stop"} \subseteq DOMAIN CaseBytes
  BY DEF CaseBytes

LEMMA ReadyComputing ==
    ASSUME IInv
    PROVE  /\ At("unary") => Ordinary /\ Ready(1, 0, 1)
           /\ At("binary") => Ordinary /\ Ready(2, -1, 1)
           /\ At("ternary") => Ordinary /\ Ready(3, -2, 1)
           /\ At("exp") => Ordinary /\ Ready(2, -1, 0)
           /\ At("counter") => Ordinary /\ Ready(0, 1, 1)
           /\ At("push") => Running /\ Op \in 96 .. 127 /\ Ready(0, 1, 1)
  <1>1. ASSUME At("unary") PROVE Ordinary /\ Ready(1, 0, 1)
    <2>1. Op \in CaseBytes.unary /\ ~TooShort /\ ~TooLong /\ frame.rev \in Revision /\ Ordinary
      BY <1>1, IsAt, IsOrdinary, Names
    <2>9. RowIs(frame.rev, Op, 1, 0, 1)
      BY <2>1, RowsOfComputing
    <2> QED
      BY <2>1, <2>9, IsReady
  <1>2. ASSUME At("binary") PROVE Ordinary /\ Ready(2, -1, 1)
    <2>1. Op \in CaseBytes.binary /\ ~TooShort /\ ~TooLong /\ frame.rev \in Revision /\ Ordinary
      BY <1>2, IsAt, IsOrdinary, Names
    <2>9. RowIs(frame.rev, Op, 2, -1, 1)
      BY <2>1, RowsOfComputing
    <2> QED
      BY <2>1, <2>9, IsReady
  <1>3. ASSUME At("ternary") PROVE Ordinary /\ Ready(3, -2, 1)
    <2>1. Op \in CaseBytes.ternary /\ ~TooShort /\ ~TooLong /\ frame.rev \in Revision /\ Ordinary
      BY <1>3, IsAt, IsOrdinary, Names
    <2>9. RowIs(frame.rev, Op, 3, -2, 1)
      BY <2>1, RowsOfComputing
    <2> QED
      BY <2>1, <2>9, IsReady
  <1>4. ASSUME At("exp") PROVE Ordinary /\ Ready(2, -1, 0)
    <2>1. Op \in CaseBytes.exp /\ ~TooShort /\ ~TooLong /\ frame.rev \in Revision /\ Ordinary
      BY <1>4, IsAt, IsOrdinary, Names
    <2>2. Op = 10
      BY <2>1 DEF CaseBytes
    <2>9. RowIs(frame.rev, Op, 2, -1, 0)
      BY <2>1, <2>2, RowsOfComputing
    <2> QED
      BY <2>1, <2>9, IsReady
  <1>5. ASSUME At("counter") PROVE Ordinary /\ Ready(0, 1, 1)
    <2>1. Op \in CaseBytes.counter /\ ~TooShort /\ ~TooLong /\ frame.rev \in Revision /\ Ordinary
      BY <1>5, IsAt, IsOrdinary, Names
    <2>9. RowIs(frame.rev, Op, 0, 1, 1)
      BY <2>1, RowsOfComputing
    <2> QED
      BY <2>1, <2>9, IsReady
  <1>6. ASSUME At("push") PROVE Running /\ Op \in 96 .. 127 /\ Ready(0, 1, 1)
    <2>1. Op \in CaseBytes.push /\ ~TooShort /\ ~TooLong /\ frame.rev \in Revision /\ Running
      BY <1>6, IsAt, Names
    <2>2. Op \in 96 .. 127
      BY <2>1 DEF CaseBytes
    <2>9. RowIs(frame.rev, Op, 0, 1, 1)
      BY <2>1, <2>2, RowsOfComputing
    <2>3. Ready(0, 1, 1)
      BY <2>1, <2>9, IsReady
    <2> QED
      BY ONLY <2>1, <2>2, <2>3
  <1> QED
    BY <1>1, <1>2, <1>3, <1>4, <1>5, <1>6

LEMMA ReadyData ==
    ASSUME IInv
    PROVE  /\ At("shift") /\ From(Constantinople) => Ordinary /\ Ready(2, -1, 1)
           /\ At("message") /\ (Op = 61 => From(Byzantium)) => Ordinary /\ Ready(0, 1, 1)
           /\ At("block") /\ (Op \in {70, 71} => From(Istanbul)) => Ordinary /\ Ready(0, 1, 1)
           /\ At("blockhash") => Ordinary /\ Ready(1, 0, 0)
           /\ At("sload") => Ordinary /\ Ready(1, 0, 1)
           /\ At("query") /\ (Op = 63 => From(Constantinople)) => Ordinary /\ Ready(1, 0, 1)
  <1>1. ASSUME At("shift"), From(Constantinople) PROVE Ordinary /\ Ready(2, -1, 1)
    <2>1. Op \in CaseBytes.shift /\ ~TooShort /\ ~TooLong /\ frame.rev \in Revision /\ Ordinary
      BY <1>1, IsAt, IsOrdinary, Names
    <2>9. RowIs(frame.rev, Op, 2, -1, 1)
      BY <1>1, <2>1, RowsOfData DEF From
    <2> QED
      BY <2>1, <2>9, IsReady
  <1>2. ASSUME At("message"), (Op = 61 => From(Byzantium)) PROVE Ordinary /\ Ready(0, 1, 1)
    <2>1. Op \in CaseBytes.message /\ ~TooShort /\ ~TooLong /\ frame.rev \in Revision /\ Ordinary
      BY <1>2, IsAt, IsOrdinary, Names
    <2>9. RowIs(frame.rev, Op, 0, 1, 1)
      BY <1>2, <2>1, RowsOfData DEF From
    <2> QED
      BY <2>1, <2>9, IsReady
  <1>3. ASSUME At("block"), (Op \in {70, 71} => From(Istanbul)) PROVE Ordinary /\ Ready(0, 1, 1)
    <2>1. Op \in CaseBytes.block /\ ~TooShort /\ ~TooLong /\ frame.rev \in Revision /\ Ordinary
      BY <1>3, IsAt, IsOrdinary, Names
    <2>9. RowIs(frame.rev, Op, 0, 1, 1)
      BY <1>3, <2>1, RowsOfData DEF From
    <2> QED
      BY <2>1, <2>9, IsReady
  <1>4. ASSUME At("blockhash") PROVE Ordinary /\ Ready(1, 0, 0)
    <2>1. Op \in CaseBytes.blockhash /\ ~TooShort /\ ~TooLong /\ frame.rev \in Revision /\ Ordinary
      BY <1>4, IsAt, IsOrdinary, Names
    <2>2. Op = 64
      BY <2>1 DEF CaseBytes
    <2>9. RowIs(frame.rev, Op, 1, 0, 0)
      BY <2>1, <2>2, RowsOfData
    <2> QED
      BY <2>1, <2>9, IsReady
  <1>5. ASSUME At("sload") PROVE Ordinary /\ Ready(1, 0, 1)
    <2>1. Op \in CaseBytes.sload /\ ~TooShort /\ ~TooLong /\ frame.rev \in Revision /\ Ordinary
      BY <1>5, IsAt, IsOrdinary, Names
    <2>2. Op = 84
      BY <2>1 DEF CaseBytes
    <2>9. RowIs(frame.rev, Op, 1, 0, 1)
      BY <2>1, <2>2, RowsOfData
    <2> QED
      BY <2>1, <2>9, IsReady
  <1>6. ASSUME At("query"), (Op = 63 => From(Constantinople)) PROVE Ordinary /\ Ready(1, 0, 1)
    <2>1. Op \in CaseBytes.query /\ ~TooShort /\ ~TooLong /\ frame.rev \in Revision /\ Ordinary
      BY <1>6, IsAt, IsOrdinary, Names
    <2>9. RowIs(frame.rev, Op, 1, 0, 1)
      BY <1>6, <2>1, RowsOfData DEF From
    <2> QED
      BY <2>1, <2>9, IsReady
  <1> QED
    BY <1>1, <1>2, <1>3, <1>4, <1>5, <1>6

LEMMA ReadyFlow ==
    ASSUME IInv
    PROVE  /\ At("pop") => Ordinary /\ Ready(1, -1, 1)
           /\ At("jump") => Ordinary /\ Ready(1, -1, 1)
           /\ At("jumpi") => Ordinary /\ Ready(2, -2, 1)
           /\ At("jumpdest") => Ordinary /\ Ready(0, 0, 0)
           /\ At("sstore") => Ordinary /\ Ready(2, -2, 0)
           /\ At("mload") => Ordinary /\ Ready(1, 0, 1)
           /\ At("mstore") => Ordinary /\ Ready(2, -2, 1)
           /\ At("sha3") => Ordinary /\ Ready(2, -1, 0)
           /\ At("datacopy") => Ordinary /\ Ready(3, -3, 1)
           /\ At("extcodecopy") => Ordinary /\ Ready(4, -4, 1)
           /\ At("returndatacopy") /\ From(Byzantium) => Ordinary /\ Ready(3, -3, 1)
  <1>1. ASSUME At("pop") PROVE Ordinary /\ Ready(1, -1, 1)
    <2>1. Op \in CaseBytes.pop /\ ~TooShort /\ ~TooLong /\ frame.rev \in Revision /\ Ordinary
      BY <1>1, IsAt, IsOrdinary, Names
    <2>2. Op = 80
      BY <2>1 DEF CaseBytes
    <2>9. RowIs(frame.rev, Op, 1, -1, 1)
      BY <2>1, <2>2, RowsOfFlow
    <2> QED
      BY <2>1, <2>9, IsReady
  <1>2. ASSUME At("jump") PROVE Ordinary /\ Ready(1, -1, 1)
    <2>1. Op \in CaseBytes.jump /\ ~TooShort /\ ~TooLong /\ frame.rev \in Revision /\ Ordinary
      BY <1>2, IsAt, IsOrdinary, Names
    <2>2. Op = 86
      BY <2>1 DEF CaseBytes
    <2>9. RowIs(frame.rev, Op, 1, -1, 1)
      BY <2>1, <2>2, RowsOfFlow
    <2> QED
      BY <2>1, <2>9, IsReady
  <1>3. ASSUME At("jumpi") PROVE Ordinary /\ Ready(2, -2, 1)
    <2>1. Op \in CaseBytes.jumpi /\ ~TooShort /\ ~TooLong /\ frame.rev \in Revision /\ Ordinary
      BY <1>3, IsAt, IsOrdinary, Names
    <2>2. Op = 87
      BY <2>1 DEF CaseBytes
    <2>9. RowIs(frame.rev, Op, 2, -2, 1)
      BY <2>1, <2>2, RowsOfFlow
    <2> QED
      BY <2>1, <2>9, IsReady
  <1>4. ASSUME At("jumpdest") PROVE Ordinary /\ Ready(0, 0, 0)
    <2>1. Op \in CaseBytes.jumpdest /\ ~TooShort /\ ~TooLong /\ frame.rev \in Revision /\ Ordinary
      BY <1>4, IsAt, IsOrdinary, Names
    <2>2. Op = 91
      BY <2>1 DEF CaseBytes
    <2>9. RowIs(frame.rev, Op, 0, 0, 0)
      BY <2>1, <2>2, RowsOfFlow
    <2> QED
      BY <2>1, <2>9, IsReady
  <1>5. ASSUME At("sstore") PROVE Ordinary /\ Ready(2, -2, 0)
    <2>1. Op \in CaseBytes.sstore /\ ~TooShort /\ ~TooLong /\ frame.rev \in Revision /\ Ordinary
      BY <1>5, IsAt, IsOrdinary, Names
    <2>2. Op = 85
      BY <2>1 DEF CaseBytes
    <2>9. RowIs(frame.rev, Op, 2, -2, 0)
      BY <2>1, <2>2, RowsOfFlow
    <2> QED
      BY <2>1, <2>9, IsReady
  <1>6. ASSUME At("mload") PROVE Ordinary /\ Ready(1, 0, 1)
    <2>1. Op \in CaseBytes.mload /\ ~TooShort /\ ~TooLong /\ frame.rev \in Revision /\ Ordinary
      BY <1>6, IsAt, IsOrdinary, Names
    <2>2. Op = 81
      BY <2>1 DEF CaseBytes
    <2>9. RowIs(frame.rev, Op, 1, 0, 1)
      BY <2>1, <2>2, RowsOfFlow
    <2> QED
      BY <2>1, <2>9, IsReady
  <1>7. ASSUME At("mstore") PROVE Ordinary /\ Ready(2, -2, 1)
    <2>1. Op \in CaseBytes.mstore /\ ~TooShort /\ ~TooLong /\ frame.rev \in Revision /\ Ordinary
      BY <1>7, IsAt, IsOrdinary, Names
    <2>9. RowIs(frame.rev, Op, 2, -2, 1)
      BY <2>1, RowsOfFlow
    <2> QED
      BY <2>1, <2>9, IsReady
  <1>8. ASSUME At("sha3") PROVE Ordinary /\ Ready(2, -1, 0)
    <2>1. Op \in CaseBytes.sha3 /\ ~TooShort /\ ~TooLong /\ frame.rev \in Revision /\ Ordinary
      BY <1>8, IsAt, IsOrdinary, Names
    <2>2. Op = 32
      BY <2>1 DEF CaseBytes
    <2>9. RowIs(frame.rev, Op, 2, -1, 0)
      BY <2>1, <2>2, RowsOfFlow
    <2> QED
      BY <2>1, <2>9, IsReady
  <1>9. ASSUME At("datacopy") PROVE Ordinary /\ Ready(3, -3, 1)
    <2>1. Op \in CaseBytes.datacopy /\ ~TooShort /\ ~TooLong /\ frame.rev \in Revision /\ Ordinary
      BY <1>9, IsAt, IsOrdinary, Names
    <2>9. RowIs(frame.rev, Op, 3, -3, 1)
      BY <2>1, RowsOfFlow
    <2> QED
      BY <2>1, <2>9, IsReady
  <1>10. ASSUME At("extcodecopy") PROVE Ordinary /\ Ready(4, -4, 1)
    <2>1. Op \in CaseBytes.extcodecopy /\ ~TooShort /\ ~TooLong /\ frame.rev \in Revision /\ Ordinary
      BY <1>10, IsAt, IsOrdinary, Names
    <2>2. Op = 60
      BY <2>1 DEF CaseBytes
    <2>9. RowIs(frame.rev, Op, 4, -4, 1)
      BY <2>1, <2>2, RowsOfFlow
    <2> QED
      BY <2>1, <2>9, IsReady
  <1>11. ASSUME At("returndatacopy"), From(Byzantium) PROVE Ordinary /\ Ready(3, -3, 1)
    <2>1. Op \in CaseBytes.returndatacopy /\ ~TooShort /\ ~TooLong /\ frame.rev \in Revision /\ Ordinary
      BY <1>11, IsAt, IsOrdinary, Names
    <2>2. Op = 62
      BY <2>1 DEF CaseBytes
    <2>9. RowIs(frame.rev, Op, 3, -3, 1)
      BY <1>11, <2>1, <2>2, RowsOfFlow DEF From
    <2> QED
      BY <2>1, <2>9, IsReady
  <1> QED
    BY <1>1, <1>2, <1>3, <1>4, <1>5, <1>6, <1>7, <1>8, <1>9, <1>10, <1>11

LEMMA ReadyHigh ==
    ASSUME IInv
    PROVE  /\ At("dup") => Ordinary /\ Ready(Op - 127, 1, 1)
           /\ At("swap") => Ordinary /\ Ready(Op - 142, 0, 1)
           /\ At("log") => Ordinary /\ Ready(Op - 158, 158 - Op, 0)
           /\ At("return") /\ (Op = 253 => From(Byzantium)) => Ordinary /\ Ready(2, -2, 0)
           /\ At("selfdestruct") => Ordinary /\ Ready(1, -1, 0)
           /\ At("create") /\ Op = 240 => Ordinary /\ Ready(3, -2, 0)
           /\ At("create") /\ Op = 245 /\ From(Constantinople) => Ordinary /\ Ready(4, -3, 0)
           /\ At("call") /\ Op \in {241, 242} => Ordinary /\ Ready(7, -6, 1)
           /\ At("call") /\ Op = 244 /\ From(Homestead) => Ordinary /\ Ready(6, -5, 1)
           /\ At("call") /\ Op = 250 /\ From(Byzantium) => Ordinary /\ Ready(6, -5, 1)
  <1>1. ASSUME At("dup") PROVE Ordinary /\ Ready(Op - 127, 1, 1)
    <2>1. Op \in CaseBytes.dup /\ ~TooShort /\ ~TooLong /\ frame.rev \in Revision /\ Ordinary
      BY <1>1, IsAt, IsOrdinary, Names
    <2>2. Op \in 128 .. 143
      BY <2>1 DEF CaseBytes
    <2>9. RowIs(frame.rev, Op, Op - 127, 1, 1)
      BY <2>1, <2>2, RowsOfHighCases
    <2> QED
      BY <2>1, <2>2, <2>9, IsReady
  <1>2. ASSUME At("swap") PROVE Ordinary /\ Ready(Op - 142, 0, 1)
    <2>1. Op \in CaseBytes.swap /\ ~TooShort /\ ~TooLong /\ frame.rev \in Revision /\ Ordinary
      BY <1>2, IsAt, IsOrdinary, Names
    <2>2. Op \in 144 .. 159
      BY <2>1 DEF CaseBytes
    <2>9. RowIs(frame.rev, Op, Op - 142, 0, 1)
      BY <2>1, <2>2, RowsOfHighCases
    <2> QED
      BY <2>1, <2>2, <2>9, IsReady
  <1>3. ASSUME At("log") PROVE Ordinary /\ Ready(Op - 158, 158 - Op, 0)
    <2>1. Op \in CaseBytes.log /\ ~TooShort /\ ~TooLong /\ frame.rev \in Revision /\ Ordinary
      BY <1>3, IsAt, IsOrdinary, Names
    <2>2. Op \in 160 .. 164
      BY <2>1 DEF CaseBytes
    <2>9. RowIs(frame.rev, Op, Op - 158, 158 - Op, 0)
      BY <2>1, <2>2, RowsOfHighCases
    <2> QED
      BY <2>1, <2>2, <2>9, IsReady
  <1>4. ASSUME At("return"), (Op = 253 => From(Byzantium)) PROVE Ordinary /\ Ready(2, -2, 0)
    <2>1. Op \in CaseBytes.return /\ ~TooShort /\ ~TooLong /\ frame.rev \in Revision /\ Ordinary
      BY <1>4, IsAt, IsOrdinary, Names
    <2>2. Op \in {243, 253}
      BY <2>1 DEF CaseBytes
    <2>9. RowIs(frame.rev, Op, 2, -2, 0)
      BY <1>4, <2>1, <2>2, RowsOfHighCases DEF From
    <2> QED
      BY <2>1, <2>9, IsReady
  <1>5. ASSUME At("selfdestruct") PROVE Ordinary /\ Ready(1, -1, 0)
    <2>1. Op \in CaseBytes.selfdestruct /\ ~TooShort /\ ~TooLong /\ frame.rev \in Revision /\ Ordinary
      BY <1>5, IsAt, IsOrdinary, Names
    <2>2. Op = 255
      BY <2>1 DEF CaseBytes
    <2>9. RowIs(frame.rev, Op, 1, -1, 0)
      BY <2>1, <2>2, RowsOfHighCases
    <2> QED
      BY <2>1, <2>9, IsReady
  <1>6. ASSUME At("create"), Op = 240 PROVE Ordinary /\ Ready(3, -2, 0)
    <2>1. Op \in CaseBytes.create /\ ~TooShort /\ ~TooLong /\ frame.rev \in Revision /\ Ordinary
      BY <1>6, IsAt, IsOrdinary, Names
    <2>9. RowIs(frame.rev, Op, 3, -2, 0)
      BY <1>6, <2>1, RowsOfHighCases
    <2> QED
      BY <2>1, <2>9, IsReady
  <1>7. ASSUME At("create"), Op = 245 /\ From(Constantinople) PROVE Ordinary /\ Ready(4, -3, 0)
    <2>1. Op \in CaseBytes.create /\ ~TooShort /\ ~TooLong /\ frame.rev \in Revision /\ Ordinary
      BY <1>7, IsAt, IsOrdinary, Names
    <2>9. RowIs(frame.rev, Op, 4, -3, 0)
      BY <1>7, <2>1, RowsOfHighCases DEF From
    <2> QED
      BY <2>1, <2>9, IsReady
  <1>8. ASSUME At("call"), Op \in {241, 242} PROVE Ordinary /\ Ready(7, -6, 1)
    <2>1. Op \in CaseBytes.call /\ ~TooShort /\ ~TooLong /\ frame.rev \in Revision /\ Ordinary
      BY <1>8, IsAt, IsOrdinary, Names
    <2>9. RowIs(frame.rev, Op, 7, -6, 1)
      BY <1>8, <2>1, RowsOfHighCases
    <2> QED
      BY <2>1, <2>9, IsReady
  <1>9. ASSUME At("call"), Op = 244 /\ From(Homestead) PROVE Ordinary /\ Ready(6, -5, 1)
    <2>1. Op \in CaseBytes.call /\ ~TooShort /\ ~TooLong /\ frame.rev \in Revision /\ Ordinary
      BY <1>9, IsAt, IsOrdinary, Names
    <2>9. RowIs(frame.rev, Op, 6, -5, 1)
      BY <1>9, <2>1, RowsOfHighCases DEF From
    <2> QED
      BY <2>1, <2>9, IsReady
  <1>10. ASSUME At("call"), Op = 250 /\ From(Byzantium) PROVE Ordinary /\ Ready(6, -5, 1)
    <2>1. Op \in CaseBytes.call /\ ~TooShort /\ ~TooLong /\ frame.rev \in Revision /\ Ordinary
      BY <1>10, IsAt, IsOrdinary, Names
    <2>9. RowIs(frame.rev, Op, 6, -5, 1)
      BY <1>10, <2>1, RowsOfHighCases DEF From
    <2> QED
      BY <2>1, <2>9, IsReady
  <1> QED
    BY <1>1, <1>2, <1>3, <1>4, <1>5, <1>6, <1>7, <1>8, <1>9, <1>10

-----------------------------------------------------------------------------
(* The opcodes that compute, ask and move words *)

LEMMA WordsFit ==
    ASSUME IInv
    PROVE  /\ Result \subseteq Word /\ ret \in Word /\ Size \in Word /\ mem \in Word
           /\ \A n \in Nat : n <= gas => n \in Word
           /\ \A n \in Nat : n < Len(frame.code) + 33 => n \in Word
           /\ 0 \in Word /\ 1 \in Word
  <1>1. Len(frame.code) \in Nat /\ Len(frame.code) + 33 <= WordLimit
    BY FrameFits DEF IInv
  <1>2. ret \in 0 .. 2
    BY DEF IInv
  <1>3. WordLimit \in Nat /\ Never <= WordLimit /\ Never \in Nat /\ MaxInt63 \in Nat
    BY Limits
  <1> QED
    <2>1. Result \subseteq Word
      BY Limits DEF Word
    <2>2. WordLimit \in Nat /\ WordLimit >= 33
      BY <1>1, <1>3
    <2>3. 0 \in Word /\ 1 \in Word /\ ret \in Word
      BY <1>2, <2>2 DEF Word
    <2>4. Size \in Word /\ \A n \in Nat : n < Len(frame.code) + 33 => n \in Word
      BY <1>1, <1>3 DEF Word, Size
    <2>5. gas \in Nat /\ gas <= MaxInt63 /\ mem \in Nat /\ mem < Never
      BY Numbers
    <2>6. mem \in Word
      BY <1>3, <2>5 DEF Word
    <2>7. \A n \in Nat : n <= gas => n \in Word
      BY <2>5, Limits DEF Word
    <2> QED
      BY <2>1, <2>3, <2>4, <2>6, <2>7

LEMMA MayFail ==
    ASSUME IInv
    PROVE  \A why \in Errors : Fail(why) => Good
  BY Failed

LEMMA ErrorNames ==
    /\ "out of gas" \in Errors /\ "stack underflow" \in Errors /\ "stack overflow" \in Errors
    /\ "bad jump destination" \in Errors /\ "invalid instruction" \in Errors
    /\ "undefined instruction" \in Errors /\ "invalid memory access" \in Errors
    /\ "static mode violation" \in Errors
  BY DEF Errors

LEMMA ComputeGood == IInv /\ Compute => Good
  <1> SUFFICES ASSUME IInv, Compute PROVE Good
    OBVIOUS
  <1>1. PICK r \in Result :
           \/ At("unary") /\ Pay(Metric.gas, PutsWith(1, r) /\ Plain)
           \/ At("binary") /\ Pay(Metric.gas, PutsWith(2, r) /\ Plain)
           \/ At("ternary") /\ Pay(Metric.gas, PutsWith(3, r) /\ Plain)
    BY Zenon DEF Compute
  <1>2. r \in Word
    BY WordsFit
  <1>3. CASE At("unary") /\ Pay(Metric.gas, PutsWith(1, r) /\ Plain)
    <2>1. Ordinary /\ Ready(1, 0, 1) /\ Metric.gas \in Nat /\ Metric.gas >= 1
      BY <1>3, ReadyComputing DEF Ready
    <2> QED
      BY <1>2, <1>3, <2>1, PutsGood
  <1>4. CASE At("binary") /\ Pay(Metric.gas, PutsWith(2, r) /\ Plain)
    <2>1. Ordinary /\ Ready(2, -1, 1) /\ Metric.gas \in Nat /\ Metric.gas >= 1
      BY <1>4, ReadyComputing DEF Ready
    <2> QED
      BY <1>2, <1>4, <2>1, PutsGood
  <1>5. CASE At("ternary") /\ Pay(Metric.gas, PutsWith(3, r) /\ Plain)
    <2>1. Ordinary /\ Ready(3, -2, 1) /\ Metric.gas \in Nat /\ Metric.gas >= 1
      BY <1>5, ReadyComputing DEF Ready
    <2> QED
      BY <1>2, <1>5, <2>1, PutsGood
  <1> QED
    BY <1>1, <1>3, <1>4, <1>5

LEMMA ShiftGood == IInv /\ Shift => Good
  <1> SUFFICES ASSUME IInv, Shift PROVE Good
    OBVIOUS
  <1>1. CASE From(Constantinople)
    <2>1. Ordinary /\ Ready(2, -1, 1) /\ Metric.gas \in Nat /\ Metric.gas >= 1
      BY <1>1, ReadyData DEF Ready, Shift
    <2>2. PICK r \in Result : Pay(Metric.gas, PutsWith(2, r) /\ Plain)
      BY <1>1, Zenon DEF Shift
    <2>3. r \in Word
      BY WordsFit
    <2> QED
      BY <2>1, <2>2, <2>3, PutsGood
  <1>2. CASE ~From(Constantinople)
    BY <1>2, MayFail, ErrorNames DEF Shift
  <1> QED
    BY <1>1, <1>2

LEMMA ExpGood == IInv /\ Exp => Good
  <1> SUFFICES ASSUME IInv, Exp PROVE Good
    OBVIOUS
  <1> DEFINE cost == 10 + (IF From(SpuriousDragon) THEN 50 ELSE 10) * Significant8(Arg(1))
  <1>1. Ordinary /\ Ready(2, -1, 0)
    BY ReadyComputing DEF Exp
  <1>2. Significant8(Arg(1)) \in 0 .. 3
    BY DEF Significant8
  <1>3. cost \in Nat /\ cost >= 1
    <2>1. PICK s \in 0 .. 3 : s = Significant8(Arg(1))
      BY <1>2
    <2>2. 50 * s \in Nat /\ 10 * s \in Nat
      OBVIOUS
    <2>3. cost = 10 + 50 * s \/ cost = 10 + 10 * s
      BY <2>1
    <2> QED
      BY <2>2, <2>3
  <1>4. PICK r \in Result : Pay(cost, PutsWith(2, r) /\ Plain)
    BY Zenon DEF Exp
  <1>5. r \in Word
    BY WordsFit
  <1> HIDE DEF cost
  <1> QED
    BY <1>1, <1>3, <1>4, <1>5, PutsGood

LEMMA MessageDataGood == IInv /\ MessageData => Good
  <1> SUFFICES ASSUME IInv, MessageData PROVE Good
    OBVIOUS
  <1>1. CASE Label[Op] = "RETURNDATASIZE" /\ ~From(Byzantium)
    BY <1>1, MayFail, ErrorNames DEF MessageData
  <1>2. CASE ~(Label[Op] = "RETURNDATASIZE" /\ ~From(Byzantium))
    <2>1. Ordinary /\ Ready(0, 1, 1) /\ Metric.gas \in Nat /\ Metric.gas >= 1
      <3>1. Op = 61 => From(Byzantium)
        BY <1>2, LabelsInCases
      <3>2. At("message")
        BY DEF MessageData
      <3>3. Ordinary /\ Ready(0, 1, 1)
        BY <3>1, <3>2, ReadyData
      <3> QED
        BY <3>3 DEF Ready
    <2>2. PICK r \in Result :
             LET value == CASE Label[Op] = "RETURNDATASIZE" -> ret
                            [] Label[Op] = "CODESIZE" -> Size
                            [] OTHER -> r
             IN  Pay(Metric.gas, PutsWith(0, value) /\ Plain)
      BY <1>2, Zenon DEF MessageData
    <2>3. PICK value \in Word : Pay(Metric.gas, PutsWith(0, value) /\ Plain)
      BY <2>2, WordsFit
    <2> QED
      BY <2>1, <2>3, PutsGood
  <1> QED
    BY <1>1, <1>2

LEMMA BlockDataGood == IInv /\ BlockData => Good
  <1> SUFFICES ASSUME IInv, BlockData PROVE Good
    OBVIOUS
  <1>1. CASE Label[Op] \in {"CHAINID", "SELFBALANCE"} /\ ~From(Istanbul)
    BY <1>1, MayFail, ErrorNames DEF BlockData
  <1>2. CASE ~(Label[Op] \in {"CHAINID", "SELFBALANCE"} /\ ~From(Istanbul))
    <2>1. Ordinary /\ Ready(0, 1, 1) /\ Metric.gas \in Nat /\ Metric.gas >= 1
      <3>1. Op \in {70, 71} => From(Istanbul)
        BY <1>2, LabelsInCases
      <3>2. At("block")
        BY DEF BlockData
      <3>3. Ordinary /\ Ready(0, 1, 1)
        BY <3>1, <3>2, ReadyData
      <3> QED
        BY <3>3 DEF Ready
    <2>2. PICK r \in Result : Pay(Metric.gas, PutsWith(0, r) /\ Plain)
      BY <1>2, Zenon DEF BlockData
    <2>3. r \in Word
      BY WordsFit
    <2> QED
      BY <2>1, <2>2, <2>3, PutsGood
  <1> QED
    BY <1>1, <1>2

LEMMA CounterGood == IInv /\ Counter => Good
  <1> SUFFICES ASSUME IInv, Counter PROVE Good
    OBVIOUS
  <1>1. Ordinary /\ Ready(0, 1, 1)
    BY ReadyComputing DEF Counter
  <1>2. Metric.gas \in Nat /\ Metric.gas >= 1
    BY <1>1 DEF Ready
  <1>3. CASE gas < Metric.gas
    BY <1>3, MayFail, ErrorNames DEF Counter, Pay
  <1>4. CASE ~(gas < Metric.gas)
    <2>1. Label[Op] \in {"PC", "MSIZE", "GAS"}
      <3>1. CaseOf[Op] = "counter" /\ Op \in Byte
        BY OpFits DEF Counter, At
      <3>2. Label[Op] \in Cases["counter"]
        BY <3>1, CaseLabel
      <3>3. Cases["counter"] = {"PC", "MSIZE", "GAS"}
        BY DEF Cases
      <3> QED
        BY <3>2, <3>3
    <2>2. pc \in Word
      <3>1. pc \in Nat /\ pc < Len(frame.code) + 33
        BY <1>1 DEF IInv, PcFits, Ordinary, Running
      <3> QED
        BY <3>1, WordsFit
    <2>3. Left(Metric.gas) \in Word
      <3>1. gas - Metric.gas \in Nat /\ gas - Metric.gas <= gas
        BY <1>2, <1>4, Numbers
      <3> QED
        BY <3>1, WordsFit DEF Left
    <2>4. mem \in Word
      BY WordsFit
    <2>5. PICK value :
             /\ value = CASE Label[Op] = "PC" -> pc
                          [] Label[Op] = "MSIZE" -> mem
                          [] Label[Op] = "GAS" -> Left(Metric.gas)
             /\ Pay(Metric.gas, PutsWith(0, value) /\ Plain)
      BY Zenon DEF Counter
    <2>6. value \in Word
      BY <2>1, <2>2, <2>3, <2>4, <2>5
    <2>7. PICK v \in Word : Pay(Metric.gas, PutsWith(0, v) /\ Plain)
      BY <2>5, <2>6
    <2> QED
      BY <1>1, <1>2, <2>7, PutsGood
  <1> QED
    BY <1>3, <1>4

LEMMA QueryGood == IInv /\ Query => Good
  <1> SUFFICES ASSUME IInv, Query PROVE Good
    OBVIOUS
  <1>1. CASE Label[Op] = "EXTCODEHASH" /\ ~From(Constantinople)
    BY <1>1, MayFail, ErrorNames DEF Query
  <1>2. CASE ~(Label[Op] = "EXTCODEHASH" /\ ~From(Constantinople))
    <2>1. Op = 63 => From(Constantinople)
      BY <1>2, LabelsInCases
    <2>2. At("query")
      BY DEF Query
    <2>3. Ordinary /\ Ready(1, 0, 1)
      BY <2>1, <2>2, ReadyData
    <2>4. Metric.gas \in Nat /\ Metric.gas >= 1
      BY <2>3 DEF Ready
    <2>5. PICK r \in Result : Pay(Metric.gas, PutsWith(1, r) /\ Plain)
      BY <1>2, Zenon DEF Query
    <2>6. r \in Word
      BY WordsFit
    <2> QED
      BY <2>3, <2>4, <2>5, <2>6, PutsGood
  <1> QED
    BY <1>1, <1>2

LEMMA BlockHashGood == IInv /\ BlockHash => Good
  <1> SUFFICES ASSUME IInv, BlockHash PROVE Good
    OBVIOUS
  <1>1. Ordinary /\ Ready(1, 0, 0)
    BY ReadyData DEF BlockHash
  <1>2. PICK r \in Result : Pay(20, PutsWith(1, r) /\ Plain)
    BY Zenon DEF BlockHash
  <1>3. r \in Word
    BY WordsFit
  <1> QED
    BY <1>1, <1>2, <1>3, PutsGood

LEMMA SLoadGood == IInv /\ SLoad => Good
  <1> SUFFICES ASSUME IInv, SLoad PROVE Good
    OBVIOUS
  <1>1. Ordinary /\ Ready(1, 0, 1)
    BY ReadyData DEF SLoad
  <1>2. Metric.gas \in Nat /\ Metric.gas >= 1
    BY <1>1 DEF Ready
  <1>3. PICK r \in Result : Pay(Metric.gas, PutsWith(1, r) /\ Plain)
    BY Zenon DEF SLoad
  <1>4. r \in Word
    BY WordsFit
  <1> QED
    BY <1>1, <1>2, <1>3, <1>4, PutsGood

LEMMA PopGood == IInv /\ Pop => Good
  <1> SUFFICES ASSUME IInv, Pop PROVE Good
    OBVIOUS
  <1>1. Ordinary /\ Ready(1, -1, 1)
    BY ReadyFlow DEF Pop
  <1>2. Metric.gas \in Nat /\ Metric.gas >= 1
    BY <1>1 DEF Ready
  <1>3. Pay(Metric.gas, Pops /\ last' = Touch(0) /\ Plain)
    BY Zenon DEF Pop
  <1> QED
    BY <1>1, <1>2, <1>3, PopsGood

LEMMA JumpDestGood == IInv /\ JumpDest => Good
  <1> SUFFICES ASSUME IInv, JumpDest PROVE Good
    OBVIOUS
  <1>1. Ordinary /\ Ready(0, 0, 0)
    BY ReadyFlow DEF JumpDest
  <1>2. Pay(1, Pops /\ last' = Touch(0) /\ Plain)
    BY Zenon DEF JumpDest
  <1> QED
    BY <1>1, <1>2, PopsGood

LEMMA DupGood == IInv /\ Dup => Good
  <1> SUFFICES ASSUME IInv, Dup PROVE Good
    OBVIOUS
  <1>1. Ordinary /\ Ready(Op - 127, 1, 1) /\ At("dup")
    BY ReadyHigh DEF Dup
  <1>2. Op \in 128 .. 143
    BY <1>1, IsAt, Names DEF CaseBytes
  <1>3. Metric.gas \in Nat /\ Metric.gas >= 1
    BY <1>1 DEF Ready
  <1>4. PICK n \in Nat : n = Op - 127 /\ n >= 1
    BY <1>2
  <1>5. Ready(n, 1, 1) /\ n - 1 \in Nat /\ n - 1 < n /\ Op - 128 = n - 1
    BY <1>1, <1>2, <1>4
  <1>6. Arg(Op - 128) \in Word
    BY <1>5, Args
  <1>7. Pay(Metric.gas, PutsWith(n, Arg(Op - 128)) /\ Plain)
    BY <1>4 DEF Dup
  <1> QED
    BY <1>1, <1>3, <1>4, <1>5, <1>6, <1>7, PutsGood

LEMMA SwapGood == IInv /\ Swap => Good
  <1> SUFFICES ASSUME IInv, Swap PROVE Good
    OBVIOUS
  <1>1. Ordinary /\ Ready(Op - 142, 0, 1) /\ At("swap")
    BY ReadyHigh DEF Swap
  <1>2. Op \in 144 .. 159
    BY <1>1, IsAt, Names DEF CaseBytes
  <1>3. PICK n \in Nat : n = Op - 143 /\ n >= 1
    BY <1>2
  <1>4. Ready(n + 1, 0, 1) /\ Metric.gas \in Nat /\ Metric.gas >= 1
    BY <1>1, <1>2, <1>3 DEF Ready
  <1>5. CASE gas < Metric.gas
    BY <1>5, MayFail, ErrorNames DEF Swap, Pay
  <1>6. CASE ~(gas < Metric.gas)
    <2>1. /\ gas' = gas - Metric.gas /\ last' = Touch(n + 1) /\ Next1 /\ mem' = mem
          /\ stack' = [stack EXCEPT ![1] = Arg(n), ![n + 1] = Arg(0)]
      BY <1>3, <1>6 DEF Swap, Pay, Plain, Left
    <2>2. gas' \in Nat /\ gas' < gas
      BY <1>4, <1>6, <2>1, Numbers
    <2>3. Arg(n) \in Word /\ Arg(0) \in Word
      BY <1>3, <1>4, Args
    <2>4. stack \in Seq(Word) /\ Len(stack) <= StackLimit /\ n + 1 <= Len(stack)
      BY <1>4 DEF IInv, StackFits, Ready
    <2>5. stack' \in Seq(Word) /\ Len(stack') = Len(stack)
      BY <1>3, <2>1, <2>3, <2>4
    <2>6. Says(n + 1, FALSE, 0, pc) /\ last'.host = "none"
      BY <2>1, Touched
    <2>7. Memory /\ 0 <= mem'
      BY <2>1, <2>2, Numbers, MemoryStays
    <2>8. LastGood
      <3>1. PICK slots : slots = n + 1
        OBVIOUS
      <3>2. Says(slots, FALSE, 0, pc) /\ slots <= Len(stack) /\ Running
        BY <1>1, <2>4, <2>6, <3>1 DEF Ordinary
      <3> QED
        BY <2>7, <3>2, Reports
    <2> QED
      BY <1>1, <2>1, <2>2, <2>4, <2>5, <2>6, <2>7, <2>8, GoesOn
  <1> QED
    BY <1>5, <1>6

LEMMA BadStackGood == IInv /\ BadStack => Good
  BY MayFail, ErrorNames DEF BadStack

LEMMA BadGood == IInv /\ Bad => Good
  BY MayFail, ErrorNames DEF Bad

\* The value of push data is a word, whatever the bytes.
LEMMA PushFunction ==
    ASSUME IInv, NEW n \in Nat
    PROVE  \E f : /\ f \in [0 .. n -> Word]
                  /\ f = [i \in 0 .. n |->
                         IF i = 0 THEN 0 ELSE (f[i - 1] * 256 + Code(pc + i)) % WordLimit]
  <1> DEFINE step == [i \in Nat |-> [v \in Word |-> (v * 256 + Code(pc + i)) % WordLimit]]
  <1>1. WordLimit \in Nat /\ WordLimit > 0 /\ 0 \in Word /\ pc \in Nat
    BY Limits, WordsFit, Numbers DEF Word
  <1>2. step \in [Nat -> [Word -> Word]]
    <2> SUFFICES ASSUME NEW i \in Nat, NEW v \in Word
                 PROVE  (v * 256 + Code(pc + i)) % WordLimit \in Word
      OBVIOUS
    <2>1. pc + i \in Nat
      BY <1>1
    <2>2. Code(pc + i) \in Int /\ v \in Int
      BY <2>1, OpFits DEF Byte, Word
    <2>3. PICK x \in Int : x = v * 256 + Code(pc + i)
      BY <2>2
    <2>4. x % WordLimit \in 0 .. WordLimit - 1
      BY <1>1
    <2> QED
      BY <2>3, <2>4 DEF Word
  <1> HIDE DEF step
  <1>3. PICK f \in [0 .. n -> Word] : Iterates(f, 0, step, n)
    BY <1>1, <1>2, Recursion
  <1>4. ASSUME NEW i \in 0 .. n
        PROVE  f[i] = IF i = 0 THEN 0 ELSE (f[i - 1] * 256 + Code(pc + i)) % WordLimit
    <2>1. CASE i = 0
      BY <1>3, <2>1 DEF Iterates
    <2>2. CASE i # 0
      <3>1. i \in Nat /\ i \in 1 .. n /\ f[i - 1] \in Word
        BY <1>3, <2>2
      <3>2. f[i] = step[i][f[i - 1]]
        BY <1>3, <3>1 DEF Iterates
      <3> QED
        BY <2>2, <3>1, <3>2 DEF step
    <2> QED
      BY <2>1, <2>2
  <1>5. f = [i \in 0 .. n |-> f[i]]
    BY <1>3
  <1>6. [i \in 0 .. n |-> f[i]]
        = [i \in 0 .. n |-> IF i = 0 THEN 0 ELSE (f[i - 1] * 256 + Code(pc + i)) % WordLimit]
    BY <1>4
  <1> QED
    BY <1>3, <1>5, <1>6, Zenon

LEMMA PushValue ==
    ASSUME IInv, NEW n \in Nat, NEW value,
           value = [i \in 0 .. n |->
                  IF i = 0 THEN 0 ELSE (value[i - 1] * 256 + Code(pc + i)) % WordLimit]
    PROVE  value[n] \in Word
  <1>1. WordLimit \in Nat /\ WordLimit > 0 /\ 0 \in Word /\ pc \in Nat
    BY Limits, WordsFit, Numbers DEF Word
  <1> DEFINE A == {i \in Nat : i <= n => value[i] \in Word}
  <1>2. 0 \in A
    BY <1>1
  <1>3. ASSUME NEW i \in Nat, i \in A PROVE i + 1 \in A
    <2> SUFFICES ASSUME i + 1 <= n PROVE value[i + 1] \in Word
      OBVIOUS
    <2>1. value[i] \in Word /\ i + 1 \in 0 .. n /\ i + 1 # 0 /\ i + 1 - 1 = i
      BY <1>3
    <2>2. value[i + 1] = (value[i] * 256 + Code(pc + (i + 1))) % WordLimit
      BY <2>1
    <2>3. pc + (i + 1) \in Nat
      BY <1>1
    <2>4. Code(pc + (i + 1)) \in Int /\ value[i] \in Int
      <3>1. Word \subseteq Int /\ Byte \subseteq Int
        BY DEF Word, Byte
      <3>2. Code(pc + (i + 1)) \in Byte
        BY <2>3, OpFits
      <3> QED
        BY <2>1, <3>1, <3>2
    <2>5. PICK x \in Int : x = value[i] * 256 + Code(pc + (i + 1))
      BY <2>4
    <2>6. x % WordLimit \in 0 .. WordLimit - 1
      BY <1>1
    <2> QED
      BY <2>2, <2>5, <2>6 DEF Word
  <1>4. n \in A
    <2> HIDE DEF A
    <2> QED
      BY <1>2, <1>3, AllNaturals
  <1> QED
    BY <1>4

LEMMA PushGood == IInv /\ Push => Good
  <1> SUFFICES ASSUME IInv, Push PROVE Good
    OBVIOUS
  <1> DEFINE n == PushBytes(Op)
             Fits(f) == f = [i \in 0 .. n |->
                         IF i = 0 THEN 0 ELSE (f[i - 1] * 256 + Code(pc + i)) % WordLimit]
             value == CHOOSE f : Fits(f)
  <1>1. Running /\ Op \in 96 .. 127 /\ Ready(0, 1, 1)
    BY ReadyComputing DEF Push
  <1>2. n \in Nat /\ n <= 32 /\ n >= 1
    BY <1>1 DEF PushBytes
  <1>3. value[n] \in Word
    <2>1. \E f : Fits(f)
      <3> HIDE DEF n
      <3> QED
        BY <1>2, PushFunction, ZenonT(30)
    <2>2. Fits(value)
      <3> HIDE DEF Fits
      <3> QED
        BY <2>1
    <2> HIDE DEF n, value
    <2> QED
      BY <1>2, <2>2, PushValue
  <1>4. Metric.gas \in Nat /\ Metric.gas >= 1
    BY <1>1 DEF Ready
  <1>5. CASE gas < Metric.gas
    BY <1>5, MayFail, ErrorNames DEF Push, Pay
  <1>6. CASE ~(gas < Metric.gas)
    <2>1. /\ gas' = gas - Metric.gas /\ pc' = pc + n + 1
          /\ last' = [Touch(0) EXCEPT !.put = TRUE, !.codeEnd = pc + n]
          /\ UNCHANGED <<frame, status, dests, undefs, ret, mem>>
      BY <1>6 DEF Push, Pay, Left
    <2>2. stack' = [Moved EXCEPT ![1] = value[n]]
      BY <1>6 DEF Push, Pay, Put
    <2> HIDE DEF value
    <2>3. gas' \in Nat /\ gas' < gas
      BY <1>4, <1>6, <2>1, Numbers
    <2>4. /\ Moved \in Seq(Word) /\ Len(Moved) <= StackLimit /\ Len(Moved) >= 1
          /\ Len(Moved) \in Nat
      BY <1>1, MovedFits
    <2>5. stack' \in Seq(Word) /\ Len(stack') <= StackLimit /\ Len(stack') > 0
      BY <1>3, <2>2, <2>4, PutFits
    <2>6. pc < Len(frame.code) /\ pc \in Nat /\ Len(frame.code) \in Nat
      BY <1>1, OpFits, FrameFits, Numbers DEF IInv
    <2>7. pc' = pc + 1 + PushBytes(Op) /\ Op # 0
      <3>1. pc + n + 1 = pc + 1 + n
        <4> HIDE DEF n
        <4> QED
          BY <1>2, <2>6
      <3>2. Op # 0
        BY <1>1
      <3> QED
        BY <2>1, <3>1, <3>2
    <2>8. /\ pc' \in Nat /\ pc' < Len(frame.code) + 33
          /\ pc' < Len(frame.code) => pc' \in Starts(frame.code)
      BY <1>1, <2>7, NextPosition
    <2>9. /\ last'.height = Len(stack) /\ last'.slots = 0 /\ last'.end = 0 /\ last'.host = "none"
          /\ last'.codeEnd = pc + n
      BY <2>1 DEF Touch, NoStep
    <2>10. LastGood
      <3> HIDE DEF n
      <3> QED
        BY <1>2, <2>1, <2>5, <2>6, <2>9, Numbers DEF LastGood
    <2>11. Memory
      BY <2>1, <2>3, Numbers, MemoryStays
    <2>12. SameFrame /\ status' = "running" /\ Spends /\ SixtyFourth /\ ret' \in 0 .. 2
      BY <1>1, <2>1, <2>3, <2>9, Numbers DEF SameFrame, Running, Spends, SixtyFourth, IInv
    <2>13. status' \in {"running", "success", "revert"} \cup Errors /\ status' \notin Errors
      BY <2>12 DEF Errors
    <2> QED
      BY <2>5, <2>8, <2>10, <2>11, <2>12, <2>13, Effect
  <1> QED
    BY <1>5, <1>6


-----------------------------------------------------------------------------
(* Opcodes that pay for the memory they touch *)

LEMMA PutsWord ==
    ASSUME IInv, NEW required \in Nat, NEW change \in Int, NEW least,
           Ready(required, change, least), change <= 1, required + change >= 1,
           NEW v \in Word, Put(v)
    PROVE  stack' \in Seq(Word) /\ Len(stack') <= StackLimit /\ Len(stack') > 0
  <1>1. /\ Moved \in Seq(Word) /\ Len(Moved) <= StackLimit /\ Len(Moved) >= 1
        /\ Len(Moved) \in Nat
    BY MovedFits
  <1>2. stack' = [Moved EXCEPT ![1] = v]
    BY DEF Put
  <1> QED
    BY <1>1, <1>2, PutFits

LEMMA PopsWords ==
    ASSUME IInv, NEW required \in Nat, NEW change \in Int, NEW least,
           Ready(required, change, least), change <= 1, required + change >= 0, Pops
    PROVE  stack' \in Seq(Word) /\ Len(stack') <= StackLimit
  BY MovedFits DEF Pops

LEMMA MemGasFits ==
    ASSUME IInv, NEW need \in Nat, NEW copied \in Nat
    PROVE  MemGas(need, copied) \in Nat
  BY Numbers, MemoryGrows

\* What a frame could pay for is there, and the price is in the bill.
LEMMA PaidFor ==
    ASSUME IInv, NEW need \in Nat, NEW copied \in Nat, NEW base \in Nat, NEW paid \in Nat,
           gas = paid + base + MemGas(need, copied), mem' = MemAfter(need)
    PROVE  /\ mem' \in Nat /\ mem' % 32 = 0 /\ need <= mem' /\ need < Never
           /\ paid + GasForMem(mem') <= gas + GasForMem(mem)
           /\ paid + base + GasForMem(mem') <= gas + GasForMem(mem)
           /\ GasForMem(mem') \in Nat /\ copied < Never
  <1>1. PICK g \in Nat : g = MemGas(need, copied)
    BY MemGasFits
  <1>2. gas \in Nat /\ gas <= MaxInt63 /\ gas = paid + base + g /\ GasForMem(mem) \in Nat
    BY <1>1, Numbers
  <1>3. g < Never
    BY <1>2, Limits
  <1>4. Grown(need, g) /\ copied < Never
    BY <1>1, <1>3, Numbers, MemoryGrows
  <1>5. /\ mem' \in Nat /\ mem' % 32 = 0 /\ mem' >= need /\ mem' < Never
        /\ GasForMem(mem') <= GasForMem(mem) + g
    BY <1>4 DEF Grown
  <1>6. GasForMem(mem') \in Nat
    BY <1>5, GasForMemOf
  <1> QED
    BY <1>2, <1>4, <1>5, <1>6, Limits

LEMMA GrowsGood ==
    ASSUME IInv, Ordinary, NEW required \in Nat, NEW change, NEW least,
           Ready(required, change, least), NEW slots \in Nat, slots <= required,
           NEW put \in BOOLEAN, NEW end \in Nat, Says(slots, put, end, pc),
           last'.host \notin {"create", "call"},
           NEW need \in Nat, need < Never => end <= need, NEW copied \in Nat,
           NEW base \in Nat, base >= 1,
           ~(gas < base + MemGas(need, copied)), gas' = gas - (base + MemGas(need, copied)),
           Grow(need), stack' \in Seq(Word), Len(stack') <= StackLimit, put => Len(stack') > 0
    PROVE  Good
  <1>1. PICK g \in Nat : g = MemGas(need, copied)
    BY MemGasFits
  <1>2. gas \in Nat /\ mem \in Nat /\ GasForMem(mem) \in Nat
    BY Numbers
  <1>3. gas' \in Nat /\ gas' < gas /\ gas = gas' + base + g
    <2>1. ~(gas < base + g) /\ gas' = gas - (base + g)
      BY <1>1
    <2>2. base \in Nat /\ base >= 1
      OBVIOUS
    <2> QED
      BY ONLY <1>2, <2>1, <2>2, g \in Nat
  <1>4. mem' = MemAfter(need) /\ Next1
    BY DEF Grow
  <1>5. /\ mem' \in Nat /\ mem' % 32 = 0 /\ need <= mem' /\ need < Never
        /\ gas' + GasForMem(mem') <= gas + GasForMem(mem)
    <2>1. PICK paid \in Nat : paid = gas'
      BY <1>3
    <2>2. gas = paid + base + MemGas(need, copied)
      BY <1>1, <1>3, <2>1
    <2> QED
      BY <1>4, <2>1, <2>2, PaidFor
  <1>6. Memory /\ end <= mem'
    <2>1. Memory
      BY <1>5 DEF Memory
    <2>2. end <= need /\ need <= mem' /\ mem' \in Nat
      BY <1>5
    <2> QED
      BY <2>1, <2>2
  <1>7. slots <= Len(stack)
    BY Numbers DEF Ready
  <1>8. LastGood
    BY <1>6, <1>7, Reports DEF Ordinary
  <1> QED
    BY <1>3, <1>4, <1>6, <1>8, GoesOn


\* A need that is below the limit covers the access.
Covers(need, offset, size) == need < Never => (IF size = 0 THEN 0 ELSE offset + size) <= need

Tells(step, slots, offset, size) ==
    \/ step = Access(slots, offset, size)
    \/ step = [Access(slots, offset, size) EXCEPT !.host = "emit_log"]

PaysAndPops(base, need, copied, step) ==
    Pay(base + MemGas(need, copied), Pops /\ last' = step /\ Grow(need))

LEMMA AccessPops ==
    ASSUME IInv, Ordinary, NEW required \in Nat, NEW change \in Int, NEW least,
           Ready(required, change, least), change <= 1, required + change >= 0,
           NEW slots \in Nat, slots <= required, NEW offset \in Nat, NEW size \in Nat,
           NEW need \in Nat, Covers(need, offset, size),
           NEW copied \in Nat, NEW base \in Nat, base >= 1,
           NEW step, Tells(step, slots, offset, size), PaysAndPops(base, need, copied, step)
    PROVE  Good
  <1>1. PICK cost : cost = base + MemGas(need, copied)
    OBVIOUS
  <1>2. Pay(cost, Pops /\ last' = step /\ Grow(need))
    BY <1>1 DEF PaysAndPops
  <1>3. CASE gas < cost
    BY <1>2, <1>3, MayFail, ErrorNames DEF Pay
  <1>4. CASE ~(gas < cost)
    <2>1. gas' = gas - cost /\ Pops /\ last' = step /\ Grow(need)
      BY <1>2, <1>4 DEF Pay, Left
    <2>2. PICK end \in Nat : end = IF size = 0 THEN 0 ELSE offset + size
      OBVIOUS
    <2>3. Says(slots, FALSE, end, pc) /\ last'.host \notin {"create", "call"}
      <3>1. CASE step = Access(slots, offset, size)
        <4>1. last' = Access(slots, offset, size)
          BY <2>1, <3>1
        <4> QED
          BY <2>2, <4>1, Accessed
      <3>2. CASE step = [Access(slots, offset, size) EXCEPT !.host = "emit_log"]
        <4>1. last' = [Access(slots, offset, size) EXCEPT !.host = "emit_log"]
          BY <2>1, <3>2
        <4> QED
          BY <2>2, <4>1, Accessed
      <3> QED
        BY <3>1, <3>2 DEF Tells
    <2>4. stack' \in Seq(Word) /\ Len(stack') <= StackLimit
      BY <2>1, PopsWords
    <2>5. need < Never => end <= need
      BY <2>2 DEF Covers
    <2>6. ~(gas < base + MemGas(need, copied)) /\ gas' = gas - (base + MemGas(need, copied))
      BY <1>1, <1>4, <2>1
    <2> QED
      BY <2>1, <2>3, <2>4, <2>5, <2>6, GrowsGood
  <1> QED
    BY <1>3, <1>4

LEMMA AccessPuts ==
    ASSUME IInv, Ordinary, NEW required \in Nat, NEW change \in Int, NEW least,
           Ready(required, change, least), change <= 1, required + change >= 1,
           NEW slots \in Nat, slots <= required, NEW offset \in Nat, NEW size \in Nat,
           NEW need \in Nat, Covers(need, offset, size), NEW copied \in Nat,
           NEW base \in Nat, base >= 1, NEW v \in Word,
           Pay(base + MemGas(need, copied),
               Put(v) /\ last' = [Access(slots, offset, size) EXCEPT !.put = TRUE] /\ Grow(need))
    PROVE  Good
  <1> DEFINE step == [Access(slots, offset, size) EXCEPT !.put = TRUE]
  <1>1. PICK cost : cost = base + MemGas(need, copied)
    OBVIOUS
  <1>2. Pay(cost, Put(v) /\ last' = step /\ Grow(need))
    BY <1>1
  <1>3. CASE gas < cost
    BY <1>2, <1>3, MayFail, ErrorNames DEF Pay
  <1>4. CASE ~(gas < cost)
    <2>1. gas' = gas - cost /\ Put(v) /\ last' = step /\ Grow(need)
      BY <1>2, <1>4 DEF Pay, Left
    <2>2. PICK end \in Nat : end = IF size = 0 THEN 0 ELSE offset + size
      OBVIOUS
    <2>3. Says(slots, TRUE, end, pc) /\ last'.host \notin {"create", "call"}
      BY <2>1, <2>2, Accessed
    <2>4. stack' \in Seq(Word) /\ Len(stack') <= StackLimit /\ Len(stack') > 0
      BY <2>1, PutsWord
    <2>5. need < Never => end <= need
      BY <2>2 DEF Covers
    <2>6. ~(gas < base + MemGas(need, copied)) /\ gas' = gas - (base + MemGas(need, copied))
      BY <1>1, <1>4, <2>1
    <2> QED
      BY <2>1, <2>3, <2>4, <2>5, <2>6, GrowsGood
  <1> QED
    BY <1>3, <1>4

LEMMA NeedFits ==
    ASSUME NEW offset \in Nat, NEW size \in Nat
    PROVE  /\ MemNeed(offset, size) \in Nat /\ Covers(MemNeed(offset, size), offset, size)
           /\ Int63(offset) + size \in Nat /\ Covers(Int63(offset) + size, offset, size)
           /\ Int63(size) \in Nat
  BY Limits DEF MemNeed, Int63, Covers

LEMMA MLoadGood == IInv /\ MLoad => Good
  <1> SUFFICES ASSUME IInv, MLoad PROVE Good
    OBVIOUS
  <1>1. Ordinary /\ Ready(1, 0, 1)
    BY ReadyFlow DEF MLoad
  <1>2. PICK o \in Nat : o = Arg(0)
    BY <1>1, Args
  <1>3. PICK need : need = Int63(o) + 32
    OBVIOUS
  <1>4. need \in Nat /\ Covers(need, o, 32)
    BY <1>3, NeedFits
  <1>5. PICK base \in Nat : base = Metric.gas /\ base >= 1
    BY <1>1 DEF Ready
  <1>6. PICK r \in Result :
           Pay(base + MemGas(need, 0),
               Put(r) /\ last' = [Access(1, o, 32) EXCEPT !.put = TRUE] /\ Grow(need))
    BY <1>2, <1>3, <1>5, Zenon DEF MLoad
  <1>7. r \in Word
    BY WordsFit
  <1> QED
    BY <1>1, <1>4, <1>5, <1>6, <1>7, AccessPuts

LEMMA MStoreGood == IInv /\ MStore => Good
  <1> SUFFICES ASSUME IInv, MStore PROVE Good
    OBVIOUS
  <1>1. Ordinary /\ Ready(2, -2, 1)
    BY ReadyFlow DEF MStore
  <1>2. PICK o \in Nat : o = Arg(0)
    BY <1>1, Args
  <1>3. PICK size \in Nat : size = IF Label[Op] = "MSTORE" THEN 32 ELSE 1
    OBVIOUS
  <1>4. PICK need : need = Int63(o) + size
    OBVIOUS
  <1>5. need \in Nat /\ Covers(need, o, size)
    BY <1>4, NeedFits
  <1>6. PICK base \in Nat : base = Metric.gas /\ base >= 1
    BY <1>1 DEF Ready
  <1>7. PICK step : step = Access(2, o, size)
    OBVIOUS
  <1>8. PaysAndPops(base, need, 0, step)
    BY <1>2, <1>3, <1>4, <1>6, <1>7, Zenon DEF MStore, PaysAndPops
  <1>9. Tells(step, 2, o, size)
    BY <1>7 DEF Tells
  <1> QED
    BY <1>1, <1>5, <1>6, <1>8, <1>9, AccessPops

LEMMA Sha3Good == IInv /\ Sha3 => Good
  <1> SUFFICES ASSUME IInv, Sha3 PROVE Good
    OBVIOUS
  <1>1. Ordinary /\ Ready(2, -1, 0)
    BY ReadyFlow DEF Sha3
  <1>2. PICK o \in Nat : o = Arg(0)
    BY <1>1, Args
  <1>3. PICK size \in Nat : size = Arg(1)
    BY <1>1, Args
  <1>4. PICK need : need = MemNeed(o, size)
    OBVIOUS
  <1>5. need \in Nat /\ Covers(need, o, size)
    BY <1>4, NeedFits
  <1>6. PICK base : base = Int63(30 + Words(size) * 6)
    OBVIOUS
  <1>7. base \in Nat /\ base >= 1
    <2>1. PICK n : n = 30 + Words(size) * 6
      OBVIOUS
    <2>2. n \in Nat /\ n >= 1
      BY <2>1 DEF Words
    <2> QED
      BY <1>6, <2>1, <2>2, Int63Range
  <1>8. PICK r \in Result :
           Pay(base + MemGas(need, 0),
               Put(r) /\ last' = [Access(2, o, size) EXCEPT !.put = TRUE] /\ Grow(need))
    BY <1>2, <1>3, <1>4, <1>6, Zenon DEF Sha3
  <1>9. r \in Word
    BY WordsFit
  <1> QED
    BY <1>1, <1>5, <1>7, <1>8, <1>9, AccessPuts

LEMMA CopiesGood ==
    ASSUME IInv, Ordinary, NEW required \in Nat, NEW change \in Int,
           Ready(required, change, 1), change <= 1, required + change >= 0,
           NEW slots \in Nat, slots <= required, NEW to \in Nat, NEW size \in Nat,
           Copies(slots, to, size)
    PROVE  Good
  <1>1. PICK need : need = MemNeed(to, size)
    OBVIOUS
  <1>2. need \in Nat /\ Covers(need, to, size)
    BY <1>1, NeedFits
  <1>3. PICK copied \in Nat : copied = Int63(size)
    BY NeedFits
  <1>4. PICK base \in Nat : base = Metric.gas /\ base >= 1
    BY DEF Ready
  <1>5. PICK step : step = Access(slots, to, size)
    OBVIOUS
  <1>6. PaysAndPops(base, need, copied, step)
    BY <1>1, <1>3, <1>4, <1>5 DEF Copies, PaysAndPops
  <1>7. Tells(step, slots, to, size)
    BY <1>5 DEF Tells
  <1> QED
    BY <1>2, <1>3, <1>4, <1>6, <1>7, AccessPops

LEMMA CopyGood == IInv /\ Copy => Good
  <1> SUFFICES ASSUME IInv, Copy PROVE Good
    OBVIOUS
  <1>1. CASE At("datacopy") /\ Copies(3, Arg(0), Arg(2))
    <2>1. Ordinary /\ Ready(3, -3, 1)
      BY <1>1, ReadyFlow
    <2>2. Arg(0) \in Nat /\ Arg(2) \in Nat
      BY <2>1, Args
    <2> QED
      BY <1>1, <2>1, <2>2, CopiesGood
  <1>2. CASE At("extcodecopy") /\ Copies(4, Arg(1), Arg(3))
    <2>1. Ordinary /\ Ready(4, -4, 1)
      BY <1>2, ReadyFlow
    <2>2. Arg(1) \in Nat /\ Arg(3) \in Nat
      BY <2>1, Args
    <2> QED
      BY <1>2, <2>1, <2>2, CopiesGood
  <1>3. CASE At("returndatacopy") /\ (Fail("undefined instruction") \/ Fail("invalid memory access"))
    BY <1>3, MayFail, ErrorNames
  <1>4. CASE At("returndatacopy") /\ From(Byzantium) /\ Copies(3, Arg(0), Arg(2))
    <2>1. Ordinary /\ Ready(3, -3, 1)
      BY <1>4, ReadyFlow
    <2>2. Arg(0) \in Nat /\ Arg(2) \in Nat
      BY <2>1, Args
    <2> QED
      BY <1>4, <2>1, <2>2, CopiesGood
  <1> QED
    BY <1>1, <1>2, <1>3, <1>4 DEF Copy


-----------------------------------------------------------------------------
(* Jumps, and opcodes that end the frame *)

LEMMA JumpsGood ==
    ASSUME IInv, Ordinary, NEW required \in Nat, NEW change \in Int,
           Ready(required, change, 1), change <= 1, required + change >= 0,
           NEW slots \in Nat, slots <= required, ~(gas < Metric.gas), NEW dest, JumpTo(dest),
           gas' = IF status' = "running" THEN Left(Metric.gas) ELSE 0, last' = Touch(slots)
    PROVE  Good
  <1>1. /\ gas \in Nat /\ pc \in Nat /\ Len(stack) \in Nat
        /\ Metric.gas \in Nat /\ Metric.gas >= 1 /\ slots <= Len(stack)
    BY Numbers DEF Ready
  <1>2. Says(slots, FALSE, 0, pc) /\ last'.host = "none"
    BY Touched
  <1>3. SameFrame /\ mem' = mem /\ ret' = ret /\ ret' \in 0 .. 2
    BY DEF JumpTo, SameFrame, IInv
  <1>4. CASE dest <= MaxInt63 /\ dest \in dests
    <2>1. pc' = dest /\ Pops /\ status' = "running" /\ gas' = gas - Metric.gas
      BY <1>4 DEF JumpTo, Ordinary, Running, Left
    <2>2. gas' \in Nat /\ gas' < gas /\ Spends
      BY <1>1, <2>1 DEF Spends
    <2>3. Memory /\ 0 <= mem'
      BY <1>1, <1>3, <2>2, MemoryStays
    <2>4. stack' \in Seq(Word) /\ Len(stack') <= StackLimit
      BY <2>1, PopsWords
    <2>5. dest \in Starts(frame.code) /\ dest < Len(frame.code) /\ Len(frame.code) \in Nat
      BY <1>4, FrameFits DEF IInv, DestsFit
    <2>6. dest \in Nat
      BY <2>5 DEF Starts, ReachedFrom
    <2>7. /\ pc' \in Nat /\ pc' < Len(frame.code) + 33
          /\ pc' < Len(frame.code) => pc' \in Starts(frame.code)
      BY <2>1, <2>5, <2>6
    <2>8. LastGood
      BY <1>1, <1>2, <2>3, Reports DEF Ordinary
    <2>9. SixtyFourth
      BY <1>2 DEF SixtyFourth
    <2>10. status' \in {"running", "success", "revert"} \cup Errors /\ status' \notin Errors
      BY <2>1 DEF Errors
    <2> QED
      BY <1>3, <2>2, <2>3, <2>4, <2>7, <2>8, <2>9, <2>10, Effect
  <1>5. CASE ~(dest <= MaxInt63 /\ dest \in dests)
    <2>1. Throw("bad jump destination")
      BY <1>5 DEF JumpTo, Throw
    <2>2. mem' \in Nat /\ 0 <= mem'
      BY <1>3, Numbers
    <2>3. LastGood
      BY <1>1, <1>2, <2>2, Reports DEF Ordinary
    <2>4. SixtyFourth
      BY <1>2 DEF SixtyFourth
    <2> QED
      BY <2>1, <2>3, <2>4, Thrown, ErrorNames
  <1> QED
    BY <1>4, <1>5

LEMMA JumpGood == IInv /\ Jump => Good
  <1> SUFFICES ASSUME IInv, Jump PROVE Good
    OBVIOUS
  <1>1. Ordinary /\ Ready(1, -1, 1)
    BY ReadyFlow DEF Jump
  <1>2. CASE gas < Metric.gas
    BY <1>2, MayFail, ErrorNames DEF Jump
  <1>3. CASE ~(gas < Metric.gas)
    BY <1>1, <1>3, JumpsGood DEF Jump
  <1> QED
    BY <1>2, <1>3

LEMMA JumpIGood == IInv /\ JumpI => Good
  <1> SUFFICES ASSUME IInv, JumpI PROVE Good
    OBVIOUS
  <1>1. Ordinary /\ Ready(2, -2, 1)
    BY ReadyFlow DEF JumpI
  <1>2. CASE gas < Metric.gas
    BY <1>2, MayFail, ErrorNames DEF JumpI
  <1>3. CASE ~(gas < Metric.gas) /\ Arg(1) # 0
    <2>1. /\ JumpTo(Arg(0)) /\ last' = Touch(2)
          /\ gas' = IF status' = "running" THEN Left(Metric.gas) ELSE 0
      BY <1>3 DEF JumpI
    <2> QED
      BY <1>1, <1>3, <2>1, JumpsGood
  <1>4. CASE ~(gas < Metric.gas) /\ ~(Arg(1) # 0)
    <2>1. Pops /\ Plain /\ last' = Touch(2) /\ gas' = Left(Metric.gas)
      BY <1>1, <1>4 DEF JumpI, Plain, Next1, Ordinary, Running
    <2>2. gas' \in Nat /\ gas' < gas /\ mem' = mem /\ Next1
      BY <1>1, <1>4, <2>1, Numbers DEF Ready, Left, Plain
    <2>3. Memory /\ 0 <= mem'
      BY <2>2, Numbers, MemoryStays
    <2>4. Says(2, FALSE, 0, pc) /\ last'.host = "none"
      BY <2>1, Touched
    <2>5. 2 <= Len(stack)
      BY <1>1, Numbers DEF Ready
    <2>6. LastGood
      BY <1>1, <2>3, <2>4, <2>5, Reports DEF Ordinary
    <2>7. stack' \in Seq(Word) /\ Len(stack') <= StackLimit
      BY <1>1, <2>1, PopsWords
    <2> QED
      BY <1>1, <2>2, <2>3, <2>4, <2>6, <2>7, GoesOn
  <1> QED
    BY <1>2, <1>3, <1>4

LEMMA EndsGood ==
    ASSUME IInv, NEW how \in {"success", "revert"}, Ends(how), gas' \in Nat, gas' <= gas, Memory,
           stack' \in Seq(Word), Len(stack') <= StackLimit, LastGood,
           last'.host \notin {"create", "call"}
    PROVE  Good
  <1>1. SameFrame /\ status' = how /\ ret' \in 0 .. 2 /\ pc' \in Nat
    BY Numbers DEF Ends, SameFrame, IInv
  <1>2. status' \in {"running", "success", "revert"} \cup Errors /\ status' \notin Errors
    BY <1>1 DEF Errors
  <1>3. status' # "running"
    BY <1>1
  <1>4. Spends /\ SixtyFourth
    BY <1>3 DEF Spends, SixtyFourth
  <1> QED
    BY <1>1, <1>2, <1>3, <1>4, Effect


LEMMA StopGood == IInv /\ Stop => Good
  <1> SUFFICES ASSUME IInv, Stop PROVE Good
    OBVIOUS
  <1>1. Running /\ Ready(0, 0, 0)
    <2>1. Running /\ Op \in CaseBytes.stop /\ ~TooShort /\ ~TooLong /\ frame.rev \in Revision
      BY IsAt, Names DEF Stop
    <2>2. Op = 0
      BY <2>1 DEF CaseBytes
    <2> QED
      BY <2>1, <2>2, RowsOfFlow, IsReady
  <1>2. CASE gas < Metric.gas
    BY <1>2, MayFail, ErrorNames DEF Stop, Pay
  <1>3. CASE ~(gas < Metric.gas)
    <2>1. gas' = gas - Metric.gas /\ Ends("success") /\ Pops /\ mem' = mem /\ last' = Touch(0)
      BY <1>3 DEF Stop, Pay, Left
    <2>2. gas' \in Nat /\ gas' <= gas
      BY <1>1, <1>3, <2>1, Numbers DEF Ready
    <2>3. Memory /\ 0 <= mem'
      BY <2>1, <2>2, MemoryStays
    <2>4. Says(0, FALSE, 0, pc) /\ last'.host = "none" /\ 0 <= Len(stack)
      <3>1. Says(0, FALSE, 0, pc) /\ last'.host = "none"
        BY <2>1, Touched
      <3>2. Len(stack) \in Nat /\ 0 <= Len(stack)
        BY Numbers
      <3> QED
        BY <3>1, <3>2
    <2>5. LastGood
      BY <1>1, <2>3, <2>4, Reports
    <2>6. stack' \in Seq(Word) /\ Len(stack') <= StackLimit
      BY <1>1, <2>1, PopsWords
    <2> QED
      BY <2>1, <2>2, <2>3, <2>4, <2>5, <2>6, EndsGood
  <1> QED
    BY <1>2, <1>3

LEMMA SelfDestructGood == IInv /\ SelfDestruct => Good
  <1> SUFFICES ASSUME IInv, SelfDestruct PROVE Good
    OBVIOUS
  <1>1. Ordinary /\ Ready(1, -1, 0)
    BY ReadyHigh DEF SelfDestruct
  <1>2. CASE Static
    BY <1>2, MayFail, ErrorNames DEF SelfDestruct, Violation
  <1>3. CASE ~Static
    <2>1. PICK funds \in BOOLEAN, exists \in BOOLEAN :
             Pay(SelfDestructCost(funds, exists),
                 /\ Ends("success") /\ Pops /\ UNCHANGED mem
                 /\ last' = [Touch(1) EXCEPT !.host = "selfdestruct"])
      BY <1>3, Zenon DEF SelfDestruct
    <2>2. PICK cost : cost = SelfDestructCost(funds, exists)
      OBVIOUS
    <2>3. cost \in Nat
      BY <1>1, <2>2 DEF SelfDestructCost, Ready
    <2>4. CASE gas < cost
      BY <2>1, <2>2, <2>4, MayFail, ErrorNames DEF Pay
    <2>5. CASE ~(gas < cost)
      <3>1. /\ gas' = gas - cost /\ Ends("success") /\ Pops /\ mem' = mem
            /\ last' = [Touch(1) EXCEPT !.host = "selfdestruct"]
        BY <2>1, <2>2, <2>5 DEF Pay, Left
      <3>2. gas' \in Nat /\ gas' <= gas
        BY <2>3, <2>5, <3>1, Numbers
      <3>3. Memory /\ 0 <= mem'
        BY <3>1, <3>2, MemoryStays
      <3>4. Says(1, FALSE, 0, pc) /\ last'.host = "selfdestruct" /\ 1 <= Len(stack)
        BY <1>1, <3>1 DEF Touch, NoStep, Says, Ready
      <3>5. LastGood
        BY <1>1, <3>3, <3>4, Reports DEF Ordinary
      <3>6. stack' \in Seq(Word) /\ Len(stack') <= StackLimit
        <4>1. Ready(1, -1, 0) /\ Pops
          BY <1>1, <3>1
        <4> QED
          BY <4>1, PopsWords
      <3> QED
        BY <3>1, <3>2, <3>3, <3>4, <3>5, <3>6, EndsGood
    <2> QED
      BY <2>4, <2>5
  <1> QED
    BY <1>2, <1>3

LEMMA ReturnGood == IInv /\ Return => Good
  <1> SUFFICES ASSUME IInv, Return PROVE Good
    OBVIOUS
  <1>1. At("return")
    BY DEF Return
  <1>2. CASE Label[Op] = "REVERT" /\ ~From(Byzantium)
    BY <1>2, MayFail, ErrorNames DEF Return
  <1>3. CASE ~(Label[Op] = "REVERT" /\ ~From(Byzantium))
    <2>1. Ordinary /\ Ready(2, -2, 0)
      BY <1>1, <1>3, LabelsInCases, ReadyHigh
    <2>2. PICK o \in Nat : o = Arg(0)
      BY <2>1, Args
    <2>3. PICK size \in Nat : size = Arg(1)
      BY <2>1, Args
    <2>4. PICK need \in Nat : need = MemNeed(o, size) /\ Covers(need, o, size)
      BY NeedFits
    <2>5. PICK how \in {"success", "revert"} :
             how = IF Label[Op] = "RETURN" THEN "success" ELSE "revert"
      OBVIOUS
    <2>6. PICK base \in Nat : base = Metric.gas
      BY <2>1 DEF Ready
    <2>7. PICK g \in Nat : g = MemGas(need, 0)
      BY MemGasFits
    <2>8. Pay(base + g, Ends(how) /\ Pops /\ mem' = MemAfter(need) /\ last' = Access(2, o, size))
      BY <1>3, <2>2, <2>3, <2>4, <2>5, <2>6, <2>7 DEF Return
    <2>9. CASE gas < base + g
      BY <2>8, <2>9, MayFail, ErrorNames DEF Pay
    <2>10. CASE ~(gas < base + g)
      <3>1. /\ gas' = gas - (base + g) /\ Ends(how) /\ Pops /\ mem' = MemAfter(need)
            /\ last' = Access(2, o, size)
        BY <2>8, <2>10 DEF Pay, Left
      <3>2. PICK paid \in Nat : paid = gas' /\ gas = paid + base + g /\ paid <= gas
        BY <2>10, <3>1, Numbers
      <3>3. /\ mem' \in Nat /\ mem' % 32 = 0 /\ need <= mem' /\ need < Never
            /\ paid + GasForMem(mem') <= gas + GasForMem(mem)
        BY <2>7, <3>1, <3>2, PaidFor
      <3>4. Memory /\ gas' \in Nat /\ gas' <= gas
        BY <3>2, <3>3 DEF Memory
      <3>5. PICK end \in Nat : end = IF size = 0 THEN 0 ELSE o + size
        OBVIOUS
      <3>6. Says(2, FALSE, end, pc) /\ last'.host = "none"
        BY <3>1, <3>5, Accessed
      <3>7. end <= need
        BY <2>4, <3>3, <3>5 DEF Covers
      <3>8. end <= mem' /\ 2 <= Len(stack)
        BY <2>1, <3>3, <3>7 DEF Ready
      <3>9. LastGood
        BY <2>1, <3>6, <3>8, Reports DEF Ordinary
      <3>10. stack' \in Seq(Word) /\ Len(stack') <= StackLimit
        BY <2>1, <3>1, PopsWords
      <3> QED
        BY <3>1, <3>4, <3>6, <3>9, <3>10, EndsGood
    <2> QED
      BY <2>9, <2>10
  <1> QED
    BY <1>2, <1>3

LEMMA LogGood == IInv /\ Log => Good
  <1> SUFFICES ASSUME IInv, Log PROVE Good
    OBVIOUS
  <1>1. Ordinary /\ Ready(Op - 158, 158 - Op, 0) /\ At("log")
    BY ReadyHigh DEF Log
  <1>2. CASE Static
    BY <1>2, MayFail, ErrorNames DEF Log, Violation
  <1>3. CASE ~Static
    <2>1. Op \in 160 .. 164
      BY <1>1, IsAt, Names DEF CaseBytes
    <2>2. PICK topics \in Nat : topics = Op - 160
      BY <2>1
    <2>3. PICK slots \in Nat : slots = 2 + topics /\ slots >= 2
      OBVIOUS
    <2>4. PICK change \in Int : change = 0 - slots
      OBVIOUS
    <2>5. Ready(slots, change, 0)
      <3>1. Op - 158 = slots /\ 158 - Op = change
        BY <2>1, <2>2, <2>3, <2>4
      <3> QED
        BY <1>1, <3>1
    <2>6. PICK o \in Nat : o = Arg(0)
      BY <2>3, <2>5, Args
    <2>7. PICK size \in Nat : size = Arg(1)
      BY <2>3, <2>5, Args
    <2>8. PICK need \in Nat : need = MemNeed(o, size) /\ Covers(need, o, size)
      BY NeedFits
    <2>9. PICK base \in Nat : base = Int63(375 + 375 * topics + 8 * size) /\ base >= 1
      <3>1. PICK n \in Nat : n = 375 + 375 * topics + 8 * size /\ n >= 1
        OBVIOUS
      <3> QED
        BY <3>1, Int63Range
    <2>10. PICK step : step = [Access(slots, o, size) EXCEPT !.host = "emit_log"]
      OBVIOUS
    <2>11. PaysAndPops(base, need, 0, step)
      BY <1>3, <2>2, <2>3, <2>6, <2>7, <2>8, <2>9, <2>10, ZenonT(60) DEF Log, PaysAndPops
    <2>12. Tells(step, slots, o, size)
      BY <2>10 DEF Tells
    <2>13. change <= 1 /\ slots + change >= 0 /\ slots <= slots
      BY <2>3, <2>4
    <2> QED
      BY <1>1, <2>5, <2>8, <2>9, <2>11, <2>12, <2>13, AccessPops
  <1> QED
    BY <1>2, <1>3

\* What a write costs, whatever the host answers.
LEMMA SStoreGasFits ==
    ASSUME IInv, NEW answer \in {"added", "modified", "unchanged"}
    PROVE  SStoreGas(answer) \in Nat /\ SStoreGas(answer) >= 1
  <1>1. RowIs(frame.rev, 84, 1, 0, 1)
    BY FrameFits, RowsOfData DEF IInv
  <1>2. Metrics[frame.rev][84].gas \in Nat /\ Metrics[frame.rev][84].gas >= 1
    BY <1>1 DEF RowIs
  <1> QED
    BY <1>2 DEF SStoreGas

LEMMA SStoreGood == IInv /\ SStore => Good
  <1> SUFFICES ASSUME IInv, SStore PROVE Good
    OBVIOUS
  <1>1. Ordinary /\ Ready(2, -2, 0)
    BY ReadyFlow DEF SStore
  <1>2. CASE \E why \in Errors : Fail(why)
    BY <1>2, MayFail
  <1>3. ASSUME NEW answer \in {"added", "modified", "unchanged"}, Stored(answer) PROVE Good
    <2>1. PICK cost \in Nat : cost = SStoreGas(answer) /\ cost >= 1
      BY SStoreGasFits
    <2>2. Says(2, FALSE, 0, pc) /\ last'.host = "set_storage"
      BY <1>3 DEF Stored, Touch, NoStep, Says
    <2>3. 2 <= Len(stack)
      BY <1>1 DEF Ready
    <2>4. CASE gas < cost
      <3>1. Throw("out of gas")
        BY <1>3, <2>1, <2>4 DEF Stored
      <3>2. 0 <= mem'
        <4>1. mem' = mem /\ mem \in Nat
          BY <3>1, Numbers DEF Throw
        <4> QED
          BY <4>1
      <3>3. LastGood
        BY <1>1, <2>2, <2>3, <3>2, Reports DEF Ordinary
      <3>4. SixtyFourth
        BY <2>2 DEF SixtyFourth
      <3> QED
        BY <3>1, <3>3, <3>4, Thrown, ErrorNames
    <2>5. CASE ~(gas < cost)
      <3>1. gas' = gas - cost /\ Pops /\ Next1 /\ mem' = mem
        BY <1>3, <2>1, <2>5 DEF Stored, Plain
      <3>2. gas' \in Nat /\ gas' < gas
        BY <2>1, <2>5, <3>1, Numbers
      <3>3. Memory /\ 0 <= mem'
        BY <3>1, <3>2, Numbers, MemoryStays
      <3>4. LastGood
        BY <1>1, <2>2, <2>3, <3>3, Reports DEF Ordinary
      <3>5. stack' \in Seq(Word) /\ Len(stack') <= StackLimit
        BY <1>1, <3>1, PopsWords
      <3> QED
        BY <1>1, <2>2, <3>1, <3>2, <3>3, <3>4, <3>5, GoesOn
    <2> QED
      BY <2>4, <2>5
  <1> QED
    BY <1>2, <1>3, ErrorNames DEF SStore, Violation


-----------------------------------------------------------------------------
(* Calls out *)

\* What comes back with a call is below what was charged for it.
LEMMA OutGood ==
    ASSUME IInv, Ordinary, NEW required \in Nat, NEW change \in Int, NEW least,
           Ready(required, change, least), change <= 1, required + change >= 1,
           NEW slots \in Nat, slots <= required, NEW v \in Word, Put(v),
           NEW need \in Nat, NEW end \in Nat, need < Never => end <= need,
           Says(slots, TRUE, end, pc), mem' = MemAfter(need), pc' = pc + 1,
           UNCHANGED <<frame, status, dests, undefs>>, ret' \in 0 .. 2,
           NEW base \in Nat, NEW paid \in Nat, gas = paid + base + MemGas(need, 0),
           gas' \in Nat, gas' < paid + base, SixtyFourth
    PROVE  Good
  <1>1. SameFrame /\ status' = "running"
    BY DEF SameFrame, Ordinary, Running
  <1>2. status' \in {"running", "success", "revert"} \cup Errors /\ status' \notin Errors
    BY <1>1 DEF Errors
  <1>3. pc' = pc + 1 + PushBytes(Op)
    BY Numbers DEF Ordinary
  <1>4. /\ pc' \in Nat /\ pc' < Len(frame.code) + 33
        /\ pc' < Len(frame.code) => pc' \in Starts(frame.code)
    BY <1>3, NextPosition DEF Ordinary
  <1>5. PICK g \in Nat : g = MemGas(need, 0)
    BY MemGasFits
  <1>6. gas \in Nat /\ gas = paid + base + g /\ GasForMem(mem) \in Nat
    BY <1>5, Numbers
  <1>7. Spends
    BY <1>6 DEF Spends
  <1>8. /\ mem' \in Nat /\ mem' % 32 = 0 /\ need <= mem' /\ need < Never
        /\ paid + base + GasForMem(mem') <= gas + GasForMem(mem) /\ GasForMem(mem') \in Nat
    BY PaidFor
  <1>9. gas' + GasForMem(mem') <= gas + GasForMem(mem)
    BY <1>6, <1>8
  <1>10. Memory
    BY <1>8, <1>9 DEF Memory
  <1>11. end <= mem'
    BY <1>8
  <1>12. stack' \in Seq(Word) /\ Len(stack') <= StackLimit /\ Len(stack') > 0
    BY PutsWord
  <1>13. slots <= Len(stack)
    BY Numbers DEF Ready
  <1>14. LastGood
    BY <1>11, <1>12, <1>13, Reports DEF Ordinary
  <1> QED
    BY <1>1, <1>2, <1>4, <1>7, <1>10, <1>12, <1>14, Effect

LEMMA Parts64 ==
    ASSUME NEW p \in Nat
    PROVE  /\ p \div 64 \in Nat /\ p \div 64 <= p /\ p - (p \div 64) \in Nat
           /\ p - (p \div 64) <= p
           /\ \A x \in Int : x <= p => x \div 64 <= p \div 64
           /\ \A x \in Int : x <= 2 * p => x \div 64 <= p
  OBVIOUS

LEMMA AllBut64thFits ==
    ASSUME NEW p \in Nat
    PROVE  /\ AllBut64th(p) \in Nat /\ AllBut64th(p) <= p
           /\ From(TangerineWhistle) => p - AllBut64th(p) >= p \div 64
  <1>1. PICK q \in Nat : q = p \div 64 /\ q <= p
    BY Parts64
  <1>2. AllBut64th(p) = p - q \/ AllBut64th(p) = p
    BY <1>1 DEF AllBut64th
  <1>3. From(TangerineWhistle) => AllBut64th(p) = p - q
    BY <1>1 DEF AllBut64th
  <1> QED
    BY <1>1, <1>2, <1>3

\* The gas of a nested call and what is left of it, in numbers.
LEMMA CallerKeeps ==
    ASSUME NEW paid \in Nat, NEW own \in Nat, own <= paid, NEW stipend \in 0 .. CallStipend,
           NEW left, left = 0 \/ left = own + stipend
    PROVE  /\ paid - own + left \in Nat /\ paid - own + left <= paid + stipend
           /\ paid - own >= paid \div 64 =>
                 paid - own + left
                    >= (paid - own + left + (own + stipend) - CallStipend) \div 64
  <1>1. stipend \in Nat /\ stipend <= 2300 /\ CallStipend = 2300
    BY DEF CallStipend
  <1>2. CASE left = 0
    <2>1. PICK x \in Int : x = paid - own + left + (own + stipend) - CallStipend
      BY <1>1, <1>2
    <2>2. x <= paid
      BY <1>1, <1>2, <2>1
    <2>3. x \div 64 \in Int /\ paid \div 64 \in Int /\ x \div 64 <= paid \div 64
      BY <2>2, Parts64
    <2>4. paid - own + left = paid - own /\ paid - own \in Nat
      BY <1>2
    <2>5. paid - own >= paid \div 64 => paid - own >= x \div 64
      BY <2>3, <2>4
    <2> QED
      BY <1>1, <2>1, <2>4, <2>5
  <1>3. CASE left = own + stipend
    <2>1. PICK x \in Int : x = paid - own + left + (own + stipend) - CallStipend
      BY <1>1, <1>3
    <2>2. PICK p \in Nat : p = paid + stipend
      BY <1>1
    <2>3. x <= 2 * p
      BY <1>1, <1>3, <2>1, <2>2
    <2>4. x \div 64 <= p
      BY <2>3, Parts64
    <2>5. paid - own + left = p
      BY <1>1, <1>3, <2>2
    <2> QED
      BY <2>1, <2>2, <2>4, <2>5
  <1> QED
    BY <1>2, <1>3


LEMMA CreateGood == IInv /\ Create => Good
  <1> SUFFICES ASSUME IInv, Create PROVE Good
    OBVIOUS
  <1>1. At("create")
    BY DEF Create
  <1>2. CASE Label[Op] = "CREATE2" /\ ~From(Constantinople)
    BY <1>2, MayFail, ErrorNames DEF Create
  <1>3. CASE ~(Label[Op] = "CREATE2" /\ ~From(Constantinople)) /\ Static
    BY <1>3, MayFail, ErrorNames DEF Create, Violation
  <1>4. CASE ~(Label[Op] = "CREATE2" /\ ~From(Constantinople)) /\ ~Static
    <2>1. Op \in {240, 245}
      BY <1>1, IsAt, Names DEF CaseBytes
    <2>2. PICK slots \in {3, 4} : slots = IF Label[Op] = "CREATE2" THEN 4 ELSE 3
      OBVIOUS
    <2>3. PICK change \in Int : change = 1 - slots
      BY <2>2
    <2>4. Ordinary /\ Ready(slots, change, 0) /\ (Label[Op] = "CREATE2" => slots = 4)
      <3>1. CASE Op = 240
        <4>1. slots = 3 /\ change = -2 /\ Label[Op] # "CREATE2"
          BY <2>2, <2>3, <3>1, LabelsInCases
        <4> QED
          BY <1>1, <3>1, <4>1, ReadyHigh
      <3>2. CASE Op = 245
        <4>1. slots = 4 /\ change = -3 /\ From(Constantinople)
          BY <1>4, <2>2, <2>3, <3>2, LabelsInCases
        <4> QED
          BY <1>1, <3>2, <4>1, ReadyHigh
      <3> QED
        BY <2>1, <3>1, <3>2
    <2>5. slots \in Nat /\ 1 < slots /\ 2 < slots /\ change <= 1 /\ slots + change >= 1
      BY <2>2, <2>3
    <2>6. PICK o \in Nat : o = Arg(1)
      BY <2>4, <2>5, Args
    <2>7. PICK size \in Nat : size = Arg(2)
      BY <2>4, <2>5, Args
    <2>8. PICK need \in Nat : need = MemNeed(o, size) /\ Covers(need, o, size)
      BY NeedFits
    <2>9. PICK g \in Nat : g = MemGas(need, 0)
      BY MemGasFits
    <2>10. PICK salt \in Nat : salt = IF Label[Op] = "CREATE2" THEN Int63(Words(size) * 6) ELSE 0
      <3>1. PICK n \in Nat : n = Words(size) * 6
        BY DEF Words
      <3>2. Int63(n) \in Nat
        BY Int63Range
      <3> QED
        BY <3>1, <3>2
    <2>11. PICK base \in Nat : base = 32000 + salt
      OBVIOUS
    <2>12. CreateCost = base + g
      BY <2>6, <2>7, <2>8, <2>9, <2>10, <2>11 DEF CreateCost
    <2>13. CASE gas < CreateCost
      BY <1>4, <2>13, MayFail, ErrorNames DEF Create
    <2>14. CASE ~(gas < CreateCost)
      <3>1. PICK paid \in Nat : paid = gas - CreateCost /\ gas = paid + base + g
        BY <2>12, <2>14, Numbers
      <3>2. PICK given : given = AllBut64th(paid)
        OBVIOUS
      <3>3. PICK step : step = [Access(slots, o, size) EXCEPT !.put = TRUE]
        OBVIOUS
      <3>4. given \in Nat /\ given <= paid /\ (From(TangerineWhistle) => paid - given >= paid \div 64)
        BY <3>2, AllBut64thFits
      <3>5. PICK funds \in BOOLEAN :
               /\ mem' = MemAfter(need) /\ pc' = pc + 1 /\ UNCHANGED <<frame, status, dests, undefs>>
               /\ IF funds /\ ~frame.deep
                  THEN \E r \in Returned(given) :
                          /\ gas' = paid - (given - r.left)
                          /\ Put(IF r.ok THEN 1 ELSE 0) /\ ret' = r.size
                          /\ last' = [step EXCEPT !.host = "create", !.given = given,
                                                  !.mayChange = TRUE]
                  ELSE gas' = paid /\ Put(0) /\ ret' = 0 /\ last' = step
        BY <1>4, <2>2, <2>6, <2>7, <2>8, <2>14, <3>1, <3>2, <3>3 DEF Create
      <3>6. PICK end \in Nat : end = IF size = 0 THEN 0 ELSE o + size
        OBVIOUS
      <3>7. need < Never => end <= need
        BY <2>8, <3>6 DEF Covers
      <3>8. gas = paid + base + MemGas(need, 0) /\ slots <= slots
        BY <2>5, <2>9, <3>1
      <3>9. CASE funds /\ ~frame.deep
        <4>1. PICK r \in Returned(given) :
                 /\ gas' = paid - (given - r.left)
                 /\ Put(IF r.ok THEN 1 ELSE 0) /\ ret' = r.size
                 /\ last' = [step EXCEPT !.host = "create", !.given = given, !.mayChange = TRUE]
          BY <3>5, <3>9
        <4>2. PICK left : left = r.left /\ (left = 0 \/ left = given)
          BY DEF Returned
        <4>3. PICK v \in Word : v = IF r.ok THEN 1 ELSE 0
          BY WordsFit
        <4>4. ret' \in 0 .. 2 /\ Put(v)
          BY <4>1, <4>3 DEF Returned
        <4>5. gas' = paid - given + left
          BY <3>4, <4>1, <4>2
        <4>6. gas' \in Nat /\ gas' <= paid /\ gas' < paid + base
          BY <2>11, <3>4, <4>2, <4>5
        <4>7. Says(slots, TRUE, end, pc) /\ last'.host = "create" /\ last'.given = given
          BY <3>3, <3>6, <4>1 DEF Says, Access, Touch, NoStep
        <4>8. From(TangerineWhistle) => gas' >= (gas' + given) \div 64
          <5>1. CASE left = 0
            <6>1. gas' + given = paid /\ gas' = paid - given
              BY <3>4, <4>5, <5>1
            <6> QED
              BY <3>4, <6>1
          <5>2. CASE left = given
            <6>1. PICK x \in Int : x = paid + given /\ x <= 2 * paid
              BY <3>4
            <6>2. gas' = paid /\ gas' + given = x
              BY <3>4, <4>5, <5>2, <6>1
            <6>3. x \div 64 <= paid
              BY <6>1, Parts64
            <6> QED
              BY <6>2, <6>3
          <5> QED
            BY <4>2, <5>1, <5>2
        <4>9. SixtyFourth
          BY <4>7, <4>8 DEF SixtyFourth
        <4> QED
          BY <2>4, <2>5, <3>5, <3>7, <3>8, <4>4, <4>6, <4>7, <4>9, OutGood
      <3>10. CASE ~(funds /\ ~frame.deep)
        <4>1. gas' = paid /\ Put(0) /\ ret' = 0 /\ last' = step
          BY <3>5, <3>10
        <4>2. Says(slots, TRUE, end, pc) /\ last'.host = "none"
          BY <3>3, <3>6, <4>1, Accessed
        <4>3. gas' \in Nat /\ gas' < paid + base /\ ret' \in 0 .. 2 /\ 0 \in Word
          BY <2>11, <4>1, WordsFit
        <4>4. SixtyFourth
          BY <4>2 DEF SixtyFourth
        <4> QED
          BY <2>4, <2>5, <3>5, <3>7, <3>8, <4>1, <4>2, <4>3, <4>4, OutGood
      <3> QED
        BY <3>9, <3>10
    <2> QED
      BY <2>13, <2>14
  <1> QED
    BY <1>2, <1>3, <1>4


LEMMA CallGasFits ==
    ASSUME NEW paid \in Nat, Arg(0) \in Nat
    PROVE  /\ CallGas(paid) \in Nat
           /\ From(TangerineWhistle) => paid - CallGas(paid) >= paid \div 64
  <1>1. PICK n \in Nat : n = Arg(0)
    OBVIOUS
  <1>2. Int63(n) \in Nat /\ Int63(n) <= n
    BY Limits DEF Int63
  <1>3. PICK a \in Nat : a = AllBut64th(paid)
    BY AllBut64thFits
  <1>4. From(TangerineWhistle) => paid - a >= paid \div 64
    BY <1>3, AllBut64thFits
  <1>5. CallGas(paid) = IF From(TangerineWhistle) /\ a < n THEN a ELSE Int63(n)
    BY <1>1, <1>3 DEF CallGas
  <1>6. CASE From(TangerineWhistle) /\ a < n
    BY <1>4, <1>5, <1>6
  <1>7. CASE ~(From(TangerineWhistle) /\ a < n)
    <2>1. CallGas(paid) = Int63(n)
      BY <1>5, <1>7
    <2>2. From(TangerineWhistle) => Int63(n) <= a
      BY <1>2, <1>7
    <2>3. paid \div 64 \in Nat
      BY Parts64
    <2>4. From(TangerineWhistle) => paid - Int63(n) >= paid \div 64
      BY <1>2, <1>4, <2>2, <2>3
    <2> QED
      BY <1>2, <2>1, <2>4
  <1> QED
    BY <1>6, <1>7

\* A transfer costs more than the stipend it gives.
LEMMA CallCosts ==
    ASSUME IInv, NEW need \in Nat, NEW exists \in BOOLEAN, NEW self \in BOOLEAN,
           Metric.gas \in Nat, Metric.gas >= 1
    PROVE  \E base \in Nat, stipend \in 0 .. CallStipend :
              /\ CallCost(exists, self, need) = base + MemGas(need, 0) /\ base > stipend
              /\ stipend = IF SendsValue THEN CallStipend ELSE 0
  <1>1. PICK g \in Nat : g = MemGas(need, 0)
    BY MemGasFits
  <1>2. PICK a \in Nat : a = (IF From(Berlin) /\ self THEN 40 ELSE Metric.gas) /\ a >= 1
    OBVIOUS
  <1>3. PICK b \in Nat :
           b = IF Label[Op] = "CALL" /\ (Arg(2) > 0 \/ ~From(SpuriousDragon)) /\ ~exists
               THEN 25000 ELSE 0
    OBVIOUS
  <1>4. PICK c \in Nat : c = IF SendsValue THEN 9000 ELSE 0
    OBVIOUS
  <1>5. PICK stipend \in 0 .. CallStipend : stipend = IF SendsValue THEN CallStipend ELSE 0
    BY DEF CallStipend
  <1>6. PICK base \in Nat : base = a + b + c
    OBVIOUS
  <1>7. CallCost(exists, self, need) = base + g
    BY <1>1, <1>2, <1>3, <1>4, <1>6 DEF CallCost
  <1>8. base > stipend
    BY <1>2, <1>4, <1>5, <1>6 DEF CallStipend
  <1> QED
    BY <1>1, <1>5, <1>7, <1>8

LEMMA CallOutGood ==
    ASSUME IInv, Ordinary, NEW slots \in {6, 7}, NEW change \in Int, change = 1 - slots,
           Ready(slots, change, 1), Arg(0) \in Nat, NEW need \in Nat,
           NEW exists \in BOOLEAN, NEW self \in BOOLEAN, NEW funds \in BOOLEAN,
           CallOut(slots, need, exists, self, funds)
    PROVE  Good
  <1>1. PICK cost : cost = CallCost(exists, self, need)
    OBVIOUS
  <1>2. PICK base \in Nat, stipend \in 0 .. CallStipend :
           /\ cost = base + MemGas(need, 0) /\ base > stipend
           /\ stipend = IF SendsValue THEN CallStipend ELSE 0
    <2>1. Metric.gas \in Nat /\ Metric.gas >= 1
      BY DEF Ready
    <2> QED
      BY <1>1, <2>1, CallCosts
  <1>3. PICK g \in Nat : g = MemGas(need, 0)
    BY MemGasFits
  <1>4. stipend \in Nat /\ cost = base + g /\ cost \in Nat
    BY <1>2, <1>3 DEF CallStipend
  <1>5. CASE Fail("out of gas")
    BY <1>5, MayFail, ErrorNames
  <1>6. CASE ~Fail("out of gas")
    <2>1. PICK paid : paid = gas - cost
      OBVIOUS
    <2>2. PICK own : own = CallGas(paid)
      OBVIOUS
    <2>3. PICK given : given = own + stipend
      OBVIOUS
    <2>4. PICK step : step = [Touch(slots) EXCEPT !.put = TRUE, !.end = need]
      OBVIOUS
    <2>5. PICK goesOut \in BOOLEAN : goesOut = ((SendsValue => funds) /\ ~frame.deep)
      OBVIOUS
    <2>6. given = own + (IF SendsValue THEN CallStipend ELSE 0)
      BY <1>2, <2>3
    <2>7. /\ ~(gas < cost \/ paid < own)
          /\ mem' = MemAfter(need) /\ pc' = pc + 1
          /\ UNCHANGED <<frame, status, dests, undefs>>
          /\ \/ /\ goesOut
                /\ \E r \in Returned(given) :
                      /\ gas' = paid - own + r.left
                      /\ Put(IF r.ok THEN 1 ELSE 0) /\ ret' = r.size
                      /\ last' = [step EXCEPT !.host = "call", !.given = given,
                                              !.mayChange = ~NestedStatic]
             \/ /\ ~goesOut
                /\ gas' = paid - own + given
                /\ Put(0) /\ ret' = 0 /\ last' = step
      BY <1>1, <1>6, <2>1, <2>2, <2>4, <2>5, <2>6 DEF CallOut
    <2>8. paid \in Nat /\ gas = paid + base + g
      <3>1. ~(gas < cost) /\ gas \in Nat
        BY <2>7, Numbers
      <3> QED
        BY <1>4, <2>1, <3>1
    <2>9. own \in Nat /\ own <= paid /\ (From(TangerineWhistle) => paid - own >= paid \div 64)
      BY <2>2, <2>7, <2>8, CallGasFits
    <2>10. /\ slots \in Nat /\ slots <= slots /\ change <= 1 /\ slots + change >= 1
           /\ gas = paid + base + MemGas(need, 0) /\ (need < Never => need <= need)
      BY <1>3, <2>8
    <2>11. \A left : left = 0 \/ left = given =>
              /\ paid - own + left \in Nat /\ paid - own + left < paid + base
              /\ From(TangerineWhistle) =>
                    paid - own + left >= (paid - own + left + given - CallStipend) \div 64
      <3> SUFFICES ASSUME NEW left, left = 0 \/ left = given
                   PROVE  /\ paid - own + left \in Nat /\ paid - own + left < paid + base
                          /\ From(TangerineWhistle) =>
                                paid - own + left
                                   >= (paid - own + left + given - CallStipend) \div 64
        OBVIOUS
      <3>1. /\ paid - own + left \in Nat /\ paid - own + left <= paid + stipend
            /\ paid - own >= paid \div 64 =>
                  paid - own + left
                     >= (paid - own + left + (own + stipend) - CallStipend) \div 64
        BY <2>3, <2>8, <2>9, CallerKeeps
      <3>2. paid - own + left < paid + base
        BY <1>2, <1>4, <2>8, <3>1
      <3> QED
        BY <2>3, <2>9, <3>1, <3>2
    <2>12. CASE goesOut
      <3>1. PICK r \in Returned(given) :
               /\ gas' = paid - own + r.left
               /\ Put(IF r.ok THEN 1 ELSE 0) /\ ret' = r.size
               /\ last' = [step EXCEPT !.host = "call", !.given = given,
                                       !.mayChange = ~NestedStatic]
        BY <2>7, <2>12
      <3>2. r.left = 0 \/ r.left = given
        BY DEF Returned
      <3>3. PICK v \in Word : v = IF r.ok THEN 1 ELSE 0
        BY WordsFit
      <3>4. ret' \in 0 .. 2 /\ Put(v)
        BY <3>1, <3>3 DEF Returned
      <3>5. /\ gas' \in Nat /\ gas' < paid + base
            /\ From(TangerineWhistle) => gas' >= (gas' + given - CallStipend) \div 64
        BY <2>11, <3>1, <3>2
      <3>6. Says(slots, TRUE, need, pc) /\ last'.host = "call" /\ last'.given = given
        BY <2>4, <3>1 DEF Says, Touch, NoStep
      <3>7. SixtyFourth
        BY <3>5, <3>6 DEF SixtyFourth
      <3> QED
        BY <2>7, <2>8, <2>10, <3>4, <3>5, <3>6, <3>7, OutGood
    <2>13. CASE ~goesOut
      <3>1. gas' = paid - own + given /\ Put(0) /\ ret' = 0 /\ last' = step
        BY <2>7, <2>13
      <3>2. gas' \in Nat /\ gas' < paid + base
        BY <2>11, <3>1
      <3>3. Says(slots, TRUE, need, pc) /\ last'.host = "none"
        BY <2>4, <3>1 DEF Says, Touch, NoStep
      <3>4. SixtyFourth
        BY <3>3 DEF SixtyFourth
      <3>5. 0 \in Word /\ ret' \in 0 .. 2
        BY <3>1, WordsFit
      <3> QED
        BY <2>7, <2>8, <2>10, <3>1, <3>2, <3>3, <3>4, <3>5, OutGood
    <2> QED
      BY <2>12, <2>13
  <1> QED
    BY <1>5, <1>6

LEMMA CallGood == IInv /\ Call => Good
  <1> SUFFICES ASSUME IInv, Call PROVE Good
    OBVIOUS
  <1> DEFINE Absent == \/ Label[Op] = "DELEGATECALL" /\ ~From(Homestead)
                       \/ Label[Op] = "STATICCALL" /\ ~From(Byzantium)
             Banned == Label[Op] = "CALL" /\ Static /\ Arg(2) # 0
  <1>1. At("call")
    BY DEF Call
  <1>2. CASE Absent
    BY <1>2, MayFail, ErrorNames DEF Call
  <1>3. CASE ~Absent /\ Banned
    BY <1>3, MayFail, ErrorNames DEF Call, Violation
  <1>4. CASE ~Absent /\ ~Banned
    <2>1. Op \in {241, 242, 244, 250}
      BY <1>1, IsAt, Names DEF CaseBytes
    <2>2. PICK base \in {2, 3} : base = IF HasValue THEN 3 ELSE 2
      OBVIOUS
    <2>3. PICK slots \in {6, 7} : slots = base + 4
      BY <2>2
    <2>4. PICK change \in Int : change = 1 - slots
      BY <2>3
    <2>5. Ordinary /\ Ready(slots, change, 1)
      <3>1. CASE Op \in {241, 242}
        <4>1. slots = 7 /\ change = -6
          BY <2>2, <2>3, <2>4, <3>1, LabelsInCases DEF HasValue
        <4> QED
          BY <1>1, <3>1, <4>1, ReadyHigh
      <3>2. CASE Op = 244
        <4>1. slots = 6 /\ change = -5 /\ From(Homestead)
          BY <1>4, <2>2, <2>3, <2>4, <3>2, LabelsInCases DEF HasValue
        <4> QED
          BY <1>1, <3>2, <4>1, ReadyHigh
      <3>3. CASE Op = 250
        <4>1. slots = 6 /\ change = -5 /\ From(Byzantium)
          BY <1>4, <2>2, <2>3, <2>4, <3>3, LabelsInCases DEF HasValue
        <4> QED
          BY <1>1, <3>3, <4>1, ReadyHigh
      <3> QED
        BY <2>1, <3>1, <3>2, <3>3
    <2>6. \A k \in 0 .. base + 3 : Arg(k) \in Nat
      <3>1. \A k \in Nat : k < slots => Arg(k) \in Nat
        BY <2>3, <2>5, Args
      <3> QED
        BY <2>2, <2>3, <3>1
    <2>7. PICK in \in Nat : in = MemNeed(Arg(base), Arg(base + 1))
      <3>1. Arg(base) \in Nat /\ Arg(base + 1) \in Nat
        BY <2>2, <2>6
      <3> QED
        BY <3>1, NeedFits
    <2>8. PICK out \in Nat : out = MemNeed(Arg(base + 2), Arg(base + 3))
      <3>1. Arg(base + 2) \in Nat /\ Arg(base + 3) \in Nat
        BY <2>2, <2>6
      <3> QED
        BY <3>1, NeedFits
    <2>9. PICK need \in Nat : need = IF in > out THEN in ELSE out
      OBVIOUS
    <2>10. PICK exists \in BOOLEAN, self \in BOOLEAN, funds \in BOOLEAN :
              CallOut(slots, need, exists, self, funds)
      BY <1>4, <2>2, <2>3, <2>7, <2>8, <2>9, Zenon DEF Call
    <2>11. Arg(0) \in Nat
      BY <2>2, <2>6
    <2> QED
      BY <2>4, <2>5, <2>10, <2>11, CallOutGood
  <1> QED
    BY <1>2, <1>3, <1>4


-----------------------------------------------------------------------------
(* The scan, and every step *)

LEMMA ScanFits ==
    ASSUME IInv, InitEntry
    PROVE  DestsFit'
  <1>1. /\ frame' = frame /\ dests' = {p \in Scanned : Label[Source(p)] = "JUMPDEST"}
        /\ undefs' = {p \in Scanned : Source(p) \in 172 .. 174}
    BY DEF InitEntry
  <1>2. frame.code \in Seq(Byte) /\ Len(frame.code) \in Nat
    BY FrameFits DEF IInv
  <1>3. \A p \in Scanned : /\ p \in Starts(frame.code) /\ p \in Nat
                           /\ Source(p) = ByteAt(frame.code, p) /\ Source(p) \in Byte
    <2>1. \A p \in Scanned : p \in Starts(frame.code) /\ p \in Nat
      BY <1>2, ScannedStarts DEF Starts, ReachedFrom
    <2>2. \A p \in Nat : Source(p) = ByteAt(frame.code, p) /\ ByteAt(frame.code, p) \in Byte
      BY <1>2, ByteAtByte DEF Source, ByteAt, Size
    <2> QED
      BY <2>1, <2>2
  <1>4. \A b \in Byte : Label[b] = "JUMPDEST" => b = 91
    <2>1. Cases.jumpdest = {"JUMPDEST"} /\ CaseBytes.jumpdest = {91}
      BY DEF Cases, CaseBytes
    <2> QED
      BY <2>1, BytesOfCases
  <1>5. \A p \in dests' : p \in Starts(frame.code) /\ p < Len(frame.code)
    <2> SUFFICES ASSUME NEW p \in dests'
                 PROVE  p \in Starts(frame.code) /\ p < Len(frame.code)
      OBVIOUS
    <2>1. p \in Scanned /\ Source(p) = 91
      BY <1>1, <1>3, <1>4
    <2>2. p \in Nat /\ ByteAt(frame.code, p) = 91 /\ p \in Starts(frame.code)
      BY <1>3, <2>1
    <2> QED
      BY <1>2, <2>2 DEF ByteAt
  <1>6. \A p \in undefs' : ByteAt(frame.code, p) \in 172 .. 174
    BY <1>1, <1>3
  <1> QED
    BY <1>1, <1>5, <1>6 DEF DestsFit

LEMMA InitEntryKeeps == IInv /\ InitEntry => IInv' /\ SixtyFourth
  <1> SUFFICES ASSUME IInv, InitEntry PROVE IInv' /\ SixtyFourth
    OBVIOUS
  <1>1. /\ status = "entry" /\ status' = "running"
        /\ UNCHANGED <<frame, pc, gas, stack, mem, ret, last>>
    BY DEF InitEntry
  <1>2. status' # "entry" /\ status' \notin Errors /\ Len(frame.code) \in Nat
    BY <1>1, FrameFits DEF Errors, IInv
  <1>3. PcFits'
    <2>1. pc' = 0 /\ 0 \in Starts(frame.code)
      BY <1>1, FrameFits, ReachedSelf DEF IInv, PcFits, Starts
    <2> QED
      BY <1>1, <1>2, <2>1 DEF PcFits
  <1>4. GasFits' /\ StackFits' /\ MemoryFits'
    BY <1>1, <1>2 DEF IInv, GasFits, StackFits, MemoryFits
  <1>5. LastFits'
    BY <1>1, <1>2 DEF IInv, LastFits
  <1>6. IInv'
    BY <1>1, <1>3, <1>4, <1>5, ScanFits DEF IInv
  <1>7. SixtyFourth
    BY <1>1 DEF IInv, LastFits, NoStep, SixtyFourth
  <1> QED
    BY <1>6, <1>7

LEMMA StepGood == IInv /\ Step => Good
  BY BadStackGood, ComputeGood, ShiftGood, ExpGood, MessageDataGood, BlockDataGood, CounterGood,
     QueryGood, BlockHashGood, SLoadGood, PopGood, DupGood, SwapGood, PushGood, JumpGood,
     JumpIGood, JumpDestGood, MLoadGood, MStoreGood, Sha3Good, CopyGood, ReturnGood, StopGood,
     LogGood, SStoreGood, SelfDestructGood, CreateGood, CallGood, BadGood, PTL DEF Step

LEMMA StutterKeeps == IInv /\ UNCHANGED vars => IInv'
  BY DEF vars, IInv, DestsFit, PcFits, GasFits, StackFits, MemoryFits, LastFits

LEMMA NextKeeps == IInv /\ [Next]_vars => IInv'
  BY StepGood, InitEntryKeeps, StutterKeeps DEF Next, Good

\* Every action costs gas if the frame goes on after it, and one that calls out
\* keeps a 64th.
LEMMA NextCosts ==
    IInv /\ [Next]_vars =>
        /\ [Running /\ status' = "running" => gas' < gas]_vars
        /\ [From(TangerineWhistle) =>
               /\ last'.host = "create" => gas' >= (gas' + last'.given) \div 64
               /\ last'.host = "call" => gas' >= (gas' + last'.given - CallStipend) \div 64]_vars
  <1> SUFFICES ASSUME IInv, Next
               PROVE  (Running /\ status' = "running" => gas' < gas) /\ SixtyFourth
    BY DEF SixtyFourth
  <1>1. CASE InitEntry
    BY <1>1, InitEntryKeeps DEF InitEntry, Running
  <1>2. CASE Step
    BY <1>2, StepGood DEF Good
  <1> QED
    BY <1>1, <1>2 DEF Next

\* The inductive invariant of a frame.
THEOREM Invariant == Spec => []IInv
  BY InitFits, NextKeeps, PTL DEF Spec

\* fetchInstruction, onOperation and the cases keep every word below 2^256, the
\* gas within what the message brought, and a frame that was thrown out of has
\* none left (execute).
THEOREM TypesKept == Spec => []TypeOK
  BY Invariant, InvariantImplies, PTL

\* The metrics of the opcodes and the cases of interpretCases agree: no opcode
\* reads or writes through m_SP and m_SPP outside of the stack.
THEOREM StackIsChecked == Spec => []StackChecked
  BY Invariant, InvariantImplies, PTL

\* optimize's scan and verifyJumpDest keep m_PC at the start of an instruction
\* and within the extended code, for any code and any jumps.
THEOREM CodeIsChecked == Spec => []CodeChecked
  BY Invariant, InvariantImplies, PTL

\* updateMem and updateIOGas: no opcode touches memory that is not there or was
\* not paid for.
THEOREM MemoryIsPaid == Spec => []MemoryPaid
  BY Invariant, InvariantImplies, PTL

\* interpretCases comes to an end: each opcode that goes on has cost gas, calls
\* with a stipend included.
THEOREM GasAlwaysFalls == Spec => GasFalls
  <1>1. IInv /\ [Next]_vars => [Running /\ status' = "running" => gas' < gas]_vars
    BY NextCosts
  <1> QED
    BY <1>1, Invariant, PTL DEF Spec, GasFalls

\* caseCreate and caseCallSetup leave the caller one 64th of its gas.
THEOREM CallerAlwaysKeeps64th == Spec => CallerKeeps64th
  <1>1. IInv /\ [Next]_vars =>
           [From(TangerineWhistle) =>
              /\ last'.host = "create" => gas' >= (gas' + last'.given) \div 64
              /\ last'.host = "call" => gas' >= (gas' + last'.given - CallStipend) \div 64]_vars
    BY NextCosts
  <1> QED
    BY <1>1, Invariant, PTL DEF Spec, CallerKeeps64th

-----------------------------------------------------------------------------
(* A static frame: what the frame asks of the host changes nothing, for any *)
(* code, any message, any answers of the host and any limits.               *)

\* The calls of the host that StaticChangesNothing forbids.
Quiet(step) ==
    /\ step.host \notin {"set_storage", "emit_log", "selfdestruct", "create"}
    /\ ~step.mayChange

\* What an opcode that asks for no change leaves behind in last.
Harmless(step) == step.host = "none" /\ step.mayChange = FALSE

LEMMA HarmlessQuiet == \A step : Harmless(step) => Quiet(step)
  BY DEF Harmless, Quiet

LEMMA TouchHarmless == ASSUME NEW slots PROVE Harmless(Touch(slots))
  BY DEF Touch, NoStep, Harmless

LEMMA PutsHarmless ==
    ASSUME NEW slots PROVE Harmless([Touch(slots) EXCEPT !.put = TRUE])
  BY DEF Touch, NoStep, Harmless

LEMMA AccessHarmless ==
    ASSUME NEW slots, NEW offset, NEW size
    PROVE  /\ Harmless(Access(slots, offset, size))
           /\ Harmless([Access(slots, offset, size) EXCEPT !.put = TRUE])
  BY DEF Access, Touch, NoStep, Harmless

LEMMA FailHarmless ==
    ASSUME NEW why, Fail(why) PROVE Harmless(last') /\ frame' = frame
  BY DEF Fail, Throw, NoStep, Harmless

\* A step of the frame: the message stays, and if it is static, what the step
\* asked of the host changes nothing.
Kept == frame' = frame /\ (frame.static => Quiet(last'))

LEMMA FailKept == ASSUME NEW why, Fail(why) PROVE Kept
  BY FailHarmless, HarmlessQuiet DEF Kept

\* An opcode without call and memory: it pays, or fails.
LEMMA PutsKept ==
    ASSUME NEW cost, NEW slots, NEW value, Pay(cost, PutsWith(slots, value) /\ Plain)
    PROVE  Kept
  <1>1. CASE gas < cost
    BY <1>1, FailKept DEF Pay
  <1>2. CASE ~(gas < cost)
    BY <1>2, PutsHarmless, HarmlessQuiet DEF Pay, PutsWith, Plain, Next1, Kept
  <1> QED
    BY <1>1, <1>2

LEMMA PopsKept ==
    ASSUME NEW cost, Pay(cost, Pops /\ last' = Touch(0) /\ Plain)
    PROVE  Kept
  <1>1. CASE gas < cost
    BY <1>1, FailKept DEF Pay
  <1>2. CASE ~(gas < cost)
    BY <1>2, TouchHarmless, HarmlessQuiet DEF Pay, Plain, Next1, Kept
  <1> QED
    BY <1>1, <1>2

\* The opcodes that only compute, or only ask.
LEMMA ComputeKept == Compute => Kept
  BY PutsKept DEF Compute

LEMMA ShiftKept == Shift => Kept
  BY PutsKept, FailKept DEF Shift

LEMMA ExpKept == Exp => Kept
  BY PutsKept DEF Exp

LEMMA MessageDataKept == MessageData => Kept
  BY PutsKept, FailKept DEF MessageData

LEMMA BlockDataKept == BlockData => Kept
  BY PutsKept, FailKept DEF BlockData

LEMMA CounterKept == Counter => Kept
  BY PutsKept DEF Counter

LEMMA QueryKept == Query => Kept
  BY PutsKept, FailKept DEF Query

LEMMA BlockHashKept == BlockHash => Kept
  BY PutsKept DEF BlockHash

LEMMA SLoadKept == SLoad => Kept
  BY PutsKept DEF SLoad

LEMMA PopKept == Pop => Kept
  BY PopsKept DEF Pop

LEMMA DupKept == Dup => Kept
  BY PutsKept DEF Dup

LEMMA JumpDestKept == JumpDest => Kept
  BY PopsKept DEF JumpDest

LEMMA SwapKept == Swap => Kept
  <1> SUFFICES ASSUME Swap PROVE Kept
    OBVIOUS
  <1>1. CASE gas < Metric.gas
    BY <1>1, FailKept DEF Swap, Pay
  <1>2. CASE ~(gas < Metric.gas)
    BY <1>2, TouchHarmless, HarmlessQuiet DEF Swap, Pay, Plain, Next1, Kept
  <1> QED
    BY <1>1, <1>2

LEMMA PushKept == Push => Kept
  <1> SUFFICES ASSUME Push PROVE Kept
    OBVIOUS
  <1>1. CASE gas < Metric.gas
    BY <1>1, FailKept DEF Push, Pay
  <1>2. CASE ~(gas < Metric.gas)
    <2>1. /\ frame' = frame
          /\ last' = [Touch(0) EXCEPT !.put = TRUE, !.codeEnd = pc + PushBytes(Op)]
      BY <1>2 DEF Push, Pay
    <2>2. Harmless(last')
      BY <2>1 DEF Touch, NoStep, Harmless
    <2> QED
      BY <2>1, <2>2, HarmlessQuiet DEF Kept
  <1> QED
    BY <1>1, <1>2

\* Jumps
LEMMA JumpToKeepsFrame == ASSUME NEW dest, JumpTo(dest) PROVE frame' = frame
  BY DEF JumpTo

LEMMA JumpKept == Jump => Kept
  BY FailKept, JumpToKeepsFrame, TouchHarmless, HarmlessQuiet DEF Jump, Kept

LEMMA JumpIKept == JumpI => Kept
  BY FailKept, JumpToKeepsFrame, TouchHarmless, HarmlessQuiet DEF JumpI, Plain, Next1, Kept

\* Memory
LEMMA GrowKept ==
    ASSUME NEW cost, NEW need, NEW slots, NEW offset, NEW size,
           gas < cost => Fail("out of gas"),
           ~(gas < cost) => /\ Grow(need)
                            /\ \/ last' = Access(slots, offset, size)
                               \/ last' = [Access(slots, offset, size) EXCEPT !.put = TRUE]
    PROVE  Kept
  <1>1. CASE gas < cost
    BY <1>1, FailKept
  <1>2. CASE ~(gas < cost)
    BY <1>2, AccessHarmless, HarmlessQuiet DEF Grow, Next1, Kept
  <1> QED
    BY <1>1, <1>2

LEMMA MLoadKept == MLoad => Kept
  BY GrowKept DEF MLoad, Pay

LEMMA MStoreKept == MStore => Kept
  BY GrowKept DEF MStore, Pay

LEMMA Sha3Kept == Sha3 => Kept
  BY GrowKept DEF Sha3, Pay

LEMMA CopiesKept == ASSUME NEW slots, NEW to, NEW size, Copies(slots, to, size) PROVE Kept
  BY GrowKept DEF Copies, Pay

LEMMA CopyKept == Copy => Kept
  BY FailKept, CopiesKept DEF Copy

LEMMA ReturnKept == Return => Kept
  BY FailKept, AccessHarmless, HarmlessQuiet DEF Return, Pay, Ends, Kept

LEMMA StopKept == Stop => Kept
  BY FailKept, TouchHarmless, HarmlessQuiet DEF Stop, Pay, Ends, Kept

\* What asks the host for a change is behind a look at the message's flag.
LEMMA LogKept == Log => Kept
  <1> SUFFICES ASSUME Log PROVE Kept
    OBVIOUS
  <1>1. CASE frame.static
    BY <1>1, FailKept DEF Log, Static, Violation
  <1>2. CASE ~frame.static
    BY <1>2, FailKept DEF Log, Static, Pay, Grow, Next1, Kept
  <1> QED
    BY <1>1, <1>2

LEMMA SStoreKept == SStore => Kept
  <1> SUFFICES ASSUME SStore PROVE Kept
    OBVIOUS
  <1>1. CASE frame.static
    BY <1>1, FailKept DEF SStore, Static, Violation
  <1>2. CASE ~frame.static
    <2>1. ASSUME NEW answer, Stored(answer) PROVE Kept
      BY <1>2, <2>1, Zenon DEF Stored, Throw, Plain, Next1, Kept
    <2>2. Fail("out of gas") \/ \E answer : Stored(answer)
      BY <1>2, Zenon DEF SStore, Static
    <2> QED
      BY <2>1, <2>2, FailKept, Zenon
  <1> QED
    BY <1>1, <1>2

LEMMA SelfDestructKept == SelfDestruct => Kept
  <1> SUFFICES ASSUME SelfDestruct PROVE Kept
    OBVIOUS
  <1>1. CASE frame.static
    <2>1. Violation
      BY <1>1 DEF SelfDestruct, Static, Touch, NoStep
    <2> QED
      BY <2>1, FailKept DEF Violation
  <1>2. CASE ~frame.static
    <2>1. (\E why : Fail(why)) \/ frame' = frame
      BY <1>2, Zenon DEF SelfDestruct, Static, Pay, Ends
    <2> QED
      BY <1>2, <2>1, FailKept DEF Kept
  <1> QED
    BY <1>1, <1>2

LEMMA CreateKept == Create => Kept
  <1> SUFFICES ASSUME Create PROVE Kept
    OBVIOUS
  <1>1. CASE frame.static
    BY <1>1, FailKept DEF Create, Static, Violation
  <1>2. CASE ~frame.static
    BY <1>2, FailKept DEF Create, Static, Kept
  <1> QED
    BY <1>1, <1>2

\* A call goes out with the flag of the frame, or with none at all.
LEMMA CallOutKept ==
    ASSUME NEW slots, NEW need, NEW exists, NEW self, NEW funds,
           CallOut(slots, need, exists, self, funds)
    PROVE  Kept
  <1> DEFINE step == [Touch(slots) EXCEPT !.put = TRUE, !.end = need]
  <1>1. Harmless(step)
    BY DEF Touch, NoStep, Harmless
  <1>2. CASE Fail("out of gas")
    BY <1>2, FailKept
  <1>3. CASE frame' = frame /\ last' = step
    BY <1>1, <1>3, HarmlessQuiet DEF Kept
  <1>4. ASSUME NEW given, frame' = frame,
               last' = [step EXCEPT !.host = "call", !.given = given,
                                    !.mayChange = ~NestedStatic]
        PROVE  Kept
    <2>1. last'.host = "call" /\ last'.mayChange = ~NestedStatic
      BY <1>4 DEF Touch, NoStep
    <2> QED
      BY <1>4, <2>1 DEF Quiet, Kept, NestedStatic, Static
  <1>5. \/ Fail("out of gas")
        \/ frame' = frame /\ last' = step
        \/ /\ frame' = frame
           /\ \E given : last' = [step EXCEPT !.host = "call", !.given = given,
                                             !.mayChange = ~NestedStatic]
    BY Zenon DEF CallOut
  <1> QED
    BY <1>2, <1>3, <1>4, <1>5, Zenon

LEMMA CallKept == Call => Kept
  BY CallOutKept, FailKept DEF Call, Violation

LEMMA BadKept == Bad => Kept
  BY FailKept DEF Bad

LEMMA BadStackKept == BadStack => Kept
  BY FailKept DEF BadStack

\* A static frame asks the host for no change and passes the ban on.
THEOREM StaticIsSafe == Spec => []StaticChangesNothing
  <1>1. Init => StaticChangesNothing
    BY DEF Init, NoStep, StaticChangesNothing
  <1>2. Step => Kept
    BY ComputeKept, ShiftKept, ExpKept, MessageDataKept, BlockDataKept, CounterKept, QueryKept,
       BlockHashKept, SLoadKept, PopKept, DupKept, SwapKept, PushKept, JumpKept, JumpIKept,
       JumpDestKept, MLoadKept, MStoreKept, Sha3Kept, CopyKept, ReturnKept, StopKept, LogKept,
       SStoreKept, SelfDestructKept, CreateKept, CallKept, BadKept, BadStackKept DEF Step
  <1>3. ASSUME StaticChangesNothing, [Next]_vars
        PROVE  StaticChangesNothing'
    <2>1. CASE InitEntry
      BY <1>3, <2>1 DEF InitEntry, StaticChangesNothing
    <2>2. CASE Step
      BY <1>2, <2>2 DEF Kept, Quiet, StaticChangesNothing
    <2>3. CASE UNCHANGED vars
      BY <1>3, <2>3 DEF vars, StaticChangesNothing
    <2> QED
      BY <1>3, <2>1, <2>2, <2>3 DEF Next
  <1> QED
    BY <1>1, <1>3, PTL DEF Spec
=============================================================================
