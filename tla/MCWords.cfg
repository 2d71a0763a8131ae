\* The computing opcodes on words of four 3 bit machine words.
CONSTANTS
    B = 3
    ByteBits = 3
    Operand <- SomeWords
    Third <- SomeThird
SPECIFICATION Spec
INVARIANTS
    CarriesRight
    ProductsRight
    DivisionsRight
CHECK_DEADLOCK FALSE
