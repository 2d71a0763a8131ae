\* Every opcode of every revision over a stack of 18 words, and all short
\* programs with jumps.
CONSTANTS
    Frame <- Frames
    StackLimit = 18
    MaxInt63 = 262143
    WordLimit = 16777216
    Result = {0, 40}
SPECIFICATION Spec
INVARIANTS
    TypeOK
    StackChecked
    CodeChecked
    MemoryPaid
    StaticChangesNothing
PROPERTIES
    GasFalls
    CallerKeeps64th
CHECK_DEADLOCK FALSE
