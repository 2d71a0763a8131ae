SPECIFICATION Spec
CONSTANTS
    payer = payer
    small = small
    full = full
    ghost = ghost
    None = None
    Nobody = Nobody
    Account <- Accounts
    Coded <- Contracts
    Sender = payer
    LastSlot = 1
    Val = {0, 1}
    Heir <- Heirs
    PreloadBelow = 2
    ReadAhead = 1
    DoubleSpend = FALSE
    Fee = 2
    Used = 1
    Amount = {0, 1}
    Balances <- Money
    Stores <- Slots
    MaxFrames = 3
    MaxSteps = 4
INVARIANT FailureChangesOnlySender
CHECK_DEADLOCK FALSE
