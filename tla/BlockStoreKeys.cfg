\* What a restart reads back.
CONSTANTS
    Zero = Zero
    NoKey = NoKey
    SecretSize = 6
    HashSize = 4
    Wallet <- MCWallet
    hash160 <- MChash160
    calculate_checksum <- MCcalculate_checksum
    Time = {1, 2}
    Junk = {j1, j2}
    MaxInits = 1
    MaxCrashes = 1
SPECIFICATION Spec
SYMMETRY Symmetry
INVARIANTS KeyIsBlockHash
\* A process that has made its calls of init does nothing more here.
CHECK_DEADLOCK FALSE
