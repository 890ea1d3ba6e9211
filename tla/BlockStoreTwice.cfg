\* Two calls of init in the life of a process.
CONSTANTS
    Zero = Zero
    NoKey = NoKey
    SecretSize = 6
    HashSize = 4
    Wallet <- MCWallet
    hash160 <- MChash160
    calculate_checksum <- MCcalculate_checksum
    Time = {1, 2}
    Junk = {j1, j2}
    MaxInits = 2
    MaxCrashes = 0
SPECIFICATION Spec
SYMMETRY Symmetry
INVARIANTS OneGenesis
\* A process that has made its calls of init does nothing more here.
CHECK_DEADLOCK FALSE
