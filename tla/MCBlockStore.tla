---------------------------- MODULE MCBlockStore ----------------------------
(* Constants of the TLC runs of BlockStore. *)
EXTENDS WalletStore, TLC

\* Values of uninitialised memory are interchangeable.
Symmetry == Permutations(Junk)

\* The secrets of a large exponent, of 1, and of one with a zero in it.
MCWallet ==
    {Secret(<<255, 255, 255, 255, 255, 54>>), Secret(<<1>>), Secret(<<7, 0, 200, 200, 0>>)}

\* Stands for SHA256 and RIPEMD160: different for the wallets of the run, and
\* for one of them with zeroes in front.
MChash160(secret) == [i \in 1 .. HashSize |-> secret[SecretSize + 1 - i]]
MCcalculate_checksum(bytes, type) ==
    LET sum[i \in 0 .. Len(bytes)] ==
          IF i = 0 THEN type ELSE (31 * sum[i - 1] + bytes[i]) % 65536
    IN  <<sum[Len(bytes)] % 256, sum[Len(bytes)] \div 256, 0, 255>>
=============================================================================
