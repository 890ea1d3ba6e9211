---------------------------- MODULE WalletStore -----------------------------
(***************************************************************************)
(* The wallets of BlockStore with their keys: a wallet is its secret, the  *)
(* genesis block pays its address, and the file that KeyPair saves has the *)
(* address as its name and the private key as its text.                    *)
(***************************************************************************)
EXTENDS BlockStore, KeyCodec

\* Crypto::SecretKey, Crypto::Hash160 and the uint32_t of a checksum.
ASSUME WalletAssumption ==
    \A w \in Wallet :
        /\ w \in [1 .. SecretSize -> Byte]
        /\ hash160(w) \in [1 .. HashSize -> Byte]
        /\ calculate_checksum(w, account_private_key) \in [1 .. 4 -> Byte]
        /\ calculate_checksum(hash160(w), account_public_key) \in [1 .. 4 -> Byte]

\* The secret that KeyPair takes from an exponent, big-endian and without its
\* leading zeroes: GetByte(0) is its last byte, and first starts as zeroes.
Secret(exponent) == Reverse(exponent) \o Repeat(0, SecretSize - Len(exponent))

\* The name and the text of the file that KeyPair saves for a wallet.
FileName(w) == base58_encode(create_public_key(w))
FileText(w) == base58_encode(PrivateBytes(w))

\* The coins of a stored genesis block can be spent from the files: some saved
\* file's name parses as the address that the block pays, its text parses as
\* the secret of that address, and no assertion of the conversions failed when
\* it was written.
CoinsRecoverable ==
    \A x \in db :
        LET to == x.value.outputs[1].to
        IN  to \in Wallet \ unsaved =>
              \E w \in wallets :
                LET name == FileName(w)
                    text == FileText(w)
                IN  /\ name.fits
                    /\ public_key(name.text) =
                         [outcome |-> "key", type |-> account_public_key,
                          payload |-> hash160(to)]
                    /\ text.fits
                    /\ private_key(text.text) =
                         [outcome |-> "key", type |-> account_private_key,
                          payload |-> to]

=============================================================================
