-------------------------- MODULE BlockStoreProofs --------------------------
(***************************************************************************)
(* Proofs about BlockStore.  A second genesis block could only come from a *)
(* process whose map of blocks is empty while the database is not.  The    *)
(* inductive invariant StoreInv says that the two agree whenever a process *)
(* that called init once looks at its map, whatever crashed before it.     *)
(***************************************************************************)
EXTENDS WalletStore, KeyCodecProofs

\* Every coinbase has one output, to the wallet it was made for.
LEMMA CoinbasePays ==
    ASSUME NEW w
    PROVE  Coinbase(w).outputs[1].to = w
  BY DEF Coinbase

\* The map of a database is empty only if the database is.
LEMMA ScanEmpty ==
    ASSUME NEW d, Scan(d) = {}
    PROVE  d = {}
  BY DEF Scan

\* What generate_genesis leaves in a database d: d, or d without the key of
\* the new block and the new block.
LEMMA Put ==
    ASSUME generate_genesis
    PROVE  \/ db' = db
           \/ \E y : /\ y.value.prev = Zero
                     /\ y.value.outputs = tx.outputs
                     /\ y \in db' /\ \A x \in db' : x = y \/ x \in db
<1>1. CASE db' = db
  BY <1>1
<1>2. CASE \E now \in Time, pad, sig \in Junk :
            LET b == [pad |-> pad, time |-> now, prev |-> Zero,
                      inputs |-> tx.inputs, outputs |-> tx.outputs, sig |-> sig]
            IN  db' = {x \in db : x.key # BlockHash(b)}
                        \cup {[key |-> BlockHash(b), value |-> serialize_block(b)]}
  <2>1. PICK now \in Time, pad \in Junk, sig \in Junk :
            LET b == [pad |-> pad, time |-> now, prev |-> Zero,
                      inputs |-> tx.inputs, outputs |-> tx.outputs, sig |-> sig]
            IN  db' = {x \in db : x.key # BlockHash(b)}
                        \cup {[key |-> BlockHash(b), value |-> serialize_block(b)]}
    BY <1>2
  <2> DEFINE b == [pad |-> pad, time |-> now, prev |-> Zero,
                   inputs |-> tx.inputs, outputs |-> tx.outputs, sig |-> sig]
             y == [key |-> BlockHash(b), value |-> serialize_block(b)]
  <2>2. y.value.prev = Zero /\ y.value.outputs = tx.outputs
    BY DEF serialize_block
  <2>3. y \in db' /\ \A x \in db' : x = y \/ x \in db
    BY <2>1
  <2> HIDE DEF y
  <2> QED
    BY <2>2, <2>3
<1> QED
  BY <1>1, <1>2 DEF generate_genesis

Inv == StoreInv /\ OneGenesisPerLoad /\ PaysSavedWallet

\* The constructor and an empty store.
LEMMA InvInit == Init => Inv
  BY CoinbasePays DEF Init, Inv, StoreInv, OneGenesisPerLoad, OneGenesis,
     PaysSavedWallet

\* Every step keeps the invariant.
LEMMA InvStep == Inv /\ [Next]_vars => Inv'
<1> SUFFICES ASSUME Inv, [Next]_vars PROVE Inv'
  OBVIOUS
<1> USE DEF Inv
<1>1. CASE InitNoFolder \/ InitFolder \/ InitReturns \/ UNCHANGED vars
  BY <1>1 DEF InitNoFolder, InitFolder, InitReturns, vars, StoreInv,
     OneGenesisPerLoad, OneGenesis, PaysSavedWallet, Scan
<1>2. CASE load_blocks
  BY <1>2 DEF load_blocks, StoreInv, OneGenesisPerLoad, OneGenesis,
     PaysSavedWallet, Scan
<1>3. CASE InitDeclines
  BY <1>3, CoinbasePays DEF InitDeclines, StoreInv, OneGenesisPerLoad, OneGenesis,
     PaysSavedWallet, Scan
<1>4. CASE KeyPairMade
  BY <1>4 DEF KeyPairMade, StoreInv, OneGenesisPerLoad, OneGenesis, PaysSavedWallet, Scan
<1>5. CASE KeyPairReturns
  <2>1. /\ wallets \cup unsaved \subseteq wallets' \cup unsaved'
        /\ tx'.outputs[1].to \in wallets' \cup unsaved'
    BY <1>5, CoinbasePays DEF KeyPairReturns, Saved
  <2> QED
    BY <1>5, <2>1 DEF KeyPairReturns, StoreInv, OneGenesisPerLoad, OneGenesis,
       PaysSavedWallet, Scan
\* The one step that writes: in a process that called init once the database
\* is empty before it.
<1>6. CASE generate_genesis
  <2>1. pc = "genesis" /\ pc' = "idle" /\ UNCHANGED <<wallets, unsaved, tx, again>>
    BY <1>6 DEF generate_genesis
  <2>2. ~again => db = {}
    BY <2>1, ScanEmpty DEF StoreInv
  <2>3. CASE db' = db
    BY <2>1, <2>3 DEF StoreInv, OneGenesisPerLoad, OneGenesis, PaysSavedWallet
  <2>4. CASE \E y : /\ y.value.prev = Zero
                    /\ y.value.outputs = tx.outputs
                    /\ y \in db' /\ \A x \in db' : x = y \/ x \in db
    <3>1. PICK y : /\ y.value.prev = Zero
                   /\ y.value.outputs = tx.outputs
                   /\ y \in db' /\ \A x \in db' : x = y \/ x \in db
      BY <2>4
    <3>2. StoreInv'
      BY <2>1, <3>1 DEF StoreInv
    <3>3. OneGenesisPerLoad'
      BY <2>1, <2>2, <3>1 DEF OneGenesisPerLoad, OneGenesis
    <3>4. PaysSavedWallet'
      BY <2>1, <3>1 DEF PaysSavedWallet, StoreInv
    <3> QED
      BY <3>2, <3>3, <3>4
  <2> QED
    BY <1>6, <2>3, <2>4, Put
<1>7. CASE Crash
  BY <1>7, CoinbasePays DEF Crash, StoreInv, OneGenesisPerLoad, OneGenesis,
     PaysSavedWallet
<1> QED
  BY <1>1, <1>2, <1>3, <1>4, <1>5, <1>6, <1>7 DEF Next

\* However often processes crash and restart, and wherever in init they do,
\* there is at most one genesis block unless a process calls init twice.
THEOREM GenesisOnce == Spec => []OneGenesisPerLoad
  BY InvInit, InvStep, PTL DEF Spec, Inv

\* A stored genesis block never pays a wallet whose file KeyPair has not closed:
\* unless the file could not be written, the key is saved.
THEOREM GenesisPaysSaved == Spec => []PaysSavedWallet
  BY InvInit, InvStep, PTL DEF Spec, Inv

\* The transactions of init are coinbases.
LEMMA CoinbaseTypes ==
    Coinbase(NoKey) \in TXs /\ \A w \in Wallet : Coinbase(w) \in TXs
  BY DEF TXs

\* A stored value that is read back is a child of the all-zero hash.
LEMMA ScanTypes ==
    ASSUME NEW d, \A x \in d : x.value \in Values
    PROVE  \A y \in Scan(d) : y[1] = Zero
  BY DEF Scan, deserialize_block, Values

\* generate_genesis stores a block made of its transaction.
LEMMA PutTypes ==
    ASSUME TypeOK, generate_genesis
    PROVE  \A x \in db' : x.value \in Values
<1>1. CASE db' = db
  BY <1>1 DEF TypeOK
<1>2. CASE db' # db
  <2>1. PICK now \in Time, pad \in Junk, sig \in Junk :
            LET b == [pad |-> pad, time |-> now, prev |-> Zero,
                      inputs |-> tx.inputs, outputs |-> tx.outputs, sig |-> sig]
            IN  db' = {x \in db : x.key # BlockHash(b)}
                        \cup {[key |-> BlockHash(b), value |-> serialize_block(b)]}
    BY <1>2 DEF generate_genesis
  <2> DEFINE b == [pad |-> pad, time |-> now, prev |-> Zero,
                   inputs |-> tx.inputs, outputs |-> tx.outputs, sig |-> sig]
  <2>2. serialize_block(b) \in Values
    BY DEF serialize_block, Values, TypeOK
  <2> HIDE DEF b
  <2>3. \A x \in db' : x \in db \/ x.value = serialize_block(b)
    BY <2>1 DEF b
  <2> QED
    BY <2>2, <2>3 DEF TypeOK
<1> QED
  BY <1>1, <1>2

\* TypeOK is not inductive: KeyPair closes the file of a key that is one.
KeyInv == pc = "keypair" => key \in Wallet

TypeInv == TypeOK /\ KeyInv

\* The first state is well typed.
LEMMA TypeInit == Init => TypeInv
<1> SUFFICES ASSUME Init PROVE TypeInv
  OBVIOUS
<1>1. tx \in TXs
  BY CoinbaseTypes DEF Init
<1>2. inits \in 0 .. MaxInits /\ crashes \in 0 .. MaxCrashes
  BY BoundAssumption DEF Init
<1>3. /\ \A x \in db : x.value \in Values
      /\ wallets \subseteq Wallet /\ unsaved \subseteq Wallet
      /\ loaded \in BOOLEAN /\ again \in BOOLEAN
      /\ \A x \in blocks : x[1] = Zero
      /\ index = <<>> /\ key \in Wallet \cup {NoKey}
      /\ pc \in {"idle", "load", "check", "keypair", "genesis"}
  BY DEF Init
<1> QED
  BY <1>1, <1>2, <1>3 DEF TypeInv, TypeOK, KeyInv, Init

\* Every step keeps the types.
LEMMA TypeStep == TypeInv /\ [Next]_vars => TypeInv'
<1> SUFFICES ASSUME TypeInv, [Next]_vars PROVE TypeInv'
  OBVIOUS
<1> USE BoundAssumption DEF TypeInv, TypeOK, KeyInv
<1>1. CASE InitNoFolder \/ InitFolder \/ InitReturns \/ UNCHANGED vars
  BY <1>1 DEF InitNoFolder, InitFolder, InitReturns, vars
<1>2. CASE load_blocks
  BY <1>2, ScanTypes DEF load_blocks
<1>3. CASE InitDeclines \/ KeyPairMade \/ KeyPairReturns
  <2>1. tx' \in TXs
    BY <1>3, CoinbaseTypes DEF InitDeclines, KeyPairMade, KeyPairReturns
  <2>2. /\ wallets' \subseteq Wallet /\ unsaved' \subseteq Wallet
        /\ key' \in Wallet \cup {NoKey} /\ (pc' = "keypair" => key' \in Wallet)
        /\ pc' \in {"idle", "load", "check", "keypair", "genesis"}
    BY <1>3 DEF InitDeclines, KeyPairMade, KeyPairReturns, Saved
  <2>3. UNCHANGED <<db, loaded, blocks, index, inits, crashes, again>>
    BY <1>3 DEF InitDeclines, KeyPairMade, KeyPairReturns
  <2> QED
    BY <2>1, <2>2, <2>3
<1>4. CASE generate_genesis
  BY <1>4, PutTypes DEF generate_genesis
<1>5. CASE Crash
  <2>1. tx' \in TXs
    BY <1>5, CoinbaseTypes DEF Crash
  <2>2. inits' \in 0 .. MaxInits /\ crashes' \in 0 .. MaxCrashes
    BY <1>5 DEF Crash
  <2>3. /\ loaded' \in BOOLEAN /\ blocks' = {} /\ index' = <<>>
        /\ pc' = "idle" /\ key' = NoKey
        /\ UNCHANGED <<db, wallets, unsaved, again>>
    BY <1>5 DEF Crash
  <2> QED
    BY <2>1, <2>2, <2>3
<1> QED
  BY <1>1, <1>2, <1>3, <1>4, <1>5 DEF Next

\* For every set of wallets and times and all numbers of crashes the store is
\* well typed; what a restart reads back is what generate_genesis can write,
\* and index_ stays empty.
THEOREM TypeCorrect == Spec => []TypeOK
  BY TypeInit, TypeStep, PTL DEF Spec, TypeInv

----------------------------------------------------------------------------
(* Coins and the files of their keys.                                      *)

\* The name of a wallet's file is its address and its text is its secret.
Recovers(w) ==
    /\ FileName(w).fits
    /\ public_key(FileName(w).text) =
         [outcome |-> "key", type |-> account_public_key, payload |-> hash160(w)]
    /\ FileText(w).fits
    /\ private_key(FileText(w).text) =
         [outcome |-> "key", type |-> account_private_key, payload |-> w]

LEMMA FilesParse ==
    ASSUME NEW w \in Wallet
    PROVE  Recovers(w)
<1>1. /\ w \in [1 .. SecretSize -> Byte]
      /\ hash160(w) \in [1 .. HashSize -> Byte]
      /\ calculate_checksum(w, account_private_key) \in [1 .. 4 -> Byte]
      /\ calculate_checksum(hash160(w), account_public_key) \in [1 .. 4 -> Byte]
  BY WalletAssumption
<1> DEFINE name == base58_encode(create_public_key(w))
           text == base58_encode(PrivateBytes(w))
<1>2. name.fits = TRUE /\ public_key(name.text) = [outcome |-> "key", type |-> account_public_key,
                                                   payload |-> hash160(w)]
  BY <1>1, PublicKeyRoundTrip
<1>3. text.fits = TRUE /\ private_key(text.text) = [outcome |-> "key", type |-> account_private_key,
                                                    payload |-> w]
  BY <1>1, PrivateKeyRoundTrip
<1> QED
  BY ONLY <1>2, <1>3, Zenon DEF Recovers, FileName, FileText

\* A wallet that is paid and whose file was written is among the saved ones.
LEMMA PaidIsRecovered == PaysSavedWallet => CoinsRecoverable
<1> SUFFICES ASSUME PaysSavedWallet, NEW x \in db,
                    x.value.outputs[1].to \in Wallet \ unsaved
             PROVE  \E w \in wallets :
                      LET name == FileName(w)
                          text == FileText(w)
                      IN  /\ name.fits
                          /\ public_key(name.text) =
                               [outcome |-> "key", type |-> account_public_key,
                                payload |-> hash160(x.value.outputs[1].to)]
                          /\ text.fits
                          /\ private_key(text.text) =
                               [outcome |-> "key", type |-> account_private_key,
                                payload |-> x.value.outputs[1].to]
  BY Zenon DEF CoinsRecoverable
<1> DEFINE to == x.value.outputs[1].to
<1>1. to \in wallets
  BY KeyAssumption DEF PaysSavedWallet
<1>2. Recovers(to)
  BY FilesParse
<1> HIDE DEF to
<1> WITNESS to \in wallets
<1> QED
  BY ONLY <1>2, Zenon DEF Recovers, to

\* For all secrets, whatever hash160 and the checksums are, all sizes of keys,
\* times and numbers of crashes: what a stored genesis block pays can be spent
\* with a file that KeyPair saved, unless its file could not be written.
THEOREM CoinsSafe == Spec => []CoinsRecoverable
  BY GenesisPaysSaved, PaidIsRecovered, PTL

=============================================================================
