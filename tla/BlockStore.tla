----------------------------- MODULE BlockStore -----------------------------
(***************************************************************************)
(* blockchain::init and the block_container behind it: the block database  *)
(* that survives the process, the parent -> child map built from it when a *)
(* process starts, and the genesis block with its wallet (Blockchain.cpp,  *)
(* block_container.cpp, and the parts of serialization.cpp and             *)
(* ChainTypes.cpp that they use).                                          *)
(*                                                                         *)
(* SHA256 is taken to be free of collisions: a hash is the sequence of     *)
(* values that were fed to it.  The process may crash between any two      *)
(* steps; what it has written stays, as the operating system keeps it.     *)
(***************************************************************************)
EXTENDS Integers, Sequences

CONSTANTS
    Zero,       \* the all-zero hash
    NoKey,      \* the all-zero public key
    Wallet,     \* key pairs that KeyPair may generate
    Time,       \* values of std::time
    Junk,       \* values of memory nobody initialised
    MaxInits,   \* bound: calls of init in the life of a process
    MaxCrashes  \* bound: crashes

ASSUME KeyAssumption == NoKey \notin Wallet
ASSUME BoundAssumption == MaxInits \in Nat /\ MaxCrashes \in Nat

VARIABLES
    db,       \* what rocksdb holds: keys and serialized blocks
    wallets,  \* wallets whose file holds their private key
    unsaved,  \* wallets in use whose file could not be written
    loaded,   \* container_ exists
    blocks,   \* block_container::blocks_, pairs of parent and child
    index,    \* block_container::index_
    pc,       \* where init stands
    key,      \* the KeyPair being made
    tx,       \* the coinbase of the block being made
    inits,    \* calls of init in this process
    crashes,  \* crashes so far
    again     \* history: some process has called init a second time

vars == <<db, wallets, unsaved, loaded, blocks, index, pc, key, tx, inits, crashes, again>>

----------------------------------------------------------------------------
(* Blocks.  A block in memory has padding, pad, between nonce_ and         *)
(* timestamp_, and a signature that nobody sets.                           *)

Coin == 123456789

\* The coinbase that init builds for wallet w, or for nobody.
Coinbase(w) ==
    LET amount == IF w = NoKey THEN 0 ELSE Coin
    IN  [inputs |-> <<amount>>, outputs |-> <<[amount |-> amount, to |-> w]>>]

\* What the hash of a block is computed from: the header with its padding,
\* then the transaction's lists one after the other, then the signature.
BlockHash(b) ==
    <<b.pad, b.time, b.prev>> \o b.inputs \o b.outputs \o <<b.sig>>

\* Mutant of serialize_block: the header is written as it lies in memory, and
\* read field by field.
serialize_block_Raw(b) ==
    [time |-> b.pad, prev |-> b.time, inputs |-> b.inputs,
     outputs |-> b.outputs, sig |-> b.sig]

\* serialize_block writes the fields one by one, so not the padding.
serialize_block(b) ==
    [time |-> b.time, prev |-> b.prev, inputs |-> b.inputs,
     outputs |-> b.outputs, sig |-> b.sig]

\* resize(n) followed by n calls of push_back.
Relisted(s, blank) == [i \in 1 .. Len(s) |-> blank] \o s

\* deserialize_block, with padding p in the new object.
deserialize_block(v, p) ==
    [pad |-> p, time |-> v.time, prev |-> v.prev,
     inputs |-> Relisted(v.inputs, 0),
     outputs |-> Relisted(v.outputs, [amount |-> 0, to |-> NoKey]),
     sig |-> v.sig]

----------------------------------------------------------------------------
(* blockchain::init.                                                       *)

\* init of an empty folder name returns false.
InitNoFolder ==
    /\ pc = "idle" /\ inits < MaxInits
    /\ inits' = inits + 1
    /\ UNCHANGED <<db, wallets, unsaved, loaded, blocks, index, pc, key, tx, crashes, again>>

InitFolder ==
    /\ pc = "idle" /\ inits < MaxInits
    /\ inits' = inits + 1
    /\ pc' = "load"
    /\ UNCHANGED <<db, wallets, unsaved, loaded, blocks, index, key, tx, crashes, again>>

\* Mutant of Scan: the iterator is never positioned on the first key.
Scan_Unpositioned(d) == {}

\* The parent -> child pairs of what the database holds.
Scan(d) == {<<deserialize_block(x.value, Zero).prev, x.key>> : x \in d}

\* load_blocks: the constructor of block_container, unless there is one.
\* init goes on either way.
load_blocks ==
    /\ pc = "load"
    /\ pc' = "check"
    /\ \/ /\ loaded
          /\ again' = TRUE
          /\ UNCHANGED <<loaded, blocks, index>>
       \/ /\ ~loaded
          /\ loaded' = TRUE
          /\ blocks' = Scan(db)
          /\ index' = <<>>
          /\ UNCHANGED again
    /\ UNCHANGED <<db, wallets, unsaved, key, tx, inits, crashes>>

InitReturns ==
    /\ pc = "check" /\ blocks # {}
    /\ pc' = "idle"
    /\ UNCHANGED <<db, wallets, unsaved, loaded, blocks, index, key, tx, inits, crashes, again>>

\* No block, and the answer is no: the coinbase pays nobody.
InitDeclines ==
    /\ pc = "check" /\ blocks = {}
    /\ pc' = "genesis"
    /\ tx' = Coinbase(NoKey)
    /\ UNCHANGED <<db, wallets, unsaved, loaded, blocks, index, key, inits, crashes, again>>

\* No block, and the answer is yes: KeyPair makes a new key and opens its file.
KeyPairMade ==
    /\ pc = "check" /\ blocks = {}
    /\ pc' = "keypair"
    /\ key' \in Wallet \ (wallets \cup unsaved)
    /\ UNCHANGED <<db, wallets, unsaved, loaded, blocks, index, tx, inits, crashes, again>>

\* Mutant of Saved: KeyPair does not write its file.
Saved_Not == UNCHANGED <<wallets, unsaved>>

\* The key is written when the file is closed.  Nothing looks at the state of
\* the stream: a file that could not be opened or written goes unnoticed.
Saved ==
    \/ wallets' = wallets \cup {key} /\ UNCHANGED unsaved
    \/ unsaved' = unsaved \cup {key} /\ UNCHANGED wallets

\* KeyPair returns, and the coinbase pays its public key.
KeyPairReturns ==
    /\ pc = "keypair"
    /\ pc' = "genesis"
    /\ Saved
    /\ tx' = Coinbase(key) /\ key' = NoKey
    /\ UNCHANGED <<db, loaded, blocks, index, inits, crashes, again>>

\* generate_genesis: it throws if index_ is not empty, which nothing makes it.
\* The status of Put is not looked at, so init returns true whether or not
\* the block was stored.
generate_genesis ==
    /\ pc = "genesis" /\ index = <<>>
    /\ pc' = "idle"
    /\ \/ UNCHANGED db
       \/ \E now \in Time, pad, sig \in Junk :
            LET b == [pad |-> pad, time |-> now, prev |-> Zero,
                      inputs |-> tx.inputs, outputs |-> tx.outputs, sig |-> sig]
            IN  db' = {x \in db : x.key # BlockHash(b)}
                        \cup {[key |-> BlockHash(b), value |-> serialize_block(b)]}
    /\ UNCHANGED <<wallets, unsaved, loaded, blocks, index, key, tx, inits, crashes, again>>

\* The process ends, between any two steps, and is started again.
Crash ==
    /\ crashes < MaxCrashes
    /\ crashes' = crashes + 1
    /\ loaded' = FALSE /\ blocks' = {} /\ index' = <<>>
    /\ pc' = "idle" /\ key' = NoKey /\ tx' = Coinbase(NoKey) /\ inits' = 0
    /\ UNCHANGED <<db, wallets, unsaved, again>>

Init ==
    /\ db = {} /\ wallets = {} /\ unsaved = {}
    /\ loaded = FALSE /\ blocks = {} /\ index = <<>>
    /\ pc = "idle" /\ key = NoKey /\ tx = Coinbase(NoKey) /\ inits = 0
    /\ crashes = 0 /\ again = FALSE

Next ==
    \/ InitNoFolder \/ InitFolder \/ load_blocks \/ InitReturns \/ InitDeclines
    \/ KeyPairMade \/ KeyPairReturns \/ generate_genesis \/ Crash

Spec == Init /\ [][Next]_vars

----------------------------------------------------------------------------
(* Properties.                                                             *)

TXs == {Coinbase(w) : w \in Wallet \cup {NoKey}}
Values == [time : Time, prev : {Zero}, inputs : {t.inputs : t \in TXs},
           outputs : {t.outputs : t \in TXs}, sig : Junk]

\* Type correctness of the store and of init's own state.
TypeOK ==
    /\ \A x \in db : x.value \in Values
    /\ wallets \subseteq Wallet /\ unsaved \subseteq Wallet
    /\ loaded \in BOOLEAN
    /\ \A x \in blocks : x[1] = Zero
    /\ index = <<>>
    /\ pc \in {"idle", "load", "check", "keypair", "genesis"}
    /\ key \in Wallet \cup {NoKey}
    /\ tx \in TXs
    /\ inits \in 0 .. MaxInits /\ crashes \in 0 .. MaxCrashes
    /\ again \in BOOLEAN

\* generate_genesis refuses to make a second genesis block.
OneGenesis ==
    \A x, y \in db : x.value.prev = Zero /\ y.value.prev = Zero => x = y

\* Through restarts and crashes at any point of init, failed writes included,
\* the database has at most one genesis block as long as each process calls
\* init once.
OneGenesisPerLoad == ~again => OneGenesis

\* What the proofs add: while a process that called init once decides about a
\* genesis block, its map is what the database holds, and the coinbase in its
\* hands pays a wallet whose file KeyPair has closed.
StoreInv ==
    /\ \A x \in db : x.value.prev = Zero
    /\ pc \in {"check", "keypair", "genesis"} /\ ~again => blocks = Scan(db)
    /\ pc \in {"keypair", "genesis"} => blocks = {}
    /\ tx.outputs[1].to \in wallets \cup unsaved \cup {NoKey}

\* Whatever a stored genesis pays, it pays to a wallet whose key was saved,
\* unless its file could not be written: a crash, also one while KeyPair is
\* making its file, never leaves the coins with a key that is lost.
PaysSavedWallet ==
    \A x \in db : x.value.outputs[1].to \in wallets \cup unsaved \cup {NoKey}

\* The key of every entry is the hash of the block its value holds.
KeyIsBlockHash ==
    \A x \in db : \E p \in Junk : x.key = BlockHash(deserialize_block(x.value, p))

=============================================================================
