# Verification of iotchain

TLA+ models of the node program of this repository, checked with TLC on small
instances and, for the theorems, with TLAPS for every instance. Paths are
relative to the repository's root; `PROJECT.json` maps every definition to the
lines it models and lists runs, mutants, findings, hazards and theorems.

## The system

A node is one process: a TCP server and clients (asio), peers that exchange
framed messages and relay them, a block store (rocksdb), key pairs, and a
virtual machine that executes the smart contract a message carries.

| Component | State | Operations | Hard behaviour | What makes it correct |
|---|---|---|---|---|
| peer (`p2p-network/src/peer.cpp`) | `sending_`, `send_buffer_`, `recv_buffer_`, the strand | `start`, `send`, `do_read`, `do_write` and their completion handlers | sends from other threads and handlers during a write; partial transfers; errors | the stream is the sent packets; no queued message is forgotten; every message arrives or the connection is lost |
| framing (`protocol.cpp`, `message.cpp`) | `receive_buffer_`, `recv_total_size_`, `send_queue_` | `receive`, `send`, `get_packet`, `hop` | a stream cut anywhere; `size_t` and `uint8_t` wrap | no byte skipped or repeated; messages whole, in order, once; `receive` returns |
| registry (`peer_list.cpp`) | `list_` of `weak_ptr`, `mutex_` | `add_peer`, `remove_peer`, `broadcast` | peers end in any thread, also under the mutex | a live peer is listed once; a relay reaches the others once; `broadcast` returns |
| server, client (`server*.h`, `client*.h`) | `connections_`, `max_connections_` | accept, connect, session end | counting across threads | the count is exact and limited |
| relaying (`peer.cpp`, `peer_list.cpp`, between processes) | the connections, `ttl_` of each copy | the message handler and `broadcast` | cycles, double connections, copies without identity; a connection lost while copies spread | a flood ends; it reaches everybody within its ttl; nothing waits for ever |
| block store (`iotchain/src/Core`) | database, `blocks_`, `index_` | `init`, `load_blocks`, `generate_genesis` | crash between wallet, block and restart; ignored write errors | one genesis block; it pays a saved wallet; keys are hashes |
| encoding, hashes (`serialization.cpp`, `ChainTypes.cpp`) | none | (de)serialize, `BlockHash`, `TXHash` | padding, lists rebuilt on reading | what is read is what was written |
| virtual machine (`iotchain/src/VM`) | registers, 16 MB stack, bytecode | `Execute` | frames and data share the stack; 64/32-bit truncation; no bounds | calls return home; programs without jumps backward end |
| message handlers (`iotchain/src/P2P`) | table of handlers | `OnNewTransaction`, `OnNewBlock` | run in the peer's strand; a throw ends the connection | only verified transactions go on; a rejected sender is let go |
| keys (`iotchain/src/Key`, `base58.cpp`) | two global contexts | sign, verify, encode, parse, `KeyPair` | a crash while the wallet's file is made; buffers sized by rounded logarithms; leading zeroes | coins that the chain pays can be spent from the saved file |

Peers call the framing, the registry and the message handlers in their strand;
the registry calls `peer::send` of other peers; destructors call back into the
server and the registry; the programs (`iotchain_tests/sunum.cpp`,
`p2p_test.cpp`) supply the threads.

## Modules

**`PeerLink`** is one connection: two `peer` objects with their `protocol`, and
the byte stream between them. `strand` holds the closures of `peer::send` that
wait, `wr` the write side (`send_queue_`, `sending_`, the `async_write` in
flight and how much of `send_buffer_` the kernel took), `rd` the read side (how
far `recv_buffer_` is parsed, `receive_buffer_`, `recv_total_size_`).
`Send`/`RunSend` are `peer::send` and its closure; `Transmit`, `WriteDone`,
`WriteFail` the write; `ReadSome`, `ReadFail` the completion of a read. The loop
of `protocol::receive` takes one step per iteration (`Accumulate`, `TakeSize`,
`TooBig`, `HandleEmpty`, `HandleBody`), so that its end is a property.
Messages are real packets: a six-byte little-endian header, then the body.
The copy that runs past `receive_buffer_` gives bytes `Junk`. The size limits of
the code (10240 and 4096) are constants.

**`MessageChannel`** is what a connection promises: a FIFO channel in each
direction that ages messages by one hop and answers each PING with one PONG.
`PeerLink!ImplementsChannel` says that `PeerLink` implements it; both have the
variables `sent` and `handled`, so the mapping is the identity on these. Its
ends may each take a message in one step, because both ends of a connection can
be in one process, which relays to both at once.

**`Network`** composes processes by such channels: `home` says in which process
each end of each connection lives (any graph, with cycles, double connections
and loops), `Class` which peer class a process runs (`peer`, or `p2p_node` with
its handlers). `Handle` is the message handler of `peer::do_read` as a whole:
`hop`, then a PONG, or `process_msg`, then `broadcast` to the other peers of the
process. A message that is not accepted, or whose handler throws, ends the
reading (`reading`), the last reference goes (`Destroy`), the socket closes and
the far end's read fails (`ReadFail`). `Break` is a loss of the connection.
`broadcast` is one step, which `RelayReaches` of `PeerRegistry` justifies with
one thread; messages have no body (finding 1). A message has no identity in the
code: `id` and `route` are history, as is `calls`. `UsesChannels` closes the
composition: every connection of `Network` behaves as a `MessageChannel`, the
specification that `PeerLink` is shown to implement.

**`PeerRegistry`** is all the peers of a process. A peer's life is its `phase`;
`reading`, `closures` and the records in `th` are the `shared_ptr`s to it, and
the thread that drops the last one (`Release`) runs the destructor:
`SessionEnd`, then `RemoveLock`, one `RemoveVisit` per entry of `remove_if`, and
`RemoveUnlock`. `broadcast` is `CastLock`, then per entry `CastVisit` (lock the
`weak_ptr`, send) and `CastDrop` (the temporary goes), then `CastUnlock`. A
pending send and the write it causes are one reference here: what they do to the
bytes is `PeerLink`'s subject. A mutex locked twice by one thread blocks (glibc,
the CMake build; other libraries may throw instead). The temporary of the
predicate in `remove_peer` is not split: it could only be a last reference if
another thread dropped one meanwhile, and a thread other than the io thread
never gets past `RemoveLock`, since it only destroys peers inside `broadcast`.
Identifiers (`uuid`) are taken to be distinct.

**`BlockStore`** is `blockchain::init` and the container: `InitFolder`,
`load_blocks`, then `InitReturns`, `InitDeclines` or, for a wallet,
`KeyPairMade` (the key exists, its file is opened) and `KeyPairReturns` (the
file is closed; that it could not be written goes unnoticed and puts the wallet
into `unsaved`), and `generate_genesis`, whose `Put` may silently fail. `Crash`
ends the process between any two steps. A block keeps the fields that the
properties tell apart, among them the padding that is hashed but not stored.
Hashes are free of collisions. A process crash is modelled, a loss of power
(unsynced writes) is not.

**`KeyCodec`** is pure: `base58_encode` and `base58_decode` with their buffer
sizes and assertions, spaces and characters that are none, and the texts of
private and public keys with the constructors that parse them. The lengths of
secrets and hashes (32 and 20 bytes) and the hash functions are parameters.
**`WalletStore`** puts the two together: a wallet is its secret, and `CoinsRecoverable` relates
what the database pays to what the files hold.

**`VirtualMachine`** executes decoded instructions at their byte offsets. One
action per kind of opcode; `Binary`, `Unary`, `Holds`, `Exp` are the arithmetic
at the spans `WordSpan`, `AddrSpan`, `IntSpan` (2^64, 2^32, 2^32 in the code; the
assumption `8 * AddrSpan <= WordSpan` keeps the truncation in `Stout` as it is).
`ExpStep` is one level of the recursion of `MCLVirtualMachine::Exp`, `Exp` the
recursion. `Programs` are maps from offsets to well-formed instructions that end
below `AddrSpan`: bytecode comes in the body of a message, of at most 10240
bytes. `frames` and `tidy` are history: the calls in progress, and whether the program
has kept off its callers' frames. An access outside bytecode or stack ends in
mode `stray`, about which nothing is claimed, and so does a jump into the middle
of an instruction or a misaligned access to the stack, which the decoded form
does not follow; a division trap ends in `killed`. Programs whose source
operands name `IP` or a register above `BP` are left out.

The `MC` modules hold the constants of the runs.

## Runs

| Run | Instance | Shows |
|---|---|---|
| `link_headers` | a message each way, PING or a ttl-0 message, and their PONGs; transfers whole or cut at 4 bytes; fairness | order, refinement of `MessageChannel`, termination of `receive`, delivery |
| `link_bodies` | bodies of 1, 6, 8, 9 and 13 bytes, limit 12 | the write side and the window for all traffic |
| `link_body_order` | one body of 9 bytes | violated: see findings |
| `registry_single` | two inbound and one outbound peer, limit 1, one broadcast, deadlock checked | registry, count, relay, no self-lock, lost peers go |
| `registry_threads` | the same peers without a limit, a main thread, two broadcasts | registry, count and relay with two threads |
| `registry_deadlock`, `registry_null_cast` | one peer, one broadcast of main | violated: see findings |
| `store_crash` | the secrets of a large exponent, of 1, and of one with zeroes inside, one with an address that starts with zeroes; two times, two junk values, three crashes, two calls of `init` | one genesis per load, saved wallet, coins recoverable from the files |
| `store_twice`, `store_keys` | two calls of `init`; one restart | violated: see findings |
| `vm_programs` | about 8000 programs: every main part of three and subroutine of two instructions over two menus of six, and programs for loops, endless recursion, arithmetic, system calls and wild accesses; a stack of six words | frames, returns, progress and termination, EXP |
| `network` | three connections in six topologies (a cycle, a line, a line with the `p2p_node` in it, a star, a double connection, a process connected to itself); two events, each a call or a lost connection; a PING with ttl 2 and a transaction with ttl 0; ttl of 3 values; fairness | ttl bounds every flood, floods are exact, channels are used as promised, nothing waits on a connection that stands |

*Bounds.* Six-byte headers with cuts at 4 bytes put a cut inside a header, at
its end and across two messages; two messages are needed for one to wait behind
a write: a message and the PONG that answers the other end's. Body sizes are those at which
`receive` differs: below a header, equal to it, above it, equal to and above
the limit. Three peers give a broadcast an origin, a target and one that goes
meanwhile; two broadcasts let one meet what the other left. Two crashes hit the
two writes of one `init`, the third a later one. A stack of six words holds two
frames and data, and overflows on a third. Three connections
are the smallest cycle; a ttl of three values lets the wrapped ttl 0 cross three
connections and go once around it; two calls meet on the way, and one lost
connection can take any part of a flood with it. The wallets' secrets, six
bytes long here, fill the buffers of base58, and the type 0 of an address and the zeroes behind it take
the path of leading zeroes. `MaxMsgs`, `MaxCasts`, `MaxInits`, `MaxCrashes` and
`MaxEvents` are the only bounds on counters.

*Deadlock* is checked where the system may not stop (`registry_single`,
`vm_programs`); elsewhere a quiet connection, a finished process or, in the
two-thread runs, the self-lock of the finding ends a behaviour.

*Fairness.* `PeerLink`: asio completes operations and runs ready handlers, so
weak fairness of every handler step; nothing is assumed of callers, of `Break`
or of the results of `process_msg`. `PeerRegistry`: a thread that can go on does
(weak fairness of handlers, broadcasts and destructors), and the io thread takes
ready handlers in the order in which they became ready, so a completed read or
write is not passed over for ever (strong fairness of `ReadError` and
`Written`, each of which is disabled while another handler runs).
`VirtualMachine`: `Execute` is a plain loop. `Network`: a message that arrived
is handled, a failed read is reported, a peer without a pending read goes once
its writes have ended (messages without a body fit the buffers of a socket, so
a write never waits for the far end to read); each by weak fairness per end,
and again nothing of callers or of losses.

## Findings

1. **A body arrives 6 bytes short** (`link_body_order`): `receive` waits for
   `size_` bytes in all, the sender means `size_` bytes after the header. A
   body of exactly 6 bytes makes `receive` loop for ever.
2. **`broadcast` may lock itself out** (`registry_deadlock`): the destructor of
   a peer runs under the mutex that it locks. With one thread it cannot happen
   (`NoSelfLock` in `registry_single`).
3. **A broadcast by the program reaches nobody** (`registry_null_cast`).
4. **Two genesis blocks** (`store_twice`): the guard reads an index that nothing
   fills.
5. **Keys are not the hashes of what is read back** (`store_keys`): reading
   doubles the lists, and the hash covers padding.

## Proofs

`PeerLinkProofs`, for all messages, limits, cuts and bounds:

* `TypeCorrect`. `TypeOK` is not inductive alone: that a parsed header is made
  of bytes needs `ReadInv` (parsing stays within what was read, which stays
  within what was written; a body's size is awaited only behind a header).
* `WriterNeverForgets`: from `WriteInv`, which ties `sending_`, the write in
  flight and the queue together; `sending_` may outlive the write only when the
  connection is gone.
* `WriterKeepsPackets`: `Wire`, the stream completed by the rest of
  `send_buffer_`, is the packets back to back. `Transmit` leaves it unchanged,
  taking a packet appends one (`TakeOK`), which is only right because
  `WriteInv` says the buffer has been flushed.
* `ReaderKeepsPlace`: the window property is preserved by every iteration
  because `Remaining` never exceeds what was read (`RemainingBounds`), wrap
  included, and by the growth of the stream (`StreamGrows`).
* `HeaderTrafficInOrder`, assuming `HeaderOnly`: `DeliveryInv` places the k-th
  packet at `6(k - 1)`; with the two theorems above, a full buffer is the next
  packet of the other end (`NextPacket`). Finding 1 is why the assumption is
  needed.

* `LinkIsChannel`, under the same assumption: the two peers implement
  `MessageChannel`. `LinkStep` shows for every action of `PeerLink` that it puts
  a message into the channel, takes the next one out (`HandleEmpty`, where
  `NextPacket` says which message that is) or leaves the channel alone;
  `StrandInv` is needed because what waits in the strand must be a message of
  the channel before it is sent.

`NetworkProofs`, for every graph of processes and connections, every mix of peer
classes, all messages, losses and bounds:

* `TypeCorrect`, and `FloodsEnd`: no copy crosses more connections than its ttl
  allows. `TtlBounds` is not inductive alone: a copy that counts right could be
  relayed with no hop left. `NetInv` adds that every message on a connection is
  `Live`, which a hop keeps exactly when ttl is left (`HopRight`, by `Modulo`,
  the wrap included), and that calls are only added to (`CallsGrow`).
* `ChannelsUsed`: every connection is used as a `MessageChannel`. A step of the
  network is a `Put` of a connection on which nothing is handled (`PutStep`) and
  a `Get` of the one where a message is (`GetStep`), even when both ends are in
  one process and the step relays to both. `KindInv` says which types travel.
  With `LinkIsChannel` the two models meet in one specification.

`FloodProofs`, for the same networks: `FloodsExact`. The inductive invariant
`FloodInv` was model-checked first. The code remembers nothing, so that no way
is taken twice is a fact about all connections together: what an end sends is a
caller's message or was handled at another end of its process (`OriginInv`),
what is handled is what the far end sent (`PairInv`), so a second copy on a way
would need a second copy one connection earlier, and `UniqueInv` is inductive
only together with these two. That no way is left out is an induction along it
(`AllWalks`): the caller has sent (`CallInv`); what was sent is handled when
nothing is on its way; what was handled by an end that still reads has been
relayed on every connection that stands (`RelayedInv`, which needs `UpInv`: a
connection stands only while both of its peers exist); and ttl lasts
(`TtlLeft`).

`PeerRegistryProofs`, for all sets of peers and threads, limits and numbers of
broadcasts:

* `TypeCorrect`, `CountExact`, `OneEntry`, `RelayComplete`. The invariant ties
  the references to the phases (`RefInv`: what a
  `shared_ptr` points to is live), each destructor to its thread (`DtorInv`), the mutex to the loop
  that owns it (`MutexInv`), and says what the two loops under the mutex have
  done so far: between `dst` and `pos` of `remove_if` there is only what goes
  (`ScanInv`), and a broadcast has sent once to what it has passed (`RelayInv`).
* `IoFree`: the io thread never waits for the mutex it holds, because in
  `broadcast` the closure it has just made, or its own `self`, keeps every peer
  that it lets go of (`IoInv`). `OneThreadFree` follows: `NoSelfLock` for
  programs without another thread. With one it is false (finding 2).

`BlockStoreProofs`, for all sets of wallets, times and junk and all numbers of
crashes: `TypeCorrect` (with `KeyInv`, the keys of the database), `GenesisOnce`
and `GenesisPaysSaved`, from `StoreInv` (while a process that called `init` once
decides, its map is what the database holds, and its coinbase pays a wallet
whose file is closed). `CoinsSafe` follows from `GenesisPaysSaved` and the next
module: the wallet that a genesis block pays is a saved one, and what its file
says is parsed as it was written.

`KeyCodecProofs`, for all sequences of bytes, sizes of secrets and hashes, and
whatever `hash160` and the checksums are (`SizeAssumption` and
`WalletAssumption` only say that they are bytes, a checksum four of them, and
sizes numbers):

* `Base58RoundTrip`: `base58_decode` undoes `base58_encode`, and no assertion of
  either fails. `Number` is what digits stand for. One pass of the inner loop
  multiplies and adds (`ScaledRight`: `Columns` adds up the passes, digit by
  digit, with their carries), if there is room; and since the number only grows
  on the way, there is room if there is for the result (`ConvertRight`). That
  the buffers of the rounded logarithms have it, for every length, is
  `EncodedRoom`, from 58^5 >= 2^29 and 8 / 1.38 < 29 / 5, and `DecodedRoom`,
  from 58^22 <= 2^129 and 129 / 22 < 8 * 0.733 (`Logarithms`). Both conversions
  keep the number, and without leading zeroes digits are determined by it
  (`SameDigits`); leading zeroes are counted one for one (`TakenApart`). The
  theorem is about the model's integers: a text whose length overflows the `int`
  of `size` is beyond it.
* `PrivateKeyRoundTrip` and `PublicKeyRoundTrip`: what is written as a key is
  parsed as that key, type and checksum accepted, and fits its array.

The recursive functions in these proofs are shown to exist by `Recursion`
(functions on an initial part of the naturals, one for each length, that agree
with each other); powers, and their laws, are built on it.

`VirtualMachineProofs`, for all spans of words, addresses and
ints, all stack sizes and all programs:

* `ExpRight`: `Exp` is the power modulo the word for every base and exponent, as
  long as the int that carries its half-way value does not overflow. The
  recursion is followed by strong induction over the exponent. The induction
  theorems of the library take a predicate and cannot be used; `Induct` and
  `StrongInduct` of `ArithmeticLemmas` take a set instead (from
  well-foundedness of the naturals), and so can be cited. `ExpsExist` and
  `PowersExist` build the recursive functions, `PowersAdd` splits a power in
  two, `ModMul` reduces factors.
* `TypeCorrect`: every opcode leaves words in registers and cells.
* `CallsSafe` and `ReturnsRight`: frames stay intact and returns go home. The
  invariant adds that a tidy program's frames lie in order (`Ordered`), each
  within the stack and holding what its call pushed (`Kept`), and that `SP` is
  not above the newest: a push then cannot reach a frame.
* `PowersRight`: `ExpIsPower` from `ExpRight`, the operands being words.
* `ForwardAdvances`: what of `ForwardEnds` is a step property. Where a program
  stands is the return addresses of its calls in progress and `IP`; every
  iteration of a program that jumps and branches forward gets further in the
  newest call (`LaterHere`), opens one that ends further on (`LaterCall`), or
  ends one, with `ReturnStep` (`LaterReturn`). Places are below `AddrSpan` and
  by `CallsBounded` there are at most `StackSize / 16` calls, so this order has
  no endless ascent; calls may lead backward, since the stack ends a recursion.

Every invariant and every safety property of the runs is a theorem. Only
model-checked is liveness: `ReceiveTerminates`, `EventuallyHandled`,
`LostPeersGo`, `ForwardEnds`, `Drains`. Fairness and `ENABLED` are beyond the
prover; for `ForwardEnds` the theorems leave only the step from the order of
`ForwardAdvances` to its end.

## Not modelled

* Vendored code: asio, rocksdb, cryptopp, secp256k1, spdlog, `json.hpp` and
  cxxopts. `spdlog` is in the tree three times and `json.hpp` twice. The
  program's own code, without the older copy of it in `___sunum`, is about 4000
  lines, of which the map covers four in ten; of all lines in the repository that
  is a small share, and nothing in the rest is this program's logic.
* Bodies between processes: finding 1 keeps any body from arriving whole, so
  `Network` has none, and what `OnNewTransaction` would verify, or the machine
  of `sunum_peer` execute, is not composed with it. A `p2p_node` throws on every
  transaction in any case: `buffer_stream` has one position for reading and
  writing, which stands at the end of a message just copied.
* Code without a caller: `peers`, `count`, `find`, `for_each`,
  `build_longest_chain` with `block_index::push`, `pop` and `front_block`,
  `genesis_block`, `sign`, `verify`, the verification context, the JSON
  deserializer. No state of the program reaches them; what would go wrong there
  is listed under the hazards.
* Elliptic curves and hash functions (parameters); JSON output, uuid, logging,
  the command line and the printing of the virtual machine; a failed accept (it
  changes nothing).

## Plan

Done: the connection with its channel, the registry, the network over channels,
the block store with wallets and keys, the virtual machine; their type
correctness, all their safety properties and the refinements between them
proved. What is left for a change of the program:

1. with finding 1 mended, bodies in `Network`, and `HeaderOnly` dropped from
   `HeaderTrafficInOrder` and `LinkIsChannel`;
2. with a caller for `build_longest_chain`, `sign` or `verify`, a module for it.
