# A TLA+ model of LeoCoin

LeoCoin is a small cryptocurrency in C: a miner that extends a blockchain, a
server that exchanges blockchains with peers, and a bootstrap server where
peers find each other. This directory models its threads, its data structures
and its wire and file formats, checks the model with TLC and proves the
central facts with TLAPS.

Paths such as `src/mining_thread.c` are relative to the repository.

## The system

| Component | State | Operations | Interacts with |
|---|---|---|---|
| Blocks and chains (`block.c`, `transaction.c`, `blockchain.c`) | a list of blocks, the number of zero bytes a hash must start with | create, append, hash, verify, serialize | everything |
| Synchronized blockchain (`blockchain.c`) | pointer to the current chain, version, mutex | publish a chain: lock, set the pointer, increment the version, unlock | shared by miner and server threads |
| Mining thread (`mining_thread.c`) | its own copy of the pointer, the version it mines, stop and exit flags, output file | follow a new version, verify, build a block, try proofs, append, save | reads the version and stop flag without locks, signals two condition variables |
| Consensus peer server (`consensus_peer_server_thread.c`) | the connection it serves | receive a chain, verify it, adopt it if longer, answer with the current chain | replaces and destroys the shared chain |
| Bootstrap server (`peer_discovery_bootstrap_server_thread.c`) | the list of peers with the time they last connected | register or refresh, expire, answer | one connection at a time |
| Peer discovery thread (`peer_discovery_thread.c`) | the peer's list, its socket | connect, register, replace the list, sleep, retry | the bootstrap server |
| Linked list (`linked_list.c`) | nodes linked from a head | create, prepend, append, remove the first, find, length, destroy | holds blocks, transactions and peers; the bootstrap server also unlinks nodes itself |
| Framing (`networking.c`) | none of its own | serialize and deserialize commands, `recv_all`, `send_all` | every connection |
| Serialization (`blockchain.c`, `peer_discovery.c`) | none of its own | chains and peer lists to bytes and back, output file | server, peers, miner |
| Utilities (`endian.c`, `base64.c`, `hash.c`, `sleep.c`) | none | | called by the above |

What is hard to test here: the miner works on a pointer it read earlier and
compares version numbers without a lock; two threads believe they own the
same chain; condition variables can be signalled between a test and a sleep;
a list is read by one thread while another appends to it; sockets have no
timeouts and cut messages up; almost every call has an error path. The list with
source lines is under `hazards` in `PROJECT.json`.

Correctness, component by component:

* verification accepts exactly the documented chains;
* a chain is destroyed once and not used afterwards; what the miner appends
  keeps a chain valid; whoever waits for the miner is answered;
* the node's chain never gets shorter or invalid, and replies are as long as
  what the peer sent;
* active peers are listed, once; expired ones are not; every request ends;
* a linked list behaves as a sequence and frees what it holds, once;
* a message is taken as a whole or not at all, and neither side waits for
  bytes that the other will not send;
* what is deserialized is what was serialized, and an error leaves no memory
  behind.

## Modules

    Blockchain              blocks, chains, blockchain_verify (values only)
      BlockchainVerify      every small chain, against blockchain.h's conditions
      SyncBlockchain        the heap of chains and the synchronized blockchain
        MiningThread        mine_blocks
          MiningSession     ... with the thread that owns it
        ConsensusPeerServer run_consensus_peer_server
          Node              miner and server on one synchronized blockchain
      LongestChain          what a node promises (abstract)
    PeerDiscovery           bootstrap server, peers and their connections
    Commands                message formats and the peer list (values only)
      Exchange              one registration, byte by byte, at both ends
      ChainTransfer         a chain to bytes, through a file or a message, and back
    LinkedList              linked_list.c, the expiry loop, an unlocked reader
    ListSpec                what linked_list.h promises (abstract)
    BlockchainProofs        theorems on BlockchainVerify, lemmas on mine_blocks
      MiningProofs          theorems on MiningSession
      NodeProofs            theorems on Node, refinement of LongestChain
    PeerDiscoveryProofs     theorems on PeerDiscovery
    LinkedListProofs        theorems on LinkedList, refinement of ListSpec
    CommandsProofs          what is serialized is deserialized unchanged
      ExchangeProofs        theorems on Exchange
      ChainTransferProofs   theorems on ChainTransfer
    MC*                     instances for TLC

Each thread has a program counter and its local variables in one record
(`m`, `s`, `b`, `p[c]`; `c` and `s` in `Exchange`, `w` and `r` in
`LinkedList`, `d` in `ChainTransfer`). An action is one access to something
another thread can change, with the local work around it; its name is that
of the step and `PROJECT.json` gives the lines. Definitions named
`X_Something` next to `X` are deliberately wrong versions, kept to show that
the properties notice.

### Abstractions

* **Digests.** SHA-256 is collision free: a digest is the path of block
  contents that leads to it. How many zero bytes a hash starts with is chosen
  from `HashZeros` when a proof is tried, and stays with the block. It stands
  for the effect of `proof_of_work` and `created_at`.
* **Signatures.** A transaction carries a flag saying that its signature is
  the sender's; keys in `UnreadableKey` make OpenSSL fail. The miner's private
  key is taken to match its public key, so that what it mints is signed
  (`MintingTransaction`); `miner.c` does not compare the two.
* **Heap.** A `blockchain_t *` is an index into `chains` that is never
  reused. `misused` collects references used or destroyed after
  `blockchain_destroy`. What a C program does then is undefined; the model
  either goes on with the object's last contents or the process is killed
  (`Abort`, in `Node`; in a mining session the first misuse is already an
  error). Contents changed by reuse of the memory are not modelled, so
  properties other than `NoUseAfterDestroy` speak of executions where the
  freed memory is still intact.
* **Library calls.** `LibraryFailures`, `ServerFailures`, `NetFailures` and
  `NameFailures` let allocation, file, socket and lookup calls fail. Several
  such calls in a row are one choice. pthread calls succeed. The unchecked
  `malloc` of a `peer_info_t` succeeds.
* **Exit flags.** `exit_ready` is written and read under its mutex, so the
  write with its signal, and the test with the sleep, are single steps. The
  other condition variable has its test and its sleep apart, because the
  version it is about changes without its mutex.
* **Messages, in the modules of the threads.** A peer sends a chain that
  deserializes, or something the handler rejects, or stalls. `recv_all` loops
  when `recv` returns 0: the server is then `stuck`, a peer in `spin`, for
  good. A send to a peer that reset the connection kills the process: nothing
  handles SIGPIPE. `Exchange` and `ChainTransfer` have what these steps stand
  for.
* **Bytes** in `Commands` are numbers below `Base`, and the sizes of the C
  types are constants: the runs use one or two bytes where C has two to 4096.
  All comparisons, offsets and the order of fields are those of the code, so
  that a check that is off by a field is seen at these sizes too. `Garbage` is
  what a read past the end of a buffer finds. `Word` is the modulus of the
  64-bit sum in the `command_send_*` deserializers. Pointers are not checked
  for NULL: no caller passes one.
* **Connections** in `Exchange` hold up to `Capacity` bytes in each direction.
  A reset loses what is under way; a process that dies closes its end.
  `disturbed` records that something outside the two functions went wrong:
  a reset, a death, a failed allocation, a client that is not a peer.
* **Memory** in `ChainTransfer` is the set `held` of the objects that the
  deserializer owns at the moment, one name per kind: it never owns two of a
  kind. `lost` are those that a return leaves without a pointer.
* **List nodes** in `LinkedList` are addresses that are not used again. The
  stores that fill and link a node become visible to the other thread in
  program order, as they do on x86; C calls the unlocked read a data race.
* **Time** in `PeerDiscovery` counts seconds, as `time(NULL)` does. Peers are
  identified with their addresses; a peer's process does not die, so sockets
  it leaks stay open. When the server's process ends, the kernel closes the
  connection it serves, and the peer reads 0 and spins; connections that were
  not accepted, or have bytes that were not read, are reset, and the peer's
  `send` or `recv` fails (`Abandoned`). In `Exchange` the handler reads the
  clock at `Now`, when it registers the client, and again some seconds later
  (`Delays`), before it sweeps the list.
* **Owner of the miner.** `miner.c` calls `mine_blocks` directly and never
  publishes; the owner in `MiningSession` does what the second test of
  `test_mining_thread.c` does, repeatedly, in the order that `blockchain.h`
  prescribes and the consensus server follows (increment, then unlock). After
  joining the thread it calls `synchronized_blockchain_destroy`.
* **Miner and server together** (`Node`): no program of the repository starts
  both yet; `mining_thread.h` and `consensus_peer_server_thread.h` describe
  the arrangement.

## Runs

Every run and its properties are in `PROJECT.json`; `tlc -config X.cfg M`
repeats one. The longest takes two to three minutes.

| Run | Result |
|---|---|
| BlockchainVerify | `blockchain_verify` agrees with the four conditions of `blockchain.h` on all chains of up to three candidate blocks; the block it names is the first bad one; a block from `blockchain_mine_block` keeps a valid chain valid |
| MiningSession | types; chains freed once, up to the final destroy; appended blocks fit; a whole output file is a valid chain; stop and switch are answered; library failures included |
| Node | refinement of `LongestChain`: only chains that were strictly longer when the server compared replace ours, though the miner appends between comparison and switch; replies valid and not shorter; mutex released; only two error returns leak a chain; the server stops when asked, unless a peer stalls it or ends the process |
| PeerDiscovery | list without duplicates; active peers listed; replies without expired ones; any call may fail |
| DiscoveryLiveness | a peer that waits for a reply gets it, or is told that the connection is gone, also when the server stops; peers register while the server runs, and stop when asked |
| LinkedList | refinement of `ListSpec`; no freed node is touched; nothing leaks, a failed lookup apart; an unlocked reader copies what was there when it began and at least as many blocks as it counted; the loops of the writer and of the reader end |
| Exchange | addresses and lists arrive whole or not at all, however the bytes are cut; no end waits for bytes that will not come, unless a program that is not a peer announced them; undisturbed, a registration succeeds |
| ChainTransfer | a whole chain arrives; an accepted one means what was sent, wherever the file was torn; every return of the deserializer frees what it holds and nothing twice |

Runs that end in a violation document where code and comments or tests
disagree:

| Run | What happens |
|---|---|
| MiningEarlyPublish | a chain published before the thread's first read is destroyed while in use |
| NodeDoubleFree | server and miner both destroy the replaced chain |
| NodeStall | `recv_all` loops on a closed connection; the server ignores stop requests |
| TornFile | a file that ends among the unused bytes of the last signature is read past its end and accepted |

The models show more that has no run of its own:

* A block without transactions makes `blockchain_verify` report an invalid
  chain without filling in `first_invalid_block`, against `blockchain.h`
  (`BlockVerdict`, "unreported"); the miner then dereferences NULL
  (`MinerVerify`).
* The miner can advertise a version that it is not mining: after
  `MinerRefresh` has read the pointer and released the mutex, the owner
  publishes, and `MinerLoadVersion` reads the version of that publication.
  The new chain is not noticed until the next one.
* The error paths of `mine_blocks` return without setting `exit_ready`
  (`MinerFailed`), which `mining_thread.h` promises on every return.
* The second test of `test_mining_thread.c` unlocks before it increments the
  version; two publications in that order can make the miner destroy the
  chain it is mining. `blockchain.h` prescribes the other order.
* An equal chain can win. The server compares under the mutex
  (`ServerCompare`: the peer's chain is longer by one), the miner, which
  appends without it, adds the block it has just found (`MinerAdd`), and the
  server switches (`ServerSwitch`): a chain that is not longer than ours
  replaces it, and the block with its coin is lost. The header
  `consensus_peer_server_thread.h` speaks of longer chains only. `LongestChain`
  has this in the open: `Offer`, which requires a strictly longer chain, and
  `Adopt` are separate steps, and `Extend` can come between them.
* A peer whose server goes away while it is being served spins in `recv_all`
  and never stops (`spin`).
* A program that connects to the bootstrap server and announces more bytes than
  it sends keeps it from all other peers for as long as it stays connected
  (`SentTooLittle`, the exception in `ExchangeEnds`).
* A handler that takes longer than the keepalive interval between its two
  readings of the clock sweeps the client it has just registered (`Prompt` in
  `Exchange`).
* An attempt of `discover_peers_once` that fails leaves its socket open. A
  peer that starts before its server runs out of descriptors and never
  registers, and a server can be left sending to a client that no longer
  reads (the exception in `ExchangeEnds`).
* A failed name lookup leaves a freed `peer_info_t` in the list (`freed` in
  `PeerDiscovery`), or an unlinked node unfreed (`lost` in `LinkedList`).
* Memory is also lost when a `realloc` of `blockchain_serialize` fails, when
  the output file cannot be opened, when there is no memory to read it back
  (`lost` in `ChainTransfer`), when a received chain's signatures cannot be
  checked (`lost` in `ConsensusPeerServer`), and when a chain is published and
  replaced before the miner looks.

Deadlock checking is off: threads return, and the owner, the peers and the
clock may stop.

### Bounds

* `MaxChains = 3`: the initial chain and two publications, so that the miner
  can be overtaken during a switch. `MaxBlocks` 2 or 3: no proof is found for
  a longer chain, so that mining ends. `MaxProof` 1 or 2: proofs tried per
  block, so that the loop both repeats and runs out. `HashZeros = {0, 1}`
  with one zero byte required: a proof fails or succeeds.
* Chains published in the passing mining runs all require the same number of
  zero bytes. The server guarantees that (`same_number_leading_zeros`); with
  an owner that lowers it, a block accepted for the new chain could be
  appended to the old one.
* `Node`: peers send chains of two and three blocks, invalid, easier and
  unreadable ones; `MaxChains = 3` allows two requests that deliver a chain.
* `PeerDiscovery`: two peers, two connections, `Keepalive = 1` with
  `MaxTime = 2`, so that an entry can be kept, refreshed and expired;
  `Keepalive = 0`, `MaxTime = 1` for liveness. `MaxFds` 1 or 2. Symmetry is
  used only where no liveness is checked.
* `LinkedList`: three nodes and three data, two of which compare equal, so
  that the sweep can remove the first, a middle and the last node and their
  neighbours; with a reader, three appends around its two walks.
* `Exchange`: a request of 13 bytes and replies of up to 27 over pipes of
  three bytes, so that every cut of every field happens and both sides fill
  the pipe; five peer lists (empty, another peer, one that has expired, one
  that expires between the two readings of the clock, the client itself), no
  or three seconds between the readings, and four messages of other programs:
  another command, one that is too short, one that announces more than is
  sent, and none.
* `ChainTransfer`: chains of up to three blocks and two transactions whose
  signatures use all, some or none of their bytes; every count the serializer
  can have taken, every length of a torn file, every allocation failing.

### Fairness

Weak fairness of each thread as a whole: the operating system schedules every
thread, and a mutex that is free again is eventually obtained. Nothing is
assumed about the owner starting to publish or stop, about time passing, or
about which of several outcomes a call has. A thread that keeps mining must
see the stop flag because it is read in every round, not because of fairness between outcomes. In
`Exchange` the bytes under way arrive and both programs run; in `LinkedList`
a call that has begun and a reader that has begun go on.

## Proofs

The theorems hold for every value of the constants that the modules' named
assumptions allow; TLC evaluates the assumptions in every run. Each inductive
invariant below was checked by TLC, as an invariant of the run of its module,
before it was proved.

| Module | Theorem | Property | Assumes |
|---|---|---|---|
| BlockchainProofs | `VerifyTypes` | `VerifyTypeOK` | |
| | `VerifyIsCorrect` | `VerifyMeetsDocumentation` | |
| | `ReportsTheFirstBlock` | `FirstInvalidBlockIsFirst` | |
| | `MiningIsCorrect` | `MiningKeepsChainsValid` | |
| MiningProofs | `TypeCorrect` | `TypeOK` | |
| | `ChainsAreDestroyedOnce` | `NoUseAfterDestroy` | `PublishBeforeStart = FALSE` |
| | `MinedBlocksFit` | `ValidChainsStayValid` | `OneDifficulty` |
| | `SavedChainsAreValid` | `OutfileIsValid` | `OneDifficulty` |
| NodeProofs | `TypeCorrect` | `TypeOK` | |
| | `RepliesAreValid` | `ReplyIsValid` | `IsValid(InitialChain)` |
| | `RepliesAreNotShorter` | `ReplyIsNotShorter` | |
| | `LeaksAreFailures` | `OnlyFailuresLeak` | |
| | `NodeImplementsLongestChain` | `ImplementsLongestChain` | |
| LinkedListProofs | `TypeCorrect` | `TypeOK` | |
| | `NoFreedMemoryIsUsed` | `NoUseAfterFree` | |
| | `MemoryIsAccountedFor` | `NothingLeaks` | |
| | `ReaderSeesAWholeList` | `ReaderSeesTheList` | |
| | `ListIsASequence` | `ImplementsListSpec` | |
| PeerDiscoveryProofs | `TypeCorrect` | `TypeOK` | |
| | `AddressesAreListedOnce` | `ListedOnce` | |
| | `ActivePeersStayListed` | `ActivePeersAreListed` | |
| | `RepliesListActivePeers` | `RepliesAreActive` | |
| CommandsProofs | `BigEndianRoundTrip` | | |
| | `RegisterRoundTrip` | | |
| | `DataRoundTrip` | | `Len(data) <= CallocLimit` |
| | `PeerListRoundTrip` | | `Len(l) \in Unsigned(U64)` |
| ExchangeProofs | `ExchangeTypes` | `TypeOK` | |
| | `OnlyRegisteredAreListed` | `RegisteredAsSent` | |
| | `ListsArriveWhole` | `ReplyArrivesWhole` | |
| | `SpinningIsExcused` | `SpinsOnlyWhenAbandoned` | |
| ChainTransferProofs | `ReturnsFreeWhatIsOwned` | `MemoryIsReturned` | |
| | `TransferTypes` | `TypeOK` | |
| | `WholeChainsAreRebuilt` | `WholeChainArrives` | |
| | `AcceptedChainsWereSent` | `AcceptedChainIsSent` | |

The assumptions in the last column are needed and are what the code relies
on. `PublishBeforeStart = FALSE` says that an owner waits for the thread's
first read; without it the run `MiningEarlyPublish` shows the violation.
`OneDifficulty` says that all chains published in a session ask for the same
number of zero bytes, which `consensus_peer_server_thread.c` tests before it
publishes one. A node that starts with an invalid chain answers with it.

All safety properties that the passing runs check are stated by a theorem.

The modules of the formats have assumptions on their constants, evaluated by
TLC in the runs of `Exchange` and `ChainTransfer`:

* `CommandsAssumption`, `WidthAssumption`: a byte has at least two values; the
  command numbers fit in a `uint32_t`, the size of the address struct in a
  `uint64_t`, and a header with a length can be allocated.
* `ExchangeAssumption`: `Self`, `Now` and the lists have the types of their
  structs, the clock does not go back, and the server's list fits in memory with one more peer in it (the
  unchecked `malloc` of an entry is taken to succeed as well). `Strangers` are
  messages that no cut turns into a registration: a program that sends one is a
  client, and is `Self`.
* `ChainTransferAssumption`, `ChainsAssumption`: what is sent is a
  `blockchain_t` of the program: its integers are of 64 bits, its arrays have
  the length of their type, a signature is not longer than its array
  (`transaction_generate_signature` writes it there), and its serialization is
  of a size that can be allocated. What is received is a beginning of that;
  `ReturnsFreeWhatIsOwned` alone makes no use of it.

### Verification

`BlockchainProofs` shows what each part of `blockchain_verify` accepts, and
that a prefix of a valid chain is valid and a valid chain with a block that
fits is valid. The loops of the code are modelled by the first index at which
they stop, so that a least number (which exists by the well-foundedness of
`<`) takes the place of an induction.

### Mining session

`NoUseAfterDestroy` is not inductive. References grow with publications, so
age is order, and `Ownership` adds:

* `VersionCountsChains`: the current chain is the newest, and the version is
  the number of publications, except between the two assignments of a
  publication, when the mutex is held;
* `ChainIsRecorded`: the miner's chain is not newer than the version it has
  recorded, so that a different version means a newer chain and the miner
  never destroys the chain it switches to;
* `JoinedHasReturned`: the owner joins the thread only after its last step;
* `DestroyedAreOlder`: what is destroyed is older than what the miner uses,
  until the owner destroys the newest chain after the miner's return.

`Validity` carries the block under construction: from its creation on it fits
the chain it was made for, which nobody else appends to. A file is valid
because the chain that is written was.

### Node

`NodeInv` relates the locals of the server to the heap while the mutex is
held and after it is released: the server's chain is the published one
(`OursIsCurrent`), the peer's is newer than all of them and was verified
(`PeerIsFresh`, `PeerIsVerified`); until the switch ours is not longer than
the peer's, and shorter while a miner that has passed its last look at the
mutex may still append one block to it (`PeerIsLonger`); the number the
serializer wrote first is covered by the blocks it copied
(`CountIsCovered`); and every chain is published, destroyed, in the hands of
the handler, or lost on an error path (`ChainsAreHeld`). `LedgerIsValid` makes
replies valid. The refinement maps `chains[syncRef]` to the abstract ledger
and, while the server is about to switch, the peer's chain to the one on offer.
A comparison that succeeds is an `Offer`: the chain is valid, of the same
difficulty and strictly longer. An append is an `Extend`; that it never
overtakes the chain on offer is `PeerIsLonger`. A switch is an `Adopt` of
exactly the chain on offer.

### Linked list

The abstract list is what following `next` from `head` visits. `Follow` is a
recursive function, and the library's induction theorems are out of the
provers' reach, so its properties are proved from the least number that would
break them (`LeastNumber`). `ListInv` says that the visited nodes are distinct
and live, that the writer's and the reader's pointers are where their loops
have them (`WriterPlace`, `ReaderPlace`), and that every node and datum has
one owner. Each operation is then shown to change the visited sequence as
`ListSpec` says, at the step that links or unlinks, and at no other.

### Peer discovery

`DiscoveryInv` adds to the properties that no two entries have the same
address, that the entry of a peer that is still active carries the time of its
last registration (`EntriesAreCurrent`), and that the list has been swept when
it is sent (`SweptForReply`). A sweep is defined by rank: the k-th entry left
is the kept one with k - 1 kept ones before it. That this neither loses nor
repeats an entry follows from ranks being an injection between finite sets of
the same size (`RanksAreNumbers`). The type invariant needs to know where a
peer has a socket open: `close` is never called without one.

### Formats

`CommandsProofs` shows for every format that its deserializer undoes its
serializer. `Piece` says what a serializer writes and how long it is; `Holds`
that a buffer has given bytes at an offset, which joins, cuts and the readers of
fields preserve (`HoldsParts`, `HoldsInBeginning`). A list or chain of any length
is a concatenation whose parts start where a running sum of sizes says.

Integers are bytes by repeated division, bytes are integers by repeated
multiplication, and both are recursive functions over the position. The
library's induction theorems cannot be used, so `CountingUp` (proved from the
least number that is missing in a set) takes their place: the set of positions
up to which the two agree has zero and is closed under adding one. This is why
`BigEndian` in `Commands`, and `Active` in `Exchange`, are written with recursive
functions and not with `^` and `SelectSeq`, and why the largest integer of a
width is the one with the largest byte everywhere: the provers know no powers.

### Exchange

`ExchangeInv` treats each direction as a stream (`Stream`): what the receiver
has, what is under way and what the sender has left is the message; after a
reset it is only a beginning of it. A beginning of a message has the whole
header as soon as it is as long as one, so the length that `recv_all` is then
asked for is that of the message (`ServerReads`, `Answered`); it has all bytes
only if it is the message, which the round trips above turn into the address or
the list. Before the server has registered the client nothing travels back
(`Unregistered`); afterwards the list does not change and the reply is made of
it (`Answered`). An end finds the stream closed too early only if the other
failed (`Places`), because an undisturbed message is never shorter than its
header says.

### Transfer of chains

`TransferInv` names the objects that the deserializer owns at each place of
its loop (`Owned`); every error path frees exactly those. Nothing about the
formats is used, so `ReturnsFreeWhatIsOwned` is for any bytes in the buffer.

`ReadInv` says what has been read. The buffer is a beginning of what was
serialized (`Transport`). A chain is a header and blocks whose starts are given
by a function `f` (`Layout`), and at each place of the loops the offset is that
of the block or transaction the counters name (`Reading`). What was read is
`Alike` what was sent: equal in all that is used, and equal altogether if the
offset is not past the end of the buffer. The checks of the code cover every
field but the bytes of the signature, so that only those can be missing; the
offset is then past the end, every later check fails, and nothing is accepted
unless it was the last signature. That is `AcceptedChainIsSent`, and also what
the run `TornFile` shows to be the most that holds. If the buffer is whole, the
offset never passes its end, no check fails, and the chain is exactly the one
that was sent (`Outcome`).

### Only model-checked

The liveness properties `StopIsAnswered`, `SwitchIsAnswered`, `MutexIsReleased`,
`ServerStops`, `CallsEnd`, `ExchangeEnds`, `RegistrationSucceeds` and those of
`DiscoveryLiveness`: fairness and `ENABLED` are out of the prover's reach.

## Not modelled

OpenSSL, base64, printing, Windows variants, the programs' command lines and
environment (`miner.c` before `mine_blocks`), checks for NULL arguments,
failing pthread calls, `COMMAND_OK` and `COMMAND_ERROR` (declared, never
sent). Reuse of freed memory, and stores that become visible out of order.

## Plan

1. *Done*: verification; mining thread with its owner; consensus server;
   node; peer discovery; linked list; framing; serialization.
2. *Done*: theorems on all safety properties of the runs: verification, mining
   session, node, linked list, peer discovery, formats, exchange and transfer;
   both refinements.
3. Left: the liveness properties, should a prover for them become available,
   and a session of `Exchange` with several requests on one server, which
   `PeerDiscovery` has without bytes.
