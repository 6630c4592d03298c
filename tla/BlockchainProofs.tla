-------------------------- MODULE BlockchainProofs --------------------------
(***************************************************************************)
(* Facts about the functions of Blockchain, for every chain: what they     *)
(* return, what blockchain_verify accepts, and what keeps a chain valid;   *)
(* from them the theorems about BlockchainVerify, and what the steps of    *)
(* MiningThread do whatever the other threads are.                         *)
(***************************************************************************)
EXTENDS BlockchainVerify, MiningThread, WellFoundedInduction, TLAPS

-----------------------------------------------------------------------------
(***************************************************************************)
(* Types.                                                                  *)
(***************************************************************************)

\* block_create of well-typed arguments is a block.
LEMMA BlockCreateType ==
  ASSUME NEW txs \in Seq(Transaction), NEW proof \in Nat, NEW prev \in Digest
  PROVE  block_create(txs, proof, prev) \in Block
BY DEF block_create, Block

\* Trying another proof, or finding out a hash's zeros, leaves a block.
LEMMA BlockFieldTypes ==
  ASSUME NEW blk \in Block, NEW n \in Nat
  PROVE  /\ [blk EXCEPT !.zeros = n] \in Block
         /\ [blk EXCEPT !.proof = @ + 1] \in Block
BY DEF Block

\* block_hash of a block is a digest.
LEMMA BlockHashType ==
  ASSUME NEW blk \in Block
  PROVE  block_hash(blk) \in Digest
BY DEF block_hash, Block, Digest

\* The transaction that mints for a key is a transaction.
LEMMA MintingTransactionType ==
  ASSUME NEW key \in Key
  PROVE  MintingTransaction(key) \in Transaction
BY DEF MintingTransaction, Transaction, AMOUNT_GENERATED_DURING_MINTING

\* blockchain_add_block of a chain and a block is a chain.
LEMMA AddBlockType ==
  ASSUME NEW c \in Chain, NEW blk \in Block
  PROVE  blockchain_add_block(c, blk) \in Chain
BY DEF blockchain_add_block, Chain

\* blockchain_verify returns SUCCESS or the failure of an OpenSSL call.
LEMMA VerifyCode ==
  ASSUME NEW c
  PROVE  blockchain_verify(c).code \in {"SUCCESS", "FAILURE_OPENSSL_FUNCTION"}
BY DEF blockchain_verify
-----------------------------------------------------------------------------
(***************************************************************************)
(* What blockchain_verify accepts.                                         *)
(***************************************************************************)

\* A set of indices that is not empty has a first one, so the loops that stop
\* at the first failure stop somewhere.
LEMMA FirstIsFirst ==
  ASSUME NEW I \in SUBSET Nat, I # {}
  PROVE  First(I) \in I /\ \A j \in I : First(I) <= j
<1>1. PICK i \in I : \A j \in I : ~(<<j, i>> \in OpToRel(<, Nat))
  BY NatLessThanWellFounded, WFMin
<1>2. \A j \in I : ~(j < i)
  BY <1>1, Zenon DEF OpToRel
<1>3. \A j \in I : i <= j
  BY <1>2
<1> QED
  BY <1>3 DEF First

\* A chain is valid when every block's verdict is "ok".
LEMMA ValidIff ==
  ASSUME NEW c
  PROVE  IsValid(c) <=> \A i \in 1..Len(c.blocks) : BlockVerdict(c, i) = "ok"
BY DEF IsValid, blockchain_verify

\* A list of transactions passes when each signature does.
LEMMA SignaturesIff ==
  ASSUME NEW txs \in Seq(Transaction)
  PROVE  SignaturesVerdict(txs) = "ok"
           <=> \A j \in 1..Len(txs) : transaction_verify_signature(txs[j]) = "ok"
<1> DEFINE bad == {i \in 1..Len(txs) :
                     transaction_verify_signature(txs[i]) # "ok"}
<1>1. CASE bad = {}
  BY <1>1 DEF SignaturesVerdict
<1>2. CASE bad # {}
  <2>1. First(bad) \in bad
    <3>1. bad \in SUBSET Nat
      OBVIOUS
    <3> QED
      BY <1>2, <3>1, FirstIsFirst
  <2> QED
    BY <1>2, <2>1 DEF SignaturesVerdict
<1> QED
  BY <1>1, <1>2

\* The verdict on a block depends on that block, the one before it and the
\* number of zeros required, and on nothing else in the chain.
LEMMA VerdictIsLocal ==
  ASSUME NEW c, NEW d, NEW i \in Nat \ {0},
         c.zeros = d.zeros,
         c.blocks[i] = d.blocks[i],
         i # 1 => c.blocks[i - 1] = d.blocks[i - 1]
  PROVE  BlockVerdict(c, i) = BlockVerdict(d, i)
<1>1. CASE i = 1
  BY <1>1 DEF BlockVerdict
<1>2. CASE i # 1
  BY <1>2 DEF BlockVerdict, blockchain_is_valid_block_hash
<1> QED
  BY <1>1, <1>2

\* A chain with its last blocks cut off is as valid as the whole: the reply of
\* a server that counted the blocks before the miner appended one is.
LEMMA PrefixIsValid ==
  ASSUME NEW c \in Chain, IsValid(c), NEW n \in 0..Len(c.blocks)
  PROVE  IsValid([blocks |-> SubSeq(c.blocks, 1, n), zeros |-> c.zeros])
<1> DEFINE d == [blocks |-> SubSeq(c.blocks, 1, n), zeros |-> c.zeros]
<1>1. c.blocks \in Seq(Block)
  BY DEF Chain
<1>2. Len(d.blocks) = n /\ \A i \in 1..n : d.blocks[i] = c.blocks[i]
  BY <1>1
<1>3. ASSUME NEW i \in 1..n
      PROVE  BlockVerdict(d, i) = "ok"
  <2>1. BlockVerdict(c, i) = "ok"
    BY <1>1, ValidIff
  <2>2. i # 1 => i - 1 \in 1..n
    OBVIOUS
  <2>3. d.zeros = c.zeros
    OBVIOUS
  <2> HIDE DEF d
  <2>4. BlockVerdict(d, i) = BlockVerdict(c, i)
    BY <1>2, <2>2, <2>3, VerdictIsLocal
  <2> QED
    BY <2>1, <2>4
<1> HIDE DEF d
<1>4. IsValid(d)
  BY <1>2, <1>3, ValidIff
<1> QED
  BY <1>4 DEF d

\* A block that names the last one, has the zeros required and only mints for
\* a key that OpenSSL reads keeps a chain valid.
LEMMA MintingKeepsValid ==
  ASSUME NEW c \in Chain, IsValid(c), c.blocks # <<>>,
         NEW key \in Key \ UnreadableKey,
         NEW blk \in Block,
         blk.prev = block_hash(linked_list_get_last(c.blocks)),
         blk.zeros >= c.zeros,
         blk.txs = <<MintingTransaction(key)>>
  PROVE  IsValid(blockchain_add_block(c, blk))
<1> DEFINE d == blockchain_add_block(c, blk)
           n == Len(c.blocks)
<1>1. c.blocks \in Seq(Block) /\ n \in Nat \ {0}
  BY DEF Chain
<1>2. /\ Len(d.blocks) = n + 1
      /\ \A i \in 1..n : d.blocks[i] = c.blocks[i]
      /\ d.blocks[n + 1] = blk
      /\ d.zeros = c.zeros
  BY <1>1 DEF blockchain_add_block, Chain
<1> HIDE DEF d, n
<1>3. ASSUME NEW i \in 1..n
      PROVE  BlockVerdict(d, i) = "ok"
  <2>1. BlockVerdict(c, i) = "ok"
    BY <1>1, ValidIff DEF n
  <2>2. i # 1 => i - 1 \in 1..n
    BY <1>1
  <2>3. BlockVerdict(d, i) = BlockVerdict(c, i)
    BY <1>1, <1>2, <2>2, VerdictIsLocal
  <2> QED
    BY <2>1, <2>3
<1>4. BlockVerdict(d, n + 1) = "ok"
  <2>1. SignaturesVerdict(blk.txs) = "ok"
    <3>1. /\ Len(blk.txs) = 1
          /\ transaction_verify_signature(blk.txs[1]) = "ok"
      BY DEF MintingTransaction, transaction_verify_signature
    <3>2. \A j \in 1..Len(blk.txs) :
            transaction_verify_signature(blk.txs[j]) = "ok"
      BY <3>1
    <3>3. blk.txs \in Seq(Transaction)
      BY DEF Block
    <3> QED
      BY <3>2, <3>3, SignaturesIff
  <2>2. blk.txs # <<>> /\ IsMinting(blk.txs[1])
    BY DEF MintingTransaction, IsMinting
  <2>3. /\ blockchain_is_valid_block_hash(d, blk)
        /\ blk.prev = block_hash(d.blocks[(n + 1) - 1])
    BY <1>1, <1>2 DEF blockchain_is_valid_block_hash, linked_list_get_last, n
  <2>4. n + 1 # 1
    BY <1>1
  <2> QED
    BY <1>2, <2>1, <2>2, <2>3, <2>4 DEF BlockVerdict
<1>5. IsValid(d)
  BY <1>1, <1>2, <1>3, <1>4, ValidIff
<1> QED
  BY <1>5 DEF d
-----------------------------------------------------------------------------
(***************************************************************************)
(* blockchain_verify and blockchain_mine_block on chains of any length,    *)
(* over any blocks.                                                        *)
(***************************************************************************)
\* The hash that a new block has to name is a digest.
LEMMA LastHashType ==
  ASSUME NEW c \in Chain
  PROVE  LastHash(c) \in Digest
<1>1. c.blocks \in Seq(Block)
  BY DEF Chain
<1>2. CASE c.blocks = <<>>
  BY <1>2 DEF LastHash, Digest, EmptyDigest
<1>3. CASE c.blocks # <<>>
  <2>1. linked_list_get_last(c.blocks) \in Block
    BY <1>1, <1>3 DEF linked_list_get_last
  <2> QED
    BY <1>3, <2>1, BlockHashType DEF LastHash
<1> QED
  BY <1>2, <1>3

\* The block that MineBlock starts from is a block without proof and zeros.
LEMMA NextBlockType ==
  ASSUME NEW c \in Chain, NEW k \in Key
  PROVE  block_create(<<MintingTransaction(k)>>, 0, LastHash(c)) \in Block
<1>1. <<MintingTransaction(k)>> \in Seq(Transaction)
  BY MintingTransactionType
<1> QED
  BY <1>1, LastHashType, BlockCreateType

\* blockchain_mine_block changes the proof and with it the zeros of the hash,
\* until there are enough of them.
LEMMA MinedBlock ==
  ASSUME NEW c, NEW b \in Block, NEW blk \in blockchain_mine_block(c, b)
  PROVE  /\ blk \in Block
         /\ blk.prev = b.prev /\ blk.txs = b.txs
         /\ blk.zeros >= c.zeros
<1>1. PICK h \in CandidateProofs \X CandidateZeros :
        blk = [b EXCEPT !.proof = h[1], !.zeros = h[2]]
  BY DEF blockchain_mine_block
<1>2. blk.zeros >= c.zeros
  BY DEF blockchain_mine_block, blockchain_is_valid_block_hash
<1>3. h[1] \in Nat /\ h[2] \in Nat
  BY VerifyAssumption
<1> QED
  BY <1>1, <1>2, <1>3 DEF Block

\* Whatever is added, chain is a blockchain_t of well-typed blocks.
THEOREM VerifyTypes == VerifySpec => []VerifyTypeOK
<1>1. VerifyInit => VerifyTypeOK
  BY VerifyAssumption DEF VerifyInit, VerifyTypeOK, blockchain_create, Chain
<1>2. VerifyTypeOK /\ [VerifyNext]_chain => VerifyTypeOK'
  <2> SUFFICES ASSUME VerifyTypeOK, [VerifyNext]_chain PROVE VerifyTypeOK'
    OBVIOUS
  <2> USE DEF VerifyTypeOK
  <2>1. CASE AddBlock
    <3>1. PICK z \in CandidateZeros, p \in CandidateProofs,
               txs \in CandidateTxs, prev \in {LastHash(chain), EmptyDigest} :
            chain' = blockchain_add_block(chain,
                       [block_create(txs, p, prev) EXCEPT !.zeros = z])
      BY <2>1 DEF AddBlock
    <3>2. z \in Nat /\ p \in Nat /\ txs \in Seq(Transaction)
      BY VerifyAssumption
    <3>3. prev \in Digest
      <4>1. EmptyDigest \in Digest
        BY DEF Digest, EmptyDigest
      <4> QED
        BY <4>1, LastHashType
    <3>4. block_create(txs, p, prev) \in Block
      BY <3>2, <3>3, BlockCreateType
    <3>5. [block_create(txs, p, prev) EXCEPT !.zeros = z] \in Block
      BY <3>2, <3>4, BlockFieldTypes
    <3> QED
      BY <3>1, <3>5, AddBlockType
  <2>2. CASE MineBlock
    <3> DEFINE next(k) == block_create(<<MintingTransaction(k)>>, 0,
                                       LastHash(chain))
    <3>1. PICK k \in Key :
            \E blk \in blockchain_mine_block(chain, next(k)) :
              chain' = blockchain_add_block(chain, blk)
      BY <2>2 DEF MineBlock
    <3>2. PICK blk \in blockchain_mine_block(chain, next(k)) :
            chain' = blockchain_add_block(chain, blk)
      BY <3>1
    <3>3. next(k) \in Block
      BY NextBlockType
    <3> HIDE DEF next
    <3>4. blk \in Block
      BY <3>3, MinedBlock
    <3> QED
      BY <3>2, <3>4, AddBlockType
  <2>3. CASE UNCHANGED chain
    BY <2>3
  <2> QED
    BY <2>1, <2>2, <2>3 DEF VerifyNext
<1> QED
  BY <1>1, <1>2, PTL DEF VerifySpec
-----------------------------------------------------------------------------
\* What the four conditions of blockchain.h ask of block i.
DocumentedBlock(c, i) ==
  LET blk == c.blocks[i] IN
  IF i = 1
  THEN /\ blk.proof = GENESIS_BLOCK_PROOF_OF_WORK
       /\ blk.prev = EmptyDigest
       /\ blk.txs = <<>>
  ELSE /\ blk.zeros >= c.zeros
       /\ blk.prev = block_hash(c.blocks[i - 1])
       /\ blk.txs # <<>> /\ IsMinting(blk.txs[1])
       /\ \A j \in 1..Len(blk.txs) :
            transaction_verify_signature(blk.txs[j]) = "ok"

\* The conditions on the whole chain are conditions on each block.
LEMMA DocumentedIff ==
  ASSUME NEW c \in Chain
  PROVE  DocumentedValid(c)
           <=> \A i \in 1..Len(c.blocks) : DocumentedBlock(c, i)
<1>1. c.blocks \in Seq(Block)
  BY DEF Chain
<1>2. ASSUME NEW i \in 1..Len(c.blocks), c.blocks[i].txs = <<>>
      PROVE  \A j \in 1..Len(c.blocks[i].txs) :
               transaction_verify_signature(c.blocks[i].txs[j]) = "ok"
  BY <1>2
<1> QED
  BY <1>1, <1>2 DEF DocumentedValid, ProofsOfWork, PreviousHashes,
     MintingTransactions, Signatures, DocumentedBlock

\* The loop of blockchain_verify decides what is documented of a block.
LEMMA VerdictIff ==
  ASSUME NEW c \in Chain, NEW i \in 1..Len(c.blocks)
  PROVE  BlockVerdict(c, i) = "ok" <=> DocumentedBlock(c, i)
<1>1. c.blocks[i].txs \in Seq(Transaction)
  <2>1. c.blocks \in Seq(Block)
    BY DEF Chain
  <2>2. c.blocks[i] \in Block
    BY <2>1
  <2> QED
    BY <2>2 DEF Block
<1>2. CASE i = 1
  BY <1>2 DEF BlockVerdict, GenesisVerdict, DocumentedBlock
<1>3. CASE i # 1
  BY <1>1, <1>3, SignaturesIff
  DEF BlockVerdict, DocumentedBlock, blockchain_is_valid_block_hash
<1> QED
  BY <1>2, <1>3

\* blockchain_verify accepts exactly the chains that are valid by blockchain.h.
LEMMA VerifyIsDocumented ==
  ASSUME NEW c \in Chain
  PROVE  IsValid(c) <=> DocumentedValid(c)
BY ValidIff, DocumentedIff, VerdictIff

\* blockchain_verify, which checks block by block and stops early, accepts
\* exactly the chains that meet the documented conditions, whatever their
\* length and whatever is in their blocks.
THEOREM VerifyIsCorrect == VerifySpec => []VerifyMeetsDocumentation
<1>1. VerifyTypeOK => VerifyMeetsDocumentation
  BY VerifyIsDocumented DEF VerifyTypeOK, VerifyMeetsDocumentation
<1> QED
  BY <1>1, VerifyTypes, PTL
-----------------------------------------------------------------------------
\* A prefix is valid when the blocks in it are.
LEMMA PrefixIff ==
  ASSUME NEW c \in Chain, NEW n \in 0..Len(c.blocks)
  PROVE  /\ Prefix(c, n) \in Chain
         /\ DocumentedValid(Prefix(c, n))
              <=> \A i \in 1..n : BlockVerdict(c, i) = "ok"
<1> DEFINE d == Prefix(c, n)
<1>1. c.blocks \in Seq(Block)
  BY DEF Chain
<1>2. /\ d \in Chain
      /\ Len(d.blocks) = n
      /\ \A i \in 1..n : d.blocks[i] = c.blocks[i]
      /\ d.zeros = c.zeros
  <2>1. /\ SubSeq(c.blocks, 1, n) \in Seq(Block)
        /\ Len(SubSeq(c.blocks, 1, n)) = n
        /\ \A i \in 1..n : SubSeq(c.blocks, 1, n)[i] = c.blocks[i]
    BY <1>1
  <2>2. d.blocks = SubSeq(c.blocks, 1, n) /\ d.zeros = c.zeros /\ d \in Chain
    BY <2>1 DEF Prefix, Chain
  <2> QED
    BY <2>1, <2>2
<1> HIDE DEF d
<1>3. ASSUME NEW i \in 1..n
      PROVE  BlockVerdict(d, i) = BlockVerdict(c, i)
  BY <1>2, VerdictIsLocal
<1>4. DocumentedValid(d) <=> \A i \in 1..n : BlockVerdict(c, i) = "ok"
  BY <1>2, <1>3, VerifyIsDocumented, ValidIff
<1> QED
  BY <1>2, <1>4 DEF d

\* The block that blockchain_verify reports ends the shortest prefix of the
\* chain that is not valid, on every chain.
THEOREM ReportsTheFirstBlock == VerifySpec => []FirstInvalidBlockIsFirst
<1>1. ASSUME VerifyTypeOK PROVE FirstInvalidBlockIsFirst
  <2> DEFINE bad == {j \in 1..Len(chain.blocks) : BlockVerdict(chain, j) # "ok"}
             i == blockchain_verify(chain).first
  <2> SUFFICES ASSUME i # 0
               PROVE  /\ ~DocumentedValid(Prefix(chain, i))
                      /\ DocumentedValid(Prefix(chain, i - 1))
    BY DEF FirstInvalidBlockIsFirst
  <2>1. bad # {} /\ i = First(bad)
    BY DEF blockchain_verify
  <2>2. chain \in Chain /\ Len(chain.blocks) \in Nat
    BY <1>1 DEF VerifyTypeOK, Chain
  <2>3. First(bad) \in bad /\ \A j \in bad : First(bad) <= j
    <3>1. bad \in SUBSET Nat
      OBVIOUS
    <3> QED
      BY <2>1, <3>1, FirstIsFirst
  <2> HIDE DEF i
  <2>4. i \in 1..Len(chain.blocks) /\ BlockVerdict(chain, i) # "ok"
    BY <2>1, <2>3
  <2>5. ASSUME NEW j \in 1..(i - 1)
        PROVE  BlockVerdict(chain, j) = "ok"
    BY <2>1, <2>2, <2>3, <2>4
  <2>6. ~DocumentedValid(Prefix(chain, i))
    BY <2>2, <2>4, PrefixIff
  <2>7. DocumentedValid(Prefix(chain, i - 1))
    <3>1. i - 1 \in 0..Len(chain.blocks)
      BY <2>2, <2>4
    <3> QED
      BY <2>2, <2>5, <3>1, PrefixIff
  <2> QED
    BY <2>6, <2>7
<1> QED
  BY <1>1, VerifyTypes, PTL
-----------------------------------------------------------------------------
\* A block mined by blockchain_mine_block keeps a valid chain valid, for every
\* key that OpenSSL reads and every number of zeros required.
THEOREM MiningIsCorrect == VerifySpec => MiningKeepsChainsValid
<1>1. ASSUME VerifyTypeOK, [VerifyNext]_chain, MineBlock, IsValid(chain),
             chain'.blocks[Len(chain'.blocks)].txs[1].sender \notin UnreadableKey
      PROVE  IsValid(chain')
  <2> DEFINE mined(k) == blockchain_mine_block(chain,
                           block_create(<<MintingTransaction(k)>>, 0,
                                        LastHash(chain)))
  <2>1. PICK k \in Key : \E blk \in mined(k) :
          chain' = blockchain_add_block(chain, blk)
    BY <1>1 DEF MineBlock
  <2>2. PICK blk \in mined(k) : chain' = blockchain_add_block(chain, blk)
    BY <2>1
  <2>3. chain \in Chain /\ chain.blocks \in Seq(Block) /\ chain.blocks # <<>>
    BY <1>1 DEF VerifyTypeOK, Chain, MineBlock
  <2>4. /\ blk \in Block
        /\ blk.prev = LastHash(chain)
        /\ blk.txs = <<MintingTransaction(k)>>
        /\ blk.zeros >= chain.zeros
    BY <2>3, NextBlockType, MinedBlock DEF block_create
  <2>5. k \notin UnreadableKey
    <3>1. chain'.blocks[Len(chain'.blocks)] = blk
      BY <2>2, <2>3, <2>4 DEF blockchain_add_block, Chain
    <3> QED
      BY <1>1, <2>4, <3>1 DEF MintingTransaction
  <2>6. blk.prev = block_hash(linked_list_get_last(chain.blocks))
    BY <2>3, <2>4 DEF LastHash
  <2> QED
    BY <1>1, <2>2, <2>3, <2>4, <2>5, <2>6, MintingKeepsValid
<1> QED
  BY <1>1, VerifyTypes, PTL DEF VerifySpec, MiningKeepsChainsValid
-----------------------------------------------------------------------------
(***************************************************************************)
(* The steps of mine_blocks: types, and why the blocks it appends fit.     *)
(***************************************************************************)
\* The block and chain that stand for "none" are well typed.
LEMMA EmptyTypes == NoBlock \in Block /\ NoChain \in Chain
BY DEF NoBlock, NoChain, block_create, blockchain_create, Block, Chain,
       Digest, EmptyDigest

\* Each step of mine_blocks keeps the types, and takes neither mutex for good.
LEMMA MinerTypes ==
  ASSUME SyncTypeOK, MinerTypeOK, MinerNext
  PROVE  /\ SyncTypeOK'
         /\ MinerTypeOK'
         /\ UNCHANGED <<mutex, switchMutex>>
<1> USE EmptyTypes DEF SyncTypeOK, MinerTypeOK, Ref, MinerPC, ReturnCode
<1>1. CASE MinerStart
  BY <1>1 DEF MinerStart, KeepMiner, syncVars
<1>2. CASE MinerLoop
  BY <1>2 DEF MinerLoop, KeepMiner, syncVars, GoTo
<1>3. CASE MinerCheckVersion
  BY <1>3 DEF MinerCheckVersion, KeepMiner, syncVars, GoTo
<1>4. CASE MinerRefresh
  BY <1>4 DEF MinerRefresh, KeepMiner, syncVars
<1>5. CASE MinerDestroyOld
  BY <1>5 DEF MinerDestroyOld, KeepMiner, sharedVars, blockchain_destroy, Use
<1>6. CASE MinerLoadVersion
  BY <1>6 DEF MinerLoadVersion, KeepMiner, syncVars
<1>7. CASE MinerStoreVersion
  BY <1>7 DEF MinerStoreVersion, syncVars, GoTo
<1>8. CASE MinerSignal
  BY <1>8 DEF MinerSignal, syncVars, GoTo
<1>9. CASE MinerVerify
  BY <1>9, VerifyCode, ZenonT(30)
  DEF MinerVerify, KeepMiner, heapVars, sharedVars, Use, ReturnError
<1>10. CASE MinerPrepare
  <2> DEFINE blocks == chains[m.mine].blocks
             blk == block_create(<<MintingTransaction(MinerKey)>>, 0,
                                 block_hash(linked_list_get_last(blocks)))
  <2>1. blocks \in Seq(Block)
    <3>1. chains[m.mine] \in Chain
      OBVIOUS
    <3> QED
      BY <3>1 DEF Chain
  <2>2. blocks # <<>> => blk \in Block
    <3> SUFFICES ASSUME blocks # <<>> PROVE blk \in Block
      OBVIOUS
    <3>1. linked_list_get_last(blocks) \in Block
      BY <2>1 DEF linked_list_get_last
    <3>2. block_hash(linked_list_get_last(blocks)) \in Digest
      BY <3>1, BlockHashType
    <3>3. <<MintingTransaction(MinerKey)>> \in Seq(Transaction)
      BY MinerAssumption, MintingTransactionType
    <3> QED
      BY <3>2, <3>3, BlockCreateType
  <2> HIDE DEF blk
  <2>3. \/ m' = [m EXCEPT !.pc = "returned", !.code = "FAILURE_LINKED_LIST_EMPTY"]
        \/ m' = [m EXCEPT !.pc = "returned", !.code = "FAILURE_LIBRARY"]
        \/ blk \in Block /\ m' = [m EXCEPT !.pc = "enter", !.block = blk]
    BY <1>10, <2>2 DEF MinerPrepare, ReturnError, blk
  <2> QED
    BY <1>10, <2>3 DEF MinerPrepare, KeepMiner, heapVars, sharedVars, Use
<1>11. CASE MinerEnter
  BY <1>11 DEF MinerEnter, KeepMiner, syncVars
<1>12. CASE MinerStopCheck
  BY <1>12 DEF MinerStopCheck, KeepMiner, syncVars, GoTo, MineBlockFails
<1>13. CASE MinerVersionCheck
  <2>1. \/ m' = [m EXCEPT !.pc = "loop", !.block = NoBlock, !.code = "SUCCESS"]
        \/ m' = [m EXCEPT !.pc = "hash"]
    BY <1>13, Zenon DEF MinerVersionCheck, GoTo, MineBlockFails
  <2> QED
    BY <1>13, <2>1 DEF MinerVersionCheck, KeepMiner, syncVars
<1>14. CASE MinerHash
  <2>1. \/ \E blk \in Block : m' = [m EXCEPT !.pc = "add", !.block = blk]
        \/ \E blk \in Block : m' = [m EXCEPT !.pc = "stopCheck", !.block = blk]
        \/ m' = [m EXCEPT !.pc = "returned", !.code = "FAILURE_LIBRARY"]
    <3>1. CASE ReturnError("FAILURE_LIBRARY")
      BY <3>1 DEF ReturnError
    <3>2. ASSUME NEW z \in HashZeros,
                 LET blk == [m.block EXCEPT !.zeros = z] IN
                 \/ m' = [m EXCEPT !.pc = "add", !.block = blk]
                 \/ m' = [m EXCEPT !.pc = "stopCheck", !.block.proof = @ + 1]
          PROVE  \/ \E blk \in Block : m' = [m EXCEPT !.pc = "add", !.block = blk]
                 \/ \E blk \in Block :
                      m' = [m EXCEPT !.pc = "stopCheck", !.block = blk]
      <4>1. m.block \in Block /\ z \in Nat
        BY MinerAssumption
      <4>2. [m.block EXCEPT !.zeros = z] \in Block
        BY <4>1, BlockFieldTypes
      <4>3. [m.block EXCEPT !.proof = @ + 1] \in Block
        BY <4>1, BlockFieldTypes
      <4> QED
        BY <3>2, <4>2, <4>3
    <3> QED
      BY <1>14, <3>1, <3>2 DEF MinerHash
  <2> QED
    BY <1>14, <2>1 DEF MinerHash, KeepMiner, heapVars, sharedVars, Use
<1>15. CASE MinerAdd
  <2>1. blockchain_add_block(chains[m.mine], m.block) \in Chain
    BY AddBlockType
  <2>2. /\ chains' \in Seq(Chain)
        /\ Len(chains') = Len(chains)
    BY <1>15, <2>1 DEF MinerAdd
  <2>3. m' \in [pc: MinerPC, mine: Ref, old: Ref, target: Ref, seen: Nat,
               block: Block, code: ReturnCode]
    BY <1>15 DEF MinerAdd, ReturnError
  <2> QED
    BY <1>15, <2>2, <2>3 DEF MinerAdd, KeepMiner, sharedVars, Use
<1>16. CASE MinerOpen
  BY <1>16 DEF MinerOpen, GoTo, Use, heapVars, sharedVars, TornFile, File
<1>17. CASE MinerWrite
  BY <1>17 DEF MinerWrite, GoTo, syncVars, File
<1>18. CASE MinerExit
  BY <1>18 DEF MinerExit, GoTo, syncVars
<1> QED
  BY <1>1, <1>2, <1>3, <1>4, <1>5, <1>6, <1>7, <1>8, <1>9, <1>10, <1>11,
     <1>12, <1>13, <1>14, <1>15, <1>16, <1>17, <1>18 DEF MinerNext
-----------------------------------------------------------------------------
(***************************************************************************)
(* Why the block that mine_blocks appends keeps its chain valid.  The      *)
(* chain was verified and the block built from its end in earlier steps,   *)
(* and the hash was tested against the requirement of another chain, the   *)
(* one that was published when the search began.                           *)
(***************************************************************************)
Verified == {"prepare", "enter", "stopCheck", "versionCheck", "hash", "add",
             "open", "write"}
Mining == {"enter", "stopCheck", "versionCheck", "hash", "add"}

\* The chains in use require z zeros.
SameZeros(z) == /\ chains[syncRef].zeros = z
                /\ chains[m.mine].zeros = z
                /\ chains[m.target].zeros = z

BlockFits ==
  /\ m.pc \in Verified => IsValid(chains[m.mine])
  /\ m.pc \in Mining =>
       /\ chains[m.mine].blocks # <<>>
       /\ m.block.prev = block_hash(linked_list_get_last(chains[m.mine].blocks))
       /\ m.block.txs = <<MintingTransaction(MinerKey)>>
  /\ m.pc = "add" => m.block.zeros >= chains[m.target].zeros

\* Only blockchain_add_block changes a chain.
LEMMA MinerChains ==
  ASSUME MinerTypeOK, MinerNext
  PROVE  \/ UNCHANGED chains
         \/ /\ m.pc = "add" /\ m'.pc \in {"open", "loop"}
            /\ m'.mine = m.mine /\ UNCHANGED syncRef
            /\ chains' = [chains EXCEPT ![m.mine] =
                                          blockchain_add_block(@, m.block)]
<1>1. CASE MinerAdd
  BY <1>1 DEF MinerTypeOK, MinerAdd, MinerAt, sharedVars
<1>2. CASE ~MinerAdd
  BY <1>2 DEF MinerNext, MinerStart, MinerLoop, MinerCheckVersion,
     MinerRefresh, MinerDestroyOld, MinerLoadVersion, MinerStoreVersion,
     MinerSignal, MinerVerify, MinerPrepare, MinerEnter, MinerStopCheck,
     MinerVersionCheck, MinerHash, MinerOpen, MinerWrite, MinerExit, syncVars,
     heapVars
<1> QED
  BY <1>1, <1>2

\* The chain that blockchain_add_block leaves is valid.
LEMMA AddedBlockIsValid ==
  ASSUME SyncTypeOK, MinerTypeOK, NEW z, SameZeros(z), BlockFits, m.pc = "add"
  PROVE  IsValid(blockchain_add_block(chains[m.mine], m.block))
<1>1. chains[m.mine] \in Chain /\ m.block \in Block
  BY DEF SyncTypeOK, MinerTypeOK, Ref
<1>2. /\ IsValid(chains[m.mine])
      /\ chains[m.mine].blocks # <<>>
      /\ m.block.prev = block_hash(linked_list_get_last(chains[m.mine].blocks))
      /\ m.block.txs = <<MintingTransaction(MinerKey)>>
      /\ m.block.zeros >= chains[m.mine].zeros
  BY DEF BlockFits, SameZeros, Verified, Mining
<1> QED
  BY <1>1, <1>2, MinerAssumption, MintingKeepsValid

\* The miner's steps keep all this, and with it every valid chain valid.
LEMMA MinerKeepsValid ==
  ASSUME SyncTypeOK, MinerTypeOK, NEW z, SameZeros(z), BlockFits, MinerNext
  PROVE  /\ SameZeros(z)'
         /\ BlockFits'
         /\ \A r \in Ref : IsValid(chains[r]) => IsValid(chains'[r])
<1>1. /\ chains \in Seq(Chain) /\ syncRef \in 1..Len(chains)
      /\ m \in [pc: MinerPC, mine: Ref, old: Ref, target: Ref, seen: Nat,
                block: Block, code: ReturnCode]
      /\ m.mine \in 1..Len(chains) /\ m.target \in 1..Len(chains)
  BY DEF SyncTypeOK, MinerTypeOK, Ref
<1>2. ASSUME UNCHANGED chains
      PROVE  \A r \in Ref : IsValid(chains[r]) => IsValid(chains'[r])
  BY <1>2
<1> USE <1>1, <1>2 DEF SameZeros, BlockFits, Verified, Mining, MinerAt, syncVars
<1>3. CASE MinerStart
  BY <1>3 DEF MinerStart
<1>4. CASE MinerLoop
  BY <1>4 DEF MinerLoop, GoTo
<1>5. CASE MinerCheckVersion
  BY <1>5 DEF MinerCheckVersion, GoTo
<1>6. CASE MinerRefresh
  BY <1>6 DEF MinerRefresh
<1>7. CASE MinerDestroyOld
  BY <1>7 DEF MinerDestroyOld, sharedVars
<1>8. CASE MinerLoadVersion
  BY <1>8 DEF MinerLoadVersion
<1>9. CASE MinerStoreVersion
  BY <1>9 DEF MinerStoreVersion, GoTo
<1>10. CASE MinerSignal
  BY <1>10 DEF MinerSignal, GoTo
<1>11. CASE MinerVerify
  <2>1. \/ m' = m /\ m.pc = "verify"
        \/ m'.pc = "returned" /\ m'.mine = m.mine /\ m'.target = m.target
        \/ /\ m'.pc = "prepare" /\ m'.mine = m.mine /\ m'.target = m.target
           /\ IsValid(chains[m.mine])
    BY <1>11 DEF MinerVerify, ReturnError, IsValid
  <2> QED
    BY <1>11, <2>1 DEF MinerVerify, heapVars, sharedVars
<1>12. CASE MinerPrepare
  <2> DEFINE blk == block_create(<<MintingTransaction(MinerKey)>>, 0,
                      block_hash(linked_list_get_last(chains[m.mine].blocks)))
  <2>1. /\ blk.prev = block_hash(linked_list_get_last(chains[m.mine].blocks))
        /\ blk.txs = <<MintingTransaction(MinerKey)>>
    BY DEF block_create
  <2>2. /\ m'.mine = m.mine /\ m'.target = m.target
        /\ \/ m'.pc = "returned"
           \/ m'.pc = "enter" /\ m'.block = blk /\ chains[m.mine].blocks # <<>>
    BY <1>12 DEF MinerPrepare, ReturnError
  <2> HIDE DEF blk
  <2> QED
    BY <1>12, <2>1, <2>2 DEF MinerPrepare, heapVars, sharedVars
<1>13. CASE MinerEnter
  BY <1>13 DEF MinerEnter
<1>14. CASE MinerStopCheck
  BY <1>14 DEF MinerStopCheck, GoTo, MineBlockFails
<1>15. CASE MinerVersionCheck
  <2>1. \/ m' = [m EXCEPT !.pc = "loop", !.block = NoBlock, !.code = "SUCCESS"]
        \/ m' = [m EXCEPT !.pc = "hash"]
    BY <1>15, Zenon DEF MinerVersionCheck, GoTo, MineBlockFails
  <2> QED
    BY <1>15, <2>1 DEF MinerVersionCheck
<1>16. CASE MinerHash
  <2>1. /\ m'.mine = m.mine /\ m'.target = m.target
        /\ \/ m'.pc = "returned"
           \/ /\ m'.pc = "stopCheck"
              /\ m'.block.prev = m.block.prev /\ m'.block.txs = m.block.txs
           \/ /\ m'.pc = "add"
              /\ m'.block.prev = m.block.prev /\ m'.block.txs = m.block.txs
              /\ m'.block.zeros >= chains[m.target].zeros
    <3>1. CASE ReturnError("FAILURE_LIBRARY")
      BY <3>1 DEF ReturnError
    <3>2. ASSUME NEW y \in HashZeros,
                 LET blk == [m.block EXCEPT !.zeros = y] IN
                 IF blockchain_is_valid_block_hash(chains[m.target], blk)
                 THEN m' = [m EXCEPT !.pc = "add", !.block = blk]
                 ELSE m' = [m EXCEPT !.pc = "stopCheck", !.block.proof = @ + 1]
          PROVE  /\ m'.mine = m.mine /\ m'.target = m.target
                 /\ m'.block.prev = m.block.prev /\ m'.block.txs = m.block.txs
                 /\ \/ m'.pc = "stopCheck"
                    \/ m'.pc = "add" /\ m'.block.zeros >= chains[m.target].zeros
      <4>1. m.block \in Block
        OBVIOUS
      <4>2. CASE m' = [m EXCEPT !.pc = "stopCheck", !.block.proof = @ + 1]
        BY <4>1, <4>2 DEF Block
      <4>3. CASE /\ blockchain_is_valid_block_hash(chains[m.target],
                                                   [m.block EXCEPT !.zeros = y])
                 /\ m' = [m EXCEPT !.pc = "add",
                                   !.block = [m.block EXCEPT !.zeros = y]]
        BY <4>1, <4>3 DEF blockchain_is_valid_block_hash, Block
      <4> QED
        BY <3>2, <4>2, <4>3
    <3> QED
      BY <1>16, <3>1, <3>2 DEF MinerHash
  <2> QED
    BY <1>16, <2>1 DEF MinerHash, heapVars, sharedVars
<1>17. CASE MinerAdd
  <2>1. m.pc = "add" /\ syncRef' = syncRef
    BY <1>17 DEF MinerAdd, sharedVars
  <2>2. /\ m'.mine = m.mine /\ m'.target = m.target
        /\ m'.pc \in {"open", "loop", "returned"}
    BY <1>17 DEF MinerAdd, ReturnError
  <2>3. CASE UNCHANGED chains
    BY <2>1, <2>2, <2>3
  <2>4. CASE chains' = [chains EXCEPT ![m.mine] =
                                        blockchain_add_block(@, m.block)]
    <3> DEFINE new == blockchain_add_block(chains[m.mine], m.block)
    <3>1. IsValid(new)
      BY <2>1, AddedBlockIsValid
    <3>2. new.zeros = z
      BY DEF blockchain_add_block, Chain
    <3> HIDE DEF new
    <3>3. chains' = [chains EXCEPT ![m.mine] = new]
      BY <2>4 DEF new
    <3>4. \A r \in 1..Len(chains) :
            chains'[r] = IF r = m.mine THEN new ELSE chains[r]
      BY <3>3
    <3> QED
      BY <2>1, <2>2, <3>1, <3>2, <3>4 DEF Ref
  <2> QED
    BY <1>17, <2>3, <2>4 DEF MinerAdd
<1>18. CASE MinerOpen
  BY <1>18 DEF MinerOpen, GoTo, heapVars, sharedVars
<1>19. CASE MinerWrite
  BY <1>19 DEF MinerWrite, GoTo
<1>20. CASE MinerExit
  BY <1>20 DEF MinerExit, GoTo
<1> QED
  BY <1>3, <1>4, <1>5, <1>6, <1>7, <1>8, <1>9, <1>10, <1>11, <1>12, <1>13,
     <1>14, <1>15, <1>16, <1>17, <1>18, <1>19, <1>20 DEF MinerNext
=============================================================================
