-------------------------- MODULE BlockchainVerify --------------------------
(***************************************************************************)
(* blockchain_verify against the four conditions that blockchain.h gives   *)
(* for a valid blockchain, over every chain that a sequence of calls of    *)
(* blockchain_add_block can build from a set of candidate blocks, as       *)
(* blockchain_deserialize does with whatever a peer or a file holds.       *)
(***************************************************************************)
EXTENDS Blockchain

CONSTANTS MaxLength,          \* bound: blocks in the chain
          RequiredZeros,      \* values of num_leading_zero_bytes_required...
          CandidateZeros,     \* leading zero bytes of a candidate's hash
          CandidateProofs,    \* its proof_of_work
          CandidateTxs        \* its transaction_list

ASSUME VerifyAssumption ==
  /\ MaxLength \in Nat
  /\ RequiredZeros \subseteq Nat
  /\ CandidateZeros \subseteq Nat
  /\ CandidateProofs \subseteq Nat
  /\ CandidateTxs \subseteq Seq(Transaction)

VARIABLE chain

LastHash(c) ==
  IF c.blocks = <<>> THEN EmptyDigest
  ELSE block_hash(linked_list_get_last(c.blocks))

VerifyInit == \E z \in RequiredZeros : chain = blockchain_create(z)

\* The previous block hash is right, or that of the first block.
AddBlock ==
  /\ Len(chain.blocks) < MaxLength
  /\ \E z \in CandidateZeros, p \in CandidateProofs, txs \in CandidateTxs,
        prev \in {LastHash(chain), EmptyDigest} :
       chain' = blockchain_add_block(chain,
                  [block_create(txs, p, prev) EXCEPT !.zeros = z])

\* Mutant: the first hash is taken.
blockchain_mine_block_Any(c, b) ==
  {[b EXCEPT !.proof = h[1], !.zeros = h[2]] :
     h \in CandidateProofs \X CandidateZeros}

\* What block can hold when blockchain_mine_block returns SUCCESS; a stop or
\* the end of the proofs leaves its caller without one.  MiningThread has the
\* loop, proof by proof.
blockchain_mine_block(c, b) ==
  {x \in {[b EXCEPT !.proof = h[1], !.zeros = h[2]] :
            h \in CandidateProofs \X CandidateZeros} :
     blockchain_is_valid_block_hash(c, x)}

\* A minting block is mined for the end of the chain and added, as mine_blocks
\* does with the synchronized variant.
MineBlock ==
  /\ Len(chain.blocks) \in 1..(MaxLength - 1)
  /\ \E k \in Key :
       LET next == block_create(<<MintingTransaction(k)>>, 0, LastHash(chain)) IN
       \E b \in blockchain_mine_block(chain, next) :
         chain' = blockchain_add_block(chain, b)

VerifyNext == AddBlock \/ MineBlock

VerifySpec == VerifyInit /\ [][VerifyNext]_chain
-----------------------------------------------------------------------------
VerifyTypeOK == chain \in Chain

(***************************************************************************)
(* The conditions of blockchain.h, each stated of the whole chain.         *)
(***************************************************************************)
ProofsOfWork(c) ==
  \A i \in 1..Len(c.blocks) :
    IF i = 1 THEN c.blocks[i].proof = GENESIS_BLOCK_PROOF_OF_WORK
             ELSE c.blocks[i].zeros >= c.zeros

PreviousHashes(c) ==
  \A i \in 1..Len(c.blocks) :
    c.blocks[i].prev =
      IF i = 1 THEN EmptyDigest ELSE block_hash(c.blocks[i - 1])

MintingTransactions(c) ==
  \A i \in 1..Len(c.blocks) :
    IF i = 1 THEN c.blocks[i].txs = <<>>
    ELSE c.blocks[i].txs # <<>> /\ IsMinting(c.blocks[i].txs[1])

Signatures(c) ==
  \A i \in 1..Len(c.blocks) : \A j \in 1..Len(c.blocks[i].txs) :
    transaction_verify_signature(c.blocks[i].txs[j]) = "ok"

DocumentedValid(c) ==
  /\ ProofsOfWork(c)
  /\ PreviousHashes(c)
  /\ MintingTransactions(c)
  /\ Signatures(c)

Prefix(c, n) == [c EXCEPT !.blocks = SubSeq(@, 1, n)]

(***************************************************************************)
(* blockchain_verify accepts exactly the chains that meet the documented   *)
(* conditions, although it checks them block by block and stops early.     *)
(***************************************************************************)
VerifyMeetsDocumentation == IsValid(chain) <=> DocumentedValid(chain)

(***************************************************************************)
(* *first_invalid_block, when it is filled in, ends the shortest prefix    *)
(* of the chain that is not valid.                                         *)
(***************************************************************************)
FirstInvalidBlockIsFirst ==
  LET i == blockchain_verify(chain).first IN
  i # 0 => /\ ~DocumentedValid(Prefix(chain, i))
           /\ DocumentedValid(Prefix(chain, i - 1))

(***************************************************************************)
(* A block that blockchain_mine_block finds for a readable key keeps a     *)
(* valid chain valid: the hash it tests is that of the block it returns,   *)
(* and it holds it to the requirement that blockchain_verify will apply.   *)
(***************************************************************************)
MiningKeepsChainsValid ==
  [][ /\ MineBlock
      /\ IsValid(chain)
      /\ chain'.blocks[Len(chain'.blocks)].txs[1].sender \notin UnreadableKey
      => IsValid(chain') ]_chain
=============================================================================
