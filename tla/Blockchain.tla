----------------------------- MODULE Blockchain -----------------------------
(***************************************************************************)
(* Transactions, blocks and blockchains as values, and the functions of    *)
(* block.c, transaction.c and blockchain.c that compute on them.           *)
(*                                                                         *)
(* SHA-256 is taken to be collision free: the digest of a block is the     *)
(* path of block contents that leads to it, so two blocks have the same    *)
(* digest only if they and all they commit to are the same.  The digest's  *)
(* number of leading zero bytes is the field "zeros" of the block: it      *)
(* stands for what proof_of_work and created_at together achieve.          *)
(***************************************************************************)
EXTENDS Integers, Sequences

CONSTANTS Key,           \* the contents an ssh_key_t can have
          UnreadableKey  \* those that OpenSSL cannot parse as a public key

ASSUME KeyAssumption == UnreadableKey \subseteq Key

GENESIS_BLOCK_PROOF_OF_WORK == 2017
AMOUNT_GENERATED_DURING_MINTING == 1

\* "signed": sender_signature is the sender's signature of the other fields.
Transaction == [sender: Key, recipient: Key, amount: Nat, signed: BOOLEAN]

Digest == Seq([proof: Nat, zeros: Nat, txs: Seq(Transaction)])
EmptyDigest == <<>>

Block == [prev: Digest, proof: Nat, zeros: Nat, txs: Seq(Transaction)]

\* zeros: num_leading_zero_bytes_required_in_block_hash.
Chain == [blocks: Seq(Block), zeros: Nat]
-----------------------------------------------------------------------------
block_hash(b) ==
  Append(b.prev, [proof |-> b.proof, zeros |-> b.zeros, txs |-> b.txs])

\* Mutant: the proof of work is off by one.
block_create_OffByOne(txs, proof, prev) ==
  [prev |-> prev, proof |-> proof - 1, zeros |-> 0, txs |-> txs]

block_create(txs, proof, prev) ==
  [prev |-> prev, proof |-> proof, zeros |-> 0, txs |-> txs]

block_create_genesis_block ==
  block_create(<<>>, GENESIS_BLOCK_PROOF_OF_WORK, EmptyDigest)

\* Mutant: the first node instead of the last.
linked_list_get_last_First(list) == list[1]

linked_list_get_last(list) == list[Len(list)]

blockchain_create(zeros) == [blocks |-> <<>>, zeros |-> zeros]

blockchain_add_block(c, b) == [c EXCEPT !.blocks = Append(@, b)]

blockchain_is_valid_block_hash(c, b) == b.zeros >= c.zeros

\* transaction_create with the miner's own key as sender and recipient.  The
\* private key it signs with is taken to be the one of this public key.
MintingTransaction(key) ==
  [sender |-> key, recipient |-> key,
   amount |-> AMOUNT_GENERATED_DURING_MINTING, signed |-> TRUE]

IsMinting(t) == /\ t.amount = AMOUNT_GENERATED_DURING_MINTING
                /\ t.sender = t.recipient
-----------------------------------------------------------------------------
(***************************************************************************)
(* blockchain_verify.  The loop over the blocks stops at the first block   *)
(* whose verdict is not "ok"; the loop over a block's transactions stops   *)
(* at the first one that OpenSSL cannot check or whose signature is wrong. *)
(***************************************************************************)
transaction_verify_signature(t) ==
  IF t.sender \in UnreadableKey THEN "error"
  ELSE IF t.signed THEN "ok" ELSE "invalid"

\* Mutant: the loop goes on after a failure, so the last one is reported.
First_Last(I) == CHOOSE i \in I : \A j \in I : j <= i

First(I) == CHOOSE i \in I : \A j \in I : i <= j

\* Mutant: only the signature of the minting transaction is checked.
SignaturesVerdict_MintingOnly(txs) == transaction_verify_signature(txs[1])

SignaturesVerdict(txs) ==
  LET bad == {i \in 1..Len(txs) : transaction_verify_signature(txs[i]) # "ok"}
  IN  IF bad = {} THEN "ok" ELSE transaction_verify_signature(txs[First(bad)])

GenesisVerdict(b) ==
  IF /\ b.txs = <<>>
     /\ b.proof = GENESIS_BLOCK_PROOF_OF_WORK
     /\ b.prev = EmptyDigest
  THEN "ok" ELSE "invalid"

\* "unreported": found invalid, but *first_invalid_block is not filled in.
BlockVerdict(c, i) ==
  LET b == c.blocks[i] IN
  CASE i = 1 -> GenesisVerdict(b)
    [] OTHER ->
         IF \/ ~blockchain_is_valid_block_hash(c, b)
            \/ b.prev # block_hash(c.blocks[i - 1])
         THEN "invalid"
         ELSE IF b.txs = <<>> THEN "unreported"
         ELSE IF ~IsMinting(b.txs[1]) THEN "invalid"
         ELSE SignaturesVerdict(b.txs)

\* code, *is_valid_blockchain and the index of *first_invalid_block; 0 is an
\* out parameter that keeps the NULL (or FALSE) its caller put there.
blockchain_verify(c) ==
  LET bad == {i \in 1..Len(c.blocks) : BlockVerdict(c, i) # "ok"} IN
  IF bad = {} THEN [code |-> "SUCCESS", valid |-> TRUE, first |-> 0]
  ELSE LET i == First(bad) IN
       CASE BlockVerdict(c, i) = "error" ->
              [code |-> "FAILURE_OPENSSL_FUNCTION", valid |-> FALSE, first |-> 0]
         [] BlockVerdict(c, i) = "unreported" ->
              [code |-> "SUCCESS", valid |-> FALSE, first |-> 0]
         [] OTHER ->
              [code |-> "SUCCESS", valid |-> FALSE, first |-> i]

IsValid(c) == blockchain_verify(c).valid
=============================================================================
