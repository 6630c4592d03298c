--------------------------- MODULE ChainTransfer ----------------------------
(***************************************************************************)
(* blockchain_serialize and blockchain_deserialize with what lies between  *)
(* them: a file that blockchain_write_to_file can leave torn, or a command *)
(* of networking.c.                                                        *)
(*                                                                         *)
(* The deserializer is a loop of steps, one per allocation or group of     *)
(* fields that is given up in the same way; held names what it would have  *)
(* to free.  The many realloc calls of the serializer are one choice.      *)
(***************************************************************************)
EXTENDS Commands, FiniteSets

CONSTANTS KeyLen,       \* MAX_SSH_KEY_LENGTH
          SigLen,       \* MAX_SSH_SIGNATURE_LENGTH
          HashLen,      \* SHA256_DIGEST_LENGTH
          Chains,       \* the chains that are sent or saved
          MallocFails   \* allocations may fail

ASSUME ChainTransferAssumption ==
  /\ {KeyLen, SigLen, HashLen} \subseteq Nat \ {0}
  /\ SigLen <= KeyLen /\ SigLen < Word
  /\ MallocFails \in BOOLEAN

VARIABLES sent,      \* the chain and the number of its blocks when counted
          written,   \* its serialization
          route,     \* "file" or "network"
          file,      \* the bytes in the output file
          data,      \* the buffer that is deserialized
          d,         \* program counter and locals
          held,      \* objects allocated and not freed
          lost,      \* those of them that nothing points to any more
          bad        \* something was freed that is not held

vars == <<sent, written, route, file, data, d, held, lost, bad>>
-----------------------------------------------------------------------------
(***************************************************************************)
(* blockchain_serialize.                                                   *)
(***************************************************************************)
TransactionBytes(t) ==
  htobe64(t.created_at) \o t.sender_public_key \o t.recipient_public_key
    \o htobe64(t.amount) \o htobe64(t.length) \o t.bytes

BlockBytes(b) ==
  htobe64(b.created_at) \o b.previous_block_hash \o htobe64(b.proof_of_work)
    \o htobe64(Len(b.transaction_list))
    \o FlattenSeq([i \in 1..Len(b.transaction_list) |->
                     TransactionBytes(b.transaction_list[i])])

\* Mutant: one block is not counted.
blockchain_serialize_Short(chain, num_blocks) ==
  htobe64(chain.zeros) \o htobe64(num_blocks - 1)
    \o FlattenSeq([i \in 1..Len(chain.blocks) |-> BlockBytes(chain.blocks[i])])

\* num_blocks was counted before the walk; blocks may have come since.
blockchain_serialize(chain, num_blocks) ==
  htobe64(chain.zeros) \o htobe64(num_blocks)
    \o FlattenSeq([i \in 1..Len(chain.blocks) |-> BlockBytes(chain.blocks[i])])

\* The chains that programs keep, with the arrays of their structs in full
\* length.  They were in memory already, so their serialization fits too.
SentTransaction ==
  [created_at: Unsigned(U64), sender_public_key: [1..KeyLen -> Byte],
   recipient_public_key: [1..KeyLen -> Byte], amount: Unsigned(U64),
   length: 0..SigLen, bytes: [1..SigLen -> Byte]]
SentBlock == [created_at: Unsigned(U64), previous_block_hash: [1..HashLen -> Byte],
              proof_of_work: Unsigned(U64), transaction_list: Seq(SentTransaction)]

ASSUME ChainsAssumption ==
  \A ch \in Chains :
    /\ ch \in [zeros: Unsigned(U64), blocks: Seq(SentBlock)]
    /\ Len(ch.blocks) \in Unsigned(U64)
    /\ \A i \in 1..Len(ch.blocks) :
         Len(ch.blocks[i].transaction_list) \in Unsigned(U64)
    /\ \A n \in 1..Len(ch.blocks) :
         Len(blockchain_serialize(ch, n)) <= CallocLimit
-----------------------------------------------------------------------------
None == "none"
Start == [pc |-> "serialize", offset |-> 0, zeros |-> 0, num_blocks |-> 0,
          blocks |-> <<>>, block |-> None, num_transactions |-> 0,
          transactions |-> <<>>, transaction |-> None, code |-> None,
          result |-> None]

\* A chain that is saved is not appended to meanwhile: the miner does both.
Init ==
  /\ \E ch \in Chains, via \in {"file", "network"} :
       \E n \in 1..Len(ch.blocks) :
         /\ via = "file" => n = Len(ch.blocks)
         /\ sent = [chain |-> ch, num_blocks |-> n]
         /\ route = via
  /\ written = <<>> /\ file = <<>> /\ data = <<>>
  /\ d = Start
  /\ held = {} /\ lost = {} /\ bad = FALSE

Object == {"buffer", "FILE", "data", "chain", "list", "transaction", "block"}
TransactionType ==
  [created_at: Nat, sender_public_key: Seq(Byte), recipient_public_key: Seq(Byte),
   amount: Nat, length: Nat, bytes: Seq(Byte \cup {Garbage})]
BlockType == [created_at: Nat, previous_block_hash: Seq(Byte),
              proof_of_work: Nat, transaction_list: Seq(TransactionType)]

TypeOK ==
  /\ data \in Seq(Byte) /\ file \in Seq(Byte) /\ written \in Seq(Byte)
  /\ held \subseteq Object /\ lost \subseteq held
  /\ {d.offset, d.zeros, d.num_blocks, d.num_transactions} \subseteq Nat
  /\ d.blocks \in Seq(BlockType)
  /\ d.transactions \in Seq(TransactionType)
-----------------------------------------------------------------------------
GoTo(pc) == d' = [d EXCEPT !.pc = pc]

\* Frees what the error path of the code frees.
Fail(code, frees) ==
  /\ d' = [d EXCEPT !.pc = "return", !.code = code]
  /\ held' = held \ frees
  /\ bad' = (bad \/ ~(frees \subseteq held))

Hold(object) == held' = held \cup {object} /\ UNCHANGED bad

Fits(size) == d.offset + size <= Len(data)

OutOfMemory(frees) == MallocFails /\ Fail("FAILURE_COULD_NOT_MALLOC", frees)

\* calloc fails, or a realloc: that loses the buffer.
Serialize ==
  /\ d.pc = "serialize"
  /\ \/ /\ written' = blockchain_serialize(sent.chain, sent.num_blocks)
        /\ GoTo(IF route = "file" THEN "open" ELSE "command")
        /\ Hold("buffer")
        /\ UNCHANGED lost
     \/ /\ MallocFails
        /\ d' = [d EXCEPT !.pc = "done", !.code = "FAILURE_COULD_NOT_MALLOC"]
        /\ held' \in {{}, {"buffer"}} /\ lost' = held'
        /\ UNCHANGED <<written, bad>>
  /\ UNCHANGED <<sent, route, file, data>>

\* The bytes travel whole: Exchange has the rest.  Both ends are shown as
\* one; the buffers are freed by their programs.
SendAndReceive ==
  LET received == command_send_blockchain_deserialize(
                    command_send_blockchain_serialize(written)) IN
  /\ d.pc = "command"
  /\ IF received.code # "SUCCESS"
     THEN Fail(received.code, {"buffer"}) /\ UNCHANGED data
     ELSE /\ data' = received.value
          /\ held' = {"data"}
          /\ GoTo("header")
          /\ UNCHANGED bad
  /\ UNCHANGED <<sent, written, route, file, lost>>

\* fopen empties the file, or fails: then the buffer is not freed.
OpenFile ==
  /\ d.pc = "open"
  /\ \/ /\ file' = <<>>
        /\ GoTo("write")
        /\ UNCHANGED lost
     \/ /\ d' = [d EXCEPT !.pc = "done", !.code = "FAILURE_FILE_IO"]
        /\ lost' = held
        /\ UNCHANGED file
  /\ UNCHANGED <<sent, written, route, data, held, bad>>

\* Everything is written, or the device is full, or the program dies.
WriteFile ==
  /\ d.pc = "write"
  /\ \E n \in 0..Len(written) : file' = SubSeq(written, 1, n)
  /\ held' = {}
  /\ GoTo("read")
  /\ UNCHANGED <<sent, written, route, data, lost, bad>>

\* blockchain_read_from_file up to the deserializer.
ReadFile ==
  /\ d.pc = "read"
  /\ \/ /\ data' = file
        /\ held' = {"data", "FILE"}
        /\ GoTo("header")
        /\ UNCHANGED lost
     \/ /\ d' = [d EXCEPT !.pc = "done", !.code = "FAILURE_FILE_IO"]
        /\ UNCHANGED <<data, held, lost>>
     \/ /\ MallocFails
        /\ d' = [d EXCEPT !.pc = "done", !.code = "FAILURE_COULD_NOT_MALLOC"]
        /\ held' = {"FILE"} /\ lost' = {"FILE"}
        /\ UNCHANGED data
  /\ UNCHANGED <<sent, written, route, file, bad>>
-----------------------------------------------------------------------------
(***************************************************************************)
(* blockchain_deserialize.  Every field is checked before it is read; the  *)
(* checks of neighbouring fields fail in the same way.                     *)
(***************************************************************************)
Deserializing == UNCHANGED <<sent, written, route, file, data, lost>>

ReadChainHeader ==
  /\ d.pc = "header"
  /\ \/ /\ ~Fits(U64)
        /\ Fail("FAILURE_BUFFER_TOO_SMALL", {})
     \/ /\ Fits(U64)
        /\ OutOfMemory({})
     \/ /\ Fits(U64) /\ ~Fits(2 * U64)
        /\ Fail("FAILURE_BUFFER_TOO_SMALL", {})
     \/ /\ Fits(2 * U64)
        /\ Hold("chain")
        /\ d' = [d EXCEPT !.pc = "block", !.offset = 2 * U64,
                          !.zeros = Number(data, 0, U64),
                          !.num_blocks = Number(data, U64, U64)]
  /\ Deserializing

BlockHeaderSize == 3 * U64 + HashLen

BlockAt(offset) ==
  [created_at          |-> Number(data, offset, U64),
   previous_block_hash |-> Bytes(data, offset + U64, HashLen),
   proof_of_work       |-> Number(data, offset + U64 + HashLen, U64)]

\* The chain is complete.
Finish ==
  /\ d.pc = "block" /\ Len(d.blocks) >= d.num_blocks
  /\ d' = [d EXCEPT !.pc = "return", !.code = "SUCCESS",
                    !.result = [zeros |-> d.zeros, blocks |-> d.blocks]]
  /\ UNCHANGED <<held, bad>>
  /\ Deserializing

\* Mutant: nothing is checked.
BlockHeaderFits_Always == TRUE

BlockHeaderFits == Fits(BlockHeaderSize)

\* The fields of a block, and linked_list_create.
ReadBlockHeader ==
  /\ d.pc = "block" /\ Len(d.blocks) < d.num_blocks
  /\ \/ /\ ~BlockHeaderFits
        /\ Fail("FAILURE_BUFFER_TOO_SMALL", {"chain"})
     \/ /\ BlockHeaderFits
        /\ OutOfMemory({"chain"})
     \/ /\ BlockHeaderFits
        /\ Hold("list")
        /\ d' = [d EXCEPT !.pc = "transaction", !.block = BlockAt(d.offset),
                          !.offset = @ + BlockHeaderSize,
                          !.num_transactions =
                             Number(data, d.offset + BlockHeaderSize - U64, U64),
                          !.transactions = <<>>]
  /\ Deserializing

AllocateTransaction ==
  /\ d.pc = "transaction" /\ Len(d.transactions) < d.num_transactions
  /\ \/ Hold("transaction") /\ GoTo("fields")
     \/ OutOfMemory({"chain", "list"})
  /\ Deserializing

\* The fields of a transaction before its signature's bytes.
FixedSize == 3 * U64 + 2 * KeyLen
SignatureLength == Number(data, d.offset + FixedSize - U64, U64)

TransactionAt(offset) ==
  [created_at           |-> Number(data, offset, U64),
   sender_public_key    |-> Bytes(data, offset + U64, KeyLen),
   recipient_public_key |-> Bytes(data, offset + U64 + KeyLen, KeyLen),
   amount               |-> Number(data, offset + U64 + 2 * KeyLen, U64),
   length               |-> SignatureLength,
   bytes                |-> Bytes(data, offset + FixedSize, SigLen)]

\* Mutant: the bytes of the signature are not checked at all.
TransactionCode_Fixed ==
  IF ~Fits(FixedSize) THEN "FAILURE_BUFFER_TOO_SMALL" ELSE "SUCCESS"

\* The limit is that of a key, and only the used bytes have to be there.
TransactionCode ==
  IF ~Fits(FixedSize) THEN "FAILURE_BUFFER_TOO_SMALL"
  ELSE IF SignatureLength > KeyLen THEN "FAILURE_SIGNATURE_TOO_LONG"
  ELSE IF ~Fits(FixedSize + SignatureLength) THEN "FAILURE_BUFFER_TOO_SMALL"
  ELSE "SUCCESS"

\* All bytes of a signature are read, past the end of the buffer if need be:
\* that finds something or kills the program.
ReadTransaction ==
  /\ d.pc = "fields"
  /\ \/ /\ TransactionCode # "SUCCESS"
        /\ Fail(TransactionCode, {"chain", "list", "transaction"})
     \/ /\ TransactionCode = "SUCCESS"
        /\ d' = [d EXCEPT !.pc = "append", !.transaction = TransactionAt(d.offset),
                          !.offset = @ + FixedSize + SigLen]
        /\ UNCHANGED <<held, bad>>
     \/ /\ TransactionCode = "SUCCESS" /\ ~Fits(FixedSize + SigLen)
        /\ GoTo("killed")
        /\ held' = {}
        /\ UNCHANGED bad
  /\ Deserializing

\* Mutant: the transaction is not freed when there is no memory for a node.
AppendTransaction_Keeps ==
  /\ d.pc = "append"
  /\ \/ /\ d' = [d EXCEPT !.pc = "transaction",
                          !.transactions = Append(@, d.transaction)]
        /\ held' = held \ {"transaction"}
        /\ UNCHANGED bad
     \/ OutOfMemory({"chain", "list"})
  /\ Deserializing

\* The transaction now belongs to the list.
AppendTransaction ==
  /\ d.pc = "append"
  /\ \/ /\ d' = [d EXCEPT !.pc = "transaction",
                          !.transactions = Append(@, d.transaction)]
        /\ held' = held \ {"transaction"}
        /\ UNCHANGED bad
     \/ OutOfMemory({"chain", "list", "transaction"})
  /\ Deserializing

\* The list now belongs to the block.
CreateBlock ==
  /\ d.pc = "transaction" /\ Len(d.transactions) >= d.num_transactions
  /\ \/ /\ GoTo("add")
        /\ held' = (held \ {"list"}) \cup {"block"}
        /\ UNCHANGED bad
     \/ OutOfMemory({"chain", "list"})
  /\ Deserializing

\* blockchain_add_block: the block now belongs to the chain.
AddBlock ==
  /\ d.pc = "add"
  /\ \/ /\ d' = [d EXCEPT !.pc = "block",
                   !.blocks = Append(@,
                     [created_at          |-> d.block.created_at,
                      previous_block_hash |-> d.block.previous_block_hash,
                      proof_of_work       |-> d.block.proof_of_work,
                      transaction_list    |-> d.transactions])]
        /\ held' = held \ {"block"}
        /\ UNCHANGED bad
     \/ OutOfMemory({"chain", "block"})
  /\ Deserializing

\* The caller frees its buffer: here for blockchain_read_from_file.
CallerCleansUp ==
  /\ d.pc = "return"
  /\ GoTo("done")
  /\ held' = held \ {"data", "FILE"}
  /\ Deserializing /\ UNCHANGED bad

Next == \/ Serialize \/ SendAndReceive \/ OpenFile \/ WriteFile \/ ReadFile
        \/ ReadChainHeader \/ Finish \/ ReadBlockHeader \/ AllocateTransaction
        \/ ReadTransaction \/ AppendTransaction \/ CreateBlock \/ AddBlock
        \/ CallerCleansUp

Spec == Init /\ [][Next]_vars
-----------------------------------------------------------------------------
\* The chain that blockchain_deserialize should rebuild.
Expected == [zeros  |-> sent.chain.zeros,
             blocks |-> SubSeq(sent.chain.blocks, 1, sent.num_blocks)]

\* t without the bytes of its signature that are not in use.
Used(t) == [t EXCEPT !.bytes = SubSeq(@, 1, t.length)]
Meaning(chain) ==
  [i \in 1..Len(chain.blocks) |->
     [chain.blocks[i] EXCEPT !.transaction_list =
        [j \in 1..Len(@) |-> Used(@[j])]]]

(***************************************************************************)
(* blockchain.h: callers "reconstruct the original blockchain with         *)
(* blockchain_deserialize": a buffer that arrives whole is accepted, and   *)
(* gives the blocks that were there when they were counted, though the     *)
(* miner has appended others behind them.                                  *)
(***************************************************************************)
WholeChainArrives ==
  d.pc = "done" /\ data # <<>> /\ data = written
    => \/ d.code = "FAILURE_COULD_NOT_MALLOC"
       \/ d.code = "SUCCESS" /\ d.result = Expected

(***************************************************************************)
(* A chain that blockchain_deserialize accepts is the one that was saved   *)
(* or sent, wherever the file was torn: what can be missing are bytes of   *)
(* the last signature that are not in use.                                 *)
(***************************************************************************)
AcceptedChainIsSent ==
  d.code = "SUCCESS" => /\ d.result.zeros = Expected.zeros
                        /\ Meaning(d.result) = Meaning(Expected)

(***************************************************************************)
(* Every return of the deserializer has freed what it allocated, and       *)
(* nothing twice: chain, list, transaction and block change owners on the  *)
(* way.  Three leaks around it are marked as lost.                         *)
(***************************************************************************)
MemoryIsReturned ==
  /\ ~bad
  /\ d.pc = "done" =>
       held \ lost = (IF d.code = "SUCCESS" THEN {"chain"} ELSE {})

(***************************************************************************)
(* test_blockchain_deserialize_fails_on_attempted_read_past_buffer: a      *)
(* file that is too short by some bytes is not accepted.                   *)
(***************************************************************************)
TornFileIsRefused ==
  d.pc = "done" /\ data # <<>> /\ Len(data) < Len(written)
    => d.code # "SUCCESS"
=============================================================================
