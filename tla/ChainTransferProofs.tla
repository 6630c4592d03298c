------------------------ MODULE ChainTransferProofs -------------------------
(***************************************************************************)
(* Every path through blockchain_deserialize, and through what reads and   *)
(* writes the files around it, frees what it allocated, once; and a chain  *)
(* that is accepted is the chain that was saved or sent.                   *)
(*                                                                         *)
(* Each error path frees a set of objects that is spelled out where it     *)
(* returns; it is right because at each place of the loop the deserializer *)
(* has exactly the objects that Owned names.  That proof uses nothing of   *)
(* the formats, so it is for buffers of any content and length.            *)
(***************************************************************************)
EXTENDS ChainTransfer, CommandsProofs

\* The caller's buffer and file.
Caller == {"data", "FILE"}

\* What blockchain_deserialize has allocated and not handed on.
Owned == CASE d.pc = "block" -> {"chain"}
           [] d.pc = "transaction" -> {"chain", "list"}
           [] d.pc \in {"fields", "append"} -> {"chain", "list", "transaction"}
           [] d.pc = "add" -> {"chain", "block"}
           [] d.pc = "return" /\ d.code = "SUCCESS" -> {"chain"}
           [] OTHER -> {}

\* What is held, place by place.
HeldAtPlace ==
  /\ d.pc \in {"serialize", "read", "killed"} => held = {}
  /\ d.pc \in {"open", "command", "write"} => held = {"buffer"}
  /\ d.pc \in {"header", "block", "transaction", "fields", "append", "add",
               "return"}
       => Owned \subseteq held /\ held \subseteq Owned \cup Caller

\* The inductive invariant.
TransferInv ==
  /\ d = [f \in DOMAIN Start |-> d[f]]
  /\ d.pc \in {"serialize", "command", "open", "write", "read", "header",
               "block", "transaction", "fields", "append", "add", "return",
               "done", "killed"}
  /\ d.pc # "done" => lost = {}
  /\ HeldAtPlace
  /\ MemoryIsReturned

\* An assignment to some of the locals changes no others.
LEMMA Fields ==
  ASSUME TransferInv, NEW pc, NEW code,
         \/ d' = [d EXCEPT !.pc = pc, !.code = code]
         \/ d' = [d EXCEPT !.pc = pc] /\ code = d.code
  PROVE  /\ d' = [f \in DOMAIN Start |-> d'[f]]
         /\ d'.pc = pc /\ d'.code = code
<1>1. "pc" \in DOMAIN Start /\ "code" \in DOMAIN Start
  BY DEF Start
<1>2. d = [f \in DOMAIN Start |-> d[f]]
  BY DEF TransferInv
<1> QED
  BY <1>1, <1>2

\* The transfer starts with nothing allocated.
LEMMA InitInv == Init => TransferInv
<1> SUFFICES ASSUME Init PROVE TransferInv
  OBVIOUS
<1>1. /\ d = Start /\ held = {} /\ lost = {} /\ bad = FALSE
  BY Zenon DEF Init
<1>2. d = [f \in DOMAIN Start |-> d[f]] /\ d.pc = "serialize"
  BY <1>1 DEF Start
<1> QED
  BY <1>1, <1>2 DEF TransferInv, HeldAtPlace, MemoryIsReturned

\* An error path frees what is owned where it starts.
LEMMA FailInv ==
  ASSUME TransferInv, NEW code, code # "SUCCESS", NEW frees, Fail(code, frees),
         frees \subseteq held, held \ frees \subseteq Caller,
         d.pc # "done", lost' = lost
  PROVE  TransferInv'
<1>1. /\ d' = [f \in DOMAIN Start |-> d'[f]]
      /\ d'.pc = "return" /\ d'.code = code
  BY Fields DEF Fail
<1>2. held' \subseteq Caller
  BY DEF Fail
<1>3. ~bad'
  BY Zenon DEF TransferInv, MemoryIsReturned, Fail
<1>4. Owned' = {}
  BY <1>1 DEF Owned
<1>5. HeldAtPlace'
  BY <1>1, <1>2, <1>4 DEF HeldAtPlace
<1>6. MemoryIsReturned'
  BY <1>1, <1>3 DEF MemoryIsReturned
<1>7. lost' = {}
  BY DEF TransferInv
<1> QED
  BY <1>1, <1>5, <1>6, <1>7 DEF TransferInv

\* The places in the deserializer.
Places == {"header", "block", "transaction", "fields", "append", "add",
           "return"}

\* A step of the deserializer goes on with what the next place needs.
LEMMA GoesOnInv ==
  ASSUME TransferInv, d' = [f \in DOMAIN Start |-> d'[f]],
         d'.pc \in Places, Owned' \subseteq held',
         held' \subseteq Owned' \cup Caller,
         UNCHANGED <<lost, bad>>, d.pc # "done"
  PROVE  TransferInv'
<1>1. HeldAtPlace'
  BY DEF HeldAtPlace, Places
<1>2. MemoryIsReturned'
  BY DEF TransferInv, MemoryIsReturned, Places
<1> QED
  BY <1>1, <1>2 DEF TransferInv, Places

\* blockchain_serialize, and the way to a file and back.
LEMMA FileInv ==
  ASSUME TransferInv, Serialize \/ OpenFile \/ WriteFile \/ ReadFile
  PROVE  TransferInv'
<1>1. /\ d.pc \in {"serialize", "open", "write", "read"} /\ lost = {}
      /\ ~bad /\ UNCHANGED bad
      /\ held = (IF d.pc \in {"serialize", "read"} THEN {} ELSE {"buffer"})
  <2>1. d.pc \in {"serialize", "open", "write", "read"}
    BY DEF Serialize, OpenFile, WriteFile, ReadFile
  <2>2. ~bad
    BY Zenon DEF TransferInv, MemoryIsReturned
  <2>3. UNCHANGED bad
    BY DEF Serialize, OpenFile, WriteFile, ReadFile, Hold
  <2> QED
    BY <2>1, <2>2, <2>3 DEF TransferInv, HeldAtPlace
<1>2. ASSUME NEW pc, pc \in {"open", "command", "write", "read", "header"},
             GoTo(pc), lost' = lost
      PROVE  /\ d' = [f \in DOMAIN Start |-> d'[f]]
             /\ d'.pc = pc /\ lost' = {} /\ ~bad'
             /\ Owned' = {}
  <2>1. d' = [f \in DOMAIN Start |-> d'[f]] /\ d'.pc = pc
    BY <1>2, Fields DEF GoTo
  <2> QED
    BY <1>1, <1>2, <2>1 DEF Owned
<1>3. ASSUME NEW code, code # "SUCCESS",
             d' = [d EXCEPT !.pc = "done", !.code = code], held' \subseteq lost'
      PROVE  TransferInv'
  <2>1. /\ d' = [f \in DOMAIN Start |-> d'[f]]
        /\ d'.pc = "done" /\ d'.code = code
    BY <1>3, Fields
  <2>2. held' \ lost' = {}
    BY <1>3
  <2> QED
    BY <1>1, <1>3, <2>1, <2>2 DEF TransferInv, HeldAtPlace, MemoryIsReturned
<1>4. ASSUME NEW pc, pc \in {"open", "command", "write", "read", "header"},
             GoTo(pc), lost' = lost,
             held' = (IF pc = "read" THEN {}
                      ELSE IF pc = "header" THEN Caller ELSE {"buffer"})
      PROVE  TransferInv'
  <2>1. /\ d' = [f \in DOMAIN Start |-> d'[f]]
        /\ d'.pc = pc /\ lost' = {} /\ ~bad' /\ Owned' = {}
    BY <1>2, <1>4
  <2>2. HeldAtPlace'
    BY <1>4, <2>1 DEF HeldAtPlace
  <2> QED
    BY <1>4, <2>1, <2>2 DEF TransferInv, MemoryIsReturned
<1>5. CASE Serialize
  <2>1. held = {}
    BY <1>1, <1>5 DEF Serialize
  <2>2. CASE /\ GoTo(IF route = "file" THEN "open" ELSE "command")
             /\ Hold("buffer") /\ UNCHANGED lost
    BY <1>4, <2>1, <2>2 DEF Hold
  <2>3. CASE /\ d' = [d EXCEPT !.pc = "done",
                               !.code = "FAILURE_COULD_NOT_MALLOC"]
             /\ lost' = held'
    BY <1>3, <2>3
  <2> QED
    BY <1>5, <2>2, <2>3 DEF Serialize
<1>6. CASE OpenFile
  <2>1. held = {"buffer"} /\ held' = held
    BY <1>1, <1>6 DEF OpenFile
  <2>2. CASE GoTo("write") /\ UNCHANGED lost
    BY <1>4, <2>1, <2>2
  <2>3. CASE /\ d' = [d EXCEPT !.pc = "done", !.code = "FAILURE_FILE_IO"]
             /\ lost' = held
    BY <1>3, <2>1, <2>3
  <2> QED
    BY <1>6, <2>2, <2>3 DEF OpenFile
<1>7. CASE WriteFile
  <2>1. held' = {} /\ GoTo("read") /\ lost' = lost
    BY <1>7 DEF WriteFile
  <2> QED
    BY <1>4, <2>1
<1>8. CASE ReadFile
  <2>1. held = {}
    BY <1>1, <1>8 DEF ReadFile
  <2>2. CASE held' = {"data", "FILE"} /\ GoTo("header") /\ UNCHANGED lost
    BY <1>4, <2>2 DEF Caller
  <2>3. CASE /\ d' = [d EXCEPT !.pc = "done", !.code = "FAILURE_FILE_IO"]
             /\ UNCHANGED <<held, lost>>
    BY <1>1, <1>3, <2>1, <2>3
  <2>4. CASE /\ d' = [d EXCEPT !.pc = "done",
                               !.code = "FAILURE_COULD_NOT_MALLOC"]
             /\ held' = {"FILE"} /\ lost' = {"FILE"}
    BY <1>3, <2>4
  <2> QED
    BY <1>8, <2>2, <2>3, <2>4 DEF ReadFile
<1> QED
  BY <1>5, <1>6, <1>7, <1>8

\* An error path frees exactly what is owned at its place.
LEMMA FailsAtPlace ==
  ASSUME TransferInv, d.pc \in Places, NEW code, code # "SUCCESS",
         Fail(code, Owned), lost' = lost
  PROVE  TransferInv'
<1>1. Owned \subseteq held /\ held \ Owned \subseteq Caller /\ d.pc # "done"
  BY DEF TransferInv, HeldAtPlace, Places
<1> QED
  BY <1>1, FailInv

\* The buffer is sent, or is freed with the command that could not be.
LEMMA SendAndReceiveInv ==
  ASSUME TransferInv, SendAndReceive
  PROVE  TransferInv'
<1> DEFINE received == command_send_blockchain_deserialize(
                         command_send_blockchain_serialize(written))
<1>1. d.pc = "command" /\ held = {"buffer"} /\ lost' = lost
  BY DEF SendAndReceive, TransferInv, HeldAtPlace
<1>2. CASE received.code # "SUCCESS"
  <2>1. Fail(received.code, {"buffer"})
    BY <1>2 DEF SendAndReceive
  <2> HIDE DEF received
  <2> QED
    BY <1>1, <1>2, <2>1, FailInv
<1>3. CASE received.code = "SUCCESS"
  <2>1. held' = {"data"} /\ GoTo("header") /\ UNCHANGED bad
    BY <1>3 DEF SendAndReceive
  <2> HIDE DEF received
  <2>2. d' = [f \in DOMAIN Start |-> d'[f]] /\ d'.pc = "header"
    BY <2>1, Fields DEF GoTo
  <2>3. Owned' = {}
    BY <2>2 DEF Owned
  <2> QED
    BY <1>1, <2>1, <2>2, <2>3, GoesOnInv DEF Caller, Places
<1> QED
  BY <1>2, <1>3

\* The steps that allocate nothing, or one object.
LEMMA DeserializeInv ==
  ASSUME TransferInv,
         \/ ReadChainHeader \/ Finish \/ ReadBlockHeader \/ AllocateTransaction
         \/ ReadTransaction \/ AppendTransaction \/ CreateBlock \/ AddBlock
  PROVE  TransferInv'
<1>1. /\ lost' = lost /\ d.pc \in Places
      /\ d = [f \in DOMAIN Start |-> d[f]]
  BY DEF ReadChainHeader, Finish, ReadBlockHeader, AllocateTransaction, Places,
         ReadTransaction, AppendTransaction, CreateBlock, AddBlock,
         Deserializing, TransferInv
<1>2. /\ d.pc = "header" => Owned = {}
      /\ d.pc = "block" => Owned = {"chain"}
      /\ d.pc = "transaction" => Owned = {"chain", "list"}
      /\ d.pc \in {"fields", "append"}
           => Owned = {"chain", "list", "transaction"}
      /\ d.pc = "add" => Owned = {"chain", "block"}
  BY DEF Owned
<1>3. /\ d'.pc = "block" => Owned' = {"chain"}
      /\ d'.pc = "transaction" => Owned' = {"chain", "list"}
      /\ d'.pc \in {"fields", "append"}
           => Owned' = {"chain", "list", "transaction"}
      /\ d'.pc = "add" => Owned' = {"chain", "block"}
      /\ d'.pc = "return" /\ d'.code = "SUCCESS" => Owned' = {"chain"}
  BY DEF Owned
<1>4. Owned \subseteq held /\ held \subseteq Owned \cup Caller /\ d.pc # "done"
  BY <1>1 DEF TransferInv, HeldAtPlace, Places
<1>5. DOMAIN Start = {"pc", "offset", "zeros", "num_blocks", "blocks", "block",
                      "num_transactions", "transactions", "transaction", "code",
                      "result"}
  BY DEF Start
<1>6. ASSUME NEW frees, OutOfMemory(frees), frees = Owned
      PROVE  TransferInv'
  BY <1>1, <1>6, FailsAtPlace DEF OutOfMemory
<1>7. CASE ReadChainHeader
  <2>1. d.pc = "header"
    BY <1>7 DEF ReadChainHeader
  <2>2. CASE Fail("FAILURE_BUFFER_TOO_SMALL", {})
    BY <1>1, <1>2, <2>1, <2>2, FailsAtPlace
  <2>3. CASE OutOfMemory({})
    BY <1>2, <1>6, <2>1, <2>3
  <2>4. CASE /\ Hold("chain")
             /\ d' = [d EXCEPT !.pc = "block", !.offset = 2 * U64,
                               !.zeros = Number(data, 0, U64),
                               !.num_blocks = Number(data, U64, U64)]
    <3>1. d' = [f \in DOMAIN Start |-> d'[f]] /\ d'.pc = "block"
      BY <1>1, <1>5, <2>4
    <3>2. held' = held \cup {"chain"} /\ UNCHANGED bad
      BY <2>4 DEF Hold
    <3>3. Owned' \subseteq held' /\ held' \subseteq Owned' \cup Caller
      BY <1>2, <1>3, <1>4, <2>1, <3>1, <3>2
    <3> QED
      BY <1>1, <1>4, <3>1, <3>2, <3>3, GoesOnInv DEF Places
  <2> QED
    BY <1>7, <2>2, <2>3, <2>4 DEF ReadChainHeader
<1>8. CASE Finish
  <2>1. /\ d.pc = "block" /\ UNCHANGED <<held, bad>>
        /\ d' = [d EXCEPT !.pc = "return", !.code = "SUCCESS",
                          !.result = [zeros |-> d.zeros, blocks |-> d.blocks]]
    BY <1>8 DEF Finish
  <2>2. /\ d' = [f \in DOMAIN Start |-> d'[f]]
        /\ d'.pc = "return" /\ d'.code = "SUCCESS"
    BY <1>1, <1>5, <2>1
  <2>3. Owned' \subseteq held' /\ held' \subseteq Owned' \cup Caller
    BY <1>2, <1>3, <1>4, <2>1, <2>2
  <2> QED
    BY <1>1, <1>4, <2>1, <2>2, <2>3, GoesOnInv DEF Places
<1>9. CASE ReadBlockHeader
  <2>1. d.pc = "block"
    BY <1>9 DEF ReadBlockHeader
  <2>2. CASE Fail("FAILURE_BUFFER_TOO_SMALL", {"chain"})
    BY <1>1, <1>2, <2>1, <2>2, FailsAtPlace
  <2>3. CASE OutOfMemory({"chain"})
    BY <1>2, <1>6, <2>1, <2>3
  <2>4. CASE /\ Hold("list")
             /\ d' = [d EXCEPT !.pc = "transaction", !.block = BlockAt(d.offset),
                          !.offset = @ + BlockHeaderSize,
                          !.num_transactions =
                             Number(data, d.offset + BlockHeaderSize - U64, U64),
                          !.transactions = <<>>]
    <3>1. d' = [f \in DOMAIN Start |-> d'[f]] /\ d'.pc = "transaction"
      BY <1>1, <1>5, <2>4
    <3>2. held' = held \cup {"list"} /\ UNCHANGED bad
      BY <2>4 DEF Hold
    <3>3. Owned' \subseteq held' /\ held' \subseteq Owned' \cup Caller
      BY <1>2, <1>3, <1>4, <2>1, <3>1, <3>2
    <3> QED
      BY <1>1, <1>4, <3>1, <3>2, <3>3, GoesOnInv DEF Places
  <2> QED
    BY <1>9, <2>2, <2>3, <2>4 DEF ReadBlockHeader
<1>10. CASE AllocateTransaction
  <2>1. d.pc = "transaction"
    BY <1>10 DEF AllocateTransaction
  <2>2. CASE OutOfMemory({"chain", "list"})
    BY <1>2, <1>6, <2>1, <2>2
  <2>3. CASE Hold("transaction") /\ GoTo("fields")
    <3>1. d' = [f \in DOMAIN Start |-> d'[f]] /\ d'.pc = "fields"
      BY <2>3, Fields DEF GoTo
    <3>2. held' = held \cup {"transaction"} /\ UNCHANGED bad
      BY <2>3 DEF Hold
    <3>3. Owned' \subseteq held' /\ held' \subseteq Owned' \cup Caller
      BY <1>2, <1>3, <1>4, <2>1, <3>1, <3>2
    <3> QED
      BY <1>1, <1>4, <3>1, <3>2, <3>3, GoesOnInv DEF Places
  <2> QED
    BY <1>10, <2>2, <2>3 DEF AllocateTransaction
<1>11. CASE ReadTransaction
  <2>1. d.pc = "fields"
    BY <1>11 DEF ReadTransaction
  <2>2. CASE /\ TransactionCode # "SUCCESS"
             /\ Fail(TransactionCode, {"chain", "list", "transaction"})
    BY <1>1, <1>2, <2>1, <2>2, FailsAtPlace
  <2>3. CASE /\ d' = [d EXCEPT !.pc = "append",
                               !.transaction = TransactionAt(d.offset),
                               !.offset = @ + FixedSize + SigLen]
             /\ UNCHANGED <<held, bad>>
    <3>1. d' = [f \in DOMAIN Start |-> d'[f]] /\ d'.pc = "append"
      BY <1>1, <1>5, <2>3
    <3>2. Owned' \subseteq held' /\ held' \subseteq Owned' \cup Caller
      BY <1>2, <1>3, <1>4, <2>1, <2>3, <3>1 DEF Caller
    <3> QED
      BY <1>1, <1>4, <2>3, <3>1, <3>2, GoesOnInv DEF Places
  <2>4. CASE GoTo("killed") /\ held' = {} /\ UNCHANGED bad
    <3>1. d' = [f \in DOMAIN Start |-> d'[f]] /\ d'.pc = "killed"
      BY <2>4, Fields DEF GoTo
    <3>2. HeldAtPlace'
      BY <2>4, <3>1 DEF HeldAtPlace
    <3> QED
      BY <1>1, <2>1, <2>4, <3>1, <3>2 DEF TransferInv, MemoryIsReturned
  <2> QED
    BY <1>11, <2>2, <2>3, <2>4 DEF ReadTransaction
<1>12. CASE AppendTransaction
  <2>1. d.pc = "append"
    BY <1>12 DEF AppendTransaction
  <2>2. CASE OutOfMemory({"chain", "list", "transaction"})
    BY <1>2, <1>6, <2>1, <2>2
  <2>3. CASE /\ d' = [d EXCEPT !.pc = "transaction",
                               !.transactions = Append(@, d.transaction)]
             /\ held' = held \ {"transaction"}
             /\ UNCHANGED bad
    <3>1. d' = [f \in DOMAIN Start |-> d'[f]] /\ d'.pc = "transaction"
      BY <1>1, <1>5, <2>3
    <3>2. Owned' \subseteq held' /\ held' \subseteq Owned' \cup Caller
      BY <1>2, <1>3, <1>4, <2>1, <2>3, <3>1 DEF Caller
    <3> QED
      BY <1>1, <1>4, <2>3, <3>1, <3>2, GoesOnInv DEF Places
  <2> QED
    BY <1>12, <2>2, <2>3 DEF AppendTransaction
<1>13. CASE CreateBlock
  <2>1. d.pc = "transaction"
    BY <1>13 DEF CreateBlock
  <2>2. CASE OutOfMemory({"chain", "list"})
    BY <1>2, <1>6, <2>1, <2>2
  <2>3. CASE /\ GoTo("add") /\ UNCHANGED bad
             /\ held' = (held \ {"list"}) \cup {"block"}
    <3>1. d' = [f \in DOMAIN Start |-> d'[f]] /\ d'.pc = "add"
      BY <2>3, Fields DEF GoTo
    <3>2. Owned' \subseteq held' /\ held' \subseteq Owned' \cup Caller
      BY <1>2, <1>3, <1>4, <2>1, <2>3, <3>1 DEF Caller
    <3> QED
      BY <1>1, <1>4, <2>3, <3>1, <3>2, GoesOnInv DEF Places
  <2> QED
    BY <1>13, <2>2, <2>3 DEF CreateBlock
<1>14. CASE AddBlock
  <2>1. d.pc = "add"
    BY <1>14 DEF AddBlock
  <2>2. CASE OutOfMemory({"chain", "block"})
    BY <1>2, <1>6, <2>1, <2>2
  <2>3. ASSUME NEW x, d' = [d EXCEPT !.pc = "block", !.blocks = x],
               held' = held \ {"block"}, UNCHANGED bad
        PROVE  TransferInv'
    <3>1. d' = [f \in DOMAIN Start |-> d'[f]] /\ d'.pc = "block"
      BY <1>1, <1>5, <2>3
    <3>2. Owned' \subseteq held' /\ held' \subseteq Owned' \cup Caller
      BY <1>2, <1>3, <1>4, <2>1, <2>3, <3>1 DEF Caller
    <3> QED
      BY <1>1, <1>4, <2>3, <3>1, <3>2, GoesOnInv DEF Places
  <2> QED
    BY <1>14, <2>2, <2>3 DEF AddBlock
<1> QED
  BY <1>7, <1>8, <1>9, <1>10, <1>11, <1>12, <1>13, <1>14

\* The caller frees its buffer; an accepted chain is what is left.
LEMMA CallerCleansUpInv ==
  ASSUME TransferInv, CallerCleansUp
  PROVE  TransferInv'
<1>1. /\ d.pc = "return" /\ held' = held \ Caller /\ lost' = lost
      /\ UNCHANGED bad
  BY DEF CallerCleansUp, Deserializing, Caller
<1>2. /\ d' = [f \in DOMAIN Start |-> d'[f]]
      /\ d'.pc = "done" /\ d'.code = d.code
  BY Fields DEF CallerCleansUp, GoTo
<1>3. Owned = (IF d.code = "SUCCESS" THEN {"chain"} ELSE {})
  BY <1>1 DEF Owned
<1>4. Owned \subseteq held /\ held \subseteq Owned \cup Caller /\ lost = {}
  BY <1>1 DEF TransferInv, HeldAtPlace
<1>5. held' \ lost' = (IF d.code = "SUCCESS" THEN {"chain"} ELSE {})
  BY <1>1, <1>3, <1>4 DEF Caller
<1> QED
  BY <1>1, <1>2, <1>5 DEF TransferInv, HeldAtPlace, MemoryIsReturned

\* Every step keeps the invariant.
LEMMA TransferStep == TransferInv /\ [Next]_vars => TransferInv'
<1> SUFFICES ASSUME TransferInv, [Next]_vars PROVE TransferInv'
  OBVIOUS
<1>1. CASE Next
  BY <1>1, FileInv, SendAndReceiveInv, DeserializeInv, CallerCleansUpInv
  DEF Next
<1>2. CASE UNCHANGED vars
  BY <1>2 DEF vars, TransferInv, HeldAtPlace, Owned, MemoryIsReturned
<1> QED
  BY <1>1, <1>2

(***************************************************************************)
(* Whatever is in the buffer, wherever it ends and whichever allocation    *)
(* fails, blockchain_deserialize and blockchain_read_from_file free what   *)
(* they allocated, nothing twice, and leave a chain only when they succeed.*)
(***************************************************************************)
THEOREM ReturnsFreeWhatIsOwned == Spec => []MemoryIsReturned
<1>1. TransferInv => MemoryIsReturned
  BY DEF TransferInv
<1> QED
  BY <1>1, InitInv, TransferStep, PTL DEF Spec
-----------------------------------------------------------------------------
(***************************************************************************)
(* The second part: what is read is what was sent.                         *)
(*                                                                         *)
(* The serialization of a chain is a header and its blocks, each of a size *)
(* that Layout adds up; the buffer is a beginning of it.  So wherever the  *)
(* loop of blockchain_deserialize is, its offset is that of a transaction  *)
(* or a block of the chain that was sent, and what it has read is alike.   *)
(* Only the end of a signature can be missing, and then the offset is past *)
(* the end of the buffer, so that every later check fails.                 *)
(***************************************************************************)
\* How much of a buffer a transaction and a block take up.
TransactionSize == FixedSize + SigLen
SizeOf(b) == BlockHeaderSize + Len(b.transaction_list) * TransactionSize

\* f[i] bytes are in front of the (i+1)st block.
Layout(f, blocks) ==
  /\ f \in [0..Len(blocks) -> Nat] /\ f[0] = 2 * U64
  /\ \A i \in 1..Len(blocks) : f[i] = f[i - 1] + SizeOf(blocks[i])

\* t and b have been read for u and c, up to the offset o, and every byte was
\* there if that is not past the end, len.
Alike(t, u, o, len) ==
  t \in TransactionType /\ Used(t) = Used(u) /\ (o <= len => t = u)
Worth(b) == [b EXCEPT !.transaction_list = [j \in 1..Len(@) |-> Used(@[j])]]
AlikeBlocks(b, c, o, len) ==
  b \in BlockType /\ Worth(b) = Worth(c) /\ (o <= len => b = c)

HeaderOf(b) == [created_at          |-> b.created_at,
                previous_block_hash |-> b.previous_block_hash,
                proof_of_work       |-> b.proof_of_work]

\* The locals e between two blocks, len bytes of the chain being there.
BlocksRead(e, ch, n, len) ==
  /\ e.zeros = ch.zeros /\ e.num_blocks = n
  /\ e.blocks \in Seq(BlockType) /\ Len(e.blocks) <= n
  /\ \A i \in 1..Len(e.blocks) :
       AlikeBlocks(e.blocks[i], ch.blocks[i], e.offset, len)

\* The locals when k transactions of a block have been read, the last of
\* which may be in transaction.
BlockRead(e, start, b, k, len) ==
  /\ e.block = HeaderOf(b)
  /\ e.num_transactions = Len(b.transaction_list)
  /\ k <= Len(b.transaction_list)
  /\ e.offset = start + BlockHeaderSize + k * TransactionSize
  /\ e.transactions \in Seq(TransactionType)
  /\ \A j \in 1..Len(e.transactions) :
       Alike(e.transactions[j], b.transaction_list[j], e.offset, len)

Reading(f) ==
  LET B == sent.chain.blocks
      b == B[Len(d.blocks) + 1]
      k == Len(d.transactions) IN
  /\ d.pc \in {"block", "transaction", "fields", "append", "add"} =>
       BlocksRead(d, sent.chain, sent.num_blocks, Len(data))
  /\ d.pc = "block" => d.offset = f[Len(d.blocks)]
  /\ d.pc \in {"transaction", "fields", "append", "add"} =>
       /\ Len(d.blocks) < sent.num_blocks
       /\ BlockRead(d, f[Len(d.blocks)], b,
                    IF d.pc = "append" THEN k + 1 ELSE k, Len(data))
  /\ d.pc = "fields" => k < Len(b.transaction_list)
  /\ d.pc = "append" =>
       Alike(d.transaction, b.transaction_list[k + 1], d.offset, Len(data))
  /\ d.pc = "add" => k = Len(b.transaction_list)

Underway == {"serialize", "command", "open", "write", "read"}

\* The buffer is a beginning of what was written.
Transport ==
  /\ sent.chain \in Chains /\ sent.num_blocks \in 1..Len(sent.chain.blocks)
  /\ \/ written = <<>> /\ d.pc \in {"serialize", "done"}
     \/ written = blockchain_serialize(sent.chain, sent.num_blocks)
  /\ Begins(data, written) /\ Begins(file, written)
  /\ d.pc \in Underway => data = <<>>
  /\ d.pc \in Underway \cup {"header"} =>
       /\ d.offset = 0 /\ d.zeros = 0 /\ d.num_blocks = 0 /\ d.num_transactions = 0
       /\ d.blocks = <<>> /\ d.transactions = <<>>

\* What was accepted, and why something was not.
Outcome ==
  /\ d.code = "SUCCESS" =>
       /\ d.pc \in {"return", "done"}
       /\ d.result.zeros = Expected.zeros /\ Meaning(d.result) = Meaning(Expected)
       /\ data = written => d.result = Expected
  /\ d.pc \in {"return", "done"} =>
       \/ d.code \in {"SUCCESS", "FAILURE_COULD_NOT_MALLOC"}
       \/ data = <<>> \/ data # written

\* The conjuncts of TypeOK.
Buffers == data \in Seq(Byte) /\ file \in Seq(Byte) /\ written \in Seq(Byte)
Memory == held \subseteq Object /\ lost \subseteq held
Locals == /\ {d.offset, d.zeros, d.num_blocks, d.num_transactions} \subseteq Nat
          /\ d.blocks \in Seq(BlockType) /\ d.transactions \in Seq(TransactionType)

-----------------------------------------------------------------------------
(***************************************************************************)
(* What blockchain_serialize writes.                                       *)
(***************************************************************************)
LEMMA ChainSizes ==
  /\ KeyLen \in Nat /\ SigLen \in Nat /\ HashLen \in Nat /\ SigLen <= KeyLen
  /\ U64 \in Nat /\ U64 > 0 /\ FixedSize \in Nat /\ BlockHeaderSize \in Nat
  /\ TransactionSize \in Nat
BY Sizes, ChainTransferAssumption DEF FixedSize, BlockHeaderSize, TransactionSize

\* The fields of a transaction, and their bytes.
LEMMA TransactionFields ==
  ASSUME NEW t \in SentTransaction
  PROVE  /\ t.created_at \in Unsigned(U64) /\ t.amount \in Unsigned(U64)
         /\ t.length \in 0..SigLen /\ t.length \in Unsigned(U64)
         /\ Piece(BigEndian(t.created_at, U64), U64)
         /\ Piece(BigEndian(t.amount, U64), U64)
         /\ Piece(BigEndian(t.length, U64), U64)
         /\ Piece(t.sender_public_key, KeyLen)
         /\ Piece(t.recipient_public_key, KeyLen)
         /\ Piece(t.bytes, SigLen)
         /\ t = [created_at |-> t.created_at,
                 sender_public_key |-> t.sender_public_key,
                 recipient_public_key |-> t.recipient_public_key,
                 amount |-> t.amount, length |-> t.length, bytes |-> t.bytes]
<1>1. /\ t.created_at \in Unsigned(U64) /\ t.amount \in Unsigned(U64)
      /\ t.length \in 0..SigLen
      /\ t.sender_public_key \in [1..KeyLen -> Byte]
      /\ t.recipient_public_key \in [1..KeyLen -> Byte]
      /\ t.bytes \in [1..SigLen -> Byte]
  BY DEF SentTransaction
<1>2. t = [created_at |-> t.created_at,
           sender_public_key |-> t.sender_public_key,
           recipient_public_key |-> t.recipient_public_key,
           amount |-> t.amount, length |-> t.length, bytes |-> t.bytes]
  BY DEF SentTransaction
<1>3. t.created_at \in Nat /\ t.amount \in Nat /\ t.length \in Nat
  BY <1>1, ChainSizes DEF Unsigned
<1>4. t.length \in Unsigned(U64)
  <2>1. SigLen < Word
    BY ChainTransferAssumption
  <2> QED
    BY <1>1, <1>3, <2>1, ChainSizes, WordSize
<1>5. /\ Piece(BigEndian(t.created_at, U64), U64)
      /\ Piece(BigEndian(t.amount, U64), U64)
      /\ Piece(BigEndian(t.length, U64), U64)
  BY <1>3, ChainSizes, BigEndianType DEF Piece
<1>6. \A n \in Nat : \A x \in [1..n -> Byte] : x \in Seq(Byte) /\ Len(x) = n
  OBVIOUS
<1>7. /\ Piece(t.sender_public_key, KeyLen) /\ Piece(t.recipient_public_key, KeyLen)
      /\ Piece(t.bytes, SigLen)
  BY <1>1, <1>6, ChainSizes, Zenon DEF Piece
<1> QED
  BY <1>1, <1>2, <1>4, <1>5, <1>7

\* A transaction is in a buffer, field by field.
TransactionHeld(buffer, offset, t) ==
  /\ Holds(buffer, offset, BigEndian(t.created_at, U64))
  /\ Holds(buffer, offset + U64, t.sender_public_key)
  /\ Holds(buffer, offset + U64 + KeyLen, t.recipient_public_key)
  /\ Holds(buffer, offset + U64 + 2 * KeyLen, BigEndian(t.amount, U64))
  /\ Holds(buffer, offset + FixedSize - U64, BigEndian(t.length, U64))
  /\ Holds(buffer, offset + FixedSize, t.bytes)

\* A transaction is written to its full size, each field at its place.
LEMMA TransactionWritten ==
  ASSUME NEW t \in SentTransaction
  PROVE  /\ Piece(TransactionBytes(t), TransactionSize)
         /\ \A buffer \in Seq(Byte), offset \in Nat :
              Holds(buffer, offset, TransactionBytes(t))
                => TransactionHeld(buffer, offset, t)
<1> DEFINE a == BigEndian(t.created_at, U64)
           b == t.sender_public_key
           c == t.recipient_public_key
           x == BigEndian(t.amount, U64)
           l == BigEndian(t.length, U64)
           s == t.bytes
           front == a \o b \o c \o x \o l
<1>1. /\ Piece(a, U64) /\ Piece(b, KeyLen) /\ Piece(c, KeyLen) /\ Piece(x, U64)
      /\ Piece(l, U64) /\ Piece(s, SigLen)
  BY TransactionFields
<1>2. TransactionBytes(t) = front \o s
  BY Zenon DEF TransactionBytes, htobe64
<1> HIDE DEF a, b, c, x, l, s
<1>3. Piece(front, U64 + KeyLen + KeyLen + U64 + U64)
  BY <1>1, Join5, Zenon
<1>4. U64 + KeyLen + KeyLen + U64 + U64 = FixedSize
  BY ChainSizes DEF FixedSize
<1>5. Piece(front, FixedSize)
  BY <1>3, <1>4
<1>6. Piece(front \o s, FixedSize + SigLen)
  <2> HIDE DEF front
  <2> QED
    BY <1>1, <1>5, Join2, Zenon
<1>7. ASSUME NEW buffer \in Seq(Byte), NEW offset \in Nat,
             Holds(buffer, offset, front \o s)
      PROVE  TransactionHeld(buffer, offset, t)
  <2>1. Holds(buffer, offset, front) /\ Holds(buffer, offset + FixedSize, s)
    <3> HIDE DEF front
    <3> QED
      BY <1>1, <1>5, <1>7, HoldsParts2, Zenon
  <2>2. /\ Holds(buffer, offset, a) /\ Holds(buffer, offset + U64, b)
        /\ Holds(buffer, offset + U64 + KeyLen, c)
        /\ Holds(buffer, offset + U64 + KeyLen + KeyLen, x)
        /\ Holds(buffer, offset + U64 + KeyLen + KeyLen + U64, l)
    <3>1. Holds(buffer, offset, a \o b \o c \o x \o l)
      BY <2>1
    <3>2. /\ Piece(a, U64) /\ Piece(b, KeyLen) /\ Piece(c, KeyLen) /\ Piece(x, U64)
          /\ Piece(l, U64)
      BY <1>1
    <3> QED
      BY <3>1, <3>2, HoldsParts5
  <2>3. /\ offset + U64 + KeyLen + KeyLen = offset + U64 + 2 * KeyLen
        /\ offset + U64 + KeyLen + KeyLen + U64 = offset + FixedSize - U64
    BY ChainSizes DEF FixedSize
  <2> QED
    <3>1. /\ Holds(buffer, offset, a) /\ Holds(buffer, offset + U64, b)
          /\ Holds(buffer, offset + U64 + KeyLen, c)
          /\ Holds(buffer, offset + U64 + 2 * KeyLen, x)
          /\ Holds(buffer, offset + FixedSize - U64, l)
          /\ Holds(buffer, offset + FixedSize, s)
      BY <2>1, <2>2, <2>3
    <3> QED
      BY <3>1, Zenon DEF TransactionHeld, a, b, c, x, l, s
<1> QED
  BY <1>2, <1>6, <1>7 DEF TransactionSize

\* The fields of a block, and their bytes.
LEMMA BlockFields ==
  ASSUME NEW b \in SentBlock
  PROVE  /\ b.created_at \in Unsigned(U64) /\ b.proof_of_work \in Unsigned(U64)
         /\ b.transaction_list \in Seq(SentTransaction)
         /\ Len(b.transaction_list) \in Nat
         /\ Piece(BigEndian(b.created_at, U64), U64)
         /\ Piece(BigEndian(b.proof_of_work, U64), U64)
         /\ Piece(BigEndian(Len(b.transaction_list), U64), U64)
         /\ Piece(b.previous_block_hash, HashLen)
         /\ b = [created_at |-> b.created_at,
                 previous_block_hash |-> b.previous_block_hash,
                 proof_of_work |-> b.proof_of_work,
                 transaction_list |-> b.transaction_list]
<1>1. /\ b.created_at \in Unsigned(U64) /\ b.proof_of_work \in Unsigned(U64)
      /\ b.transaction_list \in Seq(SentTransaction)
      /\ b.previous_block_hash \in [1..HashLen -> Byte]
  BY DEF SentBlock
<1>2. b = [created_at |-> b.created_at,
           previous_block_hash |-> b.previous_block_hash,
           proof_of_work |-> b.proof_of_work,
           transaction_list |-> b.transaction_list]
  BY DEF SentBlock
<1>3. b.created_at \in Nat /\ b.proof_of_work \in Nat /\ Len(b.transaction_list) \in Nat
  BY <1>1 DEF Unsigned
<1>4. /\ Piece(BigEndian(b.created_at, U64), U64)
      /\ Piece(BigEndian(b.proof_of_work, U64), U64)
      /\ Piece(BigEndian(Len(b.transaction_list), U64), U64)
  BY <1>3, ChainSizes, BigEndianType DEF Piece
<1>5. \A n \in Nat : \A x \in [1..n -> Byte] : x \in Seq(Byte) /\ Len(x) = n
  OBVIOUS
<1>6. Piece(b.previous_block_hash, HashLen)
  BY <1>1, <1>5, ChainSizes, Zenon DEF Piece
<1> QED
  BY <1>1, <1>2, <1>3, <1>4, <1>6

\* A block is in a buffer, field by field.
BlockHeld(buffer, offset, b) ==
  /\ Holds(buffer, offset, BigEndian(b.created_at, U64))
  /\ Holds(buffer, offset + U64, b.previous_block_hash)
  /\ Holds(buffer, offset + U64 + HashLen, BigEndian(b.proof_of_work, U64))
  /\ Holds(buffer, offset + BlockHeaderSize - U64,
           BigEndian(Len(b.transaction_list), U64))
  /\ \A j \in 1..Len(b.transaction_list) :
       TransactionHeld(buffer, offset + BlockHeaderSize + (j - 1) * TransactionSize,
                       b.transaction_list[j])

\* A block is written to its size, its transactions behind each other.
LEMMA BlockWritten ==
  ASSUME NEW b \in SentBlock
  PROVE  /\ Piece(BlockBytes(b), SizeOf(b))
         /\ \A buffer \in Seq(Byte), offset \in Nat :
              Holds(buffer, offset, BlockBytes(b)) => BlockHeld(buffer, offset, b)
<1> DEFINE n == Len(b.transaction_list)
           q == [i \in 1..n |-> TransactionBytes(b.transaction_list[i])]
           p1 == BigEndian(b.created_at, U64)
           p2 == b.previous_block_hash
           p3 == BigEndian(b.proof_of_work, U64)
           p4 == BigEndian(n, U64)
           p5 == FlattenSeq(q)
<1>1. /\ Piece(p1, U64) /\ Piece(p2, HashLen) /\ Piece(p3, U64) /\ Piece(p4, U64)
      /\ n \in Nat /\ \A i \in 1..n : b.transaction_list[i] \in SentTransaction
  BY BlockFields
<1>2. BlockBytes(b) = p1 \o p2 \o p3 \o p4 \o p5
  BY Zenon DEF BlockBytes, htobe64
<1>3. \A i \in 1..n : Piece(TransactionBytes(b.transaction_list[i]), TransactionSize)
  BY <1>1, TransactionWritten
<1>4. /\ q \in Seq(Seq(Byte)) /\ Len(q) = n
      /\ \A i \in 1..n : /\ q[i] = TransactionBytes(b.transaction_list[i])
                         /\ Len(q[i]) = TransactionSize
  <2>1. \A i \in 1..n : /\ TransactionBytes(b.transaction_list[i]) \in Seq(Byte)
                        /\ Len(TransactionBytes(b.transaction_list[i])) = TransactionSize
    BY <1>3 DEF Piece
  <2> QED
    BY <1>1, <2>1
<1> HIDE DEF n, q, p1, p2, p3, p4
<1>5. PICK g : /\ Offsets(g, q) /\ Piece(FlattenSeq(q), g[Len(q)])
               /\ \A buffer \in Seq(Byte), offset \in Nat :
                    Holds(buffer, offset, FlattenSeq(q)) =>
                      \A i \in 1..Len(q) : Holds(buffer, offset + g[i - 1], q[i])
  BY <1>4, FlattenOffsets, Zenon
<1>6. \A i \in 0..Len(q) : g[i] = i * TransactionSize
  BY <1>4, <1>5, ChainSizes, EqualOffsets
<1>7. Piece(p5, n * TransactionSize)
  <2>1. n \in 0..Len(q)
    BY <1>1, <1>4
  <2> QED
    BY <1>4, <1>5, <1>6, <2>1
<1> DEFINE size == n * TransactionSize
<1>8. size \in Nat /\ Piece(p5, size)
  BY <1>1, <1>7, ChainSizes
<1>9. SizeOf(b) = BlockHeaderSize + size
  BY DEF SizeOf, n
<1> HIDE DEF p5, size
<1>10. Piece(p1 \o p2 \o p3 \o p4 \o p5, U64 + HashLen + U64 + U64 + size)
  BY <1>1, <1>8, Join5, Zenon
<1>11. U64 + HashLen + U64 + U64 + size = BlockHeaderSize + size
  BY <1>8, ChainSizes DEF BlockHeaderSize
<1>12. ASSUME NEW buffer \in Seq(Byte), NEW offset \in Nat,
              Holds(buffer, offset, p1 \o p2 \o p3 \o p4 \o p5)
       PROVE  BlockHeld(buffer, offset, b)
  <2>1. /\ Holds(buffer, offset, p1) /\ Holds(buffer, offset + U64, p2)
        /\ Holds(buffer, offset + U64 + HashLen, p3)
        /\ Holds(buffer, offset + U64 + HashLen + U64, p4)
        /\ Holds(buffer, offset + U64 + HashLen + U64 + U64, p5)
    <3>1. /\ Piece(p1, U64) /\ Piece(p2, HashLen) /\ Piece(p3, U64) /\ Piece(p4, U64)
      BY <1>1
    <3> QED
      BY <1>8, <1>12, <3>1, HoldsParts5
  <2>2. /\ offset + U64 + HashLen + U64 = offset + BlockHeaderSize - U64
        /\ offset + U64 + HashLen + U64 + U64 = offset + BlockHeaderSize
        /\ offset + BlockHeaderSize \in Nat
    BY ChainSizes DEF BlockHeaderSize
  <2>3. Holds(buffer, offset + BlockHeaderSize, FlattenSeq(q))
    BY <2>1, <2>2 DEF p5
  <2>4. ASSUME NEW j \in 1..n
        PROVE  TransactionHeld(buffer,
                 offset + BlockHeaderSize + (j - 1) * TransactionSize,
                 b.transaction_list[j])
    <3>1. j \in 1..Len(q) /\ j - 1 \in 0..Len(q) /\ j - 1 \in Nat
      BY <1>1, <1>4
    <3>2. Holds(buffer, (offset + BlockHeaderSize) + g[j - 1], q[j])
      BY <1>5, <2>2, <2>3, <3>1, Zenon
    <3>3. g[j - 1] = (j - 1) * TransactionSize /\ (j - 1) * TransactionSize \in Nat
      BY <1>6, <3>1, ChainSizes
    <3>4. offset + BlockHeaderSize + (j - 1) * TransactionSize \in Nat
      BY <2>2, <3>3
    <3>5. Holds(buffer, offset + BlockHeaderSize + (j - 1) * TransactionSize,
                TransactionBytes(b.transaction_list[j]))
      BY <1>4, <3>2, <3>3
    <3>6. b.transaction_list[j] \in SentTransaction
      BY <1>1
    <3> QED
      BY <3>4, <3>5, <3>6, TransactionWritten, Zenon
  <2>5. /\ Holds(buffer, offset, p1) /\ Holds(buffer, offset + U64, p2)
        /\ Holds(buffer, offset + U64 + HashLen, p3)
        /\ Holds(buffer, offset + BlockHeaderSize - U64, p4)
    BY <2>1, <2>2
  <2> QED
    BY <2>4, <2>5, Zenon DEF BlockHeld, p1, p2, p3, p4, n
<1> QED
  BY <1>2, <1>9, <1>10, <1>11, <1>12

\* A chain is in a buffer: f says where its blocks begin.
ChainHeld(buffer, f, ch, n) ==
  /\ Layout(f, ch.blocks)
  /\ Len(buffer) = f[Len(ch.blocks)]
  /\ Holds(buffer, 0, BigEndian(ch.zeros, U64))
  /\ Holds(buffer, U64, BigEndian(n, U64))
  /\ \A i \in 1..Len(ch.blocks) : BlockHeld(buffer, f[i - 1], ch.blocks[i])

\* Chains are typed as the serializer needs them.
LEMMA ChainFields ==
  ASSUME NEW ch \in Chains, NEW n \in 1..Len(ch.blocks)
  PROVE  /\ ch.zeros \in Unsigned(U64) /\ ch.zeros \in Nat
         /\ ch.blocks \in Seq(SentBlock) /\ Len(ch.blocks) \in Nat
         /\ n \in Unsigned(U64) /\ n \in Nat
         /\ \A i \in 1..Len(ch.blocks) :
              /\ ch.blocks[i] \in SentBlock
              /\ Len(ch.blocks[i].transaction_list) \in Unsigned(U64)
         /\ Len(blockchain_serialize(ch, n)) <= CallocLimit
<1>1. /\ ch \in [zeros: Unsigned(U64), blocks: Seq(SentBlock)]
      /\ Len(ch.blocks) \in Unsigned(U64)
      /\ \A i \in 1..Len(ch.blocks) :
           Len(ch.blocks[i].transaction_list) \in Unsigned(U64)
      /\ Len(blockchain_serialize(ch, n)) <= CallocLimit
  BY ChainsAssumption
<1>2. ch.zeros \in Unsigned(U64) /\ ch.blocks \in Seq(SentBlock) /\ Len(ch.blocks) \in Nat
  BY <1>1
<1>3. Largest(U64) \in Nat
  BY WordSize
<1>4. n \in Nat /\ n \in Unsigned(U64) /\ ch.zeros \in Nat
  BY <1>1, <1>2, <1>3 DEF Unsigned
<1>5. \A i \in 1..Len(ch.blocks) : ch.blocks[i] \in SentBlock
  BY <1>2
<1> QED
  BY <1>1, <1>2, <1>4, <1>5

\* blockchain_serialize puts every block where the layout says.
LEMMA ChainWritten ==
  ASSUME NEW ch \in Chains, NEW n \in 1..Len(ch.blocks),
         NEW w, w = blockchain_serialize(ch, n)
  PROVE  w \in Seq(Byte) /\ \E f : ChainHeld(w, f, ch, n)
<1> DEFINE m == Len(ch.blocks)
           q == [i \in 1..m |-> BlockBytes(ch.blocks[i])]
           p1 == BigEndian(ch.zeros, U64)
           p2 == BigEndian(n, U64)
           p3 == FlattenSeq(q)
<1>1. /\ ch.zeros \in Nat /\ n \in Nat /\ m \in Nat
      /\ \A i \in 1..m : ch.blocks[i] \in SentBlock
  BY ChainFields
<1>2. Piece(p1, U64) /\ Piece(p2, U64)
  BY <1>1, ChainSizes, BigEndianType DEF Piece
<1>3. w = p1 \o p2 \o p3
  BY Zenon DEF blockchain_serialize, htobe64
<1>4. \A i \in 1..m : Piece(BlockBytes(ch.blocks[i]), SizeOf(ch.blocks[i]))
  BY <1>1, BlockWritten
<1>5. /\ q \in Seq(Seq(Byte)) /\ Len(q) = m
      /\ \A i \in 1..m : /\ q[i] = BlockBytes(ch.blocks[i])
                         /\ Len(q[i]) = SizeOf(ch.blocks[i])
  <2>1. \A i \in 1..m : /\ BlockBytes(ch.blocks[i]) \in Seq(Byte)
                        /\ Len(BlockBytes(ch.blocks[i])) = SizeOf(ch.blocks[i])
    BY <1>4 DEF Piece
  <2> QED
    BY <1>1, <2>1
<1> HIDE DEF q, p1, p2
<1>6. PICK g : /\ Offsets(g, q) /\ Piece(FlattenSeq(q), g[Len(q)])
               /\ \A buffer \in Seq(Byte), offset \in Nat :
                    Holds(buffer, offset, FlattenSeq(q)) =>
                      \A i \in 1..Len(q) : Holds(buffer, offset + g[i - 1], q[i])
  BY <1>5, FlattenOffsets, Zenon
<1>7. /\ g \in [0..m -> Nat] /\ g[0] = 0
      /\ \A i \in 1..m : g[i] = g[i - 1] + SizeOf(ch.blocks[i])
  BY <1>5, <1>6 DEF Offsets
<1>8. Piece(p3, g[m]) /\ g[m] \in Nat
  BY <1>1, <1>5, <1>6, <1>7
<1> HIDE DEF p3
<1> DEFINE f == [i \in 0..m |-> 2 * U64 + g[i]]
<1>9. Layout(f, ch.blocks)
  <2>1. f \in [0..m -> Nat] /\ f[0] = 2 * U64
    BY <1>1, <1>7, ChainSizes
  <2>2. ASSUME NEW i \in 1..m PROVE f[i] = f[i - 1] + SizeOf(ch.blocks[i])
    <3>1. i \in 0..m /\ i - 1 \in 0..m
      BY <1>1
    <3>2. g[i] = g[i - 1] + SizeOf(ch.blocks[i]) /\ g[i] \in Nat /\ g[i - 1] \in Nat
      BY <1>7, <3>1
    <3>3. SizeOf(ch.blocks[i]) \in Nat
      BY <1>5
    <3>4. f[i] = 2 * U64 + g[i] /\ f[i - 1] = 2 * U64 + g[i - 1]
      BY <3>1
    <3> QED
      BY <3>2, <3>3, <3>4, ChainSizes
  <2> HIDE DEF f
  <2> QED
    BY <2>1, <2>2 DEF Layout
<1>10. Piece(p1 \o p2, U64 + U64)
  BY <1>2, Join2, Zenon
<1>11. Piece(w, U64 + U64 + g[m])
  BY <1>3, <1>8, <1>10, Join2, Zenon
<1>12. w \in Seq(Byte) /\ Len(w) = f[m]
  <2>1. w \in Seq(Byte) /\ Len(w) = U64 + U64 + g[m]
    BY <1>11 DEF Piece
  <2>2. f[m] = 2 * U64 + g[m]
    BY <1>1
  <2> QED
    BY <1>8, <2>1, <2>2, ChainSizes
<1>13. Holds(w, 0, (p1 \o p2) \o p3) /\ 0 \in Nat
  BY <1>3, <1>12, HoldsItself
<1>14. Holds(w, 0, p1 \o p2) /\ Holds(w, 0 + (U64 + U64), p3)
  BY <1>8, <1>10, <1>12, <1>13, HoldsParts2, Zenon
<1>15. Holds(w, 0, p1) /\ Holds(w, 0 + U64, p2)
  BY <1>2, <1>12, <1>13, <1>14, HoldsParts2, Zenon
<1>16. 0 + U64 = U64 /\ 0 + (U64 + U64) = 2 * U64 /\ 2 * U64 \in Nat
  BY ChainSizes
<1>17. ASSUME NEW i \in 1..m PROVE BlockHeld(w, f[i - 1], ch.blocks[i])
  <2>1. i \in 1..Len(q) /\ i - 1 \in 0..m
    BY <1>1, <1>5
  <2>2. Holds(w, 2 * U64, FlattenSeq(q))
    BY <1>14, <1>16 DEF p3
  <2>3. Holds(w, 2 * U64 + g[i - 1], q[i])
    BY <1>6, <1>12, <1>16, <2>1, <2>2, Zenon
  <2>4. f[i - 1] = 2 * U64 + g[i - 1] /\ f[i - 1] \in Nat
    <3>1. g[i - 1] \in Nat
      BY <1>7, <2>1
    <3>2. f[i - 1] = 2 * U64 + g[i - 1]
      BY <2>1
    <3>3. \A x, y \in Nat : x + y \in Nat
      OBVIOUS
    <3> QED
      BY <1>16, <3>1, <3>2, <3>3, Zenon
  <2>5. Holds(w, f[i - 1], BlockBytes(ch.blocks[i])) /\ ch.blocks[i] \in SentBlock
    BY <1>1, <1>5, <2>3, <2>4
  <2> HIDE DEF f
  <2> QED
    BY <1>12, <2>4, <2>5, BlockWritten, Zenon
<1>18. ChainHeld(w, f, ch, n)
  <2>1. Holds(w, 0, p1) /\ Holds(w, U64, p2)
    BY <1>15, <1>16
  <2> HIDE DEF f
  <2> QED
    BY <1>9, <1>12, <1>17, <2>1, Zenon DEF ChainHeld, p1, p2
<1> QED
  BY <1>12, <1>18
-----------------------------------------------------------------------------
(***************************************************************************)
(* What blockchain_deserialize reads in a beginning of what was written.   *)
(***************************************************************************)
\* A field that is all there is read as it was written.
LEMMA NumberRead ==
  ASSUME NEW m \in Seq(Byte), NEW buffer \in Seq(Byte), Begins(buffer, m),
         NEW o \in Nat, NEW x \in Unsigned(U64), Holds(m, o, BigEndian(x, U64)),
         o + U64 <= Len(buffer)
  PROVE  Number(buffer, o, U64) = x
<1>1. U64 \in Nat /\ x \in Nat
  BY ChainSizes DEF Unsigned
<1>2. BigEndian(x, U64) \in Seq(Byte) /\ Len(BigEndian(x, U64)) = U64
  BY <1>1, BigEndianType
<1>3. Holds(buffer, o, BigEndian(x, U64))
  BY <1>2, HoldsInBeginning
<1> QED
  BY <1>1, <1>3, NumberHeld

\* The same for an array.
LEMMA BytesRead ==
  ASSUME NEW m \in Seq(Byte), NEW buffer \in Seq(Byte), Begins(buffer, m),
         NEW o \in Nat, NEW p, NEW w, Piece(p, w), Holds(m, o, p),
         o + w <= Len(buffer)
  PROVE  Bytes(buffer, o, w) = p
<1>1. p \in Seq(Byte) /\ Len(p) = w
  BY DEF Piece
<1>2. Holds(buffer, o, p)
  BY <1>1, HoldsInBeginning
<1> QED
  BY <1>1, <1>2, BytesHeld

\* The fields in front of a signature.
LEMMA TransactionRead ==
  ASSUME NEW m \in Seq(Byte), NEW buffer \in Seq(Byte), Begins(buffer, m),
         NEW o \in Nat, NEW u \in SentTransaction, TransactionHeld(m, o, u),
         o + FixedSize <= Len(buffer)
  PROVE  /\ Number(buffer, o, U64) = u.created_at
         /\ Bytes(buffer, o + U64, KeyLen) = u.sender_public_key
         /\ Bytes(buffer, o + U64 + KeyLen, KeyLen) = u.recipient_public_key
         /\ Number(buffer, o + U64 + 2 * KeyLen, U64) = u.amount
         /\ Number(buffer, o + FixedSize - U64, U64) = u.length
<1>1. /\ o + U64 \in Nat /\ o + U64 + KeyLen \in Nat
      /\ o + U64 + 2 * KeyLen \in Nat /\ o + FixedSize - U64 \in Nat
      /\ o + U64 <= Len(buffer) /\ (o + U64) + KeyLen <= Len(buffer)
      /\ (o + U64 + KeyLen) + KeyLen <= Len(buffer)
      /\ (o + U64 + 2 * KeyLen) + U64 <= Len(buffer)
      /\ (o + FixedSize - U64) + U64 <= Len(buffer)
  BY ChainSizes DEF FixedSize
<1>2. /\ Holds(m, o, BigEndian(u.created_at, U64))
      /\ Holds(m, o + U64, u.sender_public_key)
      /\ Holds(m, o + U64 + KeyLen, u.recipient_public_key)
      /\ Holds(m, o + U64 + 2 * KeyLen, BigEndian(u.amount, U64))
      /\ Holds(m, o + FixedSize - U64, BigEndian(u.length, U64))
  BY Zenon DEF TransactionHeld
<1>3. /\ u.created_at \in Unsigned(U64) /\ u.amount \in Unsigned(U64)
      /\ u.length \in Unsigned(U64)
      /\ Piece(u.sender_public_key, KeyLen) /\ Piece(u.recipient_public_key, KeyLen)
  BY TransactionFields
<1>4. Number(buffer, o, U64) = u.created_at
  BY <1>1, <1>2, <1>3, NumberRead, Zenon
<1>5. Bytes(buffer, o + U64, KeyLen) = u.sender_public_key
  BY <1>1, <1>2, <1>3, BytesRead, Zenon
<1>6. Bytes(buffer, o + U64 + KeyLen, KeyLen) = u.recipient_public_key
  <2>1. o + U64 + KeyLen \in Nat /\ (o + U64 + KeyLen) + KeyLen <= Len(buffer)
    BY <1>1
  <2>2. /\ Holds(m, o + U64 + KeyLen, u.recipient_public_key)
        /\ Piece(u.recipient_public_key, KeyLen)
    BY <1>2, <1>3
  <2> QED
    BY <2>1, <2>2, BytesRead, Zenon
<1>7. Number(buffer, o + U64 + 2 * KeyLen, U64) = u.amount
  BY <1>1, <1>2, <1>3, NumberRead, Zenon
<1>8. Number(buffer, o + FixedSize - U64, U64) = u.length
  BY <1>1, <1>2, <1>3, NumberRead, Zenon
<1> QED
  BY <1>4, <1>5, <1>6, <1>7, <1>8

\* A signature: what is in use is there, and the rest may be.
LEMMA SignatureRead ==
  ASSUME NEW m \in Seq(Byte), NEW buffer \in Seq(Byte), Begins(buffer, m),
         NEW o \in Nat, NEW p, Piece(p, SigLen), Holds(m, o, p),
         NEW l \in 0..SigLen, o + l <= Len(buffer),
         NEW s, s = Bytes(buffer, o, SigLen)
  PROVE  /\ s \in Seq(Byte \cup {Garbage})
         /\ SubSeq(s, 1, l) = SubSeq(p, 1, l)
         /\ o + SigLen <= Len(buffer) => s = p
<1>1. /\ SigLen \in Nat /\ l \in Nat /\ l <= SigLen /\ Len(buffer) \in Nat
      /\ Len(m) \in Nat
  BY ChainSizes
<1>2. p \in Seq(Byte) /\ Len(p) = SigLen
  BY DEF Piece
<1>3. s = [i \in 1..SigLen |-> IF o + i <= Len(buffer) THEN buffer[o + i]
                               ELSE Garbage]
  BY DEF Bytes
<1>4. ASSUME NEW i \in 1..SigLen PROVE s[i] \in Byte \cup {Garbage}
  <2>1. o + i \in Nat /\ o + i >= 1
    BY <1>1
  <2>2. o + i <= Len(buffer) => buffer[o + i] \in Byte
    BY <1>1, <2>1
  <2> QED
    BY <1>3, <2>2
<1>5. s \in Seq(Byte \cup {Garbage}) /\ Len(s) = SigLen
  <2>1. s = [i \in 1..SigLen |-> s[i]]
    BY <1>3
  <2>2. s \in [1..SigLen -> Byte \cup {Garbage}]
    BY <1>4, <2>1
  <2> QED
    BY <1>1, <2>2
<1>6. Len(buffer) <= Len(m) /\ buffer = SubSeq(m, 1, Len(buffer))
  BY DEF Begins
<1>7. \A k \in 1..Len(buffer) : SubSeq(m, 1, Len(buffer))[k] = m[k]
  BY <1>1, <1>6
<1>8. \A k \in 1..Len(buffer) : buffer[k] = m[k]
  BY <1>6, <1>7
<1>9. ASSUME NEW i \in 1..l PROVE s[i] = p[i]
  <2>1. i \in 1..SigLen /\ o + i \in 1..Len(buffer) /\ o + i <= Len(buffer)
    BY <1>1
  <2>2. m[o + i] = p[i]
    BY <1>2, <2>1 DEF Holds
  <2> QED
    BY <1>3, <1>8, <2>1, <2>2
<1>10. SubSeq(s, 1, l) = SubSeq(p, 1, l)
  <2>1. SubSeq(s, 1, l) = [i \in 1..l |-> s[i]]
    BY <1>1, <1>5
  <2>2. SubSeq(p, 1, l) = [i \in 1..l |-> p[i]]
    BY <1>1, <1>2
  <2> QED
    BY <1>9, <2>1, <2>2
<1>11. o + SigLen <= Len(buffer) => s = p
  BY BytesRead, Zenon
<1> QED
  BY <1>5, <1>10, <1>11

\* A transaction that was read, with the bytes s found for its signature.
LEMMA TransactionAlike ==
  ASSUME NEW u \in SentTransaction, NEW s \in Seq(Byte \cup {Garbage}),
         SubSeq(s, 1, u.length) = SubSeq(u.bytes, 1, u.length),
         NEW o, NEW len, o <= len => s = u.bytes,
         NEW t, t = [created_at |-> u.created_at,
                     sender_public_key |-> u.sender_public_key,
                     recipient_public_key |-> u.recipient_public_key,
                     amount |-> u.amount, length |-> u.length, bytes |-> s]
  PROVE  Alike(t, u, o, len)
<1>1. /\ u.created_at \in Nat /\ u.amount \in Nat /\ u.length \in Nat
      /\ u.sender_public_key \in Seq(Byte) /\ u.recipient_public_key \in Seq(Byte)
  BY TransactionFields DEF Piece, Unsigned
<1>2. u = [created_at |-> u.created_at,
           sender_public_key |-> u.sender_public_key,
           recipient_public_key |-> u.recipient_public_key,
           amount |-> u.amount, length |-> u.length, bytes |-> u.bytes]
  BY TransactionFields
<1>3. t \in TransactionType
  BY <1>1 DEF TransactionType
<1> DEFINE R(x) == [created_at |-> u.created_at,
                    sender_public_key |-> u.sender_public_key,
                    recipient_public_key |-> u.recipient_public_key,
                    amount |-> u.amount, length |-> u.length, bytes |-> x]
<1>4. \A x, y : [R(x) EXCEPT !.bytes = y] = R(y) /\ R(x).bytes = x /\ R(x).length = u.length
  OBVIOUS
<1>5. Used(t) = Used(u)
  <2>1. t = R(s) /\ u = R(u.bytes)
    BY <1>2
  <2> HIDE DEF R
  <2>2. ASSUME NEW x PROVE Used(R(x)) = R(SubSeq(x, 1, u.length))
    <3>1. Used(R(x)) = [R(x) EXCEPT !.bytes = SubSeq(R(x).bytes, 1, R(x).length)]
      BY Zenon DEF Used
    <3> QED
      BY <1>4, <3>1, Zenon
  <2> QED
    BY <2>1, <2>2
<1>6. o <= len => t = u
  BY <1>2
<1> QED
  BY <1>3, <1>5, <1>6 DEF Alike

\* A written transaction and a written block end in the buffer.
LEMMA TransactionInside ==
  ASSUME NEW m \in Seq(Byte), NEW o \in Nat, NEW u \in SentTransaction,
         TransactionHeld(m, o, u)
  PROVE  o + TransactionSize <= Len(m)
<1>1. Holds(m, o + FixedSize, u.bytes)
  BY Zenon DEF TransactionHeld
<1>2. Len(u.bytes) = SigLen
  BY TransactionFields DEF Piece
<1>3. o + FixedSize + SigLen <= Len(m)
  BY <1>1, <1>2 DEF Holds
<1> QED
  BY <1>3, ChainSizes DEF TransactionSize

\* The same for a block.
LEMMA BlockInside ==
  ASSUME NEW m \in Seq(Byte), NEW o \in Nat, NEW b \in SentBlock,
         BlockHeld(m, o, b)
  PROVE  o + BlockHeaderSize <= Len(m) /\ o + SizeOf(b) <= Len(m)
<1> DEFINE n == Len(b.transaction_list)
<1>1. /\ n \in Nat /\ \A j \in 1..n : b.transaction_list[j] \in SentTransaction
      /\ Len(BigEndian(n, U64)) = U64
  BY BlockFields DEF Piece
<1>2. Holds(m, o + BlockHeaderSize - U64, BigEndian(n, U64))
  BY Zenon DEF BlockHeld
<1>3. o + BlockHeaderSize - U64 + U64 <= Len(m)
  BY <1>1, <1>2 DEF Holds
<1>4. o + BlockHeaderSize <= Len(m)
  BY <1>3, ChainSizes
<1>5. SizeOf(b) = BlockHeaderSize + n * TransactionSize
  BY DEF SizeOf
<1>6. CASE n = 0
  BY <1>4, <1>5, <1>6, ChainSizes
<1>7. CASE n > 0
  <2>1. n \in 1..n /\ (n - 1) * TransactionSize \in Nat
        /\ (n - 1) * TransactionSize + TransactionSize = n * TransactionSize
    BY <1>1, <1>7, ChainSizes
  <2>2. PICK p : p = o + BlockHeaderSize + (n - 1) * TransactionSize
    OBVIOUS
  <2>3. TransactionHeld(m, p, b.transaction_list[n])
    BY <2>1, <2>2, Zenon DEF BlockHeld
  <2>4. p \in Nat /\ p + TransactionSize = o + SizeOf(b)
    <3>1. PICK y \in Nat : y = (n - 1) * TransactionSize
      BY <2>1
    <3>2. p = o + BlockHeaderSize + y /\ SizeOf(b) = BlockHeaderSize + (y + TransactionSize)
      BY <1>5, <2>1, <2>2, <3>1
    <3> QED
      BY <3>2, ChainSizes
  <2>5. p + TransactionSize <= Len(m)
    BY <1>1, <2>1, <2>3, <2>4, TransactionInside
  <2> QED
    BY <1>4, <2>4, <2>5
<1> QED
  BY <1>1, <1>6, <1>7

\* The fields in front of a block's transactions.
LEMMA BlockHeaderRead ==
  ASSUME NEW m \in Seq(Byte), NEW buffer \in Seq(Byte), Begins(buffer, m),
         NEW o \in Nat, NEW b \in SentBlock, BlockHeld(m, o, b),
         Len(b.transaction_list) \in Unsigned(U64),
         o + BlockHeaderSize <= Len(buffer)
  PROVE  /\ Number(buffer, o, U64) = b.created_at
         /\ Bytes(buffer, o + U64, HashLen) = b.previous_block_hash
         /\ Number(buffer, o + U64 + HashLen, U64) = b.proof_of_work
         /\ Number(buffer, o + BlockHeaderSize - U64, U64) = Len(b.transaction_list)
<1>1. /\ o + U64 \in Nat /\ o + U64 + HashLen \in Nat
      /\ o + BlockHeaderSize - U64 \in Nat
      /\ o + U64 <= Len(buffer) /\ (o + U64) + HashLen <= Len(buffer)
      /\ (o + U64 + HashLen) + U64 <= Len(buffer)
      /\ (o + BlockHeaderSize - U64) + U64 <= Len(buffer)
  BY ChainSizes DEF BlockHeaderSize
<1>2. /\ Holds(m, o, BigEndian(b.created_at, U64))
      /\ Holds(m, o + U64, b.previous_block_hash)
      /\ Holds(m, o + U64 + HashLen, BigEndian(b.proof_of_work, U64))
      /\ Holds(m, o + BlockHeaderSize - U64, BigEndian(Len(b.transaction_list), U64))
  BY Zenon DEF BlockHeld
<1>3. /\ b.created_at \in Unsigned(U64) /\ b.proof_of_work \in Unsigned(U64)
      /\ Piece(b.previous_block_hash, HashLen)
  BY BlockFields
<1>4. Number(buffer, o, U64) = b.created_at
  BY <1>1, <1>2, <1>3, NumberRead, Zenon
<1>5. Bytes(buffer, o + U64, HashLen) = b.previous_block_hash
  BY <1>1, <1>2, <1>3, BytesRead, Zenon
<1>6. Number(buffer, o + U64 + HashLen, U64) = b.proof_of_work
  BY <1>1, <1>2, <1>3, NumberRead, Zenon
<1>7. Number(buffer, o + BlockHeaderSize - U64, U64) = Len(b.transaction_list)
  BY <1>1, <1>2, NumberRead, Zenon
<1> QED
  BY <1>4, <1>5, <1>6, <1>7

\* A block with the transactions that were read for it.
LEMMA BlockAlike ==
  ASSUME NEW b \in SentBlock, NEW ts \in Seq(TransactionType),
         Len(ts) = Len(b.transaction_list), NEW o, NEW len,
         \A j \in 1..Len(ts) : Alike(ts[j], b.transaction_list[j], o, len),
         NEW c, c = [created_at |-> b.created_at,
                     previous_block_hash |-> b.previous_block_hash,
                     proof_of_work |-> b.proof_of_work, transaction_list |-> ts]
  PROVE  AlikeBlocks(c, b, o, len)
<1> DEFINE us == b.transaction_list
           n == Len(ts)
<1>1. /\ b.created_at \in Nat /\ b.proof_of_work \in Nat
      /\ b.previous_block_hash \in Seq(Byte) /\ us \in Seq(SentTransaction)
  BY BlockFields DEF Piece, Unsigned
<1>2. b = [created_at |-> b.created_at,
           previous_block_hash |-> b.previous_block_hash,
           proof_of_work |-> b.proof_of_work, transaction_list |-> us]
  BY BlockFields
<1>3. c \in BlockType
  BY <1>1 DEF BlockType
<1>4. \A j \in 1..n : Used(ts[j]) = Used(us[j]) /\ (o <= len => ts[j] = us[j])
  BY DEF Alike
<1>5. [j \in 1..Len(ts) |-> Used(ts[j])] = [j \in 1..Len(us) |-> Used(us[j])]
  BY <1>4
<1> DEFINE R(x) == [created_at |-> b.created_at,
                    previous_block_hash |-> b.previous_block_hash,
                    proof_of_work |-> b.proof_of_work, transaction_list |-> x]
<1>6. \A x, y : [R(x) EXCEPT !.transaction_list = y] = R(y) /\ R(x).transaction_list = x
  OBVIOUS
<1>7. Worth(c) = Worth(b)
  <2>1. c = R(ts) /\ b = R(us)
    BY <1>2
  <2> HIDE DEF R
  <2>2. /\ Worth(R(ts)) = R([j \in 1..Len(ts) |-> Used(ts[j])])
        /\ Worth(R(us)) = R([j \in 1..Len(us) |-> Used(us[j])])
    <3> HIDE DEF us
    <3> QED
      BY <1>6 DEF Worth
  <2> QED
    BY <1>5, <2>1, <2>2, Zenon
<1>8. o <= len => ts = us
  <2>1. ts = [j \in 1..n |-> ts[j]] /\ us = [j \in 1..n |-> us[j]]
    BY <1>1, SMTT(30)
  <2> QED
    BY <1>4, <2>1
<1>9. o <= len => c = b
  BY <1>2, <1>8
<1> QED
  BY <1>3, <1>7, <1>9 DEF AlikeBlocks

\* The chain, when its blocks have been read.
AllAlike(bs, cs, n, o, len) == \A i \in 1..n : AlikeBlocks(bs[i], cs[i], o, len)

\* Alike blocks are worth the same chain.
LEMMA ChainAlike ==
  ASSUME NEW bs \in Seq(BlockType), NEW cs \in Seq(SentBlock),
         NEW n \in 1..Len(cs), Len(bs) = n, NEW o, NEW len,
         AllAlike(bs, cs, n, o, len)
  PROVE  /\ [i \in 1..Len(bs) |-> Worth(bs[i])]
              = [i \in 1..Len(SubSeq(cs, 1, n)) |-> Worth(SubSeq(cs, 1, n)[i])]
         /\ o <= len => bs = SubSeq(cs, 1, n)
<1>1. /\ SubSeq(cs, 1, n) \in Seq(SentBlock) /\ Len(SubSeq(cs, 1, n)) = n
      /\ \A i \in 1..n : SubSeq(cs, 1, n)[i] = cs[i]
  OBVIOUS
<1>2. \A i \in 1..n : Worth(bs[i]) = Worth(cs[i]) /\ (o <= len => bs[i] = cs[i])
  BY DEF AllAlike, AlikeBlocks
<1>3. o <= len => bs = SubSeq(cs, 1, n)
  <2>1. /\ bs = [i \in 1..n |-> bs[i]]
        /\ SubSeq(cs, 1, n) = [i \in 1..n |-> SubSeq(cs, 1, n)[i]]
    BY <1>1
  <2> QED
    BY <1>1, <1>2, <2>1
<1> QED
  BY <1>1, <1>2, <1>3

-----------------------------------------------------------------------------
\* The places of the loop.
Loop == {"block", "transaction", "fields", "append", "add"}
InLoop ==
  d.pc \in Loop =>
    \E f : ChainHeld(written, f, sent.chain, sent.num_blocks) /\ Reading(f)

\* The inductive invariant.
ReadInv == Buffers /\ Memory /\ Locals /\ Transport /\ Outcome /\ InLoop

(***************************************************************************)
(* The steps.  An assignment leaves the other locals as they are.          *)
(***************************************************************************)
LEMMA LocalNames ==
  ASSUME TransferInv
  PROVE  DOMAIN d = {"pc", "offset", "zeros", "num_blocks", "blocks", "block",
                     "num_transactions", "transactions", "transaction", "code",
                     "result"}
<1>1. DOMAIN Start = {"pc", "offset", "zeros", "num_blocks", "blocks", "block",
                      "num_transactions", "transactions", "transaction", "code",
                      "result"}
  BY DEF Start
<1>2. d = [f \in DOMAIN Start |-> d[f]]
  BY DEF TransferInv
<1> QED
  BY <1>1, <1>2

\* A step to another place keeps what has been read.
LEMMA Stays ==
  ASSUME TransferInv, NEW pc, NEW code,
         \/ d' = [d EXCEPT !.pc = pc, !.code = code]
         \/ d' = [d EXCEPT !.pc = pc] /\ code = d.code
  PROVE  /\ d'.pc = pc /\ d'.code = code /\ d'.result = d.result
         /\ d'.offset = d.offset /\ d'.zeros = d.zeros
         /\ d'.num_blocks = d.num_blocks /\ d'.blocks = d.blocks
         /\ d'.block = d.block /\ d'.num_transactions = d.num_transactions
         /\ d'.transactions = d.transactions /\ d'.transaction = d.transaction
<1>1. {"pc", "code"} \subseteq DOMAIN d
  BY LocalNames
<1>2. CASE d' = [d EXCEPT !.pc = pc, !.code = code]
  BY <1>1, <1>2
<1>3. CASE d' = [d EXCEPT !.pc = pc] /\ code = d.code
  BY <1>1, <1>3
<1> QED
  BY <1>2, <1>3

\* Only known objects are allocated, and only held ones are lost.
LEMMA MemoryStep ==
  ASSUME TransferInv, Memory, Next
  PROVE  Memory'
<1>1. d.pc # "done" => lost = {}
  BY DEF TransferInv
<1>2. CASE Serialize \/ OpenFile \/ WriteFile \/ ReadFile
  <2>1. lost = {} /\ held \subseteq Object
    BY <1>1, <1>2 DEF Serialize, OpenFile, WriteFile, ReadFile, Memory
  <2> QED
    BY <1>2, <2>1 DEF Serialize, OpenFile, WriteFile, ReadFile, Memory, Hold, Object
<1>3. CASE SendAndReceive
  <2>1. lost = {} /\ lost' = lost /\ held \subseteq Object
    BY <1>1, <1>3 DEF SendAndReceive, Memory
  <2>2. held' \subseteq held \/ held' = {"data"}
    BY <1>3 DEF SendAndReceive, Fail
  <2> QED
    BY <2>1, <2>2 DEF Memory, Object
<1>4. CASE \/ ReadChainHeader \/ Finish \/ ReadBlockHeader \/ AllocateTransaction
           \/ ReadTransaction \/ AppendTransaction \/ CreateBlock \/ AddBlock
           \/ CallerCleansUp
  <2>1. lost' = lost /\ d.pc # "done"
    BY <1>4 DEF ReadChainHeader, Finish, ReadBlockHeader, AllocateTransaction,
                ReadTransaction, AppendTransaction, CreateBlock, AddBlock,
                CallerCleansUp, Deserializing
  <2>2. held' \subseteq held \cup {"chain", "list", "transaction", "block"}
    BY <1>4 DEF ReadChainHeader, Finish, ReadBlockHeader, AllocateTransaction,
                ReadTransaction, AppendTransaction, CreateBlock, AddBlock,
                CallerCleansUp, OutOfMemory, Fail, Hold
  <2>3. lost' = {}
    BY <1>1, <2>1
  <2> QED
    BY <2>2, <2>3 DEF Memory, Object
<1> QED
  BY <1>2, <1>3, <1>4 DEF Next

\* What is in the buffers stays there.
Kept == UNCHANGED <<sent, written, route, file, data>>

\* The buffer is still a beginning of what was written.
LEMMA TransportStays ==
  ASSUME Transport, Kept, d.pc \notin Underway \cup {"done"},
         d'.pc \notin Underway \cup {"header"}
  PROVE  Transport'
BY DEF Transport, Kept, Underway

\* The deserializer returns without a chain.
LEMMA ReadFails ==
  ASSUME TransferInv, ReadInv, Memory', Kept, d.pc \notin Underway \cup {"done"},
         NEW code, NEW frees, Fail(code, frees), code # "SUCCESS",
         code = "FAILURE_COULD_NOT_MALLOC" \/ data # written
  PROVE  ReadInv'
<1>1. d' = [d EXCEPT !.pc = "return", !.code = code]
  BY DEF Fail
<1>2. /\ d'.pc = "return" /\ d'.code = code
      /\ d'.offset = d.offset /\ d'.zeros = d.zeros
      /\ d'.num_blocks = d.num_blocks /\ d'.blocks = d.blocks
      /\ d'.num_transactions = d.num_transactions
      /\ d'.transactions = d.transactions
  BY <1>1, Stays
<1>3. Buffers' /\ Locals'
  BY <1>2 DEF ReadInv, Buffers, Locals, Kept
<1>4. Transport'
  BY <1>2, TransportStays DEF ReadInv, Underway
<1>5. Outcome'
  BY <1>2 DEF Outcome, Kept
<1>6. InLoop'
  BY <1>2 DEF InLoop, Loop
<1> QED
  BY <1>3, <1>4, <1>5, <1>6 DEF ReadInv

\* The deserializer goes on.
LEMMA ReadsOn ==
  ASSUME ReadInv, Memory', Kept, d.pc \in Loop \cup {"header"}, d'.pc \in Loop,
         d'.code = d.code, Locals',
         NEW f, ChainHeld(written, f, sent.chain, sent.num_blocks), Reading(f)'
  PROVE  ReadInv'
<1>1. d.code # "SUCCESS"
  BY DEF ReadInv, Outcome, Loop
<1>2. Buffers' /\ written' = written /\ sent' = sent
  BY DEF ReadInv, Buffers, Kept
<1>3. Transport'
  BY TransportStays DEF ReadInv, Underway, Loop
<1>4. Outcome'
  BY <1>1 DEF Outcome, Loop
<1>5. InLoop'
  <2>1. ChainHeld(written', f, sent'.chain, sent'.num_blocks)
    BY <1>2
  <2> QED
    BY <2>1, Zenon DEF InLoop
<1> QED
  BY <1>2, <1>3, <1>4, <1>5 DEF ReadInv

\* The caller frees its buffer.
LEMMA CallerReads ==
  ASSUME TransferInv, ReadInv, Memory', CallerCleansUp
  PROVE  ReadInv'
<1>1. Kept /\ d.pc = "return" /\ d' = [d EXCEPT !.pc = "done"]
  BY DEF CallerCleansUp, Deserializing, Kept, GoTo
<1>2. /\ d'.pc = "done" /\ d'.code = d.code /\ d'.result = d.result
      /\ d'.offset = d.offset /\ d'.zeros = d.zeros
      /\ d'.num_blocks = d.num_blocks /\ d'.blocks = d.blocks
      /\ d'.num_transactions = d.num_transactions
      /\ d'.transactions = d.transactions
  BY <1>1, Stays
<1>3. Buffers' /\ Locals'
  BY <1>1, <1>2 DEF ReadInv, Buffers, Locals, Kept
<1>4. Transport'
  BY <1>1, <1>2, TransportStays DEF ReadInv, Underway
<1>5. Outcome'
  <2>1. Expected' = Expected
    BY <1>1 DEF Expected, Kept
  <2>2. Meaning(Expected)' = Meaning(Expected) /\ Meaning(d.result)' = Meaning(d.result)
    BY <1>2, <2>1 DEF Meaning
  <2> QED
    BY <1>1, <1>2, <2>1, <2>2 DEF ReadInv, Outcome, Kept
<1>6. InLoop'
  BY <1>2 DEF InLoop, Loop
<1> QED
  BY <1>3, <1>4, <1>5, <1>6 DEF ReadInv

\* On the way the locals are still what they were at the start.
LEMMA OnTheWay ==
  ASSUME TransferInv, ReadInv, Memory', d.pc \in Underway, sent' = sent, Buffers',
         NEW pc \in {"command", "open", "write", "read", "header", "done"},
         NEW code, code # "SUCCESS",
         \/ d' = [d EXCEPT !.pc = pc, !.code = code]
         \/ d' = [d EXCEPT !.pc = pc] /\ code = d.code,
         \/ written' = <<>> /\ pc = "done"
         \/ written' = blockchain_serialize(sent.chain, sent.num_blocks),
         Begins(data', written'), Begins(file', written'),
         pc # "header" => data' = <<>>
  PROVE  ReadInv'
<1>1. /\ d'.pc = pc /\ d'.code = code
      /\ d'.offset = d.offset /\ d'.zeros = d.zeros
      /\ d'.num_blocks = d.num_blocks /\ d'.blocks = d.blocks
      /\ d'.num_transactions = d.num_transactions
      /\ d'.transactions = d.transactions
  <2>1. CASE d' = [d EXCEPT !.pc = pc, !.code = code]
    BY <2>1, Stays
  <2>2. CASE d' = [d EXCEPT !.pc = pc] /\ code = d.code
    BY <2>2, Stays, ZenonT(30)
  <2> QED
    BY <2>1, <2>2
<1>2. Locals'
  BY <1>1 DEF ReadInv, Locals
<1>3. Transport'
  <2>1. /\ d'.offset = 0 /\ d'.zeros = 0 /\ d'.num_blocks = 0
        /\ d'.num_transactions = 0 /\ d'.blocks = <<>> /\ d'.transactions = <<>>
    BY <1>1 DEF ReadInv, Transport
  <2>2. /\ sent'.chain \in Chains /\ sent'.num_blocks \in 1..Len(sent'.chain.blocks)
        /\ \/ written' = <<>> /\ d'.pc \in {"serialize", "done"}
           \/ written' = blockchain_serialize(sent.chain, sent.num_blocks)'
    BY <1>1 DEF ReadInv, Transport
  <2>3. d'.pc \in Underway => data' = <<>>
    BY <1>1 DEF Underway
  <2> QED
    BY <2>1, <2>2, <2>3, Zenon DEF Transport
<1>4. Outcome'
  BY <1>1 DEF Outcome
<1>5. InLoop'
  BY <1>1 DEF InLoop, Loop
<1> QED
  BY <1>2, <1>3, <1>4, <1>5 DEF ReadInv

\* Nothing, and everything, is a beginning.
LEMMA EmptyBegins ==
  ASSUME NEW m \in Seq(Byte)
  PROVE  Begins(<<>>, m) /\ Begins(m, m) /\ <<>> \in Seq(Byte)
<1>1. m = SubSeq(m, 1, Len(m)) /\ SubSeq(m, 1, 0) = <<>> /\ Len(m) >= 0
  OBVIOUS
<1>2. Len(<<>>) = 0 /\ <<>> \in Seq(Byte) /\ Len(m) <= Len(m)
  OBVIOUS
<1> QED
  BY <1>1, <1>2 DEF Begins

\* blockchain_serialize, and the way to the buffer that is deserialized.
LEMMA TransportReads ==
  ASSUME TransferInv, ReadInv, Memory',
         Serialize \/ SendAndReceive \/ OpenFile \/ WriteFile \/ ReadFile
  PROVE  ReadInv'
<1> DEFINE w == blockchain_serialize(sent.chain, sent.num_blocks)
<1>1. /\ sent.chain \in Chains /\ sent.num_blocks \in 1..Len(sent.chain.blocks)
      /\ w \in Seq(Byte) /\ Len(w) <= CallocLimit
  <2>1. sent.chain \in Chains /\ sent.num_blocks \in 1..Len(sent.chain.blocks)
    BY DEF ReadInv, Transport
  <2> QED
    BY <2>1, ChainWritten, ChainFields
<1>2. /\ d.pc \in Underway /\ sent' = sent /\ d.code # "SUCCESS" /\ data = <<>>
  <2>1. d.pc \in Underway /\ sent' = sent
    BY DEF Serialize, SendAndReceive, OpenFile, WriteFile, ReadFile, Underway
  <2> QED
    BY <2>1 DEF ReadInv, Outcome, Underway, Transport
<1>3. d.pc # "serialize" => written = w
  BY <1>2 DEF ReadInv, Transport, Underway
<1>4. data \in Seq(Byte) /\ file \in Seq(Byte) /\ written \in Seq(Byte) /\ Begins(file, written)
  BY DEF ReadInv, Buffers, Transport
<1>5. Begins(<<>>, written) /\ Begins(<<>>, w) /\ <<>> \in Seq(Byte)
  BY <1>1, <1>4, EmptyBegins
<1>6. d.pc = "serialize" => file = <<>> \/ written = w
  BY <1>4 DEF ReadInv, Transport, Begins
<1> HIDE DEF w
<1>7. CASE Serialize
  <2>1. d.pc = "serialize" /\ UNCHANGED <<sent, file, data>>
    BY <1>7 DEF Serialize
  <2>2. CASE /\ written' = w /\ GoTo(IF route = "file" THEN "open" ELSE "command")
    <3>1. PICK pc \in {"open", "command"} : d' = [d EXCEPT !.pc = pc]
      BY <2>2 DEF GoTo
    <3>2. Buffers' /\ Begins(data', written') /\ Begins(file', written')
      BY <1>1, <1>2, <1>4, <1>5, <1>6, <2>1, <2>2 DEF Buffers
    <3> QED
      BY <1>2, <2>1, <2>2, <3>1, <3>2, OnTheWay DEF w
  <2>3. CASE /\ written' = written
             /\ d' = [d EXCEPT !.pc = "done", !.code = "FAILURE_COULD_NOT_MALLOC"]
    <3>1. Buffers' /\ Begins(data', written') /\ Begins(file', written')
      BY <1>2, <1>4, <1>5, <2>1, <2>3 DEF Buffers
    <3>2. written' = <<>> \/ written' = w
      BY <2>3 DEF ReadInv, Transport, w
    <3> QED
      BY <1>2, <2>1, <2>3, <3>1, <3>2, OnTheWay DEF w
  <2> QED
    BY <1>7, <2>2, <2>3 DEF Serialize, w
<1>8. CASE SendAndReceive
  <2>1. d.pc = "command" /\ UNCHANGED <<sent, written, file>> /\ written = w
    BY <1>3, <1>8 DEF SendAndReceive
  <2>2. command_send_blockchain_deserialize(command_send_blockchain_serialize(written))
          = Success(written)
    <3>1. COMMAND_SEND_BLOCKCHAIN \in Unsigned(U32)
      BY WidthAssumption
    <3>2. Len(written) <= CallocLimit
      BY <1>1, <2>1
    <3>3. PICK m : m = SendData(COMMAND_SEND_BLOCKCHAIN, written)
      OBVIOUS
    <3>4. ReceiveData(COMMAND_SEND_BLOCKCHAIN, m) = Success(written)
      BY <1>4, <3>1, <3>2, <3>3, DataRoundTrip, Zenon
    <3> QED
      BY <3>3, <3>4, Zenon
      DEF command_send_blockchain_deserialize, command_send_blockchain_serialize
  <2>3. data' = written /\ d' = [d EXCEPT !.pc = "header"]
    <3>1. Success(written).code = "SUCCESS" /\ Success(written).value = written
      BY DEF Success
    <3> QED
      BY <1>8, <2>2, <3>1, Zenon DEF SendAndReceive, GoTo
  <2>4. Buffers' /\ Begins(data', written') /\ Begins(file', written')
    BY <1>4, <2>1, <2>3, EmptyBegins DEF Buffers
  <2> QED
    BY <1>2, <2>1, <2>3, <2>4, OnTheWay DEF w
<1>9. CASE OpenFile
  <2>1. /\ d.pc = "open" /\ UNCHANGED <<sent, written, data>> /\ written = w
        /\ file' = <<>> \/ file' = file
    BY <1>3, <1>9 DEF OpenFile
  <2>2. Buffers' /\ Begins(data', written') /\ Begins(file', written')
    BY <1>2, <1>4, <1>5, <2>1 DEF Buffers
  <2>3. CASE GoTo("write")
    BY <1>2, <2>1, <2>2, <2>3, OnTheWay DEF w, GoTo
  <2>4. CASE d' = [d EXCEPT !.pc = "done", !.code = "FAILURE_FILE_IO"]
    BY <1>2, <2>1, <2>2, <2>4, OnTheWay DEF w
  <2> QED
    BY <1>9, <2>3, <2>4 DEF OpenFile
<1>10. CASE WriteFile
  <2>1. /\ d.pc = "write" /\ UNCHANGED <<sent, written, data>> /\ written = w
        /\ d' = [d EXCEPT !.pc = "read"]
    BY <1>3, <1>10 DEF WriteFile, GoTo
  <2>2. PICK n \in 0..Len(written) : file' = SubSeq(written, 1, n)
    BY <1>10 DEF WriteFile
  <2>3. file' \in Seq(Byte) /\ Len(file') = n /\ n <= Len(written)
    BY <1>4, <2>2
  <2>4. Buffers' /\ Begins(data', written') /\ Begins(file', written')
    BY <1>2, <1>4, <1>5, <2>1, <2>2, <2>3 DEF Buffers, Begins
  <2> QED
    BY <1>2, <2>1, <2>4, OnTheWay DEF w
<1>11. CASE ReadFile
  <2>1. d.pc = "read" /\ UNCHANGED <<sent, written, file>> /\ written = w
    BY <1>3, <1>11 DEF ReadFile
  <2>2. CASE data' = file /\ GoTo("header")
    <3>1. Buffers' /\ Begins(data', written') /\ Begins(file', written')
      BY <1>4, <2>1, <2>2 DEF Buffers
    <3> QED
      BY <1>2, <2>1, <2>2, <3>1, OnTheWay DEF w, GoTo
  <2>3. CASE UNCHANGED data /\ d' = [d EXCEPT !.pc = "done", !.code = "FAILURE_FILE_IO"]
    <3>1. Buffers' /\ Begins(data', written') /\ Begins(file', written')
      BY <1>2, <1>4, <1>5, <2>1, <2>3 DEF Buffers
    <3> QED
      BY <1>2, <2>1, <2>3, <3>1, OnTheWay DEF w
  <2>4. CASE /\ UNCHANGED data
             /\ d' = [d EXCEPT !.pc = "done", !.code = "FAILURE_COULD_NOT_MALLOC"]
    <3>1. Buffers' /\ Begins(data', written') /\ Begins(file', written')
      BY <1>2, <1>4, <1>5, <2>1, <2>4 DEF Buffers
    <3> QED
      BY <1>2, <2>1, <2>4, <3>1, OnTheWay DEF w
  <2> QED
    BY <1>11, <2>2, <2>3, <2>4 DEF ReadFile
<1> QED
  BY <1>7, <1>8, <1>9, <1>10, <1>11

\* The chain that is in the buffer.
LEMMA Written ==
  ASSUME ReadInv, d.pc \notin {"serialize", "done"}
  PROVE  /\ sent.chain \in Chains /\ sent.num_blocks \in 1..Len(sent.chain.blocks)
         /\ written \in Seq(Byte) /\ data \in Seq(Byte) /\ Begins(data, written)
         /\ \E f : ChainHeld(written, f, sent.chain, sent.num_blocks)
<1>1. /\ sent.chain \in Chains /\ sent.num_blocks \in 1..Len(sent.chain.blocks)
      /\ written \in Seq(Byte) /\ data \in Seq(Byte) /\ Begins(data, written)
      /\ written = blockchain_serialize(sent.chain, sent.num_blocks)
  BY DEF ReadInv, Buffers, Transport
<1> QED
  BY <1>1, ChainWritten

\* A block of it.
LEMMA BlockOf ==
  ASSUME NEW ch \in Chains, NEW n \in 1..Len(ch.blocks), NEW m \in Seq(Byte),
         NEW f, ChainHeld(m, f, ch, n), NEW i \in Nat, i < n,
         NEW b, b = ch.blocks[i + 1]
  PROVE  /\ b \in SentBlock /\ Len(b.transaction_list) \in Unsigned(U64)
         /\ Len(b.transaction_list) \in Nat
         /\ f[i] \in Nat /\ BlockHeld(m, f[i], b)
         /\ f[i + 1] = f[i] + SizeOf(b)
<1>1. i + 1 \in 1..Len(ch.blocks) /\ i \in 0..Len(ch.blocks) /\ (i + 1) - 1 = i
  BY ChainFields
<1>2. b \in SentBlock /\ Len(b.transaction_list) \in Unsigned(U64)
  BY <1>1, ChainFields
<1>3. /\ f \in [0..Len(ch.blocks) -> Nat]
      /\ f[i + 1] = f[(i + 1) - 1] + SizeOf(ch.blocks[i + 1])
      /\ BlockHeld(m, f[(i + 1) - 1], ch.blocks[i + 1])
  BY <1>1, Zenon DEF ChainHeld, Layout
<1>4. Len(b.transaction_list) \in Nat
  BY <1>2 DEF Unsigned
<1> QED
  BY <1>1, <1>2, <1>3, <1>4

\* The header gives the requirement and the number of blocks when counted.
LEMMA ReadChainHeaderReads ==
  ASSUME TransferInv, ReadInv, Memory', ReadChainHeader
  PROVE  ReadInv'
<1>1. d.pc = "header" /\ Kept /\ d.pc \notin Underway \cup {"done"}
  BY DEF ReadChainHeader, Deserializing, Kept, Underway
<1>2. d.offset = 0 /\ d.blocks = <<>> /\ d.num_transactions = 0 /\ d.transactions = <<>>
  BY <1>1 DEF ReadInv, Transport
<1>3. /\ sent.chain \in Chains /\ sent.num_blocks \in 1..Len(sent.chain.blocks)
      /\ written \in Seq(Byte) /\ data \in Seq(Byte) /\ Begins(data, written)
      /\ \E f : ChainHeld(written, f, sent.chain, sent.num_blocks)
  BY <1>1, Written
<1>4. PICK f : ChainHeld(written, f, sent.chain, sent.num_blocks)
  BY <1>3
<1>5. /\ sent.chain.zeros \in Unsigned(U64) /\ sent.num_blocks \in Unsigned(U64)
      /\ sent.chain.zeros \in Nat /\ sent.num_blocks \in Nat
  BY <1>3, ChainFields
<1>6. /\ Holds(written, 0, BigEndian(sent.chain.zeros, U64))
      /\ Holds(written, U64, BigEndian(sent.num_blocks, U64))
      /\ f[0] = 2 * U64
  BY <1>4, Zenon DEF ChainHeld, Layout
<1>7. Len(written) >= 2 * U64
  <2>1. Len(BigEndian(sent.num_blocks, U64)) = U64
    BY <1>5, ChainSizes, BigEndianType
  <2> QED
    BY <1>6, <2>1, ChainSizes DEF Holds
<1>8. data = written => Fits(U64) /\ Fits(2 * U64)
  BY <1>2, <1>7, ChainSizes DEF Fits
<1>9. ASSUME ~Fits(U64) \/ ~Fits(2 * U64), Fail("FAILURE_BUFFER_TOO_SMALL", {})
      PROVE  ReadInv'
  BY <1>1, <1>8, <1>9, ReadFails
<1>10. CASE OutOfMemory({})
  BY <1>1, <1>10, ReadFails DEF OutOfMemory
<1>11. ASSUME Fits(2 * U64),
              d' = [d EXCEPT !.pc = "block", !.offset = 2 * U64,
                             !.zeros = Number(data, 0, U64),
                             !.num_blocks = Number(data, U64, U64)]
       PROVE  ReadInv'
  <2>1. U64 + U64 <= Len(data) /\ 0 + U64 <= Len(data) /\ 2 * U64 \in Nat
    BY <1>2, <1>3, <1>11, ChainSizes DEF Fits
  <2>2. Number(data, 0, U64) = sent.chain.zeros
    BY <1>3, <1>5, <1>6, <2>1, NumberRead
  <2>3. Number(data, U64, U64) = sent.num_blocks
    BY <1>3, <1>5, <1>6, <2>1, NumberRead, ChainSizes
  <2>4. /\ d'.pc = "block" /\ d'.offset = 2 * U64 /\ d'.code = d.code
        /\ d'.zeros = Number(data, 0, U64) /\ d'.num_blocks = Number(data, U64, U64)
        /\ d'.blocks = d.blocks /\ d'.num_transactions = d.num_transactions
        /\ d'.transactions = d.transactions
    BY <1>11, LocalNames
  <2>5. /\ d'.zeros = sent.chain.zeros /\ d'.num_blocks = sent.num_blocks
        /\ d'.blocks = <<>> /\ d'.num_transactions = 0 /\ d'.transactions = <<>>
    BY <1>2, <2>2, <2>3, <2>4
  <2>6. Locals'
    BY <1>5, <2>1, <2>4, <2>5 DEF Locals
  <2>7. <<>> \in Seq(BlockType) /\ Len(<<>>) = 0 /\ 1..Len(<<>>) = {}
    OBVIOUS
  <2>8. BlocksRead(d', sent.chain, sent.num_blocks, Len(data))
    BY <1>5, <2>5, <2>7 DEF BlocksRead
  <2>9. Reading(f)'
    <3>1. sent' = sent /\ data' = data
      BY <1>1 DEF Kept
    <3>2. BlocksRead(d', sent'.chain, sent'.num_blocks, Len(data'))
      BY <2>8, <3>1
    <3>3. d'.offset = f[Len(d'.blocks)]
      BY <1>6, <2>4, <2>5, <2>7
    <3> QED
      BY <2>4, <3>2, <3>3 DEF Reading
  <2> QED
    BY <1>1, <1>4, <2>4, <2>6, <2>9, ReadsOn DEF Loop
<1> QED
  BY <1>9, <1>10, <1>11 DEF ReadChainHeader

\* The chain is complete: its end is in the buffer if all of it arrived.
LEMMA FinishReads ==
  ASSUME TransferInv, ReadInv, Memory', Finish
  PROVE  ReadInv'
<1>0. PICK r : r = [zeros |-> d.zeros, blocks |-> d.blocks]
  OBVIOUS
<1>1. /\ d.pc = "block" /\ Kept /\ Len(d.blocks) >= d.num_blocks
      /\ d.pc \notin Underway \cup {"done"}
      /\ d' = [d EXCEPT !.pc = "return", !.code = "SUCCESS", !.result = r]
  BY <1>0 DEF Finish, Deserializing, Kept, Underway
<1>2. PICK ch : ch = sent.chain
  OBVIOUS
<1>3. PICK n : n = sent.num_blocks
  OBVIOUS
<1>4. PICK f : ChainHeld(written, f, ch, n) /\ Reading(f)
  BY <1>1, <1>2, <1>3 DEF ReadInv, InLoop, Loop
<1>5. /\ ch \in Chains /\ n \in 1..Len(ch.blocks)
      /\ written \in Seq(Byte) /\ data \in Seq(Byte)
  BY <1>1, <1>2, <1>3, Written
<1>6. BlocksRead(d, ch, n, Len(data)) /\ d.offset = f[Len(d.blocks)]
  BY <1>1, <1>4, <1>2, <1>3 DEF Reading
<1>7. /\ d.blocks \in Seq(BlockType) /\ Len(d.blocks) = n /\ d.zeros = ch.zeros
      /\ \A i \in 1..n : AlikeBlocks(d.blocks[i], ch.blocks[i], d.offset, Len(data))
  BY <1>1, <1>5, <1>6 DEF BlocksRead
<1>8. ch.blocks \in Seq(SentBlock) /\ n \in Nat
  BY <1>5, ChainFields
<1>9. data = written => d.offset <= Len(data)
  <2>1. PICK i \in Nat : i < n /\ i + 1 = n
    <3>1. n - 1 \in Nat /\ n - 1 < n /\ (n - 1) + 1 = n
      BY <1>5, <1>8
    <3> QED
      BY <3>1
  <2>2. PICK b : b = ch.blocks[i + 1]
    OBVIOUS
  <2>3. /\ b \in SentBlock /\ f[i] \in Nat /\ BlockHeld(written, f[i], b)
        /\ f[i + 1] = f[i] + SizeOf(b)
    <3>1. ChainHeld(written, f, ch, n) /\ written \in Seq(Byte)
      BY <1>4, <1>5
    <3>2. ch \in Chains /\ n \in 1..Len(ch.blocks)
      BY <1>5
    <3> QED
      BY <2>1, <2>2, <3>1, <3>2, BlockOf
  <2>4. f[i] + SizeOf(b) <= Len(written)
    BY <1>5, <2>3, BlockInside
  <2> QED
    BY <1>6, <1>7, <2>1, <2>3, <2>4
<1>10. /\ r.zeros = Expected.zeros /\ Meaning(r) = Meaning(Expected)
       /\ d.offset <= Len(data) => r = Expected
  <2>1. Expected = [zeros |-> d.zeros, blocks |-> SubSeq(ch.blocks, 1, n)]
    BY <1>7, <1>2, <1>3 DEF Expected
  <2>2. /\ r.zeros = d.zeros /\ r.blocks = d.blocks /\ Expected.zeros = d.zeros
        /\ Expected.blocks = SubSeq(ch.blocks, 1, n)
    BY <1>0, <2>1
  <2>3. AllAlike(d.blocks, ch.blocks, n, d.offset, Len(data))
    BY <1>7 DEF AllAlike
  <2>4. /\ [i \in 1..Len(d.blocks) |-> Worth(d.blocks[i])]
             = [i \in 1..Len(SubSeq(ch.blocks, 1, n)) |->
                  Worth(SubSeq(ch.blocks, 1, n)[i])]
        /\ d.offset <= Len(data) => d.blocks = SubSeq(ch.blocks, 1, n)
    <3>1. ch.blocks \in Seq(SentBlock) /\ n \in 1..Len(ch.blocks)
      BY <1>5, <1>8
    <3>2. d.blocks \in Seq(BlockType) /\ Len(d.blocks) = n
      BY <1>7
    <3> QED
      BY <2>3, <3>1, <3>2, ChainAlike
  <2>5. /\ Meaning(r) = [i \in 1..Len(r.blocks) |-> Worth(r.blocks[i])]
        /\ Meaning(Expected)
             = [i \in 1..Len(Expected.blocks) |-> Worth(Expected.blocks[i])]
    BY Zenon DEF Meaning, Worth
  <2>6. Meaning(r) = Meaning(Expected)
    BY <2>2, <2>4, <2>5
  <2>7. d.offset <= Len(data) => r = Expected
    BY <1>0, <2>1, <2>4
  <2> QED
    BY <2>2, <2>6, <2>7
<1>11. /\ d'.pc = "return" /\ d'.code = "SUCCESS" /\ d'.result = r
       /\ d'.offset = d.offset /\ d'.zeros = d.zeros
       /\ d'.num_blocks = d.num_blocks /\ d'.blocks = d.blocks
       /\ d'.num_transactions = d.num_transactions
       /\ d'.transactions = d.transactions
  BY <1>1, LocalNames
<1>12. Buffers' /\ Locals'
  BY <1>1, <1>11 DEF ReadInv, Buffers, Locals, Kept
<1>13. Transport'
  BY <1>1, <1>11, TransportStays DEF ReadInv, Underway
<1>14. Outcome'
  <2>1. PICK e : e = Expected
    OBVIOUS
  <2>2. Expected' = e /\ data' = data /\ written' = written
    BY <1>1, <2>1 DEF Expected, Kept
  <2>3. r.zeros = e.zeros /\ Meaning(r) = Meaning(e) /\ (data = written => r = e)
    BY <1>9, <1>10, <2>1
  <2> QED
    BY <1>11, <2>2, <2>3 DEF Outcome
<1>15. InLoop'
  BY <1>11 DEF InLoop, Loop
<1> QED
  BY <1>12, <1>13, <1>14, <1>15 DEF ReadInv

\* What has been read stays read when the offset moves on.
LEMMA BlocksKept ==
  ASSUME NEW ch, NEW n, NEW len \in Nat, NEW e1, BlocksRead(e1, ch, n, len),
         NEW e2, e2.zeros = e1.zeros, e2.num_blocks = e1.num_blocks,
         e2.blocks = e1.blocks, e1.offset \in Nat, e2.offset \in Nat,
         e1.offset <= e2.offset
  PROVE  BlocksRead(e2, ch, n, len)
<1>1. e2.offset <= len => e1.offset <= len
  OBVIOUS
<1>2. \A i \in 1..Len(e2.blocks) :
        AlikeBlocks(e2.blocks[i], ch.blocks[i], e2.offset, len)
  BY <1>1 DEF BlocksRead, AlikeBlocks
<1> QED
  BY <1>2 DEF BlocksRead

\* The same for the transactions of a block.
LEMMA BlockKept ==
  ASSUME NEW start, NEW b, NEW k1, NEW k2, NEW len \in Nat,
         NEW e1, BlockRead(e1, start, b, k1, len),
         NEW e2, e2.block = e1.block, e2.num_transactions = e1.num_transactions,
         e2.transactions = e1.transactions,
         e1.offset \in Nat, e2.offset \in Nat, e1.offset <= e2.offset,
         k2 <= Len(b.transaction_list),
         e2.offset = start + BlockHeaderSize + k2 * TransactionSize
  PROVE  BlockRead(e2, start, b, k2, len)
<1>1. e2.offset <= len => e1.offset <= len
  OBVIOUS
<1>2. \A j \in 1..Len(e2.transactions) :
        Alike(e2.transactions[j], b.transaction_list[j], e2.offset, len)
  BY <1>1 DEF BlockRead, Alike
<1> QED
  BY <1>2 DEF BlockRead

\* The loop is in the block b, i blocks into the chain.
Within(f, i, b) ==
  /\ ChainHeld(written, f, sent.chain, sent.num_blocks)
  /\ Reading(f)
  /\ BlocksRead(d, sent.chain, sent.num_blocks, Len(data))
  /\ i < sent.num_blocks =>
       /\ b \in SentBlock
       /\ Len(b.transaction_list) \in Unsigned(U64)
       /\ Len(b.transaction_list) \in Nat
       /\ f[i] \in Nat /\ BlockHeld(written, f[i], b)
       /\ f[i + 1] = f[i] + SizeOf(b)

\* What the invariant says in the loop.
LEMMA InBlock ==
  ASSUME ReadInv, d.pc \in Loop, NEW i, i = Len(d.blocks),
         NEW k, k = Len(d.transactions), NEW b, b = sent.chain.blocks[i + 1]
  PROVE  /\ i \in Nat /\ k \in Nat /\ d.offset \in Nat
         /\ sent.num_blocks \in Nat /\ Len(data) \in Nat /\ data \in Seq(Byte)
         /\ written \in Seq(Byte) /\ Begins(data, written)
         /\ \E f : Within(f, i, b)
<1>1. d.offset \in Nat /\ d.blocks \in Seq(BlockType) /\ d.transactions \in Seq(TransactionType)
  BY DEF ReadInv, Locals
<1>2. /\ sent.chain \in Chains /\ sent.num_blocks \in 1..Len(sent.chain.blocks)
      /\ written \in Seq(Byte) /\ data \in Seq(Byte) /\ Begins(data, written)
  BY Written DEF Loop
<1>3. i \in Nat /\ k \in Nat /\ Len(data) \in Nat
  BY <1>1, <1>2
<1>4. sent.num_blocks \in Nat
  BY <1>2, ChainFields
<1>5. PICK f : ChainHeld(written, f, sent.chain, sent.num_blocks) /\ Reading(f)
  BY DEF ReadInv, InLoop
<1>6. BlocksRead(d, sent.chain, sent.num_blocks, Len(data))
  BY <1>5 DEF Reading, Loop
<1>7. ASSUME i < sent.num_blocks
      PROVE  /\ b \in SentBlock /\ Len(b.transaction_list) \in Unsigned(U64)
             /\ Len(b.transaction_list) \in Nat
             /\ f[i] \in Nat /\ BlockHeld(written, f[i], b)
             /\ f[i + 1] = f[i] + SizeOf(b)
  <2>1. PICK ch : ch = sent.chain
    OBVIOUS
  <2>2. PICK n : n = sent.num_blocks
    OBVIOUS
  <2>3. ChainHeld(written, f, ch, n) /\ written \in Seq(Byte)
    BY <1>2, <1>5, <2>1, <2>2
  <2>4. ch \in Chains /\ n \in 1..Len(ch.blocks) /\ i < n /\ b = ch.blocks[i + 1]
    BY <1>2, <1>7, <2>1, <2>2
  <2> QED
    BY <1>3, <2>3, <2>4, BlockOf, SMTT(30)
<1>8. Within(f, i, b)
  BY <1>5, <1>6, <1>7, Zenon DEF Within
<1> QED
  BY <1>1, <1>2, <1>3, <1>4, <1>8, Zenon

\* The loop enters a block of the chain.
LEMMA ReadBlockHeaderReads ==
  ASSUME TransferInv, ReadInv, Memory', ReadBlockHeader
  PROVE  ReadInv'
<1>1. /\ d.pc = "block" /\ Kept /\ Len(d.blocks) < d.num_blocks
      /\ d.pc \notin Underway \cup {"done"} /\ d.pc \in Loop
  BY DEF ReadBlockHeader, Deserializing, Kept, Underway, Loop
<1>2. PICK i : i = Len(d.blocks)
  OBVIOUS
<1>3. PICK b : b = sent.chain.blocks[i + 1]
  OBVIOUS
<1>4. /\ i \in Nat /\ d.offset \in Nat /\ Len(data) \in Nat /\ data \in Seq(Byte)
      /\ written \in Seq(Byte) /\ Begins(data, written)
      /\ \E f : Within(f, i, b)
  BY <1>1, <1>2, <1>3, InBlock
<1>5. PICK f : Within(f, i, b)
  BY <1>4
<1>6. /\ BlocksRead(d, sent.chain, sent.num_blocks, Len(data))
      /\ ChainHeld(written, f, sent.chain, sent.num_blocks)
      /\ i < sent.num_blocks
  BY <1>1, <1>2, <1>5 DEF BlocksRead, Within
<1>7. /\ b \in SentBlock /\ Len(b.transaction_list) \in Unsigned(U64)
      /\ Len(b.transaction_list) \in Nat
      /\ f[i] \in Nat /\ BlockHeld(written, f[i], b)
  BY <1>5, <1>6, Zenon DEF Within
<1>8. d.offset = f[i]
  BY <1>1, <1>2, <1>5 DEF Within, Reading
<1>9. data = written => BlockHeaderFits
  <2>1. f[i] + BlockHeaderSize <= Len(written)
    BY <1>4, <1>7, BlockInside
  <2> QED
    BY <1>8, <2>1 DEF BlockHeaderFits, Fits
<1>10. CASE ~BlockHeaderFits /\ Fail("FAILURE_BUFFER_TOO_SMALL", {"chain"})
  BY <1>1, <1>9, <1>10, ReadFails
<1>11. CASE OutOfMemory({"chain"})
  BY <1>1, <1>11, ReadFails DEF OutOfMemory
<1>12. ASSUME BlockHeaderFits,
              d' = [d EXCEPT !.pc = "transaction", !.block = BlockAt(d.offset),
                     !.offset = @ + BlockHeaderSize,
                     !.num_transactions =
                        Number(data, d.offset + BlockHeaderSize - U64, U64),
                     !.transactions = <<>>]
       PROVE  ReadInv'
  <2>1. d.offset + BlockHeaderSize <= Len(data)
    BY <1>12 DEF BlockHeaderFits, Fits
  <2>2. /\ Number(data, d.offset, U64) = b.created_at
        /\ Bytes(data, d.offset + U64, HashLen) = b.previous_block_hash
        /\ Number(data, d.offset + U64 + HashLen, U64) = b.proof_of_work
        /\ Number(data, d.offset + BlockHeaderSize - U64, U64) = Len(b.transaction_list)
    BY <1>4, <1>7, <1>8, <2>1, BlockHeaderRead
  <2>3. BlockAt(d.offset) = HeaderOf(b)
    BY <2>2, Zenon DEF BlockAt, HeaderOf
  <2>4. /\ d'.pc = "transaction" /\ d'.block = BlockAt(d.offset) /\ d'.code = d.code
        /\ d'.offset = d.offset + BlockHeaderSize
        /\ d'.num_transactions = Number(data, d.offset + BlockHeaderSize - U64, U64)
        /\ d'.transactions = <<>> /\ d'.zeros = d.zeros
        /\ d'.num_blocks = d.num_blocks /\ d'.blocks = d.blocks
    BY <1>12, LocalNames
  <2>5. /\ d'.block = HeaderOf(b) /\ d'.num_transactions = Len(b.transaction_list)
        /\ d'.offset \in Nat /\ d.offset <= d'.offset
    BY <1>4, <2>2, <2>3, <2>4, ChainSizes
  <2>6. Locals'
    <3>1. /\ d.zeros \in Nat /\ d.num_blocks \in Nat /\ d.blocks \in Seq(BlockType)
      BY DEF ReadInv, Locals
    <3>2. <<>> \in Seq(TransactionType)
      OBVIOUS
    <3> QED
      BY <1>7, <2>4, <2>5, <3>1, <3>2 DEF Locals
  <2>7. BlocksRead(d', sent.chain, sent.num_blocks, Len(data))
    BY <1>4, <1>6, <2>4, <2>5, BlocksKept
  <2>8. BlockRead(d', f[i], b, 0, Len(data))
    <3>1. d'.offset = f[i] + BlockHeaderSize + 0 * TransactionSize
      BY <1>7, <1>8, <2>4, ChainSizes
    <3>2. <<>> \in Seq(TransactionType) /\ 1..Len(<<>>) = {} /\ 0 <= Len(b.transaction_list)
      BY <1>7
    <3> QED
      BY <2>4, <2>5, <3>1, <3>2 DEF BlockRead
  <2>9. Reading(f)'
    <3>1. sent' = sent /\ data' = data
      BY <1>1 DEF Kept
    <3>2. Len(d'.blocks) = i /\ Len(d'.transactions) = 0
      BY <1>2, <2>4
    <3>3. sent'.chain.blocks[Len(d'.blocks) + 1] = b
      BY <1>3, <3>1, <3>2
    <3> QED
      BY <1>6, <2>4, <2>7, <2>8, <3>1, <3>2, <3>3 DEF Reading
  <2> QED
    BY <1>1, <1>6, <2>4, <2>6, <2>9, ReadsOn DEF Loop
<1> QED
  BY <1>10, <1>11, <1>12 DEF ReadBlockHeader

\* Between the header of a block and its end, k transactions have been read.
LEMMA InTransactions ==
  ASSUME ReadInv, d.pc \in {"transaction", "fields", "append", "add"},
         NEW i, i = Len(d.blocks), NEW b, b = sent.chain.blocks[i + 1],
         NEW k, k = Len(d.transactions) + (IF d.pc = "append" THEN 1 ELSE 0)
  PROVE  /\ i \in Nat /\ k \in Nat /\ d.offset \in Nat /\ Len(data) \in Nat
         /\ data \in Seq(Byte) /\ written \in Seq(Byte) /\ Begins(data, written)
         /\ i < sent.num_blocks /\ sent.num_blocks \in Nat
         /\ b \in SentBlock /\ Len(b.transaction_list) \in Nat
         /\ \E f : /\ Within(f, i, b)
                   /\ f[i] \in Nat /\ BlockHeld(written, f[i], b)
                   /\ BlockRead(d, f[i], b, k, Len(data))
<1>1. PICK l : l = Len(d.transactions)
  OBVIOUS
<1>2. /\ i \in Nat /\ l \in Nat /\ d.offset \in Nat /\ Len(data) \in Nat
      /\ data \in Seq(Byte) /\ written \in Seq(Byte) /\ Begins(data, written)
      /\ sent.num_blocks \in Nat /\ \E f : Within(f, i, b)
  BY <1>1, InBlock DEF Loop
<1>3. k \in Nat /\ (IF d.pc = "append" THEN l + 1 ELSE l) = k
  <2>1. \A x \in Nat : x + 1 \in Nat /\ x + 0 = x
    OBVIOUS
  <2>2. CASE d.pc = "append"
    BY <1>1, <1>2, <2>1, <2>2, Zenon
  <2>3. CASE d.pc # "append"
    BY <1>1, <1>2, <2>1, <2>3, Zenon
  <2> QED
    BY <2>2, <2>3
<1>4. PICK f : Within(f, i, b)
  BY <1>2
<1>5. /\ Reading(f)
      /\ i < sent.num_blocks =>
           /\ b \in SentBlock /\ Len(b.transaction_list) \in Nat
           /\ f[i] \in Nat /\ BlockHeld(written, f[i], b)
  BY <1>4, Zenon DEF Within
<1>6. /\ i < sent.num_blocks
      /\ BlockRead(d, f[i], b, IF d.pc = "append" THEN l + 1 ELSE l, Len(data))
  BY <1>1, <1>5 DEF Reading
<1>7. BlockRead(d, f[i], b, k, Len(data))
  BY <1>3, <1>6
<1> QED
  BY <1>2, <1>3, <1>4, <1>5, <1>6, <1>7, Zenon

\* An allocation succeeds or fails; either way nothing is read.
LEMMA AllocateTransactionReads ==
  ASSUME TransferInv, ReadInv, Memory', AllocateTransaction \/ CreateBlock
  PROVE  ReadInv'
<1>1. /\ d.pc = "transaction" /\ Kept /\ d.pc \notin Underway \cup {"done"}
      /\ d.pc \in Loop
  BY DEF AllocateTransaction, CreateBlock, Deserializing, Kept, Underway, Loop
<1>2. PICK i : i = Len(d.blocks)
  OBVIOUS
<1>3. PICK b : b = sent.chain.blocks[i + 1]
  OBVIOUS
<1>4. PICK k : k = Len(d.transactions)
  OBVIOUS
<1>5. /\ i \in Nat /\ k \in Nat /\ d.offset \in Nat /\ Len(data) \in Nat
      /\ i < sent.num_blocks /\ Len(b.transaction_list) \in Nat
      /\ \E f : /\ Within(f, i, b)
                /\ f[i] \in Nat /\ BlockHeld(written, f[i], b)
                /\ BlockRead(d, f[i], b, k, Len(data))
  <2>1. Len(d.transactions) \in Nat
    BY DEF ReadInv, Locals
  <2>2. k = Len(d.transactions) + (IF d.pc = "append" THEN 1 ELSE 0)
    BY <1>1, <1>4, <2>1
  <2> QED
    BY <1>1, <1>2, <1>3, <2>2, InTransactions
<1>6. PICK f : Within(f, i, b) /\ BlockRead(d, f[i], b, k, Len(data))
  BY <1>5
<1>7. /\ ChainHeld(written, f, sent.chain, sent.num_blocks)
      /\ BlocksRead(d, sent.chain, sent.num_blocks, Len(data))
  BY <1>6, Zenon DEF Within
<1>8. d.num_transactions = Len(b.transaction_list) /\ k <= Len(b.transaction_list)
  BY <1>6 DEF BlockRead
<1>9. CASE OutOfMemory({"chain", "list"})
  BY <1>1, <1>9, ReadFails DEF OutOfMemory
<1>10. ASSUME NEW pc \in {"fields", "add"}, GoTo(pc),
              pc = "fields" => k < Len(b.transaction_list),
              pc = "add" => k = Len(b.transaction_list)
       PROVE  ReadInv'
  <2>1. d' = [d EXCEPT !.pc = pc]
    BY <1>10 DEF GoTo
  <2>2. /\ d'.pc = pc /\ d'.code = d.code
        /\ d'.offset = d.offset /\ d'.zeros = d.zeros
        /\ d'.num_blocks = d.num_blocks /\ d'.blocks = d.blocks
        /\ d'.block = d.block /\ d'.num_transactions = d.num_transactions
        /\ d'.transactions = d.transactions
    BY <2>1, Stays
  <2>3. Locals'
    BY <2>2 DEF ReadInv, Locals
  <2>4. sent' = sent /\ data' = data
    BY <1>1 DEF Kept
  <2>5. BlocksRead(d', sent.chain, sent.num_blocks, Len(data))
    BY <1>7, <2>2 DEF BlocksRead
  <2>6. BlockRead(d', f[i], b, k, Len(data))
    BY <1>6, <2>2 DEF BlockRead
  <2>7. Len(d'.blocks) = i /\ Len(d'.transactions) = k
    BY <1>2, <1>4, <2>2
  <2>8. sent'.chain.blocks[Len(d'.blocks) + 1] = b
    BY <1>3, <2>4, <2>7
  <2>9. Reading(f)'
    BY <1>5, <1>10, <2>2, <2>4, <2>5, <2>6, <2>7, <2>8 DEF Reading
  <2> QED
    BY <1>1, <1>7, <2>2, <2>3, <2>9, ReadsOn DEF Loop
<1>11. CASE AllocateTransaction
  <2>1. k < Len(b.transaction_list)
    BY <1>4, <1>8, <1>11 DEF AllocateTransaction
  <2> QED
    BY <1>9, <1>10, <1>11, <2>1 DEF AllocateTransaction
<1>12. CASE CreateBlock
  <2>1. k = Len(b.transaction_list)
    BY <1>4, <1>5, <1>8, <1>12 DEF CreateBlock
  <2> QED
    BY <1>9, <1>10, <1>12, <2>1 DEF CreateBlock
<1> QED
  BY <1>11, <1>12

\* A transaction that was read goes to its list.
LEMMA AppendTransactionReads ==
  ASSUME TransferInv, ReadInv, Memory', AppendTransaction
  PROVE  ReadInv'
<1>1. /\ d.pc = "append" /\ Kept /\ d.pc \notin Underway \cup {"done"}
      /\ d.pc \in Loop
  BY DEF AppendTransaction, Deserializing, Kept, Underway, Loop
<1>2. PICK i : i = Len(d.blocks)
  OBVIOUS
<1>3. PICK b : b = sent.chain.blocks[i + 1]
  OBVIOUS
<1>4. PICK k : k = Len(d.transactions)
  OBVIOUS
<1>5. /\ i \in Nat /\ d.offset \in Nat /\ Len(data) \in Nat
      /\ i < sent.num_blocks /\ Len(b.transaction_list) \in Nat
      /\ \E f : /\ Within(f, i, b)
                /\ f[i] \in Nat /\ BlockHeld(written, f[i], b)
                /\ BlockRead(d, f[i], b, k + 1, Len(data))
  <2>1. k + 1 = Len(d.transactions) + (IF d.pc = "append" THEN 1 ELSE 0)
    BY <1>1, <1>4
  <2> QED
    BY <1>1, <1>2, <1>3, <2>1, InTransactions
<1>6. PICK f : Within(f, i, b) /\ BlockRead(d, f[i], b, k + 1, Len(data))
  BY <1>5
<1>7. /\ ChainHeld(written, f, sent.chain, sent.num_blocks)
      /\ BlocksRead(d, sent.chain, sent.num_blocks, Len(data)) /\ Reading(f)
  BY <1>6, Zenon DEF Within
<1>8. Alike(d.transaction, b.transaction_list[k + 1], d.offset, Len(data))
  BY <1>1, <1>2, <1>3, <1>4, <1>7 DEF Reading
<1>9. CASE OutOfMemory({"chain", "list", "transaction"})
  BY <1>1, <1>9, ReadFails DEF OutOfMemory
<1>10. ASSUME d' = [d EXCEPT !.pc = "transaction",
                             !.transactions = Append(@, d.transaction)]
       PROVE  ReadInv'
  <2>1. /\ d'.pc = "transaction" /\ d'.code = d.code
        /\ d'.offset = d.offset /\ d'.zeros = d.zeros
        /\ d'.num_blocks = d.num_blocks /\ d'.blocks = d.blocks
        /\ d'.block = d.block /\ d'.num_transactions = d.num_transactions
        /\ d'.transactions = Append(d.transactions, d.transaction)
    BY <1>10, LocalNames
  <2>2. d.transaction \in TransactionType /\ d.transactions \in Seq(TransactionType)
    BY <1>8 DEF Alike, ReadInv, Locals
  <2>3. /\ d'.transactions \in Seq(TransactionType) /\ Len(d'.transactions) = k + 1
        /\ \A j \in 1..k : d'.transactions[j] = d.transactions[j]
        /\ d'.transactions[k + 1] = d.transaction /\ k \in Nat
    BY <1>4, <2>1, <2>2
  <2>4. Locals'
    BY <2>1, <2>3 DEF ReadInv, Locals
  <2>5. sent' = sent /\ data' = data
    BY <1>1 DEF Kept
  <2>6. BlocksRead(d', sent.chain, sent.num_blocks, Len(data))
    BY <1>7, <2>1 DEF BlocksRead
  <2>7. BlockRead(d', f[i], b, k + 1, Len(data))
    <3>1. ASSUME NEW j \in 1..Len(d'.transactions)
          PROVE  Alike(d'.transactions[j], b.transaction_list[j], d'.offset, Len(data))
      <4>1. j \in 1..k \/ j = k + 1
        BY <2>3
      <4>2. \A x \in 1..k : Alike(d.transactions[x], b.transaction_list[x], d.offset, Len(data))
        BY <1>4, <1>6 DEF BlockRead
      <4> QED
        BY <1>8, <2>1, <2>3, <4>1, <4>2
    <3> QED
      BY <1>6, <2>1, <2>3, <3>1 DEF BlockRead
  <2>8. Len(d'.blocks) = i
    BY <1>2, <2>1
  <2>9. sent'.chain.blocks[Len(d'.blocks) + 1] = b
    BY <1>3, <2>5, <2>8
  <2>10. Reading(f)'
    BY <1>5, <2>1, <2>3, <2>5, <2>6, <2>7, <2>8, <2>9 DEF Reading
  <2> QED
    BY <1>1, <1>7, <2>1, <2>4, <2>10, ReadsOn DEF Loop
<1> QED
  BY <1>9, <1>10 DEF AppendTransaction

\* The reads past the end of the buffer end the program.
LEMMA KilledReads ==
  ASSUME TransferInv, ReadInv, Memory', Kept, d.pc = "fields", GoTo("killed")
  PROVE  ReadInv'
<1>1. d' = [d EXCEPT !.pc = "killed"]
  BY DEF GoTo
<1>2. /\ d'.pc = "killed" /\ d'.code = d.code
      /\ d'.offset = d.offset /\ d'.zeros = d.zeros
      /\ d'.num_blocks = d.num_blocks /\ d'.blocks = d.blocks
      /\ d'.num_transactions = d.num_transactions
      /\ d'.transactions = d.transactions
  BY <1>1, Stays
<1>3. Buffers' /\ Locals'
  BY <1>2 DEF ReadInv, Buffers, Locals, Kept
<1>4. Transport'
  BY <1>2, TransportStays DEF ReadInv, Underway
<1>5. d.code # "SUCCESS"
  BY DEF ReadInv, Outcome
<1>6. Outcome' /\ InLoop'
  BY <1>2, <1>5 DEF Outcome, InLoop, Loop
<1> QED
  BY <1>3, <1>4, <1>6 DEF ReadInv

\* A transaction is read: the last one perhaps without the end of its signature.
LEMMA ReadTransactionReads ==
  ASSUME TransferInv, ReadInv, Memory', ReadTransaction
  PROVE  ReadInv'
<1>1. /\ d.pc = "fields" /\ Kept /\ d.pc \notin Underway \cup {"done"}
      /\ d.pc \in Loop
  BY DEF ReadTransaction, Deserializing, Kept, Underway, Loop
<1>2. PICK i : i = Len(d.blocks)
  OBVIOUS
<1>3. PICK b : b = sent.chain.blocks[i + 1]
  OBVIOUS
<1>4. PICK k : k = Len(d.transactions)
  OBVIOUS
<1>5. /\ i \in Nat /\ k \in Nat /\ d.offset \in Nat /\ Len(data) \in Nat
      /\ data \in Seq(Byte) /\ written \in Seq(Byte) /\ Begins(data, written)
      /\ i < sent.num_blocks /\ b \in SentBlock /\ Len(b.transaction_list) \in Nat
      /\ \E f : /\ Within(f, i, b)
                /\ f[i] \in Nat /\ BlockHeld(written, f[i], b)
                /\ BlockRead(d, f[i], b, k, Len(data))
  <2>1. Len(d.transactions) \in Nat
    BY DEF ReadInv, Locals
  <2>2. k = Len(d.transactions) + (IF d.pc = "append" THEN 1 ELSE 0)
    BY <1>1, <1>4, <2>1
  <2> QED
    BY <1>1, <1>2, <1>3, <2>2, InTransactions
<1>6. PICK f : /\ Within(f, i, b)
               /\ f[i] \in Nat /\ BlockHeld(written, f[i], b)
               /\ BlockRead(d, f[i], b, k, Len(data))
  BY <1>5
<1>7. /\ ChainHeld(written, f, sent.chain, sent.num_blocks)
      /\ BlocksRead(d, sent.chain, sent.num_blocks, Len(data)) /\ Reading(f)
  BY <1>6, Zenon DEF Within
<1>8. k < Len(b.transaction_list) /\ k + 1 \in 1..Len(b.transaction_list)
  <2>1. k < Len(b.transaction_list)
    BY <1>1, <1>2, <1>3, <1>4, <1>7 DEF Reading
  <2> QED
    BY <1>5, <2>1
<1>9. d.offset = f[i] + BlockHeaderSize + k * TransactionSize
  BY <1>6 DEF BlockRead
<1>10. PICK u : u = b.transaction_list[k + 1]
  OBVIOUS
<1>11. u \in SentTransaction
  BY <1>5, <1>8, <1>10, BlockFields
<1>12. TransactionHeld(written, d.offset, u)
  <2>1. TransactionHeld(written, f[i] + BlockHeaderSize + ((k + 1) - 1) * TransactionSize,
                        b.transaction_list[k + 1])
    BY <1>6, <1>8, Zenon DEF BlockHeld
  <2>2. (k + 1) - 1 = k
    BY <1>5
  <2> QED
    BY <1>9, <1>10, <2>1, <2>2
<1>13. u.length \in 0..SigLen /\ u.length \in Nat /\ u.length <= KeyLen
  BY <1>11, TransactionFields, ChainSizes
<1>14. Fits(FixedSize) => SignatureLength = u.length
  <2>1. CASE Fits(FixedSize)
    <3>1. d.offset + FixedSize <= Len(data)
      BY <2>1 DEF Fits
    <3>2. Number(data, d.offset + FixedSize - U64, U64) = u.length
      BY <1>5, <1>11, <1>12, <3>1, TransactionRead
    <3> QED
      BY <3>2 DEF SignatureLength
  <2> QED
    BY <2>1
<1>15. data = written => TransactionCode = "SUCCESS"
  <2>1. d.offset + TransactionSize <= Len(written)
    BY <1>5, <1>11, <1>12, TransactionInside
  <2>2. data = written => Fits(FixedSize)
    BY <1>5, <2>1, ChainSizes DEF Fits, TransactionSize
  <2>3. data = written => Fits(FixedSize + u.length)
    BY <1>5, <1>13, <2>1, ChainSizes DEF Fits, TransactionSize
  <2>4. ~(u.length > KeyLen)
    BY <1>13, ChainSizes
  <2> QED
    BY <1>14, <2>2, <2>3, <2>4, Zenon DEF TransactionCode
<1>16. CASE /\ TransactionCode # "SUCCESS"
            /\ Fail(TransactionCode, {"chain", "list", "transaction"})
  BY <1>1, <1>15, <1>16, ReadFails
<1>17. CASE GoTo("killed")
  BY <1>1, <1>17, KilledReads
<1>18. ASSUME TransactionCode = "SUCCESS",
              d' = [d EXCEPT !.pc = "append", !.transaction = TransactionAt(d.offset),
                             !.offset = @ + FixedSize + SigLen]
       PROVE  ReadInv'
  <2>1. Fits(FixedSize) /\ Fits(FixedSize + SignatureLength)
    BY <1>18 DEF TransactionCode
  <2>2. /\ SignatureLength = u.length /\ d.offset + FixedSize <= Len(data)
        /\ d.offset + FixedSize + u.length <= Len(data)
        /\ d.offset + FixedSize \in Nat
    BY <1>5, <1>13, <1>14, <2>1, ChainSizes, SMTT(30) DEF Fits
  <2>3. PICK o : o = d.offset + FixedSize
    OBVIOUS
  <2>4. PICK s : s = Bytes(data, o, SigLen)
    OBVIOUS
  <2>5. PICK p : p = u.bytes
    OBVIOUS
  <2>6. PICK l : l = u.length
    OBVIOUS
  <2>7. /\ s \in Seq(Byte \cup {Garbage}) /\ SubSeq(s, 1, l) = SubSeq(p, 1, l)
        /\ o + SigLen <= Len(data) => s = p
    <3>1. Piece(p, SigLen) /\ Holds(written, o, p)
      BY <1>11, <1>12, <2>3, <2>5, TransactionFields DEF TransactionHeld
    <3>2. o \in Nat /\ l \in 0..SigLen /\ o + l <= Len(data)
      BY <1>13, <2>2, <2>3, <2>6
    <3> QED
      BY <1>5, <2>4, <3>1, <3>2, SignatureRead
  <2>8. /\ d'.pc = "append" /\ d'.transaction = TransactionAt(d.offset)
        /\ d'.offset = d.offset + FixedSize + SigLen /\ d'.code = d.code
        /\ d'.zeros = d.zeros
        /\ d'.num_blocks = d.num_blocks /\ d'.blocks = d.blocks
        /\ d'.block = d.block /\ d'.num_transactions = d.num_transactions
        /\ d'.transactions = d.transactions
    BY <1>18, LocalNames
  <2>9. /\ d'.offset = o + SigLen /\ d'.offset \in Nat /\ d.offset <= d'.offset
        /\ d'.offset = d.offset + TransactionSize
    BY <1>5, <2>3, <2>8, ChainSizes DEF TransactionSize
  <2>10. d'.transaction = [created_at |-> u.created_at,
                           sender_public_key |-> u.sender_public_key,
                           recipient_public_key |-> u.recipient_public_key,
                           amount |-> u.amount, length |-> u.length, bytes |-> s]
    <3>1. /\ Number(data, d.offset, U64) = u.created_at
          /\ Bytes(data, d.offset + U64, KeyLen) = u.sender_public_key
          /\ Bytes(data, d.offset + U64 + KeyLen, KeyLen) = u.recipient_public_key
          /\ Number(data, d.offset + U64 + 2 * KeyLen, U64) = u.amount
      BY <1>5, <1>11, <1>12, <2>2, TransactionRead
    <3>2. Bytes(data, d.offset + FixedSize, SigLen) = s
      BY <2>3, <2>4
    <3> QED
      BY <2>2, <2>8, <3>1, <3>2, Zenon DEF TransactionAt
  <2>11. Alike(d'.transaction, u, d'.offset, Len(data))
    <3>1. PICK t : t = d'.transaction
      OBVIOUS
    <3>2. PICK x : x = d'.offset
      OBVIOUS
    <3>3. PICK len : len = Len(data)
      OBVIOUS
    <3>4. x <= len => s = u.bytes
      BY <2>5, <2>7, <2>9, <3>2, <3>3
    <3>5. SubSeq(s, 1, u.length) = SubSeq(u.bytes, 1, u.length)
      BY <2>5, <2>6, <2>7
    <3>6. Alike(t, u, x, len)
      BY <1>11, <2>7, <2>10, <3>1, <3>4, <3>5, TransactionAlike
    <3> QED
      BY <3>1, <3>2, <3>3, <3>6
  <2>12. Locals'
    BY <2>8, <2>9 DEF ReadInv, Locals
  <2>13. sent' = sent /\ data' = data
    BY <1>1 DEF Kept
  <2>14. BlocksRead(d', sent.chain, sent.num_blocks, Len(data))
    BY <1>5, <1>7, <2>8, <2>9, BlocksKept
  <2>15. BlockRead(d', f[i], b, k + 1, Len(data))
    <3>1. d'.offset = f[i] + BlockHeaderSize + (k + 1) * TransactionSize
      <4>1. (k + 1) * TransactionSize = k * TransactionSize + TransactionSize
        BY <1>5, ChainSizes
      <4>2. PICK y \in Nat : y = k * TransactionSize
        BY <1>5, ChainSizes
      <4> QED
        BY <1>6, <1>9, <2>9, <4>1, <4>2, ChainSizes
    <3>2. k + 1 <= Len(b.transaction_list)
      BY <1>8
    <3> QED
      BY <1>5, <1>6, <2>8, <2>9, <3>1, <3>2, BlockKept
  <2>16. Len(d'.blocks) = i /\ Len(d'.transactions) = k
    BY <1>2, <1>4, <2>8
  <2>17. sent'.chain.blocks[Len(d'.blocks) + 1] = b
    BY <1>3, <2>13, <2>16
  <2>18. Reading(f)'
    BY <1>5, <1>10, <2>8, <2>11, <2>13, <2>14, <2>15, <2>16, <2>17 DEF Reading
  <2> QED
    BY <1>1, <1>7, <2>8, <2>12, <2>18, ReadsOn DEF Loop
<1> QED
  BY <1>16, <1>17, <1>18 DEF ReadTransaction

\* A block with all its transactions goes to the chain.
LEMMA AddBlockReads ==
  ASSUME TransferInv, ReadInv, Memory', AddBlock
  PROVE  ReadInv'
<1>1. /\ d.pc = "add" /\ Kept /\ d.pc \notin Underway \cup {"done"}
      /\ d.pc \in Loop
  BY DEF AddBlock, Deserializing, Kept, Underway, Loop
<1>2. PICK i : i = Len(d.blocks)
  OBVIOUS
<1>3. PICK b : b = sent.chain.blocks[i + 1]
  OBVIOUS
<1>4. PICK k : k = Len(d.transactions)
  OBVIOUS
<1>5. /\ i \in Nat /\ k \in Nat /\ d.offset \in Nat /\ Len(data) \in Nat
      /\ i < sent.num_blocks /\ sent.num_blocks \in Nat
      /\ b \in SentBlock /\ Len(b.transaction_list) \in Nat
      /\ \E f : /\ Within(f, i, b)
                /\ f[i] \in Nat /\ BlockHeld(written, f[i], b)
                /\ BlockRead(d, f[i], b, k, Len(data))
  <2>1. Len(d.transactions) \in Nat
    BY DEF ReadInv, Locals
  <2>2. k = Len(d.transactions) + (IF d.pc = "append" THEN 1 ELSE 0)
    BY <1>1, <1>4, <2>1
  <2> QED
    BY <1>1, <1>2, <1>3, <2>2, InTransactions
<1>6. PICK f : /\ Within(f, i, b)
               /\ f[i] \in Nat /\ BlockHeld(written, f[i], b)
               /\ BlockRead(d, f[i], b, k, Len(data))
  BY <1>5
<1>7. /\ ChainHeld(written, f, sent.chain, sent.num_blocks)
      /\ BlocksRead(d, sent.chain, sent.num_blocks, Len(data)) /\ Reading(f)
      /\ f[i + 1] = f[i] + SizeOf(b)
  BY <1>5, <1>6, Zenon DEF Within
<1>8. k = Len(b.transaction_list)
  BY <1>1, <1>2, <1>3, <1>4, <1>7 DEF Reading
<1>9. /\ d.block = HeaderOf(b) /\ d.transactions \in Seq(TransactionType)
      /\ d.offset = f[i] + BlockHeaderSize + k * TransactionSize
      /\ \A j \in 1..k :
           Alike(d.transactions[j], b.transaction_list[j], d.offset, Len(data))
  BY <1>4, <1>6 DEF BlockRead
<1>10. d.offset = f[i + 1]
  <2>1. SizeOf(b) = BlockHeaderSize + k * TransactionSize
    BY <1>8 DEF SizeOf
  <2>2. PICK y \in Nat : y = k * TransactionSize
    BY <1>5, ChainSizes
  <2> QED
    BY <1>6, <1>7, <1>9, <2>1, <2>2, ChainSizes
<1>11. PICK c : c = [created_at          |-> d.block.created_at,
                     previous_block_hash |-> d.block.previous_block_hash,
                     proof_of_work       |-> d.block.proof_of_work,
                     transaction_list    |-> d.transactions]
  OBVIOUS
<1>12. AlikeBlocks(c, b, d.offset, Len(data))
  <2>1. c = [created_at |-> b.created_at,
             previous_block_hash |-> b.previous_block_hash,
             proof_of_work |-> b.proof_of_work,
             transaction_list |-> d.transactions]
    BY <1>9, <1>11 DEF HeaderOf
  <2>2. PICK ts : ts = d.transactions
    OBVIOUS
  <2>3. PICK o : o = d.offset
    OBVIOUS
  <2>4. PICK len : len = Len(data)
    OBVIOUS
  <2>5. /\ ts \in Seq(TransactionType) /\ Len(ts) = Len(b.transaction_list)
        /\ \A j \in 1..Len(ts) : Alike(ts[j], b.transaction_list[j], o, len)
    BY <1>4, <1>8, <1>9, <2>2, <2>3, <2>4
  <2>6. AlikeBlocks(c, b, o, len)
    BY <1>5, <2>1, <2>2, <2>5, BlockAlike
  <2> QED
    BY <2>3, <2>4, <2>6
<1>13. CASE OutOfMemory({"chain", "block"})
  BY <1>1, <1>13, ReadFails DEF OutOfMemory
<1>14. ASSUME d' = [d EXCEPT !.pc = "block", !.blocks = Append(@, c)]
       PROVE  ReadInv'
  <2>1. /\ d'.pc = "block" /\ d'.code = d.code
        /\ d'.offset = d.offset /\ d'.zeros = d.zeros
        /\ d'.num_blocks = d.num_blocks /\ d'.blocks = Append(d.blocks, c)
        /\ d'.num_transactions = d.num_transactions
        /\ d'.transactions = d.transactions
    BY <1>14, LocalNames
  <2>2. c \in BlockType /\ d.blocks \in Seq(BlockType)
    BY <1>12 DEF AlikeBlocks, ReadInv, Locals
  <2>3. /\ d'.blocks \in Seq(BlockType) /\ Len(d'.blocks) = i + 1
        /\ \A j \in 1..i : d'.blocks[j] = d.blocks[j]
        /\ d'.blocks[i + 1] = c
    BY <1>2, <2>1, <2>2
  <2>4. Locals'
    BY <2>1, <2>3 DEF ReadInv, Locals
  <2>5. sent' = sent /\ data' = data
    BY <1>1 DEF Kept
  <2>6. BlocksRead(d', sent.chain, sent.num_blocks, Len(data))
    <3>1. ASSUME NEW j \in 1..Len(d'.blocks)
          PROVE  AlikeBlocks(d'.blocks[j], sent.chain.blocks[j], d'.offset, Len(data))
      <4>1. j \in 1..i \/ j = i + 1
        BY <1>5, <2>3
      <4>2. \A x \in 1..i :
              AlikeBlocks(d.blocks[x], sent.chain.blocks[x], d.offset, Len(data))
        BY <1>2, <1>7 DEF BlocksRead
      <4> QED
        BY <1>3, <1>12, <2>1, <2>3, <4>1, <4>2
    <3>2. Len(d'.blocks) <= sent.num_blocks
      BY <1>5, <2>3
    <3> QED
      BY <1>7, <2>1, <2>3, <3>1, <3>2 DEF BlocksRead
  <2>7. d'.offset = f[Len(d'.blocks)]
    BY <1>10, <2>1, <2>3
  <2>8. Reading(f)'
    BY <2>1, <2>5, <2>6, <2>7 DEF Reading
  <2> QED
    BY <1>1, <1>7, <2>1, <2>4, <2>8, ReadsOn DEF Loop
<1> QED
  BY <1>11, <1>13, <1>14 DEF AddBlock

\* At the start nothing has been written or read.
LEMMA ReadInit == Init => ReadInv
<1> SUFFICES ASSUME Init PROVE ReadInv
  OBVIOUS
<1>1. /\ d = Start /\ held = {} /\ lost = {}
      /\ written = <<>> /\ file = <<>> /\ data = <<>>
  BY Zenon DEF Init
<1>2. sent.chain \in Chains /\ sent.num_blocks \in 1..Len(sent.chain.blocks)
  BY DEF Init
<1>3. /\ d.pc = "serialize" /\ d.offset = 0 /\ d.zeros = 0 /\ d.num_blocks = 0
      /\ d.blocks = <<>> /\ d.num_transactions = 0 /\ d.transactions = <<>>
      /\ d.code = "none"
  BY <1>1 DEF Start, None
<1>4. Buffers /\ Memory /\ Locals
  BY <1>1, <1>3 DEF Buffers, Memory, Locals
<1>5. Transport
  <2>1. Begins(data, written) /\ Begins(file, written)
    BY <1>1, EmptyBegins DEF Begins
  <2> QED
    BY <1>1, <1>2, <1>3, <2>1 DEF Transport
<1>6. Outcome /\ InLoop
  BY <1>3 DEF Outcome, InLoop, Loop
<1> QED
  BY <1>4, <1>5, <1>6 DEF ReadInv

(***************************************************************************)
(* Whatever chain is sent or saved, wherever the file is torn and          *)
(* whichever allocation fails, the locals of blockchain_deserialize are    *)
(* those of a reader at a definite place of that chain.                    *)
(***************************************************************************)
THEOREM TransferReads == Spec => [](TransferInv /\ ReadInv)
<1>1. TransferInv /\ ReadInv /\ [Next]_vars => ReadInv'
  <2> SUFFICES ASSUME TransferInv, ReadInv, [Next]_vars PROVE ReadInv'
    OBVIOUS
  <2>1. CASE Next
    <3>1. Memory'
      BY <2>1, MemoryStep DEF ReadInv
    <3> QED
      BY <2>1, <3>1, TransportReads, ReadChainHeaderReads, FinishReads,
         ReadBlockHeaderReads, AllocateTransactionReads, ReadTransactionReads,
         AppendTransactionReads, AddBlockReads, CallerReads DEF Next
  <2>2. CASE UNCHANGED vars
    <3>1. Buffers' /\ Memory' /\ Locals' /\ Transport'
      BY <2>2 DEF vars, ReadInv, Buffers, Memory, Locals, Transport
    <3>2. Outcome'
      <4>1. Expected' = Expected /\ d' = d /\ data' = data /\ written' = written
        BY <2>2 DEF vars, Expected
      <4>2. /\ Meaning(Expected)' = Meaning(Expected)
            /\ Meaning(d.result)' = Meaning(d.result)
        BY <4>1 DEF Meaning
      <4> QED
        BY <4>1, <4>2 DEF ReadInv, Outcome
    <3>3. \A f : Reading(f)' <=> Reading(f)
      BY <2>2 DEF vars, Reading
    <3>4. InLoop'
      BY <2>2, <3>3 DEF vars, ReadInv, InLoop
    <3> QED
      BY <3>1, <3>2, <3>4 DEF ReadInv
  <2> QED
    BY <2>1, <2>2
<1> QED
  BY <1>1, InitInv, ReadInit, TransferStep, PTL DEF Spec

(***************************************************************************)
(* Type correctness: every buffer is of bytes, and what has been read so   *)
(* far are blocks and transactions, Garbage only in signatures.            *)
(***************************************************************************)
THEOREM TransferTypes == Spec => []TypeOK
<1>1. ReadInv => TypeOK
  BY DEF ReadInv, Buffers, Memory, Locals, TypeOK
<1> QED
  BY <1>1, TransferReads, PTL

(***************************************************************************)
(* A chain that arrives whole is accepted and is the one that was sent,    *)
(* for chains of every length: no check of blockchain_deserialize refuses  *)
(* what blockchain_serialize wrote.                                        *)
(***************************************************************************)
THEOREM WholeChainsAreRebuilt == Spec => []WholeChainArrives
<1>1. ReadInv => WholeChainArrives
  BY DEF ReadInv, Outcome, WholeChainArrives
<1> QED
  BY <1>1, TransferReads, PTL

(***************************************************************************)
(* A chain that is accepted is the one that was sent, up to bytes of a     *)
(* signature that are not in use, wherever the file was torn.              *)
(***************************************************************************)
THEOREM AcceptedChainsWereSent == Spec => []AcceptedChainIsSent
<1>1. ReadInv => AcceptedChainIsSent
  BY DEF ReadInv, Outcome, AcceptedChainIsSent
<1> QED
  BY <1>1, TransferReads, PTL
=============================================================================
