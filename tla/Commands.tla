------------------------------ MODULE Commands ------------------------------
(***************************************************************************)
(* The formats of networking.c and of the peer list in peer_discovery.c.   *)
(* A buffer is a sequence of bytes and its size is its length, as in every *)
(* call of these functions; the sizes of the C types are constants, so     *)
(* that TLC can work with short ones.  A function gives its return code    *)
(* and what it fills its out parameters with.                              *)
(***************************************************************************)
EXTENDS Integers, Sequences, SequencesExt

CONSTANTS Base,             \* values a byte can have (256)
          U16, U32, U64,    \* bytes in a uint16_t, uint32_t, uint64_t
          AddrSize,         \* bytes in an IN6_ADDR (16)
          COMMAND_PREFIX,   \* the bytes every command begins with
          RegisterPadding   \* bytes the compiler adds to command_register_peer_t

ASSUME CommandsAssumption ==
  /\ Base \in Nat \ {0, 1}
  /\ {U16, U32, U64, AddrSize} \subseteq Nat \ {0}
  /\ COMMAND_PREFIX \in Seq(0..Base - 1)
  /\ RegisterPadding \in Nat

Byte == 0..Base - 1

\* What a read past the end of a buffer finds.
Garbage == -1

COMMAND_REGISTER_PEER == 2
COMMAND_SEND_PEER_LIST == 3
COMMAND_SEND_BLOCKCHAIN == 4

Success(value) == [code |-> "SUCCESS", value |-> value]
Failure(code) == [code |-> code, value |-> <<>>]
TooSmall == Failure("FAILURE_BUFFER_TOO_SMALL")
-----------------------------------------------------------------------------
\* Mutant: the least significant byte first.
BigEndian_Little(n, width) ==
  LET shifted[k \in 0..width] == IF k = 0 THEN n ELSE shifted[k - 1] \div Base
  IN  [i \in 1..width |-> shifted[i - 1] % Base]

\* The low bytes of n, the most significant one first: htobe64, htonl, htons.
\* shifted[k] is n without its last k bytes.
BigEndian(n, width) ==
  LET shifted[k \in 0..width] == IF k = 0 THEN n ELSE shifted[k - 1] \div Base
  IN  [i \in 1..width |-> shifted[width - i] % Base]

\* betoh64, ntohl, ntohs.
FromBigEndian(bytes) ==
  LET value[i \in 0..Len(bytes)] ==
        IF i = 0 THEN 0 ELSE Base * value[i - 1] + bytes[i]
  IN  value[Len(bytes)]

htobe64(n) == BigEndian(n, U64)

\* The unsigned integers of so many bytes.
Largest(width) == FromBigEndian([i \in 1..width |-> Base - 1])
Unsigned(width) == 0..Largest(width)

\* One past the largest uint64_t, and the largest size that calloc grants.
Word == Largest(U64) + 1
CallocLimit == (Word \div 2) - 1

\* The bytes of a buffer from an offset on.
Bytes(buffer, offset, width) ==
  [i \in 1..width |-> IF offset + i <= Len(buffer) THEN buffer[offset + i]
                      ELSE Garbage]

Number(buffer, offset, width) == FromBigEndian(Bytes(buffer, offset, width))
-----------------------------------------------------------------------------
(***************************************************************************)
(* command_header_t.                                                       *)
(***************************************************************************)
HeaderSize == Len(COMMAND_PREFIX) + U32 + U64

\* Mutant: command_len also counts the header.
command_header_serialize_Whole(command, command_len) ==
  COMMAND_PREFIX \o BigEndian(command, U32) \o htobe64(HeaderSize + command_len)

\* Called with COMMAND_PREFIX in the header.
command_header_serialize(command, command_len) ==
  COMMAND_PREFIX \o BigEndian(command, U32) \o htobe64(command_len)

command_header_deserialize(buffer) ==
  LET p == Len(COMMAND_PREFIX) IN
  IF Len(buffer) < p THEN TooSmall
  ELSE IF Bytes(buffer, 0, p) # COMMAND_PREFIX
       THEN Failure("FAILURE_INVALID_COMMAND_PREFIX")
  ELSE IF Len(buffer) < HeaderSize THEN TooSmall
  ELSE Success([command |-> Number(buffer, p, U32),
                command_len |-> Number(buffer, p + U32, U64)])

\* The header is read, and the command must be the expected one.
CommandCode(command, buffer) ==
  LET h == command_header_deserialize(buffer) IN
  IF h.code # "SUCCESS" THEN h.code
  ELSE IF h.value.command # command THEN "FAILURE_INVALID_COMMAND"
  ELSE "SUCCESS"
-----------------------------------------------------------------------------
(***************************************************************************)
(* A sockaddr_in6: the fields that command_register_peer_t and the peer    *)
(* list have in common, in the order they are sent.                        *)
(***************************************************************************)
Address == [sin6_family: Unsigned(U16), sin6_port: Unsigned(U16),
            sin6_flowinfo: Unsigned(U32), sin6_addr: [1..AddrSize -> Byte],
            sin6_scope_id: Unsigned(U32)]

AddressSize == 2 * U16 + 2 * U32 + AddrSize

AddressBytes(a) ==
  BigEndian(a.sin6_family, U16) \o BigEndian(a.sin6_port, U16)
    \o BigEndian(a.sin6_flowinfo, U32) \o a.sin6_addr
    \o BigEndian(a.sin6_scope_id, U32)

\* Mutant: sin6_flowinfo is read but not stepped over.
AddressAt_SamePlace(buffer, offset) ==
  LET flowinfo == offset + 2 * U16 IN
  [sin6_family   |-> Number(buffer, offset, U16),
   sin6_port     |-> Number(buffer, offset + U16, U16),
   sin6_flowinfo |-> Number(buffer, flowinfo, U32),
   sin6_addr     |-> Bytes(buffer, flowinfo, AddrSize),
   sin6_scope_id |-> Number(buffer, flowinfo + AddrSize, U32)]

AddressAt(buffer, offset) ==
  LET flowinfo == offset + 2 * U16
      addr     == flowinfo + U32 IN
  [sin6_family   |-> Number(buffer, offset, U16),
   sin6_port     |-> Number(buffer, offset + U16, U16),
   sin6_flowinfo |-> Number(buffer, flowinfo, U32),
   sin6_addr     |-> Bytes(buffer, addr, AddrSize),
   sin6_scope_id |-> Number(buffer, addr + AddrSize, U32)]

\* The payload is as large as the rest of the struct, its padding included.
command_register_peer_serialize(a) ==
  command_header_serialize(COMMAND_REGISTER_PEER, AddressSize + RegisterPadding)
    \o AddressBytes(a) \o [i \in 1..RegisterPadding |-> 0]

\* The padding need not be there.
command_register_peer_deserialize(buffer) ==
  LET code == CommandCode(COMMAND_REGISTER_PEER, buffer) IN
  IF code # "SUCCESS" THEN Failure(code)
  ELSE IF Len(buffer) < HeaderSize + AddressSize THEN TooSmall
  ELSE Success(AddressAt(buffer, HeaderSize))
-----------------------------------------------------------------------------
(***************************************************************************)
(* command_send_peer_list_t and command_send_blockchain_t: a length and    *)
(* that many bytes of data.                                                *)
(***************************************************************************)
\* Mutant: the length of the data is counted twice.
SendData_Twice(command, data) ==
  command_header_serialize(command, 2 * U64 + Len(data))
    \o htobe64(Len(data)) \o data

SendData(command, data) ==
  command_header_serialize(command, U64 + Len(data))
    \o htobe64(Len(data)) \o data

\* The sum of offset and length is computed in 64 bits.
ReceiveData(command, buffer) ==
  LET code  == CommandCode(command, buffer)
      start == HeaderSize + U64
      len   == Number(buffer, HeaderSize, U64) IN
  IF code # "SUCCESS" THEN Failure(code)
  ELSE IF Len(buffer) < start THEN TooSmall
  ELSE IF (start + len) % Word > Len(buffer) THEN TooSmall
  ELSE IF len > CallocLimit THEN Failure("FAILURE_COULD_NOT_MALLOC")
  ELSE Success(Bytes(buffer, start, len))

command_send_peer_list_serialize(data) == SendData(COMMAND_SEND_PEER_LIST, data)
command_send_peer_list_deserialize(buffer) ==
  ReceiveData(COMMAND_SEND_PEER_LIST, buffer)

command_send_blockchain_serialize(data) ==
  SendData(COMMAND_SEND_BLOCKCHAIN, data)
command_send_blockchain_deserialize(buffer) ==
  ReceiveData(COMMAND_SEND_BLOCKCHAIN, buffer)
-----------------------------------------------------------------------------
(***************************************************************************)
(* The peer list: a count, then for each peer_info_t its address and the   *)
(* time it last connected.                                                 *)
(***************************************************************************)
PeerInfo == [listen_addr: Address, last_connected: Unsigned(U64)]

PeerInfoSize == AddressSize + U64

PeerInfoBytes(p) == AddressBytes(p.listen_addr) \o htobe64(p.last_connected)

PeerInfoAt(buffer, offset) ==
  [listen_addr    |-> AddressAt(buffer, offset),
   last_connected |-> Number(buffer, offset + AddressSize, U64)]

peer_info_list_serialize(list) ==
  htobe64(Len(list))
    \o FlattenSeq([i \in 1..Len(list) |-> PeerInfoBytes(list[i])])

\* Mutants: the loop runs once too often, unchecked; or not often enough.
peer_info_list_deserialize_Long(buffer) ==
  Success([i \in 1..Number(buffer, 0, U64) + 1 |->
             PeerInfoAt(buffer, U64 + (i - 1) * PeerInfoSize)])
peer_info_list_deserialize_Short(buffer) ==
  LET num_peers == Number(buffer, 0, U64) - 1 IN
  IF Len(buffer) < U64 \/ Len(buffer) < U64 + num_peers * PeerInfoSize
  THEN TooSmall
  ELSE Success([i \in 1..num_peers |->
                  PeerInfoAt(buffer, U64 + (i - 1) * PeerInfoSize)])

\* Every field is checked before it is read, so the first one that is not
\* all there ends the loop.
peer_info_list_deserialize(buffer) ==
  LET num_peers == Number(buffer, 0, U64) IN
  IF Len(buffer) < U64 THEN TooSmall
  ELSE IF Len(buffer) < U64 + num_peers * PeerInfoSize THEN TooSmall
  ELSE Success([i \in 1..num_peers |->
                  PeerInfoAt(buffer, U64 + (i - 1) * PeerInfoSize)])

compare_peer_info_t(p1, p2) == p1.listen_addr = p2.listen_addr
-----------------------------------------------------------------------------
\* The commands fit in a uint32_t, the sizes of the structs are small.
ASSUME WidthAssumption ==
  /\ COMMAND_SEND_BLOCKCHAIN \in Unsigned(U32)
  /\ AddressSize + RegisterPadding \in Unsigned(U64)
  /\ HeaderSize + U64 <= CallocLimit
=============================================================================
