----------------------------- MODULE MCExchange -----------------------------
(***************************************************************************)
(* Bytes of eight values and integers of one or two of them: 13 bytes to   *)
(* register, up to 27 in the reply.                                        *)
(***************************************************************************)
EXTENDS Exchange

Addr(port, last) ==
  [sin6_family |-> 2, sin6_port |-> port, sin6_flowinfo |-> 9,
   sin6_addr |-> <<last>>, sin6_scope_id |-> 17]
Info(a, at) == [listen_addr |-> a, last_connected |-> at]

MCPrefix == <<5>>
MCSelf == Addr(3, 1)
Other == Addr(3, 6)

\* Empty; another peer; one that has expired, and one that expires between
\* the two readings of the clock; the client itself, not refreshed yet.
MCKnown == {<<>>, <<Info(Other, 18)>>, <<Info(Other, 2)>>, <<Info(Other, 12)>>,
            <<Info(Other, 18), Info(MCSelf, 10)>>}
MCDelays == {0, 3}
MCOldPeers == <<Info(Other, 1)>>

\* Another command, one that is too short, one that announces a byte more
\* than it sends, and none at all.
MCStrangers == {command_send_blockchain_serialize(<<1, 2, 3>>),
                command_header_serialize(COMMAND_REGISTER_PEER, 2) \o <<2, 3>>,
                command_header_serialize(COMMAND_REGISTER_PEER, 3) \o <<2, 3>>,
                <<7, 0, 0, 0, 0, 1>>}
=============================================================================
