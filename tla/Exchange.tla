------------------------------ MODULE Exchange ------------------------------
(***************************************************************************)
(* One registration, byte by byte: discover_peers_once at one end of a     *)
(* connection and handle_one_peer_discovery_request at the other.          *)
(*                                                                         *)
(* recv and send move any number of bytes at a time.  The connection holds *)
(* a few bytes in each direction, can be reset, and either program can     *)
(* die.  Progress messages are off: PeerDiscovery has their failures.      *)
(***************************************************************************)
EXTENDS Commands, FiniteSets

CONSTANTS Self,        \* the client's peer_addr
          OldPeers,    \* the client's peer_info_list before
          Known,       \* the server's peer_info_lists before
          Strangers,   \* what other programs send to the server's port
          Now,         \* time(NULL) when the server registers the client
          Delays,      \* seconds until it reads time(NULL) again and sweeps
          Keepalive,   \* peer_keepalive_microseconds, in seconds
          Capacity     \* bytes under way in one direction

\* The lists fit in memory with one more peer; strangers do not register.
ASSUME ExchangeAssumption ==
  /\ Capacity \in Nat \ {0}
  /\ Self \in Address /\ Now \in Unsigned(U64)
  /\ Delays \subseteq Nat /\ Keepalive \in Nat
  /\ Known \subseteq Seq(PeerInfo) /\ OldPeers \in Seq(PeerInfo)
  /\ \A l \in Known : U64 + (Len(l) + 1) * PeerInfoSize <= CallocLimit
  /\ \A m \in Strangers :
       /\ m \in Seq(Byte)
       /\ \A n \in 0..Len(m) :
            command_register_peer_deserialize(SubSeq(m, 1, n)).code # "SUCCESS"

VARIABLES c,          \* the client: program counter, bytes to send, received
          s,          \* the same for the server
          toServer,   \* bytes under way
          toClient,
          reset,      \* the connection was reset
          disturbed,  \* something went wrong outside of the two functions
          peers,      \* the client's args->peer_info_list
          list        \* the server's args->peer_info_list

vars == <<c, s, toServer, toClient, reset, disturbed, peers, list>>

Receiving == {"header", "body"}
ClientPC == Receiving \cup {"send", "done", "failed", "spin", "killed"}
ServerPC == Receiving \cup {"register", "send", "closed", "spin", "killed"}
End(pc) == [pc: pc, out: Seq(Byte), buf: Seq(Byte), len: Nat]

Init ==
  \E out \in {command_register_peer_serialize(Self)} \cup Strangers :
    /\ c = [pc |-> "send", out |-> out, buf |-> <<>>, len |-> 0]
    /\ s = [pc |-> "header", out |-> <<>>, buf |-> <<>>, len |-> 0]
    /\ toServer = <<>> /\ toClient = <<>> /\ reset = FALSE
    /\ disturbed = (out \in Strangers)
    /\ peers = OldPeers
    /\ list \in Known

TypeOK ==
  /\ c \in End(ClientPC) /\ s \in End(ServerPC)
  /\ toServer \in Seq(Byte) /\ Len(toServer) <= Capacity
  /\ toClient \in Seq(Byte) /\ Len(toClient) <= Capacity
  /\ reset \in BOOLEAN /\ disturbed \in BOOLEAN
  /\ peers \in Seq(PeerInfo) /\ list \in Seq(PeerInfo)
-----------------------------------------------------------------------------
(***************************************************************************)
(* recv_all and send_all for one end e of the connection, with the state   *)
(* the end is in afterwards.  A closed connection reads as 0 bytes, which  *)
(* recv_all takes for progress: it spins.                                  *)
(***************************************************************************)
\* Bytes recv_all still waits for.
Missing(e) ==
  HeaderSize + (IF e.pc = "body" THEN e.len ELSE 0) - Len(e.buf)

recv_all(e, pipe) ==
  {[end  |-> [e EXCEPT !.buf = @ \o SubSeq(pipe, 1, n)],
    pipe |-> SubSeq(pipe, n + 1, Len(pipe))] :
     n \in {k \in 1..Len(pipe) : k <= Missing(e)}}

send_all(e, pipe) ==
  {[end  |-> [e EXCEPT !.out = SubSeq(@, n + 1, Len(@))],
    pipe |-> pipe \o SubSeq(e.out, 1, n)] :
     n \in {k \in 1..Len(e.out) : k <= Capacity - Len(pipe)}}

\* The end has closed its socket, or the kernel has.
ClientClosed == c.pc \in {"done", "killed"}
ServerClosed == s.pc \in {"closed", "killed"}

\* What becomes of an end when recv has nothing more to give: it returns 0,
\* or -1 after a reset.  send then returns -1 or raises SIGPIPE, which nobody
\* handles.
RecvEnds(closed, failed) ==
  (IF reset THEN {failed} ELSE {}) \cup (IF closed THEN {"spin"} ELSE {})
SendEnds(failed) == IF reset THEN {failed, "killed"} ELSE {}
-----------------------------------------------------------------------------
(***************************************************************************)
(* discover_peers_once, from send_all on.                                  *)
(***************************************************************************)
\* A failure returns without closing the socket.
ClientGoTo(pc) == c' = [c EXCEPT !.pc = pc]

\* What is sent after the server has closed comes back as a reset.
ClientSend ==
  /\ c.pc = "send" /\ c.out # <<>>
  /\ \/ /\ ~reset
        /\ \E m \in send_all(c, toServer) :
             /\ c' = m.end
             /\ toServer' = IF ServerClosed THEN toServer ELSE m.pipe
        /\ reset' = ServerClosed
     \/ /\ \E pc \in SendEnds("failed") : ClientGoTo(pc)
        /\ UNCHANGED <<toServer, reset>>
  /\ UNCHANGED <<s, toClient, peers, list, disturbed>>

\* The buffer for the reply's header may not be had.
ClientAwaitsReply ==
  /\ c.pc = "send" /\ c.out = <<>>
  /\ \/ ClientGoTo("header") /\ UNCHANGED disturbed
     \/ ClientGoTo("failed") /\ disturbed' = TRUE
  /\ UNCHANGED <<s, toServer, toClient, reset, peers, list>>

ClientRecv ==
  /\ c.pc \in Receiving /\ Missing(c) > 0
  /\ \/ \E m \in recv_all(c, toClient) : c' = m.end /\ toClient' = m.pipe
     \/ /\ toClient = <<>>
        /\ \E pc \in RecvEnds(ServerClosed, "failed") : ClientGoTo(pc)
        /\ UNCHANGED toClient
  /\ UNCHANGED <<s, toServer, reset, peers, list, disturbed>>

ClientReadsHeader ==
  /\ c.pc = "header" /\ Missing(c) = 0
  /\ IF CommandCode(COMMAND_SEND_PEER_LIST, c.buf) # "SUCCESS"
     THEN ClientGoTo("failed")
     ELSE c' = [c EXCEPT !.pc = "body",
                  !.len = command_header_deserialize(c.buf).value.command_len]
  /\ UNCHANGED <<s, toServer, toClient, reset, peers, list, disturbed>>

\* The new list replaces the old one and the socket is closed.
ClientReadsReply ==
  LET reply == command_send_peer_list_deserialize(c.buf)
      new   == peer_info_list_deserialize(reply.value) IN
  /\ c.pc = "body" /\ Missing(c) = 0
  /\ IF reply.code # "SUCCESS" \/ new.code # "SUCCESS"
     THEN ClientGoTo("failed") /\ UNCHANGED peers
     ELSE ClientGoTo("done") /\ peers' = new.value
  /\ UNCHANGED <<s, toServer, toClient, reset, list, disturbed>>

ClientNext == \/ ClientSend \/ ClientAwaitsReply \/ ClientRecv
              \/ ClientReadsHeader \/ ClientReadsReply
-----------------------------------------------------------------------------
(***************************************************************************)
(* handle_one_peer_discovery_request.                                      *)
(***************************************************************************)
ServerGoTo(pc) == s' = [s EXCEPT !.pc = pc]

\* The handler returns and its caller closes the socket; bytes that were not
\* read make the kernel reset the connection.
ServerCloses ==
  /\ ServerGoTo("closed")
  /\ reset' = (reset \/ toServer # <<>>)

ServerRecv ==
  /\ s.pc \in Receiving /\ Missing(s) > 0
  /\ \/ \E m \in recv_all(s, toServer) :
          s' = m.end /\ toServer' = m.pipe /\ UNCHANGED reset
     \/ /\ toServer = <<>>
        /\ \E pc \in RecvEnds(ClientClosed, "closed") : ServerGoTo(pc)
        /\ UNCHANGED <<toServer, reset>>
  /\ UNCHANGED <<c, toClient, peers, list, disturbed>>

ServerReadsHeader ==
  /\ s.pc = "header" /\ Missing(s) = 0
  /\ IF CommandCode(COMMAND_REGISTER_PEER, s.buf) # "SUCCESS"
     THEN ServerCloses
     ELSE /\ s' = [s EXCEPT !.pc = "body",
                 !.len = command_header_deserialize(s.buf).value.command_len]
          /\ UNCHANGED reset
  /\ UNCHANGED <<c, toServer, toClient, peers, list, disturbed>>

ServerReadsCommand ==
  /\ s.pc = "body" /\ Missing(s) = 0
  /\ IF command_register_peer_deserialize(s.buf).code # "SUCCESS"
     THEN ServerCloses
     ELSE ServerGoTo("register") /\ UNCHANGED reset
  /\ UNCHANGED <<c, toServer, toClient, peers, list, disturbed>>

\* A listed peer is refreshed, any other is put in front.
Registered(l, info) ==
  IF \E i \in 1..Len(l) : compare_peer_info_t(l[i], info)
  THEN [i \in 1..Len(l) |-> IF compare_peer_info_t(l[i], info) THEN info ELSE l[i]]
  ELSE <<info>> \o l

\* l without the peers that have not connected for too long at the time now.
Active(l, now) ==
  LET kept[n \in 0..Len(l)] ==
        IF n = 0 THEN <<>>
        ELSE IF now - l[n].last_connected > Keepalive THEN kept[n - 1]
        ELSE Append(kept[n - 1], l[n])
  IN  kept[Len(l)]

\* Under the list's mutex: register, expire, serialize.  The clock is read
\* before the client is registered and again before the list is swept.
ServerRegisters ==
  LET addr == command_register_peer_deserialize(s.buf).value IN
  /\ s.pc = "register"
  /\ \E d \in Delays :
       list' = Active(Registered(list, [listen_addr    |-> addr,
                                        last_connected |-> Now]), Now + d)
  /\ s' = [s EXCEPT !.pc = "send",
             !.out = command_send_peer_list_serialize(
                       peer_info_list_serialize(list'))]
  /\ UNCHANGED <<c, toServer, toClient, reset, peers, disturbed>>

ServerSend ==
  /\ s.pc = "send"
  /\ \/ /\ s.out # <<>> /\ ~reset
        /\ \E m \in send_all(s, toClient) :
             /\ s' = m.end
             /\ toClient' = IF ClientClosed THEN toClient ELSE m.pipe
        /\ reset' = ClientClosed
     \/ /\ s.out # <<>>
        /\ \E pc \in SendEnds("closed") : ServerGoTo(pc)
        /\ UNCHANGED <<toClient, reset>>
     \/ s.out = <<>> /\ ServerCloses /\ UNCHANGED toClient
  /\ UNCHANGED <<c, toServer, peers, list, disturbed>>

ServerNext == \/ ServerRecv \/ ServerReadsHeader \/ ServerReadsCommand
              \/ ServerRegisters \/ ServerSend
-----------------------------------------------------------------------------
\* The network gives up on the connection; what was under way is lost.
Reset ==
  /\ ~reset
  /\ reset' = TRUE /\ disturbed' = TRUE
  /\ toServer' = <<>> /\ toClient' = <<>>
  /\ UNCHANGED <<c, s, peers, list>>

\* A program is killed; the kernel closes its end, as in ServerCloses.
Dies ==
  /\ \/ /\ ~ClientClosed
        /\ ClientGoTo("killed")
        /\ reset' = (reset \/ toClient # <<>>)
        /\ UNCHANGED s
     \/ /\ ~ServerClosed
        /\ ServerGoTo("killed")
        /\ reset' = (reset \/ toServer # <<>>)
        /\ UNCHANGED c
  /\ disturbed' = TRUE
  /\ UNCHANGED <<toServer, toClient, peers, list>>

Next == ClientNext \/ ServerNext \/ Reset \/ Dies

\* Both programs run, and bytes under way arrive.
Spec == /\ Init /\ [][Next]_vars
        /\ WF_vars(ClientNext) /\ WF_vars(ServerNext)
-----------------------------------------------------------------------------
(***************************************************************************)
(* However the bytes were cut up and wherever the exchange was broken off, *)
(* the server lists no address that nobody registered.                     *)
(***************************************************************************)
RegisteredAsSent ==
  \A i \in 1..Len(list) :
    \/ list[i].listen_addr = Self
    \/ \E l \in Known : \E j \in 1..Len(l) : l[j] = list[i]

\* No registration expires before the sweep that follows it.
Prompt == \A d \in Delays : d <= Keepalive

(***************************************************************************)
(* All or nothing: the client's list is the one it had, or, after success, *)
(* exactly the server's.  It has the client's own address in it, unless    *)
(* the handler can take so long that the registration it has just entered  *)
(* expires before the sweep.                                               *)
(***************************************************************************)
ReplyArrivesWhole ==
  IF c.pc = "done"
  THEN /\ peers = list
       /\ Prompt => \E i \in 1..Len(list) : list[i].listen_addr = Self
  ELSE peers = OldPeers

(***************************************************************************)
(* An end spins in recv_all only when the other one has really broken off: *)
(* neither waits for bytes that the other was never going to send.         *)
(***************************************************************************)
SpinsOnlyWhenAbandoned ==
  /\ s.pc = "spin" => c.pc = "killed"
  /\ c.pc = "spin" => disturbed

\* All that a stranger sends has arrived, and the server waits for more.
SentTooLittle ==
  s.pc \in Receiving /\ s.buf \in Strangers /\ Missing(s) > 0

(***************************************************************************)
(* The exchange ends for both: they never wait for each other.  A server   *)
(* can be left waiting by a client that failed and kept its socket open,   *)
(* and by a stranger that announces more than it sends and waits too.      *)
(***************************************************************************)
ExchangeEnds ==
  /\ <>(c.pc \in {"done", "failed", "spin", "killed"} \/ SentTooLittle)
  /\ <>(\/ s.pc \in {"closed", "spin", "killed"}
       \/ c.pc = "failed" \/ SentTooLittle)

(***************************************************************************)
(* An undisturbed exchange succeeds: unless the connection is reset, a     *)
(* program dies or the client has no memory for the reply,                 *)
(* discover_peers_once gets its list.                                      *)
(***************************************************************************)
RegistrationSucceeds == <>(c.pc = "done" \/ disturbed)
=============================================================================
