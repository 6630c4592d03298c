--------------------------- MODULE PeerDiscovery ----------------------------
(***************************************************************************)
(* The bootstrap server (peer_discovery_bootstrap_server_thread.c) and the *)
(* peers that register with it (peer_discovery_thread.c).                  *)
(*                                                                         *)
(* Each peer is identified with the listen address it registers.  A socket *)
(* connection takes one of a fixed number of slots; its slot is free again *)
(* when both ends are closed.  No socket has a timeout.  peer_info_list is *)
(* only touched by the thread that owns it, under a mutex nobody else      *)
(* takes; the handler's critical section is cut where time passes.         *)
(***************************************************************************)
EXTENDS Integers, Sequences, FiniteSets

CONSTANTS Peer,             \* the peers, and their listen addresses
          Keepalive,        \* peer_keepalive_microseconds, in seconds
          MaxTime,          \* bound: the clock stops there
          Slot,             \* bound: connections open at a time
          MaxFds,           \* descriptors a peer's process may have open
          StartsListening,  \* the server listens before any peer starts
          PrintProgress,    \* the server's args->print_progress
          NameFailures,     \* getnameinfo and inet_ntop may fail
          NetFailures       \* socket calls and mallocs may fail

ASSUME PeerDiscoveryAssumption ==
  /\ Keepalive \in Nat /\ MaxTime \in Nat /\ MaxFds \in Nat \ {0}
  /\ StartsListening \in BOOLEAN /\ PrintProgress \in BOOLEAN
  /\ NameFailures \in BOOLEAN /\ NetFailures \in BOOLEAN

VARIABLES clock,       \* time(NULL)
          list,        \* the server's peer_info_list, head first
          b,           \* the server thread's program counter and locals
          serverStop,  \* the server's *args->should_stop
          backlog,     \* connections not yet accepted, oldest first
          conn,        \* slot -> the connection: its state, the peer, the reply
          p,           \* peer -> its thread's program counter and connection
          peers,       \* peer -> addresses in its peer_info_list
          fds,         \* peer -> descriptors it holds open
          peerStop,    \* peers whose *args->should_stop is set
          registered   \* peer -> time of its last registration (history)

vars == <<clock, list, b, serverStop, backlog, conn, p, peers, fds, peerStop,
          registered>>
serverVars == <<list, b, serverStop, registered>>
peerVars == <<p, peers, fds, peerStop>>
netVars == <<backlog, conn>>

None == "none"
Never == -1

\* freed: the node is linked but its peer_info_t has been freed.
Entry == [addr: Peer, last_connected: 0..MaxTime, freed: BOOLEAN]
Addresses(l) == {l[i].addr : i \in 1..Len(l)}

ServerPC == {"listen", "failed", "top", "poll", "recv", "register", "expire",
             "reply", "exit", "returned"}
PeerPC == {"top", "socket", "connect", "send", "recv", "spin", "sleep",
           "exit", "returned"}
\* closed: by the server, without a reply.  reset: send and recv fail.
ConnState == {"unused", "open", "sent", "replied", "closed", "reset"}

Unused == [state |-> "unused", from |-> None, list |-> <<>>, at |-> 0]

Init ==
  /\ clock = 0
  /\ list = <<>>
  /\ b = [pc |-> IF StartsListening THEN "top" ELSE "listen",
          slot |-> None, addr |-> None, now |-> 0]
  /\ serverStop = FALSE
  /\ backlog = <<>>
  /\ conn = [i \in Slot |-> Unused]
  /\ p = [c \in Peer |-> [pc |-> "top", slot |-> None]]
  /\ peers = [c \in Peer |-> {}]
  /\ fds = [c \in Peer |-> 0]
  /\ peerStop = {}
  /\ registered = [c \in Peer |-> Never]

TypeOK ==
  /\ clock \in 0..MaxTime
  /\ list \in Seq(Entry)
  /\ b \in [pc: ServerPC, slot: Slot \cup {None}, addr: Peer \cup {None},
            now: 0..MaxTime]
  /\ serverStop \in BOOLEAN
  /\ backlog \in Seq(Slot)
  /\ conn \in [Slot -> [state: ConnState, from: Peer \cup {None},
                         list: Seq(Entry), at: 0..MaxTime]]
  /\ p \in [Peer -> [pc: PeerPC, slot: Slot \cup {None}]]
  /\ peers \in [Peer -> SUBSET Peer]
  /\ fds \in [Peer -> 0..MaxFds]
  /\ peerStop \subseteq Peer
  /\ registered \in [Peer -> {Never} \cup 0..MaxTime]
-----------------------------------------------------------------------------
(***************************************************************************)
(* handle_peer_discovery_requests and handle_one_peer_discovery_request.   *)
(***************************************************************************)
\* The listening socket stays open until the process ends.
Listening == b.pc \notin {"listen", "failed", "returned"}

ServerGoTo(pc) == b' = [b EXCEPT !.pc = pc]

\* The handler returns without a reply and the connection is closed.
CloseConnection ==
  /\ b' = [b EXCEPT !.pc = "top", !.slot = None, !.addr = None]
  /\ conn' = [conn EXCEPT ![b.slot].state = "closed"]

ServerListen ==
  /\ b.pc = "listen"
  /\ \/ ServerGoTo("top")
     \/ NetFailures /\ ServerGoTo("failed")
  /\ UNCHANGED <<clock, list, serverStop, registered, netVars, peerVars>>

ServerTop ==
  /\ b.pc = "top"
  /\ ServerGoTo(IF serverStop THEN "exit" ELSE "poll")
  /\ UNCHANGED <<clock, list, serverStop, registered, netVars, peerVars>>

\* poll times out, or a connection is accepted, or the thread ends: poll or
\* accept fail, or the name of the client is not found.
ServerPoll ==
  /\ b.pc = "poll"
  /\ \/ /\ backlog = <<>>
        /\ ServerGoTo("top")
        /\ UNCHANGED backlog
     \/ /\ backlog # <<>>
        /\ b' = [b EXCEPT !.pc = "recv", !.slot = Head(backlog)]
        /\ backlog' = Tail(backlog)
     \/ /\ NetFailures
        /\ ServerGoTo("exit")
        /\ UNCHANGED backlog
     \/ /\ PrintProgress /\ NameFailures /\ backlog # <<>>
        /\ b' = [b EXCEPT !.pc = "exit", !.slot = Head(backlog)]
        /\ backlog' = Tail(backlog)
  /\ UNCHANGED <<clock, list, serverStop, registered, conn, peerVars>>

\* recv_all waits for the whole command; there is no timeout.
ServerRecv ==
  /\ b.pc = "recv"
  /\ \/ /\ conn[b.slot].state = "sent"
        /\ b' = [b EXCEPT !.pc = "register", !.addr = conn[b.slot].from,
                          !.now = clock]
        /\ UNCHANGED conn
     \/ NetFailures /\ CloseConnection
  /\ UNCHANGED <<clock, list, serverStop, registered, backlog, peerVars>>

\* peer_info_list after an address in it has registered again.
Refreshed(l, addr, now) ==
  [i \in 1..Len(l) |-> IF l[i].addr = addr
                       THEN [l[i] EXCEPT !.last_connected = now] ELSE l[i]]

Prepended(l, addr, now, fails) ==
  <<[addr |-> addr, last_connected |-> now, freed |-> fails]>> \o l

\* Mutants: no search of the list; a known peer's last_connected is left as
\* it is; a new peer is not linked.
Registered_Again(l, addr, now, fails) == Prepended(l, addr, now, fails)
Registered_Stale(l, addr, now, fails) ==
  IF addr \in Addresses(l) THEN l ELSE Prepended(l, addr, now, fails)
Registered_Unlinked(l, addr, now, fails) == Refreshed(l, addr, now)

\* linked_list_find, then prepend or refresh.
Registered(l, addr, now, fails) ==
  IF addr \in Addresses(l) THEN Refreshed(l, addr, now)
  ELSE Prepended(l, addr, now, fails)

\* If the name lookup for the progress message fails, a new peer_info_t is
\* freed though it is linked.
ServerRegister ==
  /\ b.pc = "register"
  /\ registered' = [registered EXCEPT ![b.addr] = b.now]
  /\ \E fails \in {FALSE, PrintProgress /\ NameFailures} :
       /\ list' = Registered(list, b.addr, b.now, fails)
       /\ IF fails THEN CloseConnection
          ELSE ServerGoTo("expire") /\ UNCHANGED conn
  /\ UNCHANGED <<clock, serverStop, backlog, peerVars>>

\* Mutant: an entry is kept one second too long.
Expired_OffByOne(e) == clock - e.last_connected > Keepalive + 1

Expired(e) == clock - e.last_connected > Keepalive

\* l without its expired entries among the first n: the k-th entry is the one
\* that has k - 1 entries that are kept before it.
Kept(l, n) == {i \in 1..Len(l) : i > n \/ ~Expired(l[i])}
Rank(kept, i) == Cardinality({j \in kept : j <= i})
ExpireFirst(l, n) ==
  [k \in 1..Cardinality(Kept(l, n)) |->
     l[CHOOSE i \in Kept(l, n) : Rank(Kept(l, n), i) = k]]

\* A name lookup that fails ends the loop at the entry just unlinked.
ServerExpire ==
  /\ b.pc = "expire"
  /\ \/ /\ list' = ExpireFirst(list, Len(list))
        /\ b' = [b EXCEPT !.pc = "reply", !.now = clock]
        /\ UNCHANGED conn
     \/ /\ PrintProgress /\ NameFailures
        /\ \E i \in 1..Len(list) : /\ Expired(list[i])
                                   /\ list' = ExpireFirst(list, i)
        /\ CloseConnection
  /\ UNCHANGED <<clock, serverStop, registered, backlog, peerVars>>

\* Mutant: the reply is not sent and the connection not closed.
ServerReply_Forgotten ==
  /\ b.pc = "reply"
  /\ b' = [b EXCEPT !.pc = "top", !.slot = None, !.addr = None]
  /\ UNCHANGED <<clock, list, serverStop, registered, netVars, peerVars>>

\* Serialize, unlock, send and close, or fail and close.
ServerReply ==
  /\ b.pc = "reply"
  /\ \/ /\ conn' = [conn EXCEPT ![b.slot].state = "replied",
                                   ![b.slot].list = list, ![b.slot].at = b.now]
        /\ b' = [b EXCEPT !.pc = "top", !.slot = None, !.addr = None]
     \/ NetFailures /\ CloseConnection
  /\ UNCHANGED <<clock, list, serverStop, registered, backlog, peerVars>>

\* What the kernel does to a connection of a process that ends: it closes the
\* one the server serves, and resets those that wait to be accepted and one
\* with bytes that were not read.
Abandoned(i) ==
  IF i = b.slot /\ (conn[i].state = "open" \/ b.pc # "exit")
  THEN "closed" ELSE "reset"

\* The process ends, and with it the listening socket and all connections.
ProcessEnds ==
  /\ b' = [b EXCEPT !.pc = "returned", !.slot = None, !.addr = None]
  /\ backlog' = <<>>
  /\ conn' = [i \in Slot |-> IF conn[i].state \in {"open", "sent"}
                            THEN [conn[i] EXCEPT !.state = Abandoned(i)]
                            ELSE conn[i]]

\* exit_ready is set; main frees the list and returns.
ServerExit ==
  /\ b.pc \in {"exit", "failed"}
  /\ ProcessEnds
  /\ UNCHANGED <<clock, list, serverStop, registered, peerVars>>

\* Walking the list reads, and expiry frees again, a peer_info_t that was
\* freed: either its last contents are found or the process is killed.
ServerAbort ==
  /\ b.pc \in {"register", "expire", "reply"}
  /\ \E i \in 1..Len(list) : list[i].freed
  /\ ProcessEnds
  /\ UNCHANGED <<clock, list, serverStop, registered, peerVars>>

RequestServerStop ==
  /\ ~serverStop
  /\ serverStop' = TRUE
  /\ UNCHANGED <<clock, list, b, registered, netVars, peerVars>>

ServerNext == \/ ServerListen \/ ServerTop \/ ServerPoll \/ ServerRecv
              \/ ServerRegister \/ ServerExpire \/ ServerReply \/ ServerExit
              \/ ServerAbort
-----------------------------------------------------------------------------
(***************************************************************************)
(* discover_peers and discover_peers_once.                                 *)
(***************************************************************************)
PeerGoTo(c, pc) == p' = [p EXCEPT ![c].pc = pc]

\* discover_peers_once fails: it returns without closing client_fd.
FailOnce(c) == p' = [p EXCEPT ![c] = [pc |-> "sleep", slot |-> None]]

\* Mutant: the socket is closed twice.
CloseSocket_Twice(c) == fds' = [fds EXCEPT ![c] = @ - 2]

CloseSocket(c) == fds' = [fds EXCEPT ![c] = @ - 1]

\* Mutant: should_stop is read only once, before the loop.
PeerTop_NeverStops(c) ==
  /\ p[c].pc = "top"
  /\ PeerGoTo(c, "socket")
  /\ UNCHANGED <<clock, serverVars, netVars, peers, fds, peerStop>>

PeerTop(c) ==
  /\ p[c].pc = "top"
  /\ PeerGoTo(c, IF c \in peerStop THEN "exit" ELSE "socket")
  /\ UNCHANGED <<clock, serverVars, netVars, peers, fds, peerStop>>

PeerSocket(c) ==
  /\ p[c].pc = "socket"
  /\ \/ /\ fds[c] < MaxFds
        /\ fds' = [fds EXCEPT ![c] = @ + 1]
        /\ PeerGoTo(c, "connect")
     \/ /\ fds[c] = MaxFds \/ NetFailures
        /\ FailOnce(c)
        /\ UNCHANGED fds
  /\ UNCHANGED <<clock, serverVars, netVars, peers, peerStop>>

PeerConnect(c) ==
  /\ p[c].pc = "connect"
  /\ \/ /\ Listening
        /\ \E i \in Slot :
             /\ conn[i] = Unused
             /\ conn' = [conn EXCEPT ![i].state = "open", ![i].from = c]
             /\ backlog' = Append(backlog, i)
             /\ p' = [p EXCEPT ![c] = [pc |-> "send", slot |-> i]]
     \/ /\ ~Listening \/ NetFailures
        /\ FailOnce(c)
        /\ UNCHANGED netVars
  /\ UNCHANGED <<clock, serverVars, peers, fds, peerStop>>

\* Bytes sent on a connection that the server has closed are answered by a
\* reset, which recv may or may not see.
PeerSend(c) ==
  LET state == conn[p[c].slot].state IN
  /\ p[c].pc = "send"
  /\ \/ /\ state = "open"
        /\ conn' = [conn EXCEPT ![p[c].slot].state = "sent"]
        /\ PeerGoTo(c, "recv")
     \/ /\ state = "closed"
        /\ \E seen \in {"closed", "reset"} :
             conn' = [conn EXCEPT ![p[c].slot].state = seen]
        /\ PeerGoTo(c, "recv")
     \/ /\ NetFailures \/ state = "reset"
        /\ FailOnce(c)
        /\ UNCHANGED conn
  /\ UNCHANGED <<clock, serverVars, backlog, peers, fds, peerStop>>

\* The reply replaces the list and the socket is closed.  A connection that
\* was closed without a reply makes recv_all spin on recv's 0.
PeerRecv(c) ==
  LET cn == conn[p[c].slot] IN
  /\ p[c].pc = "recv"
  /\ \/ /\ cn.state = "replied"
        /\ peers' = [peers EXCEPT ![c] = Addresses(cn.list)]
        /\ CloseSocket(c)
        /\ conn' = [conn EXCEPT ![p[c].slot] = Unused]
        /\ p' = [p EXCEPT ![c] = [pc |-> "sleep", slot |-> None]]
     \/ /\ cn.state = "closed"
        /\ PeerGoTo(c, "spin")
        /\ UNCHANGED <<conn, peers, fds>>
     \/ /\ NetFailures \/ cn.state = "reset"
        /\ FailOnce(c)
        /\ UNCHANGED <<conn, peers, fds>>
  /\ UNCHANGED <<clock, serverVars, backlog, peerStop>>

PeerSleep(c) ==
  /\ p[c].pc = "sleep"
  /\ PeerGoTo(c, "top")
  /\ UNCHANGED <<clock, serverVars, netVars, peers, fds, peerStop>>

PeerExit(c) ==
  /\ p[c].pc = "exit"
  /\ PeerGoTo(c, "returned")
  /\ UNCHANGED <<clock, serverVars, netVars, peers, fds, peerStop>>

RequestPeerStop(c) ==
  /\ c \notin peerStop
  /\ peerStop' = peerStop \cup {c}
  /\ UNCHANGED <<clock, serverVars, netVars, p, peers, fds>>

PeerNext(c) == \/ PeerTop(c) \/ PeerSocket(c) \/ PeerConnect(c) \/ PeerSend(c)
               \/ PeerRecv(c) \/ PeerSleep(c) \/ PeerExit(c)
-----------------------------------------------------------------------------
Tick ==
  /\ clock < MaxTime
  /\ clock' = clock + 1
  /\ UNCHANGED <<serverVars, netVars, peerVars>>

Next == \/ Tick
        \/ ServerNext
        \/ RequestServerStop
        \/ \E c \in Peer : PeerNext(c) \/ RequestPeerStop(c)

Spec == Init /\ [][Next]_vars

\* Every thread is scheduled; time need not pass and nobody has to stop.
FairSpec == /\ Spec
            /\ WF_vars(ServerNext)
            /\ \A c \in Peer : WF_vars(PeerNext(c))
-----------------------------------------------------------------------------
(***************************************************************************)
(* linked_list_find keeps the handler from listing an address twice.       *)
(***************************************************************************)
ListedOnce == Cardinality(Addresses(list)) = Len(list)

(***************************************************************************)
(* A peer that registered within the keepalive interval is in the server's *)
(* list, whoever else registers and whatever expires in the meantime.      *)
(***************************************************************************)
ActivePeersAreListed ==
  \A c \in Peer : registered[c] # Never /\ clock - registered[c] <= Keepalive
                  => c \in Addresses(list)

(***************************************************************************)
(* bootstrap_server_thread.h: "If a peer has not connected in this         *)
(* interval, the server removes it": no reply lists a peer that had        *)
(* expired when the list was last swept.                                   *)
(***************************************************************************)
RepliesAreActive ==
  \A i \in Slot : conn[i].state = "replied" =>
    \A j \in 1..Len(conn[i].list) :
      conn[i].at - conn[i].list[j].last_connected <= Keepalive

(***************************************************************************)
(* A peer that waits in recv_all for the reply to its registration goes on *)
(* to its sleep: the server serves one connection at a time but reaches    *)
(* all of them, and one that stops resets those it has not accepted.  A    *)
(* peer that spins in recv_all does not satisfy this.                      *)
(***************************************************************************)
RequestsEnd == \A c \in Peer : (p[c].pc = "recv") ~> (p[c].pc = "sleep")

(***************************************************************************)
(* discover_peers "Maintains the list of active peers until interrupted":  *)
(* once the server listens, and while it does, a peer that is not told to  *)
(* stop gets a list with its own address in it.                            *)
(***************************************************************************)
PeersRegister ==
  \A c \in Peer :
    Listening ~> (c \in peers[c] \/ c \in peerStop \/ ~Listening)

(***************************************************************************)
(* A peer that is asked to stop returns, after at most one more attempt,   *)
(* also when the server stops while the peer waits for it.                 *)
(***************************************************************************)
PeerStops == \A c \in Peer : (c \in peerStop) ~> (p[c].pc = "returned")
=============================================================================
