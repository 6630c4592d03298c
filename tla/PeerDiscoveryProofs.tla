------------------------ MODULE PeerDiscoveryProofs -------------------------
(***************************************************************************)
(* The bootstrap server's list is right for any number of peers, any       *)
(* keepalive interval and any failures.                                    *)
(*                                                                         *)
(* That replies are active rests on the sweep just before them             *)
(* (SweptForReply); that active peers stay listed rests on their entry     *)
(* having the time of their last registration (EntriesAreCurrent), which   *)
(* a sweep keeps because it drops only what has expired.  The sweep gives  *)
(* the k-th entry of the new list as the kept entry of rank k: that ranks  *)
(* are one-to-one and onto (RanksAreNumbers) is why it loses and repeats   *)
(* nothing.                                                                *)
(*                                                                         *)
(* DiscoveryInv is inductive, and was checked as an invariant of the run   *)
(* of PeerDiscovery.cfg.                                                   *)
(***************************************************************************)
EXTENDS PeerDiscovery, FiniteSetTheorems, TLAPS

\* The server has a connection; a peer has one; a peer holds a socket open.
Serving == {"recv", "register", "expire", "reply"}
Connected == {"send", "recv", "spin"}
SocketIsOpen == {"connect", "send", "recv", "spin"}

\* The locals are set where they are used.
LocalsAreSet ==
  /\ b.pc \in Serving => b.slot \in Slot
  /\ b.pc = "register" => b.addr \in Peer
  /\ \A c \in Peer : p[c].pc \in Connected => p[c].slot \in Slot
  /\ \A c \in Peer : p[c].pc \in SocketIsOpen => fds[c] > 0
  /\ \A i \in Slot : conn[i].state \in {"open", "sent"} => conn[i].from \in Peer

\* No two entries have the same address.
EntriesDiffer ==
  \A i, j \in 1..Len(list) : list[i].addr = list[j].addr => i = j

\* The entry of a peer that has not expired has the time of its registration.
EntriesAreCurrent ==
  \A c \in Peer : registered[c] # Never /\ clock - registered[c] <= Keepalive
    => \E i \in 1..Len(list) : /\ list[i].addr = c
                               /\ list[i].last_connected = registered[c]

\* The list has been swept when it is sent.
SweptForReply ==
  b.pc = "reply" => \A j \in 1..Len(list) :
                      b.now - list[j].last_connected <= Keepalive

\* The inductive invariant.
DiscoveryInv == /\ TypeOK /\ LocalsAreSet /\ EntriesDiffer /\ EntriesAreCurrent
                /\ SweptForReply /\ RepliesAreActive

-----------------------------------------------------------------------------
(***************************************************************************)
(* What the loop over the list keeps.                                      *)
(***************************************************************************)
\* Every number up to the size of a set of numbers is the rank of one of them.
LEMMA RanksAreNumbers ==
  ASSUME NEW m \in Nat, NEW K \in SUBSET (1..m)
  PROVE  /\ Cardinality(K) \in Nat
         /\ \A i \in K : Rank(K, i) \in 1..Cardinality(K)
         /\ \A i, j \in K : Rank(K, i) = Rank(K, j) => i = j
         /\ \A k \in 1..Cardinality(K) : \E i \in K : Rank(K, i) = k
<1> DEFINE UpTo(i) == {j \in K : j <= i}
<1>1. IsFiniteSet(K) /\ Cardinality(K) \in Nat
  <2>1. IsFiniteSet(1..m)
    <3>1. 1 \in Int /\ m \in Int
      OBVIOUS
    <3> QED
      BY <3>1, FS_Interval
  <2> QED
    BY <2>1, FS_Subset, FS_CardinalityType
<1>2. \A i \in K : /\ IsFiniteSet(UpTo(i)) /\ Cardinality(UpTo(i)) \in Nat
                   /\ Cardinality(UpTo(i)) <= Cardinality(K)
                   /\ Cardinality(UpTo(i)) # 0
  <2> SUFFICES ASSUME NEW i \in K
               PROVE  /\ IsFiniteSet(UpTo(i)) /\ Cardinality(UpTo(i)) \in Nat
                      /\ Cardinality(UpTo(i)) <= Cardinality(K)
                      /\ Cardinality(UpTo(i)) # 0
    OBVIOUS
  <2>1. UpTo(i) \in SUBSET K /\ i \in UpTo(i)
    OBVIOUS
  <2> HIDE DEF UpTo
  <2>2. IsFiniteSet(UpTo(i)) /\ Cardinality(UpTo(i)) <= Cardinality(K)
    BY <1>1, <2>1, FS_Subset
  <2>3. Cardinality(UpTo(i)) # 0
    BY <2>1, <2>2, FS_EmptySet
  <2>4. Cardinality(UpTo(i)) \in Nat
    BY <2>2, FS_CardinalityType
  <2> QED
    BY <2>2, <2>3, <2>4
<1>3. ASSUME NEW i \in K, NEW j \in K, i < j
      PROVE  Cardinality(UpTo(i)) # Cardinality(UpTo(j))
  <2>1. /\ UpTo(i) \in SUBSET UpTo(j) /\ j \in UpTo(j) /\ j \notin UpTo(i)
    <3>1. K \subseteq Nat
      OBVIOUS
    <3>2. /\ \A x \in K : x <= i => x <= j
          /\ j <= j /\ ~(j <= i)
      BY <1>3, <3>1
    <3> QED
      BY <3>2
  <2>2. IsFiniteSet(UpTo(j))
    BY <1>2
  <2> HIDE DEF UpTo
  <2> QED
    BY <2>1, <2>2, FS_Subset
<1>4. \A i, j \in K : Cardinality(UpTo(i)) = Cardinality(UpTo(j)) => i = j
  <2>1. \A i, j \in K : i < j \/ j < i \/ i = j
    OBVIOUS
  <2> HIDE DEF UpTo
  <2> QED
    BY <1>3, <2>1
<1>5. \A i \in K : Rank(K, i) = Cardinality(UpTo(i))
  BY DEF Rank
<1>6. \A i \in K : Rank(K, i) \in 1..Cardinality(K)
  <2> HIDE DEF UpTo
  <2> QED
    BY <1>1, <1>2, <1>5
<1>7. \A i, j \in K : Rank(K, i) = Rank(K, j) => i = j
  <2> HIDE DEF UpTo
  <2> QED
    BY <1>4, <1>5
<1> DEFINE N == 1..Cardinality(K)
           f == [i \in K |-> Rank(K, i)]
<1>8. IsFiniteSet(N) /\ Cardinality(N) = Cardinality(K)
  <2>1. 1 \in Int /\ Cardinality(K) \in Int /\ Cardinality(K) >= 0
    BY <1>1
  <2>2. /\ IsFiniteSet(N)
        /\ Cardinality(N) = IF 1 > Cardinality(K) THEN 0
                            ELSE Cardinality(K) - 1 + 1
    BY <2>1, FS_Interval
  <2> QED
    BY <2>1, <2>2
<1>9. f \in Injection(K, N)
  BY <1>6, <1>7 DEF Injection, IsInjective
<1> HIDE DEF N
<1>10. f \in Surjection(K, N)
  <2> HIDE DEF f
  <2> QED
    BY <1>8, <1>9, FS_Injection
<1>11. \A k \in N : \E i \in K : Rank(K, i) = k
  BY <1>10 DEF Surjection
<1> QED
  BY <1>1, <1>6, <1>7, <1>11 DEF N

\* The entries of the list that is left are those that were kept, each once.
LEMMA WhatIsKept ==
  ASSUME NEW l \in Seq(Entry), NEW n \in Nat, NEW e, e = ExpireFirst(l, n)
  PROVE  /\ e \in Seq(Entry)
         /\ \E at \in [1..Len(e) -> Kept(l, n)] :
              /\ \A k \in 1..Len(e) : e[k] = l[at[k]]
              /\ \A j, k \in 1..Len(e) : at[j] = at[k] => j = k
              /\ \A i \in Kept(l, n) : \E k \in 1..Len(e) : at[k] = i
<1> DEFINE K == Kept(l, n)
           N == 1..Cardinality(K)
           Pick(k) == CHOOSE i \in K : Rank(K, i) = k
           at == [k \in N |-> Pick(k)]
<1>1. K \in SUBSET (1..Len(l)) /\ Len(l) \in Nat
  BY DEF Kept
<1> HIDE DEF K
<1>2. /\ Cardinality(K) \in Nat
      /\ \A i \in K : Rank(K, i) \in N
      /\ \A i, j \in K : Rank(K, i) = Rank(K, j) => i = j
      /\ \A k \in N : \E i \in K : Rank(K, i) = k
  BY <1>1, RanksAreNumbers
<1> HIDE DEF N
<1>3. \A k \in N : at[k] \in K /\ Rank(K, at[k]) = k
  BY <1>2
<1>4. at \in [N -> K]
  BY <1>3
<1>5. e = [k \in N |-> l[at[k]]]
  <2>1. e = [k \in N |-> l[Pick(k)]]
    BY Zenon DEF ExpireFirst, K, N
  <2> HIDE DEF Pick
  <2>2. \A k \in N : at[k] = Pick(k)
    OBVIOUS
  <2> HIDE DEF at
  <2> QED
    BY <2>1, <2>2
<1> HIDE DEF at
<1>6. \A i \in K : l[i] \in Entry
  BY <1>1
<1>7. e \in Seq(Entry) /\ Len(e) = Cardinality(K)
  <2>1. \A k \in N : l[at[k]] \in Entry
    BY <1>3, <1>6
  <2> QED
    BY <1>2, <1>5, <2>1 DEF N
<1>8. 1..Len(e) = N
  BY <1>7 DEF N
<1>9. \A k \in N : e[k] = l[at[k]]
  BY <1>5
<1>10. \A j, k \in N : at[j] = at[k] => j = k
  BY <1>3
<1>11. \A i \in K : \E k \in N : at[k] = i
  BY <1>2, <1>3
<1> QED
  BY <1>4, <1>7, <1>8, <1>9, <1>10, <1>11, SMTT(30) DEF K

-----------------------------------------------------------------------------
(***************************************************************************)
(* Every step keeps the invariant.                                         *)
(***************************************************************************)
\* The types of the locals and of the connections in TypeOK.
ServerLocals == [pc: ServerPC, slot: Slot \cup {None}, addr: Peer \cup {None},
                 now: 0..MaxTime]
Connection == [state: ConnState, from: Peer \cup {None}, list: Seq(Entry),
               at: 0..MaxTime]
PeerLocals == [pc: PeerPC, slot: Slot \cup {None}]

\* It holds when the processes start.
LEMMA InitInv == Init => DiscoveryInv
<1> SUFFICES ASSUME Init PROVE DiscoveryInv
  OBVIOUS
<1>1. /\ 0 \in 0..MaxTime /\ <<>> \in Seq(Entry) /\ <<>> \in Seq(Slot)
      /\ 0 \in 0..MaxFds
  BY PeerDiscoveryAssumption
<1>2. b \in ServerLocals /\ b.pc \in {"top", "listen"}
  BY <1>1, PeerDiscoveryAssumption DEF Init, ServerLocals, ServerPC
<1>3. Unused \in Connection /\ Unused.state = "unused"
  BY <1>1 DEF Unused, Connection, ConnState
<1>4. conn \in [Slot -> Connection] /\ \A i \in Slot : conn[i].state = "unused"
  BY <1>3 DEF Init
<1>5. p \in [Peer -> PeerLocals] /\ \A c \in Peer : p[c].pc = "top"
  BY DEF Init, PeerLocals, PeerPC
<1>6. serverStop \in BOOLEAN
  BY Zenon DEF Init
<1>7. TypeOK
  <2>1. /\ clock \in 0..MaxTime /\ list \in Seq(Entry) /\ backlog \in Seq(Slot)
        /\ peers \in [Peer -> SUBSET Peer] /\ fds \in [Peer -> 0..MaxFds]
        /\ peerStop \subseteq Peer
        /\ registered \in [Peer -> {Never} \cup 0..MaxTime]
    BY <1>1 DEF Init
  <2> QED
    BY <1>2, <1>4, <1>5, <1>6, <2>1, Zenon
    DEF TypeOK, ServerLocals, Connection, PeerLocals
<1>8. LocalsAreSet
  BY <1>2, <1>4, <1>5 DEF LocalsAreSet, Serving, Connected, SocketIsOpen
<1>9. EntriesDiffer /\ EntriesAreCurrent /\ SweptForReply /\ RepliesAreActive
  BY <1>2, <1>4
  DEF Init, EntriesDiffer, EntriesAreCurrent, SweptForReply, RepliesAreActive
<1> QED
  BY <1>7, <1>8, <1>9 DEF DiscoveryInv

\* What the types say.
LEMMA Types ==
  ASSUME DiscoveryInv
  PROVE  /\ b \in ServerLocals /\ conn \in [Slot -> Connection]
         /\ p \in [Peer -> PeerLocals] /\ list \in Seq(Entry)
         /\ clock \in 0..MaxTime /\ clock \in Nat
         /\ registered \in [Peer -> {Never} \cup 0..MaxTime]
         /\ \A i \in 1..Len(list) : /\ list[i] \in Entry
                                    /\ list[i].addr \in Peer
                                    /\ list[i].last_connected \in 0..MaxTime
                                    /\ list[i].last_connected \in Nat
<1>1. /\ b \in ServerLocals /\ conn \in [Slot -> Connection]
      /\ p \in [Peer -> PeerLocals] /\ list \in Seq(Entry)
      /\ clock \in 0..MaxTime
      /\ registered \in [Peer -> {Never} \cup 0..MaxTime]
  BY Zenon DEF DiscoveryInv, TypeOK, ServerLocals, Connection, PeerLocals
<1>2. \A i \in 1..Len(list) : list[i] \in Entry
  BY <1>1
<1> QED
  BY <1>1, <1>2, PeerDiscoveryAssumption DEF Entry

\* The list and the registrations are left alone.
LEMMA SameList ==
  ASSUME DiscoveryInv, UNCHANGED <<list, registered, clock>>
  PROVE  EntriesDiffer' /\ EntriesAreCurrent'
BY DEF DiscoveryInv, EntriesDiffer, EntriesAreCurrent

\* A connection that is closed or reset.
Over == {"closed", "reset"}

LEMMA ClosedConnection ==
  ASSUME NEW x \in Connection, NEW over \in Over
  PROVE  /\ [x EXCEPT !.state = over] \in Connection
         /\ [x EXCEPT !.state = over].state = over
BY DEF Connection, ConnState, Over

\* The server moves on with or without its connection, which it may close.
LEMMA ServerMovesOn ==
  ASSUME DiscoveryInv,
         UNCHANGED <<clock, list, serverStop, registered, peerVars>>,
         b' \in ServerLocals, b'.pc \notin {"register", "reply"},
         b'.pc \in Serving => b'.slot \in Slot,
         backlog' \in Seq(Slot),
         \/ conn' = conn
         \/ conn' = [conn EXCEPT ![b.slot].state = "closed"]
         \/ conn' = [i \in Slot |-> IF conn[i].state \in {"open", "sent"}
                                    THEN [conn[i] EXCEPT !.state = Abandoned(i)]
                                    ELSE conn[i]]
  PROVE  DiscoveryInv'
<1>1. /\ conn \in [Slot -> Connection]
  BY Types
<1>2. /\ conn' \in [Slot -> Connection]
      /\ \A i \in Slot : \/ conn'[i] = conn[i]
                         \/ conn'[i].state \in Over
  <2>1. \A x \in Connection : \A over \in Over :
          /\ [x EXCEPT !.state = over] \in Connection
          /\ [x EXCEPT !.state = over].state \in Over
    BY ClosedConnection, Zenon
  <2>2. CASE conn' = [conn EXCEPT ![b.slot].state = "closed"]
    <3>1. "closed" \in Over
      BY DEF Over
    <3> QED
      BY <1>1, <2>1, <2>2, <3>1
  <2>3. CASE conn' = [i \in Slot |-> IF conn[i].state \in {"open", "sent"}
                                     THEN [conn[i] EXCEPT !.state = Abandoned(i)]
                                     ELSE conn[i]]
    <3>1. \A i \in Slot : conn'[i] = IF conn[i].state \in {"open", "sent"}
                                     THEN [conn[i] EXCEPT !.state = Abandoned(i)]
                                     ELSE conn[i]
      BY <2>3, Zenon
    <3>2. \A i \in Slot : /\ conn'[i] \in Connection
                          /\ conn'[i] = conn[i] \/ conn'[i].state \in Over
      <4> SUFFICES ASSUME NEW i \in Slot
                   PROVE  /\ conn'[i] \in Connection
                          /\ conn'[i] = conn[i] \/ conn'[i].state \in Over
        OBVIOUS
      <4>1. \/ conn'[i] = conn[i]
            \/ conn'[i] = [conn[i] EXCEPT !.state = Abandoned(i)]
        BY <3>1, Zenon
      <4>2. conn[i] \in Connection /\ Abandoned(i) \in Over
        BY <1>1 DEF Abandoned, Over
      <4> QED
        BY <2>1, <4>1, <4>2, Zenon
    <3>3. conn' = [i \in Slot |-> conn'[i]]
      BY <2>3
    <3> QED
      BY <3>2, <3>3
  <2> QED
    BY <1>1, <2>2, <2>3
<1>3. TypeOK'
  BY <1>2 DEF DiscoveryInv, TypeOK, ServerLocals, Connection, peerVars
<1>4. LocalsAreSet'
  BY <1>2 DEF DiscoveryInv, LocalsAreSet, Over, peerVars
<1>5. RepliesAreActive'
  BY <1>2 DEF DiscoveryInv, RepliesAreActive, Over
<1> QED
  BY <1>3, <1>4, <1>5, SameList DEF DiscoveryInv, SweptForReply

\* The server starts, waits for a connection, or ends.
LEMMA ServerWaitsInv ==
  ASSUME DiscoveryInv,
         \/ ServerListen \/ ServerTop \/ ServerPoll \/ ServerExit \/ ServerAbort
  PROVE  DiscoveryInv'
<1> USE DEF ServerLocals, ServerPC, Serving
<1>1. b \in ServerLocals /\ backlog \in Seq(Slot) /\ None \in Slot \cup {None}
  BY Types DEF DiscoveryInv, TypeOK
<1>2. UNCHANGED <<clock, list, serverStop, registered, peerVars>>
  BY DEF ServerListen, ServerTop, ServerPoll, ServerExit, ServerAbort
<1>3. CASE ServerListen
  <2>1. /\ b' \in ServerLocals /\ b'.pc \in {"top", "failed"}
        /\ conn' = conn /\ backlog' = backlog
    BY <1>1, <1>3 DEF ServerListen, ServerGoTo, netVars
  <2> QED
    BY <1>1, <1>2, <2>1, ServerMovesOn
<1>4. CASE ServerTop
  <2>1. /\ b' \in ServerLocals /\ b'.pc \in {"exit", "poll"}
        /\ conn' = conn /\ backlog' = backlog
    BY <1>1, <1>4 DEF ServerTop, ServerGoTo, netVars
  <2> QED
    BY <1>1, <1>2, <2>1, ServerMovesOn
<1>5. CASE ServerPoll
  <2>1. /\ b' \in ServerLocals /\ b'.pc \in {"exit", "recv", "top"}
        /\ b'.pc = "recv" => b'.slot \in Slot
        /\ conn' = conn /\ backlog' \in Seq(Slot)
    <3>1. backlog # <<>>
            => Head(backlog) \in Slot /\ Tail(backlog) \in Seq(Slot)
      BY <1>1
    <3>2. conn' = conn
      BY <1>5 DEF ServerPoll
    <3>3. CASE /\ backlog # <<>> /\ backlog' = Tail(backlog)
               /\ \/ b' = [b EXCEPT !.pc = "recv", !.slot = Head(backlog)]
                  \/ b' = [b EXCEPT !.pc = "exit", !.slot = Head(backlog)]
      BY <1>1, <3>1, <3>2, <3>3
    <3>4. CASE backlog' = backlog /\ \E pc \in {"top", "exit"} : ServerGoTo(pc)
      BY <1>1, <3>2, <3>4 DEF ServerGoTo
    <3> QED
      BY <1>5, <3>3, <3>4 DEF ServerPoll
  <2> QED
    BY <1>1, <1>2, <2>1, ServerMovesOn
<1>6. CASE ServerExit \/ ServerAbort
  <2>1. ProcessEnds
    BY <1>6 DEF ServerExit, ServerAbort
  <2>2. b' \in ServerLocals /\ b'.pc = "returned"
    BY <1>1, <2>1 DEF ProcessEnds
  <2>3. backlog' \in Seq(Slot)
    BY <2>1 DEF ProcessEnds
  <2> QED
    BY <1>1, <1>2, <2>1, <2>2, <2>3, ServerMovesOn DEF ProcessEnds
<1> QED
  BY <1>3, <1>4, <1>5, <1>6

\* The handler gives up and closes the connection.
LEMMA ClosesFields ==
  ASSUME DiscoveryInv, CloseConnection
  PROVE  /\ b' \in ServerLocals /\ b'.pc = "top"
         /\ conn' = [conn EXCEPT ![b.slot].state = "closed"]
<1>1. b \in ServerLocals
  BY Types
<1> QED
  BY <1>1 DEF CloseConnection, ServerLocals, ServerPC

\* The command has arrived, or the handler gives up.
LEMMA ServerRecvInv ==
  ASSUME DiscoveryInv, ServerRecv
  PROVE  DiscoveryInv'
<1>1. /\ b \in ServerLocals /\ clock \in 0..MaxTime /\ b.slot \in Slot
      /\ backlog \in Seq(Slot)
  BY Types DEF ServerRecv, DiscoveryInv, LocalsAreSet, Serving, TypeOK
<1>2. UNCHANGED <<clock, list, serverStop, registered, peerVars, backlog>>
  BY DEF ServerRecv
<1>3. CASE CloseConnection
  <2>1. /\ b' \in ServerLocals /\ b'.pc = "top"
        /\ conn' = [conn EXCEPT ![b.slot].state = "closed"]
    BY <1>3, ClosesFields
  <2> QED
    BY <1>1, <1>2, <2>1, ServerMovesOn DEF Serving
<1>4. CASE /\ conn[b.slot].state = "sent"
           /\ b' = [b EXCEPT !.pc = "register", !.addr = conn[b.slot].from,
                             !.now = clock]
           /\ UNCHANGED conn
  <2>1. conn[b.slot].from \in Peer
    BY <1>1, <1>4 DEF DiscoveryInv, LocalsAreSet
  <2>2. /\ b' \in ServerLocals /\ b'.pc = "register" /\ b'.slot = b.slot
        /\ b'.addr \in Peer
    BY <1>1, <1>4, <2>1 DEF ServerLocals, ServerPC
  <2>3. TypeOK'
    BY <1>2, <1>4, <2>2 DEF DiscoveryInv, TypeOK, ServerLocals, peerVars
  <2>4. LocalsAreSet'
    BY <1>1, <1>2, <1>4, <2>2 DEF DiscoveryInv, LocalsAreSet, peerVars
  <2>5. RepliesAreActive' /\ SweptForReply'
    BY <1>4, <2>2 DEF DiscoveryInv, RepliesAreActive, SweptForReply
  <2> QED
    BY <1>2, <2>3, <2>4, <2>5, SameList DEF DiscoveryInv
<1> QED
  BY <1>3, <1>4 DEF ServerRecv

\* No address is twice in l; q is l after addr has registered at time now.
NoneTwice(l) == \A i, j \in 1..Len(l) : l[i].addr = l[j].addr => i = j
Renews(q, l, addr, now) ==
  /\ q \in Seq(Entry)
  /\ \A i, j \in 1..Len(q) : q[i].addr = q[j].addr => i = j
  /\ \E i \in 1..Len(q) : q[i].addr = addr /\ q[i].last_connected = now
  /\ \A i \in 1..Len(l) :
       l[i].addr # addr => \E j \in 1..Len(q) : q[j] = l[i]

\* What registering an address does to a list that has no address twice.
LEMMA RegisteredList ==
  ASSUME NEW l \in Seq(Entry), NEW addr \in Peer, NEW now \in 0..MaxTime,
         NEW fails \in BOOLEAN, NoneTwice(l)
  PROVE  Renews(Registered(l, addr, now, fails), l, addr, now)
<1> DEFINE q == Registered(l, addr, now, fails)
           x == [addr |-> addr, last_connected |-> now, freed |-> fails]
<1>1. Len(l) \in Nat /\ \A i \in 1..Len(l) : l[i] \in Entry
  OBVIOUS
<1>2. CASE addr \in Addresses(l)
  <2>1. q = Refreshed(l, addr, now)
    BY <1>2 DEF Registered
  <2> HIDE DEF q
  <2>2. \A i \in 1..Len(l) :
          (IF l[i].addr = addr THEN [l[i] EXCEPT !.last_connected = now]
           ELSE l[i]) \in Entry
    BY <1>1 DEF Entry
  <2>3. q \in Seq(Entry) /\ Len(q) = Len(l)
    BY <1>1, <2>1, <2>2 DEF Refreshed
  <2>4. \A i \in 1..Len(l) :
          q[i] = IF l[i].addr = addr THEN [l[i] EXCEPT !.last_connected = now]
                 ELSE l[i]
    BY <2>1 DEF Refreshed
  <2>5. \A i \in 1..Len(l) :
          /\ q[i].addr = l[i].addr
          /\ l[i].addr = addr => q[i].last_connected = now
    BY <1>1, <2>4 DEF Entry
  <2>6. PICK i \in 1..Len(l) : l[i].addr = addr
    BY <1>2 DEF Addresses
  <2>7. \A k \in 1..Len(l) : l[k].addr # addr => q[k] = l[k]
    BY <2>4
  <2>8. \A k, j \in 1..Len(q) : q[k].addr = q[j].addr => k = j
    BY <2>3, <2>5 DEF NoneTwice
  <2>9. \E k \in 1..Len(q) : q[k].addr = addr /\ q[k].last_connected = now
    BY <2>3, <2>5, <2>6
  <2> QED
    BY <2>3, <2>7, <2>8, <2>9 DEF q, Renews
<1>3. CASE addr \notin Addresses(l)
  <2>1. q = <<x>> \o l
    BY <1>3 DEF Registered, Prepended
  <2>2. x \in Entry /\ x.addr = addr /\ x.last_connected = now
    BY DEF Entry
  <2> HIDE DEF x, q
  <2>3. /\ q \in Seq(Entry) /\ Len(q) = Len(l) + 1
        /\ \A k \in 1..(Len(l) + 1) : q[k] = IF k = 1 THEN x ELSE l[k - 1]
    BY <2>1, <2>2
  <2>4. \A i \in 1..Len(l) : l[i].addr # addr
    BY <1>3 DEF Addresses
  <2>5. ASSUME NEW i \in 1..Len(q), NEW j \in 1..Len(q), q[i].addr = q[j].addr
        PROVE  i = j
    <3>1. i # 1 => i - 1 \in 1..Len(l) /\ q[i] = l[i - 1]
      BY <1>1, <2>3
    <3>2. j # 1 => j - 1 \in 1..Len(l) /\ q[j] = l[j - 1]
      BY <1>1, <2>3
    <3>3. i = 1 \/ j = 1 => i = j
      BY <1>1, <2>2, <2>3, <2>4, <2>5, <3>1, <3>2
    <3>4. i # 1 /\ j # 1 => i - 1 = j - 1
      BY <2>5, <3>1, <3>2 DEF NoneTwice
    <3> QED
      BY <1>1, <2>3, <3>3, <3>4
  <2>6. \E i \in 1..Len(q) : q[i].addr = addr /\ q[i].last_connected = now
    <3>1. 1 \in 1..Len(q) /\ q[1] = x
      BY <1>1, <2>3
    <3> QED
      BY <2>2, <3>1
  <2>7. ASSUME NEW i \in 1..Len(l)
        PROVE  \E j \in 1..Len(q) : q[j] = l[i]
    <3>1. i + 1 \in 1..Len(q) /\ q[i + 1] = l[i]
      BY <1>1, <2>3
    <3> QED
      BY <3>1
  <2> QED
    BY <2>3, <2>5, <2>6, <2>7 DEF q, Renews
<1> QED
  BY <1>2, <1>3

\* A peer registers: its entry is new or renewed, the others stay.
LEMMA ServerRegisterInv ==
  ASSUME DiscoveryInv, ServerRegister
  PROVE  DiscoveryInv'
<1>1. /\ b \in ServerLocals /\ conn \in [Slot -> Connection]
      /\ list \in Seq(Entry)
      /\ registered \in [Peer -> {Never} \cup 0..MaxTime]
  BY Types
<1>2. /\ b.pc = "register" /\ b.addr \in Peer /\ b.slot \in Slot
      /\ b.now \in 0..MaxTime
      /\ UNCHANGED <<clock, serverStop, backlog, peerVars>>
      /\ registered' = [registered EXCEPT ![b.addr] = b.now]
  BY <1>1 DEF ServerRegister, ServerLocals, DiscoveryInv, LocalsAreSet, Serving
<1>3. PICK fails \in {FALSE, PrintProgress /\ NameFailures} :
        /\ list' = Registered(list, b.addr, b.now, fails)
        /\ IF fails THEN CloseConnection
           ELSE ServerGoTo("expire") /\ UNCHANGED conn
  BY DEF ServerRegister
<1>4. fails \in BOOLEAN
  BY PeerDiscoveryAssumption
<1>5. /\ list' \in Seq(Entry)
      /\ \A i, j \in 1..Len(list') : list'[i].addr = list'[j].addr => i = j
      /\ \E i \in 1..Len(list') : /\ list'[i].addr = b.addr
                                  /\ list'[i].last_connected = b.now
      /\ \A i \in 1..Len(list) : list[i].addr # b.addr
           => \E j \in 1..Len(list') : list'[j] = list[i]
  <2>1. NoneTwice(list)
    BY DEF DiscoveryInv, EntriesDiffer, NoneTwice
  <2>2. list' = Registered(list, b.addr, b.now, fails)
    BY <1>3
  <2>3. Renews(Registered(list, b.addr, b.now, fails), list, b.addr, b.now)
    BY <1>1, <1>2, <1>4, <2>1, RegisteredList, Zenon
  <2> QED
    BY <2>2, <2>3, Zenon DEF Renews
<1>6. /\ b' \in ServerLocals /\ b'.pc \in {"expire", "top"}
      /\ b'.pc \in Serving => b'.slot \in Slot
      /\ conn' = conn \/ conn' = [conn EXCEPT ![b.slot].state = "closed"]
  <2>1. CASE CloseConnection
    BY <2>1, ClosesFields DEF Serving
  <2>2. CASE ServerGoTo("expire") /\ UNCHANGED conn
    BY <1>1, <1>2, <2>2 DEF ServerGoTo, ServerLocals, ServerPC
  <2> QED
    BY <1>3, <2>1, <2>2
<1>7. /\ conn' \in [Slot -> Connection]
      /\ \A i \in Slot : conn'[i] = conn[i] \/ conn'[i].state = "closed"
  <2>1. \A x \in Connection : /\ [x EXCEPT !.state = "closed"] \in Connection
                              /\ [x EXCEPT !.state = "closed"].state = "closed"
    BY ClosedConnection DEF Over
  <2>2. CASE conn' = [conn EXCEPT ![b.slot].state = "closed"]
    BY <1>1, <2>1, <2>2
  <2> QED
    BY <1>1, <1>6, <2>2
<1>8. /\ registered' \in [Peer -> {Never} \cup 0..MaxTime]
      /\ registered'[b.addr] = b.now
      /\ \A c \in Peer : c # b.addr => registered'[c] = registered[c]
  BY <1>1, <1>2
<1>9. TypeOK'
  BY <1>2, <1>5, <1>6, <1>7, <1>8
  DEF DiscoveryInv, TypeOK, ServerLocals, Connection, peerVars
<1>10. LocalsAreSet'
  BY <1>2, <1>6, <1>7 DEF DiscoveryInv, LocalsAreSet, peerVars
<1>11. EntriesDiffer'
  BY <1>5 DEF EntriesDiffer
<1>12. EntriesAreCurrent'
  <2> SUFFICES ASSUME NEW c \in Peer, registered'[c] # Never,
                      clock - registered'[c] <= Keepalive
               PROVE  \E i \in 1..Len(list') :
                        /\ list'[i].addr = c
                        /\ list'[i].last_connected = registered'[c]
    BY <1>2 DEF EntriesAreCurrent
  <2>1. CASE c = b.addr
    BY <1>5, <1>8, <2>1
  <2>2. CASE c # b.addr
    <3>1. PICK i \in 1..Len(list) : /\ list[i].addr = c
                                    /\ list[i].last_connected = registered[c]
      BY <1>8, <2>2 DEF DiscoveryInv, EntriesAreCurrent
    <3>2. PICK j \in 1..Len(list') : list'[j] = list[i]
      BY <1>5, <2>2, <3>1
    <3> QED
      BY <1>8, <2>2, <3>1, <3>2
  <2> QED
    BY <2>1, <2>2
<1>13. RepliesAreActive' /\ SweptForReply'
  BY <1>6, <1>7 DEF DiscoveryInv, RepliesAreActive, SweptForReply
<1> QED
  BY <1>9, <1>10, <1>11, <1>12, <1>13 DEF DiscoveryInv

\* The expired entries are removed, all or up to one whose lookup fails.
LEMMA ServerExpireInv ==
  ASSUME DiscoveryInv, ServerExpire
  PROVE  DiscoveryInv'
<1>1. /\ b \in ServerLocals /\ conn \in [Slot -> Connection]
      /\ list \in Seq(Entry) /\ clock \in 0..MaxTime /\ clock \in Nat
      /\ \A i \in 1..Len(list) : list[i].last_connected \in Nat
  BY Types
<1>2. /\ b.pc = "expire" /\ b.slot \in Slot
      /\ UNCHANGED <<clock, serverStop, registered, backlog, peerVars>>
  BY DEF ServerExpire, DiscoveryInv, LocalsAreSet, Serving
<1>3. PICK n \in Nat :
        /\ list' = ExpireFirst(list, n)
        /\ \/ /\ n = Len(list) /\ UNCHANGED conn
              /\ b' = [b EXCEPT !.pc = "reply", !.now = clock]
           \/ CloseConnection
  <2>1. Len(list) \in Nat /\ \A i \in 1..Len(list) : i \in Nat
    BY <1>1
  <2> QED
    BY <2>1 DEF ServerExpire
<1> DEFINE K == Kept(list, n)
<1>4. list' = ExpireFirst(list, n)
  BY <1>3
<1>5. list' \in Seq(Entry)
  BY <1>1, <1>4, WhatIsKept
<1>6. PICK at \in [1..Len(list') -> K] :
         /\ \A k \in 1..Len(list') : list'[k] = list[at[k]]
         /\ \A j, k \in 1..Len(list') : at[j] = at[k] => j = k
         /\ \A i \in K : \E k \in 1..Len(list') : at[k] = i
  BY <1>1, <1>4, WhatIsKept
<1>7. K \subseteq 1..Len(list)
  BY DEF Kept
<1>8. \A i \in 1..Len(list) : clock - list[i].last_connected <= Keepalive
                                => i \in K
  BY <1>1, PeerDiscoveryAssumption DEF Kept, Expired
<1>9. n = Len(list) => \A i \in K : clock - list[i].last_connected <= Keepalive
  BY <1>1, PeerDiscoveryAssumption DEF Kept, Expired
<1> HIDE DEF K
<1>10. /\ b' \in ServerLocals /\ b'.pc \in {"reply", "top"}
       /\ b'.pc \in Serving => b'.slot \in Slot
       /\ b'.pc = "reply" => n = Len(list) /\ b'.now = clock
       /\ conn' = conn \/ conn' = [conn EXCEPT ![b.slot].state = "closed"]
  <2>1. CASE CloseConnection
    BY <2>1, ClosesFields DEF Serving
  <2>2. CASE /\ n = Len(list) /\ UNCHANGED conn
             /\ b' = [b EXCEPT !.pc = "reply", !.now = clock]
    BY <1>1, <1>2, <2>2 DEF ServerLocals, ServerPC
  <2> QED
    BY <1>3, <2>1, <2>2
<1>11. /\ conn' \in [Slot -> Connection]
       /\ \A i \in Slot : conn'[i] = conn[i] \/ conn'[i].state = "closed"
  <2>1. \A x \in Connection : /\ [x EXCEPT !.state = "closed"] \in Connection
                              /\ [x EXCEPT !.state = "closed"].state = "closed"
    BY ClosedConnection DEF Over
  <2>2. CASE conn' = [conn EXCEPT ![b.slot].state = "closed"]
    BY <1>1, <2>1, <2>2
  <2> QED
    BY <1>1, <1>10, <2>2
<1>12. TypeOK'
  BY <1>2, <1>5, <1>10, <1>11
  DEF DiscoveryInv, TypeOK, ServerLocals, Connection, peerVars
<1>13. LocalsAreSet'
  BY <1>2, <1>10, <1>11 DEF DiscoveryInv, LocalsAreSet, peerVars
<1>14. EntriesDiffer'
  <2> SUFFICES ASSUME NEW i \in 1..Len(list'), NEW j \in 1..Len(list'),
                      list'[i].addr = list'[j].addr
               PROVE  i = j
    BY DEF EntriesDiffer
  <2>1. at[i] \in 1..Len(list) /\ at[j] \in 1..Len(list)
    BY <1>6, <1>7
  <2>2. at[i] = at[j]
    BY <1>6, <2>1 DEF DiscoveryInv, EntriesDiffer
  <2> QED
    BY <1>6, <2>2
<1>15. EntriesAreCurrent'
  <2> SUFFICES ASSUME NEW c \in Peer, registered[c] # Never,
                      clock - registered[c] <= Keepalive
               PROVE  \E k \in 1..Len(list') :
                        /\ list'[k].addr = c
                        /\ list'[k].last_connected = registered[c]
    BY <1>2 DEF EntriesAreCurrent
  <2>1. PICK i \in 1..Len(list) : /\ list[i].addr = c
                                  /\ list[i].last_connected = registered[c]
    BY DEF DiscoveryInv, EntriesAreCurrent
  <2>2. PICK k \in 1..Len(list') : at[k] = i
    BY <1>6, <1>8, <2>1
  <2> QED
    BY <1>6, <2>1, <2>2
<1>16. SweptForReply'
  <2> SUFFICES ASSUME b'.pc = "reply", NEW k \in 1..Len(list')
               PROVE  b'.now - list'[k].last_connected <= Keepalive
    BY DEF SweptForReply
  <2>1. at[k] \in K
    BY <1>6
  <2> QED
    BY <1>6, <1>9, <1>10, <2>1
<1>17. RepliesAreActive'
  BY <1>11 DEF DiscoveryInv, RepliesAreActive
<1> QED
  BY <1>12, <1>13, <1>14, <1>15, <1>16, <1>17 DEF DiscoveryInv

\* The list is sent, and the connection is closed on this side.
LEMMA ServerReplyInv ==
  ASSUME DiscoveryInv, ServerReply
  PROVE  DiscoveryInv'
<1>1. /\ b \in ServerLocals /\ conn \in [Slot -> Connection]
      /\ list \in Seq(Entry) /\ b.now \in 0..MaxTime
  BY Types DEF ServerLocals
<1>2. /\ b.pc = "reply" /\ b.slot \in Slot
      /\ UNCHANGED <<clock, list, serverStop, registered, backlog, peerVars>>
  BY DEF ServerReply, DiscoveryInv, LocalsAreSet, Serving
<1>3. CASE CloseConnection
  <2>1. /\ b' \in ServerLocals /\ b'.pc = "top"
        /\ conn' = [conn EXCEPT ![b.slot].state = "closed"]
    BY <1>3, ClosesFields
  <2>2. backlog' \in Seq(Slot)
    BY <1>2 DEF DiscoveryInv, TypeOK
  <2> QED
    BY <1>2, <2>1, <2>2, ServerMovesOn DEF Serving
<1>4. CASE /\ conn' = [conn EXCEPT ![b.slot].state = "replied",
                                   ![b.slot].list = list, ![b.slot].at = b.now]
           /\ b' = [b EXCEPT !.pc = "top", !.slot = None, !.addr = None]
  <2>1. b' \in ServerLocals /\ b'.pc = "top"
    BY <1>1, <1>4 DEF ServerLocals, ServerPC
  <2>2. /\ conn'[b.slot] = [conn[b.slot] EXCEPT !.state = "replied",
                                                !.list = list, !.at = b.now]
        /\ \A i \in Slot : i # b.slot => conn'[i] = conn[i]
        /\ conn' = [conn EXCEPT ![b.slot] = conn'[b.slot]]
    BY <1>1, <1>2, <1>4
  <2>3. /\ conn'[b.slot] \in Connection /\ conn'[b.slot].state = "replied"
        /\ conn'[b.slot].list = list /\ conn'[b.slot].at = b.now
    <3>1. conn[b.slot] \in Connection /\ "replied" \in ConnState
      BY <1>1, <1>2 DEF ConnState
    <3> QED
      BY <1>1, <2>2, <3>1 DEF Connection
  <2>4. conn' \in [Slot -> Connection]
    BY <1>1, <2>2, <2>3
  <2>5. TypeOK'
    BY <1>2, <2>1, <2>4
    DEF DiscoveryInv, TypeOK, ServerLocals, Connection, peerVars
  <2>6. LocalsAreSet'
    BY <1>2, <2>1, <2>2, <2>3
    DEF DiscoveryInv, LocalsAreSet, peerVars, Serving
  <2>7. RepliesAreActive'
    <3>1. \A j \in 1..Len(list) : b.now - list[j].last_connected <= Keepalive
      BY <1>2 DEF DiscoveryInv, SweptForReply
    <3> QED
      BY <2>2, <2>3, <3>1 DEF DiscoveryInv, RepliesAreActive
  <2> QED
    BY <1>2, <2>1, <2>5, <2>6, <2>7, SameList DEF DiscoveryInv, SweptForReply
<1> QED
  BY <1>3, <1>4 DEF ServerReply

\* A step that leaves the server, the connections and the time alone.
LEMMA PeerMovesOn ==
  ASSUME DiscoveryInv, UNCHANGED <<clock, serverVars, netVars>>,
         NEW c \in Peer, NEW x \in PeerLocals, p' = [p EXCEPT ![c] = x],
         x.pc \in Connected => x.slot \in Slot,
         x.pc \in SocketIsOpen => fds'[c] > 0,
         fds' \in [Peer -> 0..MaxFds],
         \A d \in Peer : d # c => fds'[d] = fds[d],
         peerStop' \subseteq Peer, peers' = peers
  PROVE  DiscoveryInv'
<1>1. /\ p \in [Peer -> PeerLocals] /\ peers \in [Peer -> SUBSET Peer]
  BY Types DEF DiscoveryInv, TypeOK
<1>2. /\ p' \in [Peer -> PeerLocals] /\ p'[c] = x
      /\ \A d \in Peer : d # c => p'[d] = p[d]
  BY <1>1
<1>3. UNCHANGED <<clock, list, b, serverStop, registered, backlog, conn>>
  BY DEF serverVars, netVars
<1>4. TypeOK'
  BY <1>1, <1>2, <1>3 DEF DiscoveryInv, TypeOK, PeerLocals
<1>5. LocalsAreSet'
  BY <1>2, <1>3 DEF DiscoveryInv, LocalsAreSet
<1>6. RepliesAreActive' /\ SweptForReply'
  BY <1>3 DEF DiscoveryInv, RepliesAreActive, SweptForReply
<1> QED
  BY <1>3, <1>4, <1>5, <1>6, SameList DEF DiscoveryInv

\* What PeerGoTo and FailOnce assign.
LEMMA PeerPlaces ==
  ASSUME NEW c \in Peer, p \in [Peer -> PeerLocals]
  PROVE  /\ p[c] \in PeerLocals
         /\ \A pc \in PeerPC : /\ [p[c] EXCEPT !.pc = pc] \in PeerLocals
                               /\ [p[c] EXCEPT !.pc = pc].pc = pc
                               /\ [p[c] EXCEPT !.pc = pc].slot = p[c].slot
                               /\ PeerGoTo(c, pc) => p' =
                                    [p EXCEPT ![c] = [p[c] EXCEPT !.pc = pc]]
         /\ [pc |-> "sleep", slot |-> None] \in PeerLocals
<1>1. p[c] \in PeerLocals
  OBVIOUS
<1>2. \A pc \in PeerPC : /\ [p[c] EXCEPT !.pc = pc] \in PeerLocals
                         /\ [p[c] EXCEPT !.pc = pc].pc = pc
                         /\ [p[c] EXCEPT !.pc = pc].slot = p[c].slot
  BY <1>1 DEF PeerLocals
<1>3. \A pc \in PeerPC : PeerGoTo(c, pc)
                         => p' = [p EXCEPT ![c] = [p[c] EXCEPT !.pc = pc]]
  BY Zenon DEF PeerGoTo
<1>4. [pc |-> "sleep", slot |-> None] \in PeerLocals
  BY DEF PeerLocals, PeerPC
<1> QED
  BY <1>1, <1>2, <1>3, <1>4

\* The steps of a peer that has no connection, or leaves its own as it is.
LEMMA PeerWaitsInv ==
  ASSUME DiscoveryInv, NEW c \in Peer,
         \/ PeerTop(c) \/ PeerSocket(c) \/ PeerSleep(c) \/ PeerExit(c)
  PROVE  DiscoveryInv'
<1> DEFINE At(pc) == [p[c] EXCEPT !.pc = pc]
           asleep == [pc |-> "sleep", slot |-> None]
<1>1. /\ p \in [Peer -> PeerLocals] /\ fds \in [Peer -> 0..MaxFds]
      /\ peerStop \subseteq Peer
  BY Types DEF DiscoveryInv, TypeOK
<1>2. /\ UNCHANGED <<clock, serverVars, netVars>>
      /\ peerStop' = peerStop /\ peers' = peers
  BY DEF PeerTop, PeerSocket, PeerSleep, PeerExit
<1>3. /\ \A pc \in PeerPC : /\ At(pc) \in PeerLocals /\ At(pc).pc = pc
                            /\ At(pc).slot = p[c].slot
                            /\ PeerGoTo(c, pc) => p' = [p EXCEPT ![c] = At(pc)]
      /\ asleep \in PeerLocals /\ asleep.pc = "sleep"
      /\ FailOnce(c) => p' = [p EXCEPT ![c] = asleep]
  BY <1>1, PeerPlaces DEF FailOnce
<1> HIDE DEF At, asleep
<1>4. PICK x \in PeerLocals :
        /\ p' = [p EXCEPT ![c] = x]
        /\ x.pc \notin Connected
        /\ x.pc \in SocketIsOpen => fds[c] < MaxFds /\ fds'[c] = fds[c] + 1
        /\ fds' \in [Peer -> 0..MaxFds]
        /\ \A d \in Peer : d # c => fds'[d] = fds[d]
  <2> USE DEF Connected, SocketIsOpen
  <2>1. CASE PeerTop(c)
    <3>1. PICK pc \in {"exit", "socket"} : PeerGoTo(c, pc)
      BY <2>1 DEF PeerTop
    <3>2. pc \in PeerPC
      BY DEF PeerPC
    <3> QED
      BY <1>1, <1>3, <2>1, <3>1, <3>2 DEF PeerTop
  <2>2. CASE PeerSocket(c) /\ fds' = [fds EXCEPT ![c] = @ + 1]
             /\ fds[c] < MaxFds /\ PeerGoTo(c, "connect")
    <3>1. "connect" \in PeerPC
      BY DEF PeerPC
    <3>2. fds[c] + 1 \in 0..MaxFds
      BY <1>1, <2>2, PeerDiscoveryAssumption
    <3> QED
      BY <1>1, <1>3, <2>2, <3>1, <3>2
  <2>3. CASE PeerSocket(c) /\ FailOnce(c) /\ UNCHANGED fds
    BY <1>1, <1>3, <2>3
  <2>4. CASE PeerSleep(c)
    <3>1. "top" \in PeerPC /\ PeerGoTo(c, "top") /\ fds' = fds
      BY <2>4 DEF PeerPC, PeerSleep
    <3> QED
      BY <1>1, <1>3, <3>1
  <2>5. CASE PeerExit(c)
    <3>1. "returned" \in PeerPC /\ PeerGoTo(c, "returned") /\ fds' = fds
      BY <2>5 DEF PeerPC, PeerExit
    <3> QED
      BY <1>1, <1>3, <3>1
  <2> QED
    BY <2>1, <2>2, <2>3, <2>4, <2>5 DEF PeerSocket
<1>5. x.pc \in SocketIsOpen => fds'[c] > 0
  BY <1>1, <1>4
<1> QED
  BY <1>1, <1>2, <1>4, <1>5, PeerMovesOn

\* What happens to one connection, and to nothing else of the server's.
LEMMA ConnectionMovesOn ==
  ASSUME DiscoveryInv, UNCHANGED <<clock, serverVars, peerStop>>,
         NEW c \in Peer, NEW x \in PeerLocals, p' = [p EXCEPT ![c] = x],
         x.pc \in Connected => x.slot \in Slot,
         x.pc \in SocketIsOpen => fds'[c] > 0,
         fds' \in [Peer -> 0..MaxFds],
         \A d \in Peer : d # c => fds'[d] = fds[d],
         peers' \in [Peer -> SUBSET Peer], backlog' \in Seq(Slot),
         NEW i \in Slot, NEW y \in Connection, conn' = [conn EXCEPT ![i] = y],
         y.state \in {"open", "sent"} => y.from \in Peer,
         y.state # "replied"
  PROVE  DiscoveryInv'
<1>1. p \in [Peer -> PeerLocals] /\ conn \in [Slot -> Connection]
  BY Types
<1>2. /\ p' \in [Peer -> PeerLocals] /\ p'[c] = x
      /\ \A d \in Peer : d # c => p'[d] = p[d]
  BY <1>1
<1>3. /\ conn' \in [Slot -> Connection] /\ conn'[i] = y
      /\ \A j \in Slot : j # i => conn'[j] = conn[j]
  BY <1>1
<1>4. UNCHANGED <<clock, list, b, serverStop, registered, peerStop>>
  BY DEF serverVars
<1>5. TypeOK'
  BY <1>2, <1>3, <1>4 DEF DiscoveryInv, TypeOK, PeerLocals, Connection
<1>6. LocalsAreSet'
  BY <1>2, <1>3, <1>4 DEF DiscoveryInv, LocalsAreSet
<1>7. RepliesAreActive'
  BY <1>3 DEF DiscoveryInv, RepliesAreActive
<1> QED
  BY <1>4, <1>5, <1>6, <1>7, SameList DEF DiscoveryInv, SweptForReply

\* A peer connects, or does not.
LEMMA PeerConnectInv ==
  ASSUME DiscoveryInv, NEW c \in Peer, PeerConnect(c)
  PROVE  DiscoveryInv'
<1> DEFINE asleep == [pc |-> "sleep", slot |-> None]
<1>1. /\ p \in [Peer -> PeerLocals] /\ fds \in [Peer -> 0..MaxFds]
      /\ peerStop \subseteq Peer /\ conn \in [Slot -> Connection]
      /\ peers \in [Peer -> SUBSET Peer] /\ backlog \in Seq(Slot)
  BY Types DEF DiscoveryInv, TypeOK
<1>2. /\ UNCHANGED <<clock, serverVars, peers, fds, peerStop>>
      /\ p[c].pc = "connect"
  BY DEF PeerConnect
<1>3. fds'[c] > 0
  BY <1>2 DEF DiscoveryInv, LocalsAreSet, SocketIsOpen
<1>4. ASSUME NEW i \in Slot, conn[i] = Unused,
             conn' = [conn EXCEPT ![i].state = "open", ![i].from = c],
             backlog' = Append(backlog, i),
             p' = [p EXCEPT ![c] = [pc |-> "send", slot |-> i]]
      PROVE  DiscoveryInv'
  <2> DEFINE x == [pc |-> "send", slot |-> i]
             y == [Unused EXCEPT !.state = "open", !.from = c]
  <2>1. x \in PeerLocals /\ x.slot \in Slot
    BY DEF PeerLocals, PeerPC
  <2>2. y \in Connection /\ y.state = "open" /\ y.from \in Peer
    <3>1. <<>> \in Seq(Entry) /\ 0 \in 0..MaxTime
      BY PeerDiscoveryAssumption
    <3> QED
      BY <3>1 DEF Connection, Unused, ConnState
  <2>3. conn' = [conn EXCEPT ![i] = y]
    BY <1>1, <1>4
  <2>4. p' = [p EXCEPT ![c] = x]
    BY <1>4
  <2>5. backlog' \in Seq(Slot)
    BY <1>1, <1>4
  <2> HIDE DEF x, y
  <2> QED
    BY <1>1, <1>2, <1>3, <2>1, <2>2, <2>3, <2>4, <2>5, ConnectionMovesOn
<1>5. CASE FailOnce(c) /\ UNCHANGED netVars
  <2>1. /\ p' = [p EXCEPT ![c] = asleep] /\ asleep \in PeerLocals
        /\ asleep.pc \notin Connected /\ asleep.pc \notin SocketIsOpen
    BY <1>1, <1>5, PeerPlaces DEF FailOnce, Connected, SocketIsOpen
  <2> HIDE DEF asleep
  <2> QED
    BY <1>1, <1>2, <1>5, <2>1, PeerMovesOn
<1> QED
  BY <1>4, <1>5 DEF PeerConnect

\* A peer sends its command, or gives up.
LEMMA PeerSendInv ==
  ASSUME DiscoveryInv, NEW c \in Peer, PeerSend(c)
  PROVE  DiscoveryInv'
<1> DEFINE asleep == [pc |-> "sleep", slot |-> None]
           x == [p[c] EXCEPT !.pc = "recv"]
           s == p[c].slot
<1>1. /\ p \in [Peer -> PeerLocals] /\ fds \in [Peer -> 0..MaxFds]
      /\ peerStop \subseteq Peer /\ conn \in [Slot -> Connection]
      /\ peers \in [Peer -> SUBSET Peer] /\ backlog \in Seq(Slot)
  BY Types DEF DiscoveryInv, TypeOK
<1>2. /\ UNCHANGED <<clock, serverVars, peers, fds, peerStop, backlog>>
      /\ p[c].pc = "send"
  BY DEF PeerSend
<1>3. fds'[c] > 0 /\ s \in Slot
  BY <1>2 DEF DiscoveryInv, LocalsAreSet, SocketIsOpen, Connected
<1>4. /\ x \in PeerLocals /\ x.slot \in Slot
      /\ PeerGoTo(c, "recv") => p' = [p EXCEPT ![c] = x]
      /\ asleep \in PeerLocals /\ asleep.pc = "sleep"
      /\ FailOnce(c) => p' = [p EXCEPT ![c] = asleep]
  <2>1. "recv" \in PeerPC
    BY DEF PeerPC
  <2> QED
    BY <1>1, <1>3, <2>1, PeerPlaces DEF FailOnce
<1>5. ASSUME NEW state \in {"sent", "closed", "reset"},
             state = "sent" => conn[s].state = "open",
             conn' = [conn EXCEPT ![s].state = state],
             PeerGoTo(c, "recv")
      PROVE  DiscoveryInv'
  <2> DEFINE y == [conn[s] EXCEPT !.state = state]
  <2>1. /\ y \in Connection /\ y.state = state /\ y.from = conn[s].from
    <3>1. conn[s] \in Connection
      BY <1>1, <1>3
    <3> QED
      BY <3>1 DEF Connection, ConnState
  <2>2. y.state \in {"open", "sent"} => y.from \in Peer
    BY <1>3, <1>5, <2>1 DEF DiscoveryInv, LocalsAreSet
  <2>3. conn' = [conn EXCEPT ![s] = y]
    BY <1>1, <1>3, <1>5
  <2>4. y.state # "replied"
    BY <2>1
  <2> HIDE DEF x, y, s
  <2> QED
    BY <1>1, <1>2, <1>3, <1>4, <1>5, <2>1, <2>2, <2>3, <2>4, ConnectionMovesOn
<1>6. CASE FailOnce(c) /\ UNCHANGED conn
  <2>1. asleep.pc \notin Connected /\ asleep.pc \notin SocketIsOpen
    BY <1>4 DEF Connected, SocketIsOpen
  <2> HIDE DEF asleep
  <2> QED
    BY <1>1, <1>2, <1>4, <1>6, <2>1, PeerMovesOn DEF netVars
<1> QED
  BY <1>5, <1>6 DEF PeerSend

\* A peer takes the reply, or spins, or gives up.
LEMMA PeerRecvInv ==
  ASSUME DiscoveryInv, NEW c \in Peer, PeerRecv(c)
  PROVE  DiscoveryInv'
<1> DEFINE asleep == [pc |-> "sleep", slot |-> None]
           x == [p[c] EXCEPT !.pc = "spin"]
           s == p[c].slot
<1>1. /\ p \in [Peer -> PeerLocals] /\ fds \in [Peer -> 0..MaxFds]
      /\ peerStop \subseteq Peer /\ conn \in [Slot -> Connection]
      /\ peers \in [Peer -> SUBSET Peer] /\ backlog \in Seq(Slot)
  BY Types DEF DiscoveryInv, TypeOK
<1>2. /\ UNCHANGED <<clock, serverVars, peerStop, backlog>>
      /\ p[c].pc = "recv"
  BY DEF PeerRecv
<1>3. fds[c] > 0 /\ s \in Slot
  BY <1>2 DEF DiscoveryInv, LocalsAreSet, SocketIsOpen, Connected
<1>4. /\ x \in PeerLocals /\ x.slot \in Slot
      /\ PeerGoTo(c, "spin") => p' = [p EXCEPT ![c] = x]
      /\ asleep \in PeerLocals /\ asleep.pc = "sleep"
      /\ FailOnce(c) => p' = [p EXCEPT ![c] = asleep]
  <2>1. "spin" \in PeerPC
    BY DEF PeerPC
  <2> QED
    BY <1>1, <1>3, <2>1, PeerPlaces DEF FailOnce
<1>5. asleep.pc \notin Connected /\ asleep.pc \notin SocketIsOpen
  BY <1>4 DEF Connected, SocketIsOpen
<1>6. CASE /\ peers' = [peers EXCEPT ![c] = Addresses(conn[s].list)]
           /\ CloseSocket(c)
           /\ conn' = [conn EXCEPT ![s] = Unused]
           /\ p' = [p EXCEPT ![c] = asleep]
  <2>1. Unused \in Connection /\ Unused.state = "unused"
    <3>1. <<>> \in Seq(Entry) /\ 0 \in 0..MaxTime
      BY PeerDiscoveryAssumption
    <3> QED
      BY <3>1 DEF Connection, Unused, ConnState
  <2>2. /\ fds' \in [Peer -> 0..MaxFds]
        /\ \A d \in Peer : d # c => fds'[d] = fds[d]
    <3>1. fds[c] - 1 \in 0..MaxFds
      BY <1>1, <1>3, PeerDiscoveryAssumption
    <3> QED
      BY <1>1, <1>6, <3>1 DEF CloseSocket
  <2>3. peers' \in [Peer -> SUBSET Peer]
    <3> DEFINE l == conn[s].list
    <3>1. l \in Seq(Entry)
      BY <1>1, <1>3 DEF Connection
    <3> HIDE DEF l
    <3>2. \A j \in 1..Len(l) : l[j] \in Entry
      BY <3>1
    <3>3. Addresses(l) \in SUBSET Peer
      BY <3>2 DEF Addresses, Entry
    <3> QED
      BY <1>1, <1>6, <3>3 DEF l
  <2> HIDE DEF asleep, s
  <2> QED
    BY <1>1, <1>2, <1>3, <1>4, <1>5, <1>6, <2>1, <2>2, <2>3, ConnectionMovesOn
<1>7. CASE PeerGoTo(c, "spin") /\ UNCHANGED <<conn, peers, fds>>
  <2> HIDE DEF x, s
  <2> QED
    BY <1>1, <1>2, <1>3, <1>4, <1>7, PeerMovesOn DEF netVars
<1>8. CASE FailOnce(c) /\ UNCHANGED <<conn, peers, fds>>
  <2> HIDE DEF asleep
  <2> QED
    BY <1>1, <1>2, <1>4, <1>5, <1>8, PeerMovesOn DEF netVars
<1> QED
  BY <1>6, <1>7, <1>8 DEF PeerRecv

\* Nothing but the requests to stop changes.
LEMMA StopInv ==
  ASSUME DiscoveryInv,
         \/ RequestServerStop \/ UNCHANGED vars
         \/ \E c \in Peer : RequestPeerStop(c)
  PROVE  DiscoveryInv'
<1>1. /\ UNCHANGED <<clock, list, b, registered, backlog, conn, p, peers, fds>>
      /\ peerStop' \subseteq Peer
  BY DEF DiscoveryInv, TypeOK, RequestServerStop, RequestPeerStop, vars,
         serverVars, netVars, peerVars
<1>2. serverStop' \in BOOLEAN
  BY Zenon DEF DiscoveryInv, TypeOK, RequestServerStop, RequestPeerStop, vars,
               serverVars
<1>3. TypeOK'
  BY <1>1, <1>2, Zenon DEF DiscoveryInv, TypeOK
<1>4. LocalsAreSet' /\ RepliesAreActive' /\ SweptForReply'
  BY <1>1 DEF DiscoveryInv, LocalsAreSet, RepliesAreActive, SweptForReply
<1> QED
  BY <1>1, <1>3, <1>4, SameList DEF DiscoveryInv

\* Time passes: fewer registrations are recent.
LEMMA TickInv ==
  ASSUME DiscoveryInv, Tick
  PROVE  DiscoveryInv'
<1>1. /\ clock \in 0..MaxTime /\ clock' = clock + 1 /\ clock' \in 0..MaxTime
      /\ registered \in [Peer -> {Never} \cup 0..MaxTime]
      /\ UNCHANGED <<list, b, serverStop, registered, backlog, conn, p, peers,
                     fds, peerStop>>
  BY Types, PeerDiscoveryAssumption DEF Tick, serverVars, netVars, peerVars
<1>2. TypeOK'
  BY <1>1, Zenon DEF DiscoveryInv, TypeOK
<1>3. /\ LocalsAreSet' /\ RepliesAreActive' /\ SweptForReply' /\ EntriesDiffer'
  BY <1>1 DEF DiscoveryInv, LocalsAreSet, RepliesAreActive, SweptForReply,
              EntriesDiffer
<1>4. EntriesAreCurrent'
  <2>1. \A c \in Peer :
          registered[c] # Never /\ clock + 1 - registered[c] <= Keepalive
            => clock - registered[c] <= Keepalive
    BY <1>1, PeerDiscoveryAssumption
  <2> QED
    BY <1>1, <2>1 DEF DiscoveryInv, EntriesAreCurrent
<1> QED
  BY <1>2, <1>3, <1>4 DEF DiscoveryInv

\* Every step keeps the invariant.
LEMMA NextInv ==
  ASSUME DiscoveryInv, [Next]_vars
  PROVE  DiscoveryInv'
<1>1. CASE Tick
  BY <1>1, TickInv
<1>2. CASE ServerNext
  BY <1>2, ServerWaitsInv, ServerRecvInv, ServerRegisterInv, ServerExpireInv,
     ServerReplyInv DEF ServerNext
<1>3. CASE RequestServerStop \/ UNCHANGED vars
  BY <1>3, StopInv
<1>4. ASSUME NEW c \in Peer, PeerNext(c) \/ RequestPeerStop(c)
      PROVE  DiscoveryInv'
  <2>1. CASE RequestPeerStop(c)
    BY <2>1, StopInv
  <2>2. CASE PeerNext(c)
    BY <2>2, PeerWaitsInv, PeerConnectInv, PeerSendInv, PeerRecvInv
    DEF PeerNext
  <2> QED
    BY <1>4, <2>1, <2>2
<1> QED
  BY <1>1, <1>2, <1>3, <1>4 DEF Next

\* The invariant holds in every reachable state.
LEMMA InvHolds == Spec => []DiscoveryInv
<1>1. DiscoveryInv /\ [Next]_vars => DiscoveryInv'
  BY NextInv
<1> QED
  BY <1>1, InitInv, PTL DEF Spec

-----------------------------------------------------------------------------
(***************************************************************************)
(* Type correctness: discover_peers_once never closes a descriptor it does *)
(* not have, never opens more than the process may, and the lists on both  *)
(* sides hold addresses of peers only.                                     *)
(***************************************************************************)
THEOREM TypeCorrect == Spec => []TypeOK
<1>1. DiscoveryInv => TypeOK
  BY DEF DiscoveryInv
<1> QED
  BY <1>1, InvHolds, PTL

(***************************************************************************)
(* handle_one_peer_discovery_request never lists an address twice, however *)
(* many peers register and expire, and wherever a name lookup fails.       *)
(***************************************************************************)
THEOREM AddressesAreListedOnce == Spec => []ListedOnce
<1>1. DiscoveryInv => ListedOnce
  <2> SUFFICES ASSUME DiscoveryInv
               PROVE  Cardinality(Addresses(list)) = Len(list)
    BY DEF ListedOnce
  <2>1. /\ Len(list) \in Nat
        /\ \A i, j \in 1..Len(list) : list[i].addr = list[j].addr => i = j
    BY Types DEF DiscoveryInv, EntriesDiffer
  <2> DEFINE f == [i \in 1..Len(list) |-> list[i].addr]
  <2>2. f \in Bijection(1..Len(list), Addresses(list))
    BY <2>1 DEF Addresses, Bijection, Injection, Surjection, IsInjective
  <2>3. IsFiniteSet(1..Len(list)) /\ Cardinality(1..Len(list)) = Len(list)
    <3>1. 1 \in Int /\ Len(list) \in Int /\ Len(list) >= 0
      BY <2>1
    <3>2. /\ IsFiniteSet(1..Len(list))
          /\ Cardinality(1..Len(list))
               = IF 1 > Len(list) THEN 0 ELSE Len(list) - 1 + 1
      BY <3>1, FS_Interval
    <3> QED
      BY <3>1, <3>2
  <2>4. ExistsBijection(1..Len(list), Addresses(list))
    BY <2>2 DEF ExistsBijection
  <2> QED
    BY <2>3, <2>4, FS_Bijection
<1> QED
  BY <1>1, InvHolds, PTL

(***************************************************************************)
(* The expiry loop of handle_one_peer_discovery_request removes nobody who *)
(* has registered within the keepalive interval.                           *)
(***************************************************************************)
THEOREM ActivePeersStayListed == Spec => []ActivePeersAreListed
<1>1. DiscoveryInv => ActivePeersAreListed
  BY DEF DiscoveryInv, EntriesAreCurrent, ActivePeersAreListed, Addresses
<1> QED
  BY <1>1, InvHolds, PTL

(***************************************************************************)
(* The list that handle_one_peer_discovery_request sends has been swept:   *)
(* every entry was within the keepalive interval then.                     *)
(***************************************************************************)
THEOREM RepliesListActivePeers == Spec => []RepliesAreActive
<1>1. DiscoveryInv => RepliesAreActive
  BY DEF DiscoveryInv
<1> QED
  BY <1>1, InvHolds, PTL
=============================================================================
