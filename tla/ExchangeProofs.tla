--------------------------- MODULE ExchangeProofs ---------------------------
(***************************************************************************)
(* Proofs about Exchange: however recv and send cut the bytes up, and      *)
(* wherever the exchange is broken off, the server registers the address   *)
(* that was sent and the client takes over the server's list or nothing.   *)
(*                                                                         *)
(* Both directions are streams: what one end has received, what is under   *)
(* way and what the other end has still to send is the message, unless the *)
(* connection was reset, and a beginning of it even then.                  *)
(***************************************************************************)
EXTENDS Exchange, CommandsProofs

Registration == command_register_peer_serialize(Self)

\* The lists that fit in memory, with what is sent of them.
Fits(l) == l \in Seq(PeerInfo) /\ U64 + Len(l) * PeerInfoSize <= CallocLimit
ReplyOf(l) == command_send_peer_list_serialize(peer_info_list_serialize(l))
Reply == ReplyOf(list)

Stream(buf, pipe, out, m, broken) ==
  /\ Begins(buf \o pipe, m)
  /\ broken = FALSE => buf \o pipe \o out = m

\* The client's message m on its way to the server.
ServerReads(m) ==
  /\ disturbed = FALSE => m = Registration
  /\ Stream(s.buf, toServer, c.out, m, reset)
  /\ s.pc = "body" /\ m = Registration => s.len = AddressSize + RegisterPadding

\* Before the server registers the client, and when it never does.
Unregistered ==
  /\ list \in Known
  /\ c.pc \notin {"body", "done"} /\ c.buf = <<>> /\ toClient = <<>>
  /\ s.pc # "send" /\ s.out = <<>>
  /\ s.pc = "register" => s.buf = Registration
  /\ s.pc = "closed" => disturbed = TRUE

\* From then on: the reply on its way to the client.
Answered ==
  /\ s.pc \notin {"header", "body", "register"}
  /\ s.buf = Registration
  /\ Fits(list)
  /\ Prompt => \E i \in 1..Len(list) : list[i].listen_addr = Self
  /\ Stream(c.buf, toClient, s.out, Reply, reset)
  /\ s.pc = "closed" /\ disturbed = FALSE => s.out = <<>>
  /\ c.pc = "body" => c.len = U64 + Len(peer_info_list_serialize(list))
  /\ c.pc = "done" => c.buf = Reply /\ peers = list

Places ==
  /\ c.pc # "done" => peers = OldPeers
  /\ c.pc \in {"killed", "spin"} => disturbed = TRUE
  /\ s.pc = "killed" => disturbed = TRUE
  /\ s.pc = "spin" => c.pc = "killed"
  /\ disturbed = FALSE => reset = FALSE

\* The inductive invariant.
ExchangeInv ==
  /\ TypeOK
  /\ \E m \in {Registration} \cup Strangers : ServerReads(m)
  /\ Unregistered \/ Answered
  /\ Places
  /\ RegisteredAsSent
-----------------------------------------------------------------------------
(***************************************************************************)
(* Streams.                                                                *)
(***************************************************************************)
\* send moves bytes from out to the pipe.
LEMMA StreamSend ==
  ASSUME NEW buf \in Seq(Byte), NEW pipe \in Seq(Byte), NEW out \in Seq(Byte),
         NEW m \in Seq(Byte), NEW n \in 1..Len(out), NEW r, NEW r2,
         Stream(buf, pipe, out, m, r), r = FALSE
  PROVE  Stream(buf, pipe \o SubSeq(out, 1, n), SubSeq(out, n + 1, Len(out)), m, r2)
<1> DEFINE x == SubSeq(out, 1, n)
           y == SubSeq(out, n + 1, Len(out))
           bp == buf \o pipe
           px == pipe \o x
           bpx == bp \o x
<1>1. x \in Seq(Byte) /\ y \in Seq(Byte) /\ out = x \o y
  BY Cut
<1>2. bp \o out = m
  BY DEF Stream
<1>3. bp = buf \o pipe /\ px = pipe \o x /\ bpx = bp \o x
  OBVIOUS
<1> SUFFICES Stream(buf, px, y, m, r2)
  OBVIOUS
<1> HIDE DEF x, y, bp, px, bpx
<1>4. bp \in Seq(Byte) /\ px \in Seq(Byte) /\ bpx = buf \o px
  <2>1. bp = buf \o pipe /\ px = pipe \o x
    BY <1>3
  <2>2. x \in Seq(Byte)
    BY <1>1
  <2>3. bp \in Seq(Byte) /\ px \in Seq(Byte) /\ bp \o x = buf \o px
    BY <2>1, <2>2, Assoc
  <2> QED
    BY <1>3, <2>3, Zenon
<1>5. bpx \in Seq(Byte) /\ bpx \o y = m
  <2>1. bpx = bp \o x
    BY <1>3
  <2>2. bpx \in Seq(Byte) /\ bpx \o y = bp \o out
    BY <1>1, <1>4, <2>1, Assoc, SMTT(30)
  <2> QED
    BY <1>2, <2>2, Zenon
<1>6. Begins(bpx, m)
  BY <1>1, <1>5, BeginsIff, Zenon
<1> QED
  BY <1>4, <1>5, <1>6, Zenon DEF Stream

\* recv moves bytes from the pipe to the buffer.
LEMMA StreamRecv ==
  ASSUME NEW buf \in Seq(Byte), NEW pipe \in Seq(Byte), NEW out, NEW m, NEW r,
         NEW n \in 1..Len(pipe), Stream(buf, pipe, out, m, r)
  PROVE  Stream(buf \o SubSeq(pipe, 1, n), SubSeq(pipe, n + 1, Len(pipe)), out, m, r)
<1> DEFINE x == SubSeq(pipe, 1, n)
           y == SubSeq(pipe, n + 1, Len(pipe))
           bx == buf \o x
<1>1. x \in Seq(Byte) /\ y \in Seq(Byte) /\ pipe = x \o y
  BY Cut
<1>2. bx = buf \o x
  OBVIOUS
<1> SUFFICES Stream(bx, y, out, m, r)
  OBVIOUS
<1> HIDE DEF x, y, bx
<1>3. bx \o y = buf \o pipe
  BY <1>1, <1>2, Assoc
<1> QED
  BY <1>3, Zenon DEF Stream

\* After a reset nothing more is sent, and the pipe may be lost.
LEMMA StreamBreaks ==
  ASSUME NEW buf \in Seq(Byte), NEW pipe \in Seq(Byte), NEW m \in Seq(Byte),
         NEW out, NEW r, NEW out2, Stream(buf, pipe, out, m, r)
  PROVE  /\ Stream(buf, pipe, out2, m, TRUE)
         /\ Stream(buf, <<>>, out2, m, TRUE)
<1>1. Begins(buf \o pipe, m) /\ Begins(buf, m)
  BY BeginsShorter DEF Stream
<1>2. buf \o <<>> = buf
  BY ConcatEmptySeq
<1> QED
  BY <1>1, <1>2 DEF Stream

\* A connection that is not reset was not reset before.
LEMMA StreamStays ==
  ASSUME NEW buf, NEW pipe, NEW out, NEW m, NEW r, NEW r2,
         Stream(buf, pipe, out, m, r), r2 = FALSE => r = FALSE
  PROVE  Stream(buf, pipe, out, m, r2)
BY DEF Stream

\* Who has read as many bytes as the message has, has read it.
LEMMA StreamIsWhole ==
  ASSUME NEW buf \in Seq(Byte), NEW pipe \in Seq(Byte), NEW m \in Seq(Byte),
         NEW out, NEW r, Stream(buf, pipe, out, m, r), Len(buf) = Len(m)
  PROVE  buf = m
<1>1. Begins(buf, m)
  BY BeginsShorter DEF Stream
<1>2. SubSeq(m, 1, Len(m)) = m
  BY SubSeqFull
<1> QED
  BY <1>1, <1>2 DEF Begins

\* If a message has been read and nothing was lost, nothing is left of it.
LEMMA StreamIsEmpty ==
  ASSUME NEW buf \in Seq(Byte), NEW pipe \in Seq(Byte), NEW out \in Seq(Byte),
         NEW r, Stream(buf, pipe, out, buf, r), r = FALSE
  PROVE  pipe = <<>> /\ out = <<>>
<1>1. (buf \o pipe) \o out = buf /\ buf \o pipe \in Seq(Byte)
  BY Join DEF Stream
<1>2. Len(buf) = (Len(buf) + Len(pipe)) + Len(out)
  BY <1>1, Join
<1>3. Len(pipe) = 0 /\ Len(out) = 0
  BY <1>2
<1> QED
  BY <1>3

-----------------------------------------------------------------------------
(***************************************************************************)
(* The server's list.                                                      *)
(***************************************************************************)
Fresh(info, now) == ~(now - info.last_connected > Keepalive)

\* k is what Active has kept of the first i entries of l.
Kept(k, l, i, now) ==
  /\ k \in Seq(PeerInfo) /\ Len(k) <= i
  /\ \A a \in 1..Len(k) : \E j \in 1..i : l[j] = k[a]
  /\ \A j \in 1..i : Fresh(l[j], now) => \E a \in 1..Len(k) : k[a] = l[j]

\* One turn of the loop.
LEMMA KeptSteps ==
  ASSUME NEW l \in Seq(PeerInfo), NEW i \in 1..Len(l), NEW k,
         NEW now, Kept(k, l, i - 1, now)
  PROVE  /\ Kept(Append(k, l[i]), l, i, now)
         /\ ~Fresh(l[i], now) => Kept(k, l, i, now)
<1>1. /\ i \in Nat /\ i - 1 \in Nat /\ l[i] \in PeerInfo /\ Len(k) \in Nat
      /\ i \in 1..i
      /\ \A j \in 1..i : j = i \/ j \in 1..i - 1
      /\ \A j \in 1..i - 1 : j \in 1..i
  BY DEF Kept
<1>2. /\ k \in Seq(PeerInfo) /\ Len(k) <= i - 1
      /\ \A a \in 1..Len(k) : \E j \in 1..i - 1 : l[j] = k[a]
      /\ \A j \in 1..i - 1 : Fresh(l[j], now) => \E a \in 1..Len(k) : k[a] = l[j]
  BY DEF Kept
<1>3. Kept(Append(k, l[i]), l, i, now)
  <2> DEFINE x == Append(k, l[i])
  <2>1. /\ x \in Seq(PeerInfo) /\ Len(x) = Len(k) + 1 /\ x[Len(k) + 1] = l[i]
        /\ \A a \in 1..Len(k) : x[a] = k[a] /\ a \in 1..Len(x)
        /\ Len(k) + 1 \in 1..Len(x)
        /\ \A a \in 1..Len(x) : a = Len(k) + 1 \/ a \in 1..Len(k)
    BY <1>1, <1>2
  <2> HIDE DEF x
  <2>2. Len(x) <= i
    BY <1>1, <1>2, <2>1
  <2>3. \A a \in 1..Len(x) : \E j \in 1..i : l[j] = x[a]
    BY <1>1, <1>2, <2>1, Zenon
  <2>4. \A j \in 1..i : Fresh(l[j], now) => \E a \in 1..Len(x) : x[a] = l[j]
    BY <1>1, <1>2, <2>1, Zenon
  <2>5. Kept(x, l, i, now)
    BY <2>1, <2>2, <2>3, <2>4, Zenon DEF Kept
  <2> QED
    BY <2>5 DEF x
<1>4. ASSUME ~Fresh(l[i], now) PROVE Kept(k, l, i, now)
  <2>1. Len(k) <= i
    BY <1>1, <1>2
  <2>2. \A a \in 1..Len(k) : \E j \in 1..i : l[j] = k[a]
    BY <1>1, <1>2, Zenon
  <2>3. \A j \in 1..i : Fresh(l[j], now) => \E a \in 1..Len(k) : k[a] = l[j]
    BY <1>1, <1>2, <1>4, Zenon
  <2> QED
    BY <1>2, <2>1, <2>2, <2>3, Zenon DEF Kept
<1> QED
  BY <1>3, <1>4

\* Active keeps entries of the list, and every fresh one of them.
LEMMA ActiveKeeps ==
  ASSUME NEW l \in Seq(PeerInfo), NEW now
  PROVE  Kept(Active(l, now), l, Len(l), now)
<1> DEFINE n == Len(l)
           S == Seq(PeerInfo)
           step == [i \in 1..n |-> [x \in S |->
                      IF now - l[i].last_connected > Keepalive THEN x
                      ELSE Append(x, l[i])]]
           equation(f) == [i \in 0..n |->
             IF i = 0 THEN <<>>
             ELSE IF now - l[i].last_connected > Keepalive THEN f[i - 1]
             ELSE Append(f[i - 1], l[i])]
           kept == CHOOSE f : f = equation(f)
<1>1. n \in Nat /\ <<>> \in S /\ \A i \in 1..n : l[i] \in PeerInfo
  OBVIOUS
<1>2. step \in [1..n -> [S -> S]]
  <2>1. \A i \in 1..n : \A x \in S : Append(x, l[i]) \in S
    BY <1>1
  <2> HIDE DEF S, n
  <2> QED
    BY <2>1
<1>3. PICK f : Steps(f, n, S, <<>>, step)
  <2> HIDE DEF step, n, S
  <2> QED
    BY <1>1, <1>2, Recursion, Zenon
<1>4. f \in [0..n -> S] /\ f[0] = <<>>
  BY <1>3 DEF Steps
<1>5. \A i \in 1..n : f[i] = IF now - l[i].last_connected > Keepalive THEN f[i - 1]
                             ELSE Append(f[i - 1], l[i])
  <2> TAKE i \in 1..n
  <2>1. i - 1 \in 0..n
    BY <1>1
  <2>2. f[i - 1] \in S
    BY <1>4, <2>1
  <2> QED
    BY <1>3, <2>2 DEF Steps
<1>6. f = equation(f)
  <2>1. \A i \in 0..n : i = 0 \/ (i # 0 /\ i \in 1..n)
    BY <1>1
  <2>2. \A i \in 0..n : f[i] = equation(f)[i]
    BY <1>4, <1>5, <2>1
  <2>3. equation(f) = [i \in 0..n |-> equation(f)[i]]
    OBVIOUS
  <2>4. f = [i \in 0..n |-> f[i]]
    BY <1>4
  <2> HIDE DEF equation
  <2> QED
    BY <2>2, <2>3, <2>4, Zenon
<1>7. kept = equation(kept)
  <2> HIDE DEF equation
  <2> QED
    BY <1>6
<1>8. Active(l, now) = kept[n]
  BY Zenon DEF Active
<1> HIDE DEF kept
<1>9. \A i \in 0..n : Kept(kept[i], l, i, now)
  <2> DEFINE P == {i \in 0..n : Kept(kept[i], l, i, now)}
  <2>1. 0 \in P
    <3>1. kept[0] = <<>>
      BY <1>1, <1>7
    <3>2. Kept(<<>>, l, 0, now)
      BY DEF Kept
    <3> QED
      BY <1>1, <3>1, <3>2
  <2>2. \A i \in 0..n - 1 : i \in P => i + 1 \in P
    <3> SUFFICES ASSUME NEW i \in 0..n - 1, i \in P PROVE i + 1 \in P
      OBVIOUS
    <3>1. i + 1 \in 1..n /\ (i + 1) - 1 = i /\ i + 1 \in 0..n /\ i + 1 # 0
      BY <1>1
    <3>2. kept[i + 1] = IF now - l[i + 1].last_connected > Keepalive THEN kept[i]
                        ELSE Append(kept[i], l[i + 1])
      BY <1>7, <3>1
    <3>3. \/ kept[i + 1] = kept[i] /\ ~Fresh(l[i + 1], now)
          \/ kept[i + 1] = Append(kept[i], l[i + 1])
      BY <3>2 DEF Fresh
    <3>4. Kept(kept[i], l, (i + 1) - 1, now)
      BY <3>1
    <3>5. Kept(kept[i + 1], l, i + 1, now)
      <4>1. /\ Kept(Append(kept[i], l[i + 1]), l, i + 1, now)
            /\ ~Fresh(l[i + 1], now) => Kept(kept[i], l, i + 1, now)
        BY <3>1, <3>4, KeptSteps, Zenon
      <4> QED
        BY <3>3, <4>1, Zenon
    <3> QED
      BY <3>1, <3>5
  <2> HIDE DEF P
  <2>3. \A i \in 0..n : i \in P
    BY <1>1, <2>1, <2>2, CountingUp
  <2> QED
    BY <2>3 DEF P
<1> QED
  BY <1>1, <1>8, <1>9

\* The peer is in the list it is registered in, the others are as they were.
LEMMA RegisteredType ==
  ASSUME NEW l \in Seq(PeerInfo), NEW info \in PeerInfo
  PROVE  /\ Registered(l, info) \in Seq(PeerInfo)
         /\ Len(Registered(l, info)) <= Len(l) + 1
         /\ \E i \in 1..Len(Registered(l, info)) : Registered(l, info)[i] = info
         /\ \A i \in 1..Len(Registered(l, info)) :
              \/ Registered(l, info)[i] = info
              \/ \E j \in 1..Len(l) : l[j] = Registered(l, info)[i]
<1> DEFINE r == Registered(l, info)
<1>1. Len(l) \in Nat /\ \A i \in 1..Len(l) : l[i] \in PeerInfo
  OBVIOUS
<1>2. CASE \E i \in 1..Len(l) : compare_peer_info_t(l[i], info)
  <2>1. r = [i \in 1..Len(l) |-> IF compare_peer_info_t(l[i], info) THEN info ELSE l[i]]
    BY <1>2, Zenon DEF Registered
  <2>2. r \in Seq(PeerInfo) /\ Len(r) = Len(l)
    BY <1>1, <2>1
  <2>3. \A i \in 1..Len(l) : r[i] = IF compare_peer_info_t(l[i], info) THEN info ELSE l[i]
    BY <2>1
  <2> HIDE DEF r
  <2>4. Len(r) <= Len(l) + 1
    BY <1>1, <2>2
  <2>5. \E i \in 1..Len(r) : r[i] = info
    BY <1>2, <2>2, <2>3, Zenon
  <2>6. \A i \in 1..Len(r) : r[i] = info \/ \E j \in 1..Len(l) : l[j] = r[i]
    BY <2>2, <2>3, Zenon
  <2> QED
    BY <2>2, <2>4, <2>5, <2>6 DEF r
<1>3. CASE ~\E i \in 1..Len(l) : compare_peer_info_t(l[i], info)
  <2>1. r = <<info>> \o l
    BY <1>3, Zenon DEF Registered
  <2>2. /\ r \in Seq(PeerInfo) /\ Len(r) = Len(l) + 1
        /\ r[1] = info
        /\ \A i \in 2..Len(l) + 1 : r[i] = l[i - 1]
    BY <1>1, <2>1
  <2> HIDE DEF r
  <2>3. /\ 1 \in 1..Len(r)
        /\ \A i \in 1..Len(r) : i = 1 \/ (i \in 2..Len(l) + 1 /\ i - 1 \in 1..Len(l))
    BY <1>1, <2>2
  <2>4. \A i \in 1..Len(r) : r[i] = info \/ \E j \in 1..Len(l) : l[j] = r[i]
    BY <2>2, <2>3, Zenon
  <2> QED
    BY <1>1, <2>2, <2>3, <2>4 DEF r
<1> QED
  BY <1>2, <1>3

\* new is l with addr in it, if no more than Keepalive seconds went by, and
\* perhaps without some others.
Enters(new, l, addr, d) ==
  /\ new \in Seq(PeerInfo) /\ Len(new) <= Len(l) + 1
  /\ d <= Keepalive => \E i \in 1..Len(new) : new[i].listen_addr = addr
  /\ \A i \in 1..Len(new) :
       new[i].listen_addr = addr \/ \E j \in 1..Len(l) : l[j] = new[i]

\* What ServerRegisters makes of a list.
LEMMA RegisteringKeeps ==
  ASSUME NEW l \in Seq(PeerInfo), NEW addr \in Address, NEW info,
         info = [listen_addr |-> addr, last_connected |-> Now],
         NEW d \in Nat, NEW new, new = Active(Registered(l, info), Now + d)
  PROVE  Enters(new, l, addr, d)
<1> DEFINE r == Registered(l, info)
<1>1. Now \in Unsigned(U64) /\ Keepalive \in Nat /\ Now \in Nat
  BY ExchangeAssumption DEF Unsigned
<1>2. /\ info \in PeerInfo /\ info.listen_addr = addr
      /\ d <= Keepalive => Fresh(info, Now + d)
  BY <1>1 DEF PeerInfo, Fresh
<1>3. /\ r \in Seq(PeerInfo) /\ Len(r) <= Len(l) + 1
      /\ \E i \in 1..Len(r) : r[i] = info
      /\ \A i \in 1..Len(r) : r[i] = info \/ \E j \in 1..Len(l) : l[j] = r[i]
  BY <1>2, RegisteredType, Zenon
<1>0. PICK now : now = Now + d /\ new = Active(r, now)
  OBVIOUS
<1> HIDE DEF r
<1>4. Kept(new, r, Len(r), now)
  BY <1>0, <1>3, ActiveKeeps, Zenon
<1>5. /\ new \in Seq(PeerInfo) /\ Len(new) <= Len(r)
      /\ \A a \in 1..Len(new) : \E j \in 1..Len(r) : r[j] = new[a]
      /\ \A j \in 1..Len(r) :
           Fresh(r[j], now) => \E a \in 1..Len(new) : new[a] = r[j]
  BY <1>4, Zenon DEF Kept
<1>6. Len(new) <= Len(l) + 1
  BY <1>3, <1>5
<1>7. \A i \in 1..Len(new) :
        new[i].listen_addr = addr \/ \E j \in 1..Len(l) : l[j] = new[i]
  <2> TAKE i \in 1..Len(new)
  <2>1. PICK j \in 1..Len(r) : r[j] = new[i]
    BY <1>5
  <2>2. new[i] = info \/ \E k \in 1..Len(l) : l[k] = new[i]
    BY <1>3, <2>1
  <2> QED
    BY <1>2, <2>2
<1>8. ASSUME d <= Keepalive
      PROVE  \E i \in 1..Len(new) : new[i].listen_addr = addr
  <2>1. PICK j \in 1..Len(r) : r[j] = info
    BY <1>3
  <2>0. Fresh(r[j], now)
    BY <1>0, <1>2, <1>8, <2>1
  <2>2. PICK a \in 1..Len(new) : new[a] = info
    <3>1. \E a \in 1..Len(new) : new[a] = r[j]
      BY <1>5, <2>0
    <3> QED
      BY <2>1, <3>1
  <2>3. new[a].listen_addr = addr
    BY <1>2, <2>2
  <2> QED
    BY <2>3
<1> QED
  BY <1>5, <1>6, <1>7, <1>8, Zenon DEF Enters

-----------------------------------------------------------------------------
(***************************************************************************)
(* The two messages.                                                       *)
(***************************************************************************)
LEMMA ConstantTypes ==
  /\ Capacity \in Nat \ {0} /\ Self \in Address /\ OldPeers \in Seq(PeerInfo)
  /\ Known \subseteq Seq(PeerInfo)
  /\ \A l \in Known : U64 + (Len(l) + 1) * PeerInfoSize <= CallocLimit
  /\ \A m \in Strangers : m \in Seq(Byte)
BY ExchangeAssumption

\* The registration, and what is read of its beginnings.
LEMMA RegistrationIsRead ==
  /\ Registration \in Seq(Byte)
  /\ Len(Registration) = HeaderSize + (AddressSize + RegisterPadding)
  /\ command_register_peer_deserialize(Registration) = Success(Self)
  /\ Registration \notin Strangers
<1>1. /\ Piece(Registration, HeaderSize + AddressSize + RegisterPadding)
      /\ command_register_peer_deserialize(Registration) = Success(Self)
  BY ConstantTypes, RegisterBytes, RegisterRoundTrip DEF Registration
<1>2. /\ Registration \in Seq(Byte)
      /\ Len(Registration) = HeaderSize + AddressSize + RegisterPadding
  BY <1>1 DEF Piece
<1>3. HeaderSize + AddressSize + RegisterPadding
        = HeaderSize + (AddressSize + RegisterPadding)
  BY Sizes
<1>4. ASSUME Registration \in Strangers PROVE FALSE
  <2>1. Len(Registration) \in 0..Len(Registration)
    BY <1>2
  <2>2. SubSeq(Registration, 1, Len(Registration)) = Registration
    BY <1>2, SubSeqFull
  <2>3. command_register_peer_deserialize(
          SubSeq(Registration, 1, Len(Registration))).code # "SUCCESS"
    BY <1>4, <2>1, ExchangeAssumption
  <2>4. command_register_peer_deserialize(Registration).code # "SUCCESS"
    BY <2>2, <2>3, Zenon
  <2>5. Success(Self).code = "SUCCESS"
    BY DEF Success
  <2> QED
    BY <1>1, <2>4, <2>5
<1> QED
  BY <1>1, <1>2, <1>3, <1>4

\* The header of a registration, as soon as it is there.
LEMMA RegistrationHeader ==
  ASSUME NEW buf \in Seq(Byte), Begins(buf, Registration), Len(buf) = HeaderSize
  PROVE  /\ CommandCode(COMMAND_REGISTER_PEER, buf) = "SUCCESS"
         /\ command_header_deserialize(buf).value.command_len
              = AddressSize + RegisterPadding
<1> DEFINE m == Registration
<1>1. PICK h, p \in Seq(Byte) :
        /\ h = command_header_serialize(COMMAND_REGISTER_PEER,
                                        AddressSize + RegisterPadding)
        /\ Piece(h, HeaderSize) /\ Piece(p, RegisterPadding)
        /\ m = h \o AddressBytes(Self) \o p
  BY ConstantTypes, RegisterBytes DEF Registration
<1>2. m \in Seq(Byte) /\ 0 \in Nat
  BY RegistrationIsRead
<1>3. Piece(AddressBytes(Self), AddressSize)
  BY ConstantTypes, AddressBytesType
<1> HIDE DEF m
<1>4. Holds(m, 0, (h \o AddressBytes(Self)) \o p)
  BY <1>1, <1>2, HoldsItself
<1>5. Piece(h \o AddressBytes(Self), HeaderSize + AddressSize)
  BY <1>1, <1>3, Join2, Zenon
<1>6. Holds(m, 0, h \o AddressBytes(Self))
  BY <1>1, <1>2, <1>4, <1>5, HoldsParts2, Zenon
<1>7. Holds(m, 0, h)
  BY <1>1, <1>2, <1>3, <1>6, HoldsParts2, Zenon
<1>8. 0 + Len(h) <= Len(buf) /\ h \in Seq(Byte)
  BY <1>1, Sizes DEF Piece
<1>9. Begins(buf, m)
  BY DEF m
<1>10. Holds(buf, 0, h)
  BY <1>2, <1>7, <1>8, <1>9, HoldsInBeginning, Zenon
<1> QED
  BY <1>1, <1>10, CommandNumbers, HeaderIsRead

\* A stranger's command is refused, wherever it was cut off.
LEMMA StrangersAreRefused ==
  ASSUME NEW m \in Strangers, NEW buf \in Seq(Byte), Begins(buf, m)
  PROVE  command_register_peer_deserialize(buf).code # "SUCCESS"
<1>1. m \in Seq(Byte) /\ Len(m) \in Nat /\ Len(buf) \in Nat
  BY ConstantTypes
<1>2. Len(buf) \in 0..Len(m) /\ buf = SubSeq(m, 1, Len(buf))
  BY <1>1 DEF Begins
<1>3. command_register_peer_deserialize(SubSeq(m, 1, Len(buf))).code # "SUCCESS"
  BY <1>2, ExchangeAssumption
<1> QED
  BY <1>2, <1>3, Zenon

\* The reply, and what is read of its beginnings.
LEMMA ReplyIsRead ==
  ASSUME NEW l, Fits(l)
  PROVE  /\ ReplyOf(l) \in Seq(Byte)
         /\ Len(ReplyOf(l)) = HeaderSize + (U64 + Len(peer_info_list_serialize(l)))
         /\ command_send_peer_list_deserialize(ReplyOf(l))
              = Success(peer_info_list_serialize(l))
         /\ peer_info_list_deserialize(peer_info_list_serialize(l)) = Success(l)
         /\ U64 + Len(peer_info_list_serialize(l)) \in Nat
<1> DEFINE d == peer_info_list_serialize(l)
           m == ReplyOf(l)
<1>1. l \in Seq(PeerInfo) /\ Len(l) \in Nat
  BY DEF Fits
<1>2. Len(l) \in Unsigned(U64)
  <2>1. PeerInfoSize \in Nat /\ PeerInfoSize >= 1 /\ CallocLimit \in Int /\ U64 \in Nat
    BY Sizes, WordSize DEF PeerInfoSize
  <2>2. Len(l) <= Len(l) * PeerInfoSize
    BY <1>1, <2>1
  <2>3. Len(l) * PeerInfoSize \in Nat
    BY <1>1, <2>1
  <2>4. Len(l) <= CallocLimit
    BY <1>1, <2>1, <2>2, <2>3 DEF Fits
  <2>5. Len(l) < Word
    BY <1>1, <2>4, WordSize
  <2> QED
    BY <1>1, <2>5, WordSize
<1>3. Piece(d, U64 + Len(l) * PeerInfoSize) /\ peer_info_list_deserialize(d) = Success(l)
  BY <1>1, <1>2, PeerListRoundTrip
<1>4. d \in Seq(Byte) /\ Len(d) <= CallocLimit /\ Len(d) \in Nat
  <2>1. d \in Seq(Byte) /\ Len(d) = U64 + Len(l) * PeerInfoSize
    BY <1>3, Zenon DEF Piece
  <2>2. U64 + Len(l) * PeerInfoSize <= CallocLimit
    BY DEF Fits
  <2> HIDE DEF d
  <2>3. Len(d) \in Nat
    BY <2>1
  <2> QED
    BY <2>1, <2>2, <2>3
<1>5. m = SendData(COMMAND_SEND_PEER_LIST, d)
  BY Zenon DEF ReplyOf, command_send_peer_list_serialize
<1>6. U64 + Len(d) < Word
  BY <1>4, Sizes, WordSize, WidthAssumption
<1> HIDE DEF d, m
<1>7. Piece(m, HeaderSize + U64 + Len(d))
  BY <1>4, <1>5, <1>6, CommandNumbers, DataBytes
<1>8. ReceiveData(COMMAND_SEND_PEER_LIST, m) = Success(d)
  BY <1>4, <1>5, CommandNumbers, DataRoundTrip
<1>9. m \in Seq(Byte) /\ Len(m) = HeaderSize + U64 + Len(d)
  BY <1>7 DEF Piece
<1>10. HeaderSize + U64 + Len(d) = HeaderSize + (U64 + Len(d)) /\ U64 + Len(d) \in Nat
  BY <1>4, Sizes
<1>11. command_send_peer_list_deserialize(m) = Success(d)
  BY <1>8, Zenon DEF command_send_peer_list_deserialize
<1> QED
  BY <1>3, <1>9, <1>10, <1>11 DEF d, m

\* The header of a reply, as soon as it is there.
LEMMA ReplyHeader ==
  ASSUME NEW l, Fits(l), NEW buf \in Seq(Byte), Begins(buf, ReplyOf(l)),
         Len(buf) = HeaderSize
  PROVE  /\ CommandCode(COMMAND_SEND_PEER_LIST, buf) = "SUCCESS"
         /\ command_header_deserialize(buf).value.command_len
              = U64 + Len(peer_info_list_serialize(l))
<1> DEFINE d == peer_info_list_serialize(l)
           m == ReplyOf(l)
<1>1. m \in Seq(Byte) /\ 0 \in Nat /\ U64 + Len(d) \in Nat
  BY ReplyIsRead
<1>2. d \in Seq(Byte) /\ U64 + Len(d) < Word
  <2>1. l \in Seq(PeerInfo) /\ Len(l) \in Nat
    BY DEF Fits
  <2>2. PeerInfoSize \in Nat /\ PeerInfoSize >= 1 /\ CallocLimit \in Int /\ U64 \in Nat
    BY Sizes, WordSize DEF PeerInfoSize
  <2>3. Len(l) <= Len(l) * PeerInfoSize /\ Len(l) * PeerInfoSize \in Nat
    BY <2>1, <2>2
  <2>4. Len(l) < Word
    BY <2>1, <2>2, <2>3, WordSize DEF Fits
  <2>5. Piece(d, U64 + Len(l) * PeerInfoSize)
    BY <2>1, <2>4, WordSize, PeerListRoundTrip
  <2>6. d \in Seq(Byte) /\ Len(d) <= CallocLimit
    BY <2>5 DEF Piece, Fits
  <2> QED
    BY <2>2, <2>6, Sizes, WordSize, WidthAssumption
<1>3. m = SendData(COMMAND_SEND_PEER_LIST, d)
  BY Zenon DEF ReplyOf, command_send_peer_list_serialize
<1>4. U64 + Len(d) \in Unsigned(U64)
  BY <1>1, <1>2, WordSize
<1>5. Begins(buf, m)
  OBVIOUS
<1> HIDE DEF d, m
<1>6. PICK h, n \in Seq(Byte) :
        /\ h = command_header_serialize(COMMAND_SEND_PEER_LIST, U64 + Len(d))
        /\ Piece(h, HeaderSize) /\ Piece(n, U64)
        /\ m = h \o n \o d
  <2>1. \E h, n \in Seq(Byte) :
          /\ h = command_header_serialize(COMMAND_SEND_PEER_LIST, U64 + Len(d))
          /\ n = htobe64(Len(d))
          /\ Piece(h, HeaderSize) /\ Piece(n, U64)
          /\ SendData(COMMAND_SEND_PEER_LIST, d) = h \o n \o d
          /\ Piece(SendData(COMMAND_SEND_PEER_LIST, d), HeaderSize + U64 + Len(d))
    BY <1>2, CommandNumbers, DataBytes, Zenon
  <2> QED
    BY <1>3, <2>1, Zenon
<1>7. Piece(h \o n, HeaderSize + U64) /\ Piece(d, Len(d))
  BY <1>2, <1>6, Join2 DEF Piece
<1>8. Holds(m, 0, (h \o n) \o d)
  BY <1>1, <1>6, HoldsItself
<1>9. Holds(m, 0, h \o n)
  BY <1>1, <1>7, <1>8, HoldsParts2, Zenon
<1>10. Holds(m, 0, h)
  BY <1>1, <1>6, <1>9, HoldsParts2, Zenon
<1>11. 0 + Len(h) <= Len(buf)
  BY <1>6, Sizes DEF Piece
<1>12. Holds(buf, 0, h)
  BY <1>1, <1>5, <1>6, <1>10, <1>11, HoldsInBeginning, Zenon
<1>13. /\ CommandCode(COMMAND_SEND_PEER_LIST, buf) = "SUCCESS"
       /\ command_header_deserialize(buf).value.command_len = U64 + Len(d)
  BY <1>4, <1>6, <1>12, CommandNumbers, HeaderIsRead
<1> QED
  BY <1>13 DEF d

-----------------------------------------------------------------------------
(***************************************************************************)
(* One end of the connection.                                              *)
(***************************************************************************)
LEMMA EndFields ==
  ASSUME NEW P, NEW e \in End(P)
  PROVE  e.pc \in P /\ e.out \in Seq(Byte) /\ e.buf \in Seq(Byte) /\ e.len \in Nat
BY DEF End

\* A step to another place.
LEMMA GoTo ==
  ASSUME NEW P, NEW e \in End(P), NEW pc \in P, NEW e2, e2 = [e EXCEPT !.pc = pc]
  PROVE  /\ e2 \in End(P) /\ e2.pc = pc
         /\ e2.out = e.out /\ e2.buf = e.buf /\ e2.len = e.len
BY DEF End

\* How many bytes recv_all still waits for.
LEMMA MissingIs ==
  ASSUME NEW P, NEW e \in End(P)
  PROVE  /\ Missing(e) \in Int
         /\ e.pc = "body" => Missing(e) = HeaderSize + e.len - Len(e.buf)
         /\ e.pc # "body" => Missing(e) = HeaderSize - Len(e.buf)
<1>1. e.len \in Nat /\ Len(e.buf) \in Nat /\ HeaderSize \in Nat
  BY EndFields, Sizes
<1> QED
  BY <1>1 DEF Missing

\* recv_all takes some bytes from the pipe.
LEMMA Received ==
  ASSUME NEW P, NEW e \in End(P), NEW pipe \in Seq(Byte), Len(pipe) <= Capacity,
         NEW m \in recv_all(e, pipe)
  PROVE  \E n \in 1..Len(pipe) :
           /\ m.end \in End(P) /\ m.end.pc = e.pc
           /\ m.end.out = e.out /\ m.end.len = e.len
           /\ m.end.buf = e.buf \o SubSeq(pipe, 1, n)
           /\ m.pipe = SubSeq(pipe, n + 1, Len(pipe))
           /\ m.pipe \in Seq(Byte) /\ Len(m.pipe) <= Capacity
<1>1. PICK n \in 1..Len(pipe) :
        m = [end  |-> [e EXCEPT !.buf = @ \o SubSeq(pipe, 1, n)],
             pipe |-> SubSeq(pipe, n + 1, Len(pipe))]
  BY DEF recv_all
<1> DEFINE b == e.buf \o SubSeq(pipe, 1, n)
           x == [e EXCEPT !.buf = b]
           y == SubSeq(pipe, n + 1, Len(pipe))
<1>2. b \in Seq(Byte) /\ y \in Seq(Byte) /\ Len(y) = Len(pipe) - n
  BY Cut, EndFields, Join
<1>3. m.end = x /\ m.pipe = y
  BY <1>1
<1> HIDE DEF b
<1>4. x \in End(P) /\ x.pc = e.pc /\ x.out = e.out /\ x.len = e.len /\ x.buf = b
  BY <1>2 DEF End
<1>5. Len(y) <= Capacity
  BY <1>2, ConstantTypes
<1> HIDE DEF x, y
<1>6. /\ m.end \in End(P) /\ m.end.pc = e.pc
      /\ m.end.out = e.out /\ m.end.len = e.len
      /\ m.end.buf = b /\ m.pipe = y
      /\ m.pipe \in Seq(Byte) /\ Len(m.pipe) <= Capacity
  BY <1>2, <1>3, <1>4, <1>5
<1> QED
  BY <1>6 DEF b, y

\* send_all puts some bytes in the pipe.
LEMMA Sent ==
  ASSUME NEW P, NEW e \in End(P), NEW pipe \in Seq(Byte), Len(pipe) <= Capacity,
         NEW m \in send_all(e, pipe)
  PROVE  \E n \in 1..Len(e.out) :
           /\ m.end \in End(P) /\ m.end.pc = e.pc
           /\ m.end.buf = e.buf /\ m.end.len = e.len
           /\ m.end.out = SubSeq(e.out, n + 1, Len(e.out))
           /\ m.pipe = pipe \o SubSeq(e.out, 1, n)
           /\ m.pipe \in Seq(Byte) /\ Len(m.pipe) <= Capacity
<1>0. e.out \in Seq(Byte)
  BY EndFields
<1>1. PICK n \in 1..Len(e.out) :
        /\ n <= Capacity - Len(pipe)
        /\ m = [end  |-> [e EXCEPT !.out = SubSeq(@, n + 1, Len(@))],
                pipe |-> pipe \o SubSeq(e.out, 1, n)]
  BY DEF send_all
<1> DEFINE b == SubSeq(e.out, n + 1, Len(e.out))
           x == [e EXCEPT !.out = b]
           y == pipe \o SubSeq(e.out, 1, n)
<1>2. b \in Seq(Byte) /\ y \in Seq(Byte) /\ Len(y) = Len(pipe) + n
  BY <1>0, Cut, Join
<1>3. m.end = x /\ m.pipe = y
  BY <1>1
<1> HIDE DEF b
<1>4. x \in End(P) /\ x.pc = e.pc /\ x.buf = e.buf /\ x.len = e.len /\ x.out = b
  BY <1>2 DEF End
<1>5. Len(y) <= Capacity
  <2>1. n \in Nat /\ Len(pipe) \in Nat /\ Capacity \in Nat
    BY <1>0, ConstantTypes
  <2> QED
    BY <1>1, <1>2, <2>1
<1> HIDE DEF x, y
<1>6. /\ m.end \in End(P) /\ m.end.pc = e.pc
      /\ m.end.buf = e.buf /\ m.end.len = e.len
      /\ m.end.out = b /\ m.pipe = y
      /\ m.pipe \in Seq(Byte) /\ Len(m.pipe) <= Capacity
  BY <1>2, <1>3, <1>4, <1>5
<1> QED
  BY <1>6 DEF b, y

-----------------------------------------------------------------------------
(***************************************************************************)
(* The invariant: the steps that only move a program counter.              *)
(***************************************************************************)
LEMMA InvFacts ==
  ASSUME TypeOK
  PROVE  /\ c.pc \in ClientPC /\ c.out \in Seq(Byte) /\ c.buf \in Seq(Byte)
         /\ c.len \in Nat
         /\ s.pc \in ServerPC /\ s.out \in Seq(Byte) /\ s.buf \in Seq(Byte)
         /\ s.len \in Nat
         /\ c \in End(ClientPC) /\ s \in End(ServerPC)
         /\ toServer \in Seq(Byte) /\ toClient \in Seq(Byte)
         /\ Len(toServer) <= Capacity /\ Len(toClient) <= Capacity
BY EndFields DEF TypeOK

\* Both messages are bytes.
LEMMA MessageType ==
  ASSUME NEW m \in {Registration} \cup Strangers
  PROVE  m \in Seq(Byte)
BY RegistrationIsRead, ConstantTypes

\* The connection only gets worse.
Worse ==
  /\ reset' \in BOOLEAN /\ disturbed' \in BOOLEAN
  /\ reset' = FALSE => reset = FALSE
  /\ disturbed' = FALSE => disturbed = FALSE
  /\ disturbed' = FALSE => reset' = FALSE

\* The client goes on without touching the streams.
LEMMA ClientMoves ==
  ASSUME ExchangeInv, NEW pc \in {"header", "failed", "spin", "killed"},
         c.pc \notin {"done", "killed"}, c' = [c EXCEPT !.pc = pc],
         pc \in {"killed", "spin"} => disturbed' = TRUE,
         Worse, UNCHANGED <<s, toServer, toClient, peers, list>>
  PROVE  ExchangeInv'
<1>1. /\ TypeOK /\ (Unregistered \/ Answered) /\ Places /\ RegisteredAsSent
  BY DEF ExchangeInv
<1>2. PICK m \in {Registration} \cup Strangers : ServerReads(m)
  BY DEF ExchangeInv
<1>3. pc \in ClientPC /\ c \in End(ClientPC)
  BY <1>1, InvFacts DEF ClientPC, Receiving
<1>4. /\ c' \in End(ClientPC) /\ c'.pc = pc
      /\ c'.out = c.out /\ c'.buf = c.buf /\ c'.len = c.len
  BY <1>3, GoTo
<1>5. /\ s' = s /\ toServer' = toServer /\ toClient' = toClient
      /\ peers' = peers /\ list' = list
  OBVIOUS
<1>6. TypeOK'
  BY <1>1, <1>4, <1>5 DEF TypeOK, Worse
<1>7. ServerReads(m)'
  <2>1. Stream(s.buf, toServer, c.out, m, reset')
    BY <1>2, StreamStays DEF ServerReads, Worse
  <2> QED
    BY <1>2, <1>4, <1>5, <2>1 DEF ServerReads, Worse
<1>8. ASSUME Unregistered PROVE Unregistered'
  BY <1>4, <1>5, <1>8 DEF Unregistered, Worse
<1>9. ASSUME Answered PROVE Answered'
  <2>1. Stream(c.buf, toClient, s.out, Reply, reset')
    BY <1>9, StreamStays DEF Answered, Worse
  <2>2. Reply' = Reply
    BY <1>5 DEF Reply
  <2> QED
    BY <1>4, <1>5, <1>9, <2>1, <2>2 DEF Answered, Worse
<1>10. Places'
  BY <1>1, <1>4, <1>5 DEF Places, Worse
<1>11. RegisteredAsSent'
  BY <1>1, <1>5 DEF RegisteredAsSent
<1> QED
  BY <1>1, <1>2, <1>6, <1>7, <1>8, <1>9, <1>10, <1>11 DEF ExchangeInv, Registration

\* The server goes on without touching the streams.
LEMMA ServerMoves ==
  ASSUME ExchangeInv, NEW pc \in {"closed", "spin", "killed"},
         s' = [s EXCEPT !.pc = pc],
         pc = "closed" /\ Unregistered => disturbed' = TRUE,
         pc = "closed" /\ Answered /\ disturbed' = FALSE => s.out = <<>>,
         pc = "spin" => c.pc = "killed",
         pc = "killed" => disturbed' = TRUE,
         Worse, UNCHANGED <<c, toServer, toClient, peers, list>>
  PROVE  ExchangeInv'
<1>1. /\ TypeOK /\ (Unregistered \/ Answered) /\ Places /\ RegisteredAsSent
  BY DEF ExchangeInv
<1>2. PICK m \in {Registration} \cup Strangers : ServerReads(m)
  BY DEF ExchangeInv
<1>3. pc \in ServerPC /\ s \in End(ServerPC)
  BY <1>1, InvFacts DEF ServerPC, Receiving
<1>4. /\ s' \in End(ServerPC) /\ s'.pc = pc
      /\ s'.out = s.out /\ s'.buf = s.buf /\ s'.len = s.len
  BY <1>3, GoTo
<1>5. /\ c' = c /\ toServer' = toServer /\ toClient' = toClient
      /\ peers' = peers /\ list' = list
  OBVIOUS
<1>6. TypeOK'
  BY <1>1, <1>4, <1>5 DEF TypeOK, Worse
<1>7. ServerReads(m)'
  <2>1. Stream(s.buf, toServer, c.out, m, reset')
    BY <1>2, StreamStays DEF ServerReads, Worse
  <2> QED
    BY <1>2, <1>4, <1>5, <2>1 DEF ServerReads, Worse
<1>8. ASSUME Unregistered PROVE Unregistered'
  BY <1>4, <1>5, <1>8 DEF Unregistered, Worse
<1>9. ASSUME Answered PROVE Answered'
  <2>1. Stream(c.buf, toClient, s.out, Reply, reset')
    BY <1>9, StreamStays DEF Answered, Worse
  <2>2. Reply' = Reply
    BY <1>5 DEF Reply
  <2>3. pc = "closed" /\ disturbed' = FALSE => s.out = <<>>
    BY <1>9
  <2> QED
    BY <1>4, <1>5, <1>9, <2>1, <2>2, <2>3 DEF Answered, Worse
<1>10. Places'
  BY <1>1, <1>4, <1>5 DEF Places, Worse
<1>11. RegisteredAsSent'
  BY <1>1, <1>5 DEF RegisteredAsSent
<1> QED
  BY <1>1, <1>2, <1>6, <1>7, <1>8, <1>9, <1>10, <1>11 DEF ExchangeInv, Registration

-----------------------------------------------------------------------------
(***************************************************************************)
(* The client's steps.                                                     *)
(***************************************************************************)
\* What is sent after the server has closed the connection is sent by a
\* stranger, or after somebody died.
LEMMA ClientSendsNothingLate ==
  ASSUME ExchangeInv, c.out # <<>>, ServerClosed, reset = FALSE
  PROVE  disturbed = TRUE
<1> SUFFICES ASSUME disturbed = FALSE PROVE FALSE
  BY DEF ExchangeInv, TypeOK
<1>1. TypeOK /\ (Unregistered \/ Answered) /\ Places
  BY DEF ExchangeInv
<1>2. PICK m \in {Registration} \cup Strangers : ServerReads(m)
  BY DEF ExchangeInv
<1>3. s.pc = "closed" /\ Answered
  BY <1>1 DEF Places, ServerClosed, Unregistered
<1>4. s.buf = Registration /\ m = Registration
  BY <1>2, <1>3 DEF ServerReads, Answered
<1>5. Stream(s.buf, toServer, c.out, s.buf, reset)
  BY <1>2, <1>4 DEF ServerReads
<1>6. c.out = <<>>
  BY <1>1, <1>5, InvFacts, StreamIsEmpty
<1> QED
  BY <1>6

\* The client sends a part of its registration.
LEMMA ClientSendStep ==
  ASSUME ExchangeInv, ClientSend
  PROVE  ExchangeInv'
<1>1. TypeOK /\ (Unregistered \/ Answered) /\ Places /\ RegisteredAsSent
  BY DEF ExchangeInv
<1>2. /\ s' = s /\ toClient' = toClient /\ peers' = peers /\ list' = list
      /\ disturbed' = disturbed /\ c.pc = "send" /\ c.out # <<>>
      /\ reset \in BOOLEAN /\ disturbed \in BOOLEAN
  BY <1>1 DEF ClientSend, TypeOK
<1>3. CASE /\ ~reset
           /\ \E e \in send_all(c, toServer) :
                /\ c' = e.end
                /\ toServer' = IF ServerClosed THEN toServer ELSE e.pipe
           /\ reset' = ServerClosed
  <2>1. PICK m \in {Registration} \cup Strangers : ServerReads(m)
    BY DEF ExchangeInv
  <2>2. PICK e \in send_all(c, toServer) :
          /\ c' = e.end
          /\ toServer' = IF ServerClosed THEN toServer ELSE e.pipe
    BY <1>3
  <2>3. PICK n \in 1..Len(c.out) :
          /\ e.end \in End(ClientPC) /\ e.end.pc = c.pc
          /\ e.end.buf = c.buf /\ e.end.len = c.len
          /\ e.end.out = SubSeq(c.out, n + 1, Len(c.out))
          /\ e.pipe = toServer \o SubSeq(c.out, 1, n)
          /\ e.pipe \in Seq(Byte) /\ Len(e.pipe) <= Capacity
    BY <1>1, InvFacts, Sent
  <2>4. /\ c' \in End(ClientPC) /\ c'.pc = c.pc /\ c'.buf = c.buf /\ c'.len = c.len
        /\ c'.out = SubSeq(c.out, n + 1, Len(c.out))
    BY <2>2, <2>3
  <2>5. reset = FALSE /\ reset' \in BOOLEAN /\ (reset' = TRUE <=> ServerClosed)
    <3>1. reset = FALSE /\ reset' = ServerClosed
      BY <1>2, <1>3
    <3>2. ServerClosed \in BOOLEAN
      BY DEF ServerClosed
    <3> QED
      BY <3>1, <3>2
  <2>6. disturbed = FALSE => reset' = FALSE
    BY <1>2, <2>5, ClientSendsNothingLate
  <2>7. toServer' \in Seq(Byte) /\ Len(toServer') <= Capacity
    BY <1>1, <2>2, <2>3, InvFacts
  <2>8. TypeOK'
    BY <1>1, <1>2, <2>4, <2>5, <2>7 DEF TypeOK
  <2>9. ServerReads(m)'
    <3>1. Stream(s.buf, toServer, c.out, m, reset) /\ m \in Seq(Byte)
      BY <2>1, MessageType DEF ServerReads
    <3>2. Stream(s.buf, toServer', c'.out, m, reset')
      <4>1. CASE ServerClosed
        <5>1. toServer' = toServer /\ reset' = TRUE
          BY <2>2, <2>5, <4>1
        <5>2. Stream(s.buf, toServer, c'.out, m, TRUE)
          BY <1>1, <3>1, InvFacts, StreamBreaks
        <5> QED
          BY <5>1, <5>2
      <4>2. CASE ~ServerClosed
        <5>1. toServer' = toServer \o SubSeq(c.out, 1, n)
          BY <2>2, <2>3, <4>2
        <5>2. Stream(s.buf, toServer \o SubSeq(c.out, 1, n),
                     SubSeq(c.out, n + 1, Len(c.out)), m, reset')
          BY <1>1, <2>5, <3>1, InvFacts, StreamSend
        <5> QED
          BY <2>4, <5>1, <5>2
      <4> QED
        BY <4>1, <4>2
    <3> QED
      BY <1>2, <2>1, <3>2 DEF ServerReads
  <2>10. ASSUME Unregistered PROVE Unregistered'
    BY <1>2, <2>4, <2>10 DEF Unregistered
  <2>11. ASSUME Answered PROVE Answered'
    <3>1. Stream(c.buf, toClient, s.out, Reply, reset')
      BY <2>5, <2>11, StreamStays DEF Answered
    <3>2. Reply' = Reply
      BY <1>2 DEF Reply
    <3> QED
      BY <1>2, <2>4, <2>11, <3>1, <3>2 DEF Answered
  <2>12. Places'
    BY <1>1, <1>2, <2>4, <2>6 DEF Places
  <2>13. RegisteredAsSent'
    BY <1>1, <1>2 DEF RegisteredAsSent
  <2> QED
    BY <1>1, <2>8, <2>9, <2>10, <2>11, <2>12, <2>13 DEF ExchangeInv, Registration
<1>4. CASE /\ \E pc \in SendEnds("failed") : ClientGoTo(pc)
           /\ UNCHANGED <<toServer, reset>>
  <2>1. PICK pc \in SendEnds("failed") : ClientGoTo(pc)
    BY <1>4
  <2>2. reset = TRUE /\ pc \in {"failed", "killed"}
    BY <1>2, <2>1 DEF SendEnds
  <2>3. disturbed = TRUE /\ Worse
    BY <1>1, <1>2, <1>4, <2>2 DEF Places, Worse
  <2>4. c' = [c EXCEPT !.pc = pc] /\ pc \in {"header", "failed", "spin", "killed"}
    BY <2>1, <2>2 DEF ClientGoTo
  <2> QED
    BY <1>2, <1>4, <2>3, <2>4, ClientMoves
<1> QED
  BY <1>3, <1>4 DEF ClientSend

\* The client has sent everything, or has failed to.
LEMMA ClientAwaitsReplyStep ==
  ASSUME ExchangeInv, ClientAwaitsReply
  PROVE  ExchangeInv'
<1>1. TypeOK /\ Places
  BY DEF ExchangeInv
<1>2. /\ UNCHANGED <<s, toServer, toClient, peers, list>> /\ reset' = reset
      /\ c.pc = "send" /\ reset \in BOOLEAN /\ disturbed \in BOOLEAN
  BY <1>1 DEF ClientAwaitsReply, TypeOK
<1>3. CASE ClientGoTo("header") /\ UNCHANGED disturbed
  <2>1. Worse
    BY <1>1, <1>2, <1>3 DEF Worse, Places
  <2>2. c' = [c EXCEPT !.pc = "header"]
    BY <1>3 DEF ClientGoTo
  <2> QED
    BY <1>2, <2>1, <2>2, ClientMoves
<1>4. CASE ClientGoTo("failed") /\ disturbed' = TRUE
  <2>1. Worse
    BY <1>2, <1>4 DEF Worse
  <2>2. c' = [c EXCEPT !.pc = "failed"]
    BY <1>4 DEF ClientGoTo
  <2> QED
    BY <1>2, <2>1, <2>2, ClientMoves
<1> QED
  BY <1>3, <1>4 DEF ClientAwaitsReply

\* When the reply is all there, nothing is missing of it.
LEMMA NothingMissing ==
  ASSUME TypeOK, Answered, c.pc \in Receiving, Len(c.buf) = Len(Reply)
  PROVE  ~(Missing(c) > 0)
<1> DEFINE n == U64 + Len(peer_info_list_serialize(list))
<1>1. Len(Reply) = HeaderSize + n /\ n \in Nat
  BY ReplyIsRead DEF Answered, Reply
<1>2. c.pc = "body" => c.len = n
  BY DEF Answered
<1> HIDE DEF n
<1>3. c \in End(ClientPC) /\ HeaderSize \in Nat /\ c.len \in Nat
  BY InvFacts, Sizes
<1>4. CASE c.pc = "body"
  <2>1. Missing(c) = HeaderSize + c.len - Len(c.buf)
    BY <1>3, <1>4, MissingIs
  <2> QED
    BY <1>1, <1>2, <1>3, <1>4, <2>1
<1>5. CASE c.pc # "body"
  <2>1. Missing(c) = HeaderSize - Len(c.buf)
    BY <1>3, <1>5, MissingIs
  <2> QED
    BY <1>1, <1>3, <2>1
<1> QED
  BY <1>4, <1>5

\* The server has closed an undisturbed connection: the reply is all there.
LEMMA ClientWaitsInVain ==
  ASSUME ExchangeInv, c.pc \in Receiving, Missing(c) > 0, toClient = <<>>,
         ServerClosed
  PROVE  disturbed = TRUE
<1> SUFFICES ASSUME disturbed = FALSE PROVE FALSE
  BY DEF ExchangeInv, TypeOK
<1>1. TypeOK /\ (Unregistered \/ Answered) /\ Places
  BY DEF ExchangeInv
<1>2. s.pc = "closed" /\ Answered /\ reset = FALSE
  BY <1>1 DEF Places, ServerClosed, Unregistered
<1>3. s.out = <<>> /\ Stream(c.buf, toClient, s.out, Reply, reset)
  BY <1>2 DEF Answered
<1>4. c.buf \o <<>> \o <<>> = Reply
  BY <1>2, <1>3 DEF Stream
<1>5. c.buf \in Seq(Byte)
  BY <1>1, InvFacts
<1>6. c.buf = Reply
  BY <1>4, <1>5, ConcatEmptySeq
<1> QED
  BY <1>1, <1>2, <1>6, NothingMissing

\* The client receives a part of the reply.
LEMMA ClientRecvStep ==
  ASSUME ExchangeInv, ClientRecv
  PROVE  ExchangeInv'
<1>1. TypeOK /\ (Unregistered \/ Answered) /\ Places /\ RegisteredAsSent
  BY DEF ExchangeInv
<1>2. /\ s' = s /\ toServer' = toServer /\ reset' = reset /\ peers' = peers
      /\ list' = list /\ disturbed' = disturbed
      /\ c.pc \in Receiving /\ Missing(c) > 0
      /\ reset \in BOOLEAN /\ disturbed \in BOOLEAN
  BY <1>1 DEF ClientRecv, TypeOK
<1>3. CASE \E e \in recv_all(c, toClient) : c' = e.end /\ toClient' = e.pipe
  <2>1. PICK m \in {Registration} \cup Strangers : ServerReads(m)
    BY DEF ExchangeInv
  <2>2. PICK e \in recv_all(c, toClient) : c' = e.end /\ toClient' = e.pipe
    BY <1>3
  <2>3. PICK n \in 1..Len(toClient) :
          /\ e.end \in End(ClientPC) /\ e.end.pc = c.pc
          /\ e.end.out = c.out /\ e.end.len = c.len
          /\ e.end.buf = c.buf \o SubSeq(toClient, 1, n)
          /\ e.pipe = SubSeq(toClient, n + 1, Len(toClient))
          /\ e.pipe \in Seq(Byte) /\ Len(e.pipe) <= Capacity
    BY <1>1, InvFacts, Received
  <2>4. /\ c' \in End(ClientPC) /\ c'.pc = c.pc /\ c'.out = c.out /\ c'.len = c.len
        /\ c'.buf = c.buf \o SubSeq(toClient, 1, n)
        /\ toClient' = SubSeq(toClient, n + 1, Len(toClient))
        /\ toClient' \in Seq(Byte) /\ Len(toClient') <= Capacity
    BY <2>2, <2>3
  <2>5. toClient # <<>>
    BY <2>3
  <2>6. Answered
    BY <1>1, <2>5 DEF Unregistered
  <2>7. TypeOK'
    BY <1>1, <1>2, <2>4 DEF TypeOK
  <2>8. ServerReads(m)'
    BY <1>2, <2>1, <2>4 DEF ServerReads
  <2>9. Answered'
    <3>1. Stream(c.buf, toClient, s.out, Reply, reset)
      BY <2>6 DEF Answered
    <3>2. Stream(c.buf \o SubSeq(toClient, 1, n),
                 SubSeq(toClient, n + 1, Len(toClient)), s.out, Reply, reset)
      BY <1>1, <3>1, InvFacts, StreamRecv
    <3>3. Reply' = Reply
      BY <1>2 DEF Reply
    <3>4. Stream(c'.buf, toClient', s.out, Reply, reset)
      BY <2>4, <3>2
    <3>5. c.pc # "done"
      BY <1>2 DEF Receiving
    <3> QED
      BY <1>2, <2>4, <2>6, <3>3, <3>4, <3>5 DEF Answered
  <2>10. Places'
    BY <1>1, <1>2, <2>4 DEF Places
  <2>11. RegisteredAsSent'
    BY <1>1, <1>2 DEF RegisteredAsSent
  <2> QED
    BY <2>7, <2>8, <2>9, <2>10, <2>11 DEF ExchangeInv, Registration
<1>4. CASE /\ toClient = <<>>
           /\ \E pc \in RecvEnds(ServerClosed, "failed") : ClientGoTo(pc)
           /\ UNCHANGED toClient
  <2>1. PICK pc \in RecvEnds(ServerClosed, "failed") : ClientGoTo(pc)
    BY <1>4
  <2>2. pc = "failed" \/ (pc = "spin" /\ ServerClosed)
    BY <2>1 DEF RecvEnds
  <2>3. pc = "spin" => disturbed = TRUE
    BY <1>2, <1>4, <2>2, ClientWaitsInVain
  <2>4. Worse
    BY <1>1, <1>2 DEF Places, Worse
  <2>5. c' = [c EXCEPT !.pc = pc] /\ pc \in {"header", "failed", "spin", "killed"}
    BY <2>1, <2>2 DEF ClientGoTo
  <2>6. c.pc \notin {"done", "killed"}
    BY <1>2 DEF Receiving
  <2>7. pc \in {"killed", "spin"} => disturbed' = TRUE
    BY <1>2, <2>2, <2>3
  <2> QED
    BY <1>2, <1>4, <2>4, <2>5, <2>6, <2>7, ClientMoves
<1> QED
  BY <1>3, <1>4 DEF ClientRecv

\* The client has the header, and learns how much follows.
LEMMA ClientReadsHeaderStep ==
  ASSUME ExchangeInv, ClientReadsHeader
  PROVE  ExchangeInv'
<1>1. TypeOK /\ (Unregistered \/ Answered) /\ Places /\ RegisteredAsSent
  BY DEF ExchangeInv
<1>2. /\ s' = s /\ toServer' = toServer /\ reset' = reset /\ peers' = peers
      /\ list' = list /\ disturbed' = disturbed /\ toClient' = toClient
      /\ c.pc = "header" /\ Missing(c) = 0
      /\ reset \in BOOLEAN /\ disturbed \in BOOLEAN
  BY <1>1 DEF ClientReadsHeader, TypeOK
<1>3. CASE CommandCode(COMMAND_SEND_PEER_LIST, c.buf) # "SUCCESS"
  <2>1. c' = [c EXCEPT !.pc = "failed"]
    BY <1>3 DEF ClientReadsHeader, ClientGoTo
  <2>2. Worse
    BY <1>1, <1>2 DEF Places, Worse
  <2> QED
    BY <1>2, <2>1, <2>2, ClientMoves
<1>4. CASE CommandCode(COMMAND_SEND_PEER_LIST, c.buf) = "SUCCESS"
  <2>1. PICK m \in {Registration} \cup Strangers : ServerReads(m)
    BY DEF ExchangeInv
  <2> DEFINE n == command_header_deserialize(c.buf).value.command_len
  <2>2. c' = [c EXCEPT !.pc = "body", !.len = n]
    BY <1>4 DEF ClientReadsHeader
  <2>3. Len(c.buf) = HeaderSize /\ HeaderSize > 0 /\ c.buf \in Seq(Byte)
    <3>1. /\ c \in End(ClientPC) /\ c.buf \in Seq(Byte) /\ Len(c.buf) \in Nat
          /\ HeaderSize \in Nat /\ HeaderSize > 0
      BY <1>1, InvFacts, CommandsAssumption, Sizes DEF HeaderSize
    <3>2. Missing(c) = HeaderSize - Len(c.buf)
      BY <1>2, <3>1, MissingIs
    <3> QED
      BY <1>2, <3>1, <3>2
  <2>4. Answered
    BY <1>1, <2>3 DEF Unregistered
  <2>5. n = U64 + Len(peer_info_list_serialize(list)) /\ n \in Nat
    <3>1. Fits(list) /\ Stream(c.buf, toClient, s.out, ReplyOf(list), reset)
      BY <2>4 DEF Answered, Reply
    <3>2. ReplyOf(list) \in Seq(Byte) /\ U64 + Len(peer_info_list_serialize(list)) \in Nat
      BY <3>1, ReplyIsRead
    <3>3. toClient \in Seq(Byte)
      BY <1>1, InvFacts
    <3>4. Begins(c.buf, ReplyOf(list))
      BY <2>3, <3>1, <3>2, <3>3, BeginsShorter DEF Stream
    <3> QED
      BY <2>3, <3>1, <3>2, <3>4, ReplyHeader
  <2>0. PICK k \in Nat : k = n
    BY <2>5
  <2>6. /\ c' \in End(ClientPC) /\ c'.pc = "body" /\ c'.out = c.out
        /\ c'.buf = c.buf /\ c'.len = k
    <3>1. c \in End(ClientPC) /\ "body" \in ClientPC
      BY <1>1, InvFacts DEF ClientPC, Receiving
    <3> QED
      <4>1. c' = [c EXCEPT !.pc = "body", !.len = k]
        BY <2>0, <2>2, Zenon
      <4> HIDE DEF n
      <4> QED
        BY <3>1, <4>1 DEF End
  <2> HIDE DEF n
  <2>7. TypeOK'
    BY <1>1, <1>2, <2>6 DEF TypeOK
  <2>8. ServerReads(m)'
    BY <1>2, <2>1, <2>6 DEF ServerReads
  <2>9. Answered'
    <3>1. Reply' = Reply
      BY <1>2 DEF Reply
    <3>2. c'.len = U64 + Len(peer_info_list_serialize(list'))
      BY <1>2, <2>0, <2>5, <2>6
    <3> QED
      BY <1>2, <2>4, <2>6, <3>1, <3>2 DEF Answered
  <2>10. Places'
    BY <1>1, <1>2, <2>6 DEF Places
  <2>11. RegisteredAsSent'
    BY <1>1, <1>2 DEF RegisteredAsSent
  <2> QED
    BY <2>7, <2>8, <2>9, <2>10, <2>11 DEF ExchangeInv, Registration
<1> QED
  BY <1>3, <1>4

\* The client has the reply and reads the list in it.
LEMMA ClientReadsReplyStep ==
  ASSUME ExchangeInv, ClientReadsReply
  PROVE  ExchangeInv'
<1> DEFINE reply == command_send_peer_list_deserialize(c.buf)
           new   == peer_info_list_deserialize(reply.value)
<1>1. TypeOK /\ (Unregistered \/ Answered) /\ Places /\ RegisteredAsSent
  BY DEF ExchangeInv
<1>2. /\ s' = s /\ toServer' = toServer /\ reset' = reset
      /\ list' = list /\ disturbed' = disturbed /\ toClient' = toClient
      /\ c.pc = "body" /\ Missing(c) = 0
      /\ reset \in BOOLEAN /\ disturbed \in BOOLEAN
  BY <1>1 DEF ClientReadsReply, TypeOK
<1>3. Answered
  BY <1>1, <1>2 DEF Unregistered
<1>4. c.buf = Reply
  <2>0. PICK n \in Nat : n = U64 + Len(peer_info_list_serialize(list))
    BY <1>3, ReplyIsRead DEF Answered
  <2>1. Reply \in Seq(Byte) /\ Len(Reply) = HeaderSize + n /\ n \in Nat
    BY <1>3, <2>0, ReplyIsRead DEF Answered, Reply
  <2>2. c.len = n /\ Stream(c.buf, toClient, s.out, Reply, reset)
    BY <1>2, <1>3, <2>0 DEF Answered
  <2>3. /\ c \in End(ClientPC) /\ c.buf \in Seq(Byte) /\ Len(c.buf) \in Nat
        /\ toClient \in Seq(Byte) /\ HeaderSize \in Nat
    BY <1>1, InvFacts, Sizes
  <2>4. Missing(c) = HeaderSize + c.len - Len(c.buf)
    BY <1>2, <2>3, MissingIs
  <2>5. Len(c.buf) = Len(Reply)
    <3>1. /\ Missing(c) = 0 /\ Len(c.buf) \in Nat /\ HeaderSize \in Nat /\ n \in Nat
          /\ Missing(c) = HeaderSize + n - Len(c.buf) /\ Len(Reply) = HeaderSize + n
      BY <1>2, <2>1, <2>2, <2>3, <2>4, Zenon
    <3>2. \A x, y, k, h \in Nat : \A i \in Int : i = 0 /\ i = h + k - x /\ y = h + k => x = y
      OBVIOUS
    <3>3. Len(Reply) \in Nat /\ Missing(c) \in Int
      BY <2>1, <2>3, MissingIs
    <3> QED
      BY <3>1, <3>2, <3>3, Zenon
  <2> QED
    BY <2>1, <2>2, <2>3, <2>5, StreamIsWhole
<1>5. reply = Success(peer_info_list_serialize(list)) /\ Fits(list)
  BY <1>3, <1>4, ReplyIsRead DEF Answered, Reply
<1>6. reply.code = "SUCCESS" /\ reply.value = peer_info_list_serialize(list)
  BY <1>5 DEF Success
<1>7. new.code = "SUCCESS" /\ new.value = list
  BY <1>5, <1>6, ReplyIsRead DEF Success
<1>8. c' = [c EXCEPT !.pc = "done"] /\ peers' = list
  BY <1>6, <1>7 DEF ClientReadsReply, ClientGoTo
<1>9. PICK m \in {Registration} \cup Strangers : ServerReads(m)
  BY DEF ExchangeInv
<1>10. /\ c' \in End(ClientPC) /\ c'.pc = "done" /\ c'.out = c.out
       /\ c'.buf = c.buf /\ c'.len = c.len
  <2>1. c \in End(ClientPC) /\ "done" \in ClientPC
    BY <1>1, InvFacts DEF ClientPC
  <2> QED
    BY <1>8, <2>1, GoTo
<1> HIDE DEF reply, new
<1>11. TypeOK'
  BY <1>1, <1>2, <1>8, <1>10 DEF TypeOK
<1>12. ServerReads(m)'
  BY <1>2, <1>9, <1>10 DEF ServerReads
<1>13. Answered'
  <2>1. Reply' = Reply
    BY <1>2 DEF Reply
  <2> QED
    BY <1>2, <1>3, <1>4, <1>8, <1>10, <2>1 DEF Answered
<1>14. Places'
  BY <1>1, <1>2, <1>10 DEF Places
<1>15. RegisteredAsSent'
  BY <1>1, <1>2 DEF RegisteredAsSent
<1> QED
  BY <1>11, <1>12, <1>13, <1>14, <1>15 DEF ExchangeInv, Registration

-----------------------------------------------------------------------------
(***************************************************************************)
(* The server's steps.                                                     *)
(***************************************************************************)
LEMMA ServerRecvStep ==
  ASSUME ExchangeInv, ServerRecv
  PROVE  ExchangeInv'
<1>1. TypeOK /\ (Unregistered \/ Answered) /\ Places /\ RegisteredAsSent
  BY DEF ExchangeInv
<1>2. /\ c' = c /\ toClient' = toClient /\ peers' = peers /\ list' = list
      /\ disturbed' = disturbed /\ s.pc \in Receiving
      /\ reset \in BOOLEAN /\ disturbed \in BOOLEAN
  BY <1>1 DEF ServerRecv, TypeOK
<1>3. Unregistered
  BY <1>1, <1>2 DEF Answered, Receiving
<1>4. CASE \E e \in recv_all(s, toServer) :
             s' = e.end /\ toServer' = e.pipe /\ UNCHANGED reset
  <2>1. PICK m \in {Registration} \cup Strangers : ServerReads(m)
    BY DEF ExchangeInv
  <2>2. PICK e \in recv_all(s, toServer) :
          s' = e.end /\ toServer' = e.pipe /\ reset' = reset
    BY <1>4
  <2>3. PICK n \in 1..Len(toServer) :
          /\ e.end \in End(ServerPC) /\ e.end.pc = s.pc
          /\ e.end.out = s.out /\ e.end.len = s.len
          /\ e.end.buf = s.buf \o SubSeq(toServer, 1, n)
          /\ e.pipe = SubSeq(toServer, n + 1, Len(toServer))
          /\ e.pipe \in Seq(Byte) /\ Len(e.pipe) <= Capacity
    BY <1>1, InvFacts, Received
  <2>4. /\ s' \in End(ServerPC) /\ s'.pc = s.pc /\ s'.out = s.out /\ s'.len = s.len
        /\ s'.buf = s.buf \o SubSeq(toServer, 1, n)
        /\ toServer' = SubSeq(toServer, n + 1, Len(toServer))
        /\ toServer' \in Seq(Byte) /\ Len(toServer') <= Capacity
    BY <2>2, <2>3
  <2>5. TypeOK'
    BY <1>1, <1>2, <2>2, <2>4 DEF TypeOK
  <2>6. ServerReads(m)'
    <3>1. Stream(s.buf, toServer, c.out, m, reset)
      BY <2>1 DEF ServerReads
    <3>2. Stream(s.buf \o SubSeq(toServer, 1, n),
                 SubSeq(toServer, n + 1, Len(toServer)), c.out, m, reset)
      BY <1>1, <3>1, InvFacts, StreamRecv
    <3>3. Stream(s'.buf, toServer', c.out, m, reset)
      BY <2>4, <3>2
    <3> QED
      BY <1>2, <2>1, <2>2, <2>4, <3>3 DEF ServerReads
  <2>7. Unregistered'
    BY <1>2, <1>3, <2>4 DEF Unregistered, Receiving
  <2>8. Places'
    BY <1>1, <1>2, <2>2, <2>4 DEF Places
  <2>9. RegisteredAsSent'
    BY <1>1, <1>2 DEF RegisteredAsSent
  <2> QED
    BY <2>5, <2>6, <2>7, <2>8, <2>9 DEF ExchangeInv, Registration
<1>5. CASE /\ toServer = <<>>
           /\ \E pc \in RecvEnds(ClientClosed, "closed") : ServerGoTo(pc)
           /\ UNCHANGED <<toServer, reset>>
  <2>1. PICK pc \in RecvEnds(ClientClosed, "closed") : ServerGoTo(pc)
    BY <1>5
  <2>2. (pc = "closed" /\ reset = TRUE) \/ (pc = "spin" /\ ClientClosed)
    BY <1>2, <2>1 DEF RecvEnds
  <2>3. pc = "closed" => disturbed' = TRUE
    BY <1>1, <1>2, <2>2 DEF Places
  <2>4. pc = "spin" => c.pc = "killed"
    BY <1>3, <2>2 DEF Unregistered, ClientClosed
  <2>5. Worse
    BY <1>1, <1>2, <1>5 DEF Places, Worse
  <2>6. s' = [s EXCEPT !.pc = pc] /\ pc \in {"closed", "spin", "killed"}
    BY <2>1, <2>2 DEF ServerGoTo
  <2> QED
    BY <1>2, <1>5, <2>2, <2>3, <2>4, <2>5, <2>6, ServerMoves
<1> QED
  BY <1>4, <1>5 DEF ServerRecv

\* The server refuses a command: a stranger sent it.
LEMMA ServerRefuses ==
  ASSUME ExchangeInv, ServerCloses, disturbed = TRUE,
         UNCHANGED <<c, toServer, toClient, peers, list, disturbed>>
  PROVE  ExchangeInv'
<1>1. s' = [s EXCEPT !.pc = "closed"] /\ reset' = (reset \/ toServer # <<>>)
  BY DEF ServerCloses, ServerGoTo
<1>2. reset \in BOOLEAN /\ disturbed' = TRUE
  BY DEF ExchangeInv, TypeOK
<1>3. Worse
  BY <1>1, <1>2 DEF Worse
<1> QED
  BY <1>1, <1>2, <1>3, ServerMoves

\* The server has the header of a registration.
LEMMA ServerReadsHeaderStep ==
  ASSUME ExchangeInv, ServerReadsHeader
  PROVE  ExchangeInv'
<1>1. TypeOK /\ (Unregistered \/ Answered) /\ Places /\ RegisteredAsSent
  BY DEF ExchangeInv
<1>2. /\ c' = c /\ toServer' = toServer /\ toClient' = toClient /\ peers' = peers
      /\ list' = list /\ disturbed' = disturbed
      /\ s.pc = "header" /\ Missing(s) = 0
      /\ reset \in BOOLEAN /\ disturbed \in BOOLEAN
  BY <1>1 DEF ServerReadsHeader, TypeOK
<1>3. PICK m \in {Registration} \cup Strangers : ServerReads(m)
  BY DEF ExchangeInv
<1>4. /\ s \in End(ServerPC) /\ s.buf \in Seq(Byte) /\ Len(s.buf) = HeaderSize
      /\ toServer \in Seq(Byte) /\ m \in Seq(Byte)
  <2>1. /\ s \in End(ServerPC) /\ s.buf \in Seq(Byte) /\ Len(s.buf) \in Nat
        /\ HeaderSize \in Nat /\ toServer \in Seq(Byte) /\ m \in Seq(Byte)
    BY <1>1, InvFacts, MessageType, Sizes
  <2>2. Missing(s) = HeaderSize - Len(s.buf)
    BY <1>2, <2>1, MissingIs
  <2> QED
    BY <1>2, <2>1, <2>2
<1>5. Begins(s.buf, m)
  BY <1>3, <1>4, BeginsShorter DEF ServerReads, Stream
<1>6. m = Registration =>
        /\ CommandCode(COMMAND_REGISTER_PEER, s.buf) = "SUCCESS"
        /\ command_header_deserialize(s.buf).value.command_len
             = AddressSize + RegisterPadding
  BY <1>4, <1>5, RegistrationHeader
<1>7. CASE CommandCode(COMMAND_REGISTER_PEER, s.buf) # "SUCCESS"
  <2>1. disturbed = TRUE
    BY <1>2, <1>3, <1>6, <1>7 DEF ServerReads
  <2>2. ServerCloses
    BY <1>7 DEF ServerReadsHeader
  <2> QED
    BY <1>2, <2>1, <2>2, ServerRefuses
<1>8. CASE CommandCode(COMMAND_REGISTER_PEER, s.buf) = "SUCCESS"
  <2> DEFINE n == command_header_deserialize(s.buf).value.command_len
  <2>1. s' = [s EXCEPT !.pc = "body", !.len = n] /\ reset' = reset
    BY <1>8 DEF ServerReadsHeader
  <2>2. PICK k \in Nat : k = n
    <3>1. command_header_deserialize(s.buf).code = "SUCCESS"
      BY <1>8, Zenon DEF CommandCode
    <3>2. n \in Unsigned(U64)
      BY <1>4, <3>1, HeaderType
    <3> QED
      BY <3>2 DEF Unsigned
  <2>3. /\ s' \in End(ServerPC) /\ s'.pc = "body" /\ s'.out = s.out
        /\ s'.buf = s.buf /\ s'.len = k
    <3>1. "body" \in ServerPC
      BY DEF ServerPC, Receiving
    <3>2. s' = [s EXCEPT !.pc = "body", !.len = k]
      BY <2>1, <2>2, Zenon
    <3> HIDE DEF n
    <3> QED
      BY <1>4, <3>1, <3>2 DEF End
  <2>4. m = Registration => k = AddressSize + RegisterPadding
    BY <1>6, <2>2
  <2> HIDE DEF n
  <2>5. TypeOK'
    BY <1>1, <1>2, <2>1, <2>3 DEF TypeOK
  <2>6. ServerReads(m)'
    <3>1. Registration' = Registration
      BY DEF Registration
    <3> QED
      BY <1>2, <1>3, <2>1, <2>3, <2>4, <3>1 DEF ServerReads
  <2>7. Unregistered /\ ~Answered
    BY <1>1, <1>2 DEF Answered
  <2>8. Unregistered'
    BY <1>2, <2>3, <2>7 DEF Unregistered
  <2>9. Places'
    BY <1>1, <1>2, <2>1, <2>3 DEF Places
  <2>10. RegisteredAsSent'
    BY <1>1, <1>2 DEF RegisteredAsSent
  <2> QED
    BY <2>5, <2>6, <2>8, <2>9, <2>10 DEF ExchangeInv, Registration
<1> QED
  BY <1>7, <1>8

\* The server has the whole registration and reads it.
LEMMA ServerReadsCommandStep ==
  ASSUME ExchangeInv, ServerReadsCommand
  PROVE  ExchangeInv'
<1>1. TypeOK /\ (Unregistered \/ Answered) /\ Places /\ RegisteredAsSent
  BY DEF ExchangeInv
<1>2. /\ c' = c /\ toServer' = toServer /\ toClient' = toClient /\ peers' = peers
      /\ list' = list /\ disturbed' = disturbed
      /\ s.pc = "body" /\ Missing(s) = 0
      /\ reset \in BOOLEAN /\ disturbed \in BOOLEAN
  BY <1>1 DEF ServerReadsCommand, TypeOK
<1>3. PICK m \in {Registration} \cup Strangers : ServerReads(m)
  BY DEF ExchangeInv
<1>4. /\ s \in End(ServerPC) /\ s.buf \in Seq(Byte) /\ Len(s.buf) \in Nat
      /\ HeaderSize \in Nat /\ toServer \in Seq(Byte) /\ m \in Seq(Byte)
      /\ Stream(s.buf, toServer, c.out, m, reset)
  BY <1>1, <1>3, InvFacts, MessageType, Sizes DEF ServerReads
<1>5. Begins(s.buf, m)
  BY <1>4, BeginsShorter DEF Stream
<1>6. m = Registration => s.buf = Registration
  <2> SUFFICES ASSUME m = Registration PROVE s.buf = m
    OBVIOUS
  <2>1. PICK k \in Nat : k = AddressSize + RegisterPadding
    BY Sizes
  <2>2. s.len = k /\ Len(m) = HeaderSize + k
    BY <1>2, <1>3, <2>1, RegistrationIsRead DEF ServerReads
  <2>3. Missing(s) = HeaderSize + s.len - Len(s.buf)
    BY <1>2, <1>4, MissingIs
  <2>4. Len(s.buf) = Len(m)
    <3>1. Len(m) \in Nat /\ 0 = HeaderSize + k - Len(s.buf)
      <4>1. Len(m) \in Nat
        BY <1>4
      <4> QED
        BY <1>2, <2>2, <2>3, <4>1, Zenon
    <3>2. \A x, y, i, h \in Nat : 0 = h + i - x /\ y = h + i => x = y
      OBVIOUS
    <3> QED
      BY <1>4, <2>2, <3>1, <3>2, Zenon
  <2> QED
    BY <1>4, <2>4, StreamIsWhole
<1>7. CASE command_register_peer_deserialize(s.buf).code # "SUCCESS"
  <2>1. m # Registration
    BY <1>6, <1>7, RegistrationIsRead DEF Success
  <2>2. disturbed = TRUE
    BY <1>2, <1>3, <2>1 DEF ServerReads
  <2>3. ServerCloses
    BY <1>7 DEF ServerReadsCommand
  <2> QED
    BY <1>2, <2>2, <2>3, ServerRefuses
<1>8. CASE command_register_peer_deserialize(s.buf).code = "SUCCESS"
  <2>1. s.buf = Registration
    BY <1>3, <1>4, <1>5, <1>6, <1>8, StrangersAreRefused
  <2>2. s' = [s EXCEPT !.pc = "register"] /\ reset' = reset
    BY <1>8 DEF ServerReadsCommand, ServerGoTo
  <2>3. /\ s' \in End(ServerPC) /\ s'.pc = "register" /\ s'.out = s.out
        /\ s'.buf = s.buf /\ s'.len = s.len
    <3>1. "register" \in ServerPC
      BY DEF ServerPC
    <3> QED
      BY <1>4, <2>2, <3>1, GoTo
  <2>4. Registration' = Registration
    BY DEF Registration
  <2>5. TypeOK'
    BY <1>1, <1>2, <2>2, <2>3 DEF TypeOK
  <2>6. ServerReads(m)'
    BY <1>2, <1>3, <2>2, <2>3, <2>4 DEF ServerReads
  <2>7. Unregistered /\ ~Answered
    BY <1>1, <1>2 DEF Answered
  <2>8. Unregistered'
    BY <1>2, <2>1, <2>3, <2>4, <2>7 DEF Unregistered
  <2>9. Places'
    BY <1>1, <1>2, <2>2, <2>3 DEF Places
  <2>10. RegisteredAsSent'
    BY <1>1, <1>2 DEF RegisteredAsSent
  <2> QED
    BY <2>5, <2>6, <2>8, <2>9, <2>10 DEF ExchangeInv, Registration
<1> QED
  BY <1>7, <1>8

\* The server registers the peer, drops the old ones and replies.
LEMMA ServerRegistersStep ==
  ASSUME ExchangeInv, ServerRegisters
  PROVE  ExchangeInv'
<1>1. TypeOK /\ (Unregistered \/ Answered) /\ Places /\ RegisteredAsSent
  BY DEF ExchangeInv
<1>2. /\ c' = c /\ toServer' = toServer /\ toClient' = toClient /\ peers' = peers
      /\ reset' = reset /\ disturbed' = disturbed /\ s.pc = "register"
  BY DEF ServerRegisters
<1>3. /\ Unregistered /\ s.buf = Registration /\ list \in Known
      /\ c.pc \notin {"body", "done"} /\ c.buf = <<>> /\ toClient = <<>>
  BY <1>1, <1>2 DEF Answered, Unregistered
<1>4. PICK m \in {Registration} \cup Strangers : ServerReads(m)
  BY DEF ExchangeInv
<1>5. command_register_peer_deserialize(s.buf).value = Self
  BY <1>3, RegistrationIsRead DEF Success
<1>6. PICK d \in Delays :
        list' = Active(Registered(list, [listen_addr    |-> Self,
                                         last_connected |-> Now]), Now + d)
  BY <1>5, Zenon DEF ServerRegisters
<1>7. /\ list' \in Seq(PeerInfo) /\ Len(list') <= Len(list) + 1
      /\ Prompt => \E i \in 1..Len(list') : list'[i].listen_addr = Self
      /\ \A i \in 1..Len(list') :
           list'[i].listen_addr = Self \/ \E j \in 1..Len(list) : list[j] = list'[i]
  <2>1. list \in Seq(PeerInfo) /\ Self \in Address
    BY <1>3, ConstantTypes
  <2>2. PICK info : info = [listen_addr |-> Self, last_connected |-> Now]
    OBVIOUS
  <2>3. list' = Active(Registered(list, info), Now + d)
    BY <1>6, <2>2, Zenon
  <2>4. d \in Nat /\ (Prompt => d <= Keepalive)
    BY ExchangeAssumption DEF Prompt
  <2>5. Enters(list', list, Self, d)
    BY <2>1, <2>2, <2>3, <2>4, RegisteringKeeps, Zenon
  <2> QED
    BY <2>4, <2>5, Zenon DEF Enters
<1>8. Fits(list')
  <2>1. U64 + (Len(list) + 1) * PeerInfoSize <= CallocLimit /\ list \in Seq(PeerInfo)
    BY <1>3, ConstantTypes
  <2>2. /\ Len(list) \in Nat /\ Len(list') \in Nat /\ PeerInfoSize \in Nat
        /\ U64 \in Nat /\ CallocLimit \in Int
    BY <1>7, <2>1, Sizes, WordSize
  <2>3. \A x, y, p \in Nat : x <= y => x * p <= y * p /\ x * p \in Nat /\ y * p \in Nat
    OBVIOUS
  <2>4. /\ Len(list') * PeerInfoSize <= (Len(list) + 1) * PeerInfoSize
        /\ Len(list') * PeerInfoSize \in Nat /\ (Len(list) + 1) * PeerInfoSize \in Nat
    <3>1. Len(list) + 1 \in Nat
      BY <2>2
    <3> QED
      BY <1>7, <2>2, <2>3, <3>1, Zenon
  <2>5. U64 + Len(list') * PeerInfoSize <= CallocLimit
    <3>1. \A x, y, u \in Nat : \A k \in Int : u + y <= k /\ x <= y => u + x <= k
      OBVIOUS
    <3> QED
      BY <2>1, <2>2, <2>4, <3>1, Zenon
  <2> QED
    BY <1>7, <2>5 DEF Fits
<1>9. ReplyOf(list') \in Seq(Byte) /\ Reply' = ReplyOf(list')
  BY <1>8, ReplyIsRead DEF Reply
<1>10. s' = [s EXCEPT !.pc = "send", !.out = ReplyOf(list')]
  BY Zenon DEF ServerRegisters, ReplyOf
<1>11. /\ s' \in End(ServerPC) /\ s'.pc = "send" /\ s'.out = ReplyOf(list')
       /\ s'.buf = s.buf /\ s'.len = s.len
  <2>1. s \in End(ServerPC) /\ "send" \in ServerPC
    BY <1>1, InvFacts DEF ServerPC
  <2>2. PICK r \in Seq(Byte) : r = ReplyOf(list')
    BY <1>9
  <2>3. s' = [s EXCEPT !.pc = "send", !.out = r]
    BY <1>10, <2>2
  <2>4. /\ s' \in End(ServerPC) /\ s'.pc = "send" /\ s'.out = r
        /\ s'.buf = s.buf /\ s'.len = s.len
    BY <2>1, <2>3 DEF End
  <2> QED
    BY <2>2, <2>4
<1>12. TypeOK'
  BY <1>1, <1>2, <1>7, <1>11 DEF TypeOK
<1>13. ServerReads(m)'
  BY <1>2, <1>4, <1>11 DEF ServerReads
<1>14. Answered'
  <2>1. Stream(<<>>, <<>>, ReplyOf(list'), ReplyOf(list'), reset)
    <3>1. PICK r \in Seq(Byte) : r = ReplyOf(list')
      BY <1>9
    <3>2. <<>> \o <<>> = <<>> /\ <<>> \o r = r /\ <<>> \in Seq(Byte)
      BY ConcatEmptySeq
    <3>3. Begins(<<>>, r)
      BY <3>2, BeginsIff
    <3>4. Stream(<<>>, <<>>, r, r, reset)
      BY <3>2, <3>3, Zenon DEF Stream
    <3> QED
      BY <3>1, <3>4
  <2>2. Stream(c'.buf, toClient', s'.out, Reply', reset')
    BY <1>2, <1>3, <1>9, <1>11, <2>1
  <2>3. Registration' = Registration
    BY DEF Registration
  <2> QED
    BY <1>2, <1>3, <1>7, <1>8, <1>11, <2>2, <2>3 DEF Answered
<1>15. Places'
  BY <1>1, <1>2, <1>11 DEF Places
<1>16. RegisteredAsSent'
  BY <1>3, <1>7 DEF RegisteredAsSent
<1> QED
  BY <1>12, <1>13, <1>14, <1>15, <1>16 DEF ExchangeInv, Registration

\* What is sent after the client has closed the connection is sent after
\* somebody died.
LEMMA ServerSendsNothingLate ==
  ASSUME ExchangeInv, s.pc = "send", s.out # <<>>, ClientClosed, reset = FALSE
  PROVE  disturbed = TRUE
<1> SUFFICES ASSUME disturbed = FALSE PROVE FALSE
  BY DEF ExchangeInv, TypeOK
<1>1. TypeOK /\ (Unregistered \/ Answered) /\ Places
  BY DEF ExchangeInv
<1>2. c.pc = "done" /\ Answered
  BY <1>1 DEF Places, ClientClosed, Unregistered
<1>3. c.buf = Reply /\ Stream(c.buf, toClient, s.out, Reply, reset)
  BY <1>2 DEF Answered
<1>4. Stream(c.buf, toClient, s.out, c.buf, reset)
  BY <1>3
<1>5. s.out = <<>>
  BY <1>1, <1>4, InvFacts, StreamIsEmpty
<1> QED
  BY <1>5

\* The server sends a part of the reply.
LEMMA ServerSendStep ==
  ASSUME ExchangeInv, ServerSend
  PROVE  ExchangeInv'
<1>1. TypeOK /\ (Unregistered \/ Answered) /\ Places /\ RegisteredAsSent
  BY DEF ExchangeInv
<1>2. /\ c' = c /\ toServer' = toServer /\ peers' = peers /\ list' = list
      /\ disturbed' = disturbed /\ s.pc = "send"
      /\ reset \in BOOLEAN /\ disturbed \in BOOLEAN
  BY <1>1 DEF ServerSend, TypeOK
<1>3. Answered /\ ~Unregistered
  BY <1>1, <1>2 DEF Unregistered
<1>4. PICK m \in {Registration} \cup Strangers : ServerReads(m)
  BY DEF ExchangeInv
<1>5. CASE /\ s.out # <<>> /\ ~reset
           /\ \E e \in send_all(s, toClient) :
                /\ s' = e.end
                /\ toClient' = IF ClientClosed THEN toClient ELSE e.pipe
           /\ reset' = ClientClosed
  <2>1. PICK e \in send_all(s, toClient) :
          /\ s' = e.end
          /\ toClient' = IF ClientClosed THEN toClient ELSE e.pipe
    BY <1>5
  <2>2. PICK n \in 1..Len(s.out) :
          /\ e.end \in End(ServerPC) /\ e.end.pc = s.pc
          /\ e.end.buf = s.buf /\ e.end.len = s.len
          /\ e.end.out = SubSeq(s.out, n + 1, Len(s.out))
          /\ e.pipe = toClient \o SubSeq(s.out, 1, n)
          /\ e.pipe \in Seq(Byte) /\ Len(e.pipe) <= Capacity
    BY <1>1, InvFacts, Sent
  <2>3. /\ s' \in End(ServerPC) /\ s'.pc = s.pc /\ s'.buf = s.buf /\ s'.len = s.len
        /\ s'.out = SubSeq(s.out, n + 1, Len(s.out))
    BY <2>1, <2>2
  <2>4. reset = FALSE /\ reset' \in BOOLEAN /\ (reset' = TRUE <=> ClientClosed)
    <3>1. reset = FALSE /\ reset' = ClientClosed
      BY <1>2, <1>5
    <3>2. ClientClosed \in BOOLEAN
      BY DEF ClientClosed
    <3> QED
      BY <3>1, <3>2
  <2>5. disturbed = FALSE => reset' = FALSE
    BY <1>2, <1>5, <2>4, ServerSendsNothingLate
  <2>6. toClient' \in Seq(Byte) /\ Len(toClient') <= Capacity
    BY <1>1, <2>1, <2>2, InvFacts
  <2>7. TypeOK'
    BY <1>1, <1>2, <2>3, <2>4, <2>6 DEF TypeOK
  <2>8. ServerReads(m)'
    <3>1. Stream(s.buf, toServer, c.out, m, reset')
      BY <1>4, <2>4, StreamStays DEF ServerReads
    <3> QED
      BY <1>2, <1>4, <2>3, <3>1 DEF ServerReads
  <2>9. Answered'
    <3>1. Stream(c.buf, toClient, s.out, Reply, reset) /\ Reply \in Seq(Byte)
      BY <1>3, ReplyIsRead DEF Answered, Reply
    <3>2. Stream(c.buf, toClient', s'.out, Reply, reset')
      <4>1. CASE ClientClosed
        <5>1. toClient' = toClient /\ reset' = TRUE
          BY <2>1, <2>4, <4>1
        <5>2. Stream(c.buf, toClient, s'.out, Reply, TRUE)
          BY <1>1, <3>1, InvFacts, StreamBreaks
        <5> QED
          BY <5>1, <5>2
      <4>2. CASE ~ClientClosed
        <5>1. toClient' = toClient \o SubSeq(s.out, 1, n)
          BY <2>1, <2>2, <4>2
        <5>2. Stream(c.buf, toClient \o SubSeq(s.out, 1, n),
                     SubSeq(s.out, n + 1, Len(s.out)), Reply, reset')
          BY <1>1, <2>4, <3>1, InvFacts, StreamSend
        <5> QED
          BY <2>3, <5>1, <5>2
      <4> QED
        BY <4>1, <4>2
    <3>3. Reply' = Reply
      BY <1>2 DEF Reply
    <3> QED
      BY <1>2, <1>3, <2>3, <3>2, <3>3 DEF Answered
  <2>10. Places'
    BY <1>1, <1>2, <2>3, <2>5 DEF Places
  <2>11. RegisteredAsSent'
    BY <1>1, <1>2 DEF RegisteredAsSent
  <2> QED
    BY <2>7, <2>8, <2>9, <2>10, <2>11 DEF ExchangeInv, Registration
<1>6. CASE /\ s.out # <<>>
           /\ \E pc \in SendEnds("closed") : ServerGoTo(pc)
           /\ UNCHANGED <<toClient, reset>>
  <2>1. PICK pc \in SendEnds("closed") : ServerGoTo(pc)
    BY <1>6
  <2>2. reset = TRUE /\ pc \in {"closed", "killed"}
    BY <1>2, <2>1 DEF SendEnds
  <2>3. disturbed' = TRUE /\ Worse
    BY <1>1, <1>2, <1>6, <2>2 DEF Places, Worse
  <2>4. s' = [s EXCEPT !.pc = pc] /\ pc \in {"closed", "spin", "killed"} /\ pc # "spin"
    BY <2>1, <2>2 DEF ServerGoTo
  <2> QED
    BY <1>2, <1>6, <2>3, <2>4, ServerMoves
<1>7. CASE s.out = <<>> /\ ServerCloses /\ UNCHANGED toClient
  <2>1. s' = [s EXCEPT !.pc = "closed"] /\ reset' = (reset \/ toServer # <<>>)
    BY <1>7 DEF ServerCloses, ServerGoTo
  <2>2. disturbed = FALSE => reset = FALSE /\ toServer = <<>>
    <3> SUFFICES ASSUME disturbed = FALSE PROVE reset = FALSE /\ toServer = <<>>
      OBVIOUS
    <3>1. s.buf = Registration /\ m = Registration /\ reset = FALSE
      BY <1>1, <1>3, <1>4 DEF ServerReads, Answered, Places
    <3>2. Stream(s.buf, toServer, c.out, s.buf, reset)
      BY <1>4, <3>1 DEF ServerReads
    <3> QED
      BY <1>1, <3>1, <3>2, InvFacts, StreamIsEmpty
  <2>3. Worse
    BY <1>2, <2>1, <2>2 DEF Worse
  <2> QED
    BY <1>2, <1>3, <1>7, <2>1, <2>3, ServerMoves
<1> QED
  BY <1>5, <1>6, <1>7 DEF ServerSend
-----------------------------------------------------------------------------
(***************************************************************************)
(* What happens to both.                                                   *)
(***************************************************************************)
LEMMA ResetStep ==
  ASSUME ExchangeInv, Reset
  PROVE  ExchangeInv'
<1>1. TypeOK /\ (Unregistered \/ Answered) /\ Places /\ RegisteredAsSent
  BY DEF ExchangeInv
<1>2. PICK m \in {Registration} \cup Strangers : ServerReads(m)
  BY DEF ExchangeInv
<1>3. /\ c' = c /\ s' = s /\ peers' = peers /\ list' = list
      /\ reset' = TRUE /\ disturbed' = TRUE /\ toServer' = <<>> /\ toClient' = <<>>
  BY DEF Reset
<1>4. TypeOK'
  <2>1. <<>> \in Seq(Byte) /\ Len(<<>>) <= Capacity
    BY ConstantTypes
  <2> QED
    BY <1>1, <1>3, <2>1 DEF TypeOK
<1>5. ServerReads(m)'
  <2>1. Stream(s.buf, <<>>, c.out, m, TRUE)
    BY <1>1, <1>2, InvFacts, MessageType, StreamBreaks DEF ServerReads
  <2> QED
    BY <1>2, <1>3, <2>1 DEF ServerReads
<1>6. ASSUME Unregistered PROVE Unregistered'
  BY <1>3, <1>6 DEF Unregistered
<1>7. ASSUME Answered PROVE Answered'
  <2>1. Reply \in Seq(Byte) /\ Stream(c.buf, toClient, s.out, Reply, reset)
    BY <1>7, ReplyIsRead DEF Answered, Reply
  <2>2. Stream(c.buf, <<>>, s.out, Reply, TRUE)
    BY <1>1, <2>1, InvFacts, StreamBreaks
  <2>3. Reply' = Reply
    BY <1>3 DEF Reply
  <2> QED
    BY <1>3, <1>7, <2>2, <2>3 DEF Answered
<1>8. Places'
  BY <1>1, <1>3 DEF Places
<1>9. RegisteredAsSent'
  BY <1>1, <1>3 DEF RegisteredAsSent
<1> QED
  BY <1>1, <1>4, <1>5, <1>6, <1>7, <1>8, <1>9 DEF ExchangeInv, Registration

\* A program ends or is killed.
LEMMA DiesStep ==
  ASSUME ExchangeInv, Dies
  PROVE  ExchangeInv'
<1>1. /\ disturbed' = TRUE /\ UNCHANGED <<toServer, toClient, peers, list>>
      /\ reset \in BOOLEAN
  BY DEF Dies, ExchangeInv, TypeOK
<1>2. CASE /\ ~ClientClosed /\ ClientGoTo("killed")
           /\ reset' = (reset \/ toClient # <<>>) /\ UNCHANGED s
  <2>1. c' = [c EXCEPT !.pc = "killed"] /\ c.pc \notin {"done", "killed"}
    BY <1>2 DEF ClientGoTo, ClientClosed
  <2>2. Worse
    BY <1>1, <1>2 DEF Worse
  <2> QED
    BY <1>1, <1>2, <2>1, <2>2, ClientMoves
<1>3. CASE /\ ~ServerClosed /\ ServerGoTo("killed")
           /\ reset' = (reset \/ toServer # <<>>) /\ UNCHANGED c
  <2>1. s' = [s EXCEPT !.pc = "killed"]
    BY <1>3 DEF ServerGoTo
  <2>2. Worse
    BY <1>1, <1>3 DEF Worse
  <2> QED
    BY <1>1, <1>3, <2>1, <2>2, ServerMoves
<1> QED
  BY <1>2, <1>3 DEF Dies

\* Nothing has been sent at the start.
LEMMA ExchangeStarts ==
  ASSUME Init
  PROVE  ExchangeInv
<1>1. PICK m \in {Registration} \cup Strangers :
        /\ c = [pc |-> "send", out |-> m, buf |-> <<>>, len |-> 0]
        /\ s = [pc |-> "header", out |-> <<>>, buf |-> <<>>, len |-> 0]
        /\ toServer = <<>> /\ toClient = <<>> /\ reset = FALSE
        /\ disturbed = (m \in Strangers)
        /\ peers = OldPeers
        /\ list \in Known
  BY DEF Init, Registration
<1>2. m \in Seq(Byte) /\ <<>> \in Seq(Byte) /\ Len(<<>>) <= Capacity
  BY MessageType, ConstantTypes
<1>3. TypeOK
  <2>1. "send" \in ClientPC /\ "header" \in ServerPC /\ 0 \in Nat
    BY DEF ClientPC, ServerPC, Receiving
  <2>2. c \in End(ClientPC) /\ s \in End(ServerPC)
    BY <1>1, <1>2, <2>1 DEF End
  <2>3. reset \in BOOLEAN /\ disturbed \in BOOLEAN
    <3>1. (m \in Strangers) \in BOOLEAN
      OBVIOUS
    <3> QED
      BY <1>1, <3>1, Zenon
  <2>4. peers \in Seq(PeerInfo) /\ list \in Seq(PeerInfo)
    BY <1>1, ConstantTypes
  <2> QED
    BY <1>1, <1>2, <2>2, <2>3, <2>4, Zenon DEF TypeOK
<1>4. /\ c.pc = "send" /\ c.out = m /\ c.buf = <<>>
      /\ s.pc = "header" /\ s.out = <<>> /\ s.buf = <<>>
  BY <1>1
<1>5. ServerReads(m)
  <2>1. <<>> \o <<>> = <<>> /\ <<>> \o m = m
    BY <1>2, ConcatEmptySeq
  <2>2. Begins(<<>>, m)
    BY <1>2, <2>1, BeginsIff
  <2>3. Stream(<<>>, <<>>, m, m, reset)
    BY <2>1, <2>2, Zenon DEF Stream
  <2> QED
    BY <1>1, <1>4, <2>3 DEF ServerReads
<1>6. Unregistered
  BY <1>1, <1>4 DEF Unregistered
<1>7. Places
  BY <1>1, <1>4 DEF Places
<1>8. RegisteredAsSent
  BY <1>1 DEF RegisteredAsSent
<1> QED
  BY <1>3, <1>5, <1>6, <1>7, <1>8 DEF ExchangeInv

\* Every step keeps the streams.
LEMMA ExchangeStep ==
  ASSUME ExchangeInv, [Next]_vars
  PROVE  ExchangeInv'
<1>1. CASE ClientNext
  BY <1>1, ClientSendStep, ClientAwaitsReplyStep, ClientRecvStep,
     ClientReadsHeaderStep, ClientReadsReplyStep DEF ClientNext
<1>2. CASE ServerNext
  BY <1>2, ServerRecvStep, ServerReadsHeaderStep, ServerReadsCommandStep,
     ServerRegistersStep, ServerSendStep DEF ServerNext
<1>3. CASE Reset
  BY <1>3, ResetStep
<1>4. CASE Dies
  BY <1>4, DiesStep
<1>5. CASE UNCHANGED vars
  <2>1. /\ c' = c /\ s' = s /\ toServer' = toServer /\ toClient' = toClient
        /\ reset' = reset /\ disturbed' = disturbed /\ peers' = peers /\ list' = list
    BY <1>5 DEF vars
  <2> QED
    BY <2>1, Zenon DEF ExchangeInv, TypeOK, ServerReads, Unregistered, Answered,
       Places, RegisteredAsSent, Registration, Reply
<1> QED
  BY <1>1, <1>2, <1>3, <1>4, <1>5 DEF Next

(***************************************************************************)
(* The inductive invariant: both directions of the connection are streams  *)
(* of one message each, and each end's buffer is a beginning of the        *)
(* other's message, whatever recv_all and send_all get at a time.          *)
(***************************************************************************)
THEOREM ExchangeIsStream == Spec => []ExchangeInv
<1>1. Init => ExchangeInv
  BY ExchangeStarts
<1>2. ExchangeInv /\ [Next]_vars => ExchangeInv'
  BY ExchangeStep
<1> QED
  BY <1>1, <1>2, PTL DEF Spec

(***************************************************************************)
(* The buffers of discover_peers_once and of the handler hold bytes, and   *)
(* no more than Capacity of them are under way.                            *)
(***************************************************************************)
THEOREM ExchangeTypes == Spec => []TypeOK
<1>1. ExchangeInv => TypeOK
  BY DEF ExchangeInv
<1> QED
  BY <1>1, ExchangeIsStream, PTL

(***************************************************************************)
(* The server lists no address that nobody registered, for every message   *)
(* that strangers send and every way to cut the bytes up.                  *)
(***************************************************************************)
THEOREM OnlyRegisteredAreListed == Spec => []RegisteredAsSent
<1>1. ExchangeInv => RegisteredAsSent
  BY DEF ExchangeInv
<1> QED
  BY <1>1, ExchangeIsStream, PTL

(***************************************************************************)
(* discover_peers_once takes over the server's list exactly as it is, or   *)
(* keeps the one it had, for lists of any length.                          *)
(***************************************************************************)
THEOREM ListsArriveWhole == Spec => []ReplyArrivesWhole
<1>1. ExchangeInv => ReplyArrivesWhole
  <2> SUFFICES ASSUME ExchangeInv PROVE ReplyArrivesWhole
    OBVIOUS
  <2>1. (Unregistered \/ Answered) /\ Places
    BY DEF ExchangeInv
  <2>2. CASE c.pc = "done"
    <3>1. Answered
      BY <2>1, <2>2 DEF Unregistered
    <3>2. /\ peers = list
          /\ Prompt => \E i \in 1..Len(list) : list[i].listen_addr = Self
      BY <2>2, <3>1 DEF Answered
    <3> QED
      BY <2>2, <3>2 DEF ReplyArrivesWhole
  <2>3. CASE c.pc # "done"
    BY <2>1, <2>3 DEF Places, ReplyArrivesWhole
  <2> QED
    BY <2>2, <2>3
<1> QED
  BY <1>1, ExchangeIsStream, PTL

(***************************************************************************)
(* recv_all, which takes a closed connection for progress, spins only when *)
(* the other end died or never was a registering peer: the lengths in the  *)
(* two headers are right for messages of every size.                       *)
(***************************************************************************)
THEOREM SpinningIsExcused == Spec => []SpinsOnlyWhenAbandoned
<1>1. ExchangeInv => SpinsOnlyWhenAbandoned
  BY DEF ExchangeInv, Places, SpinsOnlyWhenAbandoned
<1> QED
  BY <1>1, ExchangeIsStream, PTL
=============================================================================
