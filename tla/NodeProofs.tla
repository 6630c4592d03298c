----------------------------- MODULE NodeProofs -----------------------------
(***************************************************************************)
(* Proofs about Node, for every value of its constants: however the miner  *)
(* and the consensus peer server interleave, the synchronized blockchain   *)
(* behaves as LongestChain, replies are valid and no shorter than what the *)
(* peer sent, and only failures leak chains.                               *)
(*                                                                         *)
(* The two threads do free chains that the other still uses; as in the     *)
(* model, a chain keeps its contents then, or the process is killed.       *)
(***************************************************************************)
EXTENDS Node, BlockchainProofs

Zeros == InitialChain.zeros

\* Where the handler has received a chain and not yet published it or decided
\* not to; where it holds the mutex; where the reply is under way.
Deciding == {"verify", "lock", "compare", "switch"}
Locked == {"compare", "switch", "bump", "destroyOurs", "count", "copy", "unlock"}
Replying == {"unlock", "discard", "send"}

MutexIsHeld == mutex = "server" <=> s.pc \in Locked

\* The chain of a peer is newer than all chains that were ever published, so
\* the miner does not touch it.
PeerIsFresh ==
  /\ m.mine <= syncRef /\ m.target <= syncRef
  /\ s.pc \in Deciding => syncRef < s.peer

\* our_blockchain is sync->blockchain, except around the switch.
OursIsCurrent ==
  /\ s.pc \in {"compare", "switch", "copy", "unlock"} => s.ours = syncRef
  /\ s.pc \in {"copy"} \cup Replying => chains[s.ours].zeros = Zeros

\* What was found out before the mutex was taken still holds.
PeerIsVerified ==
  /\ s.pc \in {"compare", "switch"} => s.valid
  /\ s.pc \in {"lock", "compare", "switch"} =>
       /\ s.length = Len(chains[s.peer].blocks)
       /\ s.valid => IsValid(chains[s.peer])

\* A miner that is past its last look at the mutex can still append one block
\* to our chain after it was found to be shorter.
Searching == {"stopCheck", "versionCheck", "hash", "add"}
MinerMayAppend == m.mine = syncRef /\ m.pc \in Searching

PeerIsLonger ==
  s.pc = "switch" =>
    /\ chains[s.peer].zeros = Zeros
    /\ Len(chains[syncRef].blocks) <= s.length
    /\ MinerMayAppend => Len(chains[syncRef].blocks) < s.length

SwitchIsKnown ==
  /\ s.switched => s.pc \in {"destroyOurs", "count", "copy", "unlock", "send",
                             "stuck"}
  /\ s.pc \in {"bump", "destroyOurs"} => s.peer = syncRef
  /\ s.pc \in {"count", "copy", "unlock"} /\ s.switched => s.peer = syncRef

\* A valid chain of our difficulty is not longer than what is sent back.
ReplyIsLongEnough ==
  s.valid /\ chains[s.peer].zeros = Zeros =>
    /\ s.pc \in {"bump", "destroyOurs", "count"}
         => s.length <= Len(chains[syncRef].blocks)
    /\ s.pc \in {"copy"} \cup Replying => s.length <= s.count

\* The number of blocks that was written first is covered by those that
\* follow, though the miner can append in between.
CountIsCovered ==
  /\ s.pc = "copy" => s.count <= Len(chains[s.ours].blocks)
  /\ s.pc \in Replying => s.count <= Len(s.reply)

\* If the node started with a valid chain, the chains it publishes and sends
\* are valid.
LedgerIsValid ==
  IsValid(InitialChain) =>
    /\ IsValid(chains[syncRef])
    /\ s.pc \in Replying => IsValid([blocks |-> s.reply, zeros |-> Zeros])

\* The chain that the handler still has to publish or destroy.
InHand ==
  IF s.pc \in Deciding THEN {s.peer}
  ELSE IF s.pc \in {"bump", "destroyOurs"} THEN {s.ours}
  ELSE IF s.pc \in {"count", "copy", "unlock", "discard"} /\ ~s.switched
  THEN {s.peer} ELSE {}

ChainsAreHeld == Ref \ destroyed \subseteq {syncRef} \cup s.lost \cup InHand

NodeInv ==
  /\ TypeOK
  /\ SameZeros(Zeros) /\ BlockFits
  /\ MutexIsHeld /\ PeerIsFresh /\ OursIsCurrent
  /\ PeerIsVerified /\ PeerIsLonger /\ SwitchIsKnown
  /\ ReplyIsLongEnough /\ CountIsCovered /\ LedgerIsValid
  /\ ChainsAreHeld
-----------------------------------------------------------------------------
\* What a reference leads to.
LEMMA ChainFields ==
  ASSUME SyncTypeOK, NEW r \in Ref
  PROVE  /\ chains[r] \in Chain
         /\ chains[r].blocks \in Seq(Block)
         /\ Len(chains[r].blocks) \in Nat
         /\ chains[r].zeros \in Nat
         /\ chains[r] = [blocks |-> chains[r].blocks, zeros |-> chains[r].zeros]
<1>1. chains[r] \in Chain
  BY DEF SyncTypeOK, Ref
<1> QED
  BY <1>1 DEF Chain

\* The locals of the server thread, with the references that exist now.
ServerLocals ==
  [pc: ServerPC, peer: Ref, ours: Ref, valid: BOOLEAN, length: Nat,
   switched: BOOLEAN, count: Nat, reply: Seq(Block), lost: SUBSET Ref]

\* A return of the handler leaves proper locals.
LEMMA ReturnLocals ==
  ASSUME SyncTypeOK, s \in ServerLocals, NEW forgotten \in SUBSET Ref,
         Return(forgotten)
  PROVE  s' \in ServerLocals
<1> DEFINE no == FALSE
<1>1. no \in BOOLEAN /\ 1 \in Ref /\ <<>> \in Seq(Block)
  BY DEF SyncTypeOK, Ref
<1>2. s' = [s EXCEPT !.pc = "top", !.peer = 1, !.ours = 1, !.valid = no,
                     !.length = 0, !.switched = no, !.count = 0,
                     !.reply = <<>>, !.lost = @ \cup forgotten]
  BY DEF Return
<1> HIDE DEF no
<1> QED
  BY <1>1, <1>2 DEF ServerLocals, ServerPC

\* What else a return leaves behind.
LEMMA ReturnFields ==
  ASSUME s \in ServerLocals, NEW forgotten, Return(forgotten)
  PROVE  /\ s'.pc = "top" /\ ~s'.valid /\ ~s'.switched
         /\ s'.lost = s.lost \cup forgotten
BY DEF ServerLocals, Return

\* Each step of the server keeps the types; only receiving allocates.
LEMMA ServerTypes ==
  ASSUME TypeOK, ServerNext, UNCHANGED minerVars
  PROVE  TypeOK'
<1>1. ASSUME UNCHANGED chains, s' \in ServerLocals, SyncTypeOK',
             serverStop' \in BOOLEAN, serverExit' \in BOOLEAN,
             mutex' \in {Free, "server"}
      PROVE  TypeOK'
  BY <1>1 DEF TypeOK, MinerTypeOK, ServerTypeOK, ServerLocals, minerVars, Ref
<1>2. s \in ServerLocals
  BY DEF TypeOK, ServerTypeOK, ServerLocals
<1> USE <1>2 DEF TypeOK, SyncTypeOK, ServerTypeOK, ServerPC, ServerLocals,
        Ref, Free, KeepServer, ServerGoTo, CloseConnection, syncVars, heapVars,
        sharedVars, Use
<1>3. CASE ServerListen
  BY <1>1, <1>3 DEF ServerListen
<1>4. CASE ServerTop
  BY <1>1, <1>4 DEF ServerTop
<1>5. CASE ServerPoll
  BY <1>1, <1>5 DEF ServerPoll
<1>6. CASE ServerRecv
  <2>1. CASE UNCHANGED chains
    <3>1. \/ CloseConnection
          \/ s' = [s EXCEPT !.pc = "stuck"]
      BY <1>6, <2>1 DEF ServerRecv, Allocate
    <3>2. s' \in ServerLocals
      BY <3>1, ReturnLocals
    <3> QED
      BY <1>1, <1>6, <2>1, <3>2 DEF ServerRecv
  <2>2. CASE \E c \in PeerChains : Allocate(c)
    <3>1. PICK c \in PeerChains : Allocate(c)
      BY <2>2
    <3>2. /\ chains' \in Seq(Chain)
          /\ Len(chains') = Len(chains) + 1
          /\ Len(chains') \in 1..MaxChains
      BY <3>1, ServerAssumption, MaxChainsAssumption DEF Allocate
    <3>3. Ref \subseteq Ref' /\ Len(chains) + 1 \in Ref'
      BY <3>2
    <3>4. SyncTypeOK'
      BY <1>6, <3>2, <3>3 DEF ServerRecv
    <3>5. MinerTypeOK'
      BY <1>6, <3>3 DEF ServerRecv, minerVars, MinerTypeOK
    <3>6. ServerTypeOK'
      <4>1. s' = [s EXCEPT !.pc = "verify", !.peer = Len(chains) + 1]
        BY <1>6, <3>2 DEF ServerRecv
      <4> QED
        BY <1>6, <3>3, <4>1 DEF ServerRecv
    <3> QED
      BY <1>6, <3>4, <3>5, <3>6 DEF ServerRecv, minerVars
  <2> QED
    BY <1>6, <2>1, <2>2 DEF ServerRecv
<1>7. CASE ServerVerify
  <2>1. Len(chains[s.peer].blocks) \in Nat
    BY ChainFields
  <2>2. blockchain_verify(chains[s.peer]).valid \in BOOLEAN
    BY DEF blockchain_verify
  <2> DEFINE v == blockchain_verify(chains[s.peer])
             ok == v.valid
             n == Len(chains[s.peer].blocks)
  <2>3. \/ s' = [s EXCEPT !.pc = "lock", !.valid = ok, !.length = n]
        \/ Return({s.peer})
    BY <1>7, Zenon DEF ServerVerify
  <2> HIDE DEF v, ok, n
  <2>4. s' \in ServerLocals
    <3>1. ok \in BOOLEAN /\ n \in Nat
      BY <2>1, <2>2, Zenon DEF ok, n, v
    <3>2. CASE s' = [s EXCEPT !.pc = "lock", !.valid = ok, !.length = n]
      BY <3>1, <3>2
    <3>3. CASE Return({s.peer})
      BY <3>3, ReturnLocals
    <3> QED
      BY <2>3, <3>2, <3>3
  <2> QED
    BY <1>1, <1>7, <2>4 DEF ServerVerify
<1>8. CASE ServerLock
  BY <1>1, <1>8 DEF ServerLock
<1>9. CASE ServerCompare
  BY <1>1, <1>9 DEF ServerCompare
<1>10. CASE ServerSwitch
  BY <1>1, <1>10 DEF ServerSwitch
<1>11. CASE ServerBump
  <2> DEFINE yes == TRUE
  <2>1. yes \in BOOLEAN /\ s' = [s EXCEPT !.pc = "destroyOurs", !.switched = yes]
    BY <1>11 DEF ServerBump
  <2> HIDE DEF yes
  <2>2. s' \in ServerLocals
    BY <2>1
  <2> QED
    BY <1>1, <1>11, <2>2, SMTT(30) DEF ServerBump
<1>12. CASE ServerDestroyOurs
  BY <1>1, <1>12 DEF ServerDestroyOurs, blockchain_destroy
<1>13. CASE ServerCount
  <2>1. Len(chains[syncRef].blocks) \in Nat
    BY ChainFields
  <2> QED
    BY <1>1, <1>13, <2>1 DEF ServerCount
<1>14. CASE ServerCopy
  <2>1. chains[s.ours].blocks \in Seq(Block)
    BY ChainFields
  <2>2. s' \in ServerLocals
    <3>1. CASE s' = [s EXCEPT !.pc = "unlock", !.reply = chains[s.ours].blocks]
      BY <2>1, <3>1
    <3>2. CASE Return({s.peer} \ {syncRef})
      BY <3>2, ReturnLocals
    <3> QED
      BY <1>14, <3>1, <3>2 DEF ServerCopy
  <2> QED
    BY <1>1, <1>14, <2>2 DEF ServerCopy
<1>15. CASE ServerUnlock
  BY <1>1, <1>15 DEF ServerUnlock
<1>16. CASE ServerDiscard
  BY <1>1, <1>16 DEF ServerDiscard, blockchain_destroy
<1>17. CASE ServerSend
  <2>1. s' \in ServerLocals
    <3>1. CASE CloseConnection
      BY <3>1, ReturnLocals
    <3> QED
      BY <1>17, <3>1 DEF ServerSend
  <2> QED
    BY <1>1, <1>17, <2>1 DEF ServerSend
<1>18. CASE ServerExit
  BY <1>1, <1>18 DEF ServerExit
<1> QED
  BY <1>3, <1>4, <1>5, <1>6, <1>7, <1>8, <1>9, <1>10, <1>11, <1>12, <1>13,
     <1>14, <1>15, <1>16, <1>17, <1>18 DEF ServerNext

\* The state that synchronized_blockchain_create and the two thread creations
\* leave is well typed.
LEMMA InitType == Init => TypeOK
<1> SUFFICES ASSUME Init PROVE TypeOK
  OBVIOUS
<1> USE NodeAssumption, MaxChainsAssumption DEF Init, SyncInit
<1>1. chains \in Seq(Chain) /\ Len(chains) = 1
  OBVIOUS
<1>2. 1 \in Ref
  BY <1>1 DEF Ref
<1>3. SyncTypeOK /\ mutex \in {Free, "server"}
  <2>1. Len(chains) \in 1..MaxChains /\ syncRef \in Ref /\ version \in Nat
    BY <1>1, <1>2
  <2>2. destroyed \subseteq Ref /\ misused \subseteq destroyed
    OBVIOUS
  <2> QED
    BY <1>1, <2>1, <2>2, Zenon DEF SyncTypeOK
<1>4. MinerTypeOK /\ switchMutex = Free
  <2>1. m \in [pc: MinerPC, mine: Ref, old: Ref, target: Ref, seen: Nat,
               block: Block, code: ReturnCode]
    BY <1>2, EmptyTypes DEF MinerInit, MinerPC, ReturnCode
  <2>2. outfile \in File
    BY EmptyTypes DEF MinerInit, File
  <2>3. currently \in Nat /\ sleeping \subseteq {"switch", "exit"}
    BY DEF MinerInit
  <2>4. shouldStop \in BOOLEAN /\ exitReady \in BOOLEAN /\ switchMutex = Free
    BY DEF MinerInit
  <2> QED
    BY <2>1, <2>2, <2>3, <2>4, Zenon DEF MinerTypeOK
<1>5. ServerTypeOK
  <2> DEFINE no == FALSE
  <2>1. no \in BOOLEAN /\ <<>> \in Seq(Block)
    OBVIOUS
  <2>2. s = [pc |-> "listen", peer |-> 1, ours |-> 1, valid |-> no,
             length |-> 0, switched |-> no, count |-> 0, reply |-> <<>>,
             lost |-> {}]
    BY DEF ServerInit
  <2> HIDE DEF no
  <2>3. s \in [pc: ServerPC, peer: Ref, ours: Ref, valid: BOOLEAN,
               length: Nat, switched: BOOLEAN, count: Nat, reply: Seq(Block),
               lost: SUBSET Ref]
    BY <1>2, <2>1, <2>2 DEF ServerPC
  <2>4. serverStop \in BOOLEAN /\ serverExit \in BOOLEAN
    BY DEF ServerInit
  <2> QED
    BY <2>3, <2>4, Zenon DEF ServerTypeOK
<1> QED
  BY <1>3, <1>4, <1>5 DEF TypeOK

\* Every step of the node keeps the types.
LEMMA NextType == TypeOK /\ [Next]_vars => TypeOK'
<1> SUFFICES ASSUME TypeOK, [Next]_vars PROVE TypeOK'
  OBVIOUS
<1>1. CASE MinerNext /\ UNCHANGED serverVars
  <2>1. SyncTypeOK' /\ MinerTypeOK' /\ UNCHANGED <<mutex, switchMutex>>
    BY <1>1, MinerTypes DEF TypeOK
  <2>2. Len(chains') = Len(chains)
    BY <1>1, MinerChains DEF TypeOK, SyncTypeOK
  <2>3. ServerTypeOK'
    BY <1>1, <2>2 DEF TypeOK, ServerTypeOK, serverVars, Ref
  <2> QED
    BY <2>1, <2>3 DEF TypeOK
<1>2. CASE ServerNext /\ UNCHANGED minerVars
  BY <1>2, ServerTypes
<1> USE DEF TypeOK, SyncTypeOK, MinerTypeOK, ServerTypeOK, Ref
<1>3. CASE RequestStop /\ UNCHANGED serverVars
  BY <1>3 DEF RequestStop, syncVars, serverVars
<1>4. CASE RequestServerStop /\ UNCHANGED minerVars
  BY <1>4 DEF RequestServerStop, syncVars, minerVars
<1>5. CASE Abort /\ UNCHANGED <<minerVars, serverVars>>
  BY <1>5 DEF Abort, minerVars, serverVars
<1>6. CASE UNCHANGED vars
  BY <1>6 DEF vars, syncVars, minerVars, serverVars
<1> QED
  BY <1>1, <1>2, <1>3, <1>4, <1>5, <1>6 DEF Next

\* Type correctness of the node: whatever peers send, the references, lengths,
\* block counts and return codes of both threads stay in range.
THEOREM TypeCorrect == Spec => []TypeOK
<1> QED
  BY InitType, NextType, PTL DEF Spec
-----------------------------------------------------------------------------
\* What the miner leaves alone.  While the mutex is held it does not look for
\* another chain and does not begin a search.
LEMMA MinerFrame ==
  ASSUME MinerTypeOK, MinerNext
  PROVE  /\ UNCHANGED <<syncRef, mutex>>
         /\ destroyed \subseteq destroyed'
         /\ m'.mine = m.mine \/ (mutex = Free /\ m'.mine = syncRef)
         /\ m'.target = m.target \/ m'.target = syncRef
         /\ mutex # Free /\ m'.pc \in Searching => m.pc \in Searching
<1> DEFINE Rec == [pc: MinerPC, mine: Ref, old: Ref, target: Ref, seen: Nat,
                   block: Block, code: ReturnCode]
           Frame == /\ m'.mine = m.mine \/ (mutex = Free /\ m'.mine = syncRef)
                    /\ m'.target = m.target \/ m'.target = syncRef
                    /\ mutex # Free /\ m'.pc \in Searching => m.pc \in Searching
<1>1. m \in Rec
  BY DEF MinerTypeOK
<1>2. UNCHANGED <<syncRef, mutex>> /\ destroyed \subseteq destroyed'
  BY DEF MinerNext, MinerStart, MinerLoop, MinerCheckVersion,
     MinerRefresh, MinerDestroyOld, MinerLoadVersion, MinerStoreVersion,
     MinerSignal, MinerVerify, MinerPrepare, MinerEnter, MinerStopCheck,
     MinerVersionCheck, MinerHash, MinerAdd, MinerOpen, MinerWrite, MinerExit,
     syncVars, heapVars, sharedVars, blockchain_destroy
<1> SUFFICES Frame
  BY <1>2
<1> USE <1>1 DEF Searching, MinerAt, GoTo, ReturnError, MineBlockFails
<1>3. CASE MinerStart \/ MinerLoop \/ MinerCheckVersion \/ MinerRefresh
  BY <1>3 DEF MinerStart, MinerLoop, MinerCheckVersion, MinerRefresh
<1>4. CASE \/ MinerDestroyOld \/ MinerLoadVersion \/ MinerStoreVersion
           \/ MinerSignal
  BY <1>4 DEF MinerDestroyOld, MinerLoadVersion, MinerStoreVersion, MinerSignal
<1>5. CASE MinerVerify
  <2>1. /\ m'.mine = m.mine /\ m'.target = m.target
        /\ m'.pc \in {"verify", "returned", "prepare"}
    BY <1>5 DEF MinerVerify
  <2> QED
    BY <2>1
<1>6. CASE MinerPrepare
  <2>1. /\ m'.mine = m.mine /\ m'.target = m.target
        /\ m'.pc \in {"returned", "enter"}
    BY <1>6 DEF MinerPrepare
  <2> QED
    BY <2>1
<1>7. CASE MinerEnter \/ MinerStopCheck
  BY <1>7 DEF MinerEnter, MinerStopCheck
<1>8. CASE MinerVersionCheck
  <2>1. \/ m' = [m EXCEPT !.pc = "loop", !.block = NoBlock, !.code = "SUCCESS"]
        \/ m' = [m EXCEPT !.pc = "hash"]
    BY <1>8, Zenon DEF MinerVersionCheck
  <2> QED
    BY <1>8, <2>1 DEF MinerVersionCheck
<1>9. CASE MinerHash
  <2>1. m.pc = "hash" /\ m'.mine = m.mine /\ m'.target = m.target
    BY <1>9 DEF MinerHash
  <2> QED
    BY <2>1
<1>10. CASE MinerAdd
  <2>1. m.pc = "add" /\ m'.mine = m.mine /\ m'.target = m.target
    BY <1>10 DEF MinerAdd
  <2> QED
    BY <2>1
<1>11. CASE MinerOpen \/ MinerWrite \/ MinerExit
  BY <1>11 DEF MinerOpen, MinerWrite, MinerExit
<1> QED
  BY <1>3, <1>4, <1>5, <1>6, <1>7, <1>8, <1>9, <1>10, <1>11 DEF MinerNext

\* Chains only grow, and only the miner's own by the block it searched for.
LEMMA MinerGrows ==
  ASSUME SyncTypeOK, MinerTypeOK, MinerNext
  PROVE  /\ Len(chains') = Len(chains)
         /\ \A r \in Ref : \/ chains'[r] = chains[r]
                          \/ /\ r = m.mine
                             /\ m.pc = "add" /\ m'.pc \notin Searching
                             /\ chains'[r] = blockchain_add_block(chains[r], m.block)
                             /\ chains'[r].zeros = chains[r].zeros
                             /\ Len(chains'[r].blocks) = Len(chains[r].blocks) + 1
<1>1. CASE UNCHANGED chains
  BY <1>1
<1>2. CASE /\ m.pc = "add" /\ m'.pc \in {"open", "loop"}
           /\ chains' = [chains EXCEPT ![m.mine] =
                                         blockchain_add_block(@, m.block)]
  <2> DEFINE new == blockchain_add_block(chains[m.mine], m.block)
  <2>1. m.mine \in Ref
    BY DEF MinerTypeOK
  <2>2. new.zeros = chains[m.mine].zeros
        /\ Len(new.blocks) = Len(chains[m.mine].blocks) + 1
    BY <2>1, ChainFields DEF blockchain_add_block, Chain
  <2> HIDE DEF new
  <2>3. chains' = [chains EXCEPT ![m.mine] = new]
    BY <1>2 DEF new
  <2>4. /\ Len(chains') = Len(chains)
        /\ \A r \in Ref : chains'[r] = IF r = m.mine THEN new ELSE chains[r]
    BY <2>1, <2>3 DEF SyncTypeOK, Ref
  <2> QED
    BY <1>2, <2>1, <2>2, <2>4 DEF Searching, new
<1> QED
  BY <1>1, <1>2, MinerChains
-----------------------------------------------------------------------------
\* A node that has just started satisfies the invariant.
LEMMA InitInv == Init => NodeInv
<1> SUFFICES ASSUME Init PROVE NodeInv
  OBVIOUS
<1>1. TypeOK
  BY InitType
<1>2. /\ chains = <<InitialChain>> /\ Len(chains) = 1 /\ syncRef = 1
      /\ mutex = Free
      /\ m.pc = "start" /\ m.mine = 1 /\ m.target = 1
  BY DEF Init, SyncInit, MinerInit
<1>3. s.pc = "listen" /\ ~s.switched /\ ~s.valid /\ s.lost = {}
  BY DEF Init, ServerInit
<1> USE <1>2, <1>3 DEF Deciding, Locked, Replying
<1>4. SameZeros(Zeros) /\ BlockFits
  BY DEF SameZeros, Zeros, BlockFits, Verified, Mining
<1>5. MutexIsHeld /\ PeerIsFresh /\ OursIsCurrent /\ PeerIsVerified
  BY DEF MutexIsHeld, Free, PeerIsFresh, OursIsCurrent, PeerIsVerified
<1>6. PeerIsLonger /\ SwitchIsKnown /\ ReplyIsLongEnough /\ CountIsCovered
  BY DEF PeerIsLonger, SwitchIsKnown, ReplyIsLongEnough, CountIsCovered
<1>7. LedgerIsValid /\ ChainsAreHeld
  BY DEF LedgerIsValid, ChainsAreHeld, Ref
<1> QED
  BY <1>1, <1>4, <1>5, <1>6, <1>7 DEF NodeInv

\* The miner keeps the server's part of the invariant: what it appends to our
\* chain after the comparison is at most the one block that the search under
\* way finds.
LEMMA MinerKeepsInv ==
  ASSUME NodeInv, MinerNext, UNCHANGED serverVars
  PROVE  NodeInv'
<1>1. TypeOK'
  BY NextType DEF NodeInv, Next
<1>2. /\ TypeOK /\ SyncTypeOK /\ MinerTypeOK /\ s' = s
      /\ SameZeros(Zeros) /\ BlockFits
      /\ MutexIsHeld /\ PeerIsFresh /\ OursIsCurrent
      /\ PeerIsVerified /\ PeerIsLonger /\ SwitchIsKnown
      /\ ReplyIsLongEnough /\ CountIsCovered /\ LedgerIsValid
      /\ ChainsAreHeld
  BY DEF NodeInv, TypeOK, serverVars
<1>3. /\ SameZeros(Zeros)' /\ BlockFits'
      /\ \A r \in Ref : IsValid(chains[r]) => IsValid(chains'[r])
  BY <1>2, MinerKeepsValid
<1>4. /\ UNCHANGED <<syncRef, mutex>>
      /\ destroyed \subseteq destroyed'
      /\ m'.mine = m.mine \/ (mutex = Free /\ m'.mine = syncRef)
      /\ m'.target = m.target \/ m'.target = syncRef
      /\ mutex # Free /\ m'.pc \in Searching => m.pc \in Searching
  BY <1>2, MinerFrame
<1>5. /\ Ref' = Ref
      /\ \A r \in Ref : \/ chains'[r] = chains[r]
                       \/ /\ r = m.mine
                          /\ m.pc = "add" /\ m'.pc \notin Searching
                          /\ chains'[r].zeros = chains[r].zeros
                          /\ Len(chains'[r].blocks) = Len(chains[r].blocks) + 1
  BY <1>2, MinerGrows DEF Ref
<1>6. /\ syncRef \in Ref /\ syncRef \in Nat
      /\ s.peer \in Ref /\ s.peer \in Nat /\ s.ours \in Ref
      /\ m.mine \in Nat /\ m.target \in Nat
      /\ s.length \in Nat /\ s.count \in Nat
      /\ \A r \in Ref : Len(chains[r].blocks) \in Nat
  <2>1. \A r \in Ref : Len(chains[r].blocks) \in Nat
    BY <1>2, ChainFields
  <2> QED
    BY <1>2, <2>1 DEF TypeOK, SyncTypeOK, MinerTypeOK, ServerTypeOK, Ref
<1>7. MutexIsHeld' /\ SwitchIsKnown'
  BY <1>2, <1>4 DEF MutexIsHeld, SwitchIsKnown
<1>8. PeerIsFresh'
  BY <1>2, <1>4, <1>6 DEF PeerIsFresh
<1>9. OursIsCurrent'
  BY <1>2, <1>4, <1>5, <1>6 DEF OursIsCurrent
<1>10. PeerIsVerified'
  <2>1. s.pc \in Deciding => chains'[s.peer] = chains[s.peer]
    BY <1>2, <1>5, <1>6 DEF PeerIsFresh
  <2> QED
    BY <1>2, <2>1 DEF PeerIsVerified, Deciding
<1>11. PeerIsLonger'
  <2> SUFFICES ASSUME s.pc = "switch"
               PROVE  /\ chains'[s.peer].zeros = Zeros
                      /\ Len(chains'[syncRef].blocks) <= s.length
                      /\ MinerMayAppend' => Len(chains'[syncRef].blocks) < s.length
    BY <1>2, <1>4 DEF PeerIsLonger
  <2>1. mutex # Free
    BY <1>2 DEF MutexIsHeld, Locked, Free
  <2>2. m'.mine = m.mine /\ (m'.pc \in Searching => m.pc \in Searching)
    BY <1>4, <2>1
  <2>3. MinerMayAppend' => MinerMayAppend
    BY <1>4, <2>2 DEF MinerMayAppend
  <2>4. /\ chains[s.peer].zeros = Zeros
        /\ Len(chains[syncRef].blocks) <= s.length
        /\ MinerMayAppend => Len(chains[syncRef].blocks) < s.length
    BY <1>2 DEF PeerIsLonger
  <2>5. CASE chains'[syncRef] = chains[syncRef]
    BY <1>5, <1>6, <2>3, <2>4, <2>5
  <2>6. CASE /\ syncRef = m.mine
             /\ m.pc = "add" /\ m'.pc \notin Searching
             /\ Len(chains'[syncRef].blocks) = Len(chains[syncRef].blocks) + 1
    <3>1. MinerMayAppend /\ ~MinerMayAppend'
      BY <2>6 DEF MinerMayAppend, Searching
    <3> QED
      BY <1>5, <1>6, <2>4, <2>6, <3>1
  <2> QED
    BY <1>5, <1>6, <2>5, <2>6
<1>12. ReplyIsLongEnough'
  BY <1>2, <1>4, <1>5, <1>6 DEF ReplyIsLongEnough
<1>13. CountIsCovered'
  <2>1. /\ Len(chains[s.ours].blocks) \in Nat
        /\ \/ Len(chains'[s.ours].blocks) = Len(chains[s.ours].blocks)
           \/ Len(chains'[s.ours].blocks) = Len(chains[s.ours].blocks) + 1
    BY <1>5, <1>6
  <2>2. s.count <= Len(chains[s.ours].blocks)
          => s.count <= Len(chains'[s.ours].blocks)
    BY <1>6, <2>1
  <2> QED
    BY <1>2, <2>2 DEF CountIsCovered
<1>14. LedgerIsValid'
  BY <1>2, <1>3, <1>4, <1>6 DEF LedgerIsValid, Zeros
<1>15. ChainsAreHeld'
  <2>1. InHand' = InHand
    BY <1>2 DEF InHand
  <2> QED
    BY <1>2, <1>4, <1>5, <2>1 DEF ChainsAreHeld
<1> QED
  BY <1>1, <1>3, <1>7, <1>8, <1>9, <1>10, <1>11, <1>12, <1>13, <1>14, <1>15
  DEF NodeInv

\* The steps of the server between receiving a chain and publishing it, and
\* those after.
LEMMA ServerKeepsInv ==
  ASSUME NodeInv, ServerNext, ~ServerRecv, ~ServerSwitch, UNCHANGED minerVars
  PROVE  NodeInv'
<1> DEFINE ServerInv == /\ MutexIsHeld /\ PeerIsFresh /\ OursIsCurrent
                        /\ PeerIsVerified /\ PeerIsLonger /\ SwitchIsKnown
                        /\ ReplyIsLongEnough /\ CountIsCovered /\ LedgerIsValid
<1>1. TypeOK' /\ m' = m
  BY NextType DEF NodeInv, Next, minerVars
<1>2. ASSUME UNCHANGED <<chains, syncRef>>, ServerInv', ChainsAreHeld'
      PROVE  NodeInv'
  BY <1>1, <1>2 DEF NodeInv, SameZeros, BlockFits
<1>3. ServerInv /\ ChainsAreHeld /\ TypeOK /\ SyncTypeOK
  BY DEF NodeInv, TypeOK
<1>4. s \in ServerLocals
  BY <1>3 DEF TypeOK, ServerTypeOK, ServerLocals
<1>5. /\ syncRef \in Ref /\ syncRef \in Nat
      /\ chains[syncRef].zeros = Zeros
      /\ s.peer \in Ref /\ s.peer \in Nat /\ s.ours \in Ref
      /\ m.mine \in Nat /\ m.target \in Nat
      /\ s.length \in Nat /\ s.count \in Nat
      /\ \A r \in Ref : Len(chains[r].blocks) \in Nat
  <2>1. \A r \in Ref : Len(chains[r].blocks) \in Nat
    BY <1>3, ChainFields
  <2>2. chains[syncRef].zeros = Zeros
    BY DEF NodeInv, SameZeros
  <2> QED
    BY <1>3, <2>1, <2>2
    DEF TypeOK, SyncTypeOK, MinerTypeOK, ServerTypeOK, Ref
<1> USE <1>1, <1>3, <1>5, <1>4 DEF ServerLocals, Deciding, Locked, Replying,
        MutexIsHeld, PeerIsFresh, OursIsCurrent, PeerIsVerified, PeerIsLonger,
        MinerMayAppend, SwitchIsKnown, ReplyIsLongEnough, CountIsCovered,
        LedgerIsValid, ChainsAreHeld, InHand,
        ServerAt, ServerGoTo, CloseConnection, KeepServer, Free,
        syncVars, heapVars, sharedVars, Ref
<1>6. ASSUME NEW F, Return(F), UNCHANGED <<chains, syncRef, destroyed>>,
             mutex' = Free, InHand \subseteq F \cup {syncRef}
      PROVE  ServerInv' /\ ChainsAreHeld'
  <2>1. /\ s'.pc = "top" /\ ~s'.valid /\ ~s'.switched
        /\ s'.lost = s.lost \cup F
    BY <1>6, ReturnFields
  <2>2. ServerInv'
    BY <1>6, <2>1
  <2>3. InHand' = {} /\ Ref' = Ref
    BY <1>6, <2>1
  <2> HIDE DEF InHand, Ref
  <2> QED
    BY <1>6, <2>1, <2>2, <2>3
<1>7. CASE ServerListen
  <2>1. ServerInv'
    BY <1>7 DEF ServerListen
  <2>2. ChainsAreHeld'
    BY <1>7 DEF ServerListen
  <2> QED
    BY <1>2, <1>7, <2>1, <2>2 DEF ServerListen
<1>8. CASE ServerTop
  <2>1. ServerInv'
    BY <1>8 DEF ServerTop
  <2>2. ChainsAreHeld'
    BY <1>8 DEF ServerTop
  <2> QED
    BY <1>2, <1>8, <2>1, <2>2 DEF ServerTop
<1>9. CASE ServerPoll
  <2>1. ServerInv'
    BY <1>9 DEF ServerPoll
  <2>2. ChainsAreHeld'
    BY <1>9 DEF ServerPoll
  <2> QED
    BY <1>2, <1>9, <2>1, <2>2 DEF ServerPoll
<1>10. CASE ServerVerify
  <2> DEFINE v == blockchain_verify(chains[s.peer])
             n == Len(chains[s.peer].blocks)
  <2>1. \/ s' = [s EXCEPT !.pc = "lock", !.valid = v.valid, !.length = n]
        \/ Return({s.peer})
    BY <1>10, Zenon DEF ServerVerify
  <2>2. s.pc = "verify" /\ UNCHANGED <<chains, destroyed, syncRef, mutex>>
    BY <1>10 DEF ServerVerify
  <2>3. CASE Return({s.peer})
    <3>1. mutex' = Free /\ InHand \subseteq {s.peer} \cup {syncRef}
      BY <2>2 DEF TypeOK
    <3> QED
      BY <1>2, <1>6, <2>2, <2>3, <3>1
  <2>4. CASE s' = [s EXCEPT !.pc = "lock", !.valid = v.valid, !.length = n]
    <3> HIDE DEF v, n
    <3>1. /\ s'.pc = "lock" /\ s'.valid = v.valid /\ s'.length = n
          /\ s'.switched = s.switched /\ s'.lost = s.lost /\ s'.peer = s.peer
      BY <2>4
    <3>2. s'.length = Len(chains[s.peer].blocks)
          /\ (s'.valid => IsValid(chains[s.peer]))
      BY <3>1 DEF v, n, IsValid
    <3>3. ServerInv' /\ ChainsAreHeld'
      BY <2>2, <3>1, <3>2
    <3> QED
      BY <1>2, <2>2, <3>3
  <2> QED
    BY <2>1, <2>3, <2>4
<1>11. CASE ServerLock
  <2>1. ServerInv'
    BY <1>11 DEF ServerLock
  <2>2. ChainsAreHeld'
    BY <1>11 DEF ServerLock
  <2> QED
    BY <1>2, <1>11, <2>1, <2>2 DEF ServerLock
<1>12. CASE ServerCompare
  <2>1. ServerInv'
    BY <1>12 DEF ServerCompare, PeerIsBetter
  <2>2. ChainsAreHeld'
    BY <1>12 DEF ServerCompare, PeerIsBetter
  <2> QED
    BY <1>2, <1>12, <2>1, <2>2 DEF ServerCompare
<1>13. CASE ServerBump
  <2>1. ServerInv'
    BY <1>13 DEF ServerBump
  <2>2. ChainsAreHeld'
    BY <1>13 DEF ServerBump
  <2> QED
    BY <1>2, <1>13, <2>1, <2>2 DEF ServerBump
<1>14. CASE ServerDestroyOurs
  <2>1. ServerInv'
    BY <1>14 DEF ServerDestroyOurs, blockchain_destroy
  <2>2. ChainsAreHeld'
    BY <1>14 DEF ServerDestroyOurs, blockchain_destroy
  <2> QED
    BY <1>2, <1>14, <2>1, <2>2 DEF ServerDestroyOurs
<1>15. CASE ServerCount
  <2>1. ServerInv'
    BY <1>15 DEF ServerCount
  <2>2. ChainsAreHeld'
    BY <1>15 DEF ServerCount
  <2> QED
    BY <1>2, <1>15, <2>1, <2>2 DEF ServerCount
<1>16. CASE ServerCopy
  <2>1. s.pc = "copy" /\ UNCHANGED <<chains, destroyed, syncRef>>
    BY <1>16 DEF ServerCopy
  <2>2. CASE Return({s.peer} \ {syncRef}) /\ mutex' = Free
    <3>1. InHand \subseteq ({s.peer} \ {syncRef}) \cup {syncRef}
      BY <2>1
    <3> QED
      BY <1>2, <1>6, <2>1, <2>2, <3>1
  <2>3. CASE /\ s' = [s EXCEPT !.pc = "unlock", !.reply = chains[s.ours].blocks]
             /\ UNCHANGED mutex
    <3>1. /\ s'.pc = "unlock" /\ s'.reply = chains[syncRef].blocks
          /\ s'.peer = s.peer /\ s'.ours = syncRef /\ s'.valid = s.valid
          /\ s'.length = s.length /\ s'.switched = s.switched
          /\ s'.count = s.count /\ s'.lost = s.lost
      BY <2>1, <2>3
    <3>2. chains[syncRef] = [blocks |-> s'.reply, zeros |-> Zeros]
      BY <3>1, ChainFields
    <3>3. ServerInv' /\ ChainsAreHeld'
      BY <2>1, <2>3, <3>1, <3>2
    <3> QED
      BY <1>2, <2>1, <3>3
  <2> QED
    BY <1>16, <2>2, <2>3 DEF ServerCopy
<1>17. CASE ServerUnlock
  <2>1. ServerInv'
    BY <1>17 DEF ServerUnlock
  <2>2. ChainsAreHeld'
    BY <1>17 DEF ServerUnlock
  <2> QED
    BY <1>2, <1>17, <2>1, <2>2 DEF ServerUnlock
<1>18. CASE ServerDiscard
  <2>1. ServerInv'
    BY <1>18 DEF ServerDiscard, blockchain_destroy
  <2>2. ChainsAreHeld'
    BY <1>18 DEF ServerDiscard, blockchain_destroy
  <2> QED
    BY <1>2, <1>18, <2>1, <2>2 DEF ServerDiscard
<1>19. CASE ServerSend
  <2>1. s.pc = "send" /\ UNCHANGED <<chains, destroyed, syncRef, mutex>>
    BY <1>19 DEF ServerSend
  <2>2. CASE Return({})
    <3>1. mutex' = Free /\ InHand \subseteq {} \cup {syncRef}
      BY <2>1 DEF TypeOK
    <3> QED
      BY <1>2, <1>6, <2>1, <2>2, <3>1
  <2>3. CASE s' = s \/ s' = [s EXCEPT !.pc = "stuck"]
    <3>1. ServerInv' /\ ChainsAreHeld'
      BY <2>1, <2>3
    <3> QED
      BY <1>2, <2>1, <3>1
  <2> QED
    BY <1>19, <2>2, <2>3 DEF ServerSend
<1>20. CASE ServerExit
  <2>1. ServerInv'
    BY <1>20 DEF ServerExit
  <2>2. ChainsAreHeld'
    BY <1>20 DEF ServerExit
  <2> QED
    BY <1>2, <1>20, <2>1, <2>2 DEF ServerExit
<1> QED
  BY <1>7, <1>8, <1>9, <1>10, <1>11, <1>12, <1>13, <1>14, <1>15, <1>16, <1>17,
     <1>18, <1>19, <1>20 DEF ServerNext

\* Where the server receives a chain; nothing refers to it yet.
LEMMA RecvKeepsInv ==
  ASSUME NodeInv, ServerRecv, UNCHANGED minerVars
  PROVE  NodeInv'
<1>1. TypeOK' /\ m' = m
  BY NextType DEF NodeInv, Next, ServerNext, minerVars
<1>2. /\ s.pc = "recv" /\ ~s.switched /\ mutex = Free /\ mutex' = mutex
      /\ syncRef' = syncRef /\ destroyed' = destroyed
  BY DEF ServerRecv, ServerAt, NodeInv, TypeOK, MutexIsHeld, Locked,
     SwitchIsKnown, sharedVars
<1>3. /\ chains \in Seq(Chain) /\ s \in ServerLocals
      /\ syncRef \in 1..Len(chains) /\ destroyed \subseteq 1..Len(chains)
      /\ m.mine \in 1..Len(chains) /\ m.target \in 1..Len(chains)
  BY DEF NodeInv, TypeOK, SyncTypeOK, MinerTypeOK, ServerTypeOK, ServerLocals,
     Ref
<1>4. /\ \A r \in 1..Len(chains) : chains'[r] = chains[r]
      /\ Len(chains') \in {Len(chains), Len(chains) + 1}
  BY <1>3 DEF ServerRecv, Allocate
<1>5. SameZeros(Zeros)' /\ BlockFits'
  BY <1>1, <1>2, <1>3, <1>4 DEF NodeInv, SameZeros, BlockFits
<1>6. \/ /\ s'.pc = "verify" /\ s'.peer = Len(chains) + 1
         /\ ~s'.switched /\ s'.lost = s.lost
         /\ Len(chains') = Len(chains) + 1
      \/ /\ s'.pc \in {"top", "stuck"} /\ ~s'.switched /\ s'.lost = s.lost
         /\ Len(chains') = Len(chains)
  <2>1. CASE s' = [s EXCEPT !.pc = "verify", !.peer = Len(chains) + 1]
             /\ \E c \in PeerChains : Allocate(c)
    BY <1>2, <1>3, <2>1 DEF Allocate, ServerLocals
  <2>2. CASE Return({}) /\ UNCHANGED chains
    <3>1. /\ s'.pc = "top" /\ ~s'.switched /\ s'.lost = s.lost \cup {}
      BY <1>3, <2>2, ReturnFields
    <3> QED
      BY <2>2, <3>1
  <2>3. CASE s' = [s EXCEPT !.pc = "stuck"] /\ UNCHANGED chains
    BY <1>2, <1>3, <2>3 DEF ServerLocals
  <2> QED
    BY <2>1, <2>2, <2>3 DEF ServerRecv, CloseConnection, ServerGoTo
<1>7. MutexIsHeld' /\ PeerIsFresh' /\ OursIsCurrent' /\ PeerIsVerified'
  BY <1>1, <1>2, <1>3, <1>6 DEF NodeInv, MutexIsHeld, Locked, Free, PeerIsFresh,
     Deciding, OursIsCurrent, Replying, PeerIsVerified
<1>8. PeerIsLonger' /\ SwitchIsKnown' /\ ReplyIsLongEnough' /\ CountIsCovered'
  BY <1>6 DEF PeerIsLonger, SwitchIsKnown, ReplyIsLongEnough, CountIsCovered,
     Replying
<1>9. LedgerIsValid'
  BY <1>2, <1>3, <1>4, <1>6 DEF NodeInv, LedgerIsValid, Replying
<1>10. ChainsAreHeld'
  <2>1. 1..Len(chains) \ destroyed \subseteq {syncRef} \cup s.lost
    BY <1>2 DEF NodeInv, ChainsAreHeld, InHand, Deciding, Ref
  <2>2. 1..Len(chains') \ destroyed \subseteq {syncRef} \cup s.lost \cup InHand'
    BY <1>3, <1>6, <2>1 DEF InHand, Deciding
  <2> QED
    BY <1>2, <1>6, <2>2 DEF ChainsAreHeld, Ref
<1> QED
  BY <1>1, <1>5, <1>7, <1>8, <1>9, <1>10 DEF NodeInv

\* Where the peer's chain becomes the current one.
LEMMA SwitchKeepsInv ==
  ASSUME NodeInv, ServerSwitch, UNCHANGED minerVars
  PROVE  NodeInv'
<1>1. TypeOK' /\ m' = m
  BY NextType DEF NodeInv, Next, ServerNext, minerVars
<1>2. /\ s.pc = "switch" /\ syncRef' = s.peer
      /\ UNCHANGED <<chains, destroyed, mutex>>
  BY DEF ServerSwitch, ServerAt, heapVars
<1>3. /\ s'.pc = "bump" /\ s'.peer = s.peer /\ s'.ours = s.ours
      /\ s'.valid = s.valid /\ s'.length = s.length
      /\ s'.switched = s.switched /\ s'.lost = s.lost
  BY DEF ServerSwitch, ServerGoTo, NodeInv, TypeOK, ServerTypeOK
<1>4. /\ s.peer \in Nat /\ syncRef \in Nat /\ m.mine \in Nat
      /\ m.target \in Nat /\ Len(chains[s.peer].blocks) \in Nat
  <2>1. s.peer \in Ref
    BY DEF NodeInv, TypeOK, ServerTypeOK
  <2>2. Len(chains[s.peer].blocks) \in Nat
    BY <2>1, ChainFields DEF NodeInv, TypeOK
  <2> QED
    BY <2>1, <2>2 DEF NodeInv, TypeOK, SyncTypeOK, MinerTypeOK, Ref
<1>5. /\ s.valid /\ IsValid(chains[s.peer])
      /\ s.length = Len(chains[s.peer].blocks) /\ chains[s.peer].zeros = Zeros
      /\ s.ours = syncRef /\ syncRef < s.peer /\ ~s.switched
  BY <1>2 DEF NodeInv, PeerIsVerified, PeerIsLonger, OursIsCurrent,
     PeerIsFresh, Deciding, SwitchIsKnown
<1>6. SameZeros(Zeros)' /\ BlockFits'
  BY <1>1, <1>2, <1>5 DEF NodeInv, SameZeros, BlockFits
<1>7. MutexIsHeld' /\ PeerIsFresh' /\ OursIsCurrent' /\ PeerIsVerified'
  BY <1>1, <1>2, <1>3, <1>4, <1>5 DEF NodeInv, MutexIsHeld, Locked,
     PeerIsFresh, Deciding, OursIsCurrent, Replying, PeerIsVerified
<1>8. PeerIsLonger' /\ SwitchIsKnown' /\ ReplyIsLongEnough' /\ CountIsCovered'
  BY <1>2, <1>3, <1>4, <1>5 DEF PeerIsLonger, SwitchIsKnown,
     ReplyIsLongEnough, CountIsCovered, Replying
<1>9. LedgerIsValid'
  BY <1>2, <1>3, <1>5 DEF LedgerIsValid, Replying
<1>10. ChainsAreHeld'
  BY <1>2, <1>3, <1>5 DEF NodeInv, ChainsAreHeld, InHand, Deciding, Ref
<1> QED
  BY <1>1, <1>6, <1>7, <1>8, <1>9, <1>10 DEF NodeInv

\* The invariant is inductive.
LEMMA NextInv == NodeInv /\ [Next]_vars => NodeInv'
<1> SUFFICES ASSUME NodeInv, [Next]_vars PROVE NodeInv'
  OBVIOUS
<1>1. CASE MinerNext /\ UNCHANGED serverVars
  BY <1>1, MinerKeepsInv
<1>2. CASE ServerNext /\ UNCHANGED minerVars
  BY <1>2, ServerKeepsInv, RecvKeepsInv, SwitchKeepsInv
<1>3. CASE \/ RequestStop /\ UNCHANGED serverVars
           \/ RequestServerStop /\ UNCHANGED minerVars
           \/ Abort /\ UNCHANGED <<minerVars, serverVars>>
           \/ UNCHANGED vars
  <2>1. UNCHANGED <<chains, destroyed, syncRef, mutex, m, s>>
    BY <1>3 DEF RequestStop, RequestServerStop, Abort, vars, syncVars,
       minerVars, serverVars
  <2>2. TypeOK'
    BY NextType DEF NodeInv
  <2> QED
    BY <2>1, <2>2 DEF NodeInv, SameZeros, BlockFits, MutexIsHeld, PeerIsFresh,
       OursIsCurrent, PeerIsVerified, PeerIsLonger, MinerMayAppend,
       SwitchIsKnown, ReplyIsLongEnough, CountIsCovered, LedgerIsValid,
       ChainsAreHeld, InHand, Ref
<1> QED
  BY <1>1, <1>2, <1>3 DEF Next

\* Every reply of handle_one_consensus_request is a valid blockchain if the
\* node was started with one: the number of blocks that blockchain_serialize
\* wrote first is never more than the blocks that follow, and a prefix of a
\* valid chain is valid.
THEOREM RepliesAreValid ==
  ASSUME IsValid(InitialChain)
  PROVE  Spec => []ReplyIsValid
<1>1. NodeInv => ReplyIsValid
  <2> SUFFICES ASSUME NodeInv, s.pc = "send" PROVE IsValid(Reply)
    BY DEF ReplyIsValid
  <2> DEFINE c == [blocks |-> s.reply, zeros |-> Zeros]
  <2>1. s.reply \in Seq(Block) /\ s.count \in 0..Len(s.reply)
    BY DEF NodeInv, TypeOK, ServerTypeOK, CountIsCovered, Replying
  <2>2. IsValid(c) /\ chains[s.ours].zeros = Zeros
    BY DEF NodeInv, LedgerIsValid, OursIsCurrent, Replying
  <2>3. c \in Chain /\ s.count \in 0..Len(c.blocks)
    BY <2>1, NodeAssumption DEF Chain, Zeros
  <2>4. IsValid([blocks |-> SubSeq(c.blocks, 1, s.count), zeros |-> c.zeros])
    <3> HIDE DEF c
    <3> QED
      BY <2>2, <2>3, PrefixIsValid DEF c
  <2> QED
    BY <2>2, <2>4 DEF Reply
<1> QED
  BY InitInv, NextInv, <1>1, PTL DEF Spec

\* handle_one_consensus_request answers a valid chain of the node's difficulty
\* with one that is at least as long, whether or not it switched.
THEOREM RepliesAreNotShorter == Spec => []ReplyIsNotShorter
<1>1. NodeInv => ReplyIsNotShorter
  <2> SUFFICES ASSUME NodeInv, s.pc = "send", s.valid,
                      chains[s.peer].zeros = Reply.zeros
               PROVE  Len(Reply.blocks) >= s.length
    BY DEF ReplyIsNotShorter
  <2>1. /\ s.reply \in Seq(Block) /\ s.count \in 0..Len(s.reply)
        /\ s.length \in Nat
    BY DEF NodeInv, TypeOK, ServerTypeOK, CountIsCovered, Replying
  <2>2. Reply.zeros = Zeros
    BY DEF NodeInv, OursIsCurrent, Replying, Reply
  <2>3. s.length <= s.count
    BY <2>2 DEF NodeInv, ReplyIsLongEnough, Replying
  <2>4. Len(Reply.blocks) = s.count
    BY <2>1 DEF Reply
  <2> QED
    BY <2>1, <2>3, <2>4
<1> QED
  BY InitInv, NextInv, <1>1, PTL DEF Spec

\* Between requests the only chains that are neither published nor destroyed are
\* those that handle_one_consensus_request forgot on one of its two early
\* returns: an unreadable key in the peer's chain, a failed serialization.
THEOREM LeaksAreFailures == Spec => []OnlyFailuresLeak
<1>1. NodeInv => OnlyFailuresLeak
  BY DEF NodeInv, OnlyFailuresLeak, ChainsAreHeld, InHand, Deciding
<1> QED
  BY InitInv, NextInv, <1>1, PTL DEF Spec
-----------------------------------------------------------------------------
\* blockchain_verify is the same function in the abstract specification.
LEMMA SameVerdict ==
  ASSUME NEW c
  PROVE  Ledger!IsValid(c) <=> IsValid(c)
<1>1. ASSUME NEW tx
      PROVE  Ledger!transaction_verify_signature(tx)
               = transaction_verify_signature(tx)
  BY DEF transaction_verify_signature, Ledger!transaction_verify_signature
<1>2. ASSUME NEW I PROVE Ledger!First(I) = First(I)
  BY DEF First, Ledger!First
<1>3. ASSUME NEW txs PROVE Ledger!SignaturesVerdict(txs) = SignaturesVerdict(txs)
  BY <1>1, <1>2 DEF SignaturesVerdict, Ledger!SignaturesVerdict
<1>4. ASSUME NEW blk PROVE Ledger!GenesisVerdict(blk) = GenesisVerdict(blk)
  BY DEF GenesisVerdict, GENESIS_BLOCK_PROOF_OF_WORK, EmptyDigest,
     Ledger!GenesisVerdict, Ledger!GENESIS_BLOCK_PROOF_OF_WORK,
     Ledger!EmptyDigest
<1>5. ASSUME NEW i PROVE Ledger!BlockVerdict(c, i) = BlockVerdict(c, i)
  BY <1>3, <1>4 DEF BlockVerdict, IsMinting, block_hash,
     blockchain_is_valid_block_hash, AMOUNT_GENERATED_DURING_MINTING,
     Ledger!BlockVerdict, Ledger!IsMinting, Ledger!block_hash,
     Ledger!blockchain_is_valid_block_hash,
     Ledger!AMOUNT_GENERATED_DURING_MINTING
<1>6. Ledger!IsValid(c)
        <=> \A i \in 1..Len(c.blocks) : Ledger!BlockVerdict(c, i) = "ok"
  BY DEF Ledger!IsValid, Ledger!blockchain_verify
<1> QED
  BY <1>5, <1>6, ValidIff

Offered == IF s.pc = "switch" THEN {chains[s.peer]} ELSE {}

\* A step of mine_blocks extends the published chain by a block that fits, or
\* leaves it alone.  If the server is about to switch, the chain it switches
\* to is still as long.
LEMMA MinerExtends ==
  ASSUME NodeInv, MinerNext, UNCHANGED serverVars
  PROVE  Ledger!Extend \/ UNCHANGED <<chains[syncRef], Offered>>
<1>1. /\ SyncTypeOK /\ MinerTypeOK /\ syncRef \in Ref /\ s.peer \in Ref
      /\ SameZeros(Zeros) /\ BlockFits /\ Ref \subseteq Nat
  BY DEF NodeInv, TypeOK, SyncTypeOK, ServerTypeOK, Ref
<1>2. syncRef' = syncRef /\ s' = s
  BY <1>1, MinerFrame DEF serverVars
<1>3. s.pc = "switch" => chains'[s.peer] = chains[s.peer]
  <2>1. s.pc = "switch" => m.mine <= syncRef /\ syncRef < s.peer
    BY DEF NodeInv, PeerIsFresh, Deciding
  <2>2. m.mine \in Nat /\ syncRef \in Nat /\ s.peer \in Nat
    BY <1>1 DEF MinerTypeOK
  <2>3. s.pc = "switch" => m.mine # s.peer
    BY <2>1, <2>2
  <2> QED
    BY <1>1, <2>3, MinerGrows
<1>4. Offered' = Offered
  BY <1>2, <1>3 DEF Offered
<1>5. CASE chains'[syncRef] = chains[syncRef]
  BY <1>2, <1>4, <1>5
<1>6. CASE /\ syncRef = m.mine /\ m.pc = "add"
           /\ chains'[syncRef] = blockchain_add_block(chains[syncRef], m.block)
  <2> DEFINE old == chains[syncRef]
             new == blockchain_add_block(old, m.block)
  <2>1. old \in Chain /\ m.block \in Block
    BY <1>1, ChainFields DEF MinerTypeOK
  <2>2. Ledger!IsValid(new)
    BY <1>1, <1>6, AddedBlockIsValid, SameVerdict
  <2>3. /\ Len(new.blocks) = Len(old.blocks) + 1
        /\ new.blocks[Len(new.blocks)] = m.block
        /\ Len(old.blocks) \in Nat
    BY <2>1 DEF blockchain_add_block, Chain
  <2>4. new = Ledger!blockchain_add_block(old, m.block)
    BY DEF blockchain_add_block, Ledger!blockchain_add_block
  <2>5. chains[syncRef]' = new
    BY <1>2, <1>6
  <2>6. s.pc = "switch" => Len(old.blocks) < Len(chains[s.peer].blocks)
    BY <1>6 DEF NodeInv, PeerIsVerified, PeerIsLonger, MinerMayAppend, Searching
  <2>7. s.pc = "switch" => Len(chains[s.peer].blocks) \in Nat
    BY <1>1, ChainFields
  <2> HIDE DEF new, old
  <2>8. \A c \in Offered : Len(new.blocks) <= Len(c.blocks)
    BY <2>3, <2>6, <2>7 DEF Offered
  <2>9. chains[syncRef] = old
    BY DEF old
  <2> QED
    BY <1>4, <2>2, <2>3, <2>4, <2>5, <2>8, <2>9 DEF Ledger!Extend, Offered
<1> QED
  BY <1>1, <1>5, <1>6, MinerGrows

\* A step of the server decides for a valid and longer chain, switches to the
\* one it decided for, or changes nothing.
LEMMA ServerAdopts ==
  ASSUME NodeInv, ServerNext
  PROVE  Ledger!Offer \/ Ledger!Adopt \/ UNCHANGED <<chains[syncRef], Offered>>
<1>1. CASE ServerSwitch
  <2>1. /\ s.pc = "switch" /\ syncRef' = s.peer /\ chains' = chains
        /\ s' = [s EXCEPT !.pc = "bump"]
    BY <1>1 DEF ServerSwitch, ServerAt, ServerGoTo, heapVars
  <2>2. s'.pc = "bump"
    BY <2>1 DEF NodeInv, TypeOK, ServerTypeOK
  <2>3. chains[syncRef]' = chains[s.peer]
    BY <2>1
  <2> QED
    BY <2>1, <2>2, <2>3 DEF Ledger!Adopt
<1>2. CASE ServerRecv
  <2>1. syncRef' = syncRef /\ chains \in Seq(Chain) /\ syncRef \in 1..Len(chains)
    BY <1>2 DEF ServerRecv, sharedVars, NodeInv, TypeOK, SyncTypeOK, Ref
  <2>2. chains'[syncRef] = chains[syncRef]
    BY <1>2, <2>1 DEF ServerRecv, Allocate
  <2>3. s.pc = "recv" /\ s'.pc \in {"verify", "top", "stuck"}
    BY <1>2 DEF ServerRecv, ServerAt, ServerGoTo, CloseConnection, Return, NodeInv,
       TypeOK, ServerTypeOK
  <2> QED
    BY <2>1, <2>2, <2>3 DEF Offered
<1>3. CASE ServerCompare
  <2>1. /\ s.pc = "compare" /\ UNCHANGED <<chains, syncRef>>
        /\ s' = [s EXCEPT !.pc =
                   IF PeerIsBetter(chains[s.ours], chains[s.peer], s.length)
                   THEN "switch" ELSE "count"]
    BY <1>3 DEF ServerCompare, ServerAt, ServerGoTo, heapVars, sharedVars
  <2>2. /\ s'.peer = s.peer
        /\ s'.pc = IF PeerIsBetter(chains[s.ours], chains[s.peer], s.length)
                   THEN "switch" ELSE "count"
    BY <2>1 DEF NodeInv, TypeOK, ServerTypeOK
  <2>3. /\ s.ours = syncRef /\ IsValid(chains[s.peer])
        /\ s.length = Len(chains[s.peer].blocks)
    BY <2>1 DEF NodeInv, OursIsCurrent, PeerIsVerified
  <2>4. CASE PeerIsBetter(chains[s.ours], chains[s.peer], s.length)
    <3>1. /\ Len(chains[s.peer].blocks) > Len(chains[syncRef].blocks)
          /\ chains[s.peer].zeros = chains[syncRef].zeros
      BY <2>3, <2>4 DEF PeerIsBetter
    <3>2. Offered = {} /\ Offered' = {chains[s.peer]}
      BY <2>1, <2>2, <2>4 DEF Offered
    <3> QED
      BY <2>1, <2>3, <3>1, <3>2, SameVerdict DEF Ledger!Offer, Offered
  <2>5. CASE ~PeerIsBetter(chains[s.ours], chains[s.peer], s.length)
    BY <2>1, <2>2, <2>5 DEF Offered
  <2> QED
    BY <2>4, <2>5
<1>4. CASE ~ServerSwitch /\ ~ServerRecv /\ ~ServerCompare
  <2>1. UNCHANGED <<chains, syncRef>>
    BY <1>4 DEF ServerNext, ServerListen, ServerTop, ServerPoll, ServerVerify,
       ServerLock, ServerBump, ServerDestroyOurs, ServerCount,
       ServerCopy, ServerUnlock, ServerDiscard, ServerSend, ServerExit,
       syncVars, heapVars, sharedVars
  <2>2. s.pc # "switch" /\ s'.pc # "switch"
    BY <1>4 DEF ServerNext, ServerListen, ServerTop, ServerPoll, ServerVerify,
       ServerLock, ServerBump, ServerDestroyOurs, ServerCount, ServerCopy,
       ServerUnlock, ServerDiscard, ServerSend, ServerExit, ServerAt,
       ServerGoTo, CloseConnection, Return, NodeInv, TypeOK, ServerTypeOK
  <2> QED
    BY <2>1, <2>2 DEF Offered
<1> QED
  BY <1>1, <1>2, <1>3, <1>4

(***************************************************************************)
(* The node implements LongestChain: handle_one_consensus_request decides  *)
(* only for valid chains that are strictly longer than sync->blockchain    *)
(* and have its difficulty, and switches to what it decided for;           *)
(* mine_blocks appends blocks that fit, and, though not under the mutex,   *)
(* does not outgrow a chain that was decided for.  This holds also when    *)
(* the threads use a chain that the other has destroyed.                   *)
(***************************************************************************)
THEOREM NodeImplementsLongestChain == Spec => ImplementsLongestChain
<1>1. Init => Ledger!Init
  BY DEF Init, SyncInit, ServerInit, Ledger!Init
<1>2. NodeInv /\ [Next]_vars
        => [Ledger!Offer \/ Ledger!Extend \/ Ledger!Adopt]_<<chains[syncRef], Offered>>
  <2> SUFFICES ASSUME NodeInv, [Next]_vars
               PROVE  \/ Ledger!Offer \/ Ledger!Extend \/ Ledger!Adopt
                      \/ UNCHANGED <<chains[syncRef], Offered>>
    OBVIOUS
  <2>1. CASE MinerNext /\ UNCHANGED serverVars
    BY <2>1, MinerExtends
  <2>2. CASE ServerNext
    BY <2>2, ServerAdopts
  <2>3. CASE \/ RequestStop /\ UNCHANGED serverVars
             \/ RequestServerStop
             \/ Abort /\ UNCHANGED serverVars
             \/ UNCHANGED vars
    BY <2>3 DEF RequestStop, RequestServerStop, Abort, vars, syncVars, serverVars,
       Offered
  <2> QED
    BY <2>1, <2>2, <2>3 DEF Next
<1> QED
  BY InitInv, NextInv, <1>1, <1>2, PTL
  DEF Spec, ImplementsLongestChain, Ledger!Spec, Offered
=============================================================================
