-------------------------------- MODULE Node --------------------------------
(***************************************************************************)
(* The miner thread and the consensus peer server on one synchronized      *)
(* blockchain, as mining_thread.h foresees ("the networking thread has     *)
(* received a longer blockchain").                                         *)
(***************************************************************************)
EXTENDS MiningThread, ConsensusPeerServer

CONSTANT InitialChain

ASSUME NodeAssumption == InitialChain \in Chain

vars == <<syncVars, minerVars, serverVars>>

Init == SyncInit(InitialChain) /\ MinerInit /\ ServerInit

Next == \/ MinerNext /\ UNCHANGED serverVars
        \/ RequestStop /\ UNCHANGED serverVars
        \/ ServerNext /\ UNCHANGED minerVars
        \/ RequestServerStop /\ UNCHANGED minerVars
        \/ Abort /\ UNCHANGED <<minerVars, serverVars>>

Spec == Init /\ [][Next]_vars

\* Both threads are scheduled; nobody has to ask them to stop.
FairSpec == /\ Spec
            /\ WF_vars(MinerNext /\ UNCHANGED serverVars)
            /\ WF_vars(ServerNext /\ UNCHANGED minerVars)

TypeOK == /\ SyncTypeOK
          /\ MinerTypeOK
          /\ ServerTypeOK
          /\ mutex \in {Free, "server"}
          /\ switchMutex = Free
-----------------------------------------------------------------------------
\* What a peer reads from the reply: "count" blocks, the rest is ignored.
Reply == [blocks |-> SubSeq(s.reply, 1, s.count), zeros |-> chains[s.ours].zeros]

(***************************************************************************)
(* The reply that handle_one_consensus_request sends is a valid blockchain *)
(* although the miner can append to the chain while it is serialized.      *)
(***************************************************************************)
ReplyIsValid == s.pc = "send" => IsValid(Reply)

(***************************************************************************)
(* handle_one_consensus_request "sends the new longest chain": the reply   *)
(* to a valid chain of the same difficulty is not shorter than that chain. *)
(***************************************************************************)
ReplyIsNotShorter ==
  s.pc = "send" /\ s.valid /\ chains[s.peer].zeros = Reply.zeros
    => Len(Reply.blocks) >= s.length

(***************************************************************************)
(* consensus_peer_server_thread.h: the server "will update the             *)
(* synchronized blockchain whenever it receives a longer chain that is     *)
(* valid and has the same number of leading zeros".  It does so only then; *)
(* a miner that appends between the comparison and the switch can make the *)
(* two chains equally long, but never the replaced one longer.             *)
(***************************************************************************)
Ledger == INSTANCE LongestChain
  WITH ledger        <- chains[syncRef],
       offered       <- IF s.pc = "switch" THEN {chains[s.peer]} ELSE {},
       InitialLedger <- InitialChain
ImplementsLongestChain == Ledger!Spec

(***************************************************************************)
(* Between requests every blockchain_t that was received and is not the    *)
(* current chain has been destroyed, except those that a failed signature  *)
(* check or serialization made handle_one_consensus_request forget.        *)
(***************************************************************************)
OnlyFailuresLeak ==
  s.pc \in {"top", "poll", "exit", "returned"}
    => Ref \ destroyed \subseteq {syncRef} \cup s.lost

(***************************************************************************)
(* The mutex of the synchronized blockchain is always released again.      *)
(***************************************************************************)
MutexIsReleased == (mutex = "server") ~> (mutex = Free \/ aborted)

(***************************************************************************)
(* A server that is asked to stop returns, after at most one connection,   *)
(* unless a peer stalls it, or a destroyed chain or a peer that resets the *)
(* connection kills the process.                                           *)
(***************************************************************************)
ServerStops == serverStop ~> (s.pc \in {"returned", "stuck"} \/ aborted)

(***************************************************************************)
(* consensus_peer_server_thread.h: setting should_stop "requests that the  *)
(* function terminate gracefully.  Users should expect the function to     *)
(* terminate in a timely manner".                                          *)
(***************************************************************************)
ServerStopIsAnswered == serverStop ~> (s.pc = "returned" \/ aborted)
=============================================================================
