------------------------- MODULE ConsensusPeerServer ------------------------
(***************************************************************************)
(* run_consensus_peer_server and handle_one_consensus_request of           *)
(* consensus_peer_server_thread.c.  Connections are served one at a time.  *)
(* What a peer sends is a blockchain that deserializes, something that the *)
(* handler rejects, or less than a whole message: then recv_all, which     *)
(* counts the 0 of a closed connection as progress, never returns.         *)
(***************************************************************************)
EXTENDS SyncBlockchain

CONSTANTS PeerChains,      \* blockchains that peers send
          PeersStall,      \* peers may close or stop reading in mid-message
          ServerFailures   \* socket, malloc and name lookup calls may fail

ASSUME ServerAssumption ==
  /\ PeerChains \subseteq Chain
  /\ PeersStall \in BOOLEAN
  /\ ServerFailures \in BOOLEAN

VARIABLES s,            \* the server thread's program counter and locals
          serverStop,   \* *args->should_stop
          serverExit    \* *args->exit_ready

serverVars == <<s, serverStop, serverExit>>

ServerPC == {"listen", "top", "poll", "recv", "verify", "lock", "compare",
             "switch", "bump", "destroyOurs", "count", "copy", "unlock",
             "discard", "send", "stuck", "exit", "returned"}

ServerInit ==
  /\ s = [pc |-> "listen", peer |-> 1, ours |-> 1, valid |-> FALSE,
          length |-> 0, switched |-> FALSE, count |-> 0, reply |-> <<>>,
          lost |-> {}]
  /\ serverStop = FALSE
  /\ serverExit = FALSE

\* peer: peer_blockchain; length: peer_blockchain_length, taken before the
\* mutex; ours: our_blockchain; count and reply: the number of blocks in the
\* header of the serialized chain and the blocks after it; lost: the peer
\* chains to which an early return of the handler left no pointer.
ServerTypeOK ==
  /\ s \in [pc: ServerPC, peer: Ref, ours: Ref, valid: BOOLEAN,
            length: Nat, switched: BOOLEAN, count: Nat, reply: Seq(Block),
            lost: SUBSET Ref]
  /\ serverStop \in BOOLEAN
  /\ serverExit \in BOOLEAN
-----------------------------------------------------------------------------
ServerAt(pc) == s.pc = pc /\ ~aborted

ServerGoTo(pc) == s' = [s EXCEPT !.pc = pc]

\* The handler returns and the connection is closed; the chains in forgotten
\* are not destroyed.
Return(forgotten) ==
  s' = [s EXCEPT !.pc = "top", !.peer = 1, !.ours = 1, !.valid = FALSE,
                 !.length = 0, !.switched = FALSE, !.count = 0,
                 !.reply = <<>>, !.lost = @ \cup forgotten]

CloseConnection == Return({})

KeepServer == UNCHANGED <<serverStop, serverExit>>

ServerListen ==
  /\ ServerAt("listen")
  /\ \/ ServerGoTo("top")
     \/ ServerFailures /\ ServerGoTo("exit")
  /\ UNCHANGED syncVars /\ KeepServer

\* Mutant: should_stop is read only once, before the loop.
ServerTop_NeverStops ==
  /\ ServerAt("top")
  /\ ServerGoTo("poll")
  /\ UNCHANGED syncVars /\ KeepServer

ServerTop ==
  /\ ServerAt("top")
  /\ ServerGoTo(IF serverStop THEN "exit" ELSE "poll")
  /\ UNCHANGED syncVars /\ KeepServer

\* poll times out, or a connection is accepted, or a call fails: then the
\* thread ends, with exit_ready set.
ServerPoll ==
  /\ ServerAt("poll")
  /\ \/ ServerGoTo("top")
     \/ ServerGoTo("recv")
     \/ ServerFailures /\ ServerGoTo("exit")
  /\ UNCHANGED syncVars /\ KeepServer

ServerRecv ==
  /\ ServerAt("recv")
  /\ \/ /\ \E c \in PeerChains : Allocate(c)
        /\ s' = [s EXCEPT !.pc = "verify", !.peer = Len(chains) + 1]
     \/ /\ CloseConnection
        /\ UNCHANGED chains
     \/ /\ PeersStall
        /\ ServerGoTo("stuck")
        /\ UNCHANGED chains
  /\ UNCHANGED <<destroyed, misused, aborted, sharedVars>> /\ KeepServer

\* Mutant: *is_valid_blockchain is not looked at.
ServerVerify_AnyChain ==
  /\ ServerAt("verify")
  /\ Use(s.peer)
  /\ s' = [s EXCEPT !.pc = "lock", !.valid = TRUE,
                    !.length = Len(chains[s.peer].blocks)]
  /\ UNCHANGED <<heapVars, aborted, sharedVars>> /\ KeepServer

\* If the signatures cannot be checked the handler returns: the peer's chain
\* is never destroyed.
ServerVerify ==
  LET v == blockchain_verify(chains[s.peer]) IN
  /\ ServerAt("verify")
  /\ Use(s.peer)
  /\ IF v.code # "SUCCESS" THEN Return({s.peer})
     ELSE s' = [s EXCEPT !.pc = "lock", !.valid = v.valid,
                       !.length = Len(chains[s.peer].blocks)]
  /\ UNCHANGED <<heapVars, aborted, sharedVars>> /\ KeepServer

ServerLock ==
  /\ ServerAt("lock")
  /\ mutex = Free
  /\ mutex' = "server"
  /\ s' = [s EXCEPT !.pc = IF s.valid THEN "compare" ELSE "count",
                    !.ours = syncRef]
  /\ UNCHANGED <<heapVars, misused, aborted, syncRef, version>> /\ KeepServer

\* Mutants: the comparison of lengths is off by one, in both directions.
PeerIsBetter_OffByOne(ours, peer, length) ==
  length > Len(ours.blocks) + 1 /\ peer.zeros = ours.zeros
PeerIsBetter_OrEqual(ours, peer, length) ==
  length >= Len(ours.blocks) /\ peer.zeros = ours.zeros

PeerIsBetter(ours, peer, length) ==
  length > Len(ours.blocks) /\ peer.zeros = ours.zeros

ServerCompare ==
  /\ ServerAt("compare")
  /\ Use(s.ours)
  /\ ServerGoTo(IF PeerIsBetter(chains[s.ours], chains[s.peer], s.length)
                THEN "switch" ELSE "count")
  /\ UNCHANGED <<heapVars, aborted, sharedVars>> /\ KeepServer

ServerSwitch ==
  /\ ServerAt("switch")
  /\ syncRef' = s.peer
  /\ ServerGoTo("bump")
  /\ UNCHANGED <<heapVars, misused, aborted, version, mutex>> /\ KeepServer

ServerBump ==
  /\ ServerAt("bump")
  /\ version' = version + 1
  /\ s' = [s EXCEPT !.pc = "destroyOurs", !.switched = TRUE]
  /\ UNCHANGED <<heapVars, misused, aborted, syncRef, mutex>> /\ KeepServer

ServerDestroyOurs ==
  /\ ServerAt("destroyOurs")
  /\ blockchain_destroy(s.ours)
  /\ ServerGoTo("count")
  /\ UNCHANGED <<chains, aborted, sharedVars>> /\ KeepServer

(***************************************************************************)
(* blockchain_serialize writes the number of blocks, then walks the list:  *)
(* the miner can append a block in between.                                *)
(***************************************************************************)
ServerCount ==
  /\ ServerAt("count")
  /\ Use(syncRef)
  /\ s' = [s EXCEPT !.pc = "copy", !.ours = syncRef,
                    !.count = Len(chains[syncRef].blocks)]
  /\ UNCHANGED <<heapVars, aborted, sharedVars>> /\ KeepServer

\* Mutant: the error path returns with the mutex held.
ServerCopy_KeepsMutex ==
  /\ ServerAt("copy")
  /\ Use(s.ours)
  /\ \/ s' = [s EXCEPT !.pc = "unlock", !.reply = chains[s.ours].blocks]
     \/ ServerFailures /\ CloseConnection
  /\ UNCHANGED <<heapVars, aborted, sharedVars>> /\ KeepServer

ServerCopy ==
  /\ ServerAt("copy")
  /\ Use(s.ours)
  /\ \/ /\ s' = [s EXCEPT !.pc = "unlock", !.reply = chains[s.ours].blocks]
        /\ UNCHANGED mutex
     \/ /\ ServerFailures
        /\ Return({s.peer} \ {syncRef})
        /\ mutex' = Free
  /\ UNCHANGED <<heapVars, aborted, syncRef, version>> /\ KeepServer

ServerUnlock ==
  /\ ServerAt("unlock")
  /\ mutex' = Free
  /\ ServerGoTo(IF s.switched THEN "send" ELSE "discard")
  /\ UNCHANGED <<heapVars, misused, aborted, syncRef, version>> /\ KeepServer

\* Mutant: the peer's chain is not destroyed.
ServerDiscard_Forgets ==
  /\ ServerAt("discard")
  /\ ServerGoTo("send")
  /\ UNCHANGED syncVars /\ KeepServer

ServerDiscard ==
  /\ ServerAt("discard")
  /\ blockchain_destroy(s.peer)
  /\ ServerGoTo("send")
  /\ UNCHANGED <<chains, aborted, sharedVars>> /\ KeepServer

\* Sent, or failed: either way the connection is closed next.  To send to a
\* peer that has reset the connection raises SIGPIPE, which ends the process.
ServerSend ==
  /\ ServerAt("send")
  /\ \/ CloseConnection /\ UNCHANGED aborted
     \/ PeersStall /\ ServerGoTo("stuck") /\ UNCHANGED aborted
     \/ PeersStall /\ aborted' = TRUE /\ UNCHANGED s
  /\ UNCHANGED <<heapVars, misused, sharedVars>> /\ KeepServer

ServerExit ==
  /\ ServerAt("exit")
  /\ serverExit' = TRUE
  /\ ServerGoTo("returned")
  /\ UNCHANGED <<syncVars, serverStop>>

ServerNext ==
  \/ ServerListen \/ ServerTop \/ ServerPoll \/ ServerRecv \/ ServerVerify
  \/ ServerLock \/ ServerCompare \/ ServerSwitch \/ ServerBump
  \/ ServerDestroyOurs \/ ServerCount \/ ServerCopy \/ ServerUnlock
  \/ ServerDiscard \/ ServerSend \/ ServerExit

\* Another thread sets *args->should_stop.
RequestServerStop ==
  /\ ~serverStop /\ ~aborted
  /\ serverStop' = TRUE
  /\ UNCHANGED <<syncVars, s, serverExit>>
=============================================================================
