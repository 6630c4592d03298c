---------------------------- MODULE MiningThread ----------------------------
(***************************************************************************)
(* mine_blocks of mining_thread.c, with synchronized_blockchain_mine_block *)
(* of blockchain.c inlined.  One step is one access to what other threads  *)
(* can change: the version, the stop flag, a mutex, a blockchain_t.        *)
(***************************************************************************)
EXTENDS SyncBlockchain

CONSTANTS MinerKey,         \* args->miner_public_key
          HashZeros,        \* leading zero bytes that a hash can turn out to have
          MaxProof,         \* bound: proofs tried for one block (UINT64_MAX)
          MaxBlocks,        \* bound: no proof is found for a longer chain
          HasOutfile,       \* args->outfile is not NULL
          LibraryFailures   \* malloc, OpenSSL and file operations may fail

ASSUME MinerAssumption ==
  /\ MinerKey \in Key \ UnreadableKey
  /\ HashZeros \subseteq Nat
  /\ MaxProof \in Nat
  /\ MaxBlocks \in Nat
  /\ HasOutfile \in BOOLEAN
  /\ LibraryFailures \in BOOLEAN

NoChain == blockchain_create(0)

\* The named file: not there, cut short, or a whole serialized blockchain.
File == [state: {"absent", "torn", "whole"}, chain: Chain]
TornFile == [state |-> "torn", chain |-> NoChain]

VARIABLES m,            \* mine_blocks' program counter and local variables
          currently,    \* *args->sync_version_currently_mined
          shouldStop,   \* *args->should_stop
          exitReady,    \* *args->exit_ready
          switchMutex,  \* who holds sync_version_currently_mined_mutex
          sleeping,     \* condition variables with a sleeper: "switch", "exit"
          outfile       \* contents of args->outfile

minerVars == <<m, currently, shouldStop, exitReady, switchMutex, sleeping,
               outfile>>

ReturnCode == {"SUCCESS", "FAILURE_INVALID_BLOCKCHAIN",
               "FAILURE_LINKED_LIST_EMPTY", "FAILURE_LIBRARY",
               "FAILURE_OPENSSL_FUNCTION",
               "FAILURE_COULD_NOT_FIND_VALID_PROOF_OF_WORK"}

MinerPC == {"start", "loop", "check", "refresh", "destroyOld", "loadVersion",
            "storeVersion", "signal", "verify", "prepare", "enter",
            "stopCheck", "versionCheck", "hash", "add", "open", "write",
            "exit", "returned"}

NoBlock == block_create(<<>>, 0, EmptyDigest)

MinerInit ==
  /\ m = [pc |-> "start", mine |-> 1, old |-> 1, target |-> 1, seen |-> 0,
          block |-> NoBlock, code |-> "SUCCESS"]
  /\ currently = 0
  /\ shouldStop = FALSE
  /\ exitReady = FALSE
  /\ switchMutex = Free
  /\ sleeping = {}
  /\ outfile = [state |-> "absent", chain |-> NoChain]

\* mine: blockchain; old: old_blockchain; target: the blockchain_t that
\* synchronized_blockchain_mine_block reads; seen: the version loaded but not
\* yet stored; block: next_block, its proof_of_work the next one to try.
MinerTypeOK ==
  /\ m \in [pc: MinerPC, mine: Ref, old: Ref, target: Ref, seen: Nat,
            block: Block, code: ReturnCode]
  /\ currently \in Nat
  /\ shouldStop \in BOOLEAN
  /\ exitReady \in BOOLEAN
  /\ sleeping \subseteq {"switch", "exit"}
  /\ outfile \in File
-----------------------------------------------------------------------------
MinerAt(pc) == m.pc = pc /\ ~aborted

GoTo(pc) == m' = [m EXCEPT !.pc = pc]

\* An error path: "goto end" skips the notification of exit_ready.
ReturnError(code) == m' = [m EXCEPT !.pc = "returned", !.code = code]

\* synchronized_blockchain_mine_block fails, next_block is destroyed and the
\* loop goes on with return_code = code.
MineBlockFails(code) ==
  m' = [m EXCEPT !.pc = "loop", !.block = NoBlock, !.code = code]

KeepMiner == UNCHANGED <<currently, shouldStop, exitReady, switchMutex,
                         sleeping, outfile>>

MinerStart ==
  /\ MinerAt("start")
  /\ mutex = Free
  /\ m' = [m EXCEPT !.pc = "loop", !.mine = syncRef]
  /\ UNCHANGED syncVars /\ KeepMiner

MinerLoop ==
  /\ MinerAt("loop")
  /\ GoTo(IF shouldStop THEN "exit" ELSE "check")
  /\ UNCHANGED syncVars /\ KeepMiner

MinerCheckVersion ==
  /\ MinerAt("check")
  /\ GoTo(IF currently # version THEN "refresh" ELSE "verify")
  /\ UNCHANGED syncVars /\ KeepMiner

MinerRefresh ==
  /\ MinerAt("refresh")
  /\ mutex = Free
  /\ m' = [m EXCEPT !.pc = "destroyOld", !.old = m.mine, !.mine = syncRef]
  /\ UNCHANGED syncVars /\ KeepMiner

\* Mutant: blockchain instead of old_blockchain is destroyed.
MinerDestroyOld_Wrong ==
  /\ MinerAt("destroyOld")
  /\ blockchain_destroy(m.mine)
  /\ m' = [m EXCEPT !.pc = "loadVersion", !.code = "SUCCESS"]
  /\ UNCHANGED <<chains, aborted, sharedVars>> /\ KeepMiner

MinerDestroyOld ==
  /\ MinerAt("destroyOld")
  /\ blockchain_destroy(m.old)
  /\ m' = [m EXCEPT !.pc = "loadVersion", !.code = "SUCCESS"]
  /\ UNCHANGED <<chains, aborted, sharedVars>> /\ KeepMiner

MinerLoadVersion ==
  /\ MinerAt("loadVersion")
  /\ m' = [m EXCEPT !.pc = "storeVersion", !.seen = version]
  /\ UNCHANGED syncVars /\ KeepMiner

MinerStoreVersion ==
  /\ MinerAt("storeVersion")
  /\ currently' = m.seen
  /\ GoTo("signal")
  /\ UNCHANGED <<syncVars, shouldStop, exitReady, switchMutex, sleeping,
                 outfile>>

\* Mutant: the signal is sent without taking the mutex.
MinerSignal_Unlocked ==
  /\ MinerAt("signal")
  /\ sleeping' = sleeping \ {"switch"}
  /\ GoTo("verify")
  /\ UNCHANGED <<syncVars, currently, shouldStop, exitReady, switchMutex,
                 outfile>>

\* Lock, pthread_cond_signal, unlock.
MinerSignal ==
  /\ MinerAt("signal")
  /\ switchMutex = Free
  /\ sleeping' = sleeping \ {"switch"}
  /\ GoTo("verify")
  /\ UNCHANGED <<syncVars, currently, shouldStop, exitReady, switchMutex,
                 outfile>>

\* An invalid chain is reported through first_invalid_block; if that is still
\* NULL the report is a null dereference, which kills the process.
MinerVerify ==
  LET v == blockchain_verify(chains[m.mine]) IN
  /\ MinerAt("verify")
  /\ Use(m.mine)
  /\ \/ /\ v.code # "SUCCESS"
        /\ ReturnError(v.code)
        /\ UNCHANGED aborted
     \/ /\ v.code = "SUCCESS" /\ ~v.valid /\ v.first # 0
        /\ ReturnError("FAILURE_INVALID_BLOCKCHAIN")
        /\ UNCHANGED aborted
     \/ /\ v.code = "SUCCESS" /\ ~v.valid /\ v.first = 0
        /\ aborted' = TRUE
        /\ UNCHANGED m
     \/ /\ v.code = "SUCCESS" /\ v.valid
        /\ m' = [m EXCEPT !.pc = "prepare", !.code = "SUCCESS"]
        /\ UNCHANGED aborted
     \/ /\ LibraryFailures
        /\ ReturnError("FAILURE_LIBRARY")
        /\ UNCHANGED aborted
  /\ UNCHANGED <<heapVars, sharedVars>> /\ KeepMiner

MinerPrepare ==
  LET blocks == chains[m.mine].blocks IN
  /\ MinerAt("prepare")
  /\ Use(m.mine)
  /\ \/ /\ blocks = <<>>
        /\ ReturnError("FAILURE_LINKED_LIST_EMPTY")
     \/ /\ blocks # <<>>
        /\ m' = [m EXCEPT !.pc = "enter",
                   !.block = block_create(<<MintingTransaction(MinerKey)>>, 0,
                                          block_hash(linked_list_get_last(blocks)))]
     \/ /\ blocks # <<>> /\ LibraryFailures
        /\ ReturnError("FAILURE_LIBRARY")
  /\ UNCHANGED <<heapVars, aborted, sharedVars>> /\ KeepMiner
-----------------------------------------------------------------------------
(***************************************************************************)
(* synchronized_blockchain_mine_block.                                     *)
(***************************************************************************)
MinerEnter ==
  /\ MinerAt("enter")
  /\ mutex = Free
  /\ m' = [m EXCEPT !.pc = "stopCheck", !.target = syncRef]
  /\ UNCHANGED syncVars /\ KeepMiner

MinerStopCheck ==
  /\ MinerAt("stopCheck")
  /\ \/ /\ m.block.proof = MaxProof
        /\ MineBlockFails("FAILURE_COULD_NOT_FIND_VALID_PROOF_OF_WORK")
     \/ /\ m.block.proof # MaxProof /\ shouldStop
        /\ MineBlockFails("SUCCESS")   \* FAILURE_STOPPED_EARLY is reset
     \/ /\ m.block.proof # MaxProof /\ ~shouldStop
        /\ GoTo("versionCheck")
  /\ UNCHANGED syncVars /\ KeepMiner

MinerVersionCheck ==
  /\ MinerAt("versionCheck")
  /\ IF currently # version
     THEN MineBlockFails("SUCCESS")   \* FAILURE_LONGER_BLOCKCHAIN_DETECTED
     ELSE GoTo("hash")
  /\ UNCHANGED syncVars /\ KeepMiner

\* One proof is tried against the requirement of the chain read at MinerEnter.
MinerHash ==
  /\ MinerAt("hash")
  /\ Use(m.target)
  /\ \/ \E z \in HashZeros :
          LET b == [m.block EXCEPT !.zeros = z] IN
          IF blockchain_is_valid_block_hash(chains[m.target], b)
          THEN /\ Len(b.prev) < MaxBlocks
               /\ m' = [m EXCEPT !.pc = "add", !.block = b]
          ELSE m' = [m EXCEPT !.pc = "stopCheck", !.block.proof = @ + 1]
     \/ LibraryFailures /\ ReturnError("FAILURE_LIBRARY")
  /\ UNCHANGED <<heapVars, aborted, sharedVars>> /\ KeepMiner
-----------------------------------------------------------------------------
\* blockchain_add_block is called on the miner's own reference, unlocked.
MinerAdd ==
  /\ MinerAt("add")
  /\ Use(m.mine)
  /\ \/ /\ chains' = [chains EXCEPT ![m.mine] = blockchain_add_block(@, m.block)]
        /\ m' = [m EXCEPT !.pc = IF HasOutfile THEN "open" ELSE "loop",
                          !.block = NoBlock]
     \/ /\ LibraryFailures
        /\ ReturnError("FAILURE_LIBRARY")
        /\ UNCHANGED chains
  /\ UNCHANGED <<destroyed, aborted, sharedVars>> /\ KeepMiner

\* blockchain_write_to_file: serialize, then truncate the file by opening it.
MinerOpen ==
  /\ MinerAt("open")
  /\ Use(m.mine)
  /\ \/ /\ GoTo("write")
        /\ outfile' = TornFile
     \/ /\ LibraryFailures
        /\ GoTo("loop")
        /\ UNCHANGED outfile
  /\ UNCHANGED <<heapVars, aborted, sharedVars, currently, shouldStop,
                 exitReady, switchMutex, sleeping>>

\* A short write leaves a torn file; the caller ignores the return code.  The
\* buffer was filled before; only this thread appends to the chain.
MinerWrite ==
  /\ MinerAt("write")
  /\ \/ outfile' = [state |-> "whole", chain |-> chains[m.mine]]
     \/ LibraryFailures /\ UNCHANGED outfile
  /\ GoTo("loop")
  /\ UNCHANGED <<syncVars, currently, shouldStop, exitReady, switchMutex,
                 sleeping>>

\* Mutant: exit_ready is set but its condition variable is not signalled.
MinerExit_NoSignal ==
  /\ MinerAt("exit")
  /\ exitReady' = TRUE
  /\ GoTo("returned")
  /\ UNCHANGED <<syncVars, currently, shouldStop, switchMutex, sleeping,
                 outfile>>

MinerExit ==
  /\ MinerAt("exit")
  /\ exitReady' = TRUE
  /\ sleeping' = sleeping \ {"exit"}
  /\ GoTo("returned")
  /\ UNCHANGED <<syncVars, currently, shouldStop, switchMutex, outfile>>

MinerNext ==
  \/ MinerStart \/ MinerLoop \/ MinerCheckVersion \/ MinerRefresh
  \/ MinerDestroyOld \/ MinerLoadVersion \/ MinerStoreVersion \/ MinerSignal
  \/ MinerVerify \/ MinerPrepare \/ MinerEnter \/ MinerStopCheck
  \/ MinerVersionCheck \/ MinerHash \/ MinerAdd \/ MinerOpen \/ MinerWrite
  \/ MinerExit

\* Another thread sets *args->should_stop.
RequestStop ==
  /\ ~shouldStop /\ ~aborted
  /\ shouldStop' = TRUE
  /\ UNCHANGED <<syncVars, m, currently, exitReady, switchMutex, sleeping,
                 outfile>>
=============================================================================
