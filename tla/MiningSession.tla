--------------------------- MODULE MiningSession ----------------------------
(***************************************************************************)
(* The miner thread and the thread that owns it, used as the comments of   *)
(* mining_thread.h and blockchain.h prescribe and as the second test of    *)
(* test_mining_thread.c does: the owner publishes a new blockchain, may    *)
(* wait on the condition variable until the miner has switched, and in the *)
(* end sets should_stop, waits for exit_ready and destroys the             *)
(* synchronized blockchain.  To publish is to lock, update the pointer,    *)
(* increment the version and unlock; the test unlocks before it            *)
(* increments.  The miner frees what it leaves.                            *)
(***************************************************************************)
EXTENDS MiningThread

CONSTANTS InitialChain,       \* the blockchain that sync is created with
          PublishedChains,    \* contents of the blockchains the owner publishes
          PublishBeforeStart  \* may the owner publish before the new thread
                              \* has read sync->blockchain?

ASSUME SessionAssumption ==
  /\ InitialChain \in Chain
  /\ PublishedChains \subseteq Chain
  /\ PublishBeforeStart \in BOOLEAN

VARIABLE owner   \* program counter of the owner

vars == <<syncVars, minerVars, owner>>

OwnerPC == {"idle", "pointer", "bump", "unlock", "lockSwitch", "checkSwitch",
            "sleepSwitch", "awaitExit", "joined", "destroyed"}

Init == SyncInit(InitialChain) /\ MinerInit /\ owner = "idle"

TypeOK == /\ SyncTypeOK
          /\ MinerTypeOK
          /\ mutex \in {Free, "owner"}
          /\ switchMutex \in {Free, "owner"}
          /\ owner \in OwnerPC
-----------------------------------------------------------------------------
OwnerAt(pc) == owner = pc /\ ~aborted

OwnerLock ==
  /\ OwnerAt("idle")
  /\ m.pc = "start" => PublishBeforeStart
  /\ Len(chains) < MaxChains
  /\ mutex = Free
  /\ mutex' = "owner"
  /\ owner' = "pointer"
  /\ UNCHANGED <<heapVars, misused, aborted, syncRef, version, minerVars>>

OwnerPointer ==
  /\ OwnerAt("pointer")
  /\ \E c \in PublishedChains : Allocate(c)
  /\ syncRef' = Len(chains) + 1
  /\ owner' = "bump"
  /\ UNCHANGED <<destroyed, misused, aborted, version, mutex, minerVars>>

OwnerBump ==
  /\ OwnerAt("bump")
  /\ version' = version + 1
  /\ owner' = "unlock"
  /\ UNCHANGED <<heapVars, misused, aborted, syncRef, mutex, minerVars>>

\* The owner may go on to wait until its publication is mined.
OwnerUnlock ==
  /\ OwnerAt("unlock")
  /\ mutex' = Free
  /\ owner' \in {"idle", "lockSwitch"}
  /\ UNCHANGED <<heapVars, misused, aborted, syncRef, version, minerVars>>

OwnerLockSwitch ==
  /\ OwnerAt("lockSwitch")
  /\ "switch" \notin sleeping
  /\ switchMutex = Free
  /\ switchMutex' = "owner"
  /\ owner' = "checkSwitch"
  /\ UNCHANGED <<syncVars, m, currently, shouldStop, exitReady, sleeping,
                 outfile>>

\* Either the miner has switched and the owner unlocks, or it will sleep.
OwnerCheckSwitch ==
  /\ OwnerAt("checkSwitch")
  /\ IF currently = version
     THEN /\ owner' = "idle"
          /\ switchMutex' = Free
     ELSE /\ owner' = "sleepSwitch"
          /\ UNCHANGED switchMutex
  /\ UNCHANGED <<syncVars, m, currently, shouldStop, exitReady, sleeping,
                 outfile>>

\* pthread_cond_wait: sleep and unlock in one step.
OwnerSleepSwitch ==
  /\ OwnerAt("sleepSwitch")
  /\ switchMutex' = Free
  /\ sleeping' = sleeping \cup {"switch"}
  /\ owner' = "lockSwitch"
  /\ UNCHANGED <<syncVars, m, currently, shouldStop, exitReady, outfile>>

OwnerStop ==
  /\ OwnerAt("idle")
  /\ RequestStop
  /\ owner' = "awaitExit"

\* Under exit_ready_mutex, which also covers the miner's write.
OwnerAwaitExit ==
  /\ OwnerAt("awaitExit")
  /\ "exit" \notin sleeping
  /\ IF exitReady
     THEN owner' = "joined" /\ UNCHANGED sleeping
     ELSE sleeping' = {"exit"} /\ UNCHANGED owner
  /\ UNCHANGED <<syncVars, m, currently, shouldStop, exitReady, switchMutex,
                 outfile>>

\* synchronized_blockchain_destroy, once the thread has been joined.
OwnerDestroy ==
  /\ OwnerAt("joined")
  /\ blockchain_destroy(syncRef)
  /\ owner' = "destroyed"
  /\ UNCHANGED <<chains, aborted, sharedVars, minerVars>>

OwnerNext ==
  \/ OwnerLock \/ OwnerPointer \/ OwnerBump \/ OwnerUnlock
  \/ OwnerLockSwitch \/ OwnerCheckSwitch \/ OwnerSleepSwitch
  \/ OwnerStop \/ OwnerAwaitExit \/ OwnerDestroy

\* Abort is left out: every run and theorem treats a misuse as an error.
Next == (MinerNext /\ UNCHANGED owner) \/ OwnerNext

Spec == Init /\ [][Next]_vars

(***************************************************************************)
(* Both threads are scheduled.  The owner need not publish or stop.        *)
(***************************************************************************)
OwnerContinues ==
  \/ OwnerPointer \/ OwnerBump \/ OwnerUnlock \/ OwnerLockSwitch
  \/ OwnerCheckSwitch \/ OwnerSleepSwitch \/ OwnerAwaitExit

FairSpec == /\ Spec
            /\ WF_vars(MinerNext /\ UNCHANGED owner)
            /\ WF_vars(OwnerContinues)
-----------------------------------------------------------------------------
(***************************************************************************)
(* A valid blockchain stays valid: the block that mine_blocks appends fits *)
(* the chain it appends it to, though the chain was read, the block built  *)
(* and its hash checked in steps that another thread's switch can split.   *)
(***************************************************************************)
ValidChainsStayValid ==
  [][\A r \in Ref : IsValid(chains[r]) => IsValid(chains'[r])]_vars

(***************************************************************************)
(* Whatever args->outfile holds when it is not torn is a valid blockchain, *)
(* also when the owner publishes invalid ones: blockchain_write_to_file    *)
(* saves the chain outside the mutex, after an append, with switches going *)
(* on around it.                                                           *)
(***************************************************************************)
OutfileIsValid == outfile.state = "whole" => IsValid(outfile.chain)

\* mine_blocks ended on one of its "goto end" paths, or the process was killed.
MinerFailed == aborted \/ (m.pc = "returned" /\ ~exitReady)

(***************************************************************************)
(* should_stop "requests that the function terminate gracefully": an owner *)
(* that asks for it gets to join the thread, unless mine_blocks fails.     *)
(***************************************************************************)
StopIsAnswered == (owner = "awaitExit") ~> (owner = "joined" \/ MinerFailed)

(***************************************************************************)
(* An owner that waits for its publication to be mined is woken up: the    *)
(* signal of mine_blocks is not lost between the owner's look at the       *)
(* version and its sleep.                                                  *)
(***************************************************************************)
SwitchIsAnswered == (owner = "lockSwitch") ~> (owner = "idle" \/ MinerFailed)
=============================================================================
