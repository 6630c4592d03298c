---------------------------- MODULE MiningProofs ----------------------------
(***************************************************************************)
(* Proofs about MiningSession, for every value of its constants: types,    *)
(* who owns which blockchain_t, and that mining and saving keep chains     *)
(* valid.                                                                  *)
(***************************************************************************)
EXTENDS MiningSession, BlockchainProofs

(***************************************************************************)
(* Why mine_blocks may destroy the chain it leaves.  References grow with  *)
(* publications, so a chain's reference tells its age.                     *)
(***************************************************************************)

Publishing == owner \in {"pointer", "bump", "unlock"}

\* The published chain is the newest; the version counts the publications.
VersionCountsChains ==
  /\ syncRef = Len(chains)
  /\ Len(chains) = IF owner = "bump" THEN version + 2 ELSE version + 1
  /\ Publishing => mutex = "owner"
  /\ m.pc = "start" => ~Publishing /\ version = 0

\* The miner's chain is not newer than the version it has recorded, so a
\* version that differs from it means a chain that differs.
ChainIsRecorded ==
  /\ currently <= version
  /\ m.pc = "refresh" => currently < version
  /\ m.pc \in {"destroyOld", "loadVersion"} => m.mine <= version + 1
  /\ m.pc = "storeVersion" => m.seen <= version /\ m.mine <= m.seen + 1
  /\ m.pc \notin {"destroyOld", "loadVersion", "storeVersion"}
       => m.mine <= currently + 1

\* The thread that the owner has joined takes no more steps.
JoinedHasReturned ==
  /\ exitReady => m.pc = "returned"
  /\ owner \in {"joined", "destroyed"} => exitReady

\* What has been destroyed is older than what the miner still uses, until the
\* owner destroys the published chain after the miner's return.
DestroyedAreOlder ==
  /\ misused = {}
  /\ m.pc = "destroyOld" => m.old < m.mine /\ \A r \in destroyed : r < m.old
  /\ m.pc # "destroyOld" /\ owner # "destroyed"
       => \A r \in destroyed : r < m.mine
  /\ m.pc \in {"stopCheck", "versionCheck", "hash"} => m.mine <= m.target

Ownership ==
  /\ TypeOK
  /\ VersionCountsChains
  /\ ChainIsRecorded
  /\ JoinedHasReturned
  /\ DestroyedAreOlder
-----------------------------------------------------------------------------
\* The step of a spec is the miner's, the owner's, a death or a stutter: the
\* initial state is well typed.
LEMMA InitType == Init => TypeOK
<1> SUFFICES ASSUME Init PROVE TypeOK
  OBVIOUS
<1> USE DEF Init, SyncInit, MinerInit
<1>1. chains \in Seq(Chain) /\ Len(chains) = 1
  BY SessionAssumption
<1>2. SyncTypeOK
  <2>1. /\ Len(chains) \in 1..MaxChains
        /\ syncRef \in Ref
        /\ version \in Nat
    BY <1>1, MaxChainsAssumption DEF Ref
  <2>2. destroyed \subseteq Ref /\ misused \subseteq destroyed
    OBVIOUS
  <2> QED
    BY <1>1, <2>1, <2>2, Zenon DEF SyncTypeOK
<1>3. MinerTypeOK
  <2>1. m \in [pc: MinerPC, mine: Ref, old: Ref, target: Ref, seen: Nat,
               block: Block, code: ReturnCode]
    BY <1>1, EmptyTypes DEF Ref, MinerPC, ReturnCode
  <2>2. outfile \in File
    BY EmptyTypes DEF File
  <2>3. currently \in Nat
    OBVIOUS
  <2>4. sleeping \subseteq {"switch", "exit"}
    OBVIOUS
  <2> QED
    BY <2>1, <2>2, <2>3, <2>4, Zenon DEF MinerTypeOK
<1> QED
  BY <1>2, <1>3 DEF TypeOK, OwnerPC, Free

\* Every step of the miner and of its owner keeps the types.
LEMMA NextType == TypeOK /\ [Next]_vars => TypeOK'
<1> SUFFICES ASSUME TypeOK, [Next]_vars PROVE TypeOK'
  OBVIOUS
<1>1. CASE MinerNext /\ UNCHANGED owner
  BY <1>1, MinerTypes DEF TypeOK
<1> USE DEF TypeOK, SyncTypeOK, MinerTypeOK, OwnerPC, Ref
<1>2. CASE OwnerLock
  BY <1>2 DEF OwnerLock, heapVars, minerVars
<1>3. CASE OwnerPointer
  <2>1. PICK c \in PublishedChains : Allocate(c)
    BY <1>3 DEF OwnerPointer
  <2>2. /\ chains' \in Seq(Chain)
        /\ Len(chains') = Len(chains) + 1
        /\ Len(chains') \in 1..MaxChains
    BY <2>1, SessionAssumption, MaxChainsAssumption DEF Allocate
  <2>3. Ref \subseteq Ref' /\ Len(chains) + 1 \in Ref'
    BY <2>2
  <2>4. SyncTypeOK'
    BY <1>3, <2>2, <2>3 DEF OwnerPointer
  <2>5. MinerTypeOK'
    BY <1>3, <2>3 DEF OwnerPointer, minerVars
  <2> QED
    BY <1>3, <2>4, <2>5 DEF OwnerPointer, minerVars
<1>4. CASE OwnerBump
  BY <1>4 DEF OwnerBump, heapVars, minerVars
<1>5. CASE OwnerUnlock
  BY <1>5 DEF OwnerUnlock, heapVars, minerVars
<1>6. CASE OwnerLockSwitch
  BY <1>6 DEF OwnerLockSwitch, syncVars
<1>7. CASE OwnerCheckSwitch
  BY <1>7 DEF OwnerCheckSwitch, syncVars
<1>8. CASE OwnerSleepSwitch
  BY <1>8 DEF OwnerSleepSwitch, syncVars
<1>9. CASE OwnerStop
  BY <1>9 DEF OwnerStop, RequestStop, syncVars
<1>10. CASE OwnerAwaitExit
  BY <1>10 DEF OwnerAwaitExit, syncVars
<1>11. CASE OwnerDestroy
  BY <1>11 DEF OwnerDestroy, blockchain_destroy, Use, sharedVars, minerVars
<1>12. CASE UNCHANGED vars
  BY <1>12 DEF vars, syncVars, minerVars
<1> QED
  BY <1>1, <1>2, <1>3, <1>4, <1>5, <1>6, <1>7, <1>8, <1>9, <1>10, <1>11,
     <1>12 DEF Next, OwnerNext

\* Type correctness of the mining session: whatever the owner publishes, the
\* references, versions, blocks and return codes of mine_blocks stay in range.
THEOREM TypeCorrect == Spec => []TypeOK
<1> QED
  BY InitType, NextType, PTL DEF Spec
-----------------------------------------------------------------------------
\* A miner that has just started has destroyed nothing.
LEMMA InitOwnership == Init => Ownership
<1> SUFFICES ASSUME Init PROVE Ownership
  OBVIOUS
<1>1. TypeOK
  BY InitType
<1>2. chains = <<InitialChain>> /\ Len(chains) = 1
  BY DEF Init, SyncInit
<1>3. VersionCountsChains
  BY <1>2 DEF Init, SyncInit, MinerInit, VersionCountsChains, Publishing
<1>4. ChainIsRecorded
  BY DEF Init, SyncInit, MinerInit, ChainIsRecorded
<1>5. DestroyedAreOlder
  BY DEF Init, SyncInit, MinerInit, DestroyedAreOlder
<1>6. JoinedHasReturned
  BY DEF Init, SyncInit, MinerInit, JoinedHasReturned
<1> QED
  BY <1>1, <1>3, <1>4, <1>5, <1>6 DEF Ownership

\* The steps of mine_blocks keep the ownership discipline.
LEMMA MinerOwnership ==
  ASSUME Ownership, MinerNext, UNCHANGED owner
  PROVE  Ownership'
<1>1. TypeOK'
  BY MinerTypes DEF Ownership, TypeOK
<1>2. /\ VersionCountsChains /\ ChainIsRecorded
      /\ JoinedHasReturned /\ DestroyedAreOlder
  BY DEF Ownership
<1>3. /\ chains \in Seq(Chain)
      /\ destroyed \subseteq 1..Len(chains)
      /\ version \in Nat /\ currently \in Nat
      /\ m \in [pc: MinerPC, mine: Ref, old: Ref, target: Ref, seen: Nat,
                block: Block, code: ReturnCode]
      /\ m.mine \in 1..Len(chains)
      /\ m.old \in 1..Len(chains)
      /\ m.target \in 1..Len(chains)
      /\ m.seen \in Nat
  BY DEF Ownership, TypeOK, SyncTypeOK, MinerTypeOK, Ref
<1> SUFFICES /\ VersionCountsChains' /\ ChainIsRecorded'
             /\ JoinedHasReturned' /\ DestroyedAreOlder'
  BY <1>1 DEF Ownership
<1> USE UNCHANGED owner, <1>2, <1>3
        DEF VersionCountsChains, ChainIsRecorded, JoinedHasReturned,
            DestroyedAreOlder, Publishing, KeepMiner, Use
<1>4. CASE MinerStart
  <2>1. version = 0 /\ syncRef = 1 /\ m.mine = 1 /\ currently = 0
    BY <1>4 DEF MinerStart, MinerAt
  <2>2. m' = [m EXCEPT !.pc = "loop", !.mine = 1]
    BY <1>4, <2>1 DEF MinerStart
  <2> QED
    BY <1>4, <2>1, <2>2 DEF MinerStart, MinerAt, syncVars
<1>5. CASE MinerLoop
  BY <1>5 DEF MinerLoop, MinerAt, syncVars, GoTo
<1>6. CASE MinerCheckVersion
  BY <1>6 DEF MinerCheckVersion, MinerAt, syncVars, GoTo
<1>7. CASE MinerRefresh
  BY <1>7 DEF MinerRefresh, MinerAt, syncVars, Free
<1>8. CASE MinerDestroyOld
  BY <1>8 DEF MinerDestroyOld, MinerAt, sharedVars, blockchain_destroy
<1>9. CASE MinerLoadVersion
  BY <1>9 DEF MinerLoadVersion, MinerAt, syncVars
<1>10. CASE MinerStoreVersion
  BY <1>10 DEF MinerStoreVersion, MinerAt, syncVars, GoTo
<1>11. CASE MinerSignal
  BY <1>11 DEF MinerSignal, MinerAt, syncVars, GoTo
<1>12. CASE MinerVerify
  <2>1. /\ m'.mine = m.mine
        /\ m'.pc \in {"verify", "returned", "prepare"}
    BY <1>12 DEF MinerVerify, MinerAt, ReturnError
  <2>2. misused' = {}
    BY <1>12 DEF MinerVerify, MinerAt
  <2> QED
    BY <1>12, <2>1, <2>2 DEF MinerVerify, MinerAt, heapVars, sharedVars
<1>13. CASE MinerPrepare
  <2>1. /\ m'.mine = m.mine
        /\ m'.pc \in {"returned", "enter"}
    BY <1>13 DEF MinerPrepare, ReturnError
  <2>2. misused' = {}
    BY <1>13 DEF MinerPrepare, MinerAt
  <2> QED
    BY <1>13, <2>1, <2>2 DEF MinerPrepare, MinerAt, heapVars, sharedVars
<1>14. CASE MinerEnter
  BY <1>14 DEF MinerEnter, MinerAt, syncVars
<1>15. CASE MinerStopCheck
  BY <1>15 DEF MinerStopCheck, MinerAt, syncVars, GoTo, MineBlockFails
<1>16. CASE MinerVersionCheck
  BY <1>16 DEF MinerVersionCheck, MinerAt, syncVars, GoTo, MineBlockFails
<1>17. CASE MinerHash
  <2>1. /\ m'.mine = m.mine
        /\ m'.target = m.target
        /\ m'.pc \in {"add", "stopCheck", "returned"}
    BY <1>17 DEF MinerHash, ReturnError
  <2>2. misused' = {}
    <3>1. m.pc = "hash" /\ misused' = misused \cup ({m.target} \cap destroyed)
      BY <1>17, Zenon DEF MinerHash, MinerAt
    <3>2. m.target \notin destroyed
      BY <3>1
    <3> QED
      BY <3>1, <3>2
  <2> QED
    BY <1>17, <2>1, <2>2 DEF MinerHash, MinerAt, heapVars, sharedVars
<1>18. CASE MinerAdd
  <2>1. /\ m'.mine = m.mine
        /\ m'.pc \in {"open", "loop", "returned"}
    BY <1>18 DEF MinerAdd, ReturnError
  <2>2. misused' = {}
    BY <1>18 DEF MinerAdd, MinerAt
  <2> QED
    BY <1>18, <2>1, <2>2, SMTT(30) DEF MinerAdd, MinerAt, sharedVars
<1>19. CASE MinerOpen
  <2>1. /\ m'.mine = m.mine
        /\ m'.pc \in {"write", "loop"}
    BY <1>19 DEF MinerOpen, GoTo
  <2>2. misused' = {}
    BY <1>19 DEF MinerOpen, MinerAt
  <2> QED
    BY <1>19, <2>1, <2>2 DEF MinerOpen, MinerAt, heapVars, sharedVars
<1>20. CASE MinerWrite
  BY <1>20 DEF MinerWrite, MinerAt, syncVars, GoTo
<1>21. CASE MinerExit
  BY <1>21 DEF MinerExit, MinerAt, syncVars, GoTo
<1> QED
  BY <1>4, <1>5, <1>6, <1>7, <1>8, <1>9, <1>10, <1>11, <1>12, <1>13, <1>14,
     <1>15, <1>16, <1>17, <1>18, <1>19, <1>20, <1>21 DEF MinerNext

\* The owner's steps keep it too, if it does not publish before the new thread
\* has read sync->blockchain.
LEMMA OwnerOwnership ==
  ASSUME PublishBeforeStart = FALSE, Ownership, OwnerNext
  PROVE  Ownership'
<1>1. TypeOK'
  BY NextType DEF Ownership, Next
<1>2. /\ VersionCountsChains /\ ChainIsRecorded
      /\ JoinedHasReturned /\ DestroyedAreOlder
  BY DEF Ownership
<1>3. /\ chains \in Seq(Chain)
      /\ destroyed \subseteq 1..Len(chains)
      /\ version \in Nat /\ currently \in Nat
      /\ m.mine \in 1..Len(chains)
      /\ m.old \in 1..Len(chains)
      /\ m.target \in 1..Len(chains)
      /\ m.seen \in Nat
  BY DEF Ownership, TypeOK, SyncTypeOK, MinerTypeOK, Ref
<1> SUFFICES /\ VersionCountsChains' /\ ChainIsRecorded'
             /\ JoinedHasReturned' /\ DestroyedAreOlder'
  BY <1>1 DEF Ownership
<1> USE <1>2, <1>3
        DEF VersionCountsChains, ChainIsRecorded, JoinedHasReturned,
            DestroyedAreOlder, Publishing, OwnerAt, minerVars, heapVars, syncVars
<1>4. CASE OwnerLock
  BY <1>4, PublishBeforeStart = FALSE DEF OwnerLock
<1>5. CASE OwnerPointer
  BY <1>5 DEF OwnerPointer, Allocate
<1>6. CASE OwnerBump
  BY <1>6 DEF OwnerBump
<1>7. CASE OwnerUnlock
  BY <1>7 DEF OwnerUnlock
<1>8. CASE OwnerLockSwitch
  BY <1>8 DEF OwnerLockSwitch
<1>9. CASE OwnerCheckSwitch
  BY <1>9 DEF OwnerCheckSwitch
<1>10. CASE OwnerSleepSwitch
  BY <1>10 DEF OwnerSleepSwitch
<1>11. CASE OwnerStop
  BY <1>11 DEF OwnerStop, RequestStop
<1>12. CASE OwnerAwaitExit
  BY <1>12 DEF OwnerAwaitExit
<1>13. CASE OwnerDestroy
  <2>1. m.pc = "returned" /\ owner = "joined" /\ owner' = "destroyed"
    BY <1>13 DEF OwnerDestroy
  <2>2. misused' = {}
    BY <1>13, <2>1 DEF OwnerDestroy, blockchain_destroy, Use
  <2> QED
    BY <1>13, <2>1, <2>2 DEF OwnerDestroy, sharedVars
<1> QED
  BY <1>4, <1>5, <1>6, <1>7, <1>8, <1>9, <1>10, <1>11, <1>12, <1>13
     DEF OwnerNext

\* A blockchain_t is never used or destroyed again after blockchain_destroy:
\* mine_blocks frees exactly the chains it has left, whatever the owner
\* publishes and however often it overtakes the miner, and leaves the published
\* one to the owner's synchronized_blockchain_destroy, provided that the owner
\* waits for the thread to have read its first chain before it publishes.
THEOREM ChainsAreDestroyedOnce ==
  ASSUME PublishBeforeStart = FALSE
  PROVE  Spec => []NoUseAfterDestroy
<1>1. Ownership /\ [Next]_vars => Ownership'
  <2> SUFFICES ASSUME Ownership, [Next]_vars PROVE Ownership'
    OBVIOUS
  <2>1. CASE MinerNext /\ UNCHANGED owner
    BY <2>1, MinerOwnership
  <2>2. CASE OwnerNext
    BY <2>2, OwnerOwnership
  <2>3. CASE UNCHANGED vars
    <3>1. TypeOK'
      BY NextType DEF Ownership
    <3> QED
      BY <2>3, <3>1 DEF vars, syncVars, minerVars, Ownership, Publishing,
         VersionCountsChains, ChainIsRecorded, JoinedHasReturned,
         DestroyedAreOlder
  <2> QED
    BY <2>1, <2>2, <2>3 DEF Next
<1>2. Ownership => NoUseAfterDestroy
  BY DEF Ownership, DestroyedAreOlder, NoUseAfterDestroy
<1> QED
  BY InitOwnership, <1>1, <1>2, PTL DEF Spec
-----------------------------------------------------------------------------
(***************************************************************************)
(* Why mined and saved chains are valid, also when the owner publishes     *)
(* invalid ones.  mine_blocks tests a hash against the chain that was      *)
(* published when the search began and appends to the chain it verified;   *)
(* both require the same number of zeros if all published chains do, which *)
(* handle_one_consensus_request sees to before it switches.                *)
(***************************************************************************)
OneDifficulty == \A c \in PublishedChains : c.zeros = InitialChain.zeros

Validity ==
  /\ TypeOK
  /\ SameZeros(InitialChain.zeros)
  /\ BlockFits
  /\ OutfileIsValid

\* Nothing has been mined or saved yet.
LEMMA InitValidity == Init => Validity
<1> SUFFICES ASSUME Init PROVE Validity
  OBVIOUS
<1>1. chains = <<InitialChain>> /\ syncRef = 1 /\ m.mine = 1 /\ m.target = 1
      /\ m.pc = "start" /\ outfile.state = "absent"
  BY DEF Init, SyncInit, MinerInit
<1> QED
  BY <1>1, InitType
  DEF Validity, SameZeros, BlockFits, Verified, Mining, OutfileIsValid

\* The miner saves a chain right after it has appended to it; the owner only
\* adds new chains.
LEMMA NextValidity ==
  ASSUME OneDifficulty, Validity, [Next]_vars
  PROVE  /\ Validity'
         /\ \A r \in Ref : IsValid(chains[r]) => IsValid(chains'[r])
<1>1. TypeOK'
  BY NextType DEF Validity
<1>2. /\ SyncTypeOK /\ MinerTypeOK /\ SameZeros(InitialChain.zeros)
      /\ BlockFits /\ OutfileIsValid
  BY DEF Validity, TypeOK
<1>3. /\ chains \in Seq(Chain) /\ syncRef \in 1..Len(chains)
      /\ m.mine \in 1..Len(chains) /\ m.target \in 1..Len(chains)
  BY <1>2 DEF SyncTypeOK, MinerTypeOK, Ref
<1>4. CASE MinerNext /\ UNCHANGED owner
  <2>1. OutfileIsValid'
    <3>1. \/ UNCHANGED outfile
          \/ outfile' = TornFile
          \/ m.pc = "write" /\ outfile' = [state |-> "whole",
                                           chain |-> chains[m.mine]]
      BY <1>4 DEF MinerNext, MinerStart, MinerLoop, MinerCheckVersion,
         MinerRefresh, MinerDestroyOld, MinerLoadVersion, MinerStoreVersion,
         MinerSignal, MinerVerify, MinerPrepare, MinerEnter, MinerStopCheck,
         MinerVersionCheck, MinerHash, MinerAdd, MinerOpen, MinerWrite,
         MinerExit, MinerAt, KeepMiner
    <3> QED
      BY <1>2, <3>1 DEF OutfileIsValid, BlockFits, Verified, TornFile
  <2>2. /\ SameZeros(InitialChain.zeros)' /\ BlockFits'
        /\ \A r \in Ref : IsValid(chains[r]) => IsValid(chains'[r])
    BY <1>2, <1>4, MinerKeepsValid
  <2> QED
    BY <1>1, <2>1, <2>2 DEF Validity
<1>5. CASE OwnerPointer
  <2>1. PICK c \in PublishedChains : chains' = Append(chains, c)
    BY <1>5 DEF OwnerPointer, Allocate
  <2>2. /\ c \in Chain /\ c.zeros = InitialChain.zeros
        /\ syncRef' = Len(chains) + 1
        /\ m' = m /\ outfile' = outfile
    BY <1>5, SessionAssumption DEF OneDifficulty, OwnerPointer, minerVars
  <2>3. /\ \A r \in 1..Len(chains) : chains'[r] = chains[r]
        /\ chains'[Len(chains) + 1] = c
    BY <1>3, <2>1, <2>2
  <2>4. SameZeros(InitialChain.zeros)'
    BY <1>2, <1>3, <2>2, <2>3 DEF SameZeros
  <2>5. BlockFits' /\ OutfileIsValid'
    BY <1>2, <1>3, <2>2, <2>3 DEF BlockFits, OutfileIsValid
  <2> QED
    BY <1>1, <2>3, <2>4, <2>5 DEF Validity, Ref
<1>6. CASE (OwnerNext /\ ~OwnerPointer) \/ UNCHANGED vars
  <2>1. UNCHANGED <<chains, syncRef, m, outfile>>
    BY <1>6 DEF OwnerNext, OwnerLock, OwnerBump, OwnerUnlock, OwnerLockSwitch,
       OwnerCheckSwitch, OwnerSleepSwitch, OwnerStop, RequestStop,
       OwnerAwaitExit, OwnerDestroy, vars, syncVars, minerVars, heapVars,
       sharedVars
  <2> QED
    BY <1>1, <1>2, <2>1 DEF Validity, SameZeros, BlockFits, OutfileIsValid
<1> QED
  BY <1>4, <1>5, <1>6 DEF Next

\* A valid blockchain stays valid: the block that mine_blocks appends fits the
\* chain it is appended to, whatever is published meanwhile, however many
\* chains, blocks and proofs there are.
THEOREM MinedBlocksFit ==
  ASSUME OneDifficulty
  PROVE  Spec => ValidChainsStayValid
<1>1. Validity /\ [Next]_vars => Validity'
  BY NextValidity
<1>2. Validity /\ [Next]_vars
        => \A r \in Ref : IsValid(chains[r]) => IsValid(chains'[r])
  BY NextValidity
<1> QED
  BY InitValidity, <1>1, <1>2, PTL DEF Spec, ValidChainsStayValid

\* What blockchain_write_to_file leaves in args->outfile is a valid chain, or
\* no whole one.
THEOREM SavedChainsAreValid ==
  ASSUME OneDifficulty
  PROVE  Spec => []OutfileIsValid
<1>1. Validity /\ [Next]_vars => Validity'
  BY NextValidity
<1>2. Validity => OutfileIsValid
  BY DEF Validity
<1> QED
  BY InitValidity, <1>1, <1>2, PTL DEF Spec
=============================================================================
