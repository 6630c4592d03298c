--------------------------- MODULE SyncBlockchain ---------------------------
(***************************************************************************)
(* The heap of blockchain_t objects and the synchronized_blockchain_t that *)
(* the threads of one process share.                                       *)
(*                                                                         *)
(* A blockchain_t * is a reference: an index into "chains".  References    *)
(* are never reused, so a use of a destroyed object can be told from a use *)
(* of a live one.  What the program does after such a use is undefined: it *)
(* either reads what the object last held or is aborted (Abort).           *)
(***************************************************************************)
EXTENDS Blockchain

CONSTANT MaxChains   \* bound: how many blockchain_t are ever allocated

ASSUME MaxChainsAssumption == MaxChains \in Nat \ {0}

Free == "free"

VARIABLES chains,      \* reference -> contents of the blockchain_t
          destroyed,   \* references passed to blockchain_destroy
          misused,     \* references used, or destroyed again, after that
          aborted,     \* the process has been killed
          syncRef,     \* sync->blockchain
          version,     \* sync->version
          mutex        \* who holds sync->mutex, or Free

syncVars == <<chains, destroyed, misused, aborted, syncRef, version, mutex>>
heapVars == <<chains, destroyed>>
sharedVars == <<syncRef, version, mutex>>

Ref == 1..Len(chains)

\* Mutant: the version starts one below zero.
SyncInit_BelowZero(c) ==
  /\ chains = <<c>>
  /\ destroyed = {}
  /\ misused = {}
  /\ aborted = FALSE
  /\ syncRef = 1
  /\ version = -1
  /\ mutex = Free

\* synchronized_blockchain_create around the initial blockchain c.
SyncInit(c) ==
  /\ chains = <<c>>
  /\ destroyed = {}
  /\ misused = {}
  /\ aborted = FALSE
  /\ syncRef = 1
  /\ version = 0
  /\ mutex = Free

SyncTypeOK ==
  /\ chains \in Seq(Chain)
  /\ Len(chains) \in 1..MaxChains
  /\ destroyed \subseteq Ref
  /\ misused \subseteq destroyed
  /\ aborted \in BOOLEAN
  /\ syncRef \in Ref
  /\ version \in Nat
-----------------------------------------------------------------------------
\* The object r is read or written.
Use(r) == misused' = misused \cup ({r} \cap destroyed)

\* A blockchain_t holding c is allocated; its reference is Len(chains) + 1.
Allocate(c) == /\ Len(chains) < MaxChains
               /\ chains' = Append(chains, c)

blockchain_destroy(r) == /\ Use(r)
                         /\ destroyed' = destroyed \cup {r}

\* The C library or the kernel notices the corruption that a misuse causes.
Abort == /\ misused # {}
         /\ ~aborted
         /\ aborted' = TRUE
         /\ UNCHANGED <<chains, destroyed, misused, syncRef, version, mutex>>

(***************************************************************************)
(* A reference is used only while the object is live: no thread reads,     *)
(* extends or destroys a blockchain_t that blockchain_destroy has freed.   *)
(***************************************************************************)
NoUseAfterDestroy == misused = {}
=============================================================================
