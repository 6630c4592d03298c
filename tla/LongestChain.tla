---------------------------- MODULE LongestChain ----------------------------
(***************************************************************************)
(* What a node promises about its blockchain, whatever its threads do: it  *)
(* grows by a block at its end, or is replaced by a valid chain of the     *)
(* same difficulty that was longer when the node looked.                   *)
(*                                                                         *)
(* To look (Offer) and to replace (Adopt) are two steps, since the miner   *)
(* appends without the lock.  Between them the ledger can catch up with    *)
(* the chain on offer, so that one of equal length replaces it; it cannot  *)
(* overtake it.                                                            *)
(***************************************************************************)
EXTENDS Blockchain

CONSTANT InitialLedger

VARIABLES ledger,
          offered   \* the chain that will replace it, if there is one

Init == ledger = InitialLedger /\ offered = {}

Offer ==
  /\ offered = {}
  /\ \E c \in offered' :
       /\ offered' = {c}
       /\ Len(c.blocks) > Len(ledger.blocks)
       /\ c.zeros = ledger.zeros
       /\ IsValid(c)
  /\ UNCHANGED ledger

Extend ==
  /\ Len(ledger'.blocks) = Len(ledger.blocks) + 1
  /\ ledger' = blockchain_add_block(ledger, ledger'.blocks[Len(ledger'.blocks)])
  /\ IsValid(ledger')
  /\ \A c \in offered : Len(ledger'.blocks) <= Len(c.blocks)
  /\ UNCHANGED offered

Adopt == offered = {ledger'} /\ offered' = {}

Spec == Init /\ [][Offer \/ Extend \/ Adopt]_<<ledger, offered>>
=============================================================================
