--------------------------- MODULE MCChainTransfer --------------------------
(***************************************************************************)
(* Chains of one to three blocks with up to two transactions; signatures   *)
(* that use all of their bytes, some, or none.                             *)
(***************************************************************************)
EXTENDS ChainTransfer

Signed(length) ==
  [created_at |-> 18, sender_public_key |-> <<1, 2, 3>>,
   recipient_public_key |-> <<4, 5, 6>>, amount |-> 1, length |-> length,
   bytes |-> [i \in 1..SigLen |-> IF i <= length THEN 6 + i ELSE 0]]

GenesisBlock == [created_at |-> 17, previous_block_hash |-> <<0>>,
                 proof_of_work |-> 11, transaction_list |-> <<>>]
Block(transactions) ==
  [created_at |-> 35, previous_block_hash |-> <<9>>, proof_of_work |-> 3,
   transaction_list |-> transactions]

MCChains ==
  {[zeros |-> 2, blocks |-> <<GenesisBlock>>],
   [zeros |-> 2, blocks |-> <<GenesisBlock, Block(<<Signed(2)>>)>>],
   [zeros |-> 2, blocks |-> <<GenesisBlock, Block(<<Signed(1), Signed(0)>>)>>],
   [zeros |-> 2, blocks |-> <<GenesisBlock, Block(<<Signed(1)>>),
                              Block(<<Signed(2)>>)>>]}

MCPrefix == <<5>>
=============================================================================
