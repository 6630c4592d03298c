------------------------------- MODULE MCNode -------------------------------
(***************************************************************************)
(* Small instances of Node: peers send valid chains of two and three       *)
(* blocks, an invalid one, one of another difficulty and one with a key    *)
(* that OpenSSL cannot read.                                               *)
(***************************************************************************)
EXTENDS Node

CONSTANTS k1, k2, kBad

MCKey == {k1, k2, kBad}
MCUnreadableKey == {kBad}

Genesis == block_create_genesis_block

After(b, key, zeros) ==
  [block_create(<<MintingTransaction(key)>>, 0, block_hash(b))
     EXCEPT !.zeros = zeros]

Second == After(Genesis, k2, 1)

ChainOf(blocks, zeros) == [blocks |-> blocks, zeros |-> zeros]

MCInitialChain == ChainOf(<<Genesis>>, 1)
Valid2 == ChainOf(<<Genesis, Second>>, 1)
Valid3 == ChainOf(<<Genesis, Second, After(Second, k2, 1)>>, 1)
TooFewZeros3 == ChainOf(<<Genesis, Second, After(Second, k2, 0)>>, 1)
Easier3 == ChainOf(<<Genesis, Second, After(Second, k2, 1)>>, 0)
Unreadable2 == ChainOf(<<Genesis, After(Genesis, kBad, 1)>>, 1)

MCPeerChains == {Valid2, Valid3, TooFewZeros3, Easier3, Unreadable2}
MCValidChains == {Valid2, Valid3}
MCHashZeros == {0, 1}
=============================================================================
