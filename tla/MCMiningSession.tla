-------------------------- MODULE MCMiningSession ---------------------------
(***************************************************************************)
(* Small instances of MiningSession: chains that require one leading zero  *)
(* byte, a key that OpenSSL reads and one that it does not.                *)
(***************************************************************************)
EXTENDS MiningSession

CONSTANTS k1, kBad

MCKey == {k1, kBad}
MCUnreadableKey == {kBad}

Genesis == block_create_genesis_block
ChainOf(blocks) == [blocks |-> blocks, zeros |-> 1]

\* A block after b holding the given transactions.
After(b, txs, zeros) ==
  [block_create(txs, 0, block_hash(b)) EXCEPT !.zeros = zeros]

Minted == <<MintingTransaction(k1)>>

MCInitialChain == ChainOf(<<Genesis>>)
Valid2 == ChainOf(<<Genesis, After(Genesis, Minted, 1)>>)
TooFewZeros == ChainOf(<<Genesis, After(Genesis, Minted, 0)>>)
NoTransactions == ChainOf(<<Genesis, After(Genesis, <<>>, 1)>>)
Unreadable == ChainOf(<<Genesis, After(Genesis,
                                       <<MintingTransaction(kBad)>>, 1)>>)

ValidChains == {MCInitialChain, Valid2}
AllChains == {Valid2, TooFewZeros, NoTransactions, Unreadable, ChainOf(<<>>)}
MCHashZeros == {0, 1}
=============================================================================
