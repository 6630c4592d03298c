------------------------ MODULE MCBlockchainVerify --------------------------
(***************************************************************************)
(* Two good keys and one that cannot be read; transaction lists that meet  *)
(* or fail each of the conditions on transactions.                         *)
(***************************************************************************)
EXTENDS BlockchainVerify

CONSTANTS k1, k2, kBad

MCKey == {k1, k2, kBad}
MCUnreadableKey == {kBad}

Pay(from, to, n, signed) ==
  [sender |-> from, recipient |-> to, amount |-> n, signed |-> signed]

Mint == MintingTransaction(k1)

MCRequiredZeros == {0, 1}
MCCandidateZeros == {0, 1}
MCCandidateProofs == {0, GENESIS_BLOCK_PROOF_OF_WORK}
MCCandidateTxs ==
  { <<>>,
    <<Mint>>,
    <<Pay(k1, k2, 1, TRUE)>>,
    <<Pay(k1, k1, 2, TRUE)>>,
    <<Pay(k1, k1, 1, FALSE)>>,
    <<Mint, Pay(k1, k2, 5, TRUE)>>,
    <<Mint, Pay(k1, k2, 5, FALSE), Pay(kBad, k2, 5, TRUE)>>,
    <<Mint, Pay(kBad, k2, 5, TRUE), Pay(k1, k2, 5, FALSE)>> }
=============================================================================
