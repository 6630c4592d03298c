SPECIFICATION VerifySpec
CONSTANTS
  k1 = k1
  k2 = k2
  kBad = kBad
  Key <- MCKey
  UnreadableKey <- MCUnreadableKey
  MaxLength = 3
  RequiredZeros <- MCRequiredZeros
  CandidateZeros <- MCCandidateZeros
  CandidateProofs <- MCCandidateProofs
  CandidateTxs <- MCCandidateTxs
INVARIANTS
  VerifyTypeOK
  VerifyMeetsDocumentation
  FirstInvalidBlockIsFirst
PROPERTIES
  MiningKeepsChainsValid
CHECK_DEADLOCK FALSE
