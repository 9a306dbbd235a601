\* A reset of a token without a CHUID beside one PIV card.
CONSTANTS
  Cards <- MCCards
  YubiKeys <- MCYubiKeys
  Ykcs11 <- MCYkcs11
  NumReaders = 2
  Empty <- MCEmpty
  Scenarios <- ResetScenarios
SPECIFICATION Spec
INVARIANT ResetHitsTheToken
CHECK_DEADLOCK FALSE
