\* Everything that one signer can be, and pairs of signers; three responders that
\* may fail, be out of date, not know, or learn of a revocation.
SPECIFICATION FairSpec
CONSTANTS
  Signatures <- AllSignatures
  Responders <- ThreeResponders
  NamedLists <- Lists
  Configured <- ServerThree
  Policies = {TRUE, FALSE}
INVARIANTS
  GoodIsDeserved
  RefusalHasReason
  RevocationIsDecided
PROPERTIES
  VerificationEnds
\* A command that is done stops.
CHECK_DEADLOCK FALSE
