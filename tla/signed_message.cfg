SPECIFICATION Spec
CONSTANTS
  KeyKind <- Kinds
  SetOctets <- AsSet
  MaxBERDepth = 3
  Messages <- Contents
  Identities <- Signers
  Others <- Foreign
  MaxSigners = 2
  MaxRequests = 3
INVARIANTS
  StampIsOurs
  StampedTogether
  ReadsBack
  AcceptedWasMade
CHECK_DEADLOCK FALSE
