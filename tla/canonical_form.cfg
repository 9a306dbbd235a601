SPECIFICATION Spec
CONSTANTS
  KeyKind <- Kinds
  SetOctets <- AsSet
  NameInfo <- Infos
  LineLimit = 5
  Documents <- Files
  Identities <- Signers
  NewParts <- Added
  MaxSigns = 2
  MaxEdits = 1
INVARIANT
  CanonicalFormIsExclusive
CHECK_DEADLOCK FALSE
