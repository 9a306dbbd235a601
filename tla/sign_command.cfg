\* Every form of the command line, every kind of installation, and one card
\* that is moved at any time.
CONSTANTS
  Cards <- MCCards
  YubiKeys <- MCYubiKeys
  Ykcs11 <- MCYkcs11
  NumReaders = 2
  Empty <- MCEmpty
  Scenarios <- MCScenarios
SPECIFICATION Spec
INVARIANTS ModulesReleased OnlyCard ListedOnce RightCard
           SignerOfTheCertificate SignedAsAsked ReadsBack
CHECK_DEADLOCK FALSE
