\* One process; interruptions at every step.
SPECIFICATION WatchedSpec
CONSTANTS
  Procs = {p1}
  Nobody = nobody
  DefaultKey = default
  AesKeys = {k1, k2, k3}
  NoKey = nokey
  Values = {v1}
  NoValue = novalue
  Commands = {"set-key"}
  MaxFaults = 2
  Foreign = FALSE
  Ignores = FALSE
INVARIANTS
  Custody
  StoreCannotBeRefused
PROPERTIES
  ImplementsKeyCustody
