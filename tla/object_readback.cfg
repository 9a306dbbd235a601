\* Two processes and other programs; the card may ignore a write.
SPECIFICATION WatchedSpec
CONSTANTS
  Procs = {p1, p2}
  Nobody = nobody
  DefaultKey = default
  AesKeys = {k1}
  NoKey = nokey
  Values = {v1, v2, v3, v4}
  NoValue = novalue
  Commands = {"set-object"}
  MaxFaults = 1
  Foreign = TRUE
  Ignores = TRUE
INVARIANTS
  ConfirmedStays
