\* Two processes; the store is edited, removed and lost.
SPECIFICATION Spec
CONSTANTS
  Procs = {p1, p2}
  NumSources = 2
  Required = {1}
  Urls = {1}
  Attempts = 2
  Versions = {v1, v2}
  Absent = absent
  NoStore = nostore
  Damaged = damaged
  System = system
  None = none
  MaxFaults = 2
  Disasters = TRUE
SYMMETRY ProcSymmetry
INVARIANTS
  StoreIsComplete
PROPERTIES
  ImplementsAtomicTrust
