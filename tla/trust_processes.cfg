\* Two processes that fail and are killed; nobody touches the store.
SPECIFICATION FairSpec
CONSTANTS
  Procs = {p1, p2}
  NumSources = 2
  Required = {1}
  Urls = {1, 2}
  Attempts = 2
  Versions = {v1, v2}
  Absent = absent
  NoStore = nostore
  Damaged = damaged
  System = system
  None = none
  MaxFaults = 1
  Disasters = FALSE
INVARIANTS
  NeverPartial
PROPERTIES
  NoNeedlessFallback
  CommandsEnd
