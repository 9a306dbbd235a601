\* Two processes and one failure; the program runs whenever it does not wait
\* for its user.
SPECIFICATION WatchedSpec
CONSTANTS
  Procs = {p1, p2}
  Secrets = {s1, s2}
  Malformed = malformed
  FactoryPin = s1
  FactoryPuk = s1
  MaxTries = 2
  MaxFaults = 1
  Commands = {"set-pin", "set-puk", "unlock", "verify", "login", "reset"}
  ChecksVerified = FALSE
  Deauthenticates = TRUE
PROPERTIES
  InstalledAsConfirmed
  AttemptsOnlyForSecrets
  BlockedReportIsTrue
  UndisturbedResetSucceeds
  ProgramStepsEnd
