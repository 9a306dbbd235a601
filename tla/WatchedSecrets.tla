--------------------------- MODULE WatchedSecrets ---------------------------
(***************************************************************************)
(* CardSecrets with a history variable: which commands have been alone     *)
(* with the card since they started.                                       *)
(***************************************************************************)
EXTENDS CardSecrets

VARIABLE alone   \* the processes whose command met no other, and no failure

watched == <<vars, alone>>

Watch ==
  alone' = {p \in Procs : /\ pc'[p] # "idle" /\ faults' = faults
                          /\ p \in alone \/ pc[p] = "idle"
                          /\ \A q \in Procs \ {p} : pc'[q] = "idle"}

\* Next, action by action.
WatchedNext == \E p \in Procs :
  \/ Open(p) /\ Watch
  \/ CountFirst(p) /\ Watch
  \/ Show(p) /\ Watch
  \/ Send(p) /\ Watch
  \/ Recount(p) /\ Watch
  \/ Deauthenticate(p) /\ Watch
  \/ BlockPin(p) /\ Watch
  \/ BlockPuk(p) /\ Watch
  \/ ResetApplet(p) /\ Watch
  \/ Ask(p) /\ Watch
  \/ AskNew(p) /\ Watch
  \/ AskAgain(p) /\ Watch
  \/ Cancel(p) /\ Watch
  \/ Kill(p) /\ Watch
  \/ \E c \in Commands : Start(p, c) /\ Watch

WatchedInit == Init /\ alone = {}

\* As in FairSpec.
WatchedSpec ==
  /\ WatchedInit
  /\ [][WatchedNext]_watched
  /\ \A p \in Procs : WF_vars(Program(p))

\* A reset that nothing interferes with succeeds, whatever the PIN and the PUK
\* are, how many attempts the commands of all processes have left of them, and
\* which PIN the card considers verified from an earlier command.
UndisturbedReset ==
  \A p \in alone :
    cmd[p] = "reset" /\ pc'[p] = "idle" /\ faults' = faults => result'[p] = "done"

UndisturbedResetSucceeds == [][UndisturbedReset]_watched
=============================================================================
