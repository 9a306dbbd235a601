------------------------------- MODULE Dialog -------------------------------
(***************************************************************************)
(* What asking for a secret promises to the commands that need one: the    *)
(* answer is what the user entered, or that the user cancelled, or an      *)
(* error.  A dialog that is lost may be shown once more.                   *)
(***************************************************************************)
CONSTANTS
  Entries,    \* what a user can type
  Nothing,    \* the user has not answered, or there is no answer yet
  Cancelled,  \* the user has cancelled
  Failed      \* the dialog could not be shown, or its program went wrong

VARIABLES
  entered,    \* what the user did in the dialog
  answer      \* what the command is told

vars == <<entered, answer>>

Init == entered = Nothing /\ answer = Nothing

UserAnswers ==
  /\ answer = Nothing /\ entered = Nothing
  /\ entered' \in Entries \cup {Cancelled}
  /\ UNCHANGED answer

DialogIsLost ==
  /\ answer = Nothing
  /\ entered' = Nothing
  /\ UNCHANGED answer

CommandIsTold ==
  /\ answer = Nothing
  /\ answer' \in {entered, Failed} \ {Nothing}
  /\ UNCHANGED entered

Next == UserAnswers \/ DialogIsLost \/ CommandIsTold

Spec == Init /\ [][Next]_vars
=============================================================================
