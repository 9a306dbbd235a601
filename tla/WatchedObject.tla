--------------------------- MODULE WatchedObject ---------------------------
(***************************************************************************)
(* ManagementKey with history variables: the value of the CHUID or CCC     *)
(* that a command has confirmed last, and the values of the commands that  *)
(* ended without confirming theirs.  A command confirms its value when it  *)
(* is read back; what it prints after that is not a step of its own.       *)
(***************************************************************************)
EXTENDS ManagementKey

VARIABLES
  confirmed,     \* the value of the last command that succeeded
  unconfirmed    \* the values of commands that failed or were interrupted

watched == <<vars, confirmed, unconfirmed>>

Ends(p) == pc[p] # "idle" /\ pc'[p] = "idle" /\ job[p].cmd = "set-object"

\* A value that is generated again counts as new.
Watch(p) ==
  IF Ends(p)
  THEN IF result'[p] = "done"
       THEN confirmed' = job[p].value /\ UNCHANGED unconfirmed
       ELSE unconfirmed' = unconfirmed \cup {job[p].value} /\ UNCHANGED confirmed
  ELSE /\ unconfirmed' = IF pc[p] = "idle" THEN unconfirmed \ {job'[p].value} ELSE unconfirmed
       /\ UNCHANGED confirmed

\* Next, action by action.
WatchedNext ==
  \/ \E p \in Procs :
       \/ Start(p) /\ Watch(p)
       \/ Open(p) /\ Watch(p)
       \/ ReadData(p) /\ Watch(p)
       \/ ReadAlgorithm(p) /\ Watch(p)
       \/ EnterPin(p) /\ Watch(p)
       \/ Cancel(p) /\ Watch(p)
       \/ ReadStored(p) /\ Watch(p)
       \/ AskKey(p) /\ Watch(p)
       \/ Witness(p) /\ Watch(p)
       \/ Respond(p) /\ Watch(p)
       \/ NewKey(p) /\ Watch(p)
       \/ SetKey(p) /\ Watch(p)
       \/ Store(p) /\ Watch(p)
       \/ Update(p) /\ Watch(p)
       \/ Report(p) /\ Watch(p)
       \/ PutObject(p) /\ Watch(p)
       \/ ReadBack(p) /\ Watch(p)
       \/ Interrupt(p) /\ Watch(p)
  \/ OtherProgram /\ UNCHANGED <<confirmed, unconfirmed>>

WatchedInit == Init /\ confirmed = NoValue /\ unconfirmed = {}

WatchedSpec == WatchedInit /\ [][WatchedNext]_watched

\* A value that was reported as stored stays on the card until another command
\* writes: the object is the value that was confirmed last, the value of a
\* command that has yet to read it back, or of one that did not report success.
\* Cards that ignore writes, processes that write the object between the write
\* and the reading of another, and interruptions change nothing about that.
ConfirmedStays ==
  \/ object = confirmed
  \/ object \in unconfirmed
  \/ \E p \in Procs : pc[p] = "readback" /\ object = job[p].value
=============================================================================
