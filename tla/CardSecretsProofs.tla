-------------------------- MODULE CardSecretsProofs --------------------------
(* Proofs about CardSecrets, for any number of processes, secrets, tries   *)
(* and faults.                                                             *)
EXTENDS WatchedSecrets, TLAPS

-----------------------------------------------------------------------------
(* The inductive invariant: which of its entries a process has confirmed   *)
(* when it has come to a certain step.                                     *)

\* What a process has in hand when it presents the current secret.
Confirmed(p) ==
  /\ typed[p] \in Secrets
  /\ cmd[p] \in Replacing \cup {"unlock"} => fresh[p] \in Secrets
  /\ cmd[p] \in Replacing => again[p] = fresh[p]

Entered(p) ==
  /\ pc[p] \in {"open", "first"} => cmd[p] # "unlock"
  /\ pc[p] \in {"show", "ask", "recount"} /\ cmd[p] = "unlock" => fresh[p] \in Secrets
  /\ pc[p] = "new" /\ cmd[p] \in Replacing => typed[p] \in Secrets
  /\ pc[p] = "again" => /\ cmd[p] \in Replacing
                        /\ typed[p] \in Secrets
                        /\ fresh[p] \in Secrets
  /\ pc[p] = "send" => Confirmed(p)

\* The types of the variables that are not Boolean, which the SMT solver
\* handles best apart from pinVerified.
Types ==
  /\ secret \in [Refs -> Secrets]
  /\ tries \in [Refs -> 0..MaxTries]
  /\ pc \in [Procs -> Automatic \cup Dialogs \cup {"idle"}]
  /\ cmd \in [Procs -> Commands \cup {"none"}]
  /\ typed \in [Procs -> Entries]
  /\ fresh \in [Procs -> Entries]
  /\ again \in [Procs -> Entries]
  /\ shown \in [Procs -> Unknown..MaxTries]
  /\ left \in [Procs -> Unknown..MaxTries]
  /\ result \in [Procs -> Results]
  /\ faults \in 0..MaxFaults

PinType == pinVerified \in BOOLEAN

IInv == Types /\ \A p \in Procs : Entered(p)

USE SecretsAssumption, BoundsAssumption, CommandsAssumption, CardAssumption

\* The invariant holds of a factory card that no command uses.
LEMMA InitIInv == Init => IInv
  BY DEF Init, IInv, Types, Entered, Confirmed, Factory, Full, Refs, Entries, Unknown,
         Automatic, Dialogs, Results

\* The end of a command leaves nothing of it behind.
LEMMA EndIInv ==
  ASSUME IInv, NEW p \in Procs, NEW o \in Results, End(p, o),
         secret' \in [Refs -> Secrets], tries' \in [Refs -> 0..MaxTries],
         faults' \in 0..MaxFaults
  PROVE  IInv'
  BY DEF IInv, Types, Entered, Confirmed, End, Entries, Unknown, Automatic, Dialogs,
         Results, Replacing

\* A card that accepts a confirmed secret holds secrets afterwards, with
\* counters in their bounds.
LEMMA AcceptTypes ==
  ASSUME IInv, NEW p \in Procs, Confirmed(p), Accept(p)
  PROVE  /\ secret' \in [Refs -> Secrets]
         /\ tries' \in [Refs -> 0..MaxTries]
  BY DEF IInv, Types, Confirmed, Accept, Replacing, Ref, Refs, Full

\* One turn of the loop that blocks a reference.
LEMMA BlockIInv ==
  ASSUME IInv, NEW p \in Procs, NEW r \in Refs, NEW next \in {"blockpuk", "reset"},
         pc[p] \in {"blockpin", "blockpuk"}, Block(p, r, next),
         UNCHANGED secret
  PROVE  IInv'
<1> USE DEF IInv, Types
<1>1. CASE Blocked(p, r, next)
  BY <1>1 DEF Blocked, Goto, See, Entered, Confirmed, Automatic, Unknown
<1>2. CASE UsedUp(p, r)
  <2>1. tries' \in [Refs -> 0..MaxTries] /\ tries[r] - 1 \in 0..MaxTries
    BY <1>2 DEF UsedUp
  <2>2. CASE End(p, "failed")
    BY <1>2, <2>1, <2>2, EndIInv DEF UsedUp, Results
  <2>3. CASE See(p, tries[r] - 1) /\ UNCHANGED <<pc, result>>
    BY <1>2, <2>1, <2>3 DEF UsedUp, See, Entered, Confirmed, Unknown
  <2> QED
    BY <1>2, <2>2, <2>3 DEF UsedUp
<1>3. CASE BlockFailed(p, r)
  BY <1>3, EndIInv DEF BlockFailed, SpendFault, Results
<1> QED
  BY <1>1, <1>2, <1>3 DEF Block

\* Every step of a process keeps the invariant.
LEMMA NextIInv == IInv /\ [Next]_vars => IInv'
<1> SUFFICES ASSUME IInv, [Next]_vars PROVE IInv'
  OBVIOUS
<1> USE DEF IInv, Types
<1> faults - 1 \in 0..MaxFaults \/ faults = 0
  OBVIOUS
<1>1. CASE UNCHANGED vars
  BY <1>1 DEF vars, card, entries, Entered, Confirmed
<1>2. ASSUME NEW p \in Procs, NEW c \in Commands, Start(p, c) PROVE IInv'
  BY <1>2 DEF Start, card, Entered, Confirmed, Automatic, Dialogs, Results, AllCommands, Replacing
<1>3. ASSUME NEW p \in Procs, Open(p) PROVE IInv'
  BY <1>3, EndIInv DEF Open, Proceed, Goto, entries, SpendFault, Entered, Confirmed, Automatic, Results
<1>4. ASSUME NEW p \in Procs, CountFirst(p) PROVE IInv'
  BY <1>4, EndIInv DEF CountFirst, Proceed, Goto, entries, card, SpendFault, Entered, Confirmed, Automatic, Results
<1>5. ASSUME NEW p \in Procs, Show(p) PROVE IInv'
  BY <1>5 DEF Show, Goto, Select, SpendFault, Entered, Confirmed, Automatic, Dialogs, Unknown, Ref, Refs
<1>6. ASSUME NEW p \in Procs, Cancel(p) PROVE IInv'
  BY <1>6, EndIInv DEF Cancel, card, Results
<1>7. ASSUME NEW p \in Procs, Ask(p) PROVE IInv'
  BY <1>7 DEF Ask, Goto, card, Entered, Confirmed, Automatic, Dialogs, Unknown, Entries, Replacing
<1>8. ASSUME NEW p \in Procs, AskNew(p) PROVE IInv'
  BY <1>8 DEF AskNew, Goto, card, Entered, Confirmed, Automatic, Dialogs, Entries, Replacing
<1>9. ASSUME NEW p \in Procs, AskAgain(p) PROVE IInv'
  BY <1>9 DEF AskAgain, Goto, card, Entered, Confirmed, Automatic, Dialogs, Entries, Replacing
<1>10. ASSUME NEW p \in Procs, Send(p) PROVE IInv'
  <2> Confirmed(p)
    BY <1>10 DEF Send, Entered
  <2> Ref(cmd[p]) \in Refs
    BY DEF Ref, Refs
  <2>1. CASE SendRefused(p)
    BY <2>1, EndIInv DEF SendRefused, card, Results
  <2>2. CASE SendAccepted(p)
    BY <2>2, EndIInv, AcceptTypes DEF SendAccepted, Results
  <2>3. CASE SendRejected(p)
    <3>1. /\ secret' \in [Refs -> Secrets]
          /\ tries' \in [Refs -> 0..MaxTries]
           /\ faults' \in 0..MaxFaults
      BY <2>3 DEF SendRejected, UseUp
    <3>2. CASE End(p, "blocked")
      BY <3>1, <3>2, EndIInv DEF Results
    <3>3. CASE Goto(p, "recount") /\ Discard(p)
      BY <3>1, <3>3 DEF Goto, Discard, Entered, Confirmed, Automatic, Entries, Replacing
    <3> QED
      BY <2>3, <3>2, <3>3 DEF SendRejected
  <2>4. CASE SendFailed(p)
    <3>1. /\ secret' \in [Refs -> Secrets]
          /\ tries' \in [Refs -> 0..MaxTries]
       BY <2>4, AcceptTypes DEF SendFailed, Present, UseUp, card
    <3> QED
      BY <2>4, <3>1, EndIInv DEF SendFailed, SpendFault, Results
  <2>5. CASE SendUnchecked(p)
    BY <2>5, EndIInv DEF SendUnchecked, card, Results
  <2> QED
    BY <1>10, <2>1, <2>2, <2>3, <2>4, <2>5 DEF Send
<1>11. ASSUME NEW p \in Procs, Recount(p) PROVE IInv'
  BY <1>11, EndIInv DEF Recount, Proceed, Goto, entries, Select, SpendFault, Entered, Confirmed, Automatic, Results
<1>12. ASSUME NEW p \in Procs, Deauthenticate(p) PROVE IInv'
  BY <1>12 DEF Deauthenticate, Proceed, Goto, entries, SpendFault, Entered, Confirmed, Automatic
<1>13. ASSUME NEW p \in Procs, BlockPin(p) PROVE IInv'
  BY <1>13, EndIInv, BlockIInv DEF BlockPin, Refs, Automatic, Results
<1>14. ASSUME NEW p \in Procs, BlockPuk(p) PROVE IInv'
  BY <1>14, BlockIInv DEF BlockPuk, Refs, Automatic
<1>15. ASSUME NEW p \in Procs, ResetApplet(p) PROVE IInv'
  BY <1>15, EndIInv DEF ResetApplet, RestoreFactory, Factory, Full, SpendFault, card, Results
<1>16. ASSUME NEW p \in Procs, Kill(p) PROVE IInv'
  BY <1>16, EndIInv DEF Kill, SpendFault, card, Results
<1> QED
  BY <1>1, <1>2, <1>3, <1>4, <1>5, <1>6, <1>7, <1>8, <1>9, <1>10, <1>11, <1>12, <1>13,
     <1>14, <1>15, <1>16 DEF Next, Program, User

\* The verified state of the PIN is a Boolean.
LEMMA PinVerifiedBoolean ==
  PinType /\ [Next]_vars => PinType'
<1> SUFFICES ASSUME PinType, [Next]_vars PROVE PinType'
  OBVIOUS
<1> USE DEF card, PinType
<1>1. CASE UNCHANGED vars
  BY <1>1 DEF vars
<1>2. ASSUME NEW p \in Procs, Program(p) PROVE PinType'
  <2> USE DEF Select
  <2>1. CASE Open(p) BY <2>1 DEF Open
  <2>2. CASE CountFirst(p) BY <2>2 DEF CountFirst
  <2>3. CASE Show(p) BY <2>3 DEF Show
  <2>4. CASE Send(p)
    BY <2>4 DEF Send, SendRefused, SendAccepted, SendRejected, SendFailed, SendUnchecked,
                Present, Accept, UseUp
  <2>5. CASE Recount(p) BY <2>5 DEF Recount
  <2>6. CASE Deauthenticate(p) BY <2>6 DEF Deauthenticate
  <2>7. CASE BlockPin(p) BY <2>7 DEF BlockPin
  <2>8. CASE BlockPuk(p) BY <2>8 DEF BlockPuk
  <2>9. CASE ResetApplet(p) BY <2>9 DEF ResetApplet, RestoreFactory
  <2> QED
    BY <1>2, <2>1, <2>2, <2>3, <2>4, <2>5, <2>6, <2>7, <2>8, <2>9 DEF Program
<1>3. ASSUME NEW p \in Procs, User(p) PROVE PinType'
  BY <1>3 DEF User, Start, Ask, AskNew, AskAgain, Cancel, Kill
<1> QED
  BY <1>1, <1>2, <1>3 DEF Next

\* The variables keep their types.
THEOREM TypeCorrect == Spec => []TypeOK
<1>1. Init => PinType
  BY DEF Init, PinType
<1>2. IInv /\ PinType => TypeOK
  BY DEF PinType, IInv, Types, TypeOK
<1> QED
  BY InitIInv, NextIInv, PinVerifiedBoolean, <1>1, <1>2, PTL DEF Spec

-----------------------------------------------------------------------------
(* What the steps of the processes do to the secrets and the counters.     *)

\* A step of one process installs a secret only as its user confirmed it.
LEMMA StepInstallConfirmed ==
  ASSUME IInv, NEW p \in Procs, Program(p) \/ User(p)
  PROVE  InstallConfirmed
<1> SUFFICES ASSUME NEW r \in Refs, secret'[r] # secret[r] PROVE Installs(p, r)
  BY DEF InstallConfirmed
<1> USE DEF IInv, Types
<1>1. CASE User(p)
  BY <1>1 DEF User, Start, Ask, AskNew, AskAgain, Cancel, Kill, card
<1>2. CASE Send(p)
  <2>1. Confirmed(p)
    BY <1>2 DEF Send, Entered
  <2>2. CASE SendAccepted(p)
    BY <1>2, <2>1, <2>2 DEF Send, SendAccepted, Accept, End, Installs, Confirmed, Replacing, Ref, Refs
  <2>3. CASE SendFailed(p)
    BY <1>2, <2>1, <2>3
       DEF Send, SendFailed, Present, UseUp, Accept, End, Installs, Confirmed, Replacing, Ref, Refs, card
  <2> QED
    BY <1>2, <2>2, <2>3 DEF Send, SendRefused, SendRejected, UseUp, SendUnchecked, card
<1>3. CASE ResetApplet(p)
  BY <1>3 DEF ResetApplet, RestoreFactory, End, Installs, card
<1>4. CASE Open(p) \/ CountFirst(p) \/ Show(p) \/ Recount(p) \/ Deauthenticate(p)
           \/ BlockPin(p) \/ BlockPuk(p)
  BY <1>4 DEF Open, CountFirst, Show, Recount, Deauthenticate, BlockPin, BlockPuk, card
<1> QED
  BY <1>1, <1>2, <1>3, <1>4 DEF Program

\* A step of one process uses up an attempt only for a secret, or for a reset.
LEMMA StepAttemptForSecret ==
  ASSUME IInv, NEW p \in Procs, Program(p) \/ User(p)
  PROVE  AttemptForSecret
<1> SUFFICES ASSUME NEW r \in Refs, tries'[r] < tries[r]
             PROVE  \/ pc[p] \in {"blockpin", "blockpuk"}
                    \/ pc[p] = "send" /\ r = Ref(cmd[p]) /\ typed[p] \in Secrets \ {secret[r]}
  BY DEF AttemptForSecret
<1> USE DEF IInv, Types
<1>1. CASE User(p)
  BY <1>1 DEF User, Start, Ask, AskNew, AskAgain, Cancel, Kill, card
<1>2. CASE Send(p)
  <2>1. Confirmed(p) /\ pc[p] = "send"
    BY <1>2 DEF Send, Entered
  <2>2. ~ Accept(p)
    BY DEF Accept, Ref, Refs, Replacing, Full
  <2> QED
    BY <1>2, <2>1, <2>2 DEF Send, SendRefused, SendAccepted, SendRejected, SendFailed,
       SendUnchecked, Present, UseUp, Confirmed, card
<1>3. CASE ResetApplet(p)
  BY <1>3 DEF ResetApplet, RestoreFactory, Full, card
<1>4. CASE Open(p) \/ CountFirst(p) \/ Show(p) \/ Recount(p) \/ Deauthenticate(p)
  BY <1>4 DEF Open, CountFirst, Show, Recount, Deauthenticate, card
<1>5. CASE BlockPin(p) \/ BlockPuk(p)
  BY <1>5 DEF BlockPin, BlockPuk
<1> QED
  BY <1>1, <1>2, <1>3, <1>4, <1>5 DEF Program

\* A step of one process reports a blocked reference only when it is blocked.
LEMMA StepBlockedReport ==
  ASSUME IInv, NEW p \in Procs, Program(p) \/ User(p)
  PROVE  BlockedReport
<1> SUFFICES ASSUME NEW q \in Procs, pc[q] # "idle", pc'[q] = "idle", result'[q] = "blocked"
             PROVE  tries'[Ref(cmd[q])] = 0
  BY DEF BlockedReport
<1> USE DEF IInv, Types, End, Goto, Proceed
<1> Ref(cmd[q]) \in Refs
  BY DEF Ref, Refs
<1>1. CASE User(p)
  BY <1>1 DEF User, Start, Ask, AskNew, AskAgain, Cancel, Kill
<1>2. CASE Open(p) \/ Show(p) \/ Deauthenticate(p)
  BY <1>2 DEF Open, Show, Deauthenticate
<1>3. CASE CountFirst(p)
  BY <1>3 DEF CountFirst, card
<1>4. CASE Recount(p)
  BY <1>4 DEF Recount
<1>5. CASE Send(p)
  BY <1>5 DEF Send, SendRefused, SendAccepted, SendRejected, SendFailed, SendUnchecked, UseUp, card
<1>6. CASE BlockPin(p) \/ BlockPuk(p)
  BY <1>6 DEF BlockPin, BlockPuk, Block, Blocked, UsedUp, BlockFailed
<1>7. CASE ResetApplet(p)
  BY <1>7 DEF ResetApplet
<1> QED
  BY <1>1, <1>2, <1>3, <1>4, <1>5, <1>6, <1>7 DEF Program

\* A secret on the card is replaced by what its user confirmed, or by a reset.
THEOREM InstalledCorrect == Spec => InstalledAsConfirmed
<1>1. IInv /\ [Next]_vars => [InstallConfirmed]_vars
  BY StepInstallConfirmed DEF Next
<1> QED
  BY InitIInv, NextIInv, <1>1, PTL DEF Spec, InstalledAsConfirmed

\* Attempts are spent on wrong secrets and on a reset only.
THEOREM AttemptsCorrect == Spec => AttemptsOnlyForSecrets
<1>1. IInv /\ [Next]_vars => [AttemptForSecret]_vars
  BY StepAttemptForSecret DEF Next
<1> QED
  BY InitIInv, NextIInv, <1>1, PTL DEF Spec, AttemptsOnlyForSecrets

\* A reference that a command reports as blocked has no attempt left.
THEOREM BlockedReportCorrect == Spec => BlockedReportIsTrue
<1>1. IInv /\ [Next]_vars => [BlockedReport]_vars
  BY StepBlockedReport DEF Next
<1> QED
  BY InitIInv, NextIInv, <1>1, PTL DEF Spec, BlockedReportIsTrue

-----------------------------------------------------------------------------
(* A reset that is alone with the card.                                    *)

\* Where it is, and what it has seen of the counters is what they are.
OnItsWay(p) ==
  /\ pc[p] \in {"open", "deauth", "blockpin", "blockpuk", "reset"}
  /\ pc[p] \in {"open", "deauth"} => left[p] = Unknown
  /\ pc[p] = "blockpin" => ~Unchecked /\ left[p] \in {Unknown, tries["pin"]}
  /\ pc[p] = "blockpuk" => tries["pin"] = 0 /\ left[p] \in {Unknown, tries["puk"]}
  /\ pc[p] = "reset" => tries["pin"] = 0 /\ tries["puk"] = 0

Undisturbed(p) ==
  /\ pc[p] # "idle" /\ \A q \in Procs \ {p} : pc[q] = "idle"
  /\ cmd[p] = "reset" => OnItsWay(p)

AInv ==
  /\ alone \subseteq Procs
  /\ \A p \in alone : Undisturbed(p)
  /\ \A p \in Procs : pc[p] = "idle" => left[p] = Unknown

\* A process that does not run starts a command, and no step of it is another's.
LEMMA WhoSteps ==
  ASSUME IInv, NEW p \in Procs, Program(p) \/ User(p)
  PROVE  /\ \A q \in Procs \ {p} : pc'[q] = pc[q] /\ cmd'[q] = cmd[q] /\ left'[q] = left[q]
                                   /\ result'[q] = result[q]
         /\ pc[p] = "idle" => \E c \in Commands : Start(p, c)
<1> USE DEF IInv, Types, Goto, Proceed, End, entries
<1>1. CASE User(p)
  BY <1>1 DEF User, Start, Ask, AskNew, AskAgain, Cancel, Kill, Dialogs
<1>2. CASE Open(p) \/ CountFirst(p) \/ Show(p) \/ Recount(p) \/ Deauthenticate(p)
  BY <1>2 DEF Open, CountFirst, Show, Recount, Deauthenticate
<1>3. CASE Send(p)
  BY <1>3 DEF Send, SendRefused, SendAccepted, SendRejected, SendFailed, SendUnchecked, Discard
<1>4. CASE BlockPin(p) \/ BlockPuk(p)
  BY <1>4 DEF BlockPin, BlockPuk, Block, Blocked, UsedUp, BlockFailed, See
<1>5. CASE ResetApplet(p)
  BY <1>5 DEF ResetApplet
<1> QED
  BY <1>1, <1>2, <1>3, <1>4, <1>5 DEF Program

\* A command that ends leaves no count behind, and one that starts has seen none.
LEMMA NoCountLeft ==
  ASSUME IInv, NEW p \in Procs, Program(p) \/ User(p), pc'[p] = "idle"
  PROVE  left'[p] = Unknown
<1> USE DEF IInv, Types, Goto, Proceed, End
<1>1. CASE User(p)
  BY <1>1 DEF User, Start, Ask, AskNew, AskAgain, Cancel, Kill, Replacing
<1>2. CASE Open(p) \/ CountFirst(p) \/ Show(p) \/ Recount(p) \/ Deauthenticate(p)
  BY <1>2 DEF Open, CountFirst, Show, Recount, Deauthenticate
<1>3. CASE Send(p)
  BY <1>3 DEF Send, SendRefused, SendAccepted, SendRejected, SendFailed, SendUnchecked
<1>4. CASE BlockPin(p)
  BY <1>4 DEF BlockPin, Block, Blocked, UsedUp, BlockFailed, See
<1>5. CASE BlockPuk(p)
  BY <1>5 DEF BlockPuk, Block, Blocked, UsedUp, BlockFailed, See
<1>6. CASE ResetApplet(p)
  BY <1>6 DEF ResetApplet
<1> QED
  BY <1>1, <1>2, <1>3, <1>4, <1>5, <1>6 DEF Program

\* A command that goes on is the same command.
LEMMA SameCommand ==
  ASSUME IInv, NEW p \in Procs, Program(p) \/ User(p), pc[p] # "idle", pc'[p] # "idle"
  PROVE  cmd'[p] = cmd[p]
<1> USE DEF IInv, Types, Goto, Proceed, End, entries
<1>1. CASE User(p)
  BY <1>1 DEF User, Start, Ask, AskNew, AskAgain, Cancel, Kill
<1>2. CASE Open(p) \/ CountFirst(p) \/ Show(p) \/ Recount(p) \/ Deauthenticate(p)
  BY <1>2 DEF Open, CountFirst, Show, Recount, Deauthenticate
<1>3. CASE Send(p)
  BY <1>3 DEF Send, SendRefused, SendAccepted, SendRejected, SendFailed, SendUnchecked, Discard
<1>4. CASE BlockPin(p) \/ BlockPuk(p)
  BY <1>4 DEF BlockPin, BlockPuk, Block, Blocked, UsedUp, BlockFailed, See
<1>5. CASE ResetApplet(p)
  BY <1>5 DEF ResetApplet
<1> QED
  BY <1>1, <1>2, <1>3, <1>4, <1>5 DEF Program

\* One step of a reset, without a failure: it goes on as it should or is done.
LEMMA ResetStep ==
  ASSUME IInv, NEW p \in Procs, cmd[p] = "reset", OnItsWay(p), Program(p) \/ User(p),
         faults' = faults, ChecksVerified \/ Deauthenticates
  PROVE  IF pc'[p] = "idle" THEN result'[p] = "done" ELSE cmd'[p] = "reset" /\ OnItsWay(p)'
<1> USE DEF IInv, Types, Goto, Proceed, End, entries
<1>1. ~SpendFault
  BY DEF SpendFault
<1>2. CASE pc[p] = "open"
  <2>1. Open(p)
    BY <1>1, <1>2 DEF Program, User, CountFirst, Show, Send, Recount, Deauthenticate, BlockPin,
       BlockPuk, ResetApplet, Start, Ask, AskNew, AskAgain, Cancel, Kill, Dialogs
  <2>2. Proceed(p, "deauth")
    BY <1>1, <2>1 DEF Open
  <2> QED
    BY <1>2, <2>2 DEF OnItsWay
<1>3. CASE pc[p] = "deauth"
  <2>1. Deauthenticate(p)
    BY <1>1, <1>3 DEF Program, User, CountFirst, Show, Send, Recount, Open, BlockPin,
       BlockPuk, ResetApplet, Start, Ask, AskNew, AskAgain, Cancel, Kill, Dialogs
  <2>2. Proceed(p, "blockpin") /\ pinVerified' = (pinVerified /\ ~Deauthenticates)
    BY <1>1, <2>1 DEF Deauthenticate
  <2>3. ~Unchecked'
    BY <2>2, Zenon DEF Unchecked
  <2>4. pc'[p] = "blockpin" /\ left'[p] = Unknown /\ cmd'[p] = "reset"
    BY <1>3, <2>2 DEF OnItsWay
  <2> QED
    BY <2>3, <2>4 DEF OnItsWay
<1>4. CASE pc[p] = "blockpin"
  <2>1. BlockPin(p)
    BY <1>1, <1>4 DEF Program, User, CountFirst, Show, Send, Recount, Open, Deauthenticate,
       BlockPuk, ResetApplet, Start, Ask, AskNew, AskAgain, Cancel, Kill, Dialogs
  <2>2. ~Unchecked /\ left[p] \in {Unknown, tries["pin"]}
    BY <1>4 DEF OnItsWay
  <2>3. Block(p, "pin", "blockpuk") /\ pinVerified' = pinVerified
    BY <2>1, <2>2 DEF BlockPin
  <2>4. ~Unchecked'
    BY <2>2, <2>3, Zenon DEF Unchecked
  <2>5. CASE Blocked(p, "pin", "blockpuk")
    BY <2>5 DEF Blocked, See, OnItsWay, Refs
  <2>6. CASE UsedUp(p, "pin")
    <3>1. CountsDown(p, tries["pin"] - 1)
      BY <2>2, <2>6 DEF CountsDown, UsedUp, Refs
    <3>2. See(p, tries["pin"] - 1) /\ UNCHANGED <<pc, result>>
      BY <2>6, <3>1 DEF UsedUp
    <3>3. tries'["pin"] = tries["pin"] - 1
      BY <2>6 DEF UsedUp, Refs
    <3> QED
      BY <1>4, <2>4, <3>2, <3>3 DEF See, OnItsWay
  <2> QED
    BY <1>1, <2>3, <2>5, <2>6 DEF Block, BlockFailed
<1>5. CASE pc[p] = "blockpuk"
  <2>1. BlockPuk(p)
    BY <1>1, <1>5 DEF Program, User, CountFirst, Show, Send, Recount, Open, Deauthenticate,
       BlockPin, ResetApplet, Start, Ask, AskNew, AskAgain, Cancel, Kill, Dialogs
  <2>2. tries["pin"] = 0 /\ left[p] \in {Unknown, tries["puk"]}
    BY <1>5 DEF OnItsWay
  <2>3. Block(p, "puk", "reset")
    BY <2>1 DEF BlockPuk
  <2>4. CASE Blocked(p, "puk", "reset")
    BY <2>2, <2>4 DEF Blocked, See, OnItsWay, Refs
  <2>5. CASE UsedUp(p, "puk")
    <3>1. CountsDown(p, tries["puk"] - 1)
      BY <2>2, <2>5 DEF CountsDown, UsedUp, Refs
    <3>2. See(p, tries["puk"] - 1) /\ UNCHANGED <<pc, result>>
      BY <2>5, <3>1 DEF UsedUp
    <3>3. tries'["puk"] = tries["puk"] - 1 /\ tries'["pin"] = 0
      BY <2>2, <2>5 DEF UsedUp, Refs
    <3> QED
      BY <1>5, <3>2, <3>3 DEF See, OnItsWay
  <2> QED
    BY <1>1, <2>3, <2>4, <2>5 DEF Block, BlockFailed
<1>6. CASE pc[p] = "reset"
  <2>1. ResetApplet(p)
    BY <1>1, <1>6 DEF Program, User, CountFirst, Show, Send, Recount, Open, Deauthenticate,
       BlockPin, BlockPuk, Start, Ask, AskNew, AskAgain, Cancel, Kill, Dialogs
  <2>2. \A r \in Refs : tries[r] = 0
    BY <1>6 DEF OnItsWay, Refs
  <2>3. End(p, "done")
    BY <1>1, <2>1, <2>2 DEF ResetApplet
  <2> QED
    BY <2>3
<1> QED
  BY <1>2, <1>3, <1>4, <1>5, <1>6 DEF OnItsWay

\* A step of the watched system is one of the system, and is watched.
LEMMA WatchedStep ==
  ASSUME WatchedNext
  PROVE  Watch /\ \E p \in Procs : Program(p) \/ User(p)
BY DEF WatchedNext, Program, User

LEMMA AloneStep ==
  ASSUME IInv, AInv, [WatchedNext]_watched, ChecksVerified \/ Deauthenticates
  PROVE  AInv' /\ [UndisturbedReset]_watched
<1>1. CASE UNCHANGED watched
  BY <1>1 DEF watched, vars, card, entries, AInv, Undisturbed, OnItsWay, Unchecked
<1>2. CASE WatchedNext
  <2>1. Watch
    BY <1>2, WatchedStep
  <2>2. PICK a \in Procs : Program(a) \/ User(a)
    BY <1>2, WatchedStep
  <2>3. /\ \A q \in Procs \ {a} : pc'[q] = pc[q] /\ cmd'[q] = cmd[q] /\ left'[q] = left[q]
                                  /\ result'[q] = result[q]
        /\ pc[a] = "idle" => \E c \in Commands : Start(a, c)
    BY <2>2, WhoSteps
  <2>4. \A p \in Procs : pc'[p] = "idle" => left'[p] = Unknown
    BY <2>2, <2>3, NoCountLeft DEF AInv
  <2>5. ASSUME NEW p \in alone' PROVE Undisturbed(p)'
    <3>1. /\ p \in Procs /\ pc'[p] # "idle" /\ faults' = faults
          /\ p \in alone \/ pc[p] = "idle"
          /\ \A q \in Procs \ {p} : pc'[q] = "idle"
      BY <2>1, <2>5 DEF Watch
    <3>2. a = p
      <4> SUFFICES ASSUME a # p PROVE FALSE
        OBVIOUS
      <4>1. pc[p] # "idle" /\ p \in alone
        BY <2>3, <3>1
      <4>2. pc[a] = "idle" /\ pc'[a] = "idle"
        BY <3>1, <4>1 DEF AInv, Undisturbed
      <4>3. PICK c \in Commands : Start(a, c)
        BY <2>3, <4>2
      <4> QED
        BY <4>2, <4>3 DEF Start, IInv, Types
    <3>3. CASE pc[p] = "idle"
      <4>1. PICK c \in Commands : Start(p, c)
        BY <2>3, <3>2, <3>3
      <4>2. cmd'[p] = c /\ left'[p] = Unknown /\ (c = "reset" => pc'[p] = "open")
        BY <3>1, <3>3, <4>1 DEF Start, IInv, Types, AInv
      <4> QED
        BY <3>1, <4>2 DEF Undisturbed, OnItsWay
    <3>4. CASE p \in alone /\ cmd[p] = "reset"
      <4>1. OnItsWay(p)
        BY <3>4 DEF AInv, Undisturbed
      <4>2. cmd'[p] = "reset" /\ OnItsWay(p)'
        BY <2>2, <3>1, <3>2, <3>4, <4>1, ResetStep
      <4> QED
        BY <3>1, <4>2 DEF Undisturbed
    <3>5. CASE pc[p] # "idle" /\ cmd[p] # "reset"
      <4>1. cmd'[p] # "reset"
        BY <2>2, <3>1, <3>2, <3>5, SameCommand
      <4> QED
        BY <3>1, <4>1 DEF Undisturbed
    <3> QED
      BY <3>1, <3>3, <3>4, <3>5
  <2>6. UndisturbedReset
    <3> SUFFICES ASSUME NEW p \in alone, cmd[p] = "reset", pc'[p] = "idle", faults' = faults
                 PROVE  result'[p] = "done"
      BY DEF UndisturbedReset
    <3>1. p \in Procs /\ pc[p] # "idle" /\ OnItsWay(p)
      BY DEF AInv, Undisturbed
    <3>2. a = p
      BY <2>3, <3>1
    <3> QED
      BY <2>2, <3>1, <3>2, ResetStep
  <2>7. alone' \subseteq Procs
    BY <2>1 DEF Watch
  <2> QED
    BY <2>4, <2>5, <2>6, <2>7 DEF AInv
<1> QED
  BY <1>1, <1>2

(***************************************************************************)
(* A reset that no other command and no failure meets succeeds on a card   *)
(* that compares every PIN or can be told to forget one: however many      *)
(* attempts were left, whatever other processes did before (cardReset,     *)
(* blockReference).                                                        *)
(***************************************************************************)
THEOREM UndisturbedResetCorrect ==
  ASSUME ChecksVerified \/ Deauthenticates
  PROVE  WatchedSpec => UndisturbedResetSucceeds
<1>1. WatchedInit => IInv /\ AInv
  BY InitIInv DEF WatchedInit, AInv, Init
<1>2. IInv /\ [WatchedNext]_watched => IInv'
  <2>1. [WatchedNext]_watched => [Next]_vars
    BY WatchedStep DEF watched, Next
  <2> QED
    BY <2>1, NextIInv
<1>3. IInv /\ AInv /\ [WatchedNext]_watched => AInv' /\ [UndisturbedReset]_watched
  BY AloneStep
<1> QED
  BY <1>1, <1>2, <1>3, PTL DEF WatchedSpec, UndisturbedResetSucceeds
=============================================================================
