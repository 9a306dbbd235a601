---------------------------- MODULE CardSecrets ----------------------------
(***************************************************************************)
(* The PIN and the PUK of one PIV card, and the commands that present them *)
(* to it: --set-pin, --set-puk, --unlock, the PIN entry that hands out a   *)
(* stored management key ("verify"), the login before a signature          *)
(* ("login") and --reset.                                                  *)
(*                                                                         *)
(* Several processes run commands against the same card.  They connect in  *)
(* shared mode and hold no transaction, so their commands interleave at    *)
(* every APDU and at every dialog, which is the grain of the actions: one  *)
(* answer of the user, or one command of the card together with what the   *)
(* program does with the response.  A process can be killed and a command  *)
(* of the card can fail, before or after the card has carried it out.      *)
(***************************************************************************)
EXTENDS Integers

CONSTANTS
  Procs,            \* the processes, each running one command at a time
  Secrets,          \* the entries that validatePIN and validatePUK accept
  Malformed,        \* an entry that they reject; also "nothing entered yet"
  FactoryPin,       \* DefaultPIN
  FactoryPuk,       \* DefaultPUK
  MaxTries,         \* attempts of a reference whose counter is full
  MaxFaults,        \* bound: transport failures and kills in a behaviour
  Commands,         \* the commands that the processes run
  ChecksVerified,   \* the card compares a PIN that is verified already
  Deauthenticates   \* the card knows the VERIFY that clears the PIN state

AllCommands == {"set-pin", "set-puk", "unlock", "verify", "login", "reset"}

ASSUME SecretsAssumption ==
  /\ Malformed \notin Secrets
  /\ FactoryPin \in Secrets
  /\ FactoryPuk \in Secrets
ASSUME BoundsAssumption ==
  /\ MaxTries \in Nat \ {0}
  /\ MaxFaults \in Nat
ASSUME CommandsAssumption == Commands \subseteq AllCommands
ASSUME CardAssumption ==
  /\ ChecksVerified \in BOOLEAN
  /\ Deauthenticates \in BOOLEAN

VARIABLES
  secret,       \* the PIN and the PUK the card holds
  tries,        \* the attempts the card has left for each of them
  pinVerified,  \* the card considers its PIN verified
  pc,           \* what each process does next
  cmd,          \* the command it runs
  typed,        \* the current PIN or PUK the user entered
  fresh,        \* the new PIN or PUK the user entered
  again,        \* its second entry
  shown,        \* the attempts the open dialog shows
  left,         \* the count blockReference saw last
  result,       \* how the last command ended
  faults        \* failures and kills that may still happen

card == <<secret, tries, pinVerified>>
entries == <<cmd, typed, fresh, again, shown, left>>
vars == <<card, pc, entries, result, faults>>

Refs == {"pin", "puk"}
Entries == Secrets \cup {Malformed}

\* RetriesUnknown: a count that cannot be read, and no count seen yet.
Unknown == -1

Dialogs == {"ask", "new", "again"}
Automatic == {"open", "first", "show", "send", "recount",
              "deauth", "blockpin", "blockpuk", "reset"}
Results == {"none", "done", "failed", "cancelled", "blocked", "killed"}

\* The commands that replace a secret, which ask for the new one twice.
Replacing == {"set-pin", "set-puk"}

\* The commands whose secret goes through the PKCS#11 module.
ThroughModule == {"unlock", "login"}

\* The reference a command presents a secret for.
Ref(c) == IF c \in {"set-puk", "unlock"} THEN "puk" ELSE "pin"

Factory == [r \in Refs |-> IF r = "pin" THEN FactoryPin ELSE FactoryPuk]
Full == [r \in Refs |-> MaxTries]

Init ==
  /\ secret = Factory
  /\ tries = Full
  /\ pinVerified = FALSE
  /\ pc = [p \in Procs |-> "idle"]
  /\ cmd = [p \in Procs |-> "none"]
  /\ typed = [p \in Procs |-> Malformed]
  /\ fresh = [p \in Procs |-> Malformed]
  /\ again = [p \in Procs |-> Malformed]
  /\ shown = [p \in Procs |-> Unknown]
  /\ left = [p \in Procs |-> Unknown]
  /\ result = [p \in Procs |-> "none"]
  /\ faults = MaxFaults

-----------------------------------------------------------------------------
(* What a step does to the process that takes it.                          *)

Goto(p, next) ==
  /\ pc' = [pc EXCEPT ![p] = next]
  /\ UNCHANGED result

Proceed(p, next) ==
  /\ Goto(p, next)
  /\ UNCHANGED entries

\* The process ends, and what it held in memory is gone with it.
End(p, outcome) ==
  /\ pc' = [pc EXCEPT ![p] = "idle"]
  /\ result' = [result EXCEPT ![p] = outcome]
  /\ cmd' = [cmd EXCEPT ![p] = "none"]
  /\ typed' = [typed EXCEPT ![p] = Malformed]
  /\ fresh' = [fresh EXCEPT ![p] = Malformed]
  /\ again' = [again EXCEPT ![p] = Malformed]
  /\ shown' = [shown EXCEPT ![p] = Unknown]
  /\ left' = [left EXCEPT ![p] = Unknown]

SpendFault ==
  /\ faults > 0
  /\ faults' = faults - 1

\* A command is started.  --unlock asks for the new PIN first and reaches the
\* card through the module; login starts at its dialog as well; every other
\* command opens a session with the card.
Start(p, c) ==
  /\ pc[p] = "idle"
  /\ cmd' = [cmd EXCEPT ![p] = c]
  /\ pc' = [pc EXCEPT ![p] = IF c = "unlock" THEN "new"
                           ELSE IF c = "login" THEN "show" ELSE "open"]
  /\ result' = [result EXCEPT ![p] = "none"]
  /\ UNCHANGED <<card, typed, fresh, again, shown, left, faults>>

\* SELECT of the PIV application.  A card may keep a verified PIN when its
\* application is selected already.
Select == pinVerified' \in {FALSE, pinVerified}

Open(p) ==
  /\ pc[p] = "open"
  /\ \/ /\ Select
        /\ Proceed(p, IF cmd[p] = "reset" THEN "deauth" ELSE "first")
        /\ UNCHANGED faults
     \/ /\ SpendFault
        /\ End(p, "failed")
        /\ UNCHANGED pinVerified
  /\ UNCHANGED <<secret, tries>>

-----------------------------------------------------------------------------
(* The dialogs of secretPrompt and askNewSecret.                           *)

\* The count that is read before the first dialog: a blocked reference ends
\* the command, a count that cannot be read does not.
CountFirst(p) ==
  /\ pc[p] = "first"
  /\ \/ /\ tries[Ref(cmd[p])] = 0
        /\ End(p, "blocked")
        /\ UNCHANGED faults
     \/ /\ tries[Ref(cmd[p])] # 0
        /\ Proceed(p, "show")
        /\ UNCHANGED faults
     \/ /\ SpendFault
        /\ Proceed(p, "show")
  /\ UNCHANGED card

\* The count the dialog is opened with.  A token that is reached through its
\* module reads it over a connection of its own, which selects the applet.
Show(p) ==
  /\ pc[p] = "show"
  /\ \/ /\ shown' = [shown EXCEPT ![p] = tries[Ref(cmd[p])]]
        /\ UNCHANGED faults
     \/ /\ shown' = [shown EXCEPT ![p] = Unknown]
        /\ SpendFault
  /\ IF cmd[p] \in ThroughModule THEN Select ELSE UNCHANGED pinVerified
  /\ Goto(p, "ask")
  /\ UNCHANGED <<secret, tries, cmd, typed, fresh, again, left>>

\* Every dialog can be cancelled, and pinentry can fail.
Cancel(p) ==
  /\ pc[p] \in Dialogs
  /\ \E outcome \in {"cancelled", "failed"} : End(p, outcome)
  /\ UNCHANGED <<card, faults>>

\* Mutant: the entry is not validated before it is sent.
AskUnvalidated(p) ==
  /\ pc[p] = "ask"
  /\ \E e \in Entries :
       /\ typed' = [typed EXCEPT ![p] = e]
       /\ shown' = [shown EXCEPT ![p] = Unknown]
       /\ Goto(p, IF cmd[p] \in Replacing THEN "new" ELSE "send")
  /\ UNCHANGED <<card, cmd, fresh, again, left, faults>>

\* The user enters the current PIN or PUK.  An entry that cannot be one opens
\* the dialog again without reaching the card.
Ask(p) ==
  /\ pc[p] = "ask"
  /\ \E e \in Entries :
       /\ typed' = [typed EXCEPT ![p] = e]
       /\ shown' = [shown EXCEPT ![p] = Unknown]
       /\ Goto(p, IF e = Malformed THEN "show"
                  ELSE IF cmd[p] \in Replacing THEN "new" ELSE "send")
  /\ UNCHANGED <<card, cmd, fresh, again, left, faults>>

\* The user enters the new PIN or PUK.  --unlock asks for it once.
AskNew(p) ==
  /\ pc[p] = "new"
  /\ \E e \in Entries :
       /\ fresh' = [fresh EXCEPT ![p] = e]
       /\ Goto(p, IF e = Malformed THEN "new"
                  ELSE IF cmd[p] \in Replacing THEN "again" ELSE "show")
  /\ UNCHANGED <<card, cmd, typed, again, shown, left, faults>>

\* Mutant: the second entry is validated, but not compared to the first.
AskAgainUncompared(p) ==
  /\ pc[p] = "again"
  /\ \E e \in Secrets :
       /\ again' = [again EXCEPT ![p] = e]
       /\ Goto(p, "send")
  /\ UNCHANGED <<card, cmd, typed, fresh, shown, left, faults>>

\* The second entry has to match the first, or both are asked for again.
AskAgain(p) ==
  /\ pc[p] = "again"
  /\ \E e \in Entries :
       \/ /\ e = fresh[p]
          /\ again' = [again EXCEPT ![p] = e]
          /\ Goto(p, "send")
          /\ UNCHANGED fresh
       \/ /\ e # fresh[p]
          /\ fresh' = [fresh EXCEPT ![p] = Malformed]
          /\ Goto(p, "new")
          /\ UNCHANGED again
  /\ UNCHANGED <<card, cmd, typed, shown, left, faults>>

-----------------------------------------------------------------------------
(* What the card does with a secret: CHANGE REFERENCE, VERIFY and, behind  *)
(* C_SetPIN, RESET RETRY COUNTER.                                          *)

\* The card accepts any PIN while it considers its PIN verified.
Unchecked == pinVerified /\ ~ChecksVerified

\* A PIN that is presented to such a card is not compared and costs nothing.
Skipped(p) == Unchecked /\ cmd[p] \in {"verify", "login"}

\* The right secret fills its counter and does what the command is for.
Accept(p) ==
  \/ /\ cmd[p] \in Replacing
     /\ secret' = [secret EXCEPT ![Ref(cmd[p])] = fresh[p]]
     /\ tries' = [tries EXCEPT ![Ref(cmd[p])] = MaxTries]
     /\ UNCHANGED pinVerified
  \/ /\ cmd[p] = "unlock"
     /\ secret' = [secret EXCEPT !["pin"] = fresh[p]]
     /\ tries' = Full
     /\ UNCHANGED pinVerified
  \/ /\ cmd[p] \in {"verify", "login"}
     /\ tries' = [tries EXCEPT !["pin"] = MaxTries]
     /\ pinVerified' = TRUE
     /\ UNCHANGED secret

UseUp(r) ==
  /\ tries' = [tries EXCEPT ![r] = @ - 1]
  /\ UNCHANGED <<secret, pinVerified>>

\* The effect of presenting the entered secret to a card with attempts left.
Present(p) ==
  IF typed[p] = secret[Ref(cmd[p])] THEN Accept(p) ELSE UseUp(Ref(cmd[p]))

SendRefused(p) ==
  /\ tries[Ref(cmd[p])] = 0
  /\ End(p, "blocked")
  /\ UNCHANGED <<card, faults>>

SendAccepted(p) ==
  /\ tries[Ref(cmd[p])] # 0
  /\ ~Skipped(p)
  /\ typed[p] = secret[Ref(cmd[p])]
  /\ Accept(p)
  /\ End(p, "done")
  /\ UNCHANGED faults

\* The entries of a rejected attempt are dropped; the new PIN of --unlock was
\* entered before the prompt for the PUK, and outlives it.
Discard(p) ==
  /\ typed' = [typed EXCEPT ![p] = Malformed]
  /\ fresh' = [fresh EXCEPT ![p] = IF cmd[p] = "unlock" THEN @ ELSE Malformed]
  /\ again' = [again EXCEPT ![p] = Malformed]
  /\ UNCHANGED <<cmd, shown, left>>

\* A wrong secret uses up an attempt.  The response to the last attempt says
\* that the reference is blocked; a module may still call it incorrect.
SendRejected(p) ==
  /\ tries[Ref(cmd[p])] # 0
  /\ ~Skipped(p)
  /\ typed[p] # secret[Ref(cmd[p])]
  /\ UseUp(Ref(cmd[p]))
  /\ \/ /\ tries[Ref(cmd[p])] = 1
        /\ End(p, "blocked")
     \/ /\ tries[Ref(cmd[p])] = 1 => cmd[p] \in ThroughModule
        /\ Goto(p, "recount")
        /\ Discard(p)
  /\ UNCHANGED faults

\* The transport fails before or after the card carried out the command; a
\* module that cannot unlock a PIN fails without reaching the card as well.
SendFailed(p) ==
  /\ SpendFault
  /\ End(p, "failed")
  /\ \/ UNCHANGED card
     \/ tries[Ref(cmd[p])] # 0 /\ ~Skipped(p) /\ Present(p)

\* A token that is logged in already needs no PIN, and one that is verified
\* need not be compared.
SendUnchecked(p) ==
  /\ cmd[p] = "login" \/ Skipped(p)
  /\ End(p, "done")
  /\ UNCHANGED <<card, faults>>

Send(p) ==
  /\ pc[p] = "send"
  /\ \/ SendRefused(p)
     \/ SendAccepted(p)
     \/ SendRejected(p)
     \/ SendFailed(p)
     \/ SendUnchecked(p)

\* Mutant: the last attempt is taken for none.
RecountOffByOne(p) ==
  /\ pc[p] = "recount"
  /\ UNCHANGED <<card, faults>>
  /\ IF tries[Ref(cmd[p])] <= 1 THEN End(p, "blocked") ELSE Proceed(p, "show")

\* The count that is read after a rejected secret.
Recount(p) ==
  /\ pc[p] = "recount"
  /\ IF cmd[p] \in ThroughModule THEN Select ELSE UNCHANGED pinVerified
  /\ \/ /\ tries[Ref(cmd[p])] = 0
        /\ End(p, "blocked")
        /\ UNCHANGED faults
     \/ /\ tries[Ref(cmd[p])] # 0
        /\ Proceed(p, "show")
        /\ UNCHANGED faults
     \/ /\ SpendFault
        /\ Proceed(p, "show")
  /\ UNCHANGED <<secret, tries>>

-----------------------------------------------------------------------------
(* cardReset: the PIN state is cleared, the PIN and then the PUK are       *)
(* blocked with a secret that cannot be right, and the applet is reset.    *)

\* Mutant: the PIN state is left as it is.
DeauthenticateSkipped(p) ==
  /\ pc[p] = "deauth"
  /\ Proceed(p, "blockpin")
  /\ UNCHANGED <<card, faults>>

\* VERIFY with P1 = FF, which a card that does not know it rejects.
Deauthenticate(p) ==
  /\ pc[p] = "deauth"
  /\ \/ /\ pinVerified' = (pinVerified /\ ~Deauthenticates)
        /\ UNCHANGED faults
     \/ /\ SpendFault
        /\ UNCHANGED pinVerified
  /\ Proceed(p, "blockpin")
  /\ UNCHANGED <<secret, tries>>

\* Mutant: the loop does not look at the count it saw before.
CountsAnyhow(p, count) == count > 0

\* The loop goes on only while the count goes down.
CountsDown(p, count) == left[p] = Unknown \/ count < left[p]

See(p, count) ==
  /\ left' = [left EXCEPT ![p] = count]
  /\ UNCHANGED <<cmd, typed, fresh, again, shown>>

\* The last attempt is used up, or there was none: blockReference is through.
Blocked(p, r, next) ==
  /\ tries[r] \in {0, 1}
  /\ tries' = [tries EXCEPT ![r] = 0]
  /\ Goto(p, next)
  /\ See(p, Unknown)
  /\ UNCHANGED faults

\* Attempts are left after a wrong secret.
UsedUp(p, r) ==
  /\ tries[r] > 1
  /\ tries' = [tries EXCEPT ![r] = @ - 1]
  /\ \/ /\ CountsDown(p, tries[r] - 1)
        /\ See(p, tries[r] - 1)
        /\ UNCHANGED <<pc, result>>
     \/ /\ ~CountsDown(p, tries[r] - 1)
        /\ End(p, "failed")
  /\ UNCHANGED faults

BlockFailed(p, r) ==
  /\ SpendFault
  /\ tries' \in {tries, [tries EXCEPT ![r] = IF @ = 0 THEN 0 ELSE @ - 1]}
  /\ End(p, "failed")

\* One wrong secret of blockReference; next is the step after the loop.
Block(p, r, next) ==
  Blocked(p, r, next) \/ UsedUp(p, r) \/ BlockFailed(p, r)

BlockPin(p) ==
  /\ pc[p] = "blockpin"
  /\ \/ /\ Unchecked
        /\ End(p, "failed")
        /\ UNCHANGED <<tries, faults>>
     \/ /\ ~Unchecked
        /\ Block(p, "pin", "blockpuk")
  /\ UNCHANGED <<secret, pinVerified>>

BlockPuk(p) ==
  /\ pc[p] = "blockpuk"
  /\ Block(p, "puk", "reset")
  /\ UNCHANGED <<secret, pinVerified>>

RestoreFactory ==
  /\ secret' = Factory
  /\ tries' = Full
  /\ pinVerified' = FALSE

\* RESET, which the card carries out only when both references are blocked.
ResetApplet(p) ==
  /\ pc[p] = "reset"
  /\ LET blocked == \A r \in Refs : tries[r] = 0 IN
     \/ /\ blocked
        /\ RestoreFactory
        /\ End(p, "done")
        /\ UNCHANGED faults
     \/ /\ ~blocked
        /\ End(p, "failed")
        /\ UNCHANGED <<card, faults>>
     \/ /\ SpendFault
        /\ End(p, "failed")
        /\ \/ UNCHANGED card
           \/ blocked /\ RestoreFactory

\* The process is killed.
Kill(p) ==
  /\ pc[p] # "idle"
  /\ SpendFault
  /\ End(p, "killed")
  /\ UNCHANGED card

-----------------------------------------------------------------------------
\* The steps of the program itself, and those that wait for the user.
Program(p) ==
  \/ Open(p) \/ CountFirst(p) \/ Show(p) \/ Send(p) \/ Recount(p)
  \/ Deauthenticate(p) \/ BlockPin(p) \/ BlockPuk(p) \/ ResetApplet(p)

User(p) ==
  \/ \E c \in Commands : Start(p, c)
  \/ Ask(p) \/ AskNew(p) \/ AskAgain(p) \/ Cancel(p) \/ Kill(p)

Next == \E p \in Procs : Program(p) \/ User(p)

Spec == Init /\ [][Next]_vars

\* A process that does not wait for its user keeps running: neither a dialog
\* nor the start of a command is owed by anyone.
FairSpec == Spec /\ \A p \in Procs : WF_vars(Program(p))

-----------------------------------------------------------------------------
TypeOK ==
  /\ secret \in [Refs -> Secrets]
  /\ tries \in [Refs -> 0..MaxTries]
  /\ pinVerified \in BOOLEAN
  /\ pc \in [Procs -> Automatic \cup Dialogs \cup {"idle"}]
  /\ cmd \in [Procs -> Commands \cup {"none"}]
  /\ typed \in [Procs -> Entries]
  /\ fresh \in [Procs -> Entries]
  /\ again \in [Procs -> Entries]
  /\ shown \in [Procs -> Unknown..MaxTries]
  /\ left \in [Procs -> Unknown..MaxTries]
  /\ result \in [Procs -> Results]
  /\ faults \in 0..MaxFaults

\* A PIN or PUK that replaces another one is the one that its user entered,
\* twice in a row when --set-pin or --set-puk asked for it, after the current
\* PIN or PUK was entered; only a reset brings the factory secrets back.  Other
\* processes that change the same secrets in between do not change that.
Installs(p, r) ==
  /\ pc'[p] = "idle"
  /\ \/ pc[p] = "reset" /\ secret'[r] = Factory[r]
     \/ /\ pc[p] = "send"
        /\ typed[p] = secret[Ref(cmd[p])]
        /\ secret'[r] = fresh[p]
        /\ \/ cmd[p] = "unlock" /\ r = "pin"
           \/ cmd[p] \in Replacing /\ r = Ref(cmd[p]) /\ again[p] = fresh[p]

InstallConfirmed ==
  \A r \in Refs : secret'[r] # secret[r] => \E p \in Procs : Installs(p, r)

InstalledAsConfirmed == [][InstallConfirmed]_vars

\* An attempt is used up by a reset, or by a secret that could be right and is
\* not: an entry that cannot be a PIN or PUK never costs an attempt.
AttemptForSecret ==
  \A r \in Refs : tries'[r] < tries[r] =>
    \E p \in Procs :
      \/ pc[p] \in {"blockpin", "blockpuk"}
      \/ pc[p] = "send" /\ r = Ref(cmd[p]) /\ typed[p] \in Secrets \ {secret[r]}

AttemptsOnlyForSecrets == [][AttemptForSecret]_vars

\* A command that tells its user that the PIN or the PUK is blocked says so of
\* a reference that has no attempt left at that moment, whatever the other
\* processes did to the counter since the command looked at it last.
BlockedReport ==
  \A p \in Procs :
    pc[p] # "idle" /\ pc'[p] = "idle" /\ result'[p] = "blocked"
      => tries'[Ref(cmd[p])] = 0

BlockedReportIsTrue == [][BlockedReport]_vars

\* A process that is not waiting for its user reaches a dialog or ends.  In
\* particular the loop that blocks a reference ends when other processes fill
\* the counter again after every attempt.
ProgramStepsEnd ==
  \A p \in Procs : pc[p] \in Automatic ~> pc[p] \in Dialogs \cup {"idle"}
=============================================================================
