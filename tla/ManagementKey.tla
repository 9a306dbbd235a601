---------------------------- MODULE ManagementKey ----------------------------
(***************************************************************************)
(* The card management key of one PIV card, where it is kept, and the      *)
(* commands that need it: --set-management-key, and --set-chuid/--set-ccc  *)
(* as "set-object".                                                        *)
(*                                                                         *)
(* The key is kept by the user, or by the card in the data object 5FC109,  *)
(* which it hands out to a verified PIN; a flag in the PIV management data *)
(* says which.  The key, the object and the flag are written one after the *)
(* other over a shared connection without a transaction, so a command that *)
(* is interrupted, another process or another program that selects its own *)
(* application comes between two of the writes.                            *)
(*                                                                         *)
(* The dialogs for the PIN and for a new key are single steps here; module *)
(* CardSecrets has the prompt that verifyPIN and askNewSecret are made of. *)
(***************************************************************************)
EXTENDS Naturals

CONSTANTS
  Procs,        \* the processes, each running one command at a time
  Nobody,       \* no process
  DefaultKey,   \* DefaultManagementKey, the Triple-DES key of a factory card
  AesKeys,      \* the keys that can replace it
  NoKey,        \* no key
  Values,       \* the values of a generated CHUID or CCC
  NoValue,      \* the object is not on the card
  Commands,     \* the commands that the processes run
  MaxFaults,    \* bound: interruptions and ignored writes in a behaviour
  Foreign,      \* other programs use the card as well
  Ignores       \* the card may report a write that it did not store

Keys == AesKeys \cup {DefaultKey}

ASSUME ValuesAssumption ==
  /\ Nobody \notin Procs
  /\ DefaultKey \notin AesKeys
  /\ NoKey \notin Keys
  /\ NoValue \notin Values
ASSUME CommandsAssumption == Commands \subseteq {"set-key", "set-object"}
ASSUME EnvironmentAssumption ==
  /\ MaxFaults \in Nat
  /\ Foreign \in BOOLEAN
  /\ Ignores \in BOOLEAN

VARIABLES
  mgmKey,         \* the management key of the card
  stored,         \* the key in the object 5FC109, behind the PIN
  pivman,         \* the management data: the key is stored, a salt is there
  object,         \* the CHUID or the CCC
  selected,       \* the PIV application is the selected one
  authenticated,  \* a management key was verified
  pinVerified,    \* the PIN was verified
  witness,        \* the process the card sent its last witness to
  pc,             \* what each process does next
  job,            \* the command it runs, and its local variables
  known,          \* the keys that the users know
  result,         \* how the last command ended
  faults          \* the interruptions and ignored writes still to come

memory == <<mgmKey, stored, pivman, object>>
status == <<selected, authenticated, pinVerified, witness>>
vars == <<memory, status, pc, job, known, result, faults>>

Algorithms == {"tdes", "aes"}
Algorithm(k) == IF k = DefaultKey THEN "tdes" ELSE "aes"

PivmanData == [flag : BOOLEAN, salt : BOOLEAN]

Jobs ==
  [cmd : Commands \cup {"none"},
   protect : BOOLEAN, random : BOOLEAN,       \* --protect 1, --random
   read : PivmanData,                         \* the management data it read
   alg : Algorithms,                          \* algorithm of the current key
   cur : Keys \cup {NoKey},                   \* the current key it uses
   new : AesKeys \cup {NoKey},                \* the new key
   value : Values \cup {NoValue}]             \* the object it writes

\* A command as it starts, with nothing read and nothing entered.
Job(cmd, protect, random, value) ==
  [cmd |-> cmd, protect |-> protect, random |-> random,
   read |-> [flag |-> FALSE, salt |-> FALSE], alg |-> "tdes",
   cur |-> NoKey, new |-> NoKey, value |-> value]

NoJob == Job("none", FALSE, FALSE, NoValue)

Dialogs == {"pin", "askkey", "new", "newpin"}
Steps == {"open", "data", "alg", "protected", "try", "tried", "prove", "proved",
          "set", "store", "update", "report", "put", "readback"}
Results == {"none", "done", "failed", "cancelled", "killed"}

Init ==
  /\ mgmKey = DefaultKey
  /\ stored = NoKey
  /\ pivman \in {d \in PivmanData : ~d.flag}
  /\ object = NoValue
  /\ selected = FALSE
  /\ authenticated = FALSE
  /\ pinVerified = FALSE
  /\ witness = Nobody
  /\ pc = [p \in Procs |-> "idle"]
  /\ job = [p \in Procs |-> NoJob]
  /\ known = {DefaultKey}
  /\ result = [p \in Procs |-> "none"]
  /\ faults = MaxFaults

-----------------------------------------------------------------------------
Goto(p, next) ==
  /\ pc' = [pc EXCEPT ![p] = next]
  /\ UNCHANGED result

\* Nothing of the process but its position changes.
Proceed(p, next) == Goto(p, next) /\ UNCHANGED job

\* The command ends.  The connection leaves the card as it is.
End(p, outcome) ==
  /\ pc' = [pc EXCEPT ![p] = "idle"]
  /\ result' = [result EXCEPT ![p] = outcome]
  /\ job' = [job EXCEPT ![p] = NoJob]

SpendFault ==
  /\ faults > 0
  /\ faults' = faults - 1

\* A generated value is one that exists nowhere else.
Unused == AesKeys \ (known \cup {mgmKey, stored}
                       \cup {job[q].cur : q \in Procs} \cup {job[q].new : q \in Procs})
UnusedValues == Values \ ({object} \cup {job[q].value : q \in Procs})

-----------------------------------------------------------------------------
(* A command begins: the session, the management data and the algorithm.   *)

Start(p) ==
  /\ pc[p] = "idle"
  /\ \/ /\ "set-key" \in Commands
        /\ \E protect, random \in BOOLEAN :
             job' = [job EXCEPT ![p] = Job("set-key", protect, random, NoValue)]
     \/ /\ "set-object" \in Commands
        /\ \E v \in UnusedValues :
             job' = [job EXCEPT ![p] = Job("set-object", FALSE, FALSE, v)]
  /\ pc' = [pc EXCEPT ![p] = "open"]
  /\ result' = [result EXCEPT ![p] = "none"]
  /\ UNCHANGED <<memory, status, known, faults>>

\* findPIVReader selects the application; a card may keep what was verified
\* when it is selected already.  The session does not select it again.
Open(p) ==
  /\ pc[p] = "open"
  /\ selected' = TRUE
  /\ authenticated' \in {FALSE, authenticated}
  /\ pinVerified' \in {FALSE, pinVerified}
  /\ witness' = Nobody
  /\ Proceed(p, "data")
  /\ UNCHANGED <<memory, known, faults>>

\* readPivmanData.  Another application may answer that it has no such object,
\* which reads as empty data.
ReadData(p) ==
  /\ pc[p] = "data"
  /\ \/ /\ selected
        /\ job' = [job EXCEPT ![p].read = pivman]
        /\ Goto(p, "alg")
     \/ /\ ~selected
        /\ Proceed(p, "alg") \/ End(p, "failed")
  /\ UNCHANGED <<memory, status, known, faults>>

\* A card that does not answer holds a Triple-DES key as far as we know.
ReadAlgorithm(p) ==
  /\ pc[p] = "alg"
  /\ job' = [job EXCEPT ![p].alg = IF selected THEN Algorithm(mgmKey) ELSE "tdes"]
  /\ Goto(p, IF job[p].read.flag THEN "pin" ELSE "askkey")
  /\ UNCHANGED <<memory, status, known, faults>>

-----------------------------------------------------------------------------
(* The current key.                                                        *)

\* verifyPIN ends with a verified PIN or with the command.
EnterPin(p) ==
  /\ pc[p] \in {"pin", "newpin"}
  /\ IF selected
     THEN /\ pinVerified' = TRUE
          /\ Proceed(p, IF pc[p] = "pin" THEN "protected" ELSE "set")
     ELSE /\ End(p, "failed")
          /\ UNCHANGED pinVerified
  /\ UNCHANGED <<memory, selected, authenticated, witness, known, faults>>

\* Every dialog can be cancelled; a blocked PIN and pinentry end it as well.
Cancel(p) ==
  /\ pc[p] \in Dialogs
  /\ \E outcome \in {"cancelled", "failed"} : End(p, outcome)
  /\ UNCHANGED <<memory, status, known, faults>>

\* protectedManagementKey: the card hands the stored key out.
ReadStored(p) ==
  /\ pc[p] = "protected"
  /\ IF selected /\ pinVerified /\ stored # NoKey
     THEN /\ job' = [job EXCEPT ![p].cur = stored]
          /\ Goto(p, "prove")
     ELSE End(p, "failed")
  /\ UNCHANGED <<memory, status, known, faults>>

\* askManagementKey: the user enters one of the known keys that can be a key
\* of the algorithm; others do not leave the dialog.
AskKey(p) ==
  /\ pc[p] = "askkey"
  /\ \E k \in known :
       /\ Algorithm(k) = job[p].alg
       /\ job' = [job EXCEPT ![p].cur = k]
  /\ Goto(p, "try")
  /\ UNCHANGED <<memory, status, known, faults>>

\* The first half of cardAuthenticate: the card sends a witness, which it
\* remembers for one process only.
Witness(p) ==
  /\ pc[p] \in {"try", "prove"}
  /\ IF /\ selected
        /\ Algorithm(job[p].cur) = job[p].alg
        /\ Algorithm(mgmKey) = job[p].alg
     THEN /\ witness' = p
          /\ Proceed(p, IF pc[p] = "try" THEN "tried" ELSE "proved")
     ELSE /\ End(p, "failed")
          /\ UNCHANGED witness
  /\ UNCHANGED <<memory, selected, authenticated, pinVerified, known, faults>>

\* The second half: the card and the process prove that they hold one key.  A
\* key that was entered is asked for again when it is wrong; one that passed
\* its prompt, or came from the card, ends the command.
Respond(p) ==
  /\ pc[p] \in {"tried", "proved"}
  /\ witness' = Nobody
  /\ IF selected /\ witness = p /\ job[p].cur = mgmKey
     THEN /\ authenticated' = TRUE
          /\ Proceed(p, IF pc[p] = "tried" THEN "prove"
                        ELSE IF job[p].cmd = "set-key" THEN "new" ELSE "put")
     ELSE /\ authenticated' \in {FALSE, authenticated}
          /\ IF pc[p] = "tried" THEN Proceed(p, "askkey") ELSE End(p, "failed")
  /\ UNCHANGED <<memory, selected, pinVerified, known, faults>>

-----------------------------------------------------------------------------
(* --set-management-key: the new key, and the three writes.                *)

\* Mutant: the PIN is not asked for before the card is written to.
NewKeyWithoutPin(p) ==
  /\ pc[p] = "new"
  /\ \E k \in Unused \cup IF job[p].random THEN {} ELSE known \cap AesKeys :
       /\ job' = [job EXCEPT ![p].new = k]
       /\ known' = IF job[p].random THEN known ELSE known \cup {k}
  /\ Goto(p, "set")
  /\ UNCHANGED <<memory, status, faults>>

\* The new key is generated, or entered by a user who knows it from then on.
\* The PIN that the object of a stored key needs is verified before the card
\* is written to, unless the stored key was read with it.
NewKey(p) ==
  /\ pc[p] = "new"
  /\ \E k \in Unused \cup IF job[p].random THEN {} ELSE known \cap AesKeys :
       /\ job' = [job EXCEPT ![p].new = k]
       /\ known' = IF job[p].random THEN known ELSE known \cup {k}
  /\ Goto(p, IF job[p].protect /\ ~job[p].read.flag THEN "newpin" ELSE "set")
  /\ UNCHANGED <<memory, status, faults>>

\* Mutant: the flag of a key that is no longer stored is left behind.
AfterStoreKeepsFlag(j) == IF j.read.salt \/ (j.protect /\ ~j.read.flag) THEN "update" ELSE "report"

\* The management data are written when the command changed them.
AfterStore(j) == IF j.read.salt \/ j.protect # j.read.flag THEN "update" ELSE "report"

\* 5FC109 is written when the new key goes there, or when one has to go.
AfterSet(j) == IF j.protect \/ j.read.flag THEN "store" ELSE AfterStore(j)

\* A write: carried out by a card that allows it, refused by one that does
\* not, and lost in a card that reports it without storing it.
Write(p, allowed, effect, unchanged, next) ==
  \/ allowed /\ effect /\ Proceed(p, next) /\ UNCHANGED faults
  \/ ~allowed /\ unchanged /\ End(p, "failed") /\ UNCHANGED faults
  \/ Ignores /\ allowed /\ unchanged /\ Proceed(p, next) /\ SpendFault

SetKey(p) ==
  /\ pc[p] = "set"
  /\ Write(p, selected /\ authenticated,
           mgmKey' = job[p].new, UNCHANGED mgmKey, AfterSet(job[p]))
  /\ witness' = Nobody
  /\ UNCHANGED <<stored, pivman, object, selected, authenticated, pinVerified, known>>

\* Mutant: the key that is stored is the one that was replaced.
StoreCurrent(p) ==
  /\ pc[p] = "store"
  /\ Write(p, selected /\ authenticated /\ pinVerified,
           stored' = IF job[p].protect THEN job[p].cur ELSE NoKey,
           UNCHANGED stored, AfterStore(job[p]))
  /\ UNCHANGED <<mgmKey, pivman, object, status, known>>

Store(p) ==
  /\ pc[p] = "store"
  /\ Write(p, selected /\ authenticated /\ pinVerified,
           stored' = IF job[p].protect THEN job[p].new ELSE NoKey,
           UNCHANGED stored, AfterStore(job[p]))
  /\ UNCHANGED <<mgmKey, pivman, object, status, known>>

\* The object is written as it was read at the start, with the salt dropped.
Update(p) ==
  /\ pc[p] = "update"
  /\ Write(p, selected /\ authenticated,
           pivman' = [flag |-> job[p].protect, salt |-> FALSE],
           UNCHANGED pivman, "report")
  /\ UNCHANGED <<mgmKey, stored, object, status, known>>

\* Mutant: the new key is not shown when the card has given up a stored one.
ReportOmitted(p) ==
  /\ pc[p] = "report"
  /\ known' = IF job[p].random /\ ~job[p].protect /\ ~job[p].read.flag
              THEN known \cup {job[p].new} ELSE known
  /\ End(p, "done")
  /\ UNCHANGED <<memory, status, faults>>

\* A generated key that is not stored is shown to the user.
Report(p) ==
  /\ pc[p] = "report"
  /\ known' = IF job[p].random /\ ~job[p].protect THEN known \cup {job[p].new} ELSE known
  /\ End(p, "done")
  /\ UNCHANGED <<memory, status, faults>>

-----------------------------------------------------------------------------
(* setObject: the object is written and read back.                         *)

PutObject(p) ==
  /\ pc[p] = "put"
  /\ Write(p, selected /\ authenticated,
           object' = job[p].value, UNCHANGED object, "readback")
  /\ UNCHANGED <<mgmKey, stored, pivman, status, known>>

\* Mutant: the object is read back but not compared.
ReadBackUncompared(p) ==
  /\ pc[p] = "readback"
  /\ End(p, IF selected THEN "done" ELSE "failed")
  /\ UNCHANGED <<memory, status, known, faults>>

ReadBack(p) ==
  /\ pc[p] = "readback"
  /\ End(p, IF selected /\ object = job[p].value THEN "done" ELSE "failed")
  /\ UNCHANGED <<memory, status, known, faults>>

-----------------------------------------------------------------------------
\* A process is killed, or a command to the card fails.  The card may have
\* carried the command out: that is the interruption of the step after it.
Interrupt(p) ==
  /\ pc[p] # "idle"
  /\ SpendFault
  /\ \E outcome \in {"failed", "killed"} : End(p, outcome)
  /\ UNCHANGED <<memory, status, known>>

\* Another program selects an application, which may be the PIV application.
OtherProgram ==
  /\ Foreign
  /\ selected' \in BOOLEAN
  /\ authenticated' = FALSE
  /\ pinVerified' = FALSE
  /\ witness' = Nobody
  /\ UNCHANGED <<memory, pc, job, known, result, faults>>

Command(p) ==
  \/ Start(p) \/ Open(p) \/ ReadData(p) \/ ReadAlgorithm(p)
  \/ EnterPin(p) \/ Cancel(p) \/ ReadStored(p) \/ AskKey(p) \/ Witness(p) \/ Respond(p)
  \/ NewKey(p) \/ SetKey(p) \/ Store(p) \/ Update(p) \/ Report(p)
  \/ PutObject(p) \/ ReadBack(p) \/ Interrupt(p)

Next == (\E p \in Procs : Command(p)) \/ OtherProgram

Spec == Init /\ [][Next]_vars

-----------------------------------------------------------------------------
\* The types of the variables.
TypeOK ==
  /\ mgmKey \in Keys
  /\ stored \in AesKeys \cup {NoKey}
  /\ pivman \in PivmanData
  /\ object \in Values \cup {NoValue}
  /\ selected \in BOOLEAN
  /\ authenticated \in BOOLEAN
  /\ pinVerified \in BOOLEAN
  /\ witness \in Procs \cup {Nobody}
  /\ pc \in [Procs -> Steps \cup Dialogs \cup {"idle"}]
  /\ job \in [Procs -> Jobs]
  /\ known \in SUBSET Keys
  /\ result \in [Procs -> Results]
  /\ faults \in 0..MaxFaults

\* The program can find the key of the card: in 5FC109 when its flag says so,
\* and from a user otherwise.
Manageable == IF pivman.flag THEN stored = mgmKey ELSE mgmKey \in known

\* The steps of a command that has replaced the key and is not through yet.
Window == {"store", "update", "report"}
InWindow == \E p \in Procs : pc[p] \in Window

\* As long as nothing was interrupted, and no other program or process uses
\* the card, the key can be found whenever no command is between its first and
\* its last write: --protect, --random and their order never lose the key.
Custody == faults = MaxFaults /\ ~InWindow => Manageable

\* Once the new key is set, nothing that the command has verified before can
\* be missing, so that the card refuses none of the writes that are left; the
\* PIN is asked for before the first of them.
StoreCannotBeRefused ==
  \A p \in Procs :
    /\ pc[p] = "store" => pinVerified
    /\ pc[p] \in {"store", "update"} => selected /\ authenticated

\* The process that has replaced the key and is not through yet keeps the key
\* the card had before as its current key: until it is through, the command
\* has not taken place.
Replacing == CHOOSE p \in Procs : pc[p] \in Window

KeptBy(keyIsFlagged, found) ==
  CASE ~found -> "nobody"
    [] found /\ keyIsFlagged -> "card"
    [] OTHER -> "user"

KeptKey == IF InWindow THEN job[Replacing].cur ELSE mgmKey
Keeper == IF InWindow THEN KeptBy(job[Replacing].read.flag, TRUE)
                      ELSE KeptBy(pivman.flag, Manageable)

Abstract == INSTANCE KeyCustody WITH key <- KeptKey, keeper <- Keeper

\* With one process and no other program on the card, --set-management-key
\* replaces the key and the place it is kept in as one step, and only an
\* interruption leaves a card that the program cannot manage any more.
ImplementsKeyCustody == Abstract!Spec
=============================================================================
