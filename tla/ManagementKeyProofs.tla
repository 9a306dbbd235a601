------------------------- MODULE ManagementKeyProofs -------------------------
(* Proofs about ManagementKey and WatchedObject, for any keys and any       *)
(* number of interruptions.  The custody of the key is proved of a process *)
(* that has the card to itself; with another process or program it does    *)
(* not hold.                                                               *)
EXTENDS WatchedObject, TLAPS

USE ValuesAssumption, CommandsAssumption, EnvironmentAssumption

-----------------------------------------------------------------------------
(* Type correctness.                                                       *)

\* The Boolean variables are kept apart from the others, which the solvers
\* handle best that way.
StatusTypes ==
  /\ selected \in BOOLEAN
  /\ authenticated \in BOOLEAN
  /\ pinVerified \in BOOLEAN

Types ==
  /\ mgmKey \in Keys
  /\ stored \in AesKeys \cup {NoKey}
  /\ pivman \in PivmanData
  /\ object \in Values \cup {NoValue}
  /\ witness \in Procs \cup {Nobody}
  /\ pc \in [Procs -> Steps \cup Dialogs \cup {"idle"}]
  /\ job \in [Procs -> Jobs]
  /\ known \in SUBSET Keys
  /\ result \in [Procs -> Results]
  /\ faults \in 0..MaxFaults

\* A step that writes a key or an object has one, for the command that does so,
\* and the result of a command is there only when the command has ended.
Entered(p) ==
  /\ pc[p] \in {"newpin", "set", "store", "update", "report"} => job[p].new \in AesKeys
  /\ pc[p] \in {"new", "newpin", "set", "store", "update", "report"} => job[p].cmd = "set-key"
  /\ job[p].cmd = "set-object" => job[p].value \in Values
  /\ pc[p] \notin {"idle", "new", "newpin", "set", "store", "update", "report"}
       => job[p].cmd \in {"set-key", "set-object"}
  /\ pc[p] \in {"put", "readback"} => job[p].cmd = "set-object"
  /\ pc[p] # "idle" => result[p] = "none"

TInv == Types /\ \A p \in Procs : Entered(p)

\* The command of a process that starts is one.
LEMMA JobTypes ==
  /\ NoJob \in Jobs
  /\ "set-key" \in Commands => \A protect, random \in BOOLEAN :
       Job("set-key", protect, random, NoValue) \in Jobs
  /\ "set-object" \in Commands => \A v \in Values :
       Job("set-object", FALSE, FALSE, v) \in Jobs
  BY DEF NoJob, Job, Jobs, Algorithms, PivmanData

\* The command that ends leaves nothing of it behind.
LEMMA EndTInv ==
  ASSUME TInv, NEW p \in Procs, NEW o \in Results, End(p, o),
         mgmKey' \in Keys, stored' \in AesKeys \cup {NoKey}, pivman' \in PivmanData,
         object' \in Values \cup {NoValue}, witness' \in Procs \cup {Nobody},
         known' \in SUBSET Keys, faults' \in 0..MaxFaults
  PROVE  TInv'
<1> NoJob \in Jobs /\ NoJob.cmd = "none"
  BY JobTypes DEF NoJob, Job
<1> QED
  BY DEF TInv, Types, Entered, End, Steps, Dialogs, Results

\* What becomes of an answer to the witness.
LEMMA RespondOutcome ==
  ASSUME NEW p \in Procs, Respond(p)
  PROVE  /\ pc[p] \in {"tried", "proved"} /\ witness' = Nobody
         /\ UNCHANGED <<memory, selected, pinVerified, known, faults>>
         /\ \/ /\ selected /\ witness = p /\ job[p].cur = mgmKey /\ authenticated' = TRUE
               /\ \/ pc[p] = "tried" /\ Proceed(p, "prove")
                  \/ pc[p] = "proved" /\ job[p].cmd = "set-key" /\ Proceed(p, "new")
                  \/ pc[p] = "proved" /\ job[p].cmd # "set-key" /\ Proceed(p, "put")
            \/ /\ ~(selected /\ witness = p /\ job[p].cur = mgmKey)
               /\ authenticated' \in {FALSE, authenticated}
               /\ \/ pc[p] = "tried" /\ Proceed(p, "askkey")
                  \/ pc[p] = "proved" /\ End(p, "failed")
<1>1. pc[p] \in {"tried", "proved"}
  BY DEF Respond
<1>2. CASE pc[p] = "tried"
  BY <1>2, Zenon DEF Respond
<1>3. CASE pc[p] = "proved"
  BY <1>3, Zenon DEF Respond
<1> QED
  BY <1>1, <1>2, <1>3

\* The types hold of a factory card.
LEMMA InitTInv == Init => TInv
<1> SUFFICES ASSUME Init PROVE TInv
  OBVIOUS
<1>1. /\ mgmKey \in Keys
      /\ known \in SUBSET Keys
      /\ stored = NoKey
      /\ object = NoValue
      /\ witness = Nobody
      /\ faults = MaxFaults
      /\ pivman \in PivmanData
  BY DEF Init, Keys
<1>2. /\ pc \in [Procs -> Steps \cup Dialogs \cup {"idle"}]
      /\ result \in [Procs -> Results]
  BY DEF Init, Results
<1>3. job \in [Procs -> Jobs]
  BY JobTypes DEF Init
<1>4. NoJob.cmd = "none"
  BY DEF NoJob, Job
<1>5. \A p \in Procs : Entered(p)
  BY <1>4 DEF Init, Entered
<1> QED
  BY <1>1, <1>2, <1>3, <1>5 DEF TInv, Types

\* Every step keeps them.
LEMMA NextTInv == TInv /\ [Next]_vars => TInv'
<1> SUFFICES ASSUME TInv, [Next]_vars PROVE TInv'
  OBVIOUS
<1> USE DEF TInv, Types
<1>1. CASE UNCHANGED vars
  BY <1>1 DEF vars, memory, status, Entered
<1>2. ASSUME NEW p \in Procs, Start(p) PROVE TInv'
  <2>1. PICK j \in Jobs : /\ job' = [job EXCEPT ![p] = j]
                          /\ j.cmd \in {"set-key", "set-object"}
                          /\ j.cmd = "set-object" => j.value \in Values
    BY <1>2, JobTypes DEF Start, UnusedValues, Job
  <2> QED
    BY <1>2, <2>1 DEF Start, memory, status, Entered, Steps, Results
<1>3. ASSUME NEW p \in Procs, Open(p) PROVE TInv'
  BY <1>3 DEF Open, Proceed, Goto, memory, Entered, Steps
<1>4. ASSUME NEW p \in Procs, ReadData(p) PROVE TInv'
  <2>1. [job EXCEPT ![p].read = pivman] \in [Procs -> Jobs]
    BY DEF Jobs
  <2>2. CASE /\ job' = [job EXCEPT ![p].read = pivman]
             /\ Goto(p, "alg")
    BY <1>4, <2>1, <2>2 DEF ReadData, Goto, memory, status, Entered, Steps
  <2>3. CASE Proceed(p, "alg") \/ End(p, "failed")
    BY <1>4, <2>3, EndTInv DEF ReadData, Proceed, Goto, memory, status, Entered, Steps, Results
  <2> QED
    BY <1>4, <2>2, <2>3 DEF ReadData
<1>5. ASSUME NEW p \in Procs, ReadAlgorithm(p) PROVE TInv'
  <2>1. (IF selected THEN Algorithm(mgmKey) ELSE "tdes") \in Algorithms
    BY DEF Algorithm, Algorithms
  <2>2. job' \in [Procs -> Jobs]
    BY <1>5, <2>1 DEF ReadAlgorithm, Jobs
  <2> QED
    BY <1>5, <2>2 DEF ReadAlgorithm, Goto, memory, status, Entered, Steps, Dialogs
<1>6. ASSUME NEW p \in Procs, EnterPin(p) PROVE TInv'
  BY <1>6, EndTInv DEF EnterPin, Proceed, Goto, memory, Entered, Steps, Results
<1>7. ASSUME NEW p \in Procs, Cancel(p) PROVE TInv'
  BY <1>7, EndTInv DEF Cancel, memory, status, Results
<1>8. ASSUME NEW p \in Procs, ReadStored(p) PROVE TInv'
  <2>1. CASE End(p, "failed")
    BY <1>8, <2>1, EndTInv DEF ReadStored, memory, status, Results
  <2>2. CASE stored # NoKey /\ job' = [job EXCEPT ![p].cur = stored] /\ Goto(p, "prove")
    <3>1. job' \in [Procs -> Jobs]
      BY <2>2 DEF Jobs, Keys
    <3> QED
      BY <1>8, <2>2, <3>1 DEF ReadStored, Goto, memory, status, Entered, Steps
  <2> QED
    BY <1>8, <2>1, <2>2 DEF ReadStored
<1>9. ASSUME NEW p \in Procs, AskKey(p) PROVE TInv'
  BY <1>9 DEF AskKey, Goto, memory, status, Entered, Steps, Jobs
<1>10. ASSUME NEW p \in Procs, Witness(p) PROVE TInv'
  BY <1>10, EndTInv DEF Witness, Proceed, Goto, memory, Entered, Steps, Results
<1>11. ASSUME NEW p \in Procs, Respond(p) PROVE TInv'
  <2>1. /\ witness' = Nobody /\ UNCHANGED <<memory, selected, pinVerified, known, faults>>
        /\ authenticated' \in {TRUE, FALSE, authenticated} /\ pc[p] # "idle"
    BY <1>11, RespondOutcome, Zenon
  <2>2. CASE End(p, "failed")
    BY <2>1, <2>2, EndTInv DEF memory, Results
  <2>3. ASSUME NEW next \in {"prove", "askkey", "new", "put"}, Proceed(p, next),
               next \in {"prove", "askkey"} => pc[p] \in {"tried", "proved"},
               next = "new" => job[p].cmd = "set-key",
               next = "put" => pc[p] = "proved" /\ job[p].cmd # "set-key"
        PROVE  TInv'
    <3>1. Types'
      BY <2>1, <2>3 DEF Proceed, Goto, memory, Steps, Dialogs
    <3>2. /\ job' = job /\ result' = result /\ pc'[p] = next
          /\ \A q \in Procs \ {p} : pc'[q] = pc[q]
      BY <2>3 DEF Proceed, Goto
    <3>3. job[p].cmd \in {"set-key", "set-object"}
      BY <1>11, RespondOutcome DEF Entered
    <3>4. Entered(p)'
      BY <2>1, <2>3, <3>2, <3>3 DEF Entered
    <3>5. \A q \in Procs \ {p} : Entered(q)'
      BY <3>2 DEF Entered
    <3> QED
      BY <3>1, <3>4, <3>5
  <2> QED
    BY <1>11, <2>2, <2>3, RespondOutcome
<1>12. ASSUME NEW p \in Procs, NewKey(p) PROVE TInv'
  <2>1. PICK k \in AesKeys : /\ job' = [job EXCEPT ![p].new = k]
                             /\ known' = known \/ known' = known \cup {k}
    BY <1>12 DEF NewKey, Unused
  <2>2. job' \in [Procs -> Jobs] /\ known' \in SUBSET Keys
    BY <2>1 DEF Jobs, Keys
  <2>3. /\ job'[p].new = k /\ job'[p].cmd = job[p].cmd /\ job'[p].value = job[p].value
        /\ pc[p] = "new" /\ pc'[p] \in {"set", "newpin"}
        /\ \A q \in Procs \ {p} : job'[q] = job[q] /\ pc'[q] = pc[q]
        /\ result' = result /\ job[p] \in Jobs
    BY <1>12, <2>1 DEF NewKey, Goto, Jobs
  <2>4. \A q \in Procs : Entered(q)'
    BY <2>1, <2>3 DEF Entered
  <2> QED
    BY <1>12, <2>2, <2>4 DEF NewKey, Goto, memory, status, Steps, Dialogs
<1>13. ASSUME NEW p \in Procs, SetKey(p) PROVE TInv'
  BY <1>13, EndTInv DEF SetKey, Write, Proceed, Goto, SpendFault, AfterSet, AfterStore, Entered,
                        Steps, Results, Keys
<1>14. ASSUME NEW p \in Procs, Store(p) PROVE TInv'
  BY <1>14, EndTInv DEF Store, Write, Proceed, Goto, SpendFault, AfterStore, status, Entered,
                        Steps, Results
<1>15. ASSUME NEW p \in Procs, Update(p) PROVE TInv'
  <2>1. [flag |-> job[p].protect, salt |-> FALSE] \in PivmanData
    BY DEF Jobs, PivmanData
  <2>2. pivman' \in PivmanData /\ faults' \in 0..MaxFaults
    <3>1. pivman' = [flag |-> job[p].protect, salt |-> FALSE] \/ pivman' = pivman
      BY <1>15, Zenon DEF Update, Write
    <3>2. faults' = faults \/ SpendFault
      BY <1>15, Zenon DEF Update, Write
    <3>3. faults' \in 0..MaxFaults
      BY <3>2 DEF SpendFault
    <3>4. pivman' \in PivmanData
      BY <2>1, <3>1, Zenon
    <3> QED
      BY <3>3, <3>4
  <2>3. CASE End(p, "failed")
    BY <1>15, <2>2, <2>3, EndTInv DEF Update, status, Results
  <2>4. CASE Proceed(p, "report")
    BY <1>15, <2>2, <2>4 DEF Update, Proceed, Goto, status, Entered, Steps
  <2> QED
    BY <1>15, <2>3, <2>4 DEF Update, Write
<1>16. ASSUME NEW p \in Procs, Report(p) PROVE TInv'
  BY <1>16, EndTInv DEF Report, memory, status, Entered, Results, Keys
<1>17. ASSUME NEW p \in Procs, PutObject(p) PROVE TInv'
  BY <1>17, EndTInv DEF PutObject, Write, Proceed, Goto, SpendFault, status, Entered, Steps, Results
<1>18. ASSUME NEW p \in Procs, ReadBack(p) PROVE TInv'
  BY <1>18, EndTInv DEF ReadBack, memory, status, Results
<1>19. ASSUME NEW p \in Procs, Interrupt(p) PROVE TInv'
  BY <1>19, EndTInv DEF Interrupt, SpendFault, memory, status, Results
<1>20. CASE OtherProgram
  BY <1>20 DEF OtherProgram, memory, Entered
<1> QED
  BY <1>1, <1>2, <1>3, <1>4, <1>5, <1>6, <1>7, <1>8, <1>9, <1>10, <1>11, <1>12, <1>13, <1>14,
     <1>15, <1>16, <1>17, <1>18, <1>19, <1>20 DEF Next, Command

\* The Boolean variables stay Boolean.
LEMMA NextStatusTypes == StatusTypes /\ [Next]_vars => StatusTypes'
<1> SUFFICES ASSUME StatusTypes, [Next]_vars PROVE StatusTypes'
  OBVIOUS
<1> USE DEF StatusTypes, status
<1>1. CASE UNCHANGED vars
  BY <1>1 DEF vars
<1>2. CASE OtherProgram
  BY <1>2 DEF OtherProgram
<1>3. ASSUME NEW p \in Procs, Command(p) PROVE StatusTypes'
  <2>1. CASE Open(p)
    BY <2>1 DEF Open
  <2>2. CASE EnterPin(p)
    BY <2>2 DEF EnterPin
  <2>3. CASE Respond(p)
    BY <2>3 DEF Respond
  <2>4. CASE Witness(p) \/ SetKey(p)
    BY <2>4 DEF Witness, SetKey
  <2>5. CASE UNCHANGED status
    BY <2>5
  <2> QED
    BY <1>3, <2>1, <2>2, <2>3, <2>4, <2>5
       DEF Command, Start, ReadData, ReadAlgorithm, Cancel, ReadStored, AskKey, NewKey, Store,
           Update, Report, PutObject, ReadBack, Interrupt
<1> QED
  BY <1>1, <1>2, <1>3 DEF Next

\* The variables keep their types.
THEOREM TypeCorrect == Spec => []TypeOK
<1>1. Init => StatusTypes
  BY DEF Init, StatusTypes
<1>2. TInv /\ StatusTypes => TypeOK
  BY DEF TInv, Types, StatusTypes, TypeOK
<1> QED
  BY InitTInv, NextTInv, NextStatusTypes, <1>1, <1>2, PTL DEF Spec

-----------------------------------------------------------------------------
(* What was confirmed stays on the card until another command writes.      *)

\* A command that neither writes the object nor reads it back, and does not end
\* with success, changes nothing about what the object is.
LEMMA ElsewhereStays ==
  ASSUME ConfirmedStays, NEW p \in Procs, Watch(p), UNCHANGED object,
         pc[p] # "readback", pc[p] # "idle", Ends(p) => result'[p] # "done",
         \A q \in Procs \ {p} : pc'[q] = pc[q] /\ job'[q] = job[q]
  PROVE  ConfirmedStays'
<1>1. confirmed' = confirmed /\ unconfirmed \subseteq unconfirmed'
  BY DEF Watch
<1>2. CASE object = confirmed \/ object \in unconfirmed
  BY <1>1, <1>2 DEF ConfirmedStays
<1>3. ASSUME NEW q \in Procs, pc[q] = "readback", object = job[q].value PROVE ConfirmedStays'
  BY <1>3 DEF ConfirmedStays
<1> QED
  BY <1>2, <1>3 DEF ConfirmedStays

\* The steps of a command that do not touch the object.
LEMMA ElsewhereUntouched ==
  ASSUME TInv, NEW p \in Procs,
         \/ Open(p) \/ ReadData(p) \/ ReadAlgorithm(p) \/ EnterPin(p) \/ Cancel(p)
         \/ ReadStored(p) \/ AskKey(p) \/ Witness(p) \/ Respond(p) \/ NewKey(p)
         \/ SetKey(p) \/ Store(p) \/ Update(p) \/ Report(p)
  PROVE  /\ UNCHANGED object
         /\ pc[p] # "readback" /\ pc[p] # "idle"
         /\ Ends(p) => result'[p] # "done"
         /\ \A q \in Procs \ {p} : pc'[q] = pc[q] /\ job'[q] = job[q]
<1> USE DEF TInv, Types, Entered, End, Proceed, Goto, memory, Ends
<1>1. CASE Open(p) \/ ReadData(p) \/ ReadAlgorithm(p) \/ AskKey(p) \/ NewKey(p)
  BY <1>1 DEF Open, ReadData, ReadAlgorithm, AskKey, NewKey
<1>2. CASE EnterPin(p) \/ Cancel(p) \/ ReadStored(p) \/ Witness(p)
  BY <1>2 DEF EnterPin, Cancel, ReadStored, Witness, Dialogs
<1>3. CASE Respond(p)
  <2>1. pc[p] \in {"tried", "proved"} /\ UNCHANGED memory
    BY <1>3, RespondOutcome, Zenon
  <2>2. End(p, "failed") \/ \E next \in {"prove", "askkey", "new", "put"} : Proceed(p, next)
    BY <1>3, RespondOutcome, Zenon
  <2> QED
    BY <2>1, <2>2
<1>4. CASE SetKey(p) \/ Store(p) \/ Update(p)
  BY <1>4 DEF SetKey, Store, Update, Write
<1>5. CASE Report(p)
  BY <1>5 DEF Report
<1> QED
  BY <1>1, <1>2, <1>3, <1>4, <1>5

\* A command starts with a value that the object does not have.
LEMMA StartedStays ==
  ASSUME TInv, ConfirmedStays, unconfirmed \subseteq Values,
         NEW p \in Procs, Start(p), Watch(p)
  PROVE  ConfirmedStays'
<1> USE DEF TInv, Types
<1>1. /\ pc[p] = "idle" /\ object' = object
      /\ \A q \in Procs \ {p} : pc'[q] = pc[q] /\ job'[q] = job[q]
  BY DEF Start, memory
<1>2. confirmed' = confirmed /\ unconfirmed' = unconfirmed \ {job'[p].value}
  BY <1>1 DEF Watch, Ends
<1>3. job'[p].value # object \/ job'[p].value = NoValue
  BY DEF Start, Job, UnusedValues
<1>4. CASE object = confirmed \/ object \in unconfirmed
  BY <1>1, <1>2, <1>3, <1>4 DEF ConfirmedStays
<1>5. ASSUME NEW q \in Procs, pc[q] = "readback", object = job[q].value PROVE ConfirmedStays'
  BY <1>1, <1>5 DEF ConfirmedStays
<1> QED
  BY <1>4, <1>5 DEF ConfirmedStays

\* The object is written by a command that reads it back, or not at all.
LEMMA PutStays ==
  ASSUME TInv, ConfirmedStays, NEW p \in Procs, PutObject(p), Watch(p)
  PROVE  ConfirmedStays'
<1> USE DEF TInv, Types, Entered
<1>1. CASE object' = job[p].value /\ Proceed(p, "readback")
  BY <1>1 DEF Proceed, Goto, ConfirmedStays
<1>2. CASE object' = object
  <2>1. /\ pc[p] = "put"
        /\ Ends(p) => result'[p] # "done"
        /\ \A q \in Procs \ {p} : pc'[q] = pc[q] /\ job'[q] = job[q]
    BY <1>2 DEF PutObject, Write, Proceed, Goto, End, Ends
  <2> QED
    BY <1>2, <2>1, ElsewhereStays
<1> QED
  BY <1>1, <1>2 DEF PutObject, Write

\* A command that reads its value back confirms it, and leaves it unconfirmed
\* otherwise.
LEMMA ReadBackStays ==
  ASSUME TInv, ConfirmedStays, NEW p \in Procs, ReadBack(p) \/ Interrupt(p), Watch(p)
  PROVE  ConfirmedStays'
<1> USE DEF TInv, Types, Entered, memory
<1>1. /\ object' = object /\ pc[p] # "idle"
      /\ \A q \in Procs \ {p} : pc'[q] = pc[q] /\ job'[q] = job[q]
      /\ Ends(p) /\ result'[p] = "done" => object = job[p].value
      /\ pc[p] = "readback" => Ends(p)
  <2>1. UNCHANGED object /\ pc[p] # "idle"
    BY DEF ReadBack, Interrupt
  <2>2. CASE ReadBack(p)
    BY <2>1, <2>2 DEF ReadBack, End, Ends
  <2>3. CASE Interrupt(p)
    BY <2>1, <2>3 DEF Interrupt, End, Ends
  <2> QED
    BY <2>2, <2>3
<1>2. CASE Ends(p) /\ result'[p] = "done"
  BY <1>1, <1>2 DEF Watch, ConfirmedStays
<1>3. CASE pc[p] = "readback" /\ result'[p] # "done"
  <2>1. unconfirmed' = unconfirmed \cup {job[p].value} /\ confirmed' = confirmed
    BY <1>1, <1>3 DEF Watch
  <2>2. CASE object \in {confirmed, job[p].value} \cup unconfirmed
    BY <1>1, <2>1, <2>2 DEF ConfirmedStays
  <2>3. ASSUME NEW q \in Procs \ {p}, pc[q] = "readback", object = job[q].value
        PROVE  ConfirmedStays'
    BY <1>1, <2>3 DEF ConfirmedStays
  <2> QED
    BY <2>2, <2>3 DEF ConfirmedStays
<1>4. CASE pc[p] # "readback" /\ ~(Ends(p) /\ result'[p] = "done")
  BY <1>1, <1>4, ElsewhereStays
<1> QED
  BY <1>1, <1>2, <1>3, <1>4

\* Every step keeps it, and the values that were not confirmed are values.
LEMMA NextConfirmed ==
  ASSUME TInv, ConfirmedStays, unconfirmed \subseteq Values, [WatchedNext]_watched
  PROVE  ConfirmedStays' /\ unconfirmed' \subseteq Values
<1>1. CASE UNCHANGED watched
  BY <1>1 DEF watched, vars, memory, ConfirmedStays
<1>2. CASE OtherProgram /\ UNCHANGED <<confirmed, unconfirmed>>
  BY <1>2 DEF OtherProgram, memory, ConfirmedStays
<1>3. ASSUME NEW p \in Procs, Command(p), Watch(p)
      PROVE  ConfirmedStays' /\ unconfirmed' \subseteq Values
  <2>1. unconfirmed' \subseteq Values
    BY <1>3 DEF Watch, Ends, TInv, Entered
  <2>2. ConfirmedStays'
    BY <1>3, ElsewhereUntouched, ElsewhereStays, StartedStays, PutStays, ReadBackStays
    DEF Command
  <2> QED
    BY <2>1, <2>2
<1>4. WatchedNext => \/ \E p \in Procs : Command(p) /\ Watch(p)
                     \/ OtherProgram /\ UNCHANGED <<confirmed, unconfirmed>>
  BY Zenon DEF WatchedNext, Command
<1> QED
  BY <1>1, <1>2, <1>3, <1>4

\* A CHUID or CCC that --set-chuid or --set-ccc has reported as stored stays on the
\* card until another command writes, for any number of processes, other programs,
\* interruptions and ignored writes (setObject in access.go).
THEOREM ConfirmedStaysCorrect == WatchedSpec => []ConfirmedStays
<1>1. WatchedInit => TInv /\ ConfirmedStays /\ unconfirmed \subseteq Values
  BY InitTInv DEF WatchedInit, Init, ConfirmedStays
<1>2. [WatchedNext]_watched => [Next]_vars
  BY DEF WatchedNext, Next, Command, watched
<1>3. TInv /\ [WatchedNext]_watched => TInv'
  BY <1>2, NextTInv
<1>4. TInv /\ ConfirmedStays /\ unconfirmed \subseteq Values /\ [WatchedNext]_watched
        => ConfirmedStays' /\ (unconfirmed \subseteq Values)'
  BY NextConfirmed
<1> QED
  BY <1>1, <1>3, <1>4, PTL DEF WatchedSpec

-----------------------------------------------------------------------------
(* Custody of the key, for one process that has the card to itself.        *)

\* What the card remembers of the command, and the command of the card.
Undisturbed(p) ==
  /\ pc[p] \notin {"idle", "open"} => selected
  /\ pc[p] \in {"new", "newpin", "set", "store", "update"} => authenticated
  /\ pc[p] = "protected" => pinVerified
  /\ pc[p] \in {"prove", "proved", "new", "newpin", "set", "store"} /\ job[p].read.flag => pinVerified
  /\ pc[p] \in {"set", "store"} /\ job[p].protect => pinVerified
  /\ pc[p] \in {"askkey", "try", "tried"} => ~job[p].read.flag
  /\ pc[p] = "store" => job[p].protect \/ job[p].read.flag

\* Where the key is while nothing was interrupted.
Kept(p) ==
  /\ pc[p] \notin Window => Manageable
  /\ pc[p] \notin {"idle", "open", "data", "report"} => job[p].read.flag = pivman.flag
  /\ pc[p] \in Window => mgmKey = job[p].new
  /\ pc[p] \in {"newpin", "set"} \cup Window /\ ~job[p].random => job[p].new \in known
  /\ pc[p] = "update" /\ job[p].protect => stored = job[p].new
  /\ pc[p] = "report" => /\ pivman.flag = job[p].protect
                         /\ job[p].protect => stored = job[p].new

AInv == \A p \in Procs : Undisturbed(p)

CInv == AInv /\ (faults = MaxFaults => \A p \in Procs : Kept(p))

\* No step of the only process takes away what it has verified.
LEMMA NextAInv ==
  ASSUME NEW me, Procs = {me}, Foreign = FALSE, TInv, AInv, [Next]_vars
  PROVE  AInv'
<1> USE DEF TInv, Types, AInv, Proceed, Goto
<1>1. CASE UNCHANGED vars
  BY <1>1 DEF vars, status, Undisturbed
<1>2. CASE Start(me)
  BY <1>2 DEF Start, status, Undisturbed
<1>3. CASE Open(me)
  BY <1>3 DEF Open, Undisturbed
<1>4. CASE ReadData(me)
  BY <1>4 DEF ReadData, status, Undisturbed, End
<1>5. CASE ReadAlgorithm(me)
  BY <1>5 DEF ReadAlgorithm, status, Undisturbed
<1>6. CASE EnterPin(me)
  BY <1>6 DEF EnterPin, Undisturbed, End
<1>7. CASE Cancel(me) \/ Interrupt(me) \/ Report(me) \/ ReadBack(me)
  BY <1>7 DEF Cancel, Interrupt, Report, ReadBack, status, Undisturbed, End
<1>8. CASE ReadStored(me)
  BY <1>8 DEF ReadStored, status, Undisturbed, End
<1>9. CASE AskKey(me)
  BY <1>9 DEF AskKey, status, Undisturbed
<1>10. CASE Witness(me)
  BY <1>10 DEF Witness, Undisturbed, End
<1>11. CASE Respond(me)
  <2>1. CASE authenticated' = TRUE /\ (Proceed(me, "prove") \/ Proceed(me, "new") \/ Proceed(me, "put"))
    BY <1>11, <2>1, RespondOutcome DEF Undisturbed
  <2>2. CASE Proceed(me, "askkey") /\ pc[me] = "tried"
    BY <1>11, <2>2, RespondOutcome DEF Undisturbed
  <2>3. CASE End(me, "failed")
    BY <1>11, <2>3, RespondOutcome DEF Undisturbed, End
  <2> QED
    BY <1>11, <2>1, <2>2, <2>3, RespondOutcome
<1>12. CASE NewKey(me)
  BY <1>12 DEF NewKey, status, Undisturbed
<1>13. CASE SetKey(me)
  BY <1>13 DEF SetKey, Write, AfterSet, AfterStore, Undisturbed, End
<1>14. CASE Store(me)
  BY <1>14 DEF Store, Write, AfterStore, status, Undisturbed, End
<1>15. CASE Update(me) \/ PutObject(me)
  BY <1>15 DEF Update, PutObject, Write, status, Undisturbed, End
<1> QED
  BY <1>1, <1>2, <1>3, <1>4, <1>5, <1>6, <1>7, <1>8, <1>9, <1>10, <1>11, <1>12, <1>13, <1>14,
     <1>15 DEF Next, Command, OtherProgram

\* Nor does it leave the key where the program cannot find it.
LEMMA NextKept ==
  ASSUME NEW me, Procs = {me}, Foreign = FALSE, Ignores = FALSE, TInv, CInv, [Next]_vars,
         faults' = MaxFaults
  PROVE  Kept(me)'
<1> USE DEF TInv, Types, AInv, CInv, Proceed, Goto
<1>1. faults = MaxFaults /\ UNCHANGED faults /\ ~Interrupt(me) /\ Kept(me) /\ Undisturbed(me)
  <2>1. UNCHANGED faults \/ SpendFault
    <3>1. CASE UNCHANGED vars
      BY <3>1 DEF vars
    <3>2. CASE SetKey(me) \/ Store(me) \/ Update(me) \/ PutObject(me)
      BY <3>2 DEF SetKey, Store, Update, PutObject, Write
    <3>3. CASE Interrupt(me)
      BY <3>3 DEF Interrupt
    <3>4. CASE ~(SetKey(me) \/ Store(me) \/ Update(me) \/ PutObject(me) \/ Interrupt(me)) /\ Next
      BY <3>4 DEF Next, Command, OtherProgram, Start, Open, ReadData, ReadAlgorithm, EnterPin,
                  Cancel, ReadStored, AskKey, Witness, Respond, NewKey, Report, ReadBack
    <3> QED
      BY <3>1, <3>2, <3>3, <3>4
  <2>2. faults = MaxFaults /\ UNCHANGED faults
    BY <2>1 DEF SpendFault
  <2>3. ~Interrupt(me)
    BY <2>2 DEF Interrupt, SpendFault
  <2> QED
    BY <2>2, <2>3
<1> HIDE DEF AInv, CInv
<1>2. CASE UNCHANGED vars
  BY <1>1, <1>2 DEF vars, memory, Kept, Manageable
<1>3. CASE Start(me)
  BY <1>1, <1>3 DEF Start, memory, Kept, Manageable, Window
<1>4. CASE Open(me)
  BY <1>1, <1>4 DEF Open, memory, Kept, Manageable, Window
<1>5. CASE ReadData(me)
  <2>1. selected /\ job' = [job EXCEPT ![me].read = pivman] /\ pc' = [pc EXCEPT ![me] = "alg"]
    BY <1>1, <1>5 DEF ReadData, Undisturbed
  <2>2. job'[me].read = pivman
    BY <2>1
  <2> QED
    BY <1>1, <1>5, <2>1, <2>2 DEF ReadData, memory, Kept, Manageable, Window
<1>6. CASE ReadAlgorithm(me)
  BY <1>1, <1>6 DEF ReadAlgorithm, memory, Kept, Manageable, Window
<1>7. CASE EnterPin(me)
  BY <1>1, <1>7 DEF EnterPin, memory, Kept, Manageable, Window, End
<1>8. CASE Cancel(me) \/ ReadBack(me)
  BY <1>1, <1>8 DEF Cancel, ReadBack, memory, Kept, Manageable, Window, End, Dialogs
<1>9. CASE ReadStored(me)
  <2>1. CASE End(me, "failed")
    BY <1>1, <1>9, <2>1 DEF ReadStored, memory, Kept, Manageable, Window, End
  <2>2. CASE job' = [job EXCEPT ![me].cur = stored] /\ Goto(me, "prove")
    BY <1>1, <1>9, <2>2 DEF ReadStored, memory, Kept, Manageable, Window
  <2> QED
    BY <1>9, <2>1, <2>2 DEF ReadStored
<1>10. CASE AskKey(me)
  BY <1>1, <1>10 DEF AskKey, memory, Kept, Manageable, Window
<1>11. CASE Witness(me)
  BY <1>1, <1>11 DEF Witness, memory, Kept, Manageable, Window, End
<1>12. CASE Respond(me)
  <2>1. CASE End(me, "failed")
    BY <1>1, <1>12, <2>1, RespondOutcome DEF memory, Kept, Manageable, Window, End
  <2>2. CASE Proceed(me, "prove") \/ Proceed(me, "askkey")
    BY <1>1, <1>12, <2>2, RespondOutcome DEF memory, Kept, Manageable, Window
  <2>3. CASE Proceed(me, "new") \/ Proceed(me, "put")
    BY <1>1, <1>12, <2>3, RespondOutcome DEF memory, Kept, Manageable, Window
  <2> QED
    BY <1>12, <2>1, <2>2, <2>3, RespondOutcome
<1>13. CASE NewKey(me)
  BY <1>1, <1>13 DEF NewKey, memory, Kept, Manageable, Window
<1>14. CASE SetKey(me)
  BY <1>1, <1>14 DEF SetKey, Write, AfterSet, AfterStore, Kept, Manageable, Window, Undisturbed
<1>15. CASE Store(me)
  BY <1>1, <1>15 DEF Store, Write, AfterStore, Kept, Manageable, Window, Undisturbed
<1>16. CASE Update(me)
  BY <1>1, <1>16 DEF Update, Write, Kept, Manageable, Window, Undisturbed
<1>17. CASE PutObject(me)
  BY <1>1, <1>17 DEF PutObject, Write, Kept, Manageable, Window, End
<1>18. CASE Report(me)
  BY <1>1, <1>18 DEF Report, memory, Kept, Manageable, Window, End
<1> QED
  BY <1>1, <1>2, <1>3, <1>4, <1>5, <1>6, <1>7, <1>8, <1>9, <1>10, <1>11, <1>12, <1>13, <1>14,
     <1>15, <1>16, <1>17, <1>18 DEF Next, Command, OtherProgram

\* A factory card is managed with the factory key, by no command so far.
LEMMA InitCInv == Init => CInv
<1> SUFFICES ASSUME Init PROVE CInv
  OBVIOUS
<1>1. Manageable
  BY DEF Init, Manageable
<1> QED
  BY <1>1 DEF Init, CInv, AInv, Undisturbed, Kept, Window

\* Both parts of the invariant together.
LEMMA NextCInv ==
  ASSUME NEW me, Procs = {me}, Foreign = FALSE, Ignores = FALSE, TInv, CInv, [Next]_vars
  PROVE  CInv'
<1>1. AInv'
  BY NextAInv DEF CInv
<1>2. faults' = MaxFaults => Kept(me)'
  BY NextKept
<1> QED
  BY <1>1, <1>2 DEF CInv

\* One process that has the card to itself does not lose the management key,
\* whatever keys there are and whichever commands it runs.
THEOREM CustodyKept ==
  ASSUME NEW me, Procs = {me}, Foreign = FALSE, Ignores = FALSE
  PROVE  Spec => []Custody
<1>1. TInv /\ CInv /\ [Next]_vars => CInv'
  BY NextCInv
<1>2. CInv => Custody
  BY DEF CInv, Custody, InWindow, Kept
<1> QED
  BY InitTInv, NextTInv, InitCInv, <1>1, <1>2, PTL DEF Spec

\* However often it is interrupted, the card never refuses the writes that come
\* after the new key is set.
THEOREM StoreNotRefused ==
  ASSUME NEW me, Procs = {me}, Foreign = FALSE
  PROVE  Spec => []StoreCannotBeRefused
<1>1. TInv /\ AInv /\ [Next]_vars => AInv'
  BY NextAInv
<1>2. Init => AInv
  BY DEF Init, AInv, Undisturbed
<1>3. TInv /\ AInv => StoreCannotBeRefused
  BY DEF TInv, Types, Entered, Jobs, AInv, Undisturbed, StoreCannotBeRefused
<1> QED
  BY InitTInv, NextTInv, <1>1, <1>2, <1>3, PTL DEF Spec

-----------------------------------------------------------------------------
(* The key and its keeper are replaced as one.                             *)

\* The key that the process found is the one that the program finds, and once it
\* has set a new key the rest follows from what it knows.
Found(p) ==
  /\ pc[p] \in {"pin", "protected"} => job[p].read.flag
  /\ pc[p] \notin {"idle", "open", "data", "report"} => job[p].read.flag = pivman.flag
  /\ pc[p] \in {"try", "tried", "prove", "proved", "new", "newpin", "set"} =>
       IF job[p].read.flag THEN job[p].cur = stored ELSE job[p].cur \in known
  /\ pc[p] \in {"new", "newpin", "set"} => job[p].cur = mgmKey
  /\ pc[p] \in Window => mgmKey = job[p].new /\ job[p].cur \in Keys
  /\ pc[p] \in {"newpin", "set"} \cup Window /\ ~job[p].random => job[p].new \in known
  /\ pc[p] = "update" /\ job[p].protect => stored = job[p].new
  /\ pc[p] = "report" => /\ pivman.flag = job[p].protect
                         /\ job[p].protect => stored = job[p].new

\* It is found after every step, interrupted or not.
LEMMA NextFound ==
  ASSUME NEW me, Procs = {me}, Foreign = FALSE, Ignores = FALSE, TInv, AInv, Found(me), [Next]_vars
  PROVE  Found(me)'
<1> USE DEF TInv, Types, Proceed, Goto, Window
<1>1. Undisturbed(me)
  BY DEF AInv
<1>2. CASE UNCHANGED vars
  BY <1>2 DEF vars, memory, Found
<1>3. CASE Start(me)
  BY <1>3 DEF Start, memory, Found
<1>4. CASE Open(me)
  BY <1>4 DEF Open, memory, Found
<1>5. CASE ReadData(me)
  <2>1. selected /\ job' = [job EXCEPT ![me].read = pivman] /\ pc' = [pc EXCEPT ![me] = "alg"]
    BY <1>1, <1>5 DEF ReadData, Undisturbed
  <2>2. job'[me].read = pivman
    BY <2>1
  <2> QED
    BY <1>5, <2>1, <2>2 DEF ReadData, memory, Found
<1>6. CASE ReadAlgorithm(me)
  BY <1>6 DEF ReadAlgorithm, memory, Found
<1>7. CASE EnterPin(me)
  BY <1>7 DEF EnterPin, memory, Found, End
<1>8. CASE Cancel(me) \/ ReadBack(me) \/ Interrupt(me) \/ Report(me)
  BY <1>8 DEF Cancel, ReadBack, Interrupt, Report, memory, Found, End, Dialogs
<1>9. CASE ReadStored(me)
  <2>1. CASE End(me, "failed")
    BY <1>9, <2>1 DEF ReadStored, memory, Found, End
  <2>2. CASE job' = [job EXCEPT ![me].cur = stored] /\ Goto(me, "prove")
    BY <1>9, <2>2 DEF ReadStored, memory, Found
  <2> QED
    BY <1>9, <2>1, <2>2 DEF ReadStored
<1>10. CASE AskKey(me)
  BY <1>1, <1>10 DEF AskKey, memory, Found, Undisturbed
<1>11. CASE Witness(me)
  BY <1>11 DEF Witness, memory, Found, End
<1>12. CASE Respond(me)
  <2>1. CASE End(me, "failed")
    BY <1>12, <2>1, RespondOutcome DEF memory, Found, Window, End
  <2>2. CASE Proceed(me, "prove") \/ Proceed(me, "askkey")
    BY <1>12, <2>2, RespondOutcome DEF memory, Found, Window
  <2>3. CASE Proceed(me, "new")
    <3>1. /\ pc[me] = "proved" /\ pc'[me] = "new" /\ job' = job /\ job[me].cur = mgmKey
          /\ UNCHANGED <<memory, known>>
      BY <1>12, <2>3, RespondOutcome DEF End
    <3> QED
      BY <3>1 DEF memory, Found, Window
  <2>4. CASE Proceed(me, "put")
    BY <1>12, <2>4, RespondOutcome DEF memory, Found, Window
  <2> QED
    BY <1>12, <2>1, <2>2, <2>3, <2>4, RespondOutcome
<1>13. CASE NewKey(me)
  BY <1>13 DEF NewKey, memory, Found
<1>14. CASE SetKey(me)
  BY <1>1, <1>14 DEF SetKey, Write, AfterSet, AfterStore, Found, Undisturbed, End, Keys
<1>15. CASE Store(me)
  BY <1>1, <1>15 DEF Store, Write, AfterStore, Found, Undisturbed
<1>16. CASE Update(me)
  BY <1>1, <1>16 DEF Update, Write, Found, Undisturbed
<1>17. CASE PutObject(me)
  BY <1>17 DEF PutObject, Write, Found, End
<1> QED
  BY <1>2, <1>3, <1>4, <1>5, <1>6, <1>7, <1>8, <1>9, <1>10, <1>11, <1>12, <1>13,
     <1>14, <1>15, <1>16, <1>17 DEF Next, Command, OtherProgram

\* What the abstract specification sees outside of the writes, and among them.
LEMMA Outside ==
  ASSUME NEW me, Procs = {me}
  PROVE  /\ pc[me] \notin Window => KeptKey = mgmKey /\ Keeper = KeptBy(pivman.flag, Manageable)
         /\ pc'[me] \notin Window =>
              KeptKey' = mgmKey' /\ Keeper' = KeptBy(pivman'.flag, Manageable')
BY DEF InWindow, KeptKey, Keeper

LEMMA Inside ==
  ASSUME NEW me, Procs = {me}
  PROVE  /\ pc[me] \in Window =>
              KeptKey = job[me].cur /\ Keeper = KeptBy(job[me].read.flag, TRUE)
         /\ pc'[me] \in Window =>
              KeptKey' = job'[me].cur /\ Keeper' = KeptBy(job'[me].read.flag, TRUE)
<1>1. pc[me] \in Window => Replacing = me /\ InWindow
  BY DEF Replacing, InWindow
<1>2. pc'[me] \in Window => Replacing' = me /\ InWindow'
  BY DEF Replacing, InWindow
<1> QED
  BY <1>1, <1>2 DEF KeptKey, Keeper

\* Whoever the key is kept by, an interruption is one.
LEMMA Interrupted ==
  ASSUME NEW me, Procs = {me}, TInv, AInv, Found(me), Interrupt(me)
  PROVE  Abstract!Interruption
<1>1. /\ pc' = [pc EXCEPT ![me] = "idle"] /\ faults > 0 /\ faults' = faults - 1
      /\ UNCHANGED <<mgmKey, stored, pivman, known>>
  BY DEF Interrupt, End, SpendFault, memory
<1>2. pc'[me] = "idle" /\ mgmKey \in Keys
  BY <1>1 DEF TInv, Types
<1>3. Manageable' = Manageable
  BY <1>1 DEF Manageable
<1>4. KeptKey' = mgmKey /\ Keeper' = KeptBy(pivman.flag, Manageable)
  BY <1>1, <1>2, <1>3, Outside DEF Window
<1>5. CASE pc[me] \in Window
  <2>1. Keeper # "nobody"
    BY <1>5, Inside DEF KeptBy
  <2>2. Keeper' \in {"nobody", "user", "card"}
    BY <1>4 DEF KeptBy
  <2> QED
    BY <1>1, <1>2, <1>4, <2>1, <2>2 DEF Abstract!Interruption, Abstract!Rekey
<1>6. CASE pc[me] \notin Window
  BY <1>1, <1>4, <1>6, Outside DEF Abstract!Interruption
<1> QED
  BY <1>5, <1>6

\* Every step of the command is one of the abstract specification, or none.
LEMMA KeptStep ==
  ASSUME NEW me, Procs = {me}, Foreign = FALSE, Ignores = FALSE, TInv, AInv, Found(me), [Next]_vars
  PROVE  Abstract!Next \/ UNCHANGED Abstract!vars
<1> USE DEF TInv, Types
<1>1. Undisturbed(me)
  BY DEF AInv
<1>2. CASE Interrupt(me)
  BY <1>2, Interrupted DEF Abstract!Next
<1>3. CASE SetKey(me)
  <2>1. /\ selected /\ authenticated /\ pc[me] = "set"
        /\ pc' = [pc EXCEPT ![me] = AfterSet(job[me])]
        /\ UNCHANGED <<job, pivman, faults>>
    BY <1>1, <1>3 DEF SetKey, Write, Proceed, Goto, Undisturbed
  <2>2. pc'[me] \in Window
    BY <2>1 DEF AfterSet, AfterStore, Window
  <2>3. Manageable /\ job[me].read.flag = pivman.flag /\ job[me].cur = mgmKey
    BY <2>1 DEF Found, Manageable
  <2>4. KeptKey' = KeptKey /\ Keeper' = Keeper
    <3>1. KeptBy(pivman.flag, Manageable) = KeptBy(pivman.flag, TRUE)
      BY <2>3 DEF KeptBy
    <3>2. KeptKey = mgmKey /\ Keeper = KeptBy(pivman.flag, TRUE)
      BY <2>1, <3>1, Outside DEF Window
    <3>3. KeptKey' = job[me].cur /\ Keeper' = KeptBy(job[me].read.flag, TRUE)
      BY <2>1, <2>2, Inside
    <3> QED
      BY <2>3, <3>2, <3>3
  <2> QED
    BY <2>1, <2>4 DEF Abstract!vars
<1>4. CASE Store(me) \/ Update(me)
  <2>1. /\ selected /\ authenticated /\ (pc[me] = "store" => pinVerified)
    BY <1>1, <1>4 DEF Store, Update, Undisturbed, Found
  <2>2. /\ pc[me] \in Window /\ UNCHANGED <<job, faults>>
        /\ pc' = [pc EXCEPT ![me] = "report"] \/ pc' = [pc EXCEPT ![me] = AfterStore(job[me])]
    BY <1>4, <2>1 DEF Store, Update, Write, Proceed, Goto, Window
  <2>3. pc'[me] \in Window
    BY <2>2 DEF AfterStore, Window
  <2>4. KeptKey' = KeptKey /\ Keeper' = Keeper
    BY <2>2, <2>3, Inside
  <2> QED
    BY <2>2, <2>4 DEF Abstract!vars
<1>5. CASE Report(me)
  <2>1. /\ pc[me] \in Window /\ pc'[me] = "idle" /\ UNCHANGED <<mgmKey, stored, pivman, faults>>
        /\ pc[me] = "report"
        /\ known' = IF job[me].random /\ ~job[me].protect THEN known \cup {job[me].new} ELSE known
    BY <1>5 DEF Report, End, memory, Window
  <2>2. Manageable'
    BY <2>1 DEF Found, Manageable, Window
  <2>3. KeptKey' = mgmKey /\ Keeper' = KeptBy(pivman.flag, TRUE)
    BY <2>1, <2>2, Outside DEF Window
  <2>4. Keeper # "nobody" /\ Keeper' \in {"user", "card"}
    BY <2>1, <2>3, Inside DEF KeptBy
  <2> QED
    BY <2>1, <2>3, <2>4 DEF Abstract!Next, Abstract!Rekey
<1>6. CASE /\ pc[me] \notin Window /\ pc'[me] \notin Window
           /\ UNCHANGED <<mgmKey, stored, pivman, faults>>
           /\ mgmKey \in known' <=> mgmKey \in known
  <2>1. Manageable' = Manageable
    BY <1>6 DEF Manageable
  <2>2. KeptKey' = KeptKey /\ Keeper' = Keeper
    BY <1>6, <2>1, Outside
  <2> QED
    BY <1>6, <2>2 DEF Abstract!vars
<1>7. CASE NewKey(me)
  <2>1. pc[me] = "new" /\ pc'[me] \in {"newpin", "set"} /\ UNCHANGED <<memory, faults>>
    BY <1>7 DEF NewKey, Goto
  <2>2. \E k \in Unused \cup (known \cap AesKeys) : known' = known \/ known' = known \cup {k}
    BY <1>7 DEF NewKey
  <2>3. mgmKey \in known' <=> mgmKey \in known
    BY <2>2 DEF Unused
  <2> QED
    BY <1>6, <2>1, <2>3 DEF Window, memory
<1>8. CASE PutObject(me)
  BY <1>6, <1>8 DEF PutObject, Write, Proceed, Goto, End, Window
<1>9. CASE Start(me) \/ Open(me) \/ ReadData(me) \/ ReadAlgorithm(me)
  BY <1>6, <1>9 DEF Start, Open, ReadData, ReadAlgorithm, Proceed, Goto, End, Window, memory
<1>10. CASE EnterPin(me) \/ Cancel(me) \/ ReadStored(me) \/ AskKey(me)
  BY <1>6, <1>10 DEF EnterPin, Cancel, ReadStored, AskKey, Proceed, Goto, End, Window, Dialogs,
         memory
<1>11. CASE Witness(me) \/ Respond(me) \/ ReadBack(me)
  BY <1>6, <1>11 DEF Witness, Respond, ReadBack, Proceed, Goto, End, Window, memory
<1>12. CASE UNCHANGED vars
  <2>1. KeptKey' = KeptKey /\ Keeper' = Keeper /\ faults' = faults
    BY <1>12 DEF KeptKey, Keeper, InWindow, Replacing, Manageable, vars, memory
  <2> QED
    BY <2>1 DEF Abstract!vars
<1> QED
  BY <1>2, <1>3, <1>4, <1>5, <1>7, <1>8, <1>9, <1>10, <1>11, <1>12 DEF Next, Command, OtherProgram

\* With one process that has the card to itself, --set-management-key replaces the
\* key and the place it is kept in as one step, whatever keys there are and however
\* often it is interrupted (setManagementKey in management_key.go).
THEOREM KeyCustodyImplemented ==
  ASSUME NEW me, Procs = {me}, Foreign = FALSE, Ignores = FALSE
  PROVE  Spec => ImplementsKeyCustody
<1>1. Init => Abstract!Init
  <2>1. SUFFICES ASSUME Init
                 PROVE  Abstract!Init
    OBVIOUS
  <2>2. pc[me] = "idle" /\ mgmKey = DefaultKey /\ ~ pivman.flag /\ Manageable /\ faults = MaxFaults
    BY <2>1 DEF Init, Manageable
  <2>3. KeptKey = DefaultKey /\ Keeper = "user"
    BY <2>2, Outside DEF KeptBy, Window
  <2> QED
    BY <2>2, <2>3 DEF Abstract!Init
<1>2. Init => AInv /\ Found(me)
  BY DEF Init, AInv, Undisturbed, Found, Window
<1>3. TInv /\ AInv /\ [Next]_vars => AInv'
  BY NextAInv
<1>4. TInv /\ AInv /\ Found(me) /\ [Next]_vars => Found(me)'
  BY NextFound
<1>5. TInv /\ AInv /\ Found(me) /\ [Next]_vars => [Abstract!Next]_(Abstract!vars)
  BY KeptStep
<1> QED
  BY InitTInv, NextTInv, <1>1, <1>2, <1>3, <1>4, <1>5, PTL DEF Spec, ImplementsKeyCustody,
         Abstract!Spec
=============================================================================
