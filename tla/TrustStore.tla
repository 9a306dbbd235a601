----------------------------- MODULE TrustStore -----------------------------
(***************************************************************************)
(* The trust store trust.bin: --update-trust ("update"), which reads every *)
(* source and replaces the store, and a verification ("verify"), which     *)
(* reads the store, creates it when there is none, and uses the            *)
(* certificates of the operating system when it cannot have it.            *)
(*                                                                         *)
(* Several processes run at the same time and share nothing but the file.  *)
(* The sources change and fail while they are read, a process can be       *)
(* killed, the user can edit or remove the store, and a power failure can  *)
(* undo or damage what was not written to the disk: the program never      *)
(* syncs the file that it renames into place.                              *)
(*                                                                         *)
(* The contents of a store are abstracted to the version of each source    *)
(* that is in it.  A temporary file or a store whose bytes are incomplete  *)
(* or changed is Damaged, which its header and checksum tell.              *)
(***************************************************************************)
EXTENDS Naturals

CONSTANTS
  Procs,        \* the processes, each running one command at a time
  NumSources,   \* the number of sources, read in the order 1..NumSources
  Required,     \* the sources without which there is no store
  Urls,         \* the sources that are downloaded, the others are files
  Attempts,     \* trustDownloadAttempts
  Versions,     \* what a source can hold
  Absent,       \* a source that was left out
  NoStore,      \* no such file
  Damaged,      \* a file that is not a complete trust store
  System,       \* the certificates of the operating system
  None,         \* no trust anchors yet
  MaxFaults,    \* bound: kills, file errors and disasters in a behaviour
  Disasters     \* the store can be edited, removed and lost

Sources == 1..NumSources
Contents == [Sources -> Versions \cup {Absent}]
Files == Contents \cup {NoStore, Damaged}

ASSUME SourcesAssumption ==
  /\ NumSources \in Nat
  /\ Required \subseteq Sources
  /\ Urls \subseteq Sources
  /\ Absent \notin Versions
ASSUME FilesAssumption ==
  /\ NoStore \notin Contents \cup {Damaged}
  /\ Damaged \notin Contents
  /\ System \notin Files
  /\ None \notin Files \cup {System}
ASSUME BoundsAssumption ==
  /\ Attempts \in Nat \ {0}
  /\ MaxFaults \in Nat
  /\ Disasters \in BOOLEAN

VARIABLES
  published,    \* what each source holds
  store,        \* the file trust.bin
  durable,      \* the file trust.bin as it is on the disk
  temp,         \* the temporary file of each process
  pc,           \* what each process does next
  cmd,          \* the command it runs
  next,         \* the source it reads next
  tried,        \* the downloads of that source that failed
  got,          \* what it has read
  used,         \* the trust anchors a verification uses
  result,       \* how the last command ended
  faults        \* the kills, errors and disasters still to come

work == <<next, tried, got>>
vars == <<published, store, durable, temp, pc, cmd, work, used, result, faults>>

Commands == {"update", "verify"}
Nothing == [s \in Sources |-> Absent]

\* The stores that an update may install.
Complete == {c \in Contents : \A s \in Required : c[s] # Absent}

Init ==
  /\ published \in [Sources -> Versions]
  /\ store = NoStore
  /\ durable = NoStore
  /\ temp = [p \in Procs |-> NoStore]
  /\ pc = [p \in Procs |-> "idle"]
  /\ cmd = [p \in Procs |-> "none"]
  /\ next = [p \in Procs |-> 1]
  /\ tried = [p \in Procs |-> 0]
  /\ got = [p \in Procs |-> Nothing]
  /\ used = [p \in Procs |-> None]
  /\ result = [p \in Procs |-> "none"]
  /\ faults = MaxFaults

-----------------------------------------------------------------------------
Goto(p, step) ==
  /\ pc' = [pc EXCEPT ![p] = step]
  /\ UNCHANGED <<cmd, used, result>>

\* The command is through with its files and sources, whose data go with it.
Finish(p, outcome) ==
  /\ pc' = [pc EXCEPT ![p] = "idle"]
  /\ cmd' = [cmd EXCEPT ![p] = "none"]
  /\ result' = [result EXCEPT ![p] = outcome]
  /\ temp' = [temp EXCEPT ![p] = NoStore]
  /\ next' = [next EXCEPT ![p] = 1]
  /\ tried' = [tried EXCEPT ![p] = 0]
  /\ got' = [got EXCEPT ![p] = Nothing]

\* A verification has its trust anchors.
Trust(p, anchors) ==
  /\ used' = [used EXCEPT ![p] = anchors]
  /\ Finish(p, "done")

\* An error ends an update.  A verification drops it and falls back to the
\* certificates of the system.
Fail(p) ==
  \/ /\ cmd[p] = "verify"
     /\ Trust(p, System)
  \/ /\ cmd[p] = "update"
     /\ Finish(p, "failed")
     /\ UNCHANGED used

SpendFault ==
  /\ faults > 0
  /\ faults' = faults - 1

Start(p, c) ==
  /\ pc[p] = "idle"
  /\ pc' = [pc EXCEPT ![p] = IF c = "verify" THEN "read" ELSE "fetch"]
  /\ cmd' = [cmd EXCEPT ![p] = c]
  /\ used' = [used EXCEPT ![p] = None]
  /\ result' = [result EXCEPT ![p] = "none"]
  /\ UNCHANGED <<published, store, durable, temp, work, faults>>

\* Mutant: a store that does not decode is read as far as it goes.
ReadDamaged(p) ==
  /\ pc[p] \in {"read", "reread"}
  /\ \/ store \in Contents /\ Trust(p, store)
     \/ store = Damaged /\ Trust(p, Nothing)
     \/ /\ store = NoStore /\ pc[p] = "read"
        /\ Goto(p, "fetch")
        /\ UNCHANGED <<temp, work>>
     \/ store = NoStore /\ pc[p] = "reread" /\ Fail(p)
  /\ UNCHANGED <<published, store, durable, faults>>

\* readTrust: the store is read and decoded, or created first when there is
\* none, and read again when it was created.
Read(p) ==
  /\ pc[p] \in {"read", "reread"}
  /\ \/ store \in Contents /\ Trust(p, store) /\ UNCHANGED faults
     \/ store = Damaged /\ Fail(p) /\ UNCHANGED faults
     \/ /\ store = NoStore /\ pc[p] = "read"
        /\ Goto(p, "fetch")
        /\ UNCHANGED <<temp, work, faults>>
     \/ store = NoStore /\ pc[p] = "reread" /\ Fail(p) /\ UNCHANGED faults
     \/ SpendFault /\ Fail(p)
  /\ UNCHANGED <<published, store, durable>>

-----------------------------------------------------------------------------
(* downloadTrust: one source after the other.                              *)

NextSource(p) ==
  /\ next' = [next EXCEPT ![p] = @ + 1]
  /\ tried' = [tried EXCEPT ![p] = 0]

Obtain(p) ==
  /\ got' = [got EXCEPT ![p][next[p]] = published[next[p]]]
  /\ NextSource(p)
  /\ Goto(p, "fetch")
  /\ UNCHANGED temp

\* Mutant: after the last attempt the attempts begin again.
RetryWithoutEnd(p) ==
  /\ next[p] \in Urls
  /\ tried' = [tried EXCEPT ![p] = (@ + 1) % Attempts]
  /\ Goto(p, "fetch")
  /\ UNCHANGED <<next, got, temp>>

\* A download that failed is tried again.
Retry(p) ==
  /\ next[p] \in Urls
  /\ tried[p] + 1 < Attempts
  /\ tried' = [tried EXCEPT ![p] = @ + 1]
  /\ Goto(p, "fetch")
  /\ UNCHANGED <<next, got, temp>>

\* Mutant: a source that cannot be read is left out whatever it is.
SkipAny(p) ==
  /\ NextSource(p)
  /\ Goto(p, "fetch")
  /\ UNCHANGED <<got, temp>>

\* The last attempt failed, or what was read does not parse.
Skip(p) ==
  /\ next[p] \notin Required
  /\ NextSource(p)
  /\ Goto(p, "fetch")
  /\ UNCHANGED <<got, temp>>

Abandon(p) ==
  /\ next[p] \in Required
  /\ Fail(p)

Fetch(p) ==
  /\ pc[p] = "fetch"
  /\ next[p] \in Sources
  /\ Obtain(p) \/ Retry(p) \/ Skip(p) \/ Abandon(p)
  /\ UNCHANGED <<published, store, durable, faults>>

-----------------------------------------------------------------------------
(* writeTrust: a temporary file that is renamed into place.                *)

\* Mutant: the store is opened and truncated, and written in place.
CreateInPlace(p) ==
  /\ pc[p] = "fetch"
  /\ next[p] \notin Sources
  /\ temp' = [temp EXCEPT ![p] = Damaged]
  /\ store' = Damaged
  /\ Goto(p, "write")
  /\ UNCHANGED <<published, durable, work, faults>>

\* os.CreateTemp: no other process has a file of this name.
CreateTemp(p) ==
  /\ pc[p] = "fetch"
  /\ next[p] \notin Sources
  /\ \/ /\ temp' = [temp EXCEPT ![p] = Damaged]
        /\ Goto(p, "write")
        /\ UNCHANGED <<work, faults>>
     \/ SpendFault /\ Fail(p)
  /\ UNCHANGED <<published, store, durable>>

\* Mutant: a write that fails is not noticed.
WriteUnchecked(p) ==
  /\ pc[p] = "write"
  /\ \/ temp' = [temp EXCEPT ![p] = got[p]] /\ UNCHANGED faults
     \/ SpendFault /\ UNCHANGED temp
  /\ Goto(p, "rename")
  /\ UNCHANGED <<published, store, durable, work>>

\* The file is written, closed and made private; an error removes it.
Write(p) ==
  /\ pc[p] = "write"
  /\ \/ /\ temp' = [temp EXCEPT ![p] = got[p]]
        /\ Goto(p, "rename")
        /\ UNCHANGED <<work, faults>>
     \/ SpendFault /\ Fail(p)
  /\ UNCHANGED <<published, store, durable>>

Rename(p) ==
  /\ pc[p] = "rename"
  /\ \/ /\ store' = temp[p]
        /\ \/ /\ cmd[p] = "update"
              /\ Finish(p, "done")
              /\ UNCHANGED used
           \/ /\ cmd[p] = "verify"
              /\ temp' = [temp EXCEPT ![p] = NoStore]
              /\ Goto(p, "reread")
              /\ UNCHANGED work
        /\ UNCHANGED faults
     \/ SpendFault /\ Fail(p) /\ UNCHANGED store
  /\ UNCHANGED <<published, durable>>

-----------------------------------------------------------------------------
(* The sources, the disk and the user.                                     *)

Publish ==
  /\ \E s \in Sources, v \in Versions : published' = [published EXCEPT ![s] = v]
  /\ UNCHANGED <<store, durable, temp, pc, cmd, work, used, result, faults>>

Sync ==
  /\ Disasters
  /\ durable' = store
  /\ UNCHANGED <<published, store, temp, pc, cmd, work, used, result, faults>>

\* A killed process leaves its temporary file behind, which nobody reads.
Kill(p) ==
  /\ pc[p] # "idle"
  /\ SpendFault
  /\ Finish(p, "killed")
  /\ UNCHANGED <<published, store, durable, used>>

\* A rename that did not reach the disk is undone, or leaves a file whose
\* data did not reach it.
PowerFailure ==
  /\ Disasters
  /\ SpendFault
  /\ store' \in {store, durable} \cup IF store = durable THEN {} ELSE {Damaged}
  /\ durable' = store'
  /\ pc' = [p \in Procs |-> "idle"]
  /\ cmd' = [p \in Procs |-> "none"]
  /\ temp' = [p \in Procs |-> NoStore]
  /\ next' = [p \in Procs |-> 1]
  /\ tried' = [p \in Procs |-> 0]
  /\ got' = [p \in Procs |-> Nothing]
  /\ result' = [p \in Procs |-> IF pc[p] = "idle" THEN result[p] ELSE "killed"]
  /\ UNCHANGED <<published, used>>

\* The user, or a failing disk, changes the store or removes it.
Damage ==
  /\ Disasters
  /\ SpendFault
  /\ store' \in {Damaged, NoStore}
  /\ durable' = store'
  /\ UNCHANGED <<published, temp, pc, cmd, work, used, result>>

Program(p) == Read(p) \/ Fetch(p) \/ CreateTemp(p) \/ Write(p) \/ Rename(p)

Environment == Publish \/ Sync \/ PowerFailure \/ Damage

Next ==
  \/ \E p \in Procs : Program(p) \/ Kill(p) \/ (\E c \in Commands : Start(p, c))
  \/ Environment

Spec == Init /\ [][Next]_vars

\* No command waits for its user, and every download has a time limit.
FairSpec == Spec /\ \A p \in Procs : WF_vars(Program(p))

-----------------------------------------------------------------------------
\* The types of the variables.
TypeOK ==
  /\ published \in [Sources -> Versions]
  /\ store \in Files
  /\ durable \in Files
  /\ temp \in [Procs -> Files]
  /\ pc \in [Procs -> {"idle", "read", "reread", "fetch", "write", "rename"}]
  /\ cmd \in [Procs -> Commands \cup {"none"}]
  /\ next \in [Procs -> 1..(NumSources + 1)]
  /\ tried \in [Procs -> 0..(Attempts - 1)]
  /\ got \in [Procs -> Contents]
  /\ used \in [Procs -> Contents \cup {System, None}]
  /\ result \in [Procs -> {"none", "done", "failed", "killed"}]
  /\ faults \in 0..MaxFaults

\* A store that decodes holds every required source: an update that could not
\* read one does not replace the store with an incomplete one, and a power
\* failure cannot make one either.
StoreIsComplete == store \in Contents => store \in Complete

\* Nobody but the user and the disk damages the store: killed processes, failed
\* writes and updates that race each other leave a complete store or none.
NeverPartial == ~Disasters => store # Damaged

\* A verification falls back to the certificates of the system only when a
\* required source cannot be read, or after an error, a kill or a disaster, but
\* never because other processes replace the store under its hands.
Fallback ==
  \A p \in Procs : used'[p] = System /\ used[p] # System =>
    \/ faults' < MaxFaults
    \/ pc[p] = "fetch" /\ next[p] \in Required

NoNeedlessFallback == [][Fallback]_vars

\* Every command ends, however often its sources fail.
CommandsEnd == \A p \in Procs : pc[p] # "idle" ~> pc[p] = "idle"

\* A verification sees the store of one update as a whole.
Abstract == INSTANCE AtomicTrust
ImplementsAtomicTrust == Abstract!Spec
=============================================================================
