-------------------------- MODULE TrustStoreProofs --------------------------
(***************************************************************************)
(* What module TrustStore promises, for every number of processes, every   *)
(* list of sources and every number of faults.                             *)
(***************************************************************************)
EXTENDS TrustStore, TLAPS

Steps == {"idle", "read", "reread", "fetch", "write", "rename"}

\* What a process holds of itself has its type.
ProcessTypes ==
  /\ temp \in [Procs -> Files]
  /\ pc \in [Procs -> Steps]
  /\ cmd \in [Procs -> Commands \cup {"none"}]
  /\ next \in [Procs -> 1..(NumSources + 1)]
  /\ tried \in [Procs -> 0..(Attempts - 1)]
  /\ got \in [Procs -> Contents]
  /\ result \in [Procs -> {"none", "done", "failed", "killed"}]

\* An empty store is a possible content.
LEMMA NothingIsContent == Nothing \in Contents
BY SourcesAssumption DEF Nothing, Contents

\* A command that ends leaves its process with well-typed data.
LEMMA FinishTypes ==
  ASSUME ProcessTypes, NEW p \in Procs, NEW o \in {"done", "failed", "killed"}, Finish(p, o)
  PROVE  ProcessTypes'
BY NothingIsContent, SourcesAssumption, BoundsAssumption DEF ProcessTypes, Finish, Files, Steps

\* So does one that fails.
LEMMA FailTypes ==
  ASSUME TypeOK, NEW p \in Procs, Fail(p)
  PROVE  ProcessTypes' /\ used' \in [Procs -> Contents \cup {System, None}]
<1>0. ProcessTypes /\ used \in [Procs -> Contents \cup {System, None}]
  BY DEF TypeOK, ProcessTypes, Steps
<1>1. CASE cmd[p] = "verify" /\ Trust(p, System)
  BY <1>0, <1>1, FinishTypes DEF Trust
<1>2. CASE cmd[p] = "update" /\ Finish(p, "failed") /\ UNCHANGED used
  BY <1>0, <1>2, FinishTypes
<1> QED
  BY <1>1, <1>2 DEF Fail

\* An error or a kill is counted.
LEMMA SpendTypes ==
  ASSUME faults \in 0..MaxFaults, SpendFault
  PROVE  faults' \in 0..MaxFaults /\ faults' < MaxFaults
BY BoundsAssumption DEF SpendFault

\* The types of the variables are those of the process and of the files.
LEMMA TypesSplit ==
  TypeOK <=> /\ ProcessTypes
             /\ published \in [Sources -> Versions]
             /\ store \in Files
             /\ durable \in Files
             /\ used \in [Procs -> Contents \cup {System, None}]
             /\ faults \in 0..MaxFaults
BY DEF TypeOK, ProcessTypes, Steps

LEMMA InitTypes == Init => TypeOK
BY NothingIsContent, SourcesAssumption, BoundsAssumption DEF Init, TypeOK, Files

-----------------------------------------------------------------------------
\* Every step of a command keeps the types.
LEMMA ReadTypes == ASSUME TypeOK, NEW p \in Procs, Read(p) PROVE TypeOK'
<1>0. ProcessTypes /\ used \in [Procs -> Contents \cup {System, None}]
  BY TypesSplit
<1>1. CASE store \in Contents /\ Trust(p, store) /\ UNCHANGED faults
  <2>1. ProcessTypes'
    BY <1>0, <1>1, FinishTypes DEF Trust
  <2>2. used' \in [Procs -> Contents \cup {System, None}]
    BY <1>0, <1>1 DEF Trust
  <2> QED
    BY <1>1, <2>1, <2>2 DEF Read, TypeOK, ProcessTypes, Steps
<1>2. CASE Fail(p) /\ (UNCHANGED faults \/ SpendFault)
  <2>1. ProcessTypes' /\ used' \in [Procs -> Contents \cup {System, None}]
    BY <1>2, FailTypes
  <2>2. faults' \in 0..MaxFaults
    BY <1>2, SpendTypes DEF TypeOK
  <2> QED
    BY <2>1, <2>2 DEF Read, TypeOK, ProcessTypes, Steps
<1>3. CASE Goto(p, "fetch") /\ UNCHANGED <<temp, work, faults>>
  BY <1>3 DEF Read, Goto, work, TypeOK
<1> QED
  BY <1>1, <1>2, <1>3 DEF Read

LEMMA FetchTypes == ASSUME TypeOK, NEW p \in Procs, Fetch(p) PROVE TypeOK'
<1>1. CASE Obtain(p)
  <2>1. got' \in [Procs -> Contents]
    BY <1>1 DEF Fetch, Obtain, TypeOK, Contents
  <2>2. next' \in [Procs -> 1..(NumSources + 1)] /\ tried' \in [Procs -> 0..(Attempts - 1)]
    BY <1>1, SourcesAssumption, BoundsAssumption
    DEF Fetch, Obtain, NextSource, TypeOK, Sources
  <2> QED
    BY <1>1, <2>1, <2>2 DEF Fetch, Obtain, Goto, TypeOK
<1>2. CASE Retry(p)
  BY <1>2, BoundsAssumption DEF Fetch, Retry, Goto, TypeOK
<1>3. CASE Skip(p)
  BY <1>3, SourcesAssumption, BoundsAssumption
  DEF Fetch, Skip, NextSource, Goto, TypeOK, Sources
<1>4. CASE Abandon(p)
  BY <1>4, FailTypes DEF Abandon, Fetch, TypeOK, ProcessTypes, Steps
<1> QED
  BY <1>1, <1>2, <1>3, <1>4 DEF Fetch

LEMMA CreateTempTypes == ASSUME TypeOK, NEW p \in Procs, CreateTemp(p) PROVE TypeOK'
<1>1. CASE SpendFault /\ Fail(p)
  BY <1>1, FailTypes, SpendTypes DEF CreateTemp, TypeOK, ProcessTypes, Steps
<1>2. CASE temp' = [temp EXCEPT ![p] = Damaged] /\ Goto(p, "write") /\ UNCHANGED <<work, faults>>
  BY <1>2 DEF CreateTemp, Goto, work, TypeOK, Files
<1> QED
  BY <1>1, <1>2 DEF CreateTemp

LEMMA WriteTypes == ASSUME TypeOK, NEW p \in Procs, Write(p) PROVE TypeOK'
<1>1. CASE SpendFault /\ Fail(p)
  BY <1>1, FailTypes, SpendTypes DEF Write, TypeOK, ProcessTypes, Steps
<1>2. CASE temp' = [temp EXCEPT ![p] = got[p]] /\ Goto(p, "rename") /\ UNCHANGED <<work, faults>>
  BY <1>2 DEF Write, Goto, work, TypeOK, Files
<1> QED
  BY <1>1, <1>2 DEF Write

LEMMA RenameTypes == ASSUME TypeOK, NEW p \in Procs, Rename(p) PROVE TypeOK'
<1>0. ProcessTypes
  BY TypesSplit
<1>1. CASE SpendFault /\ Fail(p) /\ UNCHANGED store
  BY <1>1, FailTypes, SpendTypes DEF Rename, TypeOK, ProcessTypes, Steps
<1>2. CASE store' = temp[p] /\ Finish(p, "done") /\ UNCHANGED <<used, faults>>
  <2>1. ProcessTypes'
    BY <1>0, <1>2, FinishTypes
  <2> QED
    BY <1>2, <2>1 DEF Rename, TypeOK, ProcessTypes, Steps
<1>3. CASE /\ store' = temp[p]
           /\ temp' = [temp EXCEPT ![p] = NoStore]
           /\ Goto(p, "reread")
           /\ UNCHANGED <<work, faults>>
  BY <1>3 DEF Rename, Goto, work, TypeOK, Files
<1> QED
  BY <1>1, <1>2, <1>3 DEF Rename

LEMMA KillTypes == ASSUME TypeOK, NEW p \in Procs, Kill(p) PROVE TypeOK'
<1>1. ProcessTypes /\ faults \in 0..MaxFaults
  BY TypesSplit
<1>2. ProcessTypes'
  BY <1>1, FinishTypes DEF Kill
<1> QED
  BY <1>1, <1>2, SpendTypes DEF Kill, TypeOK, ProcessTypes, Steps

LEMMA StartTypes ==
  ASSUME TypeOK, NEW p \in Procs, NEW c \in Commands, Start(p, c) PROVE TypeOK'
BY DEF Start, TypeOK, work

LEMMA EnvironmentTypes == ASSUME TypeOK, Environment PROVE TypeOK'
<1>1. CASE Publish
  BY <1>1 DEF Publish, TypeOK, work
<1>2. CASE Sync
  BY <1>2 DEF Sync, TypeOK, work
<1>3. CASE PowerFailure
  <2>1. store' \in Files /\ durable' \in Files
    BY <1>3 DEF PowerFailure, TypeOK, Files
  <2>2. ProcessTypes'
    BY <1>3, NothingIsContent, SourcesAssumption, BoundsAssumption
    DEF PowerFailure, TypeOK, ProcessTypes, Files, Steps
  <2> QED
    BY <1>3, <2>1, <2>2, SpendTypes DEF PowerFailure, TypeOK, ProcessTypes, Steps
<1>4. CASE Damage
  BY <1>4, SpendTypes DEF Damage, TypeOK, work, Files
<1> QED
  BY <1>1, <1>2, <1>3, <1>4 DEF Environment

\* The types are inductive by themselves.
LEMMA NextTypes == TypeOK /\ [Next]_vars => TypeOK'
<1> SUFFICES ASSUME TypeOK, [Next]_vars PROVE TypeOK'
  OBVIOUS
<1>1. ASSUME NEW p \in Procs, Program(p) PROVE TypeOK'
  BY <1>1, ReadTypes, FetchTypes, CreateTempTypes, WriteTypes, RenameTypes DEF Program
<1>2. CASE UNCHANGED vars
  BY <1>2 DEF vars, work, TypeOK
<1> QED
  BY <1>1, <1>2, KillTypes, StartTypes, EnvironmentTypes DEF Next

\* The variables have their types in every reachable state.
THEOREM TypeCorrect == Spec => []TypeOK
BY InitTypes, NextTypes, PTL DEF Spec

-----------------------------------------------------------------------------
(* What a process has read, and what the files can be.                     *)

\* Every required source that a process is past is in what it has read.
Gathered(p) == \A s \in Required : s < next[p] => got[p][s] # Absent

\* A process writes only when it is past all sources, and renames only what
\* it has written.
InOrder(p) ==
  /\ pc[p] = "write" => next[p] = NumSources + 1
  /\ pc[p] = "rename" => temp[p] \in Complete

\* The store, also as it is on the disk.
FilesOK ==
  /\ store \in Complete \cup {NoStore, Damaged}
  /\ durable \in Complete \cup {NoStore, Damaged}

\* A damaged store, and one that is gone after it was written, have a cause.
Causes ==
  /\ (store = Damaged \/ durable = Damaged) => Disasters /\ faults < MaxFaults
  /\ (store = NoStore /\ \E p \in Procs : pc[p] = "reread") => faults < MaxFaults

\* The inductive invariant.
IInv ==
  /\ TypeOK
  /\ \A p \in Procs : Gathered(p) /\ InOrder(p)
  /\ FilesOK
  /\ Causes

\* The processes that do not take a step keep what they have.
Others(p) ==
  \A q \in Procs \ {p} :
    /\ next'[q] = next[q]
    /\ got'[q] = got[q]
    /\ temp'[q] = temp[q]
    /\ pc'[q] = pc[q]

\* What is true of all processes stays true when it stays true of one.
LEMMA OneProcess ==
  ASSUME NEW p \in Procs, \A q \in Procs : Gathered(q) /\ InOrder(q),
         Others(p), Gathered(p)', InOrder(p)'
  PROVE  \A q \in Procs : (Gathered(q) /\ InOrder(q))'
BY DEF Others, Gathered, InOrder

\* A command that ends takes nothing with it that has to be true.
LEMMA FinishKeeps ==
  ASSUME TypeOK, NEW p \in Procs, NEW o, Finish(p, o)
  PROVE  /\ Others(p) /\ Gathered(p)' /\ InOrder(p)'
         /\ \A q \in Procs : pc'[q] = "reread" => pc[q] = "reread"
BY SourcesAssumption DEF TypeOK, Finish, Others, Gathered, InOrder, Sources

LEMMA FailKeeps ==
  ASSUME TypeOK, NEW p \in Procs, Fail(p)
  PROVE  /\ Others(p) /\ Gathered(p)' /\ InOrder(p)'
         /\ \A q \in Procs : pc'[q] = "reread" => pc[q] = "reread"
BY FinishKeeps DEF Fail, Trust

\* Files that stay as they are keep their causes, when faults are only spent.
LEMMA CausesKept ==
  ASSUME TypeOK, Causes, UNCHANGED <<store, durable>>,
         UNCHANGED faults \/ SpendFault,
         \A q \in Procs : pc'[q] = "reread" => pc[q] = "reread"
  PROVE  Causes'
BY SpendTypes DEF Causes, TypeOK

\* Complete stores are contents.
LEMMA CompleteIsContent == Complete \subseteq Contents
BY DEF Complete

LEMMA InitIInv == Init => IInv
<1> SUFFICES ASSUME Init PROVE IInv
  OBVIOUS
<1>1. ASSUME NEW p \in Procs PROVE Gathered(p) /\ InOrder(p)
  <2>1. next[p] = 1 /\ pc[p] = "idle"
    BY DEF Init
  <2> QED
    BY <2>1, SourcesAssumption DEF Gathered, InOrder, Sources
<1>2. FilesOK
  BY DEF Init, FilesOK
<1>3. Causes
  BY FilesAssumption DEF Init, Causes
<1> QED
  BY <1>1, <1>2, <1>3, InitTypes DEF IInv

LEMMA ReadIInv == ASSUME IInv, NEW p \in Procs, Read(p) PROVE IInv'
<1>0. TypeOK' /\ FilesOK'
  BY ReadTypes DEF IInv, Read, FilesOK
<1>1. CASE Fail(p) \/ Trust(p, store)
  <2>1. /\ Others(p) /\ Gathered(p)' /\ InOrder(p)'
        /\ \A q \in Procs : pc'[q] = "reread" => pc[q] = "reread"
    BY <1>1, FailKeeps, FinishKeeps DEF IInv, Trust
  <2>2. UNCHANGED <<store, durable>> /\ (UNCHANGED faults \/ SpendFault)
    BY DEF Read
  <2>3. Causes'
    BY <2>1, <2>2, CausesKept DEF IInv
  <2> QED
    BY <1>0, <2>1, <2>3, OneProcess DEF IInv
<1>2. CASE Goto(p, "fetch") /\ UNCHANGED <<temp, work, faults>>
  <2>1. Others(p) /\ Gathered(p)' /\ InOrder(p)'
    BY <1>2 DEF IInv, TypeOK, Goto, work, Others, Gathered, InOrder
  <2>2. \A q \in Procs : pc'[q] = "reread" => pc[q] = "reread"
    BY <1>2 DEF IInv, TypeOK, Goto
  <2>3. Causes'
    BY <1>2, <2>2, CausesKept DEF IInv, Read
  <2> QED
    BY <1>0, <2>1, <2>3, OneProcess DEF IInv
<1> QED
  BY <1>1, <1>2 DEF Read

LEMMA FetchIInv == ASSUME IInv, NEW p \in Procs, Fetch(p) PROVE IInv'
<1>0. TypeOK' /\ FilesOK' /\ UNCHANGED <<store, durable, faults>>
  BY FetchTypes DEF IInv, Fetch, FilesOK
<1> SUFFICES /\ Others(p) /\ Gathered(p)' /\ InOrder(p)'
             /\ \A q \in Procs : pc'[q] = "reread" => pc[q] = "reread"
  BY <1>0, OneProcess, CausesKept DEF IInv
<1>1. CASE Abandon(p)
  BY <1>1, FailKeeps DEF Abandon, IInv
<1>2. CASE Obtain(p) \/ Retry(p) \/ Skip(p)
  <2>1. Others(p) /\ InOrder(p)'
    BY <1>2 DEF IInv, TypeOK, Fetch, Obtain, Retry, Skip, NextSource, Goto, Others, InOrder
  <2>2. \A q \in Procs : pc'[q] = "reread" => pc[q] = "reread"
    BY <1>2 DEF IInv, TypeOK, Obtain, Retry, Skip, Goto
  <2>3. Gathered(p)'
    <3>1. CASE Obtain(p)
      <4>1. published[next[p]] # Absent
        BY SourcesAssumption DEF Fetch, IInv, TypeOK
      <4>2. /\ next'[p] = next[p] + 1
            /\ got'[p] = [got[p] EXCEPT ![next[p]] = published[next[p]]]
            /\ got[p] \in Contents /\ next[p] \in Sources
        BY <3>1 DEF Obtain, NextSource, Fetch, IInv, TypeOK
      <4> QED
        BY <4>1, <4>2, SourcesAssumption DEF IInv, Gathered, Contents, Sources
    <3>2. CASE Retry(p)
      BY <3>2 DEF IInv, Retry, Gathered
    <3>3. CASE Skip(p)
      <4>1. next'[p] = next[p] + 1 /\ got' = got /\ next[p] \in Sources /\ next[p] \notin Required
        BY <3>3 DEF Skip, NextSource, Fetch, IInv, TypeOK
      <4> QED
        BY <4>1, SourcesAssumption DEF IInv, Gathered, Sources
    <3> QED
      BY <1>2, <3>1, <3>2, <3>3
  <2> QED
    BY <2>1, <2>2, <2>3
<1> QED
  BY <1>1, <1>2 DEF Fetch

LEMMA CreateTempIInv == ASSUME IInv, NEW p \in Procs, CreateTemp(p) PROVE IInv'
<1>0. TypeOK' /\ FilesOK' /\ UNCHANGED <<store, durable>>
  BY CreateTempTypes DEF IInv, CreateTemp, FilesOK
<1> SUFFICES /\ Others(p) /\ Gathered(p)' /\ InOrder(p)'
             /\ \A q \in Procs : pc'[q] = "reread" => pc[q] = "reread"
             /\ UNCHANGED faults \/ SpendFault
  BY <1>0, OneProcess, CausesKept DEF IInv
<1>1. CASE SpendFault /\ Fail(p)
  BY <1>1, FailKeeps DEF IInv
<1>2. CASE temp' = [temp EXCEPT ![p] = Damaged] /\ Goto(p, "write") /\ UNCHANGED <<work, faults>>
  <2>1. next[p] = NumSources + 1
    BY SourcesAssumption DEF CreateTemp, IInv, TypeOK, Sources
  <2> QED
    BY <1>2, <2>1 DEF IInv, TypeOK, Goto, work, Others, Gathered, InOrder
<1> QED
  BY <1>1, <1>2 DEF CreateTemp

\* What a process has read when it is past all sources is a complete store.
LEMMA GatheredAll ==
  ASSUME TypeOK, NEW p \in Procs, Gathered(p), next[p] = NumSources + 1
  PROVE  got[p] \in Complete
BY SourcesAssumption DEF TypeOK, Gathered, Complete, Sources

LEMMA WriteIInv == ASSUME IInv, NEW p \in Procs, Write(p) PROVE IInv'
<1>0. TypeOK' /\ FilesOK' /\ UNCHANGED <<store, durable>>
  BY WriteTypes DEF IInv, Write, FilesOK
<1> SUFFICES /\ Others(p) /\ Gathered(p)' /\ InOrder(p)'
             /\ \A q \in Procs : pc'[q] = "reread" => pc[q] = "reread"
             /\ UNCHANGED faults \/ SpendFault
  BY <1>0, OneProcess, CausesKept DEF IInv
<1>1. CASE SpendFault /\ Fail(p)
  BY <1>1, FailKeeps DEF IInv
<1>2. CASE temp' = [temp EXCEPT ![p] = got[p]] /\ Goto(p, "rename") /\ UNCHANGED <<work, faults>>
  <2>1. got[p] \in Complete
    BY GatheredAll DEF IInv, Write, InOrder
  <2>2. Complete' = Complete
    BY DEF Complete, Contents, Sources
  <2> QED
    BY <1>2, <2>1, <2>2 DEF IInv, TypeOK, Goto, work, Others, Gathered, InOrder
<1> QED
  BY <1>1, <1>2 DEF Write

LEMMA RenameIInv == ASSUME IInv, NEW p \in Procs, Rename(p) PROVE IInv'
<1>0. TypeOK'
  BY RenameTypes DEF IInv
<1>1. CASE SpendFault /\ Fail(p) /\ UNCHANGED store
  <2>1. FilesOK' /\ UNCHANGED durable
    BY <1>1 DEF Rename, IInv, FilesOK
  <2> QED
    BY <1>0, <1>1, <2>1, FailKeeps, OneProcess, CausesKept DEF IInv
<1>2. CASE /\ store' = temp[p]
           /\ \/ Finish(p, "done")
              \/ /\ Goto(p, "reread")
                 /\ temp' = [temp EXCEPT ![p] = NoStore]
                 /\ UNCHANGED work
           /\ UNCHANGED faults
  <2>1. store' \in Complete /\ store' # Damaged /\ store' # NoStore
    BY <1>2, CompleteIsContent, FilesAssumption DEF IInv, Rename, InOrder
  <2>2. FilesOK' /\ Causes'
    BY <1>2, <2>1 DEF Rename, IInv, FilesOK, Causes
  <2>3. Others(p) /\ Gathered(p)' /\ InOrder(p)'
    <3>1. CASE Finish(p, "done")
      BY <3>1, FinishKeeps DEF IInv
    <3>2. CASE Goto(p, "reread") /\ temp' = [temp EXCEPT ![p] = NoStore] /\ UNCHANGED work
      BY <3>2 DEF IInv, TypeOK, Goto, work, Others, Gathered, InOrder
    <3> QED
      BY <1>2, <3>1, <3>2
  <2> QED
    BY <1>0, <2>2, <2>3, OneProcess DEF IInv
<1> QED
  BY <1>1, <1>2 DEF Rename

LEMMA KillIInv == ASSUME IInv, NEW p \in Procs, Kill(p) PROVE IInv'
<1>1. TypeOK' /\ FilesOK' /\ UNCHANGED <<store, durable>>
  BY KillTypes DEF IInv, Kill, FilesOK
<1> QED
  BY <1>1, FinishKeeps, OneProcess, CausesKept DEF IInv, Kill

LEMMA StartIInv ==
  ASSUME IInv, NEW p \in Procs, NEW c \in Commands, Start(p, c) PROVE IInv'
<1>1. TypeOK' /\ FilesOK' /\ UNCHANGED <<store, durable, faults>>
  BY StartTypes DEF IInv, Start, FilesOK
<1>2. \A q \in Procs : pc'[q] = "reread" => pc[q] = "reread"
  BY DEF IInv, TypeOK, Start
<1>3. Others(p) /\ Gathered(p)' /\ InOrder(p)'
  BY DEF IInv, TypeOK, Start, work, Others, Gathered, InOrder
<1> QED
  BY <1>1, <1>2, <1>3, OneProcess, CausesKept DEF IInv

LEMMA EnvironmentIInv == ASSUME IInv, Environment PROVE IInv'
<1>0. TypeOK'
  BY EnvironmentTypes DEF IInv
<1>1. CASE Publish
  BY <1>0, <1>1 DEF Publish, IInv, FilesOK, Causes, Gathered, InOrder, work
<1>2. CASE Sync
  BY <1>0, <1>2 DEF Sync, IInv, FilesOK, Causes, Gathered, InOrder, work
<1>3. CASE PowerFailure
  <2>1. FilesOK'
    BY <1>3 DEF PowerFailure, IInv, FilesOK
  <2>2. Causes'
    BY <1>3, SpendTypes DEF PowerFailure, IInv, TypeOK, Causes
  <2>3. \A q \in Procs : (Gathered(q) /\ InOrder(q))'
    BY <1>3, SourcesAssumption DEF PowerFailure, Gathered, InOrder, Sources
  <2> QED
    BY <1>0, <2>1, <2>2, <2>3 DEF IInv
<1>4. CASE Damage
  <2>1. FilesOK'
    BY <1>4 DEF Damage, IInv, FilesOK
  <2>2. Causes'
    BY <1>4, SpendTypes DEF Damage, IInv, TypeOK, Causes
  <2>3. \A q \in Procs : (Gathered(q) /\ InOrder(q))'
    BY <1>4 DEF Damage, IInv, Gathered, InOrder, work
  <2> QED
    BY <1>0, <2>1, <2>2, <2>3 DEF IInv
<1> QED
  BY <1>1, <1>2, <1>3, <1>4 DEF Environment

LEMMA NextIInv == IInv /\ [Next]_vars => IInv'
<1> SUFFICES ASSUME IInv, [Next]_vars PROVE IInv'
  OBVIOUS
<1>1. ASSUME NEW p \in Procs, Program(p) PROVE IInv'
  BY <1>1, ReadIInv, FetchIInv, CreateTempIInv, WriteIInv, RenameIInv DEF Program
<1>2. CASE UNCHANGED vars
  BY <1>2 DEF vars, work, IInv, TypeOK, FilesOK, Causes, Gathered, InOrder
<1> QED
  BY <1>1, <1>2, KillIInv, StartIInv, EnvironmentIInv DEF Next

-----------------------------------------------------------------------------
\* A store that decodes holds every required source.
THEOREM StoreComplete == Spec => []StoreIsComplete
<1>1. IInv => StoreIsComplete
  BY FilesAssumption DEF IInv, FilesOK, StoreIsComplete
<1> QED
  BY <1>1, InitIInv, NextIInv, PTL DEF Spec

\* Only the user and the disk damage the store.
THEOREM NeverPartialCorrect == Spec => []NeverPartial
<1>1. IInv => NeverPartial
  BY DEF IInv, Causes, NeverPartial
<1> QED
  BY <1>1, InitIInv, NextIInv, PTL DEF Spec

-----------------------------------------------------------------------------
\* A command that fails uses the certificates of the system, or none.
LEMMA FailUses ==
  ASSUME TypeOK, NEW p \in Procs, Fail(p)
  PROVE  \/ UNCHANGED used
         \/ used' = [used EXCEPT ![p] = System]
BY DEF Fail, Trust

\* One step of a process changes the trust anchors of no other.
LEMMA FallbackOfOne ==
  ASSUME TypeOK, NEW p \in Procs,
         UNCHANGED used \/ \E a \in Contents \cup {System, None} : used' = [used EXCEPT ![p] = a],
         used'[p] = System /\ used[p] # System =>
           \/ faults' < MaxFaults
           \/ pc[p] = "fetch" /\ next[p] \in Required
  PROVE  Fallback
BY DEF TypeOK, Fallback

LEMMA FallbackStep == IInv /\ [Next]_vars => Fallback \/ UNCHANGED vars
<1> SUFFICES ASSUME IInv, Next PROVE Fallback
  OBVIOUS
<1>0. TypeOK
  BY DEF IInv
<1>1. ASSUME UNCHANGED used PROVE Fallback
  BY <1>1 DEF Fallback
<1>2. ASSUME NEW p \in Procs, Fail(p), SpendFault PROVE Fallback
  BY <1>0, <1>2, FailUses, FallbackOfOne, SpendTypes DEF TypeOK
<1>3. ASSUME NEW p \in Procs, Read(p) PROVE Fallback
  <2>1. CASE Trust(p, store) /\ store \in Contents
    <3>1. used' = [used EXCEPT ![p] = store] /\ store # System
      BY <2>1, FilesAssumption DEF Trust, Files
    <3> QED
      BY <1>0, <2>1, <3>1, FallbackOfOne DEF TypeOK
  <2>2. CASE Fail(p) /\ UNCHANGED faults /\ (store = Damaged \/ (store = NoStore /\ pc[p] = "reread"))
    <3>1. faults' < MaxFaults
      BY <2>2 DEF IInv, Causes
    <3> QED
      BY <1>0, <2>2, <3>1, FailUses, FallbackOfOne
  <2>3. CASE Goto(p, "fetch")
    BY <1>1, <2>3 DEF Goto
  <2> QED
    BY <1>2, <1>3, <2>1, <2>2, <2>3 DEF Read
<1>4. ASSUME NEW p \in Procs, Fetch(p) PROVE Fallback
  <2>1. CASE Abandon(p)
    BY <1>0, <1>4, <2>1, FailUses, FallbackOfOne DEF Abandon, Fetch
  <2>2. CASE Obtain(p) \/ Retry(p) \/ Skip(p)
    BY <1>1, <2>2 DEF Obtain, Retry, Skip, Goto
  <2> QED
    BY <1>4, <2>1, <2>2 DEF Fetch
<1>5. ASSUME NEW p \in Procs, CreateTemp(p) \/ Write(p) \/ Rename(p) PROVE Fallback
  <2>1. CASE SpendFault /\ Fail(p)
    BY <1>2, <2>1
  <2>2. CASE UNCHANGED used
    BY <1>1, <2>2
  <2> QED
    BY <1>5, <2>1, <2>2 DEF CreateTemp, Write, Rename, Goto
<1>6. ASSUME NEW p \in Procs, Kill(p) PROVE Fallback
  BY <1>1, <1>6 DEF Kill
<1>7. ASSUME NEW p \in Procs, NEW c \in Commands, Start(p, c) PROVE Fallback
  <2>1. used' = [used EXCEPT ![p] = None] /\ None # System
    BY <1>7, FilesAssumption DEF Start
  <2> QED
    BY <1>0, <2>1, FallbackOfOne DEF TypeOK
<1>8. ASSUME Environment PROVE Fallback
  BY <1>1, <1>8 DEF Environment, Publish, Sync, PowerFailure, Damage
<1> QED
  BY <1>3, <1>4, <1>5, <1>6, <1>7, <1>8 DEF Next, Program

\* Other processes never make a verification fall back.
THEOREM NoNeedlessFallbackCorrect == Spec => NoNeedlessFallback
<1>1. IInv /\ [Next]_vars => [Fallback]_vars
  BY FallbackStep
<1> QED
  BY <1>1, InitIInv, NextIInv, PTL DEF Spec, NoNeedlessFallback

-----------------------------------------------------------------------------
(* The store is replaced as a whole.                                       *)

\* A command that fails is a verification that consults the system, or does
\* not change anything that matters.
LEMMA FailConsults ==
  ASSUME IInv, NEW p \in Procs, Fail(p), UNCHANGED store
  PROVE  [Abstract!Next]_<<store, used>>
BY FailUses DEF IInv, Abstract!Next, Abstract!Consult

LEMMA StepImplements ==
  ASSUME IInv, [Next]_vars
  PROVE  [Abstract!Next]_<<store, used>>
<1>1. ASSUME UNCHANGED <<store, used>> PROVE [Abstract!Next]_<<store, used>>
  BY <1>1
<1>2. ASSUME NEW p \in Procs, Read(p) PROVE [Abstract!Next]_<<store, used>>
  <2>1. CASE Trust(p, store) /\ store \in Contents
    <3>1. store \in Complete
      BY <2>1, FilesAssumption DEF IInv, FilesOK
    <3> QED
      BY <1>2, <2>1, <3>1 DEF Read, Trust, Abstract!Next, Abstract!Consult
  <2>2. CASE Fail(p)
    BY <1>2, <2>2, FailConsults DEF Read
  <2>3. CASE Goto(p, "fetch")
    BY <1>1, <1>2, <2>3 DEF Read, Goto
  <2> QED
    BY <1>2, <2>1, <2>2, <2>3 DEF Read
<1>3. ASSUME NEW p \in Procs, Fetch(p) \/ CreateTemp(p) \/ Write(p)
      PROVE  [Abstract!Next]_<<store, used>>
  <2>1. CASE Fail(p)
    BY <1>3, <2>1, FailConsults DEF Fetch, CreateTemp, Write
  <2>2. CASE UNCHANGED used
    BY <1>1, <1>3, <2>2 DEF Fetch, CreateTemp, Write
  <2> QED
    BY <1>3, <2>1, <2>2 DEF Fetch, CreateTemp, Write, Obtain, Retry, Skip, Abandon, Goto
<1>4. ASSUME NEW p \in Procs, Rename(p) PROVE [Abstract!Next]_<<store, used>>
  <2>1. CASE Fail(p) /\ UNCHANGED store
    BY <2>1, FailConsults
  <2>2. CASE store' = temp[p] /\ UNCHANGED used
    <3>1. store' \in Complete
      BY <1>4, <2>2 DEF IInv, Rename, InOrder
    <3> QED
      BY <2>2, <3>1 DEF Abstract!Next, Abstract!Install
  <2> QED
    BY <1>4, <2>1, <2>2 DEF Rename, Goto
<1>5. ASSUME NEW p \in Procs, Kill(p) PROVE [Abstract!Next]_<<store, used>>
  BY <1>1, <1>5 DEF Kill
<1>6. ASSUME NEW p \in Procs, NEW c \in Commands, Start(p, c)
      PROVE  [Abstract!Next]_<<store, used>>
  BY <1>6 DEF Start, Abstract!Next, Abstract!Forget
<1>7. ASSUME Environment PROVE [Abstract!Next]_<<store, used>>
  <2>1. CASE UNCHANGED <<store, used>>
    BY <1>1, <2>1
  <2>2. CASE (PowerFailure \/ Damage)
    <3>1. store' \in Complete \cup {NoStore, Damaged} /\ UNCHANGED used
      BY <2>2 DEF PowerFailure, Damage, IInv, FilesOK
    <3> QED
      BY <3>1 DEF Abstract!Next, Abstract!Disaster
  <2> QED
    BY <1>7, <2>1, <2>2 DEF Environment, Publish, Sync
<1>8. CASE UNCHANGED vars
  BY <1>1, <1>8 DEF vars
<1> QED
  BY <1>2, <1>3, <1>4, <1>5, <1>6, <1>7, <1>8 DEF Next, Program

\* A verification uses one complete store as a whole, or the system.
THEOREM ImplementsAtomicTrustCorrect == Spec => ImplementsAtomicTrust
<1>1. Init => Abstract!Init
  BY DEF Init, Abstract!Init
<1>2. IInv /\ [Next]_vars => [Abstract!Next]_(Abstract!vars)
  BY StepImplements DEF Abstract!vars
<1> QED
  BY <1>1, <1>2, InitIInv, NextIInv, PTL DEF Spec, ImplementsAtomicTrust, Abstract!Spec
=============================================================================
