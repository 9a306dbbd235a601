---------------------------- MODULE AtomicTrust ----------------------------
(***************************************************************************)
(* What the trust store promises to a verification: it is replaced as a    *)
(* whole, and a verification uses one complete store or, when there is no  *)
(* usable one, the certificates of the operating system.                   *)
(***************************************************************************)
CONSTANTS
  Procs,      \* the processes
  Complete,   \* the stores that hold every trust anchor they have to
  NoStore,    \* there is no store
  Damaged,    \* the store was damaged after it was written
  System,     \* the certificates of the operating system
  None        \* no trust anchors yet

VARIABLES
  store,      \* the trust store
  used        \* the trust anchors that each process uses

vars == <<store, used>>

Init ==
  /\ store = NoStore
  /\ used = [p \in Procs |-> None]

\* An update replaces the store.
Install ==
  /\ store' \in Complete
  /\ UNCHANGED used

\* A verification reads the store.
Consult(p) ==
  /\ \/ /\ store \in Complete
        /\ used' = [used EXCEPT ![p] = store]
     \/ used' = [used EXCEPT ![p] = System]
  /\ UNCHANGED store

Forget(p) ==
  /\ used' = [used EXCEPT ![p] = None]
  /\ UNCHANGED store

\* The store is edited, removed or lost.
Disaster ==
  /\ store' \in Complete \cup {NoStore, Damaged}
  /\ UNCHANGED used

Next == Install \/ Disaster \/ \E p \in Procs : Consult(p) \/ Forget(p)

Spec == Init /\ [][Next]_vars
=============================================================================
