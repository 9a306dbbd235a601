----------------------------- MODULE KeyCustody -----------------------------
(***************************************************************************)
(* What --set-management-key promises: the card has one management key,    *)
(* which its user or the card itself keeps, and the key and the way it is  *)
(* kept are replaced together.  Only an interruption can leave a card with *)
(* a key that nobody can present any more, and nothing but a factory reset *)
(* helps such a card.                                                      *)
(***************************************************************************)
EXTENDS Naturals

CONSTANTS
  Keys,         \* the management keys
  DefaultKey,   \* the key of a factory card
  MaxFaults     \* interruptions in a behaviour

VARIABLES
  key,      \* the management key
  keeper,   \* who keeps it
  faults    \* the interruptions still to come

vars == <<key, keeper, faults>>

Init ==
  /\ key = DefaultKey
  /\ keeper = "user"
  /\ faults = MaxFaults

\* A command replaces the key and its keeper.
Rekey ==
  /\ keeper # "nobody"
  /\ key' \in Keys
  /\ keeper' \in {"user", "card"}

\* A command is interrupted: before it does anything, when it is through, or
\* in between.
Interruption ==
  /\ faults > 0
  /\ faults' = faults - 1
  /\ \/ UNCHANGED <<key, keeper>>
     \/ Rekey
     \/ key' \in Keys /\ keeper' = "nobody"

Next == (Rekey /\ UNCHANGED faults) \/ Interruption

Spec == Init /\ [][Next]_vars
=============================================================================
