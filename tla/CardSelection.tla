---------------------------- MODULE CardSelection ----------------------------
(***************************************************************************)
(* What PKCS#11 does not offer runs over PC/SC: a reset, the commands that *)
(* change the PIN, the PUK, the management key and the data objects, and   *)
(* the signature with the card authentication key.  The token is a slot of *)
(* a module, so the card has to be found again: its Card Holder Unique     *)
(* Identifier, as the module reports it, is compared with that of the card *)
(* in each reader, and the reader that matches is connected to once more.  *)
(*                                                                         *)
(* The connection of a card that is taken away is dead.                    *)
(***************************************************************************)
EXTENDS Tokens

VARIABLES
  wanted,       \* the CHUID that is looked for, <<>> for any PIV card
  meant,        \* the card that is in the slot of the token at that time
  reader,       \* the reader that is looked at
  matches,      \* how many cards have matched
  selected,     \* the reader of the last of them
  connection,   \* the card that is connected
  reached,      \* the card that carried out the command
  disturbed     \* the readers whose card was moved after its CHUID matched

search == <<wanted, meant, reader, matches, selected, connection>>
selectionVars == <<search, reached, disturbed>>

SelectionInit ==
  /\ wanted = <<>> /\ meant = Empty
  /\ reader = 0 /\ matches = 0 /\ selected = 0
  /\ connection = Empty /\ reached = Empty
  /\ disturbed = {}

TokenLibrary == paths[token.module]
TokenCard == CardOf(TokenLibrary, token.slot)

\* The commands that need a session with the card over PC/SC.
CardCommands == {"reset", "set-pin", "set-puk", "set-chuid", "set-ccc", "set-management-key"}

(* The CHUID is read from the token each time, as its module reports it.   *)
Search(l, c) ==
  /\ wanted' = IF c = Empty THEN <<>> ELSE Reported(l, c)
  /\ meant' = c
  /\ reader' = 1
  /\ matches' = 0
  /\ pc' = "match"
  /\ UNCHANGED <<selected, connection, reached, disturbed>>

StartCardCommand ==
  /\ pc = "token"
  /\ Command(request) \in CardCommands
  /\ Search(TokenLibrary, TokenCard)
  /\ UNCHANGED <<request, world, cards, loading, listing, outcome>>

(* findPIVReader: connect, select the PIV application, compare the CHUID,  *)
(* disconnect.  A match of a CHUID ends the search.                        *)
MatchReader ==
  /\ pc = "match"
  /\ reader <= NumReaders
  /\ IF Matches(wanted, reader)
     THEN /\ matches' = matches + 1
          /\ selected' = reader
          /\ disturbed' = {}
          /\ reader' = IF wanted = <<>> THEN reader + 1 ELSE NumReaders + 1
     ELSE reader' = reader + 1 /\ UNCHANGED <<matches, selected, disturbed>>
  /\ UNCHANGED <<request, world, cards, pc, loading, listing, outcome,
                 wanted, meant, connection, reached>>

Matched ==
  /\ pc = "match"
  /\ reader > NumReaders
  /\ pc' = IF matches = 1 THEN "connect" ELSE "failed"
  /\ UNCHANGED <<request, world, cards, loading, listing, outcome, selectionVars>>

(* The second connection, to whatever is in that reader now.               *)
Connect ==
  /\ pc = "connect"
  /\ connection' = at[selected]
  /\ pc' = IF at[selected] = Empty THEN "failed" ELSE "session"
  /\ UNCHANGED <<request, world, cards, loading, listing, outcome,
                 wanted, meant, reader, matches, selected, reached, disturbed>>

\* The card is still there, and answers the commands of the PIV application.
Answers == at[selected] = connection /\ connection \in world.piv

\* A card that was put in after the match may have nothing selected.  A reset
\* selects the PIV application once more.
MayBeUnselected == Command(request) # "reset" /\ selected \in disturbed

(* The command itself; what it does to the card is in CardSecrets and      *)
(* ManagementKey.                                                          *)
CarryOut ==
  /\ pc = "session"
  /\ Command(request) \in CardCommands
  /\ \/ Answers /\ reached' = connection /\ pc' = "close"
     \/ (~Answers \/ MayBeUnselected) /\ pc' = "failed" /\ UNCHANGED reached
  /\ UNCHANGED <<request, world, cards, loading, listing, outcome, search, disturbed>>

(* --unlock presents the PUK through the module, which has to be the one   *)
(* that knows how; --print reads the certificate through any module.       *)
CarryOutThroughModule ==
  /\ pc = "token"
  /\ Command(request) \in {"unlock", "print"}
  /\ IF /\ TokenCard # Empty
        /\ Command(request) = "unlock" => TokenLibrary \in Ykcs11
     THEN reached' = TokenCard /\ pc' = "close"
     ELSE pc' = "failed" /\ UNCHANGED reached
  /\ UNCHANGED <<request, world, cards, loading, listing, outcome, search, disturbed>>
=============================================================================
