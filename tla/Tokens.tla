------------------------------- MODULE Tokens -------------------------------
(***************************************************************************)
(* Finding the smart card of a command: the PKCS#11 modules are loaded,    *)
(* the tokens they expose are listed, and one token is handed out or all   *)
(* of them are described.                                                  *)
(*                                                                         *)
(* A module sees the readers as its slots.  One card can be behind several *)
(* modules, which report different serial numbers for it, and one library  *)
(* can be named by several paths.  While the program lists the tokens and  *)
(* while it uses the one it has chosen, people move cards: a token is a    *)
(* slot of a module, and the card in the slot can be another one.          *)
(*                                                                         *)
(* What is installed and what the modules report is the record world:      *)
(*   environment, file, installed  modules named by PIVZAVR_PKCS11_MODULE, *)
(*                        by the configuration file, or found              *)
(*   serialEnvironment, serialFile  the serial number that selects a token *)
(*   readable             the configuration file can be read               *)
(*   fails[l]             what fails when library l is loaded, or "nothing"*)
(*   serves[l]            the cards that library l knows                   *)
(*   serial[l][c]         the serial number it reports for card c          *)
(*   chuid[l][c]          "bare", "wrapped" in a TLV, or "none"            *)
(*   piv                  the cards that answer as PIV cards over PC/SC    *)
(***************************************************************************)
EXTENDS Integers, CommandLine

CONSTANTS
  Cards,        \* the smart cards
  YubiKeys,     \* those that are YubiKeys
  Ykcs11,       \* the libraries that are the module of the YubiKey
  NumReaders,   \* readers, which every module sees as the slots 1..NumReaders
  Empty         \* there is no card in the reader

Readers == 1..NumReaders

ASSUME CardsAssumption ==
  /\ YubiKeys \subseteq Cards
  /\ Empty \notin Cards
  /\ NumReaders \in Nat

VARIABLES
  request,      \* the command line
  world,        \* what is installed, see above
  at,           \* the card in each reader
  moves,        \* how often a card is still moved
  pc,           \* what the program does next
  paths,        \* the modules to load, in order
  ctx,          \* the state of each module that was tried
  live,         \* the libraries that are initialized
  module,       \* the module whose tokens are listed
  slots,        \* its slots that are still to be looked at
  count,        \* how many slots it announced
  serialSeen,   \* the serial number of the token that is looked at
  seen,         \* the keys of the tokens that were listed
  locations,    \* the tokens that were listed
  token,        \* the token that was handed out, or NoToken
  described,    \* how many tokens were described
  report,       \* what the description says about each of them
  verdict       \* how the command ended

listing == <<module, slots, count, serialSeen, seen, locations>>
cards == <<at, moves>>
loading == <<paths, ctx, live>>
outcome == <<token, described, report, verdict>>
tokenVars == <<request, world, cards, pc, loading, listing, outcome>>

NoToken == [module |-> 0, slot |-> 0, serial |-> ""]

\* A sequence without the elements that are in D.
Without(s, D) ==
  LET upTo[n \in 0..Len(s)] ==
        IF n = 0 THEN <<>>
        ELSE IF s[n] \in D THEN upTo[n - 1] ELSE Append(upTo[n - 1], s[n])
  IN upTo[Len(s)]

\* The card that library l sees in a slot.
CardOf(l, r) == IF at[r] \in world.serves[l] THEN at[r] ELSE Empty

\* The CHUID as library l reports it, and without the TLV around it.
Reported(l, c) == IF world.chuid[l][c] = "none" THEN <<>> ELSE <<world.chuid[l][c], c>>
Normalized(chuid) == IF Len(chuid) = 2 THEN <<chuid[2]>> ELSE chuid

SerialOnly(chuid, serial) == IF serial = "" THEN <<>> ELSE <<"serial", serial>>
Unnormalized(chuid, serial) ==
  IF chuid # <<>> THEN <<"chuid", chuid>> ELSE SerialOnly(chuid, serial)

\* What a token is told apart by; <<>> for one that cannot be told apart.
TokenKey(chuid, serial) ==
  IF chuid # <<>> THEN <<"chuid", Normalized(chuid)>>
  ELSE IF serial # "" THEN <<"serial", serial>> ELSE <<>>

\* An environment variable is preferred to the file, the file to what is found.
Setting(environment, file) == IF environment # "" THEN environment ELSE file
Serial == Setting(world.serialEnvironment, world.serialFile)

SerialKnown == world.serialEnvironment # "" \/ world.readable

YubiKeyAttached == \E r \in Readers : at[r] \in YubiKeys
Conventional == Without(world.installed, IF YubiKeyAttached THEN {} ELSE Ykcs11)
ModulePaths ==
  IF world.environment # <<>> THEN world.environment
  ELSE IF ~world.readable THEN <<>>
  ELSE IF world.file # <<>> THEN world.file
  ELSE Conventional

\* The tokens that C_GetSlotList reports, in the order of the slots.
Present(l) == Without([r \in Readers |-> r], {r \in Readers : CardOf(l, r) = Empty})

TokensInit ==
  /\ pc = "start"
  /\ paths = <<>> /\ ctx = <<>> /\ live = {}
  /\ module = 0 /\ slots = <<>> /\ count = 0 /\ serialSeen = ""
  /\ seen = {} /\ locations = <<>>
  /\ token = NoToken /\ described = 0 /\ report = <<>>
  /\ verdict = "running"

(* Somebody takes a card away, puts one in, or exchanges two.              *)
Move ==
  /\ moves > 0
  /\ verdict = "running"
  /\ moves' = moves - 1
  /\ \E r \in Readers, c \in Cards \cup {Empty} :
       /\ c # at[r]
       /\ at' = [q \in Readers |->
                   IF q = r THEN c ELSE IF at[q] = c THEN Empty ELSE at[q]]
  /\ UNCHANGED <<request, world, pc, loading, listing, outcome>>

(* The options are checked before a card is touched.  The trust store is    *)
(* updated without a card; the serial number is asked for before it.       *)
Parse ==
  /\ pc = "start"
  /\ pc' = IF Refused(request) THEN "failed"
           ELSE IF Command(request) = "update-trust" THEN "update"
           ELSE IF Command(request) # "info" /\ ~SerialKnown THEN "failed"
           ELSE "paths"
  /\ UNCHANGED <<request, world, cards, loading, listing, outcome>>

(* config.UpdateTrust, which is the subject of TrustStore.                 *)
UpdateTrust ==
  /\ pc = "update"
  /\ pc' \in {"close", "failed"}
  /\ UNCHANGED <<request, world, cards, loading, listing, outcome>>

FindModules ==
  /\ pc = "paths"
  /\ paths' = ModulePaths
  /\ pc' = IF ModulePaths = <<>> THEN "failed" ELSE "open"
  /\ UNCHANGED <<request, world, cards, ctx, live, listing, outcome>>

\* Destroy finalizes only a module that this context has initialized.
FinalizesAlways(initialized, l) == live \ {l}
Destroyed(initialized, l) == IF initialized THEN live \ {l} ELSE live

(* New and Initialize.  A library that another context has initialized     *)
(* already refuses; its context is destroyed, and the module is skipped.   *)
OpenModule ==
  /\ pc = "open"
  /\ Len(ctx) < Len(paths)
  /\ LET l == paths[Len(ctx) + 1]
         ok == world.fails[l] = "nothing" /\ l \notin live
     IN /\ ctx' = Append(ctx, IF ok THEN "open" ELSE "skipped")
        /\ live' = IF ok THEN live \cup {l}
                   ELSE IF world.fails[l] = "load" THEN live
                   ELSE Destroyed(FALSE, l)
  /\ UNCHANGED <<request, world, cards, pc, paths, listing, outcome>>

ModulesOpened ==
  /\ pc = "open"
  /\ Len(ctx) = Len(paths)
  /\ module' = 1
  /\ pc' = IF \E i \in DOMAIN ctx : ctx[i] = "open" THEN "list" ELSE "failed"
  /\ UNCHANGED <<request, world, cards, loading, slots, count, serialSeen,
                 seen, locations, outcome>>

(* The first call of C_GetSlotList asks for the number of slots.           *)
CountSlots ==
  /\ pc = "list"
  /\ module <= Len(ctx)
  /\ IF ctx[module] # "open" \/ Present(paths[module]) = <<>>
     THEN module' = module + 1 /\ UNCHANGED <<pc, count>>
     ELSE count' = Len(Present(paths[module])) /\ pc' = "fill" /\ UNCHANGED module
  /\ UNCHANGED <<request, world, cards, loading, slots, serialSeen, seen,
                 locations, outcome>>

\* What comes back when a token was inserted between the two calls.
GrownList(l) == IF Len(Present(l)) > count THEN <<>> ELSE Present(l)

(* The second call fills a list of that size.  A list that has grown does  *)
(* not fit, and the module is passed over.                                 *)
FillSlots ==
  /\ pc = "fill"
  /\ slots' = GrownList(paths[module])
  /\ pc' = "look"
  /\ UNCHANGED <<request, world, cards, loading, module, count, serialSeen, seen,
                 locations, outcome>>

NextModule ==
  /\ pc = "look"
  /\ slots = <<>>
  /\ module' = module + 1
  /\ pc' = "list"
  /\ UNCHANGED <<request, world, cards, loading, slots, count, serialSeen, seen,
                 locations, outcome>>

(* C_GetTokenInfo; a slot whose token is gone is passed over.              *)
ReadTokenInfo ==
  /\ pc = "look"
  /\ slots # <<>>
  /\ LET l == paths[module]
         c == CardOf(l, Head(slots))
     IN IF c = Empty
        THEN slots' = Tail(slots) /\ UNCHANGED <<pc, serialSeen>>
        ELSE serialSeen' = world.serial[l][c] /\ pc' = "key" /\ UNCHANGED slots
  /\ UNCHANGED <<request, world, cards, loading, module, count, seen, locations,
                 outcome>>

(* tokenDataObject reads the CHUID in a session of its own, and the token  *)
(* is listed unless its key was seen.                                      *)
ReadChuid ==
  /\ pc = "key"
  /\ LET l == paths[module]
         c == CardOf(l, Head(slots))
         key == TokenKey(IF c = Empty THEN <<>> ELSE Reported(l, c), serialSeen)
     IN /\ seen' = IF key = <<>> THEN seen ELSE seen \cup {key}
        /\ locations' =
             IF key \in seen THEN locations
             ELSE Append(locations, [module |-> module, slot |-> Head(slots),
                                     serial |-> serialSeen])
  /\ slots' = Tail(slots)
  /\ pc' = "look"
  /\ UNCHANGED <<request, world, cards, loading, module, count, serialSeen, outcome>>

AnyLocation == {i \in DOMAIN locations : Serial = "" \/ locations[i].serial = Serial}

\* Mutant: with several cards the first one is taken.
FirstMatching ==
  IF AnyLocation = {} THEN NoToken
  ELSE locations[CHOOSE i \in AnyLocation : \A j \in AnyLocation : i <= j]

\* TokenHandleWithSerial: the token with the serial number, or the only one.
Chosen ==
  IF AnyLocation = {} \/ (Serial = "" /\ Len(locations) > 1) THEN NoToken
  ELSE locations[CHOOSE i \in AnyLocation : \A j \in AnyLocation : i <= j]

\* A token owns its module; every other module is released.
Owned(i) == token.module = i
Releases(i) == ctx[i] = "open" /\ ~Owned(i)

Choose ==
  /\ pc = "list"
  /\ module > Len(ctx)
  /\ Command(request) # "info"
  /\ token' = Chosen
  /\ pc' = IF Chosen = NoToken THEN "failed" ELSE "release"
  /\ UNCHANGED <<request, world, cards, loading, listing, described, report, verdict>>

(* The deferred release, with a token or with a failure in hand.  A token  *)
(* releases its module in Close, and the program then ends.                *)
Release ==
  /\ pc \in {"release", "failed", "close"}
  /\ LET gone == {i \in DOMAIN ctx : IF pc = "release" THEN Releases(i) ELSE ctx[i] = "open"}
     IN /\ ctx' = [i \in DOMAIN ctx |-> IF i \in gone THEN "destroyed" ELSE ctx[i]]
        /\ live' = live \ {paths[i] : i \in gone}
  /\ pc' = IF pc = "release" THEN "token" ELSE "end"
  /\ verdict' = IF pc = "release" THEN verdict
                ELSE IF pc = "failed" THEN "failure" ELSE "success"
  /\ UNCHANGED <<request, world, cards, paths, listing, token, described, report>>

\* The readers whose card is the one that a command over PC/SC looks for.
MatchesAny(chuid, r) == at[r] \in world.piv
Matches(chuid, r) ==
  /\ at[r] \in world.piv
  /\ chuid = <<>> \/ chuid = <<"bare", at[r]>>

\* readPIVRetries: the counts of the card with the CHUID, or of the only card.
Retries(chuid) ==
  LET found == {r \in Readers : Matches(chuid, r)}
  IN IF (chuid = <<>> /\ Cardinality(found) = 1) \/ (chuid # <<>> /\ found # {})
     THEN at[CHOOSE r \in found : TRUE]
     ELSE Empty

(* DeviceInfos describes the tokens one after the other.  One that is gone *)
(* fails the whole report.                                                 *)
Describe ==
  /\ pc = "list"
  /\ module > Len(ctx)
  /\ Command(request) = "info"
  /\ locations # <<>>
  /\ described < Len(locations)
  /\ LET next == locations[described + 1]
         l == paths[next.module]
         c == CardOf(l, next.slot)
     IN IF c = Empty
        THEN pc' = "failed" /\ UNCHANGED <<described, report>>
        ELSE /\ report' = Append(report, [card |-> c, exposed |-> Reported(l, c) # <<>>,
                                        retriesOf |-> Retries(Reported(l, c))])
             /\ described' = described + 1
             /\ UNCHANGED pc
  /\ UNCHANGED <<request, world, cards, loading, listing, token, verdict>>

Described ==
  /\ pc = "list"
  /\ module > Len(ctx)
  /\ Command(request) = "info"
  /\ described = Len(locations)
  /\ pc' = IF locations = <<>> THEN "failed" ELSE "close"
  /\ UNCHANGED <<request, world, cards, loading, listing, outcome>>
=============================================================================
