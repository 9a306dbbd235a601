---------------------------- MODULE SigningProofs ----------------------------
(***************************************************************************)
(* What module Signing promises, for every command line, installation and  *)
(* collection of cards, however often the cards are moved.                 *)
(***************************************************************************)
EXTENDS Signing, SetInduction, SequenceTheorems, FiniteSetTheorems

\* The program looks for a token, has one, or ends.
Listing == {"start", "update", "paths", "open", "list", "fill", "look", "key"}
Using == {"token", "create", "certificate", "message", "signer", "opensession", "login", "sign",
          "identify", "match", "connect", "session", "signed", "stamp", "encode", "write"}
Ending == {"failed", "close"}
Released == {"end"}

IsSequence(s) == \E S : s \in Seq(S)
IsOpen(i) == i \in DOMAIN ctx /\ ctx[i] = "open"

-----------------------------------------------------------------------------
(* Which module is initialized by whom.                                    *)

Contexts ==
  /\ pc \in Listing \cup Using \cup Ending \cup {"release"} \cup Released
  /\ ctx \in Seq({"open", "skipped", "destroyed"})
  /\ pc \in {"start", "update", "paths"} => ctx = <<>>
  /\ verdict = "running" <=> pc \notin Released

\* Every library that is initialized belongs to one context.
Owners ==
  /\ \A i \in DOMAIN ctx : ctx[i] = "open" => paths[i] \in live
  /\ \A l \in live : \E i \in DOMAIN ctx : ctx[i] = "open" /\ paths[i] = l
  /\ \A i, j \in DOMAIN ctx : ctx[i] = "open" /\ ctx[j] = "open" /\ paths[i] = paths[j] => i = j
  /\ pc \in Released => \A i \in DOMAIN ctx : ctx[i] # "open"

\* Tokens are listed for modules that are open.
Locations ==
  /\ module \in Nat /\ (pc \in {"list", "fill", "look", "key"} => module > 0)
  /\ pc \in {"fill", "look", "key"} => IsOpen(module)
  /\ IsSequence(locations)
  /\ pc \in Listing =>
       token = NoToken /\ \A i \in DOMAIN locations : IsOpen(locations[i].module)

\* The token that was chosen keeps its module open, and after the release only that.
Holding ==
  /\ pc \in Using \cup {"release"} => token # NoToken
  /\ token # NoToken /\ pc \notin Released => IsOpen(token.module)
  /\ token # NoToken /\ pc \notin Released \cup {"release"} =>
       \A i \in DOMAIN ctx : ctx[i] = "open" => i = token.module

Modules == Contexts /\ Owners /\ Locations /\ Holding

-----------------------------------------------------------------------------
(* The steps.                                                              *)

\* Everything that the program does once it has a token leaves the modules alone.
LEMMA StepKinds ==
  ASSUME [Next]_vars
  PROVE  \/ /\ Parse \/ UpdateTrust \/ FindModules \/ OpenModule \/ ModulesOpened \/ CountSlots
                 \/ FillSlots \/ NextModule \/ ReadTokenInfo \/ ReadChuid \/ Choose \/ Release
                 \/ Describe \/ Described
            /\ UNCHANGED Others
         \/ /\ pc \in Using /\ pc' \in Using \cup Ending
            /\ UNCHANGED <<request, world, cards, loading, listing, outcome>>
         \/ MoveCard
         \/ UNCHANGED vars
<1> DEFINE used == /\ pc \in Using /\ pc' \in Using \cup Ending
                   /\ UNCHANGED <<request, world, cards, loading, listing, outcome>>
<1>1. ASSUME StartCardCommand \/ IdentifyCard
      PROVE  used
  BY <1>1 DEF StartCardCommand, IdentifyCard, Search, Using, Ending
<1>2. ASSUME MatchReader \/ Matched \/ Connect \/ CarryOut \/ CarryOutThroughModule
      PROVE  used
  BY <1>2 DEF MatchReader, Matched, Connect, CarryOut, CarryOutThroughModule, Using, Ending
<1>3. ASSUME OpenInput \/ CreateOutput \/ ReadCertificate \/ ReadMessage \/ LoadSigner
      PROVE  used
  BY <1>3 DEF OpenInput, CreateOutput, ReadCertificate, ReadMessage, LoadSigner, Using, Ending
<1>4. ASSUME OpenSession \/ Login \/ SignDigest \/ SignOverPcsc
      PROVE  used
  BY <1>4 DEF OpenSession, Login, SignDigest, SignOverPcsc, Using, Ending
<1>5. ASSUME BeginSigning \/ AddTimestamps \/ EmitSigCreated \/ WriteOutput \/ Verify
      PROVE  used
  BY <1>5 DEF BeginSigning, AddTimestamps, EmitSigCreated, WriteOutput, Verify, Using, Ending
<1> HIDE DEF used
<1>6. QED
  BY <1>1, <1>2, <1>3, <1>4, <1>5 DEF Next, Step, used

LEMMA LastOf ==
  ASSUME NEW S, NEW q \in Seq(S), NEW x
  PROVE  /\ IsSequence(Append(q, x)) /\ Len(q) \in Nat /\ DOMAIN q = 1..Len(q)
         /\ DOMAIN Append(q, x) = 1..Len(q) + 1
         /\ Append(q, x)[Len(q) + 1] = x
         /\ \A i \in 1..Len(q) : Append(q, x)[i] = q[i]
         /\ x \in S => Append(q, x) \in Seq(S)
<1>1. q \in Seq(S \cup {x}) /\ x \in S \cup {x}
  OBVIOUS
<1>2. Append(q, x) \in Seq(S \cup {x})
  BY <1>1, AppendProperties
<1>3. /\ Len(Append(q, x)) = Len(q) + 1 /\ Append(q, x)[Len(q) + 1] = x
      /\ \A i \in 1..Len(q) : Append(q, x)[i] = q[i]
  BY <1>1, AppendProperties
<1>4. x \in S => Append(q, x) \in Seq(S)
  BY AppendProperties
<1> QED
  BY <1>1, <1>2, <1>3, <1>4 DEF IsSequence

\* The token that is chosen is one of those that were listed.
LEMMA ChosenIsListed ==
  ASSUME IsSequence(locations), Chosen # NoToken
  PROVE  \E i \in DOMAIN locations : Chosen = locations[i] /\ i \in AnyLocation
<1>1. AnyLocation # {} /\ AnyLocation \in SUBSET Nat
  <2>1. AnyLocation # {}
    BY DEF Chosen
  <2>2. DOMAIN locations \subseteq Nat
    BY DEF IsSequence
  <2> QED
    BY <2>1, <2>2 DEF AnyLocation
<1>2. PICK n \in AnyLocation : \A m \in AnyLocation : n <= m
  <2> HIDE DEF AnyLocation
  <2> QED
    BY <1>1, LeastElement
<1> DEFINE k == CHOOSE i \in AnyLocation : \A j \in AnyLocation : i <= j
<1>3. k \in AnyLocation
  BY <1>2
<1>4. Chosen = locations[k]
  BY DEF Chosen
<1> QED
  BY <1>3, <1>4 DEF AnyLocation

\* The modules are as they were.
LEMMA ModulesStay ==
  ASSUME Modules, UNCHANGED <<loading, module, locations, token, verdict>>,
         \/ UNCHANGED pc
         \/ pc \in Using /\ pc' \in Using \cup Ending
         \/ /\ pc \in Listing /\ pc' \in Listing \cup Ending
            /\ pc' \in {"start", "update", "paths"} => pc \in {"start", "update", "paths"}
            /\ pc' \in {"list", "fill", "look", "key"} => pc \in {"list", "fill", "look", "key"}
            /\ pc' \in {"fill", "look", "key"} => IsOpen(module)
  PROVE  Modules'
BY DEF Modules, Contexts, Owners, Locations, Holding, IsOpen, Listing, Using, Ending, Released,
       loading

\* Destroying contexts finalizes the libraries that they had initialized.
LEMMA DestroyedOnly ==
  ASSUME Contexts, Owners, NEW gone \in SUBSET DOMAIN ctx,
         \A i \in gone : ctx[i] = "open",
         ctx' = [i \in DOMAIN ctx |-> IF i \in gone THEN "destroyed" ELSE ctx[i]],
         live' = live \ {paths[i] : i \in gone}, paths' = paths
  PROVE  /\ ctx' \in Seq({"open", "skipped", "destroyed"}) /\ DOMAIN ctx' = DOMAIN ctx
         /\ \A i \in DOMAIN ctx : ctx'[i] = "open" <=> ctx[i] = "open" /\ i \notin gone
         /\ \A i \in DOMAIN ctx : ctx'[i] = "open" => paths[i] \in live'
         /\ \A l \in live' : \E i \in DOMAIN ctx : ctx'[i] = "open" /\ paths[i] = l
         /\ \A i, j \in DOMAIN ctx :
              ctx'[i] = "open" /\ ctx'[j] = "open" /\ paths[i] = paths[j] => i = j
<1>1. ctx \in Seq({"open", "skipped", "destroyed"})
  BY DEF Contexts
<1>2. ctx' \in Seq({"open", "skipped", "destroyed"}) /\ DOMAIN ctx' = DOMAIN ctx
  BY <1>1
<1>3. \A i \in DOMAIN ctx : ctx'[i] = "open" <=> ctx[i] = "open" /\ i \notin gone
  OBVIOUS
<1> QED
  BY <1>2, <1>3 DEF Owners

LEMMA ModulesStep ==
  ASSUME Modules, [Next]_vars
  PROVE  Modules'
<1>1. CASE Parse
  BY <1>1, ModulesStay DEF Parse, Listing, Ending, listing, outcome
<1>2. CASE UpdateTrust
  BY <1>2, ModulesStay DEF UpdateTrust, Listing, Ending, listing, outcome
<1>3. CASE FindModules
  BY <1>3 DEF FindModules, Modules, Contexts, Owners, Locations, Holding, IsOpen, Listing,
         Using, Ending, Released, listing, outcome
<1>4. CASE OpenModule
  <2> DEFINE l == paths[Len(ctx) + 1]
  <2> DEFINE n == Len(ctx) + 1
  <2>1. /\ pc = "open" /\ UNCHANGED <<pc, paths, module, locations, token, verdict>>
        /\ ctx \in Seq({"open", "skipped", "destroyed"})
    BY <1>4 DEF OpenModule, Modules, Contexts, listing, outcome
  <2>2. PICK state \in {"open", "skipped"} :
          /\ ctx' = Append(ctx, state)
          /\ state = "open" => l \notin live /\ live' = live \cup {l}
          /\ state # "open" => live' = live
    BY <1>4 DEF OpenModule, Destroyed
  <2>3. /\ Len(ctx) \in Nat /\ DOMAIN ctx = 1..Len(ctx) /\ DOMAIN ctx' = 1..Len(ctx) + 1
        /\ ctx'[n] = state /\ \A i \in 1..Len(ctx) : ctx'[i] = ctx[i]
        /\ ctx' \in Seq({"open", "skipped", "destroyed"})
    BY <2>1, <2>2, LastOf
  <2>4. /\ n \in DOMAIN ctx' /\ n \notin DOMAIN ctx
        /\ \A i \in DOMAIN ctx' : i = n \/ (i \in DOMAIN ctx /\ ctx'[i] = ctx[i])
        /\ \A i \in DOMAIN ctx : i \in DOMAIN ctx' /\ ctx'[i] = ctx[i]
    BY <2>3
  <2>5. Contexts' /\ Locations' /\ Holding'
    BY <2>1, <2>3, <2>4 DEF Modules, Contexts, Locations, Holding, IsOpen, Listing, Using, Released
  <2>6. Owners'
    <3> HIDE DEF n
    <3>1. \A i \in DOMAIN ctx' : ctx'[i] = "open" => paths[i] \in live'
      BY <2>2, <2>3, <2>4 DEF Modules, Owners, n
    <3>2. \A k \in live' : \E i \in DOMAIN ctx' : ctx'[i] = "open" /\ paths[i] = k
      BY <2>2, <2>3, <2>4 DEF Modules, Owners, n
    <3>3. ASSUME NEW i \in DOMAIN ctx', NEW j \in DOMAIN ctx', ctx'[i] = "open", ctx'[j] = "open",
                 paths[i] = paths[j]
          PROVE  i = j
      BY <2>2, <2>3, <2>4, <3>3 DEF Modules, Owners, n
    <3>4. pc' \notin Released
      BY <2>1 DEF Released
    <3> QED
      BY <2>1, <3>1, <3>2, <3>3, <3>4 DEF Owners
  <2> QED
    BY <2>5, <2>6 DEF Modules
<1>5. CASE ModulesOpened
  BY <1>5 DEF ModulesOpened, Modules, Contexts, Owners, Locations, Holding, IsOpen, Listing,
         Using, Ending, Released, loading, outcome
<1>6. CASE CountSlots
  <2>1. CASE pc' = "list"
    BY <1>6, <2>1 DEF CountSlots, Modules, Contexts, Owners, Locations, Holding, IsOpen, Listing,
                      Using, Ending, Released, loading, outcome
  <2>2. CASE pc' = "fill"
    <3>1. IsOpen(module)
      BY <1>6, <2>2 DEF CountSlots, Modules, Contexts, Locations, IsOpen
    <3> QED
      BY <1>6, <2>2, <3>1, ModulesStay DEF CountSlots, Listing, Ending, outcome
  <2> QED
    BY <1>6, <2>1, <2>2 DEF CountSlots
<1>7. CASE FillSlots
  BY <1>7, ModulesStay DEF FillSlots, Modules, Locations, Listing, Ending, outcome
<1>8. CASE NextModule
  BY <1>8 DEF NextModule, Modules, Contexts, Owners, Locations, Holding, IsOpen, Listing, Using,
              Ending, Released, loading, outcome
<1>9. CASE ReadTokenInfo
  BY <1>9, ModulesStay DEF ReadTokenInfo, Modules, Locations, Listing, Ending, outcome
<1>10. CASE ReadChuid
  <2>1. /\ pc = "key" /\ pc' = "look" /\ UNCHANGED <<loading, module, token, verdict>>
        /\ IsOpen(module)
    BY <1>10 DEF ReadChuid, Modules, Locations, outcome
  <2>2. PICK S : locations \in Seq(S)
    BY DEF Modules, Locations, IsSequence
  <2> DEFINE here == [module |-> module, slot |-> Head(slots), serial |-> serialSeen]
  <2>3. UNCHANGED locations \/ locations' = Append(locations, here)
    BY <1>10 DEF ReadChuid
  <2>4. here.module = module
    OBVIOUS
  <2> HIDE DEF here
  <2>5. IsSequence(locations') /\ \A i \in DOMAIN locations' :
          locations'[i].module = module \/ (i \in DOMAIN locations /\ locations'[i] = locations[i])
    <3>1. CASE locations' = Append(locations, here)
      BY <2>2, <2>4, <3>1, LastOf
    <3> QED
      BY <2>3, <3>1 DEF Modules, Locations
  <2>6. Locations'
    BY <2>1, <2>5 DEF Modules, Locations, IsOpen, Listing, Using, Ending, loading
  <2>7. Contexts' /\ Owners' /\ Holding'
    BY <2>1 DEF Modules, Contexts, Owners, Holding, IsOpen, Listing, Using, Ending, Released,
           loading
  <2> QED
    BY <2>6, <2>7 DEF Modules
<1>11. CASE Choose
  <2>1. /\ pc = "list" /\ token' = Chosen /\ UNCHANGED <<loading, module, locations, verdict>>
        /\ pc' = IF Chosen = NoToken THEN "failed" ELSE "release"
    BY <1>11 DEF Choose, listing
  <2>2. CASE Chosen = NoToken
    <3>1. token' = token
      BY <2>1, <2>2 DEF Modules, Locations, Listing
    <3> QED
      BY <2>1, <2>2, <3>1, ModulesStay DEF Listing, Ending
  <2>3. CASE Chosen # NoToken
    <3>1. IsOpen(token'.module)
      BY <2>1, <2>3, ChosenIsListed DEF Modules, Locations, Listing
    <3> QED
      BY <2>1, <2>3, <3>1 DEF Modules, Contexts, Owners, Locations, Holding, IsOpen, Listing, Using,
                              Ending, Released, loading
  <2> QED
    BY <2>2, <2>3
<1>12. CASE Release
  <2> DEFINE gone == {i \in DOMAIN ctx : IF pc = "release" THEN Releases(i) ELSE ctx[i] = "open"}
  <2>1. /\ pc \in {"release", "failed", "close"} /\ UNCHANGED <<paths, module, locations, token>>
        /\ ctx' = [i \in DOMAIN ctx |-> IF i \in gone THEN "destroyed" ELSE ctx[i]]
        /\ live' = live \ {paths[i] : i \in gone}
        /\ pc' = (IF pc = "release" THEN "token" ELSE "end")
        /\ verdict' = (IF pc = "release" THEN verdict
                       ELSE IF pc = "failed" THEN "failure" ELSE "success")
    BY <1>12 DEF Release, listing
  <2>2. \A i \in gone : ctx[i] = "open"
    BY DEF Releases
  <2>3. \A i \in DOMAIN ctx \ gone : ctx[i] = "open" => pc = "release" /\ i = token.module
    BY DEF Releases, Owned
  <2>4. /\ pc = "release" => token # NoToken /\ token.module \in DOMAIN ctx
                             /\ ctx[token.module] = "open" /\ token.module \notin gone
    BY DEF Modules, Holding, IsOpen, Released, Releases, Owned
  <2> HIDE DEF gone
  <2>5. /\ ctx' \in Seq({"open", "skipped", "destroyed"}) /\ DOMAIN ctx' = DOMAIN ctx
        /\ \A i \in DOMAIN ctx : ctx'[i] = "open" <=> ctx[i] = "open" /\ i \notin gone
        /\ \A i \in DOMAIN ctx : ctx'[i] = "open" => paths[i] \in live'
        /\ \A l \in live' : \E i \in DOMAIN ctx : ctx'[i] = "open" /\ paths[i] = l
        /\ \A i, j \in DOMAIN ctx :
             ctx'[i] = "open" /\ ctx'[j] = "open" /\ paths[i] = paths[j] => i = j
    <3>1. gone \in SUBSET DOMAIN ctx
      BY DEF gone
    <3> QED
      BY <2>1, <2>2, <3>1, DestroyedOnly DEF Modules
  <2>6. \A i \in DOMAIN ctx : ctx'[i] = "open" => pc = "release" /\ i = token.module
    BY <2>3, <2>5
  <2>7. Contexts'
    BY <2>1, <2>5 DEF Modules, Contexts, Listing, Using, Ending, Released
  <2>8. Owners'
    BY <2>1, <2>5, <2>6 DEF Owners, Released
  <2>9. Locations'
    BY <2>1 DEF Modules, Locations, Listing
  <2>10. Holding'
    BY <2>1, <2>4, <2>5, <2>6 DEF Modules, Holding, IsOpen, Using, Released
  <2> QED
    BY <2>7, <2>8, <2>9, <2>10 DEF Modules
<1>13. CASE Describe
  BY <1>13, ModulesStay DEF Describe, Listing, Ending, listing
<1>14. CASE Described
  BY <1>14, ModulesStay DEF Described, Listing, Ending, listing, outcome
<1>15. CASE /\ pc \in Using /\ pc' \in Using \cup Ending
            /\ UNCHANGED <<request, world, cards, loading, listing, outcome>>
  BY <1>15, ModulesStay DEF listing, outcome
<1>16. CASE MoveCard \/ UNCHANGED vars
  BY <1>16, ModulesStay DEF MoveCard, Move, listing, outcome, vars, tokenVars
<1> QED
  BY <1>1, <1>2, <1>3, <1>4, <1>5, <1>6, <1>7, <1>8, <1>9, <1>10, <1>11, <1>12, <1>13, <1>14, <1>15,
     <1>16, StepKinds

-----------------------------------------------------------------------------
(* Which card a command over PC/SC reaches.                                *)

NotSearched == Listing \cup {"release", "token", "create", "certificate", "message", "signer",
                             "opensession", "login", "sign", "identify"}

OverPcsc == {"match", "connect", "session"}

\* The reader that matched holds the card that is meant until somebody moves it, and
\* the connection is to the card in that reader.
Found ==
  /\ pc \in NotSearched => wanted = <<>> /\ matches = 0
  /\ pc \in NotSearched \cup {"match", "connect"} => connection = Empty /\ reached = Empty
  /\ pc = "match" => reader \in Nat /\ reader > 0
  /\ pc = "connect" => matches > 0
  /\ pc = "session" => connection # Empty
  /\ matches \in Nat /\ (matches > 0 => selected \in Readers)
  /\ wanted # <<>> => wanted[2] = meant
  /\ wanted # <<>> /\ matches > 0 /\ selected \notin disturbed => at[selected] = meant
  /\ wanted # <<>> /\ connection # Empty /\ selected \notin disturbed => connection = meant
  /\ wanted # <<>> /\ reached # Empty => reached = connection

\* What a description says is about one card.
Reports ==
  /\ IsSequence(report)
  /\ \A i \in DOMAIN report :
       report[i].exposed => report[i].retriesOf \in {report[i].card, Empty}

LEMMA FoundStays ==
  ASSUME Found, UNCHANGED <<at, selectionVars>>,
         pc' \in NotSearched => pc \in NotSearched,
         pc' \notin OverPcsc \/ UNCHANGED pc
  PROVE  Found'
BY DEF Found, OverPcsc, selectionVars, search

\* The card whose attempts are reported is the one with the CHUID.
LEMMA RetriesOfTheCard ==
  ASSUME NEW l, NEW c, Reported(l, c) # <<>>
  PROVE  Retries(Reported(l, c)) \in {c, Empty}
<1> DEFINE found == {r \in Readers : Matches(Reported(l, c), r)}
<1>1. Reported(l, c)[2] = c
  BY DEF Reported
<1>2. ASSUME NEW r \in found
      PROVE  at[r] = c
  BY <1>1, <1>2 DEF Matches
<1>3. CASE found = {}
  BY <1>3 DEF Retries
<1>4. CASE found # {}
  BY <1>2, <1>4 DEF Retries
<1> QED
  BY <1>3, <1>4

LEMMA FoundStep ==
  ASSUME Modules, Found, [Next]_vars
  PROVE  Found'
<1>1. CASE /\ Parse \/ UpdateTrust \/ FindModules \/ OpenModule \/ ModulesOpened \/ CountSlots
                \/ FillSlots \/ NextModule \/ ReadTokenInfo \/ ReadChuid \/ Choose \/ Release
                \/ Describe \/ Described
           /\ UNCHANGED Others
  <2>1. UNCHANGED <<at, selectionVars>>
    BY <1>1 DEF Others, Parse, UpdateTrust, FindModules, OpenModule, ModulesOpened, CountSlots,
           FillSlots, NextModule, ReadTokenInfo, ReadChuid, Choose, Release, Describe,
           Described, cards
  <2>2. /\ pc' \in NotSearched => pc \in NotSearched
        /\ pc' \notin OverPcsc \/ UNCHANGED pc
    BY <1>1 DEF Parse, UpdateTrust, FindModules, OpenModule, ModulesOpened, CountSlots,
           FillSlots, NextModule, ReadTokenInfo, ReadChuid, Choose, Release, Describe, Described,
           NotSearched, OverPcsc, Listing
  <2> QED
    BY <2>1, <2>2, FoundStays
<1>2. CASE StartCardCommand \/ IdentifyCard
  <2>1. /\ pc \in {"token", "identify"} /\ Search(TokenLibrary, TokenCard) /\ UNCHANGED at
    BY <1>2 DEF StartCardCommand, IdentifyCard, cards
  <2>2. wanted' # <<>> => wanted'[2] = meant'
    BY <2>1 DEF Search, Reported
  <2> QED
    BY <2>1, <2>2 DEF Search, Found, NotSearched, OverPcsc, Listing
<1>3. CASE MatchReader
  <2>1. /\ pc = "match" /\ reader <= NumReaders /\ reader \in Readers
        /\ UNCHANGED <<at, pc, wanted, meant, connection, reached>>
    BY <1>3, CardsAssumption DEF MatchReader, Found, Readers, cards
  <2>2. CASE Matches(wanted, reader)
    <3>1. /\ matches' = matches + 1 /\ selected' = reader
          /\ reader' = (IF wanted = <<>> THEN reader + 1 ELSE NumReaders + 1)
      BY <1>3, <2>2 DEF MatchReader
    <3>2. wanted # <<>> => at[reader] = meant
      BY <2>2 DEF Matches, Found
    <3>3. reader' \in Nat /\ reader' > 0 /\ matches' \in Nat /\ selected' \in Readers
      BY <2>1, <3>1, CardsAssumption DEF Found
    <3> QED
      BY <2>1, <3>1, <3>2, <3>3 DEF Found, NotSearched, OverPcsc, Listing
  <2>3. CASE ~ Matches(wanted, reader)
    BY <1>3, <2>1, <2>3 DEF MatchReader, Found, NotSearched, OverPcsc, Listing
  <2> QED
    BY <2>2, <2>3
<1>4. CASE Matched
  BY <1>4 DEF Matched, Found, NotSearched, OverPcsc, Listing, selectionVars, search, cards
<1>5. CASE Connect
  BY <1>5 DEF Connect, Found, NotSearched, OverPcsc, Listing, cards
<1>6. CASE CarryOut \/ CarryOutThroughModule \/ SignOverPcsc
  <2>1. /\ pc \in {"session", "token"} /\ pc' \in {"close", "failed", "signed"}
        /\ UNCHANGED <<at, search, disturbed>>
        /\ \/ reached' = reached
           \/ reached' = connection
           \/ pc = "token"
    BY <1>6 DEF CarryOut, CarryOutThroughModule, SignOverPcsc, cards
  <2> QED
    BY <2>1 DEF Found, NotSearched, OverPcsc, Listing, search
<1>7. CASE OpenInput \/ CreateOutput \/ ReadCertificate \/ ReadMessage \/ LoadSigner
  BY <1>7, FoundStays DEF OpenInput, CreateOutput, ReadCertificate, ReadMessage, LoadSigner,
           NotSearched, OverPcsc, cards
<1>8. CASE OpenSession \/ Login \/ SignDigest
  BY <1>8, FoundStays DEF OpenSession, Login, SignDigest, NotSearched, OverPcsc, cards
<1>9. CASE BeginSigning \/ AddTimestamps \/ EmitSigCreated \/ WriteOutput \/ Verify
  BY <1>9, FoundStays DEF BeginSigning, AddTimestamps, EmitSigCreated, WriteOutput, Verify,
           NotSearched, OverPcsc, Listing, cards
<1>10. CASE MoveCard
  <2>1. /\ UNCHANGED <<pc, search, reached>>
        /\ disturbed' = disturbed \cup {r \in Readers : at'[r] # at[r]}
    BY <1>10 DEF MoveCard, Move
  <2>2. selected \in Readers /\ selected \notin disturbed' =>
          selected \notin disturbed /\ at'[selected] = at[selected]
    BY <2>1
  <2> QED
    BY <2>1, <2>2 DEF Found, search
<1>11. CASE UNCHANGED vars
  BY <1>11, FoundStays DEF vars, tokenVars, cards
<1> QED
  BY <1>1, <1>2, <1>3, <1>4, <1>5, <1>6, <1>7, <1>8, <1>9, <1>10, <1>11 DEF Next, Step

LEMMA ReportsStep ==
  ASSUME Reports, [Next]_vars
  PROVE  Reports'
<1>1. CASE Describe
  <2>1. PICK next, l, c :
          \/ UNCHANGED report
          \/ report' = Append(report, [card |-> c, exposed |-> Reported(l, c) # <<>>,
                                       retriesOf |-> Retries(Reported(l, c))])
    BY <1>1 DEF Describe
  <2>2. PICK S : report \in Seq(S)
    BY DEF Reports, IsSequence
  <2> DEFINE x == [card |-> c, exposed |-> Reported(l, c) # <<>>,
                    retriesOf |-> Retries(Reported(l, c))]
  <2>3. x.exposed => x.retriesOf \in {x.card, Empty}
    BY RetriesOfTheCard
  <2>4. UNCHANGED report \/ report' = Append(report, x)
    BY <2>1
  <2> HIDE DEF x
  <2>5. CASE report' = Append(report, x)
    <3>1. /\ IsSequence(report') /\ Len(report) \in Nat /\ DOMAIN report = 1..Len(report)
          /\ DOMAIN report' = 1..Len(report) + 1 /\ report'[Len(report) + 1] = x
          /\ \A i \in 1..Len(report) : report'[i] = report[i]
      BY <2>2, <2>5, LastOf
    <3> QED
      BY <2>3, <3>1 DEF Reports
  <2> QED
    BY <2>4, <2>5 DEF Reports
<1>2. CASE ~ Describe
  <2>1. UNCHANGED report
    BY <1>2, StepKinds DEF Parse, UpdateTrust, FindModules, OpenModule, ModulesOpened,
           CountSlots, FillSlots, NextModule, ReadTokenInfo, ReadChuid, Choose, Release,
           Described, MoveCard, Move, outcome, vars, tokenVars
  <2> QED
    BY <2>1 DEF Reports
<1> QED
  BY <1>1, <1>2

-----------------------------------------------------------------------------
(* The command and the state of the program.                               *)

SigningOnly == {"create", "certificate", "message", "signer", "opensession", "login", "sign",
                "identify", "signed", "stamp", "encode", "write"}

Given == \E s \in Scenarios :
  request = s.request /\ world = s.world /\ DOMAIN fs = NamesOf(s.request) \cup DOMAIN s.files

\* A command that was refused comes to nothing, and only one that signs gets to the
\* states in which a signature is made.
Commanded ==
  /\ pc \notin {"start", "failed"} \cup Released \/ verdict = "success" => ~ Refused(request)
  /\ pc = "update" => Command(request) = "update-trust"
  /\ pc \in SigningOnly => Signs(request) /\ ~ BadArguments(request)
  /\ pc \in {"opensession", "login", "sign"} => request.slot # "9e"
  /\ pc = "identify" => request.slot = "9e"
  /\ pc \in OverPcsc /\ Signs(request) => request.slot = "9e" /\ ~ BadArguments(request)

\* A command that is not refused is one command.
LEMMA OneCommand ==
  ASSUME Given, ~ Refused(request), Signs(request)
  PROVE  Command(request) \in {"sign", "clearsign", "detach-sign"}
<1>1. IsFiniteSet(request.commands)
  BY ScenariosAssumption DEF Given
<1>2. IsFiniteSet(Commands(request))
  <2>1. IsFiniteSet({"detach-sign"})
    BY FS_Singleton
  <2> QED
    BY <1>1, <2>1 DEF Commands
<1>3. Cardinality(Commands(request)) = 1
  BY DEF Refused
<1>4. PICK c : Commands(request) = {c}
  BY <1>2, <1>3, FS_Singleton
<1>5. Command(request) = c /\ c \in {"sign", "clearsign", "detach-sign"}
  BY <1>4 DEF Command, Signs
<1> QED
  BY <1>5

LEMMA GivenStays ==
  ASSUME Given, [Next]_vars
  PROVE  Given' /\ UNCHANGED <<request, world>>
<1>1. UNCHANGED <<request, world>>
  BY StepKinds DEF Parse, UpdateTrust, FindModules, OpenModule, ModulesOpened, CountSlots,
         FillSlots, NextModule, ReadTokenInfo, ReadChuid, Choose, Release, Describe, Described,
         MoveCard, Move, vars, tokenVars
<1>2. DOMAIN fs' = DOMAIN fs
  <2>1. CASE CreateOutput
    BY <2>1 DEF CreateOutput
  <2>2. CASE WriteOutput
    BY <2>2 DEF WriteOutput
  <2>3. CASE OpenInput \/ ReadCertificate \/ ReadMessage \/ LoadSigner \/ OpenSession \/ Login
             \/ SignDigest \/ IdentifyCard \/ SignOverPcsc
    BY <2>3 DEF OpenInput, ReadCertificate, ReadMessage, LoadSigner, OpenSession, Login, SignDigest,
                IdentifyCard, SignOverPcsc, signingVars
  <2>4. CASE BeginSigning \/ AddTimestamps \/ EmitSigCreated \/ Verify \/ MoveCard
    BY <2>4 DEF BeginSigning, AddTimestamps, EmitSigCreated, Verify, MoveCard
  <2>5. CASE UNCHANGED signingVars
    BY <2>5 DEF signingVars
  <2>6. UNCHANGED Others => UNCHANGED signingVars
    BY DEF Others
  <2>7. UNCHANGED vars => UNCHANGED signingVars
    BY DEF vars
  <2> QED
    BY <2>1, <2>2, <2>3, <2>4, <2>5, <2>6, <2>7 DEF Next, Step
<1> QED
  BY <1>1, <1>2 DEF Given

LEMMA CommandedStep ==
  ASSUME Given, Modules, Commanded, [Next]_vars
  PROVE  Commanded'
<1>1. UNCHANGED request
  BY GivenStays
<1>2. CASE Parse
  BY <1>1, <1>2 DEF Parse, Commanded, Modules, Contexts, Released, SigningOnly, OverPcsc, outcome
<1>3. CASE UpdateTrust \/ FindModules \/ OpenModule \/ ModulesOpened \/ CountSlots \/ FillSlots
  BY <1>1, <1>3 DEF UpdateTrust, FindModules, OpenModule, ModulesOpened, CountSlots, FillSlots,
           Commanded, Modules, Contexts, Released, SigningOnly, OverPcsc, outcome
<1>4. CASE NextModule \/ ReadTokenInfo \/ ReadChuid \/ Choose \/ Describe \/ Described
  BY <1>1, <1>4 DEF NextModule, ReadTokenInfo, ReadChuid, Choose, Describe, Described,
           Commanded, Modules, Contexts, Released, SigningOnly, OverPcsc, outcome
<1>5. CASE Release
  BY <1>1, <1>5 DEF Release, Commanded, Modules, Contexts, Released, SigningOnly, OverPcsc
<1>6. CASE StartCardCommand
  <2>1. Command(request) \in CardCommands /\ pc = "token" /\ pc' = "match" /\ UNCHANGED verdict
    BY <1>6 DEF StartCardCommand, Search, outcome
  <2>2. ~ Refused(request)
    BY <2>1 DEF Commanded, Released
  <2>3. ~ Signs(request)
    BY <2>1, <2>2, OneCommand DEF CardCommands
  <2> QED
    BY <1>1, <2>1, <2>2, <2>3 DEF Commanded, Released, SigningOnly, OverPcsc
<1>7. CASE IdentifyCard
  BY <1>1, <1>7 DEF IdentifyCard, Search, Commanded, Released, SigningOnly, OverPcsc, outcome
<1>8. CASE MatchReader \/ Matched \/ Connect \/ CarryOut \/ CarryOutThroughModule
  BY <1>1, <1>8 DEF MatchReader, Matched, Connect, CarryOut, CarryOutThroughModule,
           Commanded, Modules, Contexts, Released, SigningOnly, OverPcsc, outcome
<1>9. CASE OpenInput \/ CreateOutput \/ ReadCertificate \/ ReadMessage \/ LoadSigner
  BY <1>1, <1>9 DEF OpenInput, CreateOutput, ReadCertificate, ReadMessage, LoadSigner,
           Commanded, Modules, Contexts, Released, SigningOnly, OverPcsc, outcome
<1>10. CASE OpenSession \/ Login \/ SignDigest \/ SignOverPcsc
  BY <1>1, <1>10 DEF OpenSession, Login, SignDigest, SignOverPcsc,
           Commanded, Modules, Contexts, Released, SigningOnly, OverPcsc, outcome
<1>11. CASE BeginSigning \/ AddTimestamps \/ EmitSigCreated \/ WriteOutput \/ Verify
  BY <1>1, <1>11 DEF BeginSigning, AddTimestamps, EmitSigCreated, WriteOutput, Verify,
           Commanded, Modules, Contexts, Released, SigningOnly, OverPcsc, outcome
<1>12. CASE MoveCard \/ UNCHANGED vars
  BY <1>1, <1>12 DEF MoveCard, Move, Commanded, outcome, vars, tokenVars
<1> QED
  BY <1>2, <1>3, <1>4, <1>5, <1>6, <1>7, <1>8, <1>9, <1>10, <1>11, <1>12 DEF Next, Step

-----------------------------------------------------------------------------
(* What is signed, and what is written.                                    *)

LEMMA SameRequest ==
  ASSUME UNCHANGED request
  PROVE  /\ Mode(request)' = Mode(request) /\ Input' = Input
         /\ OutputName(request)' = OutputName(request)
         /\ StampAsked(request)' = StampAsked(request) /\ Signs(request)' = Signs(request)
         /\ ComparesKeys' = ComparesKeys
BY DEF ComparesKeys, Mode, Input, Ext, Files, AlgorithmFromFiles, Is, EmbedsSignature,
       DetachSignCommand, OutputName, Signs, Commands, StampAsked, SignatureName, SignedName,
       FormatExtension, WithoutExt, Embeddable, IsSignatureFile, IsSignatureExtension, Stdin

LEMMA SignatureFields ==
  ASSUME NEW c
  PROVE  /\ SignatureBy(c).is = "signature" /\ SignatureBy(c).key = world.key[c]
         /\ SignatureBy(c) # NoSignature /\ SignatureBy(c).cert = certificate
         /\ SignatureBy(c).over = message
         /\ \A a : LET stamped == [SignatureBy(c) EXCEPT !.stamped = a]
                   IN /\ stamped.is = "signature" /\ stamped.key = world.key[c]
                      /\ stamped.cert = certificate /\ stamped.over = message /\ stamped.stamped = a
BY DEF SignatureBy, Signed, NoSignature

NotCertified == Listing \cup {"release", "token", "create", "certificate"}
Loaded == {"opensession", "login", "sign", "identify"} \cup OverPcsc
Sealed == {"signed", "stamp", "encode", "write"}
Unwritten == NotCertified \cup {"message", "signer"} \cup Loaded \cup Sealed
Embeds == Mode(request) = "embedded"
Done == pc = "close" \/ verdict = "success"

Begun == IF request.statusFd THEN <<"BEGIN_SIGNING">> ELSE <<>>
ReportedLines == IF request.statusFd THEN <<"BEGIN_SIGNING", SignatureType>> ELSE <<>>

\* The input is read as it was, except when a document is signed into itself.
Inputs ==
  /\ pc \in Unwritten =>
       \A n \in DOMAIN fs : fs[n] \in {NoFile, Plain(n)} \/ (fs[n] = EmptyFile /\ Embeds)
  /\ pc = "create" => Embeds
  /\ pc \in {"certificate", "message"} => Content(Input) # NoFile \/ Embeds
  /\ pc = "signer" => message = Plain(Input) \/ (Embeds /\ message.is # "message")
  /\ pc \in Loaded \cup Sealed => message = Plain(Input)

\* The certificate names the user from the moment it was read.
Certified ==
  pc \in {"message", "signer"} \cup Loaded \cup Sealed \/ Done =>
    Names(certificate, request.user) /\ statusOn = request.statusFd

\* The status lines follow the steps.
StatusLines ==
  /\ pc \in NotCertified \cup {"message", "signer"} => status = <<>>
  /\ pc \in Loaded \cup {"signed"} => status = IF Embeds THEN Begun ELSE <<>>
  /\ pc \in {"stamp", "encode"} => status = Begun
  /\ pc = "write" \/ Done => status = ReportedLines

\* The signature is over the input, and what was written is all of it.
Sealing ==
  /\ pc \in {"signed", "stamp"} => \E c : signature = SignatureBy(c)
  /\ pc \in Sealed \/ Done => signature.over = Plain(Input) /\ signature.cert = certificate
  /\ pc \in {"encode", "write"} \/ Done => (StampAsked(request) => signature.stamped = "this")
  /\ Done => Output = signature

Written == Signs(request) => Inputs /\ Certified /\ StatusLines /\ Sealing

LEMMA NotSigning ==
  ASSUME Given, ~ Refused(request),
         Command(request) \in
           CardCommands \cup {"update-trust", "info", "unlock", "print", "verify"}
  PROVE  ~ Signs(request)
BY OneCommand DEF CardCommands

\* The names of the invocation are names of files.
LEMMA InputNamed ==
  ASSUME Given
  PROVE  Input = Stdin \/ Input \in DOMAIN fs
<1>1. PICK s \in Scenarios : request = s.request /\ DOMAIN fs = NamesOf(request) \cup DOMAIN s.files
  BY DEF Given
<1>2. request.files \in Seq(Seq(STRING) \ {Stdin})
  BY <1>1, ScenariosAssumption
<1>3. CASE Files(request) # <<>>
  <2>1. Files(request) = request.files /\ request.files # <<>>
    BY <1>3 DEF Files
  <2>2. 1 \in DOMAIN request.files
    BY <1>2, <2>1
  <2>3. request.files[1] \in NamesOf(request)
    BY <2>2 DEF NamesOf
  <2> QED
    BY <1>1, <1>3, <2>1, <2>3 DEF Input
<1> QED
  BY <1>3 DEF Input

LEMMA OutputNamed ==
  ASSUME Given, Signs(request), ~ Refused(request), ~ BadArguments(request),
         OutputName(request) # NoName
  PROVE  OutputName(request) \in DOMAIN fs
BY DEF Given, NamesOf

LEMMA WrittenStay ==
  ASSUME Written,
         UNCHANGED <<request, world, fs, stdout, certificate, message, signature, statusOn,
                     status>>,
         \/ UNCHANGED <<pc, verdict>>
         \/ /\ pc' \in NotCertified \cup {"failed", "end"} /\ verdict' # "success"
            /\ pc' \in NotCertified => pc \in NotCertified
            /\ pc' = "create" => Embeds \/ pc = "create"
            /\ pc' = "certificate" => Content(Input) # NoFile \/ pc = "certificate"
         \/ /\ pc \in Loaded /\ pc' \in Loaded \cup {"failed"}
            /\ UNCHANGED verdict /\ verdict # "success"
         \/ Done /\ Done' /\ pc' \notin Unwritten
         \/ ~ Signs(request)
  PROVE  Written'
<1>1. /\ Embeds' = Embeds /\ Input' = Input /\ Output' = Output
      /\ StampAsked(request)' = StampAsked(request)
      /\ Signs(request)' = Signs(request) /\ Content(Input)' = Content(Input)
      /\ \A c : SignatureBy(c)' = SignatureBy(c)
  BY SameRequest DEF Embeds, Output, Content, Stdin, SignatureBy, Encoding
<1>2. /\ Names(certificate, request.user)' = Names(certificate, request.user)
      /\ Begun' = Begun /\ ReportedLines' = ReportedLines
  BY DEF Names, Begun, ReportedLines, SignatureType
<1>3. SUFFICES ASSUME Signs(request)
               PROVE  Inputs' /\ Certified' /\ StatusLines' /\ Sealing'
  BY <1>1 DEF Written
<1>4. Inputs /\ Certified /\ StatusLines /\ Sealing
  BY <1>3 DEF Written
<1> USE DEF NotCertified, Loaded, Sealed, Unwritten, Done, OverPcsc, Listing
<1>5. Inputs'
  BY <1>1, <1>3, <1>4 DEF Inputs
<1>6. Certified'
  BY <1>1, <1>2, <1>3, <1>4 DEF Certified
<1>7. StatusLines'
  BY <1>1, <1>2, <1>3, <1>4 DEF StatusLines
<1>8. Sealing'
  BY <1>1, <1>3, <1>4 DEF Sealing
<1> QED
  BY <1>5, <1>6, <1>7, <1>8

LEMMA AppendedLine ==
  ASSUME NEW a, NEW b
  PROVE  Append(<<a>>, b) = <<a, b>>
<1>1. <<a>> \in Seq({a, b}) /\ <<a, b>> \in Seq({a, b})
  OBVIOUS
<1>2. /\ Append(<<a>>, b) \in Seq({a, b}) /\ Len(Append(<<a>>, b)) = 2
      /\ Append(<<a>>, b)[1] = a /\ Append(<<a>>, b)[2] = b
  BY <1>1
<1>3. DEFINE s == Append(<<a>>, b)
             t == <<a, b>>
<1>4. /\ s \in Seq({a, b}) /\ t \in Seq({a, b}) /\ Len(s) = Len(t)
      /\ \A i \in 1..Len(s) : s[i] = t[i]
  BY <1>1, <1>2
<1> HIDE DEF s, t
<1>5. s = t
  BY <1>4, SeqEqual
<1> QED
  BY <1>5 DEF s, t

LEMMA WrittenStep ==
  ASSUME Given, Modules, Commanded, Written, [Next]_vars
  PROVE  Written'
<1> DEFINE same == UNCHANGED <<request, world, fs, stdout, certificate, message, signature,
                               statusOn, status>>
<1>1. UNCHANGED <<request, world>> /\ (pc \notin Released => verdict = "running")
  BY GivenStays DEF Modules, Contexts
<1>2. UNCHANGED Others => same
  BY <1>1 DEF Others, signingVars
<1>3. /\ Signs(request)' = Signs(request) /\ Embeds' = Embeds /\ Begun' = Begun /\ Input' = Input
       /\ StampAsked(request)' = StampAsked(request) /\ OutputName(request)' = OutputName(request)
       /\ Names(certificate, request.user)' = Names(certificate', request.user)
  BY <1>1, SameRequest DEF Embeds, Begun, Names
<1>4. Signs(request) => Inputs /\ Certified /\ StatusLines /\ Sealing
  BY DEF Written
<1>5. pc \notin Released /\ UNCHANGED verdict => verdict' # "success" /\ verdict # "success"
  BY <1>1
<1> DEFINE InputsStep == Signs(request) => Inputs'
           CertifiedStep == Signs(request) => Certified'
           StatusStep == Signs(request) => StatusLines'
           SealingStep == Signs(request) => Sealing'
<1>6. InputsStep /\ CertifiedStep /\ StatusStep /\ SealingStep => Written'
  BY <1>3 DEF Written
<1> USE DEF Listing, NotCertified, Loaded, Sealed, Unwritten, Done, OverPcsc, Released
<1>7. CASE /\ Parse \/ FindModules \/ OpenModule \/ ModulesOpened \/ CountSlots \/ FillSlots
                \/ NextModule \/ ReadTokenInfo \/ ReadChuid \/ Choose \/ Describe
           /\ UNCHANGED Others
  <2>1. /\ pc \in Listing /\ pc' \in Listing \cup {"release", "failed"} /\ UNCHANGED verdict
    BY <1>7 DEF Parse, FindModules, OpenModule, ModulesOpened, CountSlots, FillSlots, NextModule,
           ReadTokenInfo, ReadChuid, Choose, Describe, Listing, outcome
  <2> QED
    BY <1>1, <1>2, <1>7, <2>1, WrittenStay DEF NotCertified, Listing, Released
<1>8. CASE \/ UpdateTrust \/ Described \/ CarryOut \/ CarryOutThroughModule
           \/ StartCardCommand \/ Verify
  <2>1. /\ Command(request) \in
             CardCommands \cup {"update-trust", "info", "unlock", "print", "verify"}
        /\ pc \in {"update", "list", "session", "token"}
    BY <1>8 DEF UpdateTrust, Described, CarryOut, CarryOutThroughModule, StartCardCommand,
           Verify, Commanded
  <2>2. ~ Signs(request)
    BY <2>1, NotSigning DEF Commanded, Released
  <2> QED
    BY <1>1, <2>2, SameRequest DEF Written
<1>9. CASE Release /\ UNCHANGED Others
  <2>1. \/ pc = "release" /\ pc' = "token" /\ UNCHANGED verdict
        \/ pc = "failed" /\ pc' = "end" /\ verdict' = "failure"
        \/ pc = "close" /\ pc' = "end" /\ verdict' = "success"
    BY <1>9 DEF Release
  <2>2. CASE pc = "close"
    <3>1. pc' = "end" /\ verdict' = "success"
      BY <2>1, <2>2
    <3> QED
      BY <1>2, <1>9, <2>2, <3>1, WrittenStay DEF Done, Unwritten, NotCertified, Loaded, Sealed,
             OverPcsc, Listing
  <2>3. CASE pc # "close"
    <3>1. verdict = "running"
      BY <1>1, <1>9 DEF Release, Released
    <3> QED
      BY <1>2, <1>9, <2>1, <2>3, <3>1, WrittenStay DEF NotCertified, Listing
  <2> QED
    BY <2>2, <2>3
<1>10. CASE /\ MatchReader \/ Matched \/ Connect \/ IdentifyCard
           /\ UNCHANGED signingVars
  <2>1. /\ pc \in Loaded /\ pc' \in Loaded \cup {"failed"} /\ UNCHANGED verdict
    BY <1>10 DEF MatchReader, Matched, Connect, IdentifyCard, Search, Loaded, OverPcsc, outcome
  <2>2. same /\ verdict # "success"
    BY <1>1, <1>10, <2>1 DEF signingVars, Loaded, OverPcsc, Released
  <2> QED
    BY <2>1, <2>2, WrittenStay
<1>11. CASE OpenSession \/ Login
  <2>1. /\ pc \in Loaded /\ pc' \in Loaded \cup {"failed"} /\ UNCHANGED verdict
    BY <1>11 DEF OpenSession, Login, Loaded, OverPcsc, outcome
  <2>2. same /\ verdict # "success"
    BY <1>1, <1>11, <2>1 DEF OpenSession, Login, Loaded, OverPcsc, Released
  <2> QED
    BY <2>1, <2>2, WrittenStay
<1>12. CASE OpenInput
  <2>1. /\ pc = "token" /\ pc' \in {"create", "certificate", "failed"} /\ UNCHANGED verdict
        /\ pc' = "certificate" => Content(Input) # NoFile
        /\ pc' = "create" => Embeds
    BY <1>12 DEF OpenInput, outcome, Embeds
  <2>2. same /\ verdict' # "success"
    BY <1>1, <1>12, <2>1 DEF OpenInput, signingVars, Released
  <2> QED
    BY <2>1, <2>2, WrittenStay DEF NotCertified
<1>13. CASE CreateOutput
  <2>1. /\ pc = "create"
        /\ UNCHANGED <<verdict, stdout, certificate, message, signature, statusOn, status>>
        /\ \/ pc' = "certificate" /\ fs' = [fs EXCEPT ![OutputName(request)] = EmptyFile]
           \/ pc' = "failed" /\ UNCHANGED fs
    BY <1>13 DEF CreateOutput, outcome
  <2>2. InputsStep
    BY <1>1, <1>3, <1>4, <1>5, <2>1 DEF Inputs
  <2>3. CertifiedStep
    BY <1>1, <1>3, <1>4, <1>5, <2>1 DEF Certified
  <2>4. StatusStep
    BY <1>1, <1>3, <1>4, <1>5, <2>1 DEF StatusLines
  <2>5. SealingStep
    BY <1>1, <1>3, <1>4, <1>5, <2>1 DEF Sealing
  <2> QED
    BY <1>6, <2>2, <2>3, <2>4, <2>5
<1>14. CASE ReadCertificate
  <2>1. /\ pc = "certificate" /\ UNCHANGED <<verdict, fs, stdout, message, signature, status>>
        /\ \/ /\ pc' = "message" /\ statusOn' = request.statusFd
              /\ Names(certificate', request.user)
           \/ pc' = "failed"
    BY <1>14 DEF ReadCertificate, outcome
  <2>2. InputsStep
    BY <1>1, <1>3, <1>4, <1>5, <2>1 DEF Inputs, Content
  <2>3. CertifiedStep
    BY <1>1, <1>3, <1>4, <1>5, <2>1 DEF Certified
  <2>4. StatusStep
    BY <1>1, <1>3, <1>4, <1>5, <2>1 DEF StatusLines
  <2>5. SealingStep
    BY <1>1, <1>3, <1>4, <1>5, <2>1 DEF Sealing
  <2> QED
    BY <1>6, <2>2, <2>3, <2>4, <2>5
<1>15. CASE ReadMessage
  <2>1. /\ pc = "message"
        /\ UNCHANGED <<verdict, fs, stdout, certificate, signature, statusOn, status>>
        /\ pc' = "signer" /\ message' = Content(Input)
    BY <1>15 DEF ReadMessage, outcome
  <2>2. Signs(request) => Content(Input) = Plain(Input) \/ (Embeds /\ Content(Input).is # "message")
    <3>1. Input = Stdin => Content(Input) = Plain(Input)
      BY DEF Content
    <3>2. Input # Stdin => Content(Input) = fs[Input] /\ Input \in DOMAIN fs
      BY InputNamed DEF Content
    <3>3. NoFile.is # "message" /\ EmptyFile.is # "message"
      BY DEF NoFile, EmptyFile
    <3> QED
      BY <1>4, <2>1, <3>1, <3>2, <3>3 DEF Inputs
  <2>3. InputsStep
    BY <1>1, <1>3, <1>4, <1>5, <2>1, <2>2 DEF Inputs
  <2>4. CertifiedStep
    BY <1>1, <1>3, <1>4, <1>5, <2>1 DEF Certified
  <2>5. StatusStep
    BY <1>1, <1>3, <1>4, <1>5, <2>1 DEF StatusLines
  <2>6. SealingStep
    BY <1>1, <1>3, <1>4, <1>5, <2>1 DEF Sealing
  <2> QED
    BY <1>6, <2>3, <2>4, <2>5, <2>6
<1>16. CASE LoadSigner
  <2>1. /\ pc = "signer"
        /\ UNCHANGED <<verdict, fs, stdout, certificate, message, signature, statusOn>>
        /\ pc' \in {"failed", "identify", "opensession"}
        /\ pc' # "failed" =>
             /\ Embeds => message.is = "message"
             /\ IF Embeds THEN Emit("BEGIN_SIGNING") ELSE UNCHANGED status
    BY <1>16 DEF LoadSigner, outcome, Embeds
  <2>2. InputsStep
    BY <1>1, <1>3, <1>4, <1>5, <2>1 DEF Inputs
  <2>3. CertifiedStep
    BY <1>1, <1>3, <1>4, <1>5, <2>1 DEF Certified
  <2>4. StatusStep
    BY <1>1, <1>3, <1>4, <1>5, <2>1 DEF StatusLines, Emit, Begun, Certified
  <2>5. SealingStep
    BY <1>1, <1>3, <1>4, <1>5, <2>1 DEF Sealing
  <2> QED
    BY <1>6, <2>2, <2>3, <2>4, <2>5
<1>17. CASE SignDigest \/ SignOverPcsc
  <2>1. /\ pc \in {"sign", "session"} /\ pc' \in {"failed", "signed"}
        /\ UNCHANGED <<verdict, fs, stdout, certificate, message, statusOn, status>>
        /\ pc' = "signed" => \E c : signature' = SignatureBy(c)
    BY <1>17 DEF SignDigest, SignOverPcsc, outcome
  <2>2. \A c : /\ SignatureBy(c)' = SignatureBy(c)
              /\ SignatureBy(c).over = message /\ SignatureBy(c).cert = certificate
    BY <1>1, <2>1, SignatureFields, SameRequest DEF SignatureBy, Encoding
  <2>3. InputsStep
    BY <1>1, <1>3, <1>4, <1>5, <2>1 DEF Inputs
  <2>4. CertifiedStep
    BY <1>1, <1>3, <1>4, <1>5, <2>1 DEF Certified
  <2>5. StatusStep
    BY <1>1, <1>3, <1>4, <1>5, <2>1 DEF StatusLines
  <2>6. SealingStep
    BY <1>1, <1>3, <1>4, <1>5, <2>1, <2>2 DEF Sealing, Inputs
  <2> QED
    BY <1>6, <2>3, <2>4, <2>5, <2>6
<1>18. CASE BeginSigning
  <2>1. /\ pc = "signed"
        /\ UNCHANGED <<verdict, fs, stdout, certificate, message, signature, statusOn>>
        /\ pc' = IF StampAsked(request) THEN "stamp" ELSE "encode"
        /\ IF Embeds THEN UNCHANGED status ELSE Emit("BEGIN_SIGNING")
    BY <1>18 DEF BeginSigning, outcome, Embeds
  <2>2. \A c : SignatureBy(c)' = SignatureBy(c)
    BY <1>1, <2>1, SameRequest DEF SignatureBy, Encoding
  <2>3. InputsStep
    BY <1>1, <1>3, <1>4, <1>5, <2>1 DEF Inputs
  <2>4. CertifiedStep
    BY <1>1, <1>3, <1>4, <1>5, <2>1 DEF Certified
  <2>5. ASSUME Signs(request) PROVE StatusLines'
    <3>1. statusOn = request.statusFd
      BY <1>4, <2>1, <2>5 DEF Certified
    <3>2. status = IF Embeds THEN Begun ELSE <<>>
      BY <1>4, <2>1, <2>5 DEF StatusLines
    <3>3. status' = Begun
      BY <2>1, <3>1, <3>2 DEF Emit, Begun
    <3> QED
      BY <1>1, <1>3, <1>5, <2>1, <3>3 DEF StatusLines
  <2>6. SealingStep
    BY <1>1, <1>3, <1>4, <1>5, <2>1, <2>2 DEF Sealing
  <2> QED
    BY <1>6, <2>3, <2>4, <2>5, <2>6
<1>19. CASE AddTimestamps
  <2>1. /\ pc = "stamp" /\ pc' \in {"failed", "encode"}
        /\ UNCHANGED <<verdict, fs, stdout, certificate, message, statusOn, status>>
        /\ pc' = "encode" => signature' = [signature EXCEPT !.stamped = "this"]
    BY <1>19 DEF AddTimestamps, StampMatches, outcome
  <2>2. Signs(request) => \E c : signature = SignatureBy(c)
    BY <1>4, <2>1 DEF Sealing
  <2>3. Signs(request) /\ pc' = "encode" =>
          /\ signature'.stamped = "this"
          /\ signature'.over = signature.over /\ signature'.cert = signature.cert
    <3>1. SUFFICES ASSUME Signs(request), pc' = "encode"
                   PROVE  /\ signature'.stamped = "this"
                          /\ signature'.over = signature.over /\ signature'.cert = signature.cert
      OBVIOUS
    <3>2. PICK c : signature = SignatureBy(c)
      BY <2>2, <3>1
    <3>3. signature' = [SignatureBy(c) EXCEPT !.stamped = "this"]
      BY <2>1, <3>1, <3>2
    <3>4. SignatureBy(c).over = message /\ SignatureBy(c).cert = certificate
      BY SignatureFields
    <3>5. /\ [SignatureBy(c) EXCEPT !.stamped = "this"].over = message
          /\ [SignatureBy(c) EXCEPT !.stamped = "this"].cert = certificate
          /\ [SignatureBy(c) EXCEPT !.stamped = "this"].stamped = "this"
      BY SignatureFields
    <3> QED
      BY <3>2, <3>3, <3>4, <3>5
  <2>4. InputsStep
    BY <1>1, <1>3, <1>4, <1>5, <2>1 DEF Inputs
  <2>5. CertifiedStep
    BY <1>1, <1>3, <1>4, <1>5, <2>1 DEF Certified
  <2>6. StatusStep
    BY <1>1, <1>3, <1>4, <1>5, <2>1 DEF StatusLines
  <2>7. SealingStep
    BY <1>1, <1>3, <1>4, <1>5, <2>1, <2>3 DEF Sealing
  <2> QED
    BY <1>6, <2>4, <2>5, <2>6, <2>7
<1>20. CASE EmitSigCreated
  <2>1. /\ pc = "encode" /\ pc' = "write"
        /\ UNCHANGED <<verdict, fs, stdout, certificate, message, signature, statusOn>>
        /\ Emit(SignatureType)
    BY <1>20 DEF EmitSigCreated, outcome
  <2>2. SignatureType' = SignatureType
    BY <2>1 DEF SignatureType
  <2>3. Append(<<"BEGIN_SIGNING">>, SignatureType) = <<"BEGIN_SIGNING", SignatureType>>
    BY AppendedLine
  <2>4. Signs(request) => status' = ReportedLines
    <3>1. SUFFICES ASSUME Signs(request)
                   PROVE  status' = ReportedLines
      OBVIOUS
    <3>2. statusOn = request.statusFd /\ status = Begun
      BY <1>4, <2>1, <3>1 DEF Certified, StatusLines
    <3>3. CASE request.statusFd
      BY <2>1, <2>3, <3>2, <3>3 DEF Emit, Begun, ReportedLines
    <3>4. CASE ~ request.statusFd
      BY <2>1, <3>2, <3>4 DEF Emit, Begun, ReportedLines
    <3> QED
      BY <3>3, <3>4
  <2>5. ReportedLines' = ReportedLines
    BY <1>1, <2>2 DEF ReportedLines
  <2>6. InputsStep
    BY <1>1, <1>3, <1>4, <1>5, <2>1 DEF Inputs
  <2>7. CertifiedStep
    BY <1>1, <1>3, <1>4, <1>5, <2>1 DEF Certified
  <2>8. StatusStep
    BY <1>1, <1>3, <1>4, <1>5, <2>1, <2>4, <2>5 DEF StatusLines
  <2>9. SealingStep
    BY <1>1, <1>3, <1>4, <1>5, <2>1 DEF Sealing
  <2> QED
    BY <1>6, <2>6, <2>7, <2>8, <2>9
<1>21. CASE WriteOutput
  <2>1. /\ pc = "write" /\ UNCHANGED <<verdict, certificate, message, signature, statusOn, status>>
        /\ pc' \in {"failed", "close"}
        /\ pc' = "close" =>
             IF OutputName(request) = NoName THEN stdout' = signature
             ELSE fs' = [fs EXCEPT ![OutputName(request)] = signature]
    BY <1>21 DEF WriteOutput, outcome
  <2>2. ReportedLines' = ReportedLines
    BY <1>1, <2>1 DEF ReportedLines, SignatureType
  <2>3. Signs(request) /\ pc' = "close" => Output' = signature
    <3>1. Signs(request) => ~ Refused(request) /\ ~ BadArguments(request)
      BY <2>1 DEF Commanded, SigningOnly
    <3>2. Signs(request) /\ OutputName(request) # NoName => OutputName(request) \in DOMAIN fs
      BY <3>1, OutputNamed
    <3> QED
      BY <1>3, <2>1, <3>2 DEF Output
  <2>4. InputsStep
    BY <1>1, <1>3, <1>4, <1>5, <2>1 DEF Inputs
  <2>5. CertifiedStep
    BY <1>1, <1>3, <1>4, <1>5, <2>1 DEF Certified
  <2>6. StatusStep
    BY <1>1, <1>3, <1>4, <1>5, <2>1, <2>2 DEF StatusLines
  <2>7. SealingStep
    BY <1>1, <1>3, <1>4, <1>5, <2>1, <2>3 DEF Sealing
  <2> QED
    BY <1>6, <2>4, <2>5, <2>6, <2>7
<1>22. CASE MoveCard \/ UNCHANGED vars
  <2>1. same /\ UNCHANGED <<pc, verdict>>
    BY <1>1, <1>22 DEF MoveCard, Move, vars, tokenVars, signingVars, outcome
  <2> QED
    BY <2>1, WrittenStay
<1>23. IdentifyCard => UNCHANGED signingVars
  BY DEF IdentifyCard
<1>24. CASE Next
  BY <1>7, <1>8, <1>9, <1>10, <1>11, <1>12, <1>13, <1>14, <1>15, <1>16, <1>17, <1>18, <1>19,
     <1>20, <1>21, <1>22, <1>23, <1>24 DEF Next, Step
<1> QED
  BY <1>22, <1>24

-----------------------------------------------------------------------------
(* What a signature that is done is verified with.                         *)

\* The input has been opened.
Opened == {"certificate", "message", "signer"} \cup Loaded \cup Sealed

\* What was opened is still there when the command is done, unless the signature was
\* written over it, and the signature is what the options say it should be.
Origin ==
  /\ NoName \in DOMAIN fs => fs[NoName] = NoFile
  /\ Signs(request) =>
       /\ pc \in Opened \/ Done =>
            Content(Input) = Plain(Input) \/ Embeds \/ (Done /\ Input = OutputName(request))
       /\ Done => ~ BadArguments(request)
       /\ pc \in Sealed \/ Done => signature.kind = Encoding(request).kind

LEMMA SameEncoding ==
  ASSUME UNCHANGED request
  PROVE  /\ Encoding(request)' = Encoding(request) /\ BadArguments(request)' = BadArguments(request)
         /\ Embeds' = Embeds
BY SameRequest DEF Encoding, BadArguments, Embeds, FileFormatRefused, FormatExtension, Files,
   AlgorithmFromFiles, Is, IsSignatureExtension

LEMMA OriginStays ==
  ASSUME Origin, UNCHANGED <<request, fs, signature>>,
         \/ ~ Signs(request)
         \/ /\ pc' \in Opened => pc \in Opened
            /\ pc' \in Sealed => pc \in Sealed
            /\ Done' => Done
            /\ Done /\ ~ Done' => pc' \notin Opened
  PROVE  Origin'
<1>1. /\ Input' = Input /\ OutputName(request)' = OutputName(request)
      /\ Signs(request)' = Signs(request) /\ Content(Input)' = Content(Input)
  BY SameRequest DEF Content, Stdin
<1> QED
  BY <1>1, SameEncoding DEF Origin

LEMMA NameWithExt ==
  ASSUME NEW name
  PROVE  /\ Len(name) < 2 => Ext(name) = ""
         /\ ~ (Len(name) < 2) =>
              Ext(name) = name[Len(name)] /\ WithoutExt(name) = SubSeq(name, 1, Len(name) - 1)
BY Zenon DEF Ext, WithoutExt

\* The name of a signature file comes apart into what it was made of.
LEMMA SignatureNameParts ==
  ASSUME NEW f \in Seq(STRING), f # <<>>, NEW e
  PROVE  /\ Len(Append(f, e)) >= 2 /\ Append(f, e) # f
         /\ Ext(Append(f, e)) = e /\ WithoutExt(Append(f, e)) = f
<1> DEFINE S == STRING \cup {e}
           name == Append(f, e)
           cut == SubSeq(name, 1, Len(f))
<1>1. f \in Seq(S) /\ e \in S
  OBVIOUS
<1>2. Len(f) \in Nat /\ Len(f) # 0
  BY <1>1
<1> HIDE DEF S
<1>3. /\ name \in Seq(S) /\ Len(name) = Len(f) + 1 /\ name[Len(f) + 1] = e
      /\ \A i \in 1..Len(f) : name[i] = f[i]
  BY <1>1, AppendProperties
<1> HIDE DEF name
<1>4. /\ Len(name) >= 2 /\ name # f /\ ~ (Len(name) < 2)
      /\ Len(name) - 1 = Len(f)
  BY <1>2, <1>3
<1>5. Ext(name) = name[Len(name)] /\ WithoutExt(name) = SubSeq(name, 1, Len(name) - 1)
  BY <1>4, NameWithExt
<1>6. Ext(name) = e /\ WithoutExt(name) = cut
  BY <1>3, <1>4, <1>5
<1>7. cut \in Seq(S) /\ Len(cut) = Len(f) /\ \A i \in 1..Len(f) : cut[i] = name[i]
  BY <1>2, <1>3
<1>8. \A i \in 1..Len(cut) : cut[i] = f[i]
  BY <1>3, <1>7
<1> HIDE DEF cut
<1>9. cut = f
  BY <1>1, <1>7, <1>8, SeqEqual
<1> QED
  BY <1>4, <1>6, <1>9 DEF name

\* The name of a signed document keeps the extension of the document.
LEMMA SignedNameParts ==
  ASSUME NEW f \in Seq(STRING), Embeddable(f)
  PROVE  Len(SignedName(f)) >= 2 /\ Ext(SignedName(f)) = Ext(f)
<1>1. PICK e : e = Ext(f)
  OBVIOUS
<1> DEFINE S == STRING \cup {"signed", e}
           stem == WithoutExt(f)
           tail == <<"signed", e>>
           name == stem \o tail
<1>2. e # "" /\ Ext(f) # ""
  BY <1>1, Zenon DEF Embeddable, DocumentExtensions
<1>3. ~ (Len(f) < 2) /\ stem = SubSeq(f, 1, Len(f) - 1)
  BY <1>2, NameWithExt
<1>4. tail \in Seq(S) /\ Len(tail) = 2 /\ tail[2] = e
  OBVIOUS
<1>5. SignedName(f) = name
  BY <1>1, <1>2, Zenon DEF SignedName
<1>6. f \in Seq(S) /\ Len(f) \in Nat
  OBVIOUS
<1> HIDE DEF S, tail
<1>7. stem \in Seq(S) /\ Len(stem) \in Nat
  BY <1>3, <1>6
<1> HIDE DEF stem
<1>8. name \in Seq(S) /\ Len(name) = Len(stem) + 2 /\ name[Len(stem) + 2] = tail[2]
  <2>1. PICK n \in Nat : n = Len(stem)
    BY <1>7
  <2>2. n + 2 \in 1..n + 2 /\ ~ (n + 2 <= n) /\ n + 2 - n = 2
    BY <2>1
  <2>3. /\ name \in Seq(S) /\ Len(name) = n + 2
        /\ \A i \in 1..n + 2 : name[i] = IF i <= n THEN stem[i] ELSE tail[i - n]
    <3>1. /\ name \in Seq(S) /\ Len(name) = Len(stem) + Len(tail)
          /\ \A i \in 1..Len(stem) + Len(tail) :
               name[i] = IF i <= Len(stem) THEN stem[i] ELSE tail[i - Len(stem)]
      BY <1>4, <1>7, ConcatProperties, Zenon
    <3> HIDE DEF name
    <3> QED
      BY <1>4, <2>1, <3>1
  <2> QED
    BY <2>1, <2>2, <2>3
<1> HIDE DEF name
<1>9. Len(name) >= 2 /\ ~ (Len(name) < 2) /\ name[Len(name)] = e
  BY <1>4, <1>7, <1>8
<1>10. Ext(name) = e
  BY <1>9, NameWithExt
<1> QED
  BY <1>1, <1>5, <1>9, <1>10

LEMMA FilesAreNames ==
  ASSUME Given, Files(request) # <<>>
  PROVE  /\ Files(request) = request.files /\ Input = Files(request)[1]
         /\ Input \in Seq(STRING) /\ Input # Stdin /\ Input \in DOMAIN fs
<1>1. request.files \in Seq(Seq(STRING) \ {Stdin})
  BY ScenariosAssumption DEF Given
<1>2. Files(request) = request.files /\ request.files # <<>>
  BY DEF Files
<1>3. Input = request.files[1] /\ request.files[1] \in Seq(STRING) \ {Stdin}
  BY <1>1, <1>2 DEF Input
<1> QED
  BY <1>2, <1>3, InputNamed

\* What has no name is never written.
LEMMA EmbedsIntoAName ==
  ASSUME Given, Embeds
  PROVE  OutputName(request) # NoName
<1>1. EmbedsSignature(request) /\ Mode(request) = "embedded"
  BY DEF Embeds, Mode
<1>2. Len(Files(request)) = 1 /\ Embeddable(Files(request)[1])
  BY <1>1, Zenon DEF EmbedsSignature
<1>3. Files(request) # <<>>
  BY <1>2
<1>4. Len(SignedName(Input)) >= 2 /\ Input = Files(request)[1]
  BY <1>2, <1>3, FilesAreNames, SignedNameParts
<1> QED
  BY <1>1, <1>4 DEF OutputName, NoName

LEMMA OriginStep ==
  ASSUME Given, Modules, Commanded, Written, Origin, [Next]_vars
  PROVE  Origin'
<1> DEFINE same == UNCHANGED <<request, fs, signature>>
<1>1. UNCHANGED request /\ (pc \notin Released => verdict = "running")
  BY GivenStays DEF Modules, Contexts
<1>2. UNCHANGED Others \/ UNCHANGED signingVars => same
  BY <1>1 DEF Others, signingVars
<1>3. /\ Signs(request)' = Signs(request) /\ Embeds' = Embeds /\ Input' = Input
      /\ OutputName(request)' = OutputName(request)
      /\ Encoding(request)' = Encoding(request)
      /\ BadArguments(request)' = BadArguments(request)
  BY <1>1, SameRequest, SameEncoding
<1>4. pc \notin Released /\ UNCHANGED verdict => verdict' # "success" /\ verdict # "success"
  BY <1>1
<1> USE DEF Listing, NotCertified, Loaded, Sealed, Opened, Done, OverPcsc, Released
<1>5. CASE /\ Parse \/ FindModules \/ OpenModule \/ ModulesOpened \/ CountSlots \/ FillSlots
                \/ NextModule \/ ReadTokenInfo \/ ReadChuid \/ Choose \/ Describe
           /\ UNCHANGED Others
  <2>1. pc \in Listing /\ pc' \in Listing \cup {"release", "failed"} /\ UNCHANGED verdict
    BY <1>5 DEF Parse, FindModules, OpenModule, ModulesOpened, CountSlots, FillSlots, NextModule,
           ReadTokenInfo, ReadChuid, Choose, Describe, outcome
  <2> QED
    BY <1>2, <1>4, <1>5, <2>1, OriginStays
<1>6. CASE \/ (UpdateTrust \/ Described) /\ UNCHANGED Others
           \/ (CarryOut \/ CarryOutThroughModule \/ StartCardCommand) /\ UNCHANGED signingVars
           \/ Verify
  <2>1. /\ Command(request) \in
             CardCommands \cup {"update-trust", "info", "unlock", "print", "verify"}
        /\ pc \in {"update", "list", "session", "token"}
    BY <1>6 DEF UpdateTrust, Described, CarryOut, CarryOutThroughModule, StartCardCommand,
           Verify, Commanded
  <2>2. ~ Signs(request)
    BY <2>1, NotSigning DEF Commanded
  <2>3. same
    BY <1>1, <1>2, <1>6 DEF Verify
  <2> QED
    BY <2>2, <2>3, OriginStays
<1>7. CASE Release /\ UNCHANGED Others
  <2>1. \/ pc = "release" /\ pc' = "token" /\ UNCHANGED verdict
        \/ pc = "failed" /\ pc' = "end" /\ verdict' = "failure"
        \/ pc = "close" /\ pc' = "end" /\ verdict' = "success"
    BY <1>7 DEF Release
  <2> QED
    BY <1>2, <1>4, <1>7, <2>1, OriginStays
<1>8. CASE /\ MatchReader \/ Matched \/ Connect \/ IdentifyCard
           /\ UNCHANGED signingVars
  <2>1. pc \in Loaded /\ pc' \in Loaded \cup {"failed"} /\ UNCHANGED verdict
    BY <1>8 DEF MatchReader, Matched, Connect, IdentifyCard, Search, outcome
  <2> QED
    BY <1>2, <1>4, <1>8, <2>1, OriginStays
<1>9. CASE \/ OpenSession \/ Login \/ LoadSigner \/ BeginSigning \/ EmitSigCreated
           \/ ReadCertificate \/ ReadMessage
  <2>1. /\ pc \in Opened /\ pc' \in Opened \cup {"failed"} /\ UNCHANGED verdict
        /\ pc' \in Sealed => pc \in Sealed
    BY <1>9 DEF OpenSession, Login, LoadSigner, BeginSigning, EmitSigCreated, ReadCertificate,
           ReadMessage, outcome
  <2>2. same
    BY <1>1, <1>9 DEF OpenSession, Login, LoadSigner, BeginSigning, EmitSigCreated,
           ReadCertificate, ReadMessage
  <2> QED
    BY <1>4, <2>1, <2>2, OriginStays
<1>10. CASE OpenInput
  <2>1. /\ pc = "token" /\ pc' \in {"create", "certificate", "failed"}
        /\ UNCHANGED <<verdict, fs, signature>>
        /\ pc' = "certificate" => Content(Input) # NoFile
    BY <1>10 DEF OpenInput, outcome, signingVars
  <2>2. Signs(request) /\ pc' = "certificate" => Content(Input) = Plain(Input) \/ Embeds
    <3>1. Input = Stdin => Content(Input) = Plain(Input)
      BY DEF Content
    <3>2. Input # Stdin => Content(Input) = fs[Input] /\ Input \in DOMAIN fs
      BY InputNamed DEF Content
    <3> QED
      BY <2>1, <3>1, <3>2 DEF Written, Inputs, Unwritten
  <2>3. Content(Input)' = Content(Input)
    BY <1>3, <2>1 DEF Content
  <2> QED
    BY <1>3, <1>4, <2>1, <2>2, <2>3 DEF Origin
<1>11. CASE CreateOutput
  <2>1. /\ pc = "create" /\ pc' \in {"certificate", "failed"} /\ UNCHANGED <<verdict, signature>>
        /\ UNCHANGED fs \/ fs' = [fs EXCEPT ![OutputName(request)] = EmptyFile]
    BY <1>11 DEF CreateOutput, outcome
  <2>2. Signs(request) /\ Embeds
    BY <2>1 DEF Written, Inputs, Commanded, SigningOnly
  <2>3. OutputName(request) # NoName
    BY <2>2, EmbedsIntoAName
  <2> QED
    BY <1>3, <1>4, <2>1, <2>2, <2>3 DEF Origin
<1>12. CASE SignDigest \/ SignOverPcsc
  <2>1. /\ pc \in Loaded /\ pc' \in {"failed", "signed"} /\ UNCHANGED <<verdict, fs>>
        /\ pc' = "signed" => \E c : signature' = SignatureBy(c)
    BY <1>12 DEF SignDigest, SignOverPcsc, outcome
  <2>2. \A c : SignatureBy(c).kind = Encoding(request).kind
    BY DEF SignatureBy, Signed
  <2>3. Content(Input)' = Content(Input)
    BY <1>3, <2>1 DEF Content
  <2> QED
    BY <1>3, <1>4, <2>1, <2>2, <2>3 DEF Origin
<1>13. CASE AddTimestamps
  <2>1. /\ pc = "stamp" /\ pc' \in {"failed", "encode"} /\ UNCHANGED <<verdict, fs>>
        /\ pc' = "encode" => signature' = [signature EXCEPT !.stamped = "this"]
    BY <1>13 DEF AddTimestamps, StampMatches, outcome
  <2>2. Signs(request)
    BY <2>1 DEF Commanded, SigningOnly
  <2>3. pc' = "encode" => signature'.kind = signature.kind
    <3>1. PICK c : signature = SignatureBy(c)
      BY <2>1, <2>2 DEF Written, Sealing
    <3> QED
      BY <2>1, <3>1 DEF SignatureBy, Signed
  <2>4. Content(Input)' = Content(Input)
    BY <1>3, <2>1 DEF Content
  <2> QED
    BY <1>3, <1>4, <2>1, <2>2, <2>3, <2>4 DEF Origin
<1>14. CASE WriteOutput
  <2>1. /\ pc = "write" /\ pc' \in {"failed", "close"} /\ UNCHANGED <<verdict, signature>>
        /\ \/ UNCHANGED fs
           \/ /\ OutputName(request) # NoName
              /\ \E c : fs' = [fs EXCEPT ![OutputName(request)] = c]
    BY <1>14 DEF WriteOutput, outcome
  <2>2. Signs(request) /\ ~ BadArguments(request)
    BY <2>1 DEF Commanded, SigningOnly
  <2>3. Content(Input)' = Content(Input) \/ Input = OutputName(request)
    BY <1>3, <2>1, InputNamed DEF Content
  <2> QED
    BY <1>3, <1>4, <2>1, <2>2, <2>3 DEF Origin
<1>15. CASE MoveCard \/ UNCHANGED vars
  <2>1. same /\ UNCHANGED <<pc, verdict>>
    BY <1>1, <1>15 DEF MoveCard, Move, vars, tokenVars, signingVars, outcome
  <2> QED
    BY <2>1, OriginStays
<1>16. IdentifyCard => UNCHANGED signingVars
  BY DEF IdentifyCard
<1>17. CASE Next
  BY <1>5, <1>6, <1>7, <1>8, <1>9, <1>10, <1>11, <1>12, <1>13, <1>14, <1>15, <1>16, <1>17
     DEF Next, Step
<1> QED
  BY <1>15, <1>17

-----------------------------------------------------------------------------
(* Whose key signs.                                                        *)

NotSigned == NotSearched \cup OverPcsc
Untouched == moved \cap {"message", "signer"} = {}
Kept == moved \cap {"opensession", "identify"} = {} /\ (ComparesKeys \/ Untouched)
Chosen9e == request.slot = "9e" => wanted # <<>> /\ selected \notin disturbed

\* As long as nobody exchanges the card, the card of the certificate is the one that is
\* read, opened, looked for, connected to and used to sign.
Keys ==
  /\ pc \in NotSigned => signature = NoSignature
  /\ Signs(request) =>
       /\ pc \in {"message", "signer"} /\ Untouched => TokenCard = certificate
       /\ pc \in {"opensession", "identify"} /\ Kept => TokenCard = certificate
       /\ pc \in {"login", "sign"} /\ Kept => session = certificate
       /\ pc \in OverPcsc /\ Kept => meant = certificate
  /\ signature.is # "none" /\ Kept /\ Chosen9e /\ world.key[certificate] = certificate =>
       signature.key = certificate

\* What the invariant speaks about is as it was.
LEMMA KeysStay ==
  ASSUME Keys, UNCHANGED <<request, world, moved, wanted, selected, disturbed>>,
         UNCHANGED <<certificate, signature>>,
         pc' \in NotSigned => pc \in NotSigned,
         pc' \in {"message", "signer"} => pc \in {"message", "signer"} /\ TokenCard' = TokenCard,
         pc' \in {"opensession", "identify"} => pc' = pc /\ TokenCard' = TokenCard,
         pc' \in {"login", "sign"} => pc \in {"login", "sign"} /\ session' = session,
         pc' \in OverPcsc => pc \in OverPcsc /\ meant' = meant
  PROVE  Keys'
BY SameRequest DEF Keys, Kept, Untouched, Chosen9e

LEMMA KeysStep ==
  ASSUME Given, Modules, Found, Commanded, Written, Keys, [Next]_vars
  PROVE  Keys'
<1>1. UNCHANGED <<request, world>>
  BY GivenStays
<1>2. CASE /\ Parse \/ UpdateTrust \/ FindModules \/ OpenModule \/ ModulesOpened \/ CountSlots
                \/ FillSlots \/ NextModule \/ ReadTokenInfo \/ ReadChuid \/ Choose \/ Release
                \/ Describe \/ Described
           /\ UNCHANGED Others
  <2>1. /\ UNCHANGED <<moved, wanted, selected, disturbed, certificate, signature>>
    BY <1>2 DEF Others, selectionVars, search, signingVars
  <2>2. /\ pc \notin Using /\ pc' \in Listing \cup Ending \cup {"token", "release", "end"}
        /\ pc' \in NotSigned => pc \in NotSigned
    BY <1>2 DEF Parse, UpdateTrust, FindModules, OpenModule, ModulesOpened, CountSlots,
           FillSlots, NextModule, ReadTokenInfo, ReadChuid, Choose, Release, Describe, Described,
           NotSigned, NotSearched, OverPcsc, Listing, Using, Ending
  <2> QED
    BY <1>1, <2>1, <2>2, KeysStay DEF Listing, Ending, OverPcsc
<1>3. CASE StartCardCommand /\ UNCHANGED signingVars
  <2>1. Command(request) \in CardCommands /\ pc = "token" /\ UNCHANGED signature
    BY <1>3 DEF StartCardCommand, signingVars
  <2>2. ~ Signs(request)
    BY <2>1, OneCommand DEF CardCommands, Commanded, Released
  <2> QED
    BY <1>1, <2>1, <2>2, SameRequest DEF Keys, NotSigned, NotSearched, NoSignature
<1>4. CASE IdentifyCard
  <2>1. /\ pc = "identify" /\ pc' = "match" /\ meant' = TokenCard
        /\ UNCHANGED <<moved, certificate, signature>>
    BY <1>4 DEF IdentifyCard, Search, signingVars
  <2>2. signature = NoSignature
    BY <2>1 DEF Keys, NotSigned, NotSearched
  <2> QED
    BY <1>1, <2>1, <2>2, SameRequest DEF Keys, Kept, Untouched, OverPcsc, NotSigned, NotSearched,
         NoSignature
<1>5. CASE MatchReader /\ UNCHANGED signingVars
  <2>1. /\ pc = "match" /\ pc' = pc /\ UNCHANGED <<moved, certificate, signature, meant>>
    BY <1>5 DEF MatchReader, signingVars
  <2>2. signature = NoSignature
    BY <2>1 DEF Keys, NotSigned, OverPcsc
  <2> QED
    BY <1>1, <2>1, <2>2, SameRequest DEF Keys, Kept, Untouched, OverPcsc, NotSigned, NotSearched,
         NoSignature
<1>6. CASE /\ Matched \/ Connect \/ CarryOut \/ CarryOutThroughModule
           /\ UNCHANGED signingVars
  BY <1>1, <1>6, KeysStay DEF Matched, Connect, CarryOut, CarryOutThroughModule, signingVars,
           selectionVars, search, NotSigned, NotSearched, OverPcsc, Listing
<1>7. CASE OpenInput \/ CreateOutput
  BY <1>1, <1>7, KeysStay DEF OpenInput, CreateOutput, signingVars,
           selectionVars, search, NotSigned, NotSearched, OverPcsc, Listing
<1>8. CASE ReadCertificate
  <2>1. /\ pc = "certificate" /\ pc' \in {"message", "failed"} /\ UNCHANGED <<moved, signature>>
        /\ UNCHANGED <<paths, token, at>> /\ (pc' = "message" => certificate' = TokenCard)
    BY <1>8 DEF ReadCertificate, loading, cards, outcome
  <2>2. signature = NoSignature /\ TokenCard' = TokenCard
    BY <1>1, <2>1 DEF Keys, NotSigned, NotSearched, TokenCard, TokenLibrary, CardOf
  <2> QED
    BY <1>1, <2>1, <2>2 DEF Keys, OverPcsc, NotSigned, NoSignature
<1>9. CASE ReadMessage
  <2>1. TokenCard' = TokenCard
    BY <1>1, <1>9 DEF ReadMessage, TokenCard, TokenLibrary, CardOf, loading, cards, outcome
  <2> QED
    BY <1>1, <1>9, <2>1, KeysStay DEF ReadMessage, selectionVars, search, NotSigned, NotSearched,
         OverPcsc, Listing
<1>10. CASE LoadSigner
  <2>1. /\ pc = "signer" /\ pc' \in {"failed", "identify", "opensession"}
        /\ UNCHANGED <<moved, signature, certificate, paths, token, at>>
        /\ pc' # "failed" => KeyAccepted(TokenCard)
    BY <1>10 DEF LoadSigner, loading, cards, outcome
  <2>2. signature = NoSignature /\ TokenCard' = TokenCard
    BY <1>1, <2>1 DEF Keys, NotSigned, NotSearched, TokenCard, TokenLibrary, CardOf
  <2>3. Signs(request) /\ pc' # "failed" /\ Kept => TokenCard = certificate
    BY <2>1 DEF Keys, Kept, KeyAccepted
  <2>4. Kept' = Kept
    BY <1>1, <2>1, SameRequest DEF Kept, Untouched
  <2> QED
    BY <1>1, <2>1, <2>2, <2>3, <2>4 DEF Keys, OverPcsc, NotSigned, NoSignature
<1>11. CASE OpenSession
  <2>1. /\ pc = "opensession" /\ pc' \in {"failed", "login"} /\ session' = TokenCard
        /\ UNCHANGED <<moved, signature, certificate>>
    BY <1>11 DEF OpenSession
  <2>2. signature = NoSignature
    BY <2>1 DEF Keys, NotSigned, NotSearched
  <2>3. Kept' = Kept
    BY <1>1, <2>1, SameRequest DEF Kept, Untouched
  <2> QED
    BY <1>1, <2>1, <2>2, <2>3 DEF Keys, OverPcsc, NotSigned, NoSignature
<1>12. CASE Login
  BY <1>1, <1>12, KeysStay DEF Login, selectionVars, search, NotSigned, NotSearched, OverPcsc,
         Listing
<1>13. CASE SignDigest
  <2>1. /\ pc = "sign" /\ UNCHANGED <<moved, certificate>>
        /\ \/ pc' = "signed" /\ signature' = SignatureBy(session)
           \/ pc' = "failed" /\ UNCHANGED signature
    BY <1>13 DEF SignDigest
  <2>2. signature = NoSignature /\ (Kept => session = certificate)
    BY <2>1 DEF Keys, NotSigned, NotSearched, Commanded, SigningOnly
  <2>3. Kept' = Kept
    BY <1>1, <2>1, SameRequest DEF Kept, Untouched
  <2>4. pc' \notin NotSigned /\ pc' \notin OverPcsc
    BY <2>1 DEF NotSigned, NotSearched, OverPcsc, Listing
  <2> QED
    BY <1>1, <2>1, <2>2, <2>3, <2>4, SignatureFields DEF Keys, NoSignature
<1>14. CASE SignOverPcsc
  <2>1. /\ pc = "session" /\ Signs(request)
        /\ UNCHANGED <<moved, certificate, wanted, selected, disturbed>>
        /\ \/ pc' = "signed" /\ signature' = SignatureBy(connection)
           \/ pc' = "failed" /\ UNCHANGED signature
    BY <1>14 DEF SignOverPcsc, search
  <2>2. signature = NoSignature /\ (Kept => meant = certificate) /\ request.slot = "9e"
    BY <2>1 DEF Keys, NotSigned, OverPcsc, Commanded
  <2>3. Kept /\ Chosen9e => connection = certificate
    BY <2>1, <2>2 DEF Found, Chosen9e
  <2>4. Kept' = Kept /\ Chosen9e' = Chosen9e
    BY <1>1, <2>1, SameRequest DEF Kept, Untouched, Chosen9e
  <2>5. pc' \notin NotSigned /\ pc' \notin OverPcsc
    BY <2>1 DEF NotSigned, NotSearched, OverPcsc, Listing
  <2> QED
    BY <1>1, <2>1, <2>2, <2>3, <2>4, <2>5, SignatureFields DEF Keys, NoSignature
<1>15. CASE AddTimestamps
  <2>1. /\ pc = "stamp" /\ pc' \in {"encode", "failed"}
        /\ UNCHANGED <<moved, certificate, wanted, selected, disturbed>>
        /\ signature' = signature \/ \E a : signature' = [signature EXCEPT !.stamped = a]
    BY <1>15 DEF AddTimestamps, selectionVars, search
  <2>2. PICK c : signature = SignatureBy(c)
    BY <2>1 DEF Commanded, SigningOnly, Written, Sealing
  <2>3. signature'.is = signature.is /\ signature'.key = signature.key
    <3>1. CASE signature' = signature
      BY <3>1
    <3>2. ASSUME NEW a, signature' = [signature EXCEPT !.stamped = a]
          PROVE  signature'.is = signature.is /\ signature'.key = signature.key
      <4>1. signature' = [SignatureBy(c) EXCEPT !.stamped = a]
        BY <2>2, <3>2
      <4>2. /\ [SignatureBy(c) EXCEPT !.stamped = a].is = "signature"
            /\ [SignatureBy(c) EXCEPT !.stamped = a].key = world.key[c]
        BY SignatureFields
      <4>3. SignatureBy(c).is = "signature" /\ SignatureBy(c).key = world.key[c]
        BY SignatureFields
      <4> QED
        BY <2>2, <4>1, <4>2, <4>3
    <3> QED
      BY <2>1, <3>1, <3>2
  <2>4. Kept' = Kept /\ Chosen9e' = Chosen9e
    BY <1>1, <2>1, SameRequest DEF Kept, Untouched, Chosen9e
  <2>5. pc' \notin NotSigned /\ pc' \notin OverPcsc
    BY <2>1 DEF NotSigned, NotSearched, OverPcsc, Listing
  <2> QED
    BY <1>1, <2>1, <2>3, <2>4, <2>5 DEF Keys
<1>16. CASE BeginSigning \/ EmitSigCreated \/ WriteOutput \/ Verify
  BY <1>1, <1>16, KeysStay DEF BeginSigning, EmitSigCreated, WriteOutput, Verify, selectionVars,
         search, NotSigned, NotSearched, OverPcsc, Listing
<1>17. CASE MoveCard
  <2>1. /\ UNCHANGED <<pc, search, certificate, session, signature, token, paths>>
        /\ disturbed' = disturbed \cup {r \in Readers : at'[r] # at[r]}
        /\ moved' = moved \cup {IF token = NoToken \/ at'[token.slot] # at[token.slot]
                                THEN pc ELSE "elsewhere"}
    BY <1>17 DEF MoveCard, Move, loading, outcome
  <2>2. pc \in moved' \/ TokenCard' = TokenCard
    BY <1>1, <2>1 DEF TokenCard, TokenLibrary, CardOf
  <2>3. /\ Untouched' => Untouched /\ (pc \in {"message", "signer"} => TokenCard' = TokenCard)
        /\ Kept' => Kept /\ (pc \in {"opensession", "identify"} => TokenCard' = TokenCard)
        /\ Chosen9e' => Chosen9e
    BY <1>1, <2>1, <2>2, SameRequest DEF Kept, Untouched, Chosen9e, search
  <2> QED
    BY <1>1, <2>1, <2>3 DEF Keys, search
<1>18. CASE UNCHANGED vars
  <2>1. TokenCard' = TokenCard
    BY <1>18 DEF TokenCard, TokenLibrary, CardOf, vars, tokenVars, cards, loading, outcome
  <2> QED
    BY <1>18, <2>1, KeysStay DEF vars, tokenVars, selectionVars, search, signingVars
<1> QED
  BY <1>2, <1>3, <1>4, <1>5, <1>6, <1>7, <1>8, <1>9, <1>10, <1>11, <1>12, <1>13, <1>14, <1>15,
     <1>16, <1>17, <1>18 DEF Next, Step

-----------------------------------------------------------------------------
(* Which tokens are listed.                                                *)

IsWithout(f, s, D) ==
  f = [n \in 0..Len(s) |->
         IF n = 0 THEN <<>>
         ELSE IF s[n] \in D THEN f[n - 1] ELSE Append(f[n - 1], s[n])]

\* The recursive function of Without is there.
LEMMA WithoutDefined ==
  ASSUME NEW s, NEW D, Len(s) \in Nat
  PROVE  \E f : IsWithout(f, s, D) /\ Without(s, D) = f[Len(s)]
<1> DEFINE UpTo(f, m) ==
      f = [n \in 0..m |->
             IF n = 0 THEN <<>>
             ELSE IF s[n] \in D THEN f[n - 1] ELSE Append(f[n - 1], s[n])]
<1> DEFINE T == {m \in Nat : \E f : UpTo(f, m)}
<1>1. 0 \in T
  <2>1. UpTo([n \in 0..0 |-> <<>>], 0)
    OBVIOUS
  <2> QED
    BY <2>1
<1>2. ASSUME NEW m \in Nat, m \in T
      PROVE  m + 1 \in T
  <2>1. PICK f : UpTo(f, m)
    BY <1>2
  <2> DEFINE last == IF s[m + 1] \in D THEN f[m] ELSE Append(f[m], s[m + 1])
             g == [n \in 0..m + 1 |-> IF n = m + 1 THEN last ELSE f[n]]
  <2>2. ASSUME NEW n \in 0..m + 1
        PROVE  g[n] = IF n = 0 THEN <<>>
                      ELSE IF s[n] \in D THEN g[n - 1] ELSE Append(g[n - 1], s[n])
    <3>1. CASE n = m + 1
      <4>1. g[n] = last /\ n - 1 = m /\ m \in 0..m + 1 /\ m # m + 1 /\ n # 0
        BY <3>1
      <4>2. g[m] = f[m]
        BY <4>1
      <4> HIDE DEF g
      <4> QED
        BY <3>1, <4>1, <4>2
    <3>2. CASE n # m + 1
      <4>1. n \in 0..m /\ g[n] = f[n]
        BY <3>2
      <4>2. n # 0 => n - 1 \in 0..m /\ g[n - 1] = f[n - 1]
        BY <4>1
      <4> HIDE DEF g
      <4> QED
        BY <2>1, <4>1, <4>2
    <3> QED
      BY <3>1, <3>2
  <2>3. UpTo(g, m + 1)
    <3>1. g = [n \in 0..m + 1 |-> g[n]]
      OBVIOUS
    <3> HIDE DEF g
    <3> QED
      BY <2>2, <3>1
  <2> HIDE DEF g
  <2> QED
    BY <2>3
<1>3. Len(s) \in T
  <2> HIDE DEF T
  <2> QED
    BY <1>1, <1>2, SetInduction
<1>4. UpTo(CHOOSE f : UpTo(f, Len(s)), Len(s))
  BY <1>3
<1> QED
  BY <1>4 DEF Without, IsWithout

\* It has every element that is not in D.
LEMMA WithoutKeeps ==
  ASSUME NEW S, NEW s \in Seq(S), NEW D
  PROVE  /\ Without(s, D) \in Seq(S)
         /\ \A n \in DOMAIN s : s[n] \notin D =>
              \E i \in DOMAIN Without(s, D) : Without(s, D)[i] = s[n]
<1>1. Len(s) \in Nat /\ DOMAIN s = 1..Len(s) /\ \A n \in 1..Len(s) : s[n] \in S
  OBVIOUS
<1>2. PICK f : IsWithout(f, s, D) /\ Without(s, D) = f[Len(s)]
  BY <1>1, WithoutDefined
<1> DEFINE Lists(m) ==
      /\ f[m] \in Seq(S)
      /\ \A n \in 1..m : s[n] \notin D => \E i \in DOMAIN f[m] : f[m][i] = s[n]
<1> DEFINE T == {m \in Nat : m <= Len(s) => Lists(m)}
<1>3. 0 \in T
  BY <1>1, <1>2 DEF IsWithout
<1>4. ASSUME NEW m \in Nat, m \in T
      PROVE  m + 1 \in T
  <2> SUFFICES ASSUME m + 1 <= Len(s)
               PROVE  Lists(m + 1)
    OBVIOUS
  <2>1. Lists(m)
    BY <1>1, <1>4
  <2>2. f[m + 1] = IF s[m + 1] \in D THEN f[m] ELSE Append(f[m], s[m + 1])
    <3>1. m + 1 \in 0..Len(s) /\ m + 1 # 0 /\ (m + 1) - 1 = m
      BY <1>1
    <3> QED
      BY <1>2, <3>1 DEF IsWithout
  <2>3. CASE s[m + 1] \in D
    <3>1. f[m + 1] = f[m]
      BY <2>2, <2>3
    <3>2. \A n \in 1..m + 1 : n \in 1..m \/ n = m + 1
      OBVIOUS
    <3> QED
      BY <2>1, <2>3, <3>1, <3>2
  <2>4. CASE s[m + 1] \notin D
    <3> DEFINE u == f[m]
               v == f[m + 1]
    <3>1. u \in Seq(S) /\ s[m + 1] \in S /\ v = Append(u, s[m + 1])
      BY <1>1, <2>1, <2>2, <2>4
    <3>2. \A n \in 1..m : s[n] \notin D => \E i \in DOMAIN u : u[i] = s[n]
      BY <2>1
    <3> HIDE DEF u, v
    <3>3. /\ v \in Seq(S) /\ Len(v) = Len(u) + 1 /\ v[Len(u) + 1] = s[m + 1]
          /\ \A i \in 1..Len(u) : v[i] = u[i]
      BY <3>1, AppendProperties
    <3>4. /\ DOMAIN u = 1..Len(u) /\ DOMAIN v = 1..Len(v) /\ Len(u) \in Nat
      BY <3>1, <3>3
    <3>5. \A i \in DOMAIN u : i \in DOMAIN v /\ v[i] = u[i]
      BY <3>3, <3>4
    <3>6. Len(u) + 1 \in DOMAIN v
      BY <3>3, <3>4
    <3>7. ASSUME NEW n \in 1..m + 1, s[n] \notin D
          PROVE  \E i \in DOMAIN v : v[i] = s[n]
      <4>1. n \in 1..m \/ n = m + 1
        OBVIOUS
      <4> QED
        BY <3>2, <3>3, <3>5, <3>6, <3>7, <4>1
    <3> QED
      BY <3>3, <3>7 DEF v
  <2> QED
    BY <2>3, <2>4
<1>5. Len(s) \in T
  <2> HIDE DEF T
  <2> QED
    BY <1>1, <1>3, <1>4, SetInduction
<1> QED
  BY <1>1, <1>2, <1>5

\* Present lists the readers in which the library sees a card.
LEMMA PresentLists ==
  ASSUME NEW l
  PROVE  /\ Present(l) \in Seq(Readers)
         /\ \A r \in Readers : CardOf(l, r) # Empty =>
              \E n \in DOMAIN Present(l) : Present(l)[n] = r
<1> DEFINE all == [r \in Readers |-> r]
           gone == {r \in Readers : CardOf(l, r) = Empty}
<1>1. all \in Seq(Readers) /\ DOMAIN all = Readers /\ \A r \in Readers : all[r] = r
  BY CardsAssumption DEF Readers
<1>2. Present(l) = Without(all, gone)
  BY DEF Present
<1>3. \A r \in Readers : CardOf(l, r) # Empty => r \notin gone
  OBVIOUS
<1> HIDE DEF all, gone
<1>4. /\ Without(all, gone) \in Seq(Readers)
      /\ \A n \in DOMAIN all : all[n] \notin gone =>
           \E i \in DOMAIN Without(all, gone) : Without(all, gone)[i] = all[n]
  BY <1>1, WithoutKeeps
<1> QED
  BY <1>1, <1>2, <1>3, <1>4

Rest == {slots[n] : n \in DOMAIN slots}

\* A module that was loaded sees a card in the reader.
Served(i, r) ==
  /\ i \in DOMAIN ctx /\ ctx[i] # "skipped"
  /\ r \in Readers /\ CardOf(paths[i], r) # Empty
KeyOf(i, r) == TokenKey(Reported(paths[i], at[r]), world.serial[paths[i]][at[r]])
Module(k) == locations[k].module
KeyAt(k) == KeyOf(locations[k].module, locations[k].slot)

\* The token of the module in the reader has been looked at.
Looked(i, r) ==
  /\ Served(i, r)
  /\ i < module \/ (i = module /\ pc \in {"look", "key"} /\ r \notin Rest)

Opening == {"start", "update", "paths", "open"}
Reading == {"fill", "look", "key"}

Slots ==
  /\ slots \in Seq(Readers)
  /\ pc = "key" => slots # <<>>
  /\ pc \in Opening => module = 0 /\ locations = <<>> /\ seen = {}
  /\ pc \in Listing => \A i \in DOMAIN ctx : ctx[i] # "destroyed"

\* A token without a serial number is the only one that was listed.
Choosing ==
  token # NoToken =>
    /\ module > Len(ctx)
    /\ Serial = "" => Len(locations) = 1 /\ token = locations[1]

\* What was read of the token that is looked at.
Seen ==
  /\ pc = "fill" => count = Len(Present(paths[module]))
  /\ pc = "key" => /\ Served(module, Head(slots))
                   /\ serialSeen = world.serial[paths[module]][at[Head(slots)]]

\* A token that was looked at is listed, or a token with its key is; no two tokens in
\* the list have the same key, and those of the first module were listed.
Entered ==
  /\ <<>> \notin seen
  /\ \A i, r : Looked(i, r) =>
       IF KeyOf(i, r) = <<>>
       THEN \E k \in DOMAIN locations : Module(k) = i /\ locations[k].slot = r
       ELSE KeyOf(i, r) \in seen
  /\ \A k \in DOMAIN locations :
       /\ Served(Module(k), locations[k].slot) /\ Module(k) <= module
       /\ KeyAt(k) # <<>> => KeyAt(k) \in seen
  /\ \A k \in DOMAIN locations : \A i, r :
       Looked(i, r) /\ KeyOf(i, r) = KeyAt(k) /\ KeyAt(k) # <<>> => Module(k) <= i
  /\ \A j, k \in DOMAIN locations : KeyAt(j) = KeyAt(k) /\ KeyAt(k) # <<>> => j = k
  /\ \A key \in seen : \E k \in DOMAIN locations : KeyAt(k) = key

Listed == Slots /\ Choosing /\ (Undisturbed => Seen /\ Entered)

\* Only somebody who moves a card changes what is in the readers.
LEMMA NothingMoved ==
  ASSUME [Next]_vars
  PROVE  /\ UNCHANGED world
         /\ Undisturbed' => Undisturbed /\ UNCHANGED at
<1>1. UNCHANGED world
  BY StepKinds DEF Parse, UpdateTrust, FindModules, OpenModule, ModulesOpened, CountSlots,
           FillSlots, NextModule, ReadTokenInfo, ReadChuid, Choose, Release, Describe, Described,
           MoveCard, Move, vars, tokenVars
<1>2. MoveCard \/ UNCHANGED at
  BY StepKinds DEF Parse, UpdateTrust, FindModules, OpenModule, ModulesOpened, CountSlots,
           FillSlots, NextModule, ReadTokenInfo, ReadChuid, Choose, Release, Describe, Described,
           cards, vars, tokenVars
<1>3. MoveCard => moved' # {}
  BY DEF MoveCard
<1>4. MoveCard \/ UNCHANGED moved
  <2>1. CASE OpenInput \/ CreateOutput \/ ReadCertificate \/ ReadMessage \/ LoadSigner
    BY <2>1 DEF OpenInput, CreateOutput, ReadCertificate, ReadMessage, LoadSigner, signingVars
  <2>2. CASE OpenSession \/ Login \/ SignDigest \/ IdentifyCard \/ SignOverPcsc
    BY <2>2 DEF OpenSession, Login, SignDigest, IdentifyCard, SignOverPcsc, signingVars
  <2>3. CASE BeginSigning \/ AddTimestamps \/ EmitSigCreated \/ WriteOutput \/ Verify
    BY <2>3 DEF BeginSigning, AddTimestamps, EmitSigCreated, WriteOutput, Verify
  <2>4. UNCHANGED signingVars => UNCHANGED moved
    BY DEF signingVars
  <2>5. UNCHANGED Others \/ UNCHANGED vars => UNCHANGED signingVars
    BY DEF Others, vars
  <2> QED
    BY <2>1, <2>2, <2>3, <2>4, <2>5 DEF Next, Step
<1> QED
  BY <1>1, <1>2, <1>3, <1>4 DEF Undisturbed

\* The list is as it was.
LEMMA ListedStay ==
  ASSUME Listed, [Next]_vars,
         UNCHANGED <<paths, module, slots, count, serialSeen, seen, locations, token>>,
         DOMAIN ctx' = DOMAIN ctx, Len(ctx)' = Len(ctx),
         \A i \in DOMAIN ctx : ctx'[i] = "skipped" <=> ctx[i] = "skipped",
         pc \notin Reading, pc' \notin Reading,
         pc' \in Opening => pc \in Opening,
         pc' \in Listing => pc \in Listing /\ UNCHANGED ctx
  PROVE  Listed'
<1>1. Slots'
  BY DEF Listed, Slots, Reading
<1>2. Serial' = Serial
  BY NothingMoved DEF Serial
<1>3. Choosing'
  BY <1>2 DEF Listed, Choosing
<1>4. ASSUME Undisturbed'
      PROVE  Seen' /\ Entered'
  <2>1. UNCHANGED <<at, world>> /\ Undisturbed
    BY <1>4, NothingMoved
  <2>2. /\ \A i, r : KeyOf(i, r)' = KeyOf(i, r)
        /\ \A i, r : Served(i, r)' <=> Served(i, r)
        /\ \A k : Module(k)' = Module(k) /\ KeyAt(k)' = KeyAt(k)
    BY <2>1 DEF KeyOf, TokenKey, Reported, Normalized, Served, CardOf, Module, KeyAt
  <2>3. \A i, r : Looked(i, r)' <=> Looked(i, r)
    BY <2>2 DEF Looked, Reading
  <2>4. Seen'
    BY DEF Seen, Reading
  <2>5. Entered'
    BY <2>1, <2>2, <2>3 DEF Listed, Entered
  <2> QED
    BY <2>4, <2>5
<1> QED
  BY <1>1, <1>3, <1>4 DEF Listed

\* What is in the rest of a list.
LEMMA RestOfSlots ==
  ASSUME slots \in Seq(Readers), slots # <<>>, slots' = Tail(slots)
  PROVE  /\ slots' \in Seq(Readers) /\ Head(slots) \in Readers
         /\ Rest \subseteq Rest' \cup {Head(slots)}
<1>1. slots' \in Seq(Readers) /\ Head(slots) \in Readers /\ Head(slots) = slots[1]
  BY HeadTailProperties
<1>2. /\ Len(slots') = Len(slots) - 1
      /\ \A n \in 1..Len(slots') : slots'[n] = slots[n + 1]
  BY HeadTailProperties
<1>3. ASSUME NEW n \in DOMAIN slots, n # 1
      PROVE  slots[n] \in Rest'
  <2>1. n - 1 \in 1..Len(slots') /\ (n - 1) + 1 = n
    BY <1>2, <1>3
  <2>2. slots'[n - 1] = slots[n] /\ n - 1 \in DOMAIN slots'
    BY <1>1, <1>2, <2>1
  <2> QED
    BY <2>2 DEF Rest
<1> QED
  BY <1>1, <1>3 DEF Rest

\* What was looked at is as it was.
LEMMA EnteredStay ==
  ASSUME Entered, UNCHANGED <<at, world, paths, ctx, seen, locations>>, IsSequence(ctx),
         module \in Nat, module' \in Nat, module <= module',
         \A i, r : Looked(i, r)' => Looked(i, r)
  PROVE  Entered'
<1>1. /\ \A i, r : KeyOf(i, r)' = KeyOf(i, r)
      /\ \A i, r : Served(i, r)' <=> Served(i, r)
      /\ \A k : Module(k)' = Module(k) /\ KeyAt(k)' = KeyAt(k)
  BY DEF KeyOf, TokenKey, Reported, Normalized, Served, CardOf, Module, KeyAt
<1>2. \A k \in DOMAIN locations : Module(k) <= module'
  <2>1. ASSUME NEW k \in DOMAIN locations
        PROVE  Module(k) <= module'
    <3>1. Served(Module(k), locations[k].slot) /\ Module(k) <= module
      BY DEF Entered
    <3>2. Module(k) \in Nat
      BY <3>1 DEF Served, IsSequence
    <3> QED
      BY <3>1, <3>2
  <2> QED
    BY <2>1
<1> QED
  BY <1>1, <1>2 DEF Entered

LEMMA ListedStep ==
  ASSUME Modules, Listed, [Next]_vars
  PROVE  Listed'
<1> USE DEF Opening, Reading
<1>1. /\ IsSequence(ctx) /\ DOMAIN ctx = 1..Len(ctx) /\ Len(ctx) \in Nat
      /\ ctx \in Seq({"open", "skipped", "destroyed"})
  BY DEF Modules, Contexts, IsSequence
<1>2. UNCHANGED world /\ (Undisturbed' => Undisturbed /\ UNCHANGED at)
  BY NothingMoved
<1>3. UNCHANGED paths => \A i, r : UNCHANGED at => KeyOf(i, r)' = KeyOf(i, r)
  BY <1>2 DEF KeyOf, TokenKey, Reported, Normalized
<1>4. Undisturbed' => Seen /\ Entered
  BY <1>2 DEF Listed
<1>5. pc \in Listing => token = NoToken
  BY DEF Modules, Locations
<1>6. CASE Parse \/ UpdateTrust
  BY <1>6, ListedStay DEF Parse, UpdateTrust, Listing, loading, listing, outcome
<1>7. CASE Describe \/ Described
  BY <1>7, ListedStay DEF Describe, Described, Listing, loading, listing, outcome
<1>8. CASE Release
  <2>1. /\ UNCHANGED <<paths, module, slots, count, serialSeen, seen, locations, token>>
        /\ pc \in {"release", "failed", "close"} /\ pc' \in {"token", "end"}
    BY <1>8 DEF Release, listing
  <2>2. /\ DOMAIN ctx' = DOMAIN ctx
        /\ \A i \in DOMAIN ctx : ctx'[i] = "skipped" <=> ctx[i] = "skipped"
    BY <1>8 DEF Release, Releases
  <2>3. Len(ctx') = Len(ctx)
    <3>1. ctx' \in Seq({"open", "skipped", "destroyed"})
      BY <1>8, ModulesStep DEF Modules, Contexts
    <3> QED
      BY <1>1, <2>2, <3>1
  <2> QED
    BY <2>1, <2>2, <2>3, ListedStay DEF Listing
<1>9. CASE FindModules
  <2>1. /\ pc = "paths" /\ pc' \in {"open", "failed"}
        /\ UNCHANGED <<ctx, module, slots, count, serialSeen, seen, locations, token>>
    BY <1>9 DEF FindModules, listing, outcome
  <2>2. ctx = <<>> /\ module = 0 /\ locations = <<>> /\ seen = {}
    BY <2>1 DEF Modules, Contexts, Listed, Slots
  <2>3. \A i, r : ~ Looked(i, r)'
    BY <2>1, <2>2 DEF Looked, Served
  <2> QED
    BY <1>5, <2>1, <2>2, <2>3 DEF Listed, Slots, Choosing, Seen, Entered, Listing
<1>10. CASE OpenModule
  <2>1. /\ pc = "open" /\ pc' = pc
        /\ UNCHANGED <<paths, module, slots, count, serialSeen, seen, locations, token>>
        /\ ctx' = Append(ctx, "open") \/ ctx' = Append(ctx, "skipped")
    BY <1>10 DEF OpenModule, listing, outcome
  <2>2. module = 0 /\ locations = <<>> /\ seen = {}
    BY <2>1 DEF Listed, Slots
  <2>3. IsSequence(ctx') /\ \A i \in DOMAIN ctx' : ctx'[i] # "destroyed"
    <3>1. \A i \in DOMAIN ctx : ctx[i] # "destroyed"
      BY <2>1 DEF Listed, Slots, Listing
    <3>2. PICK S : ctx \in Seq(S)
      BY <1>1 DEF IsSequence
    <3>3. PICK c \in {"open", "skipped"} : ctx' = Append(ctx, c)
      BY <2>1
    <3>4. ctx \in Seq(S \cup {"open", "skipped"})
      BY <3>2
    <3>5. ctx' \in Seq(S \cup {"open", "skipped"})
      BY <3>3, <3>4
    <3>6. \A i \in DOMAIN ctx' : ctx'[i] = c \/ (i \in DOMAIN ctx /\ ctx'[i] = ctx[i])
      BY <3>3, <3>4
    <3>7. \A i \in DOMAIN ctx' : ctx'[i] # "destroyed"
      BY <3>1, <3>3, <3>6
    <3> QED
      BY <3>5, <3>7 DEF IsSequence
  <2>4. \A i, r : ~ Looked(i, r)'
    BY <2>1, <2>2, <2>3 DEF Looked, Served, IsSequence
  <2> QED
    BY <1>5, <2>1, <2>2, <2>3, <2>4 DEF Listed, Slots, Choosing, Seen, Entered, Listing
<1>11. CASE ModulesOpened
  <2>1. /\ pc = "open" /\ pc' \in {"list", "failed"} /\ module' = 1
        /\ UNCHANGED <<paths, ctx, slots, count, serialSeen, seen, locations, token>>
    BY <1>11 DEF ModulesOpened, loading, outcome
  <2>2. locations = <<>> /\ seen = {}
    BY <2>1 DEF Listed, Slots
  <2>3. \A i, r : ~ Looked(i, r)'
    BY <1>1, <2>1 DEF Looked, Served
  <2> QED
    BY <1>5, <2>1, <2>2, <2>3 DEF Listed, Slots, Choosing, Seen, Entered, Listing
<1>12. CASE CountSlots
  <2>1. /\ pc = "list" /\ module <= Len(ctx) /\ module > 0 /\ module \in Nat
        /\ UNCHANGED <<paths, ctx, slots, serialSeen, seen, locations, token>>
    BY <1>12 DEF CountSlots, loading, outcome, Modules, Locations
  <2>2. CASE /\ ctx[module] # "open" \/ Present(paths[module]) = <<>>
             /\ module' = module + 1 /\ pc' = pc
    <3>1. ASSUME Undisturbed', NEW i, NEW r, Looked(i, r)'
          PROVE  Looked(i, r)
      <4>1. UNCHANGED <<at, world>>
        BY <1>2, <3>1
      <4>2. Served(i, r) /\ i < module + 1 /\ i \in Nat
        BY <1>1, <2>1, <2>2, <3>1, <4>1 DEF Looked, Served, CardOf
      <4>3. i # module
        <5>1. ASSUME i = module
              PROVE  FALSE
          <6>1. ctx[module] \notin {"skipped", "destroyed"}
            BY <2>1, <4>2, <5>1 DEF Served, Listed, Slots, Listing
          <6>2. ctx[module] = "open"
            BY <1>1, <2>1, <6>1
          <6>3. Present(paths[module]) = <<>> /\ r \in Readers /\ CardOf(paths[module], r) # Empty
            BY <2>2, <4>2, <5>1, <6>2 DEF Served
          <6> QED
            BY <6>3, PresentLists
        <5> QED
          BY <5>1
      <4> QED
        BY <2>1, <4>2, <4>3 DEF Looked
    <3>2. Undisturbed' => Seen' /\ Entered'
      <4>1. Undisturbed' => Entered'
        BY <1>1, <1>2, <1>4, <2>1, <2>2, <3>1, EnteredStay
      <4> QED
        BY <2>1, <2>2, <4>1 DEF Seen
    <3> QED
      BY <1>5, <2>1, <2>2, <3>2 DEF Listed, Slots, Choosing, Listing
  <2>3. CASE /\ count' = Len(Present(paths[module])) /\ pc' = "fill" /\ UNCHANGED module
    <3>1. \A i, r : Undisturbed' /\ Looked(i, r)' => Looked(i, r)
      BY <1>2, <2>1, <2>3 DEF Looked, Served, CardOf
    <3>2. Undisturbed' => Entered'
      BY <1>1, <1>2, <1>4, <2>1, <2>3, <3>1, EnteredStay
    <3>3. Undisturbed' => Seen'
      <4>1. Undisturbed' => Present(paths[module])' = Present(paths[module])
        BY <1>2, <2>1, <2>3 DEF Present, CardOf
      <4> QED
        BY <2>3, <4>1 DEF Seen
    <3> QED
      BY <1>5, <2>1, <2>3, <3>2, <3>3 DEF Listed, Slots, Choosing, Listing
  <2> QED
    BY <1>12, <2>2, <2>3 DEF CountSlots
<1>13. CASE FillSlots
  <2>1. /\ pc = "fill" /\ pc' = "look" /\ slots' = GrownList(paths[module])
        /\ UNCHANGED <<paths, ctx, module, count, serialSeen, seen, locations, token>>
        /\ module \in Nat
    BY <1>13 DEF FillSlots, loading, outcome, Modules, Locations
  <2>2. slots' \in Seq(Readers)
    BY <2>1, PresentLists DEF GrownList
  <2>3. ASSUME Undisturbed', NEW i, NEW r, Looked(i, r)'
        PROVE  Looked(i, r)
    <3>1. UNCHANGED <<at, world>> /\ count = Len(Present(paths[module]))
      BY <1>2, <1>4, <2>1, <2>3 DEF Seen
    <3>2. Len(Present(paths[module])) \in Nat
      BY PresentLists
    <3>3. slots' = Present(paths[module])
      BY <2>1, <3>1, <3>2 DEF GrownList
    <3>4. Served(i, r) /\ (i < module \/ (i = module /\ r \notin Rest'))
      BY <2>1, <2>3, <3>1 DEF Looked, Served, CardOf
    <3>5. i = module => r \in Rest'
      BY <3>3, <3>4, PresentLists DEF Served, Rest
    <3> QED
      BY <3>4, <3>5 DEF Looked
  <2>4. Undisturbed' => Entered'
    BY <1>1, <1>2, <1>4, <2>1, <2>3, EnteredStay
  <2> QED
    BY <1>5, <2>1, <2>2, <2>4 DEF Listed, Slots, Choosing, Seen, Listing
<1>14. CASE NextModule
  <2>1. /\ pc = "look" /\ pc' = "list" /\ slots = <<>> /\ module' = module + 1
        /\ UNCHANGED <<paths, ctx, slots, count, serialSeen, seen, locations, token>>
        /\ module \in Nat
    BY <1>14 DEF NextModule, loading, outcome, Modules, Locations
  <2>2. ASSUME Undisturbed', NEW i, NEW r, Looked(i, r)'
        PROVE  Looked(i, r)
    <3>1. Served(i, r) /\ i < module + 1 /\ i \in Nat
      BY <1>1, <1>2, <2>1, <2>2 DEF Looked, Served, CardOf
    <3>2. Rest = {}
      BY <2>1 DEF Rest
    <3> QED
      BY <2>1, <3>1, <3>2 DEF Looked
  <2>3. Undisturbed' => Entered'
    BY <1>1, <1>2, <1>4, <2>1, <2>2, EnteredStay
  <2> QED
    BY <1>5, <2>1, <2>3 DEF Listed, Slots, Choosing, Seen, Listing
<1>15. CASE ReadTokenInfo
  <2> DEFINE l == paths[module]
             r0 == Head(slots)
             c == CardOf(l, r0)
  <2>1. /\ pc = "look" /\ slots # <<>> /\ module \in Nat
        /\ UNCHANGED <<paths, ctx, module, count, seen, locations, token>>
    BY <1>15 DEF ReadTokenInfo, loading, outcome, Modules, Locations
  <2>2. slots \in Seq(Readers) /\ r0 \in Readers
    BY <2>1, HeadTailProperties DEF Listed, Slots
  <2>3. CASE c = Empty /\ slots' = Tail(slots) /\ UNCHANGED <<pc, serialSeen>>
    <3>1. slots' \in Seq(Readers) /\ Rest \subseteq Rest' \cup {r0}
      BY <2>1, <2>2, <2>3, RestOfSlots
    <3>2. ASSUME Undisturbed', NEW i, NEW r, Looked(i, r)'
          PROVE  Looked(i, r)
      <4>1. Served(i, r) /\ (i < module \/ (i = module /\ r \notin Rest'))
        BY <1>2, <2>1, <2>3, <3>2 DEF Looked, Served, CardOf
      <4>2. i = module => r # r0
        BY <2>3, <4>1 DEF Served
      <4> QED
        BY <2>1, <3>1, <4>1, <4>2 DEF Looked
    <3>3. Undisturbed' => Entered'
      BY <1>1, <1>2, <1>4, <2>1, <3>2, EnteredStay
    <3> QED
      BY <1>5, <2>1, <2>3, <3>1, <3>3 DEF Listed, Slots, Choosing, Seen, Listing
  <2>4. CASE /\ c # Empty /\ serialSeen' = world.serial[l][c] /\ pc' = "key" /\ UNCHANGED slots
    <3>1. \A i, r : Undisturbed' /\ Looked(i, r)' => Looked(i, r)
      BY <1>2, <2>1, <2>4 DEF Looked, Served, CardOf, Rest
    <3>2. Undisturbed' => Entered'
      BY <1>1, <1>2, <1>4, <2>1, <3>1, EnteredStay
    <3>3. Undisturbed' => Seen'
      <4>1. c = at[r0]
        BY <2>4 DEF CardOf
      <4>2. IsOpen(module)
        BY <2>1 DEF Modules, Locations
      <4>3. Served(module, r0)
        BY <2>2, <2>4, <4>2 DEF Served, IsOpen
      <4> QED
        BY <1>2, <2>1, <2>4, <4>1, <4>3 DEF Seen, Served, CardOf
    <3> QED
      BY <1>5, <2>1, <2>2, <2>4, <3>2, <3>3 DEF Listed, Slots, Choosing, Listing
  <2> QED
    BY <1>15, <2>3, <2>4 DEF ReadTokenInfo
<1>16. CASE ReadChuid
  <2> DEFINE l == paths[module]
             r0 == Head(slots)
             c == CardOf(l, r0)
             key == TokenKey(IF c = Empty THEN <<>> ELSE Reported(l, c), serialSeen)
             here == [module |-> module, slot |-> r0, serial |-> serialSeen]
  <2>1. /\ pc = "key" /\ pc' = "look" /\ slots' = Tail(slots) /\ module \in Nat
        /\ UNCHANGED <<paths, ctx, module, count, serialSeen, token>>
        /\ seen' = IF key = <<>> THEN seen ELSE seen \cup {key}
        /\ locations' = IF key \in seen THEN locations ELSE Append(locations, here)
    BY <1>16 DEF ReadChuid, loading, outcome, Modules, Locations
  <2>2. slots \in Seq(Readers) /\ slots # <<>>
    BY <2>1 DEF Listed, Slots
  <2>3. /\ slots' \in Seq(Readers) /\ r0 \in Readers
        /\ Rest \subseteq Rest' \cup {r0}
    BY <2>1, <2>2, RestOfSlots
  <2>4. IsSequence(locations) /\ DOMAIN locations = 1..Len(locations) /\ Len(locations) \in Nat
    BY DEF Modules, Locations, IsSequence
  <2> HIDE DEF key, here, r0, c, l
  <2>5. ASSUME Undisturbed'
        PROVE  Entered'
    <3>1. UNCHANGED <<at, world>> /\ Seen /\ Entered
      BY <1>2, <1>4, <2>5
    <3>2. Served(module, r0) /\ serialSeen = world.serial[l][at[r0]]
      BY <2>1, <3>1 DEF Seen, l, r0
    <3>3. key = KeyOf(module, r0)
      <4>1. c = at[r0] /\ c # Empty
        BY <3>2 DEF Served, CardOf, c, l
      <4> QED
        BY <3>2, <4>1 DEF key, KeyOf, l
    <3>4. /\ \A i, r : KeyOf(i, r)' = KeyOf(i, r)
          /\ \A i, r : Served(i, r)' <=> Served(i, r)
      BY <2>1, <3>1 DEF KeyOf, TokenKey, Reported, Normalized, Served, CardOf
    <3>5. ASSUME NEW i, NEW r, Looked(i, r)'
          PROVE  Looked(i, r) \/ (i = module /\ r = r0)
      <4>1. Served(i, r) /\ (i < module \/ (i = module /\ r \notin Rest'))
        BY <2>1, <3>4, <3>5 DEF Looked
      <4> QED
        BY <2>1, <2>3, <4>1 DEF Looked
    <3>6. CASE key \in seen
      <4>1. UNCHANGED <<seen, locations>>
        BY <2>1, <3>1, <3>6 DEF Entered
      <4>2. \A k : Module(k)' = Module(k) /\ KeyAt(k)' = KeyAt(k)
        BY <3>4, <4>1 DEF Module, KeyAt
      <4>3. KeyOf(module, r0) # <<>> /\ KeyOf(module, r0) \in seen
        BY <3>1, <3>3, <3>6 DEF Entered
      <4>4. ASSUME NEW i, NEW r, Looked(i, r)'
            PROVE  IF KeyOf(i, r) = <<>>
                   THEN \E k \in DOMAIN locations : Module(k) = i /\ locations[k].slot = r
                   ELSE KeyOf(i, r) \in seen
        <5>1. CASE Looked(i, r)
          BY <3>1, <5>1 DEF Entered
        <5>2. CASE i = module /\ r = r0
          BY <4>3, <5>2
        <5> QED
          BY <3>5, <4>4, <5>1, <5>2
      <4>5. ASSUME NEW k \in DOMAIN locations, NEW i, NEW r, Looked(i, r)',
                   KeyOf(i, r) = KeyAt(k), KeyAt(k) # <<>>
            PROVE  Module(k) <= i
        <5>1. CASE Looked(i, r)
          BY <3>1, <4>5, <5>1 DEF Entered
        <5>2. CASE i = module
          BY <3>1, <5>2 DEF Entered
        <5> QED
          BY <3>5, <4>5, <5>1, <5>2
      <4>6. /\ <<>> \notin seen
            /\ \A k \in DOMAIN locations :
                 /\ Served(Module(k), locations[k].slot) /\ Module(k) <= module
                 /\ KeyAt(k) # <<>> => KeyAt(k) \in seen
            /\ \A j, k \in DOMAIN locations : KeyAt(j) = KeyAt(k) /\ KeyAt(k) # <<>> => j = k
            /\ \A x \in seen : \E k \in DOMAIN locations : KeyAt(k) = x
        BY <3>1 DEF Entered
      <4> QED
        BY <2>1, <3>4, <4>1, <4>2, <4>4, <4>5, <4>6 DEF Entered
    <3>7. CASE key \notin seen
      <4>1. PICK n : n = Len(locations) + 1
        OBVIOUS
      <4>2. /\ locations' = Append(locations, here)
            /\ DOMAIN locations' = 1..n /\ locations'[n] = here
            /\ \A k \in DOMAIN locations : locations'[k] = locations[k]
        <5>1. PICK S : locations \in Seq(S)
          BY DEF Modules, Locations, IsSequence
        <5> QED
          BY <2>1, <3>7, <4>1, <5>1, LastOf
      <4>3. /\ n \in DOMAIN locations' /\ n \notin DOMAIN locations
            /\ \A k : k \in DOMAIN locations' <=> k \in DOMAIN locations \/ k = n
        BY <2>4, <4>1, <4>2
      <4>4. here.module = module /\ here.slot = r0
        BY DEF here
      <4>5. /\ \A k \in DOMAIN locations : Module(k)' = Module(k) /\ KeyAt(k)' = KeyAt(k)
            /\ Module(n)' = module /\ KeyAt(n)' = key
        BY <3>3, <3>4, <4>2, <4>4 DEF Module, KeyAt
      <4>6. /\ seen' = IF key = <<>> THEN seen ELSE seen \cup {key}
            /\ <<>> \notin seen /\ <<>> \notin seen' /\ seen \subseteq seen'
        BY <2>1, <3>1 DEF Entered
      <4>7. ASSUME NEW i, NEW r, Looked(i, r)'
            PROVE  IF KeyOf(i, r) = <<>>
                   THEN \E k \in DOMAIN locations' : Module(k)' = i /\ locations'[k].slot = r
                   ELSE KeyOf(i, r) \in seen'
        <5>1. CASE Looked(i, r)
          <6>1. IF KeyOf(i, r) = <<>>
                THEN \E k \in DOMAIN locations : Module(k) = i /\ locations[k].slot = r
                ELSE KeyOf(i, r) \in seen
            BY <3>1, <5>1 DEF Entered
          <6> QED
            BY <4>2, <4>3, <4>5, <4>6, <6>1
        <5>2. CASE i = module /\ r = r0
          BY <3>3, <4>2, <4>3, <4>4, <4>5, <4>6, <5>2
        <5> QED
          BY <3>5, <4>7, <5>1, <5>2
      <4>8. ASSUME NEW k \in DOMAIN locations'
            PROVE  /\ Served(Module(k)', locations'[k].slot) /\ Module(k)' <= module
                   /\ KeyAt(k)' # <<>> => KeyAt(k)' \in seen'
        <5>1. CASE k \in DOMAIN locations
          BY <3>1, <4>2, <4>5, <4>6, <5>1 DEF Entered
        <5>2. CASE k = n
          BY <2>1, <3>2, <4>2, <4>4, <4>5, <4>6, <5>2
        <5> QED
          BY <4>3, <4>8, <5>1, <5>2
      <4>9. ASSUME NEW k \in DOMAIN locations', NEW i, NEW r, Looked(i, r)',
                   KeyOf(i, r) = KeyAt(k)', KeyAt(k)' # <<>>
            PROVE  Module(k)' <= i
        <5>1. CASE k \in DOMAIN locations /\ Looked(i, r)
          BY <3>1, <4>5, <4>9, <5>1 DEF Entered
        <5>2. CASE k = n /\ Looked(i, r)
          <6>1. KeyOf(i, r) # <<>> /\ KeyOf(i, r) = key
            BY <4>5, <4>9, <5>2
          <6>2. KeyOf(i, r) \in seen
            BY <3>1, <5>2, <6>1 DEF Entered
          <6> QED
            BY <3>7, <6>1, <6>2
        <5>3. CASE i = module /\ r = r0
          BY <2>1, <4>8, <5>3
        <5> QED
          BY <3>5, <4>3, <4>9, <5>1, <5>2, <5>3
      <4>10. ASSUME NEW j \in DOMAIN locations', NEW k \in DOMAIN locations',
                   KeyAt(j)' = KeyAt(k)', KeyAt(k)' # <<>>
            PROVE  j = k
        <5>1. \A m \in DOMAIN locations : KeyAt(m) # <<>> => KeyAt(m) # key
          BY <3>1, <3>7 DEF Entered
        <5>2. CASE j \in DOMAIN locations /\ k \in DOMAIN locations
          BY <3>1, <4>5, <4>10, <5>2 DEF Entered
        <5>3. CASE j = n \/ k = n
          BY <4>3, <4>5, <4>10, <5>1, <5>3
        <5> QED
          BY <4>3, <4>10, <5>2, <5>3
      <4>11. ASSUME NEW x \in seen'
             PROVE  \E k \in DOMAIN locations' : KeyAt(k)' = x
        <5>1. CASE x \in seen
          <6>1. PICK k \in DOMAIN locations : KeyAt(k) = x
            BY <3>1, <5>1 DEF Entered
          <6> QED
            BY <4>3, <4>5, <6>1
        <5>2. CASE x = key
          BY <4>3, <4>5, <5>2
        <5> QED
          BY <4>6, <4>11, <5>1, <5>2
      <4> QED
        BY <2>1, <3>4, <4>6, <4>7, <4>8, <4>9, <4>10, <4>11 DEF Entered
    <3> QED
      BY <3>6, <3>7
  <2> QED
    BY <1>5, <2>1, <2>3, <2>5 DEF Listed, Slots, Choosing, Seen, Listing
<1>17. CASE Choose
  <2>1. /\ pc = "list" /\ pc' \in {"failed", "release"} /\ module > Len(ctx) /\ token' = Chosen
        /\ UNCHANGED <<paths, ctx, module, slots, count, serialSeen, seen, locations>>
        /\ module \in Nat
    BY <1>17 DEF Choose, loading, listing, Modules, Locations
  <2>2. Choosing'
    <3>1. Serial' = Serial
      BY <1>2 DEF Serial
    <3>2. SUFFICES ASSUME Chosen # NoToken, Serial = ""
                   PROVE  Len(locations) = 1 /\ Chosen = locations[1]
      BY <2>1, <3>1 DEF Choosing
    <3>3. IsSequence(locations) /\ Len(locations) \in Nat /\ DOMAIN locations = 1..Len(locations)
      BY DEF Modules, Locations, IsSequence
    <3>4. Len(locations) <= 1
      <4>1. ~ (Len(locations) > 1)
        BY <3>2, Zenon DEF Chosen
      <4> QED
        BY <3>3, <4>1
    <3>5. PICK i \in DOMAIN locations : Chosen = locations[i]
      BY <3>2, <3>3, ChosenIsListed
    <3> QED
      BY <3>3, <3>4, <3>5
  <2>3. Undisturbed' => Seen' /\ Entered'
    <3>1. \A i, r : Undisturbed' /\ Looked(i, r)' => Looked(i, r)
      BY <1>2, <2>1 DEF Looked, Served, CardOf
    <3>2. Undisturbed' => Entered'
      BY <1>1, <1>2, <1>4, <2>1, <3>1, EnteredStay
    <3> QED
      BY <2>1, <3>2 DEF Seen
  <2> QED
    BY <2>1, <2>2, <2>3 DEF Listed, Slots, Listing
<1>18. CASE /\ pc \in Using /\ pc' \in Using \cup Ending
            /\ UNCHANGED <<request, world, cards, loading, listing, outcome>>
  BY <1>18, ListedStay DEF Using, Ending, Listing, loading, listing, outcome
<1>19. CASE MoveCard
  <2>1. /\ UNCHANGED <<pc, loading, listing, token>> /\ ~ Undisturbed'
    BY <1>19 DEF MoveCard, Move, outcome, Undisturbed
  <2>2. Serial' = Serial
    BY <1>2 DEF Serial
  <2> QED
    BY <2>1, <2>2 DEF Listed, Slots, Choosing, loading, listing
<1>20. CASE UNCHANGED vars
  <2>1. /\ UNCHANGED <<pc, loading, listing, token>> /\ UNCHANGED <<at, world, moved>>
    BY <1>20 DEF vars, tokenVars, cards, outcome, signingVars
  <2>2. /\ Slots' = Slots /\ Choosing' = Choosing /\ Undisturbed' = Undisturbed
    BY <2>1 DEF Slots, Choosing, Serial, Undisturbed, loading, listing
  <2>3. Seen' = Seen /\ Entered' = Entered
    <3>1. /\ UNCHANGED <<at, world, pc, ctx, paths, module, slots, count, serialSeen, seen>>
          /\ UNCHANGED locations
      BY <2>1 DEF loading, listing
    <3>2. Seen' = Seen
      BY <3>1 DEF Seen, Served, CardOf, Present
    <3>3. /\ \A i, r : Served(i, r)' = Served(i, r) /\ Looked(i, r)' = Looked(i, r)
          /\ \A i, r : KeyOf(i, r)' = KeyOf(i, r)
          /\ \A k : KeyAt(k)' = KeyAt(k) /\ Module(k)' = Module(k)
      BY <3>1 DEF Served, Looked, KeyOf, KeyAt, Module, TokenKey, Reported, Normalized, CardOf,
                  Rest, Present
    <3>4. Entered' = Entered
      BY <3>1, <3>3 DEF Entered
    <3> QED
      BY <3>2, <3>4
  <2> QED
    BY <2>2, <2>3 DEF Listed
<1> QED
  BY <1>6, <1>7, <1>8, <1>9, <1>10, <1>11, <1>12, <1>13, <1>14, <1>15, <1>16, <1>17, <1>18, <1>19,
     <1>20, StepKinds

\* The modules that are tried are those that are installed.
Named ==
  /\ paths \in Seq(DOMAIN world.serial)
  /\ Len(ctx) \in Nat /\ Len(ctx) <= Len(paths)

LEMMA NamedStep ==
  ASSUME Given, Modules, Named, [Next]_vars
  PROVE  Named'
<1>1. UNCHANGED world
  BY GivenStays
<1>2. IsSequence(ctx) /\ DOMAIN ctx = 1..Len(ctx)
  BY DEF Modules, Contexts, IsSequence
<1>3. CASE FindModules
  <2>1. paths' = ModulePaths /\ ctx' = ctx /\ ctx = <<>>
    BY <1>3 DEF FindModules, Modules, Contexts
  <2>2. PICK s \in Scenarios : world = s.world
    BY DEF Given
  <2>3. {world.environment, world.file, world.installed} \subseteq Seq(DOMAIN world.serial)
    BY <2>2, ScenariosAssumption
  <2>4. Conventional \in Seq(DOMAIN world.serial)
    BY <2>3, WithoutKeeps DEF Conventional
  <2>5. ModulePaths \in Seq(DOMAIN world.serial)
    BY <2>3, <2>4 DEF ModulePaths
  <2>6. Len(ModulePaths) \in Nat
    BY <2>5
  <2> QED
    BY <1>1, <2>1, <2>5, <2>6 DEF Named
<1>4. CASE OpenModule
  <2>1. /\ paths' = paths /\ Len(ctx) < Len(paths)
        /\ ctx' = Append(ctx, "open") \/ ctx' = Append(ctx, "skipped")
    BY <1>4 DEF OpenModule
  <2>2. Len(ctx') = Len(ctx) + 1
    BY <1>2, <2>1 DEF IsSequence
  <2>3. Len(paths) \in Nat
    BY DEF Named
  <2> QED
    BY <1>1, <2>1, <2>2, <2>3 DEF Named
<1>5. CASE Release
  <2>1. paths' = paths /\ DOMAIN ctx' = DOMAIN ctx
    BY <1>5 DEF Release
  <2>2. ctx' \in Seq({"open", "skipped", "destroyed"})
    BY ModulesStep DEF Modules, Contexts
  <2>3. Len(ctx') = Len(ctx)
    BY <1>2, <2>1, <2>2 DEF Named
  <2> QED
    BY <1>1, <2>1, <2>3 DEF Named
<1>6. CASE UNCHANGED <<paths, ctx>>
  BY <1>1, <1>6 DEF Named
<1> QED
  BY <1>3, <1>4, <1>5, <1>6, StepKinds
     DEF Parse, UpdateTrust, ModulesOpened, CountSlots, FillSlots, NextModule, ReadTokenInfo,
         ReadChuid, Choose, Describe, Described, MoveCard, Move, loading, vars, tokenVars

\* What a key says about the card.
LEMMA KeyOfCard ==
  ASSUME NEW i, NEW r
  PROVE  /\ world.chuid[paths[i]][at[r]] # "none" => KeyOf(i, r) = <<"chuid", <<at[r]>>>>
         /\ world.chuid[paths[i]][at[r]] = "none" /\ KeyOf(i, r) # <<>> =>
              /\ KeyOf(i, r) = <<"serial", world.serial[paths[i]][at[r]]>>
              /\ world.serial[paths[i]][at[r]] # ""
<1>1. CASE world.chuid[paths[i]][at[r]] # "none"
  <2> DEFINE x == world.chuid[paths[i]][at[r]]
  <2>1. Reported(paths[i], at[r]) = <<x, at[r]>>
    BY <1>1 DEF Reported
  <2> HIDE DEF x
  <2>2. <<x, at[r]>> # <<>> /\ Normalized(<<x, at[r]>>) = <<at[r]>>
    BY DEF Normalized
  <2> QED
    BY <1>1, <2>1, <2>2 DEF KeyOf, TokenKey
<1>2. CASE world.chuid[paths[i]][at[r]] = "none"
  BY <1>2 DEF KeyOf, TokenKey, Reported
<1> QED
  BY <1>1, <1>2

\* After the listing every token has been looked at.
LEMMA AllLooked ==
  ASSUME Modules, module > Len(ctx), NEW c \in Cards, NEW r \in Readers, at[r] = c,
         NEW j \in Serving(c)
  PROVE  Looked(j, r) /\ CardOf(paths[j], r) = c
<1>1. j \in DOMAIN ctx /\ ctx[j] # "skipped" /\ c \in world.serves[paths[j]]
  BY DEF Serving
<1>2. CardOf(paths[j], r) = c /\ c # Empty
  BY <1>1, CardsAssumption DEF CardOf
<1>3. j < module
  BY <1>1 DEF Modules, Contexts, Locations
<1> QED
  BY <1>1, <1>2, <1>3 DEF Looked, Served

-----------------------------------------------------------------------------
(* The theorems.                                                           *)

IInv ==
  Given /\ Modules /\ Found /\ Reports /\ Commanded /\ Written /\ Origin /\ Keys /\ Named
  /\ Listed

LEMMA InitHolds ==
  ASSUME Init
  PROVE  IInv
<1>1. PICK s \in Scenarios :
        /\ request = s.request /\ world = s.world
        /\ fs = [n \in NamesOf(s.request) \cup DOMAIN s.files |->
                   IF n \in DOMAIN s.files THEN s.files[n] ELSE NoFile]
  BY DEF Init
<1>2. /\ pc = "start" /\ verdict = "running" /\ token = NoToken /\ module = 0
      /\ ctx = <<>> /\ live = {} /\ locations = <<>> /\ report = <<>>
  BY DEF Init, TokensInit
<1>3. /\ wanted = <<>> /\ matches = 0 /\ connection = Empty /\ reached = Empty
  BY DEF Init, SelectionInit
<1>4. signature = NoSignature /\ status = <<>>
  BY DEF Init
<1>5. Given
  BY <1>1 DEF Given
<1>6. \A S : <<>> \in Seq(S)
  OBVIOUS
<1>7. Modules
  BY <1>2, <1>6 DEF Modules, Contexts, Owners, Locations, Holding, IsSequence, IsOpen, Listing,
         Using, Ending, Released
<1>8. Found
  BY <1>2, <1>3 DEF Found, NotSearched, Listing
<1>9. Reports
  BY <1>2, <1>6 DEF Reports, IsSequence
<1>10. Commanded
  BY <1>2 DEF Commanded, SigningOnly, OverPcsc
<1>11. Written
  <2>1. ASSUME Signs(request), NEW n \in DOMAIN fs
        PROVE  fs[n] \in {NoFile, Plain(n)}
    BY <1>1, <2>1, ScenariosAssumption
  <2> QED
    BY <1>2, <1>4, <2>1 DEF Written, Inputs, Certified, StatusLines, Sealing, NotCertified,
           Loaded, Sealed, Unwritten, Done, OverPcsc, Listing
<1>12. Keys
  BY <1>2, <1>4 DEF Keys, NoSignature, NotSigned, NotSearched, OverPcsc, Listing
<1>13. Named
  <2>1. paths = <<>>
    BY DEF Init, TokensInit
  <2> QED
    BY <1>2, <2>1 DEF Named
<1>14. Listed
  <2>1. slots = <<>> /\ seen = {}
    BY DEF Init, TokensInit
  <2>2. \A i, r : ~ Looked(i, r)
    BY <1>2 DEF Looked, Served
  <2> QED
    BY <1>2, <2>1, <2>2 DEF Listed, Slots, Choosing, Seen, Entered
<1>15. Origin
  <2>1. NoName \in DOMAIN fs => fs[NoName] = NoFile
    BY <1>1, ScenariosAssumption
  <2> QED
    BY <1>2, <2>1 DEF Origin, Opened, Loaded, Sealed, Done, OverPcsc
<1> QED
  BY <1>5, <1>7, <1>8, <1>9, <1>10, <1>11, <1>12, <1>13, <1>14, <1>15 DEF IInv

LEMMA NextKeeps ==
  ASSUME IInv, [Next]_vars
  PROVE  IInv'
<1>1. Given' /\ Modules' /\ Found' /\ Reports'
  BY GivenStays, ModulesStep, FoundStep, ReportsStep DEF IInv
<1>2. Commanded' /\ Written' /\ Origin' /\ Keys'
  BY CommandedStep, WrittenStep, OriginStep, KeysStep DEF IInv
<1>3. Named' /\ Listed'
  BY NamedStep, ListedStep DEF IInv
<1> QED
  BY <1>1, <1>2, <1>3 DEF IInv

\* What the program relies on holds of every state that it reaches.
THEOREM Invariance == Spec => []IInv
<1>1. Init => IInv
  BY InitHolds
<1>2. IInv /\ [Next]_vars => IInv'
  BY NextKeeps
<1> QED
  BY <1>1, <1>2, PTL DEF Spec

(* Whatever modules are installed, under however many paths, and whichever *)
(* of them fail: the program has initialized exactly the library of its    *)
(* token while it works with it, and none when it ends (New, Initialize,   *)
(* Destroy in pkcs11.go, release and Close in token_pkcs11.go).            *)
THEOREM ModulesAreReleased == Spec => []ModulesReleased
<1>1. IInv => ModulesReleased
  <2>1. SUFFICES ASSUME Modules
                 PROVE  ModulesReleased
    BY DEF IInv
  <2>2. \A i \in DOMAIN ctx : ctx[i] = "open" => paths[i] \in live
    BY <2>1 DEF Modules, Owners
  <2>3. ASSUME token # NoToken, pc # "release", verdict = "running"
        PROVE  live = {TokenLibrary}
    <3>1. pc \notin Released
      BY <2>1, <2>3 DEF Modules, Contexts
    <3>2. IsOpen(token.module) /\ \A i \in DOMAIN ctx : ctx[i] = "open" => i = token.module
      BY <2>1, <2>3, <3>1 DEF Modules, Holding
    <3> QED
      BY <2>1, <2>2, <3>2 DEF Modules, Owners, IsOpen, TokenLibrary
  <2>4. verdict # "running" => live = {}
    BY <2>1 DEF Modules, Contexts, Owners
  <2> QED
    BY <2>2, <2>3, <2>4 DEF ModulesReleased
<1> QED
  BY <1>1, Invariance, PTL

(* However many readers there are and however the cards are moved: a       *)
(* command over PC/SC whose search was for a CHUID, and whose reader was   *)
(* left alone since, reaches the card that was meant, and a description    *)
(* never mixes the attempts of one card with the certificate of another    *)
(* (findPIVReader in piv_card.go, readPIVRetries in device_info.go).       *)
THEOREM RightCardIsReached == Spec => []RightCard
<1>1. IInv => RightCard
  BY DEF IInv, Found, Reports, RightCard
<1> QED
  BY <1>1, Invariance, PTL

(* For every command line and every collection of cards: the key that      *)
(* signs is the key of the certificate in the signature, unless the card   *)
(* was exchanged in one of the windows that the property names (Sign in    *)
(* sign.go, SignEmbedded in embedded.go).                                  *)
THEOREM SignerIsTheOneCertified == Spec => []SignerOfTheCertificate
<1>1. IInv => SignerOfTheCertificate
  BY DEF IInv, Keys, Kept, Untouched, Chosen9e, SignerOfTheCertificate
<1> QED
  BY <1>1, Invariance, PTL

(* For every command line: a signing command that succeeds has written the *)
(* whole signature, over the file that was named, with a certificate of    *)
(* the user and the time stamp that was asked for, and has reported it     *)
(* (signFiles in files.go, Sign in sign.go, status.go).                    *)
THEOREM SuccessIsWhatWasAsked == Spec => []SignedAsAsked
<1>1. IInv => SignedAsAsked
  <2>1. SUFFICES ASSUME Written, verdict = "success", Signs(request)
                 PROVE  SignedAsAsked
    BY DEF IInv, SignedAsAsked
  <2>2. Done /\ Certified /\ StatusLines /\ Sealing
    BY <2>1 DEF Written, Done
  <2>3. world.owner[signature.cert] = request.user
    BY <2>2 DEF Certified, Sealing, Names
  <2>4. status = IF request.statusFd THEN <<"BEGIN_SIGNING", SignatureType>> ELSE <<>>
    BY <2>2 DEF StatusLines, ReportedLines
  <2> QED
    BY <2>2, <2>3, <2>4 DEF SignedAsAsked, Sealing
<1> QED
  BY <1>1, Invariance, PTL

(* For every command line and every name of a file: a signature or signed  *)
(* document under the name that the program chose itself is accepted when  *)
(* it is verified under that name alone, if its key is that of its         *)
(* certificate (DetachedOutputName and OriginalFileName in signature.go,   *)
(* embeddedSignatureName in files.go, --verify in main.go).                *)
THEOREM ItsOwnNameIsEnough == Spec => []ReadsBack
<1>1. IInv => ReadsBack
  <2>1. SUFFICES ASSUME Given, Written, Origin, verdict = "success", Signs(request),
                        request.output = NoName, OutputName(request) # NoName, Genuine(Output)
                 PROVE  Accepts(VerifyTarget(<<OutputName(request)>>, Existing))
    BY DEF IInv, ReadsBack
  <2> DEFINE name == OutputName(request)
  <2>2. /\ Output = signature /\ signature.over = Plain(Input)
        /\ signature.kind = Encoding(request).kind /\ ~ BadArguments(request)
        /\ Content(Input) = Plain(Input) \/ Embeds \/ Input = name
    BY <2>1 DEF Written, Sealing, Origin, Done
  <2>3. VerifyTarget(<<name>>, Existing) = VerifiesOne(name, Existing)
    BY DEF VerifyTarget
  <2>4. ASSUME Len(name) >= 2
        PROVE  name # Dash /\ name # NoName /\ name # Stdin /\ Content(name) = signature
    <3>1. Len(Dash) = 1 /\ Len(NoName) = 0 /\ Len(Stdin) = 1
      BY DEF Dash, NoName, Stdin
    <3>2. name # Dash /\ name # NoName /\ name # Stdin
      BY <2>4, <3>1
    <3> QED
      BY <2>2, <3>2 DEF Content, Output
  <2>5. Mode(request) \in {"embedded", "file"}
    BY <2>1 DEF Mode, OutputName
  <2>6. CASE Mode(request) = "embedded"
    <3>1. EmbedsSignature(request)
      BY <2>6 DEF Mode
    <3>2. Files(request) # <<>> /\ Embeddable(Files(request)[1])
      <4>1. Len(Files(request)) = 1 /\ Embeddable(Files(request)[1])
        BY <3>1, Zenon DEF EmbedsSignature
      <4> QED
        BY <4>1
    <3>3. Input \in Seq(STRING) /\ Embeddable(Input) /\ name = SignedName(Input)
      BY <2>1, <2>6, <3>2, FilesAreNames DEF OutputName
    <3>4. Len(name) >= 2 /\ Ext(name) = Ext(Input)
      BY <3>3, SignedNameParts
    <3>5. Embeddable(name) /\ ~ IsSignatureFile(name)
      BY <3>3, <3>4 DEF Embeddable, IsSignatureFile, IsSignatureExtension, DocumentExtensions,
             SignatureFormats
    <3>6. VerifiesOne(name, Existing) = Target("embedded", name, NoName)
      BY <2>4, <3>4, <3>5 DEF VerifiesOne
    <3>7. signature.kind = "E"
      BY <2>2, <2>6 DEF Encoding
    <3> QED
      BY <2>1, <2>2, <2>3, <2>4, <3>4, <3>6, <3>7 DEF Accepts, Target
  <2>7. CASE Mode(request) = "file"
    <3> DEFINE e == FormatExtension(request)
    <3>1. Len(Files(request)) = 1 /\ e \in DOMAIN SignatureFormats
      BY <2>2, <2>7 DEF BadArguments, FileFormatRefused, IsSignatureExtension
    <3>2. Input \in Seq(STRING) /\ Input # Stdin /\ Input \in DOMAIN fs /\ name = Append(Input, e)
      <4>1. Files(request) # <<>>
        BY <3>1
      <4>2. Input = Files(request)[1] /\ Input \in Seq(STRING) /\ Input # Stdin /\ Input \in DOMAIN fs
        BY <2>1, <4>1, FilesAreNames
      <4> QED
        BY <2>1, <2>7, <4>2, Zenon DEF OutputName, SignatureName
    <3>3. Content(Input) = Plain(Input) \/ Input = name
      BY <2>2, <2>7 DEF Embeds
    <3>4. Len(name) >= 1 /\ (Input = <<>> => Len(name) = 1)
      BY <3>1, <3>2 DEF SignatureFormats
    <3>5. Input # <<>>
      <4>1. NoName \in DOMAIN fs => fs[NoName] = NoFile
        BY <2>1 DEF Origin
      <4>2. NoFile # Plain(Input)
        BY DEF NoFile, Plain
      <4>3. Input = <<>> => Content(Input) = NoFile
        BY <3>2, <4>1 DEF Content, NoName
      <4> QED
        BY <2>1, <3>3, <4>2, <4>3 DEF NoName
    <3>6. Len(name) >= 2 /\ Ext(name) = e /\ WithoutExt(name) = Input /\ name # Input
      BY <3>1, <3>2, <3>5, SignatureNameParts
    <3>7. ~ Embeddable(name)
      BY <3>1, <3>6 DEF Embeddable, DocumentExtensions, SignatureFormats
    <3>8. signature.kind = IF SignatureFormats[e].attached THEN "S" ELSE "D"
      BY <2>2, <2>7 DEF Encoding
    <3>9. CASE SignatureFormats[e].attached
      <4>1. VerifiesOne(name, Existing) = Target("attached", name, NoName)
        BY <2>4, <3>6, <3>7, <3>9 DEF VerifiesOne, HasOriginal
      <4> QED
        BY <2>1, <2>2, <2>3, <2>4, <3>6, <3>8, <3>9, <4>1 DEF Accepts, Target
    <3>10. CASE ~ SignatureFormats[e].attached
      <4>1. Content(Input) = Plain(Input) /\ Original(name) = Input
        BY <3>3, <3>6 DEF Original
      <4>2. Input \in Existing
        BY <3>2, <4>1 DEF Existing, Content, NoFile, Plain
      <4>3. HasOriginal(name)
        BY <3>1, <3>6, <3>10 DEF HasOriginal, IsSignatureExtension
      <4>4. VerifiesOne(name, Existing) = Target("detached", name, Input)
        BY <2>4, <3>6, <3>7, <4>1, <4>2, <4>3 DEF VerifiesOne
      <4> QED
        BY <2>1, <2>2, <2>3, <2>4, <3>6, <3>8, <3>10, <4>1, <4>4 DEF Accepts, Target
    <3> QED
      BY <3>9, <3>10
  <2> QED
    BY <2>5, <2>6, <2>7
<1> QED
  BY <1>1, Invariance, PTL

(* Whatever modules are installed and however many see the card: a card    *)
(* that exposes its CHUID to all of them is listed once, for the first of  *)
(* them (tokenLocations and normalizeCHUID in token_pkcs11.go).            *)
THEOREM ACardIsListedOnce == Spec => []ListedOnce
<1>1. IInv => ListedOnce
  <2>1. SUFFICES ASSUME Modules, Listed, Undisturbed, module > Len(ctx),
                        NEW c \in Cards, InReader(c), Serving(c) # {}, Exposed(c)
                 PROVE  LET here == {i \in DOMAIN locations :
                               CardOf(paths[locations[i].module], locations[i].slot) = c}
                        IN \E i \in here :
                             /\ here = {i}
                             /\ \A j \in Serving(c) : locations[i].module <= j
    BY DEF IInv, ListedOnce
  <2> DEFINE here == {i \in DOMAIN locations :
                        CardOf(paths[locations[i].module], locations[i].slot) = c}
             key == <<"chuid", <<c>>>>
  <2>2. PICK r \in Readers : at[r] = c
    BY <2>1 DEF InReader
  <2>3. Entered
    BY <2>1 DEF Listed
  <2>4. key # <<>>
    OBVIOUS
  <2>5. ASSUME NEW j \in Serving(c), NEW q, at[q] = c
        PROVE  KeyOf(j, q) = key
    BY <2>1, <2>5, KeyOfCard DEF Exposed
  <2>6. ASSUME NEW i, NEW q, KeyOf(i, q) = key
        PROVE  at[q] = c
    <3>1. KeyOf(i, q) # <<"serial", world.serial[paths[i]][at[q]]>> /\ KeyOf(i, q) # <<>>
      BY <2>6
    <3>2. KeyOf(i, q) = <<"chuid", <<at[q]>>>>
      BY <3>1, KeyOfCard
    <3> QED
      BY <2>6, <3>2
  <2> HIDE DEF key
  <2>7. key \in seen
    <3>1. PICK j \in Serving(c) : TRUE
      BY <2>1
    <3>2. Looked(j, r) /\ KeyOf(j, r) = key
      BY <2>1, <2>2, <2>5, AllLooked
    <3> QED
      BY <2>3, <2>4, <3>2 DEF Entered
  <2>8. PICK k \in DOMAIN locations : KeyAt(k) = key
    BY <2>3, <2>7 DEF Entered
  <2>9. k \in here
    <3>1. Served(locations[k].module, locations[k].slot)
      BY <2>3 DEF Entered, Module
    <3>2. at[locations[k].slot] = c
      BY <2>6, <2>8 DEF KeyAt
    <3> QED
      BY <3>1, <3>2 DEF Served, CardOf
  <2>10. ASSUME NEW i \in here
         PROVE  i = k
    <3>1. Served(locations[i].module, locations[i].slot)
      BY <2>3 DEF Entered, Module
    <3>2. at[locations[i].slot] = c /\ c \in world.serves[paths[locations[i].module]]
      BY <3>1 DEF Served, CardOf
    <3>3. locations[i].module \in Serving(c)
      BY <3>1, <3>2 DEF Served, Serving
    <3>4. KeyAt(i) = key
      BY <2>5, <3>2, <3>3 DEF KeyAt
    <3> QED
      BY <2>3, <2>4, <2>8, <3>4 DEF Entered
  <2>11. ASSUME NEW j \in Serving(c)
         PROVE  locations[k].module <= j
    <3>1. Looked(j, r) /\ KeyOf(j, r) = KeyAt(k)
      BY <2>1, <2>2, <2>5, <2>8, AllLooked
    <3> QED
      BY <2>3, <2>4, <2>8, <3>1 DEF Entered, Module
  <2> QED
    BY <2>9, <2>10, <2>11
<1> QED
  BY <1>1, Invariance, PTL

(* Whatever mixture of modules is installed, if no two cards have the same *)
(* serial number: a token that is handed out without a serial number is    *)
(* the only card in the readers that a module serves                       *)
(* (TokenHandleWithSerial in token_pkcs11.go).                             *)
THEOREM TheTokenIsTheOnlyCard == Spec => []OnlyCard
<1>1. IInv => OnlyCard
  <2>1. SUFFICES ASSUME Given, Modules, Named, Listed, token # NoToken, Serial = "", Undisturbed,
                        NEW c \in Cards, InReader(c), Serving(c) # {}
                 PROVE  c = TokenCard
    BY DEF IInv, OnlyCard
  <2>2. Entered /\ module > Len(ctx) /\ Len(locations) = 1 /\ token = locations[1]
    BY <2>1 DEF Listed, Choosing
  <2>3. DOMAIN locations = {1}
    <3>1. PICK S : locations \in Seq(S)
      BY <2>1 DEF Modules, Locations, IsSequence
    <3>2. DOMAIN locations = 1..Len(locations)
      BY <3>1
    <3> QED
      BY <2>2, <3>2
  <2>4. PICK r \in Readers : at[r] = c
    BY <2>1 DEF InReader
  <2>5. PICK j \in Serving(c) : TRUE
    BY <2>1
  <2>6. Looked(j, r) /\ CardOf(paths[j], r) = c
    BY <2>1, <2>2, <2>4, AllLooked
  <2>7. CASE KeyOf(j, r) = <<>>
    <3>1. token.module = j /\ token.slot = r
      BY <2>2, <2>3, <2>6, <2>7 DEF Entered, Module
    <3> QED
      BY <2>6, <3>1 DEF TokenCard, TokenLibrary
  <2>8. CASE KeyOf(j, r) # <<>>
    <3> DEFINE l == paths[token.module]
               d == at[token.slot]
    <3>1. KeyOf(token.module, token.slot) = KeyOf(j, r)
      BY <2>2, <2>3, <2>6, <2>8 DEF Entered, KeyAt
    <3>2. Served(token.module, token.slot) /\ Served(j, r)
      BY <2>2, <2>3, <2>6 DEF Entered, Module, Looked
    <3>3. TokenCard = d /\ d \in world.serves[l] /\ c \in world.serves[paths[j]]
      BY <2>4, <3>2 DEF Served, CardOf, TokenCard, TokenLibrary
    <3>4. \A x, y, z : <<"chuid", <<x>>>> # <<"serial", y>>
      OBVIOUS
    <3>5. CASE world.chuid[l][d] # "none" \/ world.chuid[paths[j]][c] # "none"
      <4>1. KeyOf(j, r) = <<"chuid", <<d>>>> \/ KeyOf(j, r) = <<"chuid", <<c>>>>
        BY <2>4, <3>1, <3>5, KeyOfCard
      <4>2. KeyOf(j, r) = <<"chuid", <<d>>>> /\ KeyOf(j, r) = <<"chuid", <<c>>>>
        <5>1. \/ KeyOf(j, r) = <<"chuid", <<d>>>>
              \/ KeyOf(j, r) = <<"serial", world.serial[l][d]>>
          BY <2>8, <3>1, KeyOfCard
        <5>2. \/ KeyOf(j, r) = <<"chuid", <<c>>>>
              \/ KeyOf(j, r) = <<"serial", world.serial[paths[j]][c]>>
          BY <2>4, <2>8, KeyOfCard
        <5> QED
          BY <3>4, <4>1, <5>1, <5>2
      <4>3. <<c>> = <<d>>
        BY <4>2
      <4> QED
        BY <3>3, <4>3
    <3>6. CASE world.chuid[l][d] = "none" /\ world.chuid[paths[j]][c] = "none"
      <4>1. KeyOf(j, r) = <<"serial", world.serial[l][d]>>
        BY <2>8, <3>1, <3>6, KeyOfCard
      <4>2. /\ KeyOf(j, r) = <<"serial", world.serial[paths[j]][c]>>
            /\ world.serial[paths[j]][c] # ""
        BY <2>4, <2>8, <3>6, KeyOfCard
      <4>3. world.serial[l][d] = world.serial[paths[j]][c]
        <5>1. \A x, y : <<"serial", x>> = <<"serial", y>> => x = y
          OBVIOUS
        <5> QED
          BY <4>1, <4>2, <5>1
      <4>4. l \in DOMAIN world.serial /\ paths[j] \in DOMAIN world.serial
        <5>1. paths \in Seq(DOMAIN world.serial) /\ Len(ctx) \in Nat /\ Len(ctx) <= Len(paths)
          BY <2>1 DEF Named
        <5>2. DOMAIN ctx = 1..Len(ctx)
          <6>1. ctx \in Seq({"open", "skipped", "destroyed"})
            BY <2>1 DEF Modules, Contexts
          <6> QED
            BY <6>1
        <5>3. Len(paths) \in Nat /\ \A i \in 1..Len(paths) : paths[i] \in DOMAIN world.serial
          BY <5>1
        <5>4. \A i \in DOMAIN ctx : paths[i] \in DOMAIN world.serial
          BY <5>1, <5>2, <5>3
        <5> QED
          BY <3>2, <5>4 DEF Served
      <4>5. PICK s \in Scenarios : world = s.world
        BY <2>1 DEF Given
      <4> QED
        BY <3>3, <4>2, <4>3, <4>4, <4>5, SerialsAssumption
    <3> QED
      BY <3>5, <3>6
  <2> QED
    BY <2>7, <2>8
<1> QED
  BY <1>1, Invariance, PTL
=============================================================================
