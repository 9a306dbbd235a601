------------------------------- MODULE Signing -------------------------------
(***************************************************************************)
(* One invocation of pivzavr from its options to its exit, with the        *)
(* signing commands in full: the files that are opened, the certificate,   *)
(* the key, the PIN, the time stamp, the status lines and the output.      *)
(*                                                                         *)
(* Init chooses the invocation, what is installed, the cards and how often *)
(* they are moved.  A behaviour ends when the process does.                *)
(*                                                                         *)
(* A certificate is named by its card.  world.owner[c] is the user its     *)
(* certificate names, "" when the slot holds none, and world.key[c] is the *)
(* card whose private key the slot of c holds: c itself, unless the        *)
(* certificate was stored beside another key.                              *)
(***************************************************************************)
EXTENDS CardSelection

CONSTANTS
  Scenarios     \* the invocations: [request, world, at, moves, files], with
                \* the contents of the files there are

\* Contents of a file.
NoFile == [is |-> "nothing"]
EmptyFile == [is |-> "empty"]
Plain(name) == [is |-> "message", of |-> name]
Partial == [is |-> "partial"]

ASSUME ScenariosAssumption ==
  \A s \in Scenarios :
    /\ IsFiniteSet(s.request.commands)
    /\ s.request.files \in Seq(Seq(STRING) \ {Stdin})
    \* a file has a name
    /\ NoName \notin DOMAIN s.files
    \* every path leads to a library of which the world says what it reports
    /\ {s.world.environment, s.world.file, s.world.installed}
         \subseteq Seq(DOMAIN s.world.serial)
    \* what is signed is called by the name of its file
    /\ Signs(s.request) => \A n \in DOMAIN s.files : s.files[n] = Plain(n)

\* No two cards have one serial number, whichever module reports it.
ASSUME SerialsAssumption ==
  \A s \in Scenarios :
    \A l, k \in DOMAIN s.world.serial :
      \A c \in s.world.serves[l], d \in s.world.serves[k] :
        s.world.serial[l][c] = s.world.serial[k][d] /\ s.world.serial[l][c] # "" => c = d

VARIABLES
  fs,           \* the content of each file of the invocation
  stdout,       \* what was written to the standard output
  certificate,  \* the card whose certificate was read first
  signer,       \* the card whose certificate was read with the key
  message,      \* what was read to be signed
  session,      \* the card of the PKCS#11 session, or Empty
  loggedIn,     \* the card whose PIN was verified, or Empty
  signature,    \* the signature so far
  statusOn,     \* SetupStatus was called
  status,       \* the status lines
  moved         \* what the program was about to do when the token's card was moved,
                \* "elsewhere" for another card

signingVars == <<fs, stdout, certificate, signer, message, session, loggedIn,
                 signature, statusOn, status, moved>>
vars == <<tokenVars, selectionVars, signingVars>>

\* A signature: its kind, the certificate in it, the key that made it, what it
\* is over, and whether a time stamp is in it.
NoSignature == [is |-> "none"]
Signed(kind, armor, cert, key, over, stamped) ==
  [is |-> "signature", kind |-> kind, armor |-> armor, cert |-> cert, key |-> key,
   over |-> over, stamped |-> stamped]

NamesOf(q) ==
  {q.files[i] : i \in DOMAIN q.files} \cup
  (IF q.output = NoName THEN {} ELSE {q.output}) \cup
  (IF Signs(q) /\ ~Refused(q) /\ ~BadArguments(q) /\ OutputName(q) # NoName
   THEN {OutputName(q)} ELSE {})

Init ==
  /\ \E s \in Scenarios :
       /\ request = s.request /\ world = s.world
       /\ at = s.at /\ moves = s.moves
       /\ fs = [n \in NamesOf(s.request) \cup DOMAIN s.files |->
                  IF n \in DOMAIN s.files THEN s.files[n] ELSE NoFile]
  /\ TokensInit
  /\ SelectionInit
  /\ stdout = NoFile
  /\ certificate = Empty /\ signer = Empty
  /\ message = NoFile
  /\ session = Empty /\ loggedIn = Empty
  /\ signature = NoSignature
  /\ statusOn = FALSE /\ status = <<>>
  /\ moved = {}

\* The status line is written only when SetupStatus has opened the descriptor.
Emit(line) == status' = IF statusOn THEN Append(status, line) ELSE status
EmitTwo(a, b) == status' = IF statusOn THEN status \o <<a, b>> ELSE status

Existing == {n \in DOMAIN fs : fs[n] # NoFile}
Input == IF Files(request) = <<>> THEN Stdin ELSE Files(request)[1]
Content(name) == IF name = Stdin THEN Plain(Stdin) ELSE fs[name]

\* A signature in a document of an XML format does not compare the key with the
\* certificate; CMS does.
XmlFormats == {"xml", "docx", "xlsx", "odt"}
ComparesKeys == Mode(request) = "embedded" => Ext(Input) \notin XmlFormats

(* The input is opened before the card is asked for anything, and so is    *)
(* the output of a signed document, which is emptied if it exists.         *)
OpenInput ==
  /\ pc = "token"
  /\ Signs(request)
  /\ pc' = IF BadArguments(request) \/ Content(Input) = NoFile THEN "failed"
           ELSE IF Mode(request) = "embedded" THEN "create" ELSE "certificate"
  /\ UNCHANGED <<request, world, cards, loading, listing, outcome, selectionVars, signingVars>>

CreateOutput ==
  /\ pc = "create"
  /\ \/ fs' = [fs EXCEPT ![OutputName(request)] = EmptyFile] /\ pc' = "certificate"
     \/ pc' = "failed" /\ UNCHANGED fs
  /\ UNCHANGED <<request, world, cards, loading, listing, outcome, selectionVars, stdout,
                 certificate, signer, message, session, loggedIn, signature, statusOn, status, moved>>

(* The certificate in the slot has to name the user.                       *)
Names(c, user) == c # Empty /\ world.owner[c] = user

ReadCertificate ==
  /\ pc = "certificate"
  /\ IF Names(TokenCard, request.user)
     THEN /\ certificate' = TokenCard
          /\ statusOn' = request.statusFd
          /\ pc' = "message"
     ELSE pc' = "failed" /\ UNCHANGED <<certificate, statusOn>>
  /\ UNCHANGED <<request, world, cards, loading, listing, outcome, selectionVars, fs, stdout,
                 signer, message, session, loggedIn, signature, status, moved>>

ReadMessage ==
  /\ pc = "message"
  /\ message' = Content(Input)
  /\ pc' = "signer"
  /\ UNCHANGED <<request, world, cards, loading, listing, outcome, selectionVars, fs, stdout,
                 certificate, signer, session, loggedIn, signature, statusOn, status,
                 moved>>

(* Signer reads the certificate once more.  CMS refuses a key that is not  *)
(* the one of the certificate; an XML signature does not look at it.  A    *)
(* document that has no content any more cannot carry a signature.         *)
KeyAlwaysAccepted(c) == TRUE
KeyAccepted(c) == ComparesKeys => c = certificate

LoadSigner ==
  /\ pc = "signer"
  /\ LET c == TokenCard
         loaded == c # Empty /\ world.owner[c] # ""
         embedded == Mode(request) = "embedded"
         ok == KeyAccepted(c) /\ (embedded => message.is = "message")
     IN /\ signer' = IF loaded THEN c ELSE signer
        /\ IF loaded /\ embedded THEN Emit("BEGIN_SIGNING") ELSE UNCHANGED status
        /\ pc' = IF ~loaded \/ ~ok THEN "failed"
                 ELSE IF request.slot = "9e" THEN "identify" ELSE "opensession"
  /\ UNCHANGED <<request, world, cards, loading, listing, outcome, selectionVars, fs, stdout,
                 certificate, message, session, loggedIn, signature, statusOn, moved>>

(* Signing with a key that needs the PIN: a session, the login with what   *)
(* the dialog returns (CardSecrets), the key and the signature.            *)
OpenSession ==
  /\ pc = "opensession"
  /\ session' = TokenCard
  /\ pc' = IF TokenCard = Empty THEN "failed" ELSE "login"
  /\ UNCHANGED <<request, world, cards, loading, listing, outcome, selectionVars, fs, stdout,
                 certificate, signer, message, loggedIn, signature, statusOn, status, moved>>

SessionLives == TokenCard = session

Login ==
  /\ pc = "login"
  /\ \/ SessionLives /\ loggedIn' = session /\ pc' = "sign"
     \/ pc' = "failed" /\ UNCHANGED loggedIn
  /\ UNCHANGED <<request, world, cards, loading, listing, outcome, selectionVars, fs, stdout,
                 certificate, signer, message, session, signature, statusOn, status, moved>>

\* The signature with the key of card c, before anything is added to it.
SignatureBy(c) ==
  Signed(Encoding(request).kind, Encoding(request).armor, certificate, world.key[c], message, "no")

SignDigest ==
  /\ pc = "sign"
  /\ IF SessionLives THEN signature' = SignatureBy(session) /\ pc' = "signed"
     ELSE pc' = "failed" /\ UNCHANGED signature
  /\ UNCHANGED <<request, world, cards, loading, listing, outcome, selectionVars, fs, stdout,
                 certificate, signer, message, session, loggedIn, statusOn, status, moved>>

(* The card authentication key signs over PC/SC and asks for no PIN.       *)
IdentifyCard ==
  /\ pc = "identify"
  /\ Search(TokenLibrary, TokenCard)
  /\ UNCHANGED <<request, world, cards, loading, listing, outcome, signingVars>>

SignOverPcsc ==
  /\ pc = "session"
  /\ Signs(request)
  /\ \/ /\ Answers
        /\ reached' = connection
        /\ signature' = SignatureBy(connection)
        /\ pc' = "signed"
     \/ /\ ~Answers \/ MayBeUnselected
        /\ pc' = "failed"
        /\ UNCHANGED <<reached, signature>>
  /\ UNCHANGED <<request, world, cards, loading, listing, outcome, search, disturbed, fs, stdout,
                 certificate, signer, message, session, loggedIn, statusOn, status, moved>>

(* BEGIN_SIGNING comes after the signature, except for a document.         *)
BeginSigning ==
  /\ pc = "signed"
  /\ IF Mode(request) = "embedded" THEN UNCHANGED status ELSE Emit("BEGIN_SIGNING")
  /\ pc' = IF StampAsked(request) THEN "stamp" ELSE "encode"
  /\ UNCHANGED <<request, world, cards, loading, listing, outcome, selectionVars, fs, stdout,
                 certificate, signer, message, session, loggedIn, signature, statusOn, moved>>

(* The answer of the time stamp authority has to echo the imprint of the   *)
(* signature and the nonce; a refusal, a wrong answer and silence until    *)
(* the timeout end the command.                                            *)
AnyStamp(answer) == TRUE
StampMatches(answer) == answer = "this"

AddTimestamps ==
  /\ pc = "stamp"
  /\ \/ \E answer \in {"this", "other"} :
          /\ StampMatches(answer)
          /\ signature' = [signature EXCEPT !.stamped = answer]
          /\ pc' = "encode"
     \/ pc' = "failed" /\ UNCHANGED signature
  /\ UNCHANGED <<request, world, cards, loading, listing, outcome, selectionVars, fs, stdout,
                 certificate, signer, message, session, loggedIn, statusOn, status, moved>>

SignatureType == IF signature.kind = "E" THEN "S" ELSE signature.kind

EmitSigCreated ==
  /\ pc = "encode"
  /\ Emit(SignatureType)
  /\ pc' = "write"
  /\ UNCHANGED <<request, world, cards, loading, listing, outcome, selectionVars, fs, stdout,
                 certificate, signer, message, session, loggedIn, signature, statusOn, moved>>

(* The whole signature or signed document is written at the end; a write   *)
(* can fail before, in the middle of, or after opening the file.           *)
WriteOutput ==
  /\ pc = "write"
  /\ LET name == OutputName(request)
     IN \/ /\ pc' = "close"
           /\ IF name = NoName
              THEN stdout' = signature /\ UNCHANGED fs
              ELSE fs' = [fs EXCEPT ![name] = signature] /\ UNCHANGED stdout
        \/ /\ pc' = "failed"
           /\ UNCHANGED stdout
           /\ \/ UNCHANGED fs
              \/ name # NoName /\ fs' = [fs EXCEPT ![name] = Partial]
  /\ UNCHANGED <<request, world, cards, loading, listing, outcome, selectionVars,
                 certificate, signer, message, session, loggedIn, signature, statusOn,
                 status, moved>>

(* --verify reads what it was given; how the verdict comes about is the    *)
(* subject of Verification.  A signature that carries its content is       *)
(* verified over that content, whatever message is named.                  *)
Genuine(c) == c.is = "signature" /\ c.key = c.cert
Accepts(t) ==
  LET c == IF t.signature = NoName THEN NoFile ELSE Content(t.signature)
  IN /\ Genuine(c)
     /\ CASE t.kind = "embedded" -> c.kind = "E"
          [] t.kind = "detached" -> c.kind = "S" \/ (c.kind = "D" /\ Content(t.message) = c.over)
          [] t.kind = "attached" -> c.kind \in {"S", "C"}
          [] OTHER -> FALSE

Readable(t) ==
  /\ t.kind # "refused"
  /\ t.signature # NoName => Content(t.signature) # NoFile
  /\ t.message # NoName => Content(t.message) # NoFile

Verify ==
  /\ pc = "token"
  /\ Command(request) = "verify"
  /\ LET t == VerifyTarget(Files(request), Existing)
     IN IF ~Readable(t) THEN pc' = "failed" /\ UNCHANGED status
        ELSE /\ pc' = IF Accepts(t) THEN "close" ELSE "failed"
             /\ EmitTwo("NEWSIG", IF Accepts(t) THEN "GOODSIG" ELSE "ERRSIG")
  /\ UNCHANGED <<request, world, cards, loading, listing, outcome, selectionVars, fs, stdout,
                 certificate, signer, message, session, loggedIn, signature, statusOn, moved>>

MoveCard ==
  /\ Move
  /\ disturbed' = disturbed \cup {r \in Readers : at'[r] # at[r]}
  /\ moved' = moved \cup {IF token = NoToken \/ at'[token.slot] # at[token.slot]
                          THEN pc ELSE "elsewhere"}
  /\ UNCHANGED <<search, reached, fs, stdout, certificate, signer, message, session, loggedIn,
                 signature, statusOn, status>>

----------------------------------------------------------------------------

Others == <<selectionVars, signingVars>>

Step ==
  \/ Parse /\ UNCHANGED Others
  \/ UpdateTrust /\ UNCHANGED Others
  \/ FindModules /\ UNCHANGED Others
  \/ OpenModule /\ UNCHANGED Others
  \/ ModulesOpened /\ UNCHANGED Others
  \/ CountSlots /\ UNCHANGED Others
  \/ FillSlots /\ UNCHANGED Others
  \/ NextModule /\ UNCHANGED Others
  \/ ReadTokenInfo /\ UNCHANGED Others
  \/ ReadChuid /\ UNCHANGED Others
  \/ Choose /\ UNCHANGED Others
  \/ Release /\ UNCHANGED Others
  \/ Describe /\ UNCHANGED Others
  \/ Described /\ UNCHANGED Others
  \/ StartCardCommand /\ UNCHANGED signingVars
  \/ MatchReader /\ UNCHANGED signingVars
  \/ Matched /\ UNCHANGED signingVars
  \/ Connect /\ UNCHANGED signingVars
  \/ CarryOut /\ UNCHANGED signingVars
  \/ CarryOutThroughModule /\ UNCHANGED signingVars
  \/ OpenInput \/ CreateOutput \/ ReadCertificate \/ ReadMessage \/ LoadSigner
  \/ OpenSession \/ Login \/ SignDigest
  \/ IdentifyCard \/ SignOverPcsc
  \/ BeginSigning \/ AddTimestamps \/ EmitSigCreated \/ WriteOutput
  \/ Verify

Next == Step \/ MoveCard

Spec == Init /\ [][Next]_vars

----------------------------------------------------------------------------

TypeOK ==
  /\ at \in [Readers -> Cards \cup {Empty}]
  /\ moves \in Nat
  /\ ctx \in Seq({"open", "skipped", "destroyed"}) /\ Len(ctx) <= Len(paths)
  /\ module \in 0..Len(paths) + 1 /\ count \in 0..NumReaders
  /\ \A i \in DOMAIN slots : slots[i] \in Readers
  /\ \A i \in DOMAIN locations :
       locations[i].module \in DOMAIN paths /\ locations[i].slot \in Readers
  /\ token = NoToken \/ \E i \in DOMAIN locations : token = locations[i]
  /\ reader \in 0..NumReaders + 1 /\ matches \in 0..NumReaders /\ selected \in 0..NumReaders
  /\ {meant, connection, reached, certificate, signer, session, loggedIn}
        \subseteq Cards \cup {Empty}
  /\ disturbed \subseteq Readers
  /\ verdict \in {"running", "success", "failure"}

(* The program never uses a module that was finalized under it: while it    *)
(* has a token, the library of the token is initialized and is the only    *)
(* one, and when it ends none is.  A library that two paths name is        *)
(* initialized by the first of them, and the failure of the second leaves  *)
(* it alone (Destroy in pkcs11.go, release and Close in token_pkcs11.go).  *)
ModulesReleased ==
  /\ \A i \in DOMAIN ctx : ctx[i] = "open" => paths[i] \in live
  /\ token # NoToken /\ pc # "release" /\ verdict = "running" => live = {TokenLibrary}
  /\ verdict # "running" => live = {}

\* The modules that were loaded and see card c.
Serving(c) == {i \in DOMAIN ctx : ctx[i] # "skipped" /\ c \in world.serves[paths[i]]}
InReader(c) == \E r \in Readers : at[r] = c
Exposed(c) == \A i \in Serving(c) : world.chuid[paths[i]][c] # "none"
Undisturbed == moved = {}

(* A token that is used without a serial number is the only card there is, *)
(* whatever mixture of modules is installed: no other card that can be     *)
(* told apart is in a reader, as long as nobody moves cards during the     *)
(* listing (TokenHandleWithSerial).                                        *)
OnlyCard ==
  token # NoToken /\ Serial = "" /\ Undisturbed =>
    \A c \in Cards : InReader(c) /\ Serving(c) # {} => c = TokenCard

(* A card that several modules see is listed once, for the first module    *)
(* that sees it, when each of them exposes its CHUID, in a TLV or not      *)
(* (tokenLocations, normalizeCHUID).                                       *)
ListedOnce ==
  Undisturbed /\ module > Len(ctx) /\ module > 1 =>
    \A c \in Cards :
      InReader(c) /\ Serving(c) # {} /\ Exposed(c) =>
      LET here == {i \in DOMAIN locations : CardOf(paths[locations[i].module], locations[i].slot) = c}
      IN \E i \in here :
           /\ here = {i}
           /\ \A j \in Serving(c) : locations[i].module <= j

(* A command over PC/SC, the signature with the card authentication key    *)
(* among them, reaches the card that was in the slot of the token when its *)
(* CHUID was read, and --info reports the attempts of the card that it     *)
(* describes.  The card in the reader that matched may be exchanged before *)
(* the second connection, and a module that exposes no CHUID leaves the    *)
(* choice to the number of PIV cards: both are left out.                   *)
RightCard ==
  /\ reached # Empty /\ wanted # <<>> /\ selected \notin disturbed => reached = meant
  /\ \A i \in DOMAIN report :
       report[i].exposed => report[i].retriesOf \in {report[i].card, Empty}

(* The certificate in a signature is the one of the key that signed.  CMS  *)
(* compares the two, so only a card that is exchanged after the key was    *)
(* loaded signs for another; an XML signature does not, and a card that is *)
(* exchanged after its certificate was read does.  (Sign in sign.go,       *)
(* SignEmbedded in embedded.go, pkcs11Signer.Sign in token_pkcs11.go.)     *)
SignerOfTheCertificate ==
  (/\ signature.is # "none"
   /\ world.key[certificate] = certificate
   /\ moved \cap {"opensession", "identify"} = {}
   /\ ComparesKeys \/ moved \cap {"message", "signer"} = {}
   /\ request.slot = "9e" => (wanted # <<>> /\ selected \notin disturbed))
  => signature.key = certificate

Output ==
  IF OutputName(request) = NoName THEN stdout ELSE fs[OutputName(request)]

(* What a signing command leaves behind when it succeeds is the whole      *)
(* signature over the file that was named, with the certificate of the     *)
(* user and, if one was asked for, the time stamp that answers this        *)
(* request.  A document that is signed into itself is emptied before it is *)
(* read, which is noticed (files.go).                                      *)
SignedAsAsked ==
  verdict = "success" /\ Signs(request) =>
    /\ Output = signature
    /\ signature.over = Plain(Input)
    /\ world.owner[signature.cert] = request.user
    /\ StampAsked(request) => signature.stamped = "this"
    /\ status = IF request.statusFd THEN <<"BEGIN_SIGNING", SignatureType>> ELSE <<>>

(* A signature under the name that the program has chosen itself is what   *)
(* --verify accepts when it is given that name alone: the names that are   *)
(* made when signing and taken apart when verifying fit, for attached and  *)
(* detached signatures and for signed documents (signature.go, files.go,   *)
(* the one argument form of --verify in main.go).                          *)
ReadsBack ==
  (/\ verdict = "success" /\ Signs(request)
   /\ request.output = NoName /\ OutputName(request) # NoName
   /\ Genuine(Output))
  => Accepts(VerifyTarget(<<OutputName(request)>>, Existing))

----------------------------------------------------------------------------
\* What a comment says, which the program does not keep.

(* piv.go:159 of a reset: "it keeps a reset from hitting the wrong card".  *)
ResetHitsTheToken == reached # Empty /\ Command(request) = "reset" /\ Undisturbed => reached = TokenCard
=============================================================================
