---------------------------- MODULE Verification ----------------------------
(***************************************************************************)
(* --verify: a signature is verified against the trust anchors, the        *)
(* certificate that made it is checked, OCSP responders are asked, and the *)
(* outcome is printed and is the result of the command.  The status lines  *)
(* that the code emits on the way are dropped: nobody sets them up.        *)
(* A behaviour is one command, whose request the initial state chooses.    *)
(*                                                                         *)
(* A signature is what its signers are: what is true of the certificate    *)
(* and of the signature of each of them, which pools of CA certificates    *)
(* vouch for it, and which of them vouch for its time stamp.  The trust    *)
(* anchors that a verification gets are the ones of module TrustStore: the *)
(* store, or the certificates of the system without any public keys.       *)
(*                                                                         *)
(* The responders learn of the revocation at any time while they are asked.*)
(* A request has no nonce, so one that has learned of it, or whoever stands *)
(* in for it, can still answer with what was good before, until that has   *)
(* expired: the answers of all of them lapse when all have learned.        *)
(***************************************************************************)
EXTENDS Naturals, Sequences

CONSTANTS
  Signatures,     \* the signatures of CMS files that are verified
  Responders,     \* the OCSP responders
  NamedLists,     \* the responders that a certificate may name
  Configured,     \* the "ocsp-server" settings
  Policies        \* the values of the "require-ocsp" setting

Pools == {"store", "system", "empty"}

\* What can be true of a signer: the signature matches the message; the
\* certificate may make signatures; it is within its validity period now; the
\* signature has a time stamp; the time stamp is within that period; the key of
\* the certificate is the one of the card in the slot; the certificate is; the
\* key is one of the configured public keys.
Traits == {"intact", "fit", "current", "stamped", "covered",
           "cardkey", "cardcert", "configured"}

Signers ==
  [is : SUBSET Traits,
   anchor : [Pools -> {"none", "issued", "root"}],  \* how a pool vouches for it
   stampedBy : SUBSET Pools]                        \* pools that vouch for the stamp

ASSUME SignaturesAssumption == Signatures \subseteq Seq(Signers) \ {<<>>}
ASSUME RespondersAssumption ==
  /\ NamedLists \subseteq Seq(Responders)
  /\ Configured \in Seq(Responders)
ASSUME PoliciesAssumption == Policies \subseteq BOOLEAN

VARIABLES
  form,       \* a CMS file, or a signature embedded in a document
  signature,  \* its signers
  ownCard,    \* the card in the slot has a readable self-signed certificate
  required,   \* require-ocsp
  named,      \* the responders of the certificate
  learned,    \* the responders that know the certificate as revoked
  lapsed,     \* every answer that the certificate is good has expired
  knew,       \* it had when the first of them was asked
  pc,         \* what the command does next
  anchors,    \* the pool of CA certificates it was given
  kind,       \* how the certificate was trusted
  next,       \* the position of the responder that it asks next
  answers,    \* the answers it got
  broken,     \* the configuration could not be read
  lines,      \* the status lines that were written
  printed,    \* what the outcome says on stdout
  warned,     \* the warnings
  result      \* how the command ended

request == <<form, signature, ownCard, required, named>>
responders == <<learned, lapsed, knew>>
report == <<lines, printed, warned, result>>
vars == <<request, responders, pc, anchors, kind, next, answers, broken, report>>

Steps == {"read", "load", "ca", "card", "key", "check", "servers", "ask",
          "policy", "report", "done"}
Answers == {"good", "revoked", "unknown", "failed"}
StatusLines == {"NEWSIG", "GOODSIG", "TRUST_FULLY", "TRUST_ULTIMATE", "ERRSIG"}
TrustLines == {"ca_bundle", "card_certificate", "public_key"}

\* Only the commands that sign set the status file up, so --verify has none.
statusFile == FALSE

\* emit and emitf: a line without a status file is dropped.
Emit(emitted) == IF statusFile THEN emitted ELSE {}

\* A signature that is embedded in a document has one signer and no time stamp.
Embeddable(s) == Len(s) = 1 /\ "stamped" \notin s[1].is

Init ==
  /\ signature \in Signatures
  /\ form \in {f \in {"cms", "embedded"} : f = "embedded" => Embeddable(signature)}
  /\ ownCard \in BOOLEAN
  /\ required \in Policies
  /\ named \in NamedLists
  /\ learned = {}
  /\ lapsed = FALSE
  /\ knew = FALSE
  /\ pc = "read"
  /\ anchors = "empty"
  /\ kind = "none"
  /\ next = 1
  /\ answers = {}
  /\ broken = FALSE
  /\ lines = Emit({"NEWSIG"})
  /\ printed = {}
  /\ warned = {}
  /\ result = "none"

-----------------------------------------------------------------------------
Goto(step) ==
  /\ pc' = step
  /\ UNCHANGED report

\* The command cannot read what it is asked to verify.
Fail ==
  /\ pc' = "done"
  /\ result' = "failed"
  /\ UNCHANGED <<lines, printed, warned>>

\* The signature is not accepted.
Refuse ==
  /\ pc' = "done"
  /\ result' = "refused"
  /\ lines' = lines \cup Emit({"ERRSIG"})
  /\ UNCHANGED <<printed, warned>>

\* The files are read and parsed, and an embedded signature is checked against
\* its document.
Read ==
  /\ pc = "read"
  /\ \/ Fail
     \/ IF form = "embedded" /\ "intact" \notin signature[1].is
        THEN Refuse
        ELSE Goto("load")
  /\ UNCHANGED <<request, responders, anchors, kind, next, answers, broken>>

\* loadTrustAnchors; the public keys come with the store only.
Load ==
  /\ pc = "load"
  /\ anchors' \in Pools
  /\ Goto("ca")
  /\ UNCHANGED <<request, responders, kind, next, answers, broken>>

-----------------------------------------------------------------------------
(* SignedData.Verify: every signer is verified against the same roots.     *)

\* Mutant: a time stamp makes up for a validity period it is not within.
StampAloneCounts(s) == "current" \in s.is \/ "stamped" \in s.is

\* The time stamp counts instead of the present.
InPeriod(s) == IF "stamped" \in s.is THEN "covered" \in s.is ELSE "current" \in s.is

\* Roots is a pool, or "own" for the certificate of the signer alone, which
\* does not vouch for the certificate of a time stamp.
StampVouched(s, roots) == "stamped" \in s.is => roots \in s.stampedBy

Vouched(s, roots) == IF roots = "own" THEN TRUE ELSE s.anchor[roots] # "none"

Accepts(s, roots) ==
  /\ "intact" \in s.is
  /\ StampVouched(s, roots)
  /\ InPeriod(s)
  /\ Vouched(s, roots)

Indices == 1..Len(signature)

\* Mutant: the last of the signatures decides.
VerifyLast(roots) == Accepts(signature[Len(signature)], roots)

Verify(roots) == \A i \in Indices : Accepts(signature[i], roots)

Trust(how) ==
  /\ kind' = how
  /\ Goto("check")

TryNext(step) ==
  /\ Goto(step)
  /\ UNCHANGED kind

TryCA ==
  /\ pc = "ca"
  /\ IF Verify(anchors) THEN Trust("ca") ELSE TryNext("card")
  /\ UNCHANGED <<request, responders, anchors, next, answers, broken>>

\* The certificate that signed is the one of the card.  A CMS signature may
\* have another certificate of the same key, which is its own root then.
IsCardSigner(s) == IF form = "embedded" THEN "cardcert" \in s.is ELSE "cardkey" \in s.is

SelfSignedSigner ==
  /\ ownCard
  /\ Len(signature) = 1
  /\ IsCardSigner(signature[1])

TryCard ==
  /\ pc = "card"
  /\ IF SelfSignedSigner /\ Verify("own") THEN Trust("card") ELSE TryNext("key")
  /\ UNCHANGED <<request, responders, anchors, next, answers, broken>>

TrustedKeySigner ==
  /\ anchors = "store"
  /\ Len(signature) = 1
  /\ "configured" \in signature[1].is

TryKey ==
  /\ pc = "key"
  /\ IF TrustedKeySigner /\ Verify("own")
     THEN Trust("key")
     ELSE Refuse /\ UNCHANGED kind
  /\ UNCHANGED <<request, responders, anchors, next, answers, broken>>

-----------------------------------------------------------------------------
(* verifyChains: the first certificate of the first chain is checked.      *)

\* A chain of one certificate has no issuer that an answer could be checked
\* against.
HasIssuer == kind = "ca" /\ signature[1].anchor[anchors] = "issued"

Check ==
  /\ pc = "check"
  /\ IF "fit" \notin signature[1].is THEN Refuse
     ELSE Goto(IF HasIssuer THEN "servers" ELSE "report")
  /\ UNCHANGED <<request, responders, anchors, kind, next, answers, broken>>

\* The responders of the certificate come first.  One that is named again is
\* passed over.
OcspResponders == named \o Configured
Last == Len(OcspResponders)
New(i) == \A j \in 1..(i - 1) : OcspResponders[j] # OcspResponders[i]

\* The position after n that is not passed over, or the one after all of them.
Following(n) ==
  {i \in (n + 1)..(Last + 1) :
     /\ i = Last + 1 \/ New(i)
     /\ \A j \in (n + 1)..(i - 1) : ~New(j)}

\* The configuration is read, and a request is made when there is somebody to
\* ask; when that fails nobody is asked.
Servers ==
  /\ pc = "servers"
  /\ knew' = lapsed
  /\ \/ /\ broken' = TRUE
        /\ Refuse
     \/ /\ \/ Goto("policy")
           \/ next <= Last /\ Goto("ask")
        /\ UNCHANGED broken
  /\ UNCHANGED <<request, learned, lapsed, anchors, kind, next, answers>>

\* What comes back: nothing that can be used, an answer that does not know the
\* certificate, a good one that has expired, what the responder knows, or a good
\* one that was made earlier and is still accepted.
Responses(r) ==
  {"failed", "unknown", "expired"}
    \cup (IF r \in learned THEN {"revoked"} ELSE {})
    \cup (IF lapsed THEN {} ELSE {"good"})

\* Mutant: an answer that has expired counts.
ExpiredCounts(response) == IF response = "expired" THEN "good" ELSE response

\* queryOCSPResponder
Answer(response) == IF response = "expired" THEN "failed" ELSE response

\* Mutant: an answer that does not know the certificate ends the search.
UnknownDecides(a) == a \in {"good", "revoked", "unknown"}

Decisive(a) == a \in {"good", "revoked"}

\* Mutant: when the last responder fails, the first is asked again.
AskInTurns ==
  /\ pc = "ask"
  /\ \E response \in Responses(OcspResponders[next]) :
       LET a == Answer(response) IN
       /\ answers' = answers \cup {a}
       /\ \E i \in Following(next) : next' = IF a = "failed" /\ i > Last THEN 1 ELSE i
       /\ Goto(IF Decisive(a) \/ next' > Last THEN "policy" ELSE "ask")
  /\ UNCHANGED <<request, responders, anchors, kind, broken>>

\* One responder is asked; the first answer that decides ends the search.
Ask ==
  /\ pc = "ask"
  /\ next' \in Following(next)
  /\ \E response \in Responses(OcspResponders[next]) :
       /\ answers' = answers \cup {Answer(response)}
       /\ Goto(IF Decisive(Answer(response)) \/ next' > Last THEN "policy" ELSE "ask")
  /\ UNCHANGED <<request, responders, anchors, kind, broken>>

\* Nobody was asked because there is nobody to ask.
NotChecked == OcspResponders = <<>>

Warn ==
  /\ warned' = warned \cup {"revocation"}
  /\ pc' = "report"
  /\ UNCHANGED <<lines, printed, result>>

\* Mutant: no answer is an error, whatever the configuration says.
AlwaysRequired == Refuse

\* No answer that decides.
Undetermined ==
  \/ required /\ Refuse
  \/ ~required /\ NotChecked /\ Goto("report")
  \/ ~required /\ ~NotChecked /\ Warn

\* applyRevocationPolicy
Policy ==
  /\ pc = "policy"
  /\ \/ broken' = TRUE /\ Refuse
     \/ /\ \/ "revoked" \in answers /\ Refuse
           \/ "good" \in answers /\ Goto("report")
           \/ answers \cap {"revoked", "good"} = {} /\ Undetermined
        /\ UNCHANGED broken
  /\ UNCHANGED <<request, responders, anchors, kind, next, answers>>

\* The line at the end of the chain of trust says how its anchor was trusted.
TrustAnchorStatus ==
  CASE kind = "card" -> "card_certificate"
    [] kind = "key" -> "public_key"
    [] OTHER -> "ca_bundle"

\* warnTrustFallback and reportSignature
Report ==
  /\ pc = "report"
  /\ pc' = "done"
  /\ result' = "verified"
  /\ printed' = {"good", TrustAnchorStatus}
  /\ lines' = lines \cup
       Emit({"GOODSIG", IF kind = "ca" THEN "TRUST_FULLY" ELSE "TRUST_ULTIMATE"})
  /\ warned' = IF kind = "ca" THEN warned ELSE warned \cup {"trust"}
  /\ UNCHANGED <<request, responders, anchors, kind, next, answers, broken>>

-----------------------------------------------------------------------------
\* A responder learns that the certificate was revoked.  What it learns before
\* it could be asked, or after the answer that decides, makes no difference.
Learn ==
  /\ pc \in {"servers", "ask"}
  /\ \E r \in Responders : learned' = learned \cup {r}
  /\ UNCHANGED <<request, lapsed, knew, pc, anchors, kind, next, answers, broken, report>>

\* Nobody makes an answer any more that the certificate is good, and those that
\* were made have expired.
Lapse ==
  /\ pc \in {"servers", "ask"}
  /\ learned = Responders
  /\ lapsed' = TRUE
  /\ UNCHANGED <<request, learned, knew, pc, anchors, kind, next, answers, broken, report>>

Program ==
  \/ Read \/ Load \/ TryCA \/ TryCard \/ TryKey
  \/ Check \/ Servers \/ Ask \/ Policy \/ Report

Next == Program \/ Learn \/ Lapse

Spec == Init /\ [][Next]_vars

\* A verification waits for nobody but responders, each for a limited time.
FairSpec == Spec /\ WF_vars(Program)

-----------------------------------------------------------------------------
\* The types of the variables.
TypeOK ==
  /\ form \in {"cms", "embedded"}
  /\ signature \in Signatures
  /\ ownCard \in BOOLEAN
  /\ required \in BOOLEAN
  /\ named \in NamedLists
  /\ learned \in SUBSET Responders
  /\ lapsed \in BOOLEAN
  /\ knew \in BOOLEAN
  /\ pc \in Steps
  /\ anchors \in Pools
  /\ kind \in {"none", "ca", "card", "key"}
  /\ next \in 1..(Last + 1)
  /\ answers \in SUBSET Answers
  /\ broken \in BOOLEAN
  /\ lines \in SUBSET StatusLines
  /\ printed \in SUBSET (TrustLines \cup {"good"})
  /\ warned \in SUBSET {"trust", "revocation"}
  /\ result \in {"none", "verified", "refused", "failed"}

\* The signature itself is right: all of it matches the message and was made
\* within the validity period of its certificate.
Genuine ==
  \A i \in Indices :
    /\ "intact" \in signature[i].is
    /\ \/ {"stamped", "covered"} \subseteq signature[i].is
       \/ "stamped" \notin signature[i].is /\ "current" \in signature[i].is

\* The pool vouches for every certificate and every time stamp.
VouchedBy(pool) ==
  \A i \in Indices :
    /\ signature[i].anchor[pool] # "none"
    /\ "stamped" \in signature[i].is => pool \in signature[i].stampedBy

\* The only signer is the card in the slot, or has a configured public key.
CardMadeIt ==
  /\ Len(signature) = 1
  /\ ownCard
  /\ (IF form = "embedded" THEN "cardcert" ELSE "cardkey") \in signature[1].is

KeyIsConfigured ==
  /\ Len(signature) = 1
  /\ anchors = "store"
  /\ "configured" \in signature[1].is

TrustedItself == CardMadeIt \/ KeyIsConfigured

\* "Good signature" is printed for a genuine signature of a certificate that may
\* sign, and the end of its chain of trust tells why it is trusted: the pool for
\* all of its signers, the card or a configured key for the only one, with a
\* warning.  The result of the command agrees with what is printed.
GoodIsDeserved ==
  /\ "good" \in printed <=> result = "verified"
  /\ "good" \in printed =>
       /\ Genuine
       /\ "fit" \in signature[1].is
       /\ "ca_bundle" \in printed => VouchedBy(anchors)
       /\ "card_certificate" \in printed => CardMadeIt /\ "trust" \in warned
       /\ "public_key" \in printed => KeyIsConfigured /\ "trust" \in warned
       /\ \E line \in TrustLines : printed = {"good", line}

\* No signature is refused without a reason: neither the order in which the
\* anchors are tried nor a responder that does not answer costs a signature
\* its verdict, unless require-ocsp asks for that.
RefusalHasReason ==
  result = "refused" =>
    \/ ~Genuine
    \/ ~VouchedBy(anchors) /\ ~TrustedItself
    \/ ~VouchedBy(anchors) /\ "stamped" \in signature[1].is
    \/ "fit" \notin signature[1].is
    \/ "revoked" \in answers
    \/ required /\ "good" \notin answers
    \/ broken

\* A certificate that was issued is accepted after a responder said that it is
\* good and none before it that it was revoked, or without require-ocsp after
\* every responder failed to decide.  Once every responder has learned of the
\* revocation and what they said before has expired, no answer of theirs makes
\* up for it; until then an old one does, since a request has no nonce.
RevocationIsDecided ==
  result = "verified" /\ HasIssuer =>
    /\ "revoked" \notin answers
    /\ "good" \in answers \/ (~required /\ (next > Last \/ answers = {}))
    /\ knew => "good" \notin answers

\* Every verification ends, whatever the responders do.
VerificationEnds == <>(pc = "done")
=============================================================================
