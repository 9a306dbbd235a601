------------------------- MODULE VerificationProofs -------------------------
(***************************************************************************)
(* What module Verification promises, for all signatures with any number   *)
(* of signers, any number of responders and any configuration.             *)
(***************************************************************************)
EXTENDS Verification, TLAPS

\* The signature has at least one signer, and each is a signer.
LEMMA SignatureType ==
  ASSUME signature \in Signatures
  PROVE  /\ signature \in Seq(Signers)
         /\ Len(signature) \in Nat \ {0}
         /\ 1 \in Indices
         /\ \A i \in Indices : signature[i] \in Signers
<1>1. signature \in Seq(Signers) /\ signature # <<>>
  BY SignaturesAssumption
<1>2. Len(signature) \in Nat \ {0}
  BY <1>1
<1> QED
  BY <1>1, <1>2 DEF Indices

\* The responders are a sequence.
LEMMA RespondersType ==
  ASSUME named \in NamedLists
  PROVE  /\ OcspResponders \in Seq(Responders)
         /\ Last \in Nat
         /\ \A i \in 1..Last : OcspResponders[i] \in Responders
<1>1. OcspResponders \in Seq(Responders)
  BY RespondersAssumption DEF OcspResponders
<1> QED
  BY <1>1 DEF Last

\* The request is the one of the initial state, and so are the responders.
LEMMA RequestStays ==
  ASSUME [Next]_vars
  PROVE  UNCHANGED <<form, signature, ownCard, required, named>>
BY DEF Next, Program, Read, Load, TryCA, TryCard, TryKey, Check, Servers, Ask,
       Policy, Report, Learn, Lapse, vars, request

-----------------------------------------------------------------------------
LEMMA InitTypes == Init => TypeOK
<1> SUFFICES ASSUME Init PROVE TypeOK
  OBVIOUS
<1>1. Last \in Nat
  BY RespondersType DEF Init
<1>2. 1 \in 1..(Last + 1)
  BY <1>1
<1>3. required \in BOOLEAN
  BY PoliciesAssumption DEF Init
<1> QED
  BY <1>2, <1>3 DEF Init, TypeOK, Steps, Pools, StatusLines, Emit, statusFile

\* An answer is one of the four, and what every step of the program leaves in
\* the report is a report.
LEMMA AnswerTypes ==
  ASSUME NEW r, NEW response \in Responses(r)
  PROVE  Answer(response) \in Answers
BY DEF Responses, Answer, Answers

LEMMA ReportTypes ==
  ASSUME TypeOK, NEW step \in Steps, Goto(step) \/ Refuse \/ Fail \/ Warn
  PROVE  /\ pc' \in Steps
         /\ lines' \in SUBSET StatusLines
         /\ printed' \in SUBSET (TrustLines \cup {"good"})
         /\ warned' \in SUBSET {"trust", "revocation"}
         /\ result' \in {"none", "verified", "refused", "failed"}
BY DEF TypeOK, Goto, Refuse, Fail, Warn, report, Steps, StatusLines, Emit, statusFile

\* Every step keeps the types.
LEMMA NextTypes == TypeOK /\ [Next]_vars => TypeOK'
<1> SUFFICES ASSUME TypeOK, [Next]_vars PROVE TypeOK'
  OBVIOUS
<1>0. /\ form' \in {"cms", "embedded"} /\ signature' \in Signatures
      /\ ownCard' \in BOOLEAN /\ required' \in BOOLEAN /\ named' \in NamedLists
      /\ Last' = Last
  BY RequestStays DEF TypeOK, Last, OcspResponders
<1> DEFINE Reported ==
      /\ pc' \in Steps
      /\ lines' \in SUBSET StatusLines
      /\ printed' \in SUBSET (TrustLines \cup {"good"})
      /\ warned' \in SUBSET {"trust", "revocation"}
      /\ result' \in {"none", "verified", "refused", "failed"}
<1> DEFINE Local ==
      /\ learned' \in SUBSET Responders /\ lapsed' \in BOOLEAN /\ knew' \in BOOLEAN
      /\ anchors' \in Pools
      /\ kind' \in {"none", "ca", "card", "key"}
      /\ next' \in 1..(Last + 1)
      /\ answers' \in SUBSET Answers
      /\ broken' \in BOOLEAN
<1>1. CASE Read
  <2>1. Reported
    BY <1>1, ReportTypes DEF Read, Steps
  <2>2. Local
    BY <1>1 DEF Read, TypeOK, responders
  <2> QED
    BY <1>0, <2>1, <2>2 DEF TypeOK
<1>2. CASE Load
  <2>1. Reported
    BY <1>2, ReportTypes DEF Load, Steps
  <2>2. Local
    BY <1>2 DEF Load, TypeOK, responders
  <2> QED
    BY <1>0, <2>1, <2>2 DEF TypeOK
<1>3. CASE TryCA
  <2>1. Reported
    BY <1>3, ReportTypes DEF TryCA, Trust, TryNext, Steps
  <2>2. Local
    BY <1>3 DEF TryCA, Trust, TryNext, TypeOK, responders
  <2> QED
    BY <1>0, <2>1, <2>2 DEF TypeOK
<1>4. CASE TryCard
  <2>1. Reported
    BY <1>4, ReportTypes DEF TryCard, Trust, TryNext, Steps
  <2>2. Local
    BY <1>4 DEF TryCard, Trust, TryNext, TypeOK, responders
  <2> QED
    BY <1>0, <2>1, <2>2 DEF TypeOK
<1>5. CASE TryKey
  <2>1. Reported
    BY <1>5, ReportTypes DEF TryKey, Trust, Steps
  <2>2. Local
    BY <1>5 DEF TryKey, Trust, TypeOK, responders
  <2> QED
    BY <1>0, <2>1, <2>2 DEF TypeOK
<1>6. CASE Check
  <2>1. Reported
    BY <1>6, ReportTypes DEF Check, Steps
  <2>2. Local
    BY <1>6 DEF Check, TypeOK, responders
  <2> QED
    BY <1>0, <2>1, <2>2 DEF TypeOK
<1>7. CASE Servers
  <2>1. Reported
    BY <1>7, ReportTypes DEF Servers, Steps
  <2>2. Local
    BY <1>7 DEF Servers, TypeOK, responders
  <2> QED
    BY <1>0, <2>1, <2>2 DEF TypeOK
<1>8. CASE Ask
  <2>1. Reported
    BY <1>8, ReportTypes DEF Ask, Steps
  <2>2. next' \in 1..(Last + 1)
    BY <1>8, RespondersType DEF Ask, Following, TypeOK
  <2>3. answers' \in SUBSET Answers
    BY <1>8, AnswerTypes DEF Ask, TypeOK
  <2>4. Local
    BY <1>8, <2>2, <2>3 DEF Ask, TypeOK, responders
  <2> QED
    BY <1>0, <2>1, <2>4 DEF TypeOK
<1>9. CASE Policy
  <2>1. Reported
    BY <1>9, ReportTypes DEF Policy, Undetermined, Steps
  <2>2. Local
    BY <1>9 DEF Policy, TypeOK, responders
  <2> QED
    BY <1>0, <2>1, <2>2 DEF TypeOK
<1>10. CASE Report
  <2>1. Reported
    BY <1>10 DEF Report, TypeOK, Steps, TrustLines, TrustAnchorStatus, Emit, statusFile
  <2>2. Local
    BY <1>10 DEF Report, TypeOK, responders
  <2> QED
    BY <1>0, <2>1, <2>2 DEF TypeOK
<1>11. CASE Learn \/ Lapse
  <2>1. Reported
    BY <1>11 DEF Learn, Lapse, report, TypeOK
  <2>2. Local
    BY <1>11 DEF Learn, Lapse, TypeOK, responders
  <2> QED
    BY <1>0, <2>1, <2>2 DEF TypeOK
<1>12. CASE UNCHANGED vars
  <2>1. Reported /\ Local
    BY <1>12 DEF vars, responders, report, TypeOK
  <2> QED
    BY <1>0, <2>1 DEF TypeOK
<1> QED
  BY <1>1, <1>2, <1>3, <1>4, <1>5, <1>6, <1>7, <1>8, <1>9, <1>10, <1>11, <1>12
  DEF Next, Program

\* The type invariant.
THEOREM TypeCorrect == Spec => []TypeOK
BY InitTypes, NextTypes, PTL DEF Spec

-----------------------------------------------------------------------------
(* What the command has established when it comes to a step.               *)

\* The verdict is the last thing that is reported.
Pending == pc # "done" => printed = {} /\ result = "none"

\* An anchor is tried when the ones before it did not do.
Tried ==
  /\ pc \in {"card", "key"} => ~Verify(anchors)
  /\ pc = "key" => ~(SelfSignedSigner /\ Verify("own"))

\* The signature is verified the way the command says.
Trusted ==
  pc \in {"check", "servers", "ask", "policy", "report"} =>
    \/ kind = "ca" /\ Verify(anchors)
    \/ kind = "card" /\ SelfSignedSigner /\ Verify("own")
    \/ kind = "key" /\ TrustedKeySigner /\ Verify("own")

Checked == pc \in {"servers", "ask", "policy", "report"} => "fit" \in signature[1].is

\* Responders are asked as long as no answer decides.
Asked ==
  /\ pc \notin {"ask", "policy", "report", "done"} => answers = {}
  /\ pc = "ask" => next <= Last /\ "good" \notin answers /\ "revoked" \notin answers
  /\ pc = "policy" =>
       /\ ~("good" \in answers /\ "revoked" \in answers)
       /\ answers = {} \/ next > Last \/ "good" \in answers \/ "revoked" \in answers
  /\ pc = "report" /\ HasIssuer =>
       /\ "revoked" \notin answers
       /\ "good" \in answers \/ (~required /\ (next > Last \/ answers = {}))

\* Answers that have lapsed are not given again.
Known ==
  /\ knew => lapsed
  /\ "good" \in answers => ~knew

IInv == TypeOK /\ Pending /\ Tried /\ Trusted /\ Checked /\ Asked /\ Known

LEMMA InitInvariant == Init => IInv
BY InitTypes DEF Init, IInv, Pending, Tried, Trusted, Checked, Asked, Known

\* The part of the invariant that is about the signature depends on little.
LEMMA SignatureStays ==
  ASSUME [Next]_vars, UNCHANGED anchors
  PROVE  /\ Verify(anchors)' <=> Verify(anchors)
         /\ Verify("own")' <=> Verify("own")
         /\ SelfSignedSigner' <=> SelfSignedSigner
         /\ TrustedKeySigner' <=> TrustedKeySigner
         /\ signature' = signature
BY RequestStays DEF Verify, Accepts, Indices, SelfSignedSigner, IsCardSigner,
   TrustedKeySigner, Vouched, StampVouched, InPeriod

\* The report is pending until the command is done.
LEMMA NextPending == IInv /\ [Next]_vars => Pending'
BY DEF IInv, Pending, Next, Program, Read, Load, TryCA, TryCard, TryKey, Trust, TryNext,
       Check, Servers, Ask, Policy, Undetermined, Warn, Report, Learn, Lapse, Goto, Refuse, Fail,
       vars, report

LEMMA NextTried == IInv /\ [Next]_vars => Tried'
<1> SUFFICES ASSUME IInv, [Next]_vars PROVE Tried'
  OBVIOUS
<1>1. CASE Load
  BY <1>1 DEF Load, Goto, Tried
<1>2. CASE UNCHANGED anchors
  <2>1. Tried' <=>
          /\ pc' \in {"card", "key"} => ~Verify(anchors)
          /\ pc' = "key" => ~(SelfSignedSigner /\ Verify("own"))
    BY <1>2, SignatureStays DEF Tried
  <2> QED
    BY <2>1 DEF IInv, Tried, Next, Program, Read, Load, TryCA, TryCard, TryKey, Trust, TryNext,
       Check, Servers, Ask, Policy, Undetermined, Warn, Report, Learn, Lapse, Goto, Refuse, Fail,
       vars
<1> QED
  BY <1>1, <1>2 DEF Next, Program, Read, TryCA, TryCard, TryKey, Check, Servers, Ask,
     Policy, Report, Learn, Lapse, vars

LEMMA NextTrusted == IInv /\ [Next]_vars => Trusted'
<1> SUFFICES ASSUME IInv, [Next]_vars PROVE Trusted'
  OBVIOUS
<1>1. CASE Load
  BY <1>1 DEF Load, Goto, Trusted
<1>2. CASE UNCHANGED anchors
  <2>1. Trusted' <=>
          (pc' \in {"check", "servers", "ask", "policy", "report"} =>
             \/ kind' = "ca" /\ Verify(anchors)
             \/ kind' = "card" /\ SelfSignedSigner /\ Verify("own")
             \/ kind' = "key" /\ TrustedKeySigner /\ Verify("own"))
    BY <1>2, SignatureStays DEF Trusted
  <2> QED
    BY <2>1 DEF IInv, Trusted, Next, Program, Read, Load, TryCA, TryCard, TryKey, Trust, TryNext,
       Check, Servers, Ask, Policy, Undetermined, Warn, Report, Learn, Lapse, Goto, Refuse, Fail,
       vars
<1> QED
  BY <1>1, <1>2 DEF Next, Program, Read, TryCA, TryCard, TryKey, Check, Servers, Ask,
     Policy, Report, Learn, Lapse, vars

LEMMA NextChecked == IInv /\ [Next]_vars => Checked'
<1> SUFFICES ASSUME IInv, [Next]_vars PROVE Checked'
  OBVIOUS
<1>1. signature' = signature
  BY RequestStays
<1> QED
  BY <1>1 DEF IInv, Checked, Next, Program, Read, Load, TryCA, TryCard, TryKey, Trust, TryNext,
     Check, Servers, Ask, Policy, Undetermined, Warn, Report, Learn, Lapse, Goto, Refuse, Fail, vars

LEMMA NextKnown == IInv /\ [Next]_vars => Known'
<1> SUFFICES ASSUME IInv, [Next]_vars PROVE Known'
  OBVIOUS
<1>0. lapsed \in BOOLEAN /\ knew \in BOOLEAN
  BY DEF IInv, TypeOK
<1>1. CASE Ask
  <2>1. PICK response \in Responses(OcspResponders[next]) :
          answers' = answers \cup {Answer(response)}
    BY <1>1 DEF Ask
  <2>2. lapsed' = lapsed /\ knew' = knew
    BY <1>1 DEF Ask, responders
  <2>3. Answer(response) = "good" => ~lapsed
    BY <2>1 DEF Responses, Answer
  <2> QED
    BY <2>1, <2>2, <2>3 DEF IInv, Known
<1>2. CASE Servers
  <2>1. knew' = lapsed /\ lapsed' = lapsed /\ answers = {} /\ answers' = answers
    BY <1>2 DEF Servers, IInv, Asked
  <2> QED
    BY <2>1 DEF Known
<1>3. CASE ~Ask /\ ~Servers
  <2>1. answers' = answers /\ (lapsed => lapsed') /\ knew' = knew
    BY <1>3 DEF Next, Program, Read, Load, TryCA, TryCard, TryKey, Check,
       Policy, Report, Learn, Lapse, vars, responders
  <2> QED
    BY <2>1 DEF IInv, Known
<1> QED
  BY <1>1, <1>2, <1>3

\* What is asked and answered agrees with the step.  Only four actions matter.
LEMMA NextAsked == IInv /\ [Next]_vars => Asked'
<1> SUFFICES ASSUME IInv, [Next]_vars PROVE Asked'
  OBVIOUS
<1>0. /\ signature' = signature /\ required' = required /\ OcspResponders' = OcspResponders
      /\ Last' = Last
  BY RequestStays DEF OcspResponders, Last
<1>1. CASE Check
  <2>1. HasIssuer' <=> HasIssuer
    BY <1>0, <1>1 DEF Check, HasIssuer
  <2>2. answers = {} /\ answers' = {}
    BY <1>1 DEF Check, IInv, Asked
  <2> QED
    BY <1>1, <2>1, <2>2 DEF Check, Refuse, Fail, Goto, Asked
<1>2. CASE Servers
  <2>1. answers = {} /\ answers' = {} /\ next' = next
    BY <1>2 DEF Servers, IInv, Asked
  <2> QED
    BY <1>0, <1>2, <2>1 DEF Servers, Refuse, Fail, Goto, Asked
<1>3. CASE Ask
  <2>1. PICK response \in Responses(OcspResponders[next]) :
          /\ answers' = answers \cup {Answer(response)}
          /\ Goto(IF Decisive(Answer(response)) \/ next' > Last THEN "policy" ELSE "ask")
    BY <1>3 DEF Ask
  <2>2. "good" \notin answers /\ "revoked" \notin answers
    BY <1>3 DEF Ask, IInv, Asked
  <2>3. next' \in 1..(Last + 1) /\ Last \in Nat
    BY <1>0, NextTypes, RespondersType DEF IInv, TypeOK
  <2>4. CASE Decisive(Answer(response)) \/ next' > Last
    <3>1. pc' = "policy"
      BY <2>1, <2>4 DEF Goto
    <3>2. ~("good" \in answers' /\ "revoked" \in answers')
      BY <2>1, <2>2
    <3>3. next' > Last \/ "good" \in answers' \/ "revoked" \in answers'
      BY <2>1, <2>4 DEF Decisive
    <3> QED
      BY <1>0, <3>1, <3>2, <3>3 DEF Asked
  <2>5. CASE ~(Decisive(Answer(response)) \/ next' > Last)
    <3>1. pc' = "ask" /\ next' <= Last
      BY <2>1, <2>3, <2>5 DEF Goto
    <3>2. "good" \notin answers' /\ "revoked" \notin answers'
      BY <2>1, <2>2, <2>5 DEF Decisive
    <3> QED
      BY <1>0, <3>1, <3>2 DEF Asked
  <2> QED
    BY <2>4, <2>5
<1>4. CASE Policy
  <2>1. HasIssuer' <=> HasIssuer
    BY <1>0, <1>4 DEF Policy, HasIssuer
  <2>2. answers' = answers /\ next' = next
    BY <1>4 DEF Policy
  <2>3. CASE pc' = "done"
    BY <2>3 DEF Asked
  <2>4. CASE pc' = "report"
    <3>1. ~Refuse
      BY <2>4 DEF Refuse, Fail
    <3>2. \/ "good" \in answers
          \/ answers \cap {"revoked", "good"} = {} /\ ~required
      BY <1>4, <3>1 DEF Policy, Undetermined
    <3>3. /\ ~("good" \in answers /\ "revoked" \in answers)
          /\ answers = {} \/ next > Last \/ "good" \in answers \/ "revoked" \in answers
      BY <1>4 DEF Policy, IInv, Asked
    <3> QED
      BY <1>0, <2>1, <2>2, <2>4, <3>2, <3>3 DEF Asked
  <2> QED
    BY <1>4, <2>3, <2>4 DEF Policy, Undetermined, Warn, Refuse, Fail, Goto
<1>5. CASE Learn \/ Lapse \/ UNCHANGED vars
  <2>1. pc' = pc /\ answers' = answers /\ next' = next /\ (HasIssuer' <=> HasIssuer)
    BY <1>0, <1>5 DEF Learn, Lapse, vars, HasIssuer
  <2> QED
    BY <1>0, <2>1 DEF IInv, Asked
<1>6. CASE Read \/ Load \/ TryCA \/ TryCard \/ TryKey
  <2>1. pc' \notin {"ask", "policy", "report"} /\ answers = {} /\ answers' = answers
    BY <1>6 DEF Read, Load, TryCA, TryCard, TryKey, Trust, TryNext, Goto, Refuse, Fail,
       IInv, Asked
  <2> QED
    BY <2>1 DEF Asked
<1>7. CASE Report
  BY <1>7 DEF Report, Asked
<1> QED
  BY <1>1, <1>2, <1>3, <1>4, <1>5, <1>6, <1>7 DEF Next, Program

LEMMA Invariant == Spec => []IInv
<1>1. IInv /\ [Next]_vars => IInv'
  BY NextTypes, NextPending, NextTried, NextTrusted, NextChecked, NextAsked, NextKnown
  DEF IInv
<1> QED
  BY InitInvariant, <1>1, PTL DEF Spec

-----------------------------------------------------------------------------
(* The verdict.                                                            *)

\* A signature that is verified is genuine, and its anchors vouch for it.
LEMMA VerifiedIsGenuine ==
  ASSUME NEW roots, Verify(roots)
  PROVE  Genuine
BY DEF Verify, Accepts, InPeriod, Genuine

LEMMA VerifiedIsVouched ==
  ASSUME anchors \in Pools, Verify(anchors)
  PROVE  VouchedBy(anchors)
BY DEF Verify, Accepts, Vouched, StampVouched, VouchedBy, Pools

\* The converse, for the pool and for the certificate itself.
LEMMA VouchedIsVerified ==
  ASSUME anchors \in Pools, Genuine, VouchedBy(anchors)
  PROVE  Verify(anchors)
BY DEF Verify, Accepts, Vouched, StampVouched, VouchedBy, Pools, Genuine, InPeriod

LEMMA OwnIsVerified ==
  ASSUME Genuine, Len(signature) = 1, "stamped" \notin signature[1].is
  PROVE  Verify("own")
<1>1. Indices = {1}
  BY DEF Indices
<1> QED
  BY <1>1 DEF Verify, Accepts, Vouched, StampVouched, Genuine, InPeriod

\* The properties are about what does not change after the verdict.
LEMMA DoneStays ==
  ASSUME [Next]_vars, pc = "done"
  PROVE  UNCHANGED vars
BY DEF Next, Program, Read, Load, TryCA, TryCard, TryKey, Check, Servers, Ask, Policy,
   Report, Learn, Lapse

\* The verdict is about the request and what the command has found.
LEMMA VerdictStays ==
  ASSUME [Next]_vars, UNCHANGED anchors
  PROVE  /\ Genuine' <=> Genuine
         /\ VouchedBy(anchors)' <=> VouchedBy(anchors)
         /\ CardMadeIt' <=> CardMadeIt
         /\ KeyIsConfigured' <=> KeyIsConfigured
         /\ TrustedItself' <=> TrustedItself
BY RequestStays DEF Genuine, VouchedBy, CardMadeIt, KeyIsConfigured, TrustedItself, Indices

\* Only Report prints a verdict.
LEMMA OnlyReport ==
  ASSUME IInv, [Next]_vars, pc # "done", ~Report
  PROVE  /\ printed' = {}
         /\ result' \in {"none", "refused", "failed"}
BY DEF IInv, Pending, Next, Program, Read, Load, TryCA, TryCard, TryKey, Trust, TryNext,
   Check, Servers, Ask, Policy, Undetermined, Warn, Learn, Lapse, Goto, Refuse, Fail, vars,
   report

\* How a signature was trusted says who vouches for it.
LEMMA TrustIsDeserved ==
  ASSUME IInv, pc = "report"
  PROVE  /\ kind \in {"ca", "card", "key"}
         /\ Genuine
         /\ kind = "ca" => VouchedBy(anchors)
         /\ kind = "card" => CardMadeIt
         /\ kind = "key" => KeyIsConfigured
<1>1. /\ anchors \in Pools
      /\ \/ kind = "ca" /\ Verify(anchors)
         \/ kind = "card" /\ SelfSignedSigner /\ Verify("own")
         \/ kind = "key" /\ TrustedKeySigner /\ Verify("own")
  BY DEF IInv, Trusted, TypeOK
<1>2. Genuine
  BY <1>1, VerifiedIsGenuine
<1>3. kind = "ca" => VouchedBy(anchors)
  BY <1>1, VerifiedIsVouched
<1>4. /\ SelfSignedSigner => CardMadeIt
      /\ TrustedKeySigner => KeyIsConfigured
  BY DEF SelfSignedSigner, IsCardSigner, TrustedKeySigner, CardMadeIt, KeyIsConfigured
<1> QED
  BY <1>1, <1>2, <1>3, <1>4

LEMMA NextGood == IInv /\ GoodIsDeserved /\ [Next]_vars => GoodIsDeserved'
<1> SUFFICES ASSUME IInv, GoodIsDeserved, [Next]_vars PROVE GoodIsDeserved'
  OBVIOUS
<1>1. CASE pc = "done"
  <2>1. UNCHANGED vars
    BY <1>1, DoneStays
  <2>2. /\ UNCHANGED <<printed, result, warned, anchors>>
        /\ signature' = signature
    BY <2>1, RequestStays DEF vars, report
  <2> QED
    BY <2>2, VerdictStays DEF GoodIsDeserved
<1>2. CASE pc # "done" /\ ~Report
  BY <1>2, OnlyReport DEF GoodIsDeserved
<1>3. CASE Report
  <2>1. /\ result' = "verified"
        /\ printed' = {"good", TrustAnchorStatus}
        /\ kind # "ca" => "trust" \in warned'
    BY <1>3 DEF Report
  <2>2. /\ UNCHANGED anchors
        /\ signature' = signature
        /\ "fit" \in signature[1].is
    BY <1>3, RequestStays DEF Report, IInv, Checked
  <2>3. /\ kind \in {"ca", "card", "key"}
        /\ Genuine'
        /\ kind = "ca" => VouchedBy(anchors)'
        /\ kind = "card" => CardMadeIt'
        /\ kind = "key" => KeyIsConfigured'
    BY <1>3, <2>2, TrustIsDeserved, VerdictStays DEF Report
  <2>4. CASE kind = "ca"
    <3>1. printed' = {"good", "ca_bundle"}
      BY <2>1, <2>4 DEF TrustAnchorStatus
    <3> QED
      BY <2>1, <2>2, <2>3, <2>4, <3>1 DEF GoodIsDeserved, TrustLines
  <2>5. CASE kind = "card"
    <3>1. printed' = {"good", "card_certificate"}
      BY <2>1, <2>5 DEF TrustAnchorStatus
    <3> QED
      BY <2>1, <2>2, <2>3, <2>5, <3>1 DEF GoodIsDeserved, TrustLines
  <2>6. CASE kind = "key"
    <3>1. printed' = {"good", "public_key"}
      BY <2>1, <2>6 DEF TrustAnchorStatus
    <3> QED
      BY <2>1, <2>2, <2>3, <2>6, <3>1 DEF GoodIsDeserved, TrustLines
  <2> QED
    BY <2>3, <2>4, <2>5, <2>6
<1> QED
  BY <1>1, <1>2, <1>3

\* "Good signature" is printed for signatures that deserve it, with the reason
\* why they are trusted, and a command that succeeds has printed it.
THEOREM GoodIsDeservedCorrect == Spec => []GoodIsDeserved
<1>1. Init => GoodIsDeserved
  BY DEF Init, GoodIsDeserved
<1> QED
  BY <1>1, Invariant, NextGood, PTL DEF Spec

-----------------------------------------------------------------------------
\* A refusal of the last anchor means that none of them would do.
LEMMA NoAnchor ==
  ASSUME IInv, pc = "key", ~(TrustedKeySigner /\ Verify("own"))
  PROVE  \/ ~Genuine
         \/ ~VouchedBy(anchors) /\ ~TrustedItself
         \/ ~VouchedBy(anchors) /\ "stamped" \in signature[1].is
<1> SUFFICES ASSUME Genuine,
                    VouchedBy(anchors) \/ TrustedItself,
                    VouchedBy(anchors) \/ "stamped" \notin signature[1].is
             PROVE  FALSE
  OBVIOUS
<1>1. anchors \in Pools /\ form \in {"cms", "embedded"}
  BY DEF IInv, TypeOK
<1>2. ~Verify(anchors) /\ ~(SelfSignedSigner /\ Verify("own"))
  BY DEF IInv, Tried
<1>3. ~VouchedBy(anchors)
  BY <1>1, <1>2, VouchedIsVerified
<1>4. TrustedItself /\ "stamped" \notin signature[1].is
  BY <1>3
<1>5. Verify("own")
  BY <1>4, OwnIsVerified DEF TrustedItself, CardMadeIt, KeyIsConfigured
<1>6. SelfSignedSigner \/ TrustedKeySigner
  BY <1>1, <1>4 DEF TrustedItself, CardMadeIt, KeyIsConfigured, SelfSignedSigner,
     IsCardSigner, TrustedKeySigner
<1> QED
  BY <1>2, <1>5, <1>6

LEMMA NextRefusal == IInv /\ RefusalHasReason /\ [Next]_vars => RefusalHasReason'
<1> SUFFICES ASSUME IInv, RefusalHasReason, [Next]_vars PROVE RefusalHasReason'
  OBVIOUS
<1>0. signature' = signature /\ required' = required
  BY RequestStays
<1> DEFINE Reason(g, v, t, a, b) ==
      \/ ~g
      \/ ~v /\ ~t
      \/ ~v /\ "stamped" \in signature[1].is
      \/ "fit" \notin signature[1].is
      \/ "revoked" \in a
      \/ required /\ "good" \notin a
      \/ b
<1>a. UNCHANGED anchors =>
        (RefusalHasReason' <=>
          (result' = "refused" =>
            Reason(Genuine, VouchedBy(anchors), TrustedItself, answers', broken')))
  BY <1>0, VerdictStays DEF RefusalHasReason
<1>b. pc # "done" => result = "none"
  BY DEF IInv, Pending
<1>1. CASE UNCHANGED vars
  <2>1. UNCHANGED <<anchors, result, answers, broken>>
    BY <1>1 DEF vars, report
  <2> QED
    BY <1>a, <2>1 DEF RefusalHasReason
<1>2. CASE Read
  <2>1. UNCHANGED anchors /\ pc # "done"
    BY <1>2 DEF Read
  <2>2. result' = "refused" => "intact" \notin signature[1].is
    BY <1>2, <1>b, <2>1 DEF Read, Refuse, Fail, Goto, report
  <2>3. "intact" \notin signature[1].is => ~Genuine
    BY SignatureType DEF IInv, TypeOK, Genuine
  <2> QED
    BY <1>a, <2>1, <2>2, <2>3
<1>3. CASE Load
  BY <1>3, <1>b DEF Load, Goto, report, RefusalHasReason
<1>4. CASE TryCA \/ TryCard
  BY <1>4, <1>b DEF TryCA, TryCard, Trust, TryNext, Goto, report, RefusalHasReason
<1>5. CASE TryKey
  <2>1. UNCHANGED anchors /\ pc = "key"
    BY <1>5 DEF TryKey
  <2>2. result' = "refused" => ~(TrustedKeySigner /\ Verify("own"))
    BY <1>5, <1>b, <2>1 DEF TryKey, Trust, Goto, report
  <2> QED
    BY <1>a, <2>1, <2>2, NoAnchor
<1>6. CASE Check
  <2>1. UNCHANGED anchors /\ pc # "done"
    BY <1>6 DEF Check
  <2>2. result' = "refused" => "fit" \notin signature[1].is
    BY <1>6, <1>b, <2>1 DEF Check, Goto, report
  <2> QED
    BY <1>a, <2>1, <2>2
<1>7. CASE Servers
  <2>1. UNCHANGED anchors /\ pc # "done"
    BY <1>7 DEF Servers
  <2>2. result' = "refused" => broken' = TRUE
    BY <1>7, <1>b, <2>1 DEF Servers, Goto, report
  <2> QED
    BY <1>a, <2>1, <2>2
<1>8. CASE Ask \/ Report \/ Learn \/ Lapse
  <2>1. pc # "done" /\ result' # "refused"
    BY <1>8, <1>b DEF Ask, Report, Learn, Lapse, Goto, report
  <2> QED
    BY <2>1 DEF RefusalHasReason
<1>9. CASE Policy
  <2>1. UNCHANGED <<anchors, answers>> /\ pc # "done"
    BY <1>9 DEF Policy
  <2>2. result' = "refused" =>
          \/ broken' = TRUE
          \/ "revoked" \in answers
          \/ required /\ "good" \notin answers
    BY <1>9, <1>b, <2>1 DEF Policy, Undetermined, Warn, Goto, report
  <2> QED
    BY <1>a, <2>1, <2>2
<1> QED
  BY <1>1, <1>2, <1>3, <1>4, <1>5, <1>6, <1>7, <1>8, <1>9 DEF Next, Program

\* No signature is refused without a reason.
THEOREM RefusalHasReasonCorrect == Spec => []RefusalHasReason
<1>1. Init => RefusalHasReason
  BY DEF Init, RefusalHasReason
<1> QED
  BY <1>1, Invariant, NextRefusal, PTL DEF Spec

-----------------------------------------------------------------------------
LEMMA NextRevocation == IInv /\ RevocationIsDecided /\ [Next]_vars => RevocationIsDecided'
<1> SUFFICES ASSUME IInv, RevocationIsDecided, [Next]_vars PROVE RevocationIsDecided'
  OBVIOUS
<1>0. /\ signature' = signature /\ required' = required
      /\ OcspResponders' = OcspResponders /\ Last' = Last
  BY RequestStays DEF OcspResponders, Last
<1>1. CASE pc = "done"
  <2>1. UNCHANGED vars
    BY <1>1, DoneStays
  <2>2. UNCHANGED <<result, answers, kind, anchors, next, knew>>
    BY <2>1 DEF vars, report, responders
  <2> QED
    BY <1>0, <2>2 DEF RevocationIsDecided, HasIssuer
<1>2. CASE pc # "done" /\ ~Report
  BY <1>2, OnlyReport DEF RevocationIsDecided
<1>3. CASE Report
  <2>1. /\ UNCHANGED <<answers, next, knew>>
        /\ HasIssuer' <=> HasIssuer
        /\ pc = "report"
    BY <1>0, <1>3 DEF Report, HasIssuer, responders
  <2>2. HasIssuer =>
          /\ "revoked" \notin answers
          /\ "good" \in answers \/ (~required /\ (next > Last \/ answers = {}))
    BY <2>1 DEF IInv, Asked
  <2>3. knew => "good" \notin answers
    BY DEF IInv, Known
  <2> QED
    BY <1>0, <2>1, <2>2, <2>3 DEF RevocationIsDecided
<1> QED
  BY <1>1, <1>2, <1>3

\* No issued certificate is accepted against what the responders said, nor
\* without an answer that require-ocsp asks for.
THEOREM RevocationIsDecidedCorrect == Spec => []RevocationIsDecided
<1>1. Init => RevocationIsDecided
  BY DEF Init, RevocationIsDecided
<1> QED
  BY <1>1, Invariant, NextRevocation, PTL DEF Spec
=============================================================================
