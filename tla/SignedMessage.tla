--------------------------- MODULE SignedMessage ---------------------------
(***************************************************************************)
(* The life of a signed message: its signatures are added, it is detached  *)
(* from its content, stamped and completed with certificates, encoded,     *)
(* carried by tools that encode it in their own way or damage it, and read *)
(* and verified.                                                           *)
(***************************************************************************)
EXTENDS CMS, DER, FiniteSets

CONSTANTS
  Messages,      \* the contents, sequences of octets
  Identities,    \* the signers: [key, certificate, chain]
  Others,        \* messages that other programs have made
  MaxSigners,    \* bound: signatures in a message
  MaxRequests    \* bound: requests to the time stamping service

\* Contents are octets, and not so many that an encoding had no length for them.
Encodable(octets) == octets \in Seq(Octets) /\ Representable(Len(octets) + 40)
ASSUME MessagesAssumption == \A octets \in Messages : Encodable(octets)

\* What the parts of a message nest, which is far less than is accepted.
ASSUME NestingAssumption == MaxBERDepth >= 3

\* An authority gives a serial number to one key only.
Certificates == UNION {ToSet(identity.chain) : identity \in Identities}
ASSUME CertificatesAssumption ==
  /\ \A identity \in Identities : identity.chain \in Seq(Certificates)
  /\ \A c, d \in Certificates : c.issuer = d.issuer /\ c.serial = d.serial => c.key = d.key

-----------------------------------------------------------------------------
(* Other programs make their messages as the standard asks for, in ways of *)
(* their own.                                                              *)

\* A signature of a content, as it is or by its digest among the attributes.
SignedPart(si, octets) ==
  IF si.signed = <<>> THEN octets ELSE SetOctets(si.signed[1])
WellSigned(si, type, octets) ==
  /\ si.signature = [key |-> si.signature.key,
                     digest |-> Digest(si.method.digest, SignedPart(si, octets))]
  /\ si.method.algorithm = PublicKeyAlgorithm(si.signature.key)
  /\ si.signed = <<>> => type = "data"
  /\ si.signed # <<>> =>
       /\ OnlyValue(si.signed[1], "contentType") = << <<type>> >>
       /\ OnlyValue(si.signed[1], "messageDigest") = <<Digest(si.digest, octets)>>

\* The names that a certificate has, and that of a signer, which no other has.
NamesOf(certificate) ==
  {[issuer |-> certificate.issuer, serial |-> certificate.serial]}
  \cup {[keyId |-> id] : id \in certificate.keyIds}
WellNamed(si, certificates) ==
  /\ \/ si.version = 1 /\ si.sid = [issuer |-> si.sid.issuer, serial |-> si.sid.serial]
     \/ si.version = 3 /\ si.sid = [keyId |-> si.sid.keyId]
  /\ \A i \in DOMAIN certificates :
       si.sid \in NamesOf(certificates[i]) => certificates[i].key = si.signature.key

\* A stamp, if there is one, is for this signature.
WellStamped(si) ==
  HasTimestamp(si) =>
    \E j \in DOMAIN si.unsigned :
      LET token == si.unsigned[j].values[1]
      IN /\ OnlyValue(si.unsigned, "timeStampToken") = <<token>>
         /\ token.type = "TSTInfo" /\ token.imprint = Digest(token.imprint[1], si.signature)

SignatureFields == {"version", "sid", "digest", "signed", "method", "signature", "unsigned"}
ASSUME OthersAssumption ==
  \A other \in Others :
    LET sd == other.message
    IN /\ {"type", "eContent", "certificates", "digests", "signers"} \subseteq DOMAIN sd
       /\ Encodable(other.content) /\ sd.eContent \in {<<>>, <<Whole(other.content)>>}
       /\ sd.certificates \in Seq(ToSet(sd.certificates))
       /\ \A i \in DOMAIN sd.signers :
            LET si == sd.signers[i]
            IN /\ SignatureFields \subseteq DOMAIN si
               /\ WellSigned(si, sd.type, other.content)
               /\ WellNamed(si, sd.certificates) /\ WellStamped(si)

\* The attributes there are, whoever made them.  Their encoding tells them apart.
OthersAttributes ==
  {si.signed[1] :
     si \in {s \in UNION {ToSet(other.message.signers) : other \in Others} : s.signed # <<>>}}
AttributeLists ==
  OthersAttributes
  \cup {NewAttributes("data", octets, digest) : octets \in Messages, digest \in DOMAIN DigestSize}
ASSUME EncodingAssumption ==
  \A a, b \in AttributeLists : SetOctets(a) = SetOctets(b) => a = b

-----------------------------------------------------------------------------

VARIABLES
  stage,         \* "build", "stamp", "closed", "sent", "read"
  message,       \* the signed data
  content,       \* the content, also of a detached message
  tokens,        \* the time stamps that were fetched for its signatures so far
  request,       \* the request that waits for an answer, optional
  asked,         \* the signatures that the nonces were used for
  answers,       \* what the service has answered so far
  wire,          \* the octets that are sent
  damaged,       \* whether they are of another message than the one that was made
  made,          \* what keys have signed: the content, and the octets themselves
  report         \* what the reader is told

vars == <<stage, message, content, tokens, request, asked, answers, wire, damaged, made, report>>

\* A signature of a content, and the octets that it was made over.
Signature(si, octets) ==
  [key |-> si.signature.key, content |-> octets, octets |-> SignedPart(si, octets)]

NoReport == [verdict |-> "none", octets |-> <<>>, signers |-> <<>>]

Init ==
  /\ \/ /\ stage = "build" /\ content \in Messages
        /\ message = NewSignedData("data", content)
        /\ made = {}
     \/ /\ stage = "closed"
        /\ \E other \in Others :
             /\ message = other.message
             /\ content = other.content
             /\ made = {Signature(si, content) : si \in ToSet(message.signers)}
  /\ tokens = <<>> /\ request = <<>> /\ asked = <<>> /\ answers = {}
  /\ wire = <<>> /\ damaged = FALSE /\ report = NoReport

Bare(sd) == \A i \in DOMAIN sd.signers : ~HasTimestamp(sd.signers[i])

\* A message is stamped once, after it has been signed.
Sign ==
  /\ stage = "build" /\ Len(message.signers) < MaxSigners /\ Bare(message)
  /\ \E identity \in Identities :
       LET result == AddSignerInfo(message, identity.chain, identity.key)
       IN /\ message' = result.sd
          /\ made' = IF result.error = "none"
                     THEN made \cup {Signature(Last(result.sd.signers), content)} ELSE made
  /\ UNCHANGED <<stage, content, tokens, request, asked, answers, wire, damaged, report>>

Detach ==
  /\ stage = "build" /\ message.signers # <<>> /\ ~IsDetached(message)
  /\ message' = Detached(message)
  /\ UNCHANGED <<stage, content, tokens, request, asked, answers, wire, damaged, made, report>>

-----------------------------------------------------------------------------
(* AddTimestamps: one request after the other.                             *)

\* Without random numbers a request has no nonce.
Nonce(n) == {n, 0}

StartStamping ==
  /\ stage = "build" /\ message.signers # <<>> /\ Bare(message)
  /\ stage' = "stamp" /\ tokens' = <<>>
  /\ UNCHANGED <<message, content, request, asked, answers, wire, damaged, made, report>>

Ask ==
  /\ stage = "stamp" /\ request = <<>>
  /\ Len(tokens) < Len(message.signers) /\ Len(asked) < MaxRequests
  /\ \E nonce \in Nonce(Len(asked) + 1) :
       request' = <<TimestampRequestFor(message.signers[Len(tokens) + 1], nonce)>>
  /\ asked' = Append(asked, Len(tokens) + 1)
  /\ UNCHANGED <<stage, message, content, tokens, answers, wire, damaged, made, report>>

\* The service answers, or repeats what it has answered before; its token may
\* be none, of another type, or not its own.
Answers ==
  {[status |-> status, token |-> <<>>] : status \in {"granted", "rejected"}}
  \cup {[status |-> "granted",
         token |-> <<[type |-> type, imprint |-> request[1].imprint,
                      nonce |-> request[1].nonce, genuine |-> genuine]>>] :
           type \in {"TSTInfo", "data"}, genuine \in BOOLEAN}

\* A request that fails, or an answer that is no stamp of ours, ends the command.
Receive ==
  /\ stage = "stamp" /\ request # <<>>
  /\ request' = <<>>
  /\ \E response \in Answers \cup answers :
       /\ answers' = answers \cup {response}
       /\ IF IsFetched(request[1], response)
          THEN stage' = stage /\ tokens' = Append(tokens, response.token[1])
          ELSE stage' = "build" /\ tokens' = <<>>
  /\ UNCHANGED <<message, content, asked, wire, damaged, made, report>>

\* Only a message whose stamps have all arrived is changed.
WithStamp(si, stamp) == [si EXCEPT !.unsigned = Append(@, Attribute("timeStampToken", stamp))]
Stamped(sd, stamps) ==
  [sd EXCEPT !.signers = [i \in DOMAIN sd.signers |->
                            IF i \in DOMAIN stamps THEN WithStamp(sd.signers[i], stamps[i])
                            ELSE sd.signers[i]]]

AtOnce(sd, stamps) == TRUE
Complete(sd, stamps) == Len(stamps) = Len(sd.signers)

AttachStamps ==
  /\ stage = "stamp" /\ request = <<>> /\ Complete(message, tokens)
  /\ message' = Stamped(message, tokens)
  /\ stage' = "build"
  /\ UNCHANGED <<content, tokens, request, asked, answers, wire, damaged, made, report>>

-----------------------------------------------------------------------------

\* The certificates that go with the message: all of them, or one signer's.  The
\* service and its answers are forgotten.
Close ==
  /\ stage = "build" /\ message.signers # <<>>
  /\ stage' = "closed"
  /\ \E chain \in {message.certificates} \cup {<<c>> : c \in ToSet(message.certificates)} :
       message' = SetCertificates(message, chain)
  /\ tokens' = <<>> /\ asked' = <<>> /\ answers' = {}
  /\ UNCHANGED <<content, request, wire, damaged, made, report>>

\* The content as it may be cut into chunks on its way.
Cuts(octets) ==
  {Whole(octets), Chunked(<<octets>>)}
  \cup {Chunked(<<SubSeq(octets, 1, i), SubSeq(octets, i + 1, Len(octets))>>) : i \in 1..Len(octets) - 1}
Cut(sd) ==
  IF IsDetached(sd) THEN {sd}
  ELSE {[sd EXCEPT !.eContent = <<cut>>] : cut \in Cuts(ContentValue(sd.eContent)[1])}

\* The parts of a message that nobody takes apart are one octet here: the
\* messages of a behaviour differ in their contents, or are told by `damaged`.
Encoding(sd, Simple(_, _), Compound(_, _)) ==
  LET strings == [i \in DOMAIN sd.eContent[1].chunks |-> Simple(4, sd.eContent[1].chunks[i])]
      octets == IF IsDetached(sd) THEN <<>>
                ELSE << Compound(160, IF sd.eContent[1].compound THEN <<Compound(36, strings)>>
                                      ELSE strings) >>
  IN Compound(48, octets \o <<Simple(2, <<1>>)>>)
ToDER(sd) == Encoding(sd, Primitive, Composite)
ToBER(sd) == Encoding(sd, AllPrimitive, AllComposite)

\* What goes wrong with a message: it gets other octets, certificates or attributes,
\* or the SET of the attributes takes the place of the content, or back.
OtherOctets(sd) == {[sd EXCEPT !.eContent = <<Whole(octets)>>] : octets \in Messages}
OtherCertificates(sd) ==
  {[sd EXCEPT !.certificates = <<identity.certificate>>] : identity \in Identities}
WithSigned(sd, i, signed) == [sd EXCEPT !.signers[i].signed = signed]
OtherSigned(sd) ==
  {<<>>} \cup {sd.signers[j].signed : j \in DOMAIN sd.signers}
         \cup {<<attributes>> : attributes \in AttributeLists}
Exchanged(sd, i) ==
  {WithSigned(altered, i, <<>>) :
     altered \in {[sd EXCEPT !.eContent = <<Whole(SetOctets(attributes))>>] :
                    attributes \in AttributeLists}}
OtherAttributes(sd, i) ==
  UNION {{WithSigned(altered, i, signed) : altered \in {sd} \cup OtherOctets(sd)} :
           signed \in OtherSigned(sd)}
Damaged(sd) ==
  OtherOctets(sd) \cup OtherCertificates(sd)
  \cup UNION {OtherAttributes(sd, i) \cup Exchanged(sd, i) : i \in DOMAIN sd.signers}

\* ToDER; the receiver is given the same value, or a damaged one, in one of the
\* encodings there are, and perhaps a line end behind it.
Send ==
  /\ stage = "closed"
  /\ stage' = "sent"
  /\ \/ \E sd \in Cut(message) : wire' \in ToBER(sd) /\ message' = sd /\ damaged' = FALSE
     \/ \E sd \in Damaged(message) :
          wire' = ToDER(sd) \o <<10>> /\ message' = sd /\ damaged' = TRUE
  /\ UNCHANGED <<content, tokens, request, asked, answers, made, report>>

\* The decoder of the library (external) returns the value with this encoding.
Unmarshalled(der) == IF der = ToDER(message) THEN <<message>> ELSE <<>>

Parsed(octets) ==
  LET transcoded == BerToDER(octets)
  IN IF transcoded.ok THEN Unmarshalled(transcoded.der) ELSE <<>>

ReportOf(parsed) ==
  LET octets == IF parsed = <<>> THEN <<>>
                ELSE IF IsDetached(parsed[1]) THEN <<content>>
                ELSE ContentValue(parsed[1].eContent)
  IN IF octets = <<>> THEN [NoReport EXCEPT !.verdict = "unreadable"]
     ELSE IF SignerCertificates(parsed[1]) = <<>> \/ ~Verify(parsed[1], octets[1])
     THEN [NoReport EXCEPT !.verdict = "bad"]
     ELSE [verdict |-> "good", octets |-> octets[1],
           signers |-> SignerCertificates(parsed[1])[1]]

\* ParseSignedData, and Verify or VerifyDetached.
Read ==
  /\ stage = "sent"
  /\ stage' = "read"
  /\ report' = ReportOf(Parsed(wire))
  /\ wire' = <<>>
  /\ UNCHANGED <<message, content, tokens, request, asked, answers, damaged, made>>

Next ==
  \/ Sign \/ Detach \/ StartStamping \/ Ask \/ Receive \/ AttachStamps
  \/ Close \/ Send \/ Read

Spec == Init /\ [][Next]_vars

-----------------------------------------------------------------------------
(* Properties.                                                             *)

(***************************************************************************)
(* However answers are repeated and refused, a stamp that a signature ends *)
(* up with is for that very signature, and answers a request that was made *)
(* for it, if the request had a nonce (fetchTimestamp, matches).           *)
(***************************************************************************)
StampIsOurs ==
  stage \in {"build", "stamp"} =>
    \A i \in DOMAIN message.signers :
      LET si == message.signers[i]
      IN \A j \in DOMAIN si.unsigned :
           LET token == si.unsigned[j].values[1]
           IN /\ token.imprint = Digest(si.digest, si.signature)
              /\ token.nonce # 0 => asked[token.nonce] = i

(***************************************************************************)
(* "Fetch every timestamp before modifying the SignedData so that a        *)
(* failure cannot leave it partially timestamped": all signatures of a     *)
(* message have a stamp, or none has (AddTimestamps).                      *)
(***************************************************************************)
StampedTogether ==
  stage \in {"build", "stamp"} =>
    \/ Bare(message)
    \/ \A i \in DOMAIN message.signers : Len(message.signers[i].unsigned) = 1

StampsAreGenuine(sd) ==
  \A i \in DOMAIN sd.signers : \A j \in DOMAIN sd.signers[i].unsigned :
    sd.signers[i].unsigned[j].values[1].genuine

(***************************************************************************)
(* A message that nobody damaged is read as what was signed, by those who  *)
(* signed it, in whatever encoding it arrives and however its content was  *)
(* cut - but for an empty content that was cut, which is taken for one     *)
(* that is not there (contentValue) - as long as the certificates of its   *)
(* signers are with it and its stamps are from the service.                *)
(***************************************************************************)
ReadsBack ==
  /\ stage = "read" /\ ~damaged
  /\ message.signers # <<>> /\ SignerCertificates(message) # <<>> /\ StampsAreGenuine(message)
  /\ IsDetached(message) \/ ContentValue(message.eContent) # <<>>
  => /\ report.verdict = "good" /\ report.octets = content
     /\ [i \in DOMAIN report.signers |-> report.signers[i].key]
          = [i \in DOMAIN message.signers |-> message.signers[i].signature.key]

\* A signature says no more than its octets: those of the SET of attributes may be
\* taken for a content, and a content that is such a SET for the attributes.
Vouches(signature, si, octets) ==
  \/ octets \in {signature.content, signature.octets}
  \/ /\ signature.octets = signature.content
     /\ si.signed # <<>> /\ SetOctets(si.signed[1]) = signature.content

(***************************************************************************)
(* What is accepted was signed: every signer that is reported made a       *)
(* signature of the very octets that are reported, whatever was replaced   *)
(* on the way - as a content, or, in a message without attributes, as the  *)
(* SET of the attributes of a content, which the signature does not tell   *)
(* apart, or, the other way round, it signed that SET as a content         *)
(* (signedMessageFor, findCertificate).                                    *)
(***************************************************************************)
AcceptedWasMade ==
  report.verdict = "good" =>
    /\ report.signers # <<>>
    /\ \A i \in DOMAIN report.signers :
         \E signature \in made :
           /\ signature.key = report.signers[i].key
           /\ Vouches(signature, message.signers[i], report.octets)
=============================================================================
