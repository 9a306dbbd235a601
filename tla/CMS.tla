-------------------------------- MODULE CMS --------------------------------
(***************************************************************************)
(* Signed messages (CMS): how a signature is added and encoded, how its    *)
(* signer is found again and its signature checked, and what is asked of a *)
(* time stamping service.                                                  *)
(*                                                                         *)
(* A digest is its algorithm and the octets it is of, and a signature is a *)
(* key and the digest it was made over: nothing in it tells a content from *)
(* the SET of attributes.  An optional value is a sequence of at most one  *)
(* element, and the value of an attribute is a sequence.                   *)
(***************************************************************************)
EXTENDS Naturals, Sequences, SequencesExt

CONSTANTS
  KeyKind,       \* the kind of every key
  SetOctets(_)   \* the octets of attributes as a SET, in the order they have

Digest(algorithm, of) == <<algorithm, of>>

-----------------------------------------------------------------------------
(* The content.                                                            *)

\* One string of octets, or several chunks of them.
Whole(octets) == [compound |-> FALSE, chunks |-> <<octets>>]
Chunked(chunks) == [compound |-> TRUE, chunks |-> chunks]

\* Chunks that are all empty are taken for a content that is not there.
ContentValue(eContent) ==
  IF eContent = <<>> THEN <<>>
  ELSE IF ~eContent[1].compound THEN eContent[1].chunks
  ELSE LET octets == FlattenSeq(eContent[1].chunks)
       IN IF octets = <<>> THEN <<>> ELSE <<octets>>

IsDetached(sd) == sd.eContent = <<>>
Detached(sd) == [sd EXCEPT !.eContent = <<>>]

NewSignedData(type, octets) ==
  [type |-> type, eContent |-> <<Whole(octets)>>,
   certificates |-> <<>>, digests |-> {}, signers |-> <<>>]

-----------------------------------------------------------------------------
(* The signed attributes.                                                  *)

Attribute(type, value) == [type |-> type, values |-> <<value>>]

DigestSize == [SHA256 |-> 32, SHA384 |-> 48, SHA512 |-> 64]

\* The octets that tell the encodings of two attributes apart: the length and
\* the tag of the value, and, in front of them, the length and the identifier.
ValueEncoding(attribute) ==
  CASE attribute.type = "contentType" ->
         IF attribute.values[1] = <<"data">> THEN <<11, 6>> ELSE <<13, 6>>
    [] attribute.type = "signingTime" -> <<15, 23>>
    [] attribute.type = "messageDigest" -> <<DigestSize[attribute.values[1][1]] + 2, 4>>
Identifier == [contentType |-> 3, messageDigest |-> 4, signingTime |-> 5]
FullEncoding(attribute) ==
  <<ValueEncoding(attribute)[1] + 13, Identifier[attribute.type]>> \o ValueEncoding(attribute)

Precedes(a, b) ==
  \E i \in DOMAIN a : a[i] < b[i] /\ \A j \in 1..i - 1 : a[j] = b[j]

InOrderOf(attributes, encodings) ==
  LET order == CHOOSE p \in Injection(DOMAIN attributes, DOMAIN attributes) :
                 \A i, j \in DOMAIN attributes : i < j => ~Precedes(encodings[p[j]], encodings[p[i]])
  IN [i \in DOMAIN attributes |-> attributes[order[i]]]

\* The order in the message is the order of the values ...
Unsorted(attributes) == attributes
SortAttributes(attributes) ==
  InOrderOf(attributes, [i \in DOMAIN attributes |-> ValueEncoding(attributes[i])])
\* ... what is signed is a set, in the order of the whole attributes ...
MarshaledForSigning(attributes) ==
  SetOctets(InOrderOf(attributes, [i \in DOMAIN attributes |-> FullEncoding(attributes[i])]))
\* ... and what is verified is in the order of the message.
MarshaledForVerification(attributes) == SetOctets(attributes)

\* The only value of the only attribute of a type.
OnlyValue(attributes, type) ==
  LET of == {i \in DOMAIN attributes : attributes[i].type = type}
  IN IF \E i \in of : of = {i} /\ Len(attributes[i].values) = 1
     THEN attributes[CHOOSE i \in of : TRUE].values ELSE <<>>

-----------------------------------------------------------------------------
(* Signing.                                                                *)

AddCertificate(certificates, certificate) ==
  IF certificate \in ToSet(certificates) THEN certificates
  ELSE Append(certificates, certificate)
AddCertificates(certificates, chain) ==
  LET added[n \in 0..Len(chain)] ==
        IF n = 0 THEN certificates ELSE AddCertificate(added[n - 1], chain[n])
  IN added[Len(chain)]

SetCertificates(sd, certificates) == [sd EXCEPT !.certificates = AddCertificates(<<>>, certificates)]

\* The public key arrives in its encoding, which is none of the curves that
\* are looked for.
EncodedKey(key) == [is |-> "octets", kind |-> KeyKind[key]]
DigestAlgorithmForPublicKey(public) ==
  IF public = [is |-> "key", kind |-> "P-384"] THEN "SHA384"
  ELSE IF public = [is |-> "key", kind |-> "P-521"] THEN "SHA512"
  ELSE "SHA256"

PublicKeyAlgorithm(key) ==
  IF KeyKind[key] \in {"P-256", "P-384", "P-521"} THEN "ECDSA" ELSE KeyKind[key]

NewAttributes(type, octets, digest) ==
  SortAttributes(<< Attribute("signingTime", <<"now">>),
                    Attribute("messageDigest", Digest(digest, octets)),
                    Attribute("contentType", <<type>>) >>)
SignerInfo(sd, certificate, key) ==
  LET digest == DigestAlgorithmForPublicKey(EncodedKey(key))
      attributes == NewAttributes(sd.type, ContentValue(sd.eContent)[1], digest)
  IN [version |-> 1, sid |-> [issuer |-> certificate.issuer, serial |-> certificate.serial],
      digest |-> digest, signed |-> <<attributes>>,
      method |-> [algorithm |-> PublicKeyAlgorithm(key), digest |-> digest],
      signature |-> [key |-> key, digest |-> Digest(digest, MarshaledForSigning(attributes))],
      unsigned |-> <<>>]

\* addSignerInfo: the certificates of the chain stay, whatever becomes of the
\* signature; the last one of the key is the signer's.
CertificatesFor(chain, key) == {i \in DOMAIN chain : chain[i].key = key}
AddSignerInfo(sd, chain, key) ==
  LET complete == [sd EXCEPT !.certificates = AddCertificates(@, chain)]
      own == CertificatesFor(chain, key)
  IN IF own = {} THEN [sd |-> complete, error |-> "no certificate"]
     ELSE IF ContentValue(sd.eContent) = <<>> THEN [sd |-> complete, error |-> "already detached"]
     ELSE IF PublicKeyAlgorithm(key) \notin {"RSA", "ECDSA"}
     THEN [sd |-> complete, error |-> "unsupported"]
     ELSE LET last == CHOOSE i \in own : \A j \in own : j <= i
              si == SignerInfo(sd, chain[last], key)
          IN [sd |-> [complete EXCEPT !.digests = @ \cup {si.digest},
                                      !.signers = Append(@, si)],
              error |-> "none"]

-----------------------------------------------------------------------------
(* Verification, but for the chains of the certificates.                   *)

\* By issuer and serial number, or by the identifier of the key, which the
\* extension holds as it is or in an octet string.
AnyOfTheIssuer(si, certificate) ==
  IF si.version = 1 THEN si.sid.issuer = certificate.issuer
  ELSE si.version = 3 /\ si.sid.keyId \in certificate.keyIds
Identifies(si, certificate) ==
  IF si.version = 1
  THEN si.sid.issuer = certificate.issuer /\ si.sid.serial = certificate.serial
  ELSE si.version = 3 /\ si.sid.keyId \in certificate.keyIds

FindCertificate(si, certificates) ==
  LET found == {i \in DOMAIN certificates : Identifies(si, certificates[i])}
  IN IF found = {} THEN <<>> ELSE << certificates[CHOOSE i \in found : \A j \in found : i <= j] >>

\* SignerCertificates fails when one of them is missing.
SignerCertificates(sd) ==
  LET found == [i \in DOMAIN sd.signers |-> FindCertificate(sd.signers[i], sd.certificates)]
  IN IF \E i \in DOMAIN found : found[i] = <<>> THEN <<>>
     ELSE << [i \in DOMAIN found |-> found[i][1]] >>

\* Mutant: the attributes need not fit the content.
UncheckedContent(si, octets, type) ==
  IF si.signed = <<>> THEN <<octets>> ELSE <<MarshaledForVerification(si.signed[1])>>
\* The octets that were signed, if the attributes fit the content.
SignedMessageFor(si, octets, type) ==
  IF si.signed = <<>> THEN IF type = "data" THEN <<octets>> ELSE <<>>
  ELSE IF /\ OnlyValue(si.signed[1], "contentType") = << <<type>> >>
          /\ OnlyValue(si.signed[1], "messageDigest") = <<Digest(si.digest, octets)>>
       THEN <<MarshaledForVerification(si.signed[1])>>
       ELSE <<>>

CheckSignature(certificate, method, message, signature) ==
  /\ method.algorithm = PublicKeyAlgorithm(certificate.key)
  /\ signature = [key |-> certificate.key, digest |-> Digest(method.digest, message)]

-----------------------------------------------------------------------------
(* Time stamps.  A token is [type, imprint, nonce, genuine].               *)

TimestampRequestFor(si, nonce) == [imprint |-> Digest(si.digest, si.signature), nonce |-> nonce]

NonceIgnored(request, token) == request.imprint = token.imprint
Matches(request, token) ==
  /\ request.imprint = token.imprint
  /\ request.nonce = token.nonce

\* A response that is not granted, or without a token of the type, is an error.
HasInfo(response) ==
  /\ response.status = "granted"
  /\ response.token # <<>> /\ response.token[1].type = "TSTInfo"

\* fetchTimestamp does not fail: the token is added.
IsFetched(request, response) ==
  HasInfo(response) /\ Matches(request, response.token[1])

HasTimestamp(si) == \E j \in DOMAIN si.unsigned : si.unsigned[j].type = "timeStampToken"

\* getTimestamp: there is one, it is signed by the service, and it is for this
\* signature, in whatever algorithm the service digested it.
TimestampVerifies(si) ==
  LET value == OnlyValue(si.unsigned, "timeStampToken")
  IN IF value = <<>> THEN FALSE
     ELSE /\ value[1].type = "TSTInfo" /\ value[1].genuine
          /\ value[1].imprint = Digest(value[1].imprint[1], si.signature)

Verifies(sd, si, octets) ==
  LET message == SignedMessageFor(si, octets, sd.type)
      certificate == FindCertificate(si, sd.certificates)
  IN IF message = <<>> \/ certificate = <<>> THEN FALSE
     ELSE /\ CheckSignature(certificate[1], si.method, message[1], si.signature)
          /\ HasTimestamp(si) => TimestampVerifies(si)

\* Verify and VerifyDetached, over the content or the message beside it.
Verify(sd, octets) ==
  /\ sd.signers # <<>>
  /\ \A i \in DOMAIN sd.signers : Verifies(sd, sd.signers[i], octets)
=============================================================================
