--------------------------- MODULE MCSignedMessage ---------------------------
(***************************************************************************)
(* Two contents, one of them empty; an RSA signer with a certificate of an *)
(* intermediate authority, one on a large curve that shares its issuer,    *)
(* and one whose key cannot sign messages; and messages of other programs: *)
(* one that finds its signer by the identifier of its key, one without     *)
(* signed attributes, one with a stamp, one without a signature, and one   *)
(* whose content is the SET of attributes of another one.                  *)
(***************************************************************************)
EXTENDS SignedMessage

Kinds == [rsa |-> "RSA", large |-> "P-384", edwards |-> "Ed25519", ca |-> "P-256"]

Certificate(key, issuer, serial) ==
  [key |-> key, issuer |-> issuer, serial |-> serial, keyIds |-> {key}]
CA == Certificate("ca", "Root", 1)
Cert == [rsa |-> Certificate("rsa", "CA", 7), large |-> Certificate("large", "CA", 8),
         edwards |-> Certificate("edwards", "CA", 9)]

Signers ==
  { [key |-> "rsa", certificate |-> Cert["rsa"], chain |-> <<Cert["rsa"], CA>>],
    [key |-> "large", certificate |-> Cert["large"], chain |-> <<Cert["large"], CA>>],
    [key |-> "edwards", certificate |-> Cert["edwards"], chain |-> <<Cert["edwards"]>>] }

Contents == {<<>>, <<1, 2>>}

\* The SET of attributes: a tag, and of every attribute its kind, the length of its
\* value and, of a digest, what it is of.
AttributeOctets(attribute) ==
  FullEncoding(attribute)
  \o (IF attribute.type = "messageDigest" THEN attribute.values[1][2] ELSE <<>>)
AsSet(attributes) ==
  <<49>> \o FlattenSeq([i \in DOMAIN attributes |-> AttributeOctets(attributes[i])])

\* Signatures of other programs, over <<1, 2>>.
ForeignAttributes ==
  << Attribute("contentType", <<"data">>), Attribute("signingTime", <<"now">>),
     Attribute("messageDigest", Digest("SHA256", <<1, 2>>)) >>
Signed(key) ==
  LET attributes == ForeignAttributes
  IN [version |-> 1, sid |-> [issuer |-> Cert[key].issuer, serial |-> Cert[key].serial],
      digest |-> "SHA256", signed |-> <<attributes>>,
      method |-> [algorithm |-> PublicKeyAlgorithm(key), digest |-> "SHA256"],
      signature |-> [key |-> key, digest |-> Digest("SHA256", AsSet(attributes))],
      unsigned |-> <<>>]
ByKeyId == [Signed("rsa") EXCEPT !.version = 3, !.sid = [keyId |-> "rsa"]]
WithoutAttributes(key, octets) ==
  [Signed(key) EXCEPT !.signed = <<>>, !.signature.digest = Digest("SHA256", octets)]
Stamp(si) == [type |-> "TSTInfo", imprint |-> Digest("SHA512", si.signature), nonce |-> 0,
              genuine |-> TRUE]
StampedOnce ==
  [Signed("rsa") EXCEPT !.unsigned = <<Attribute("timeStampToken", Stamp(Signed("rsa")))>>]

Message(octets, signers, certificates) ==
  [content |-> octets,
   message |-> [NewSignedData("data", octets) EXCEPT !.signers = signers,
                                                     !.certificates = certificates]]
Foreign ==
  { Message(<<1, 2>>, <<ByKeyId>>, <<CA, Cert["large"], Cert["rsa"]>>),
    Message(<<1, 2>>, <<WithoutAttributes("rsa", <<1, 2>>), Signed("large")>>,
            <<Cert["rsa"], Cert["large"]>>),
    Message(<<1, 2>>, <<StampedOnce>>, <<Cert["rsa"]>>),
    Message(<<1, 2>>, <<>>, <<Cert["rsa"]>>),
    Message(AsSet(ForeignAttributes), <<WithoutAttributes("rsa", AsSet(ForeignAttributes))>>,
            <<Cert["rsa"]>>) }
=============================================================================
