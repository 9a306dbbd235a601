---------------------------- MODULE XmlSignature ----------------------------
(***************************************************************************)
(* XML signatures: of a document, which holds its signature, and of the    *)
(* parts of a container, whose digests are in a manifest of the signature. *)
(***************************************************************************)
EXTENDS CMS, XmlTree

SignatureID == "pivzavr-signature"
ManifestID == "pivzavr-manifest"
PropertiesID == "pivzavr-signed-properties"
Exclusive == "xml-exc-c14n#"

\* algorithmFor: the digest that goes with the key.
AlgorithmFor(key) ==
  CASE KeyKind[key] \in {"RSA", "P-256"} -> "SHA256"
    [] KeyKind[key] \in {"RSA-3072", "P-384"} -> "SHA384"
    [] KeyKind[key] \in {"P-521", "Ed25519"} -> "SHA512"

-----------------------------------------------------------------------------
(* The elements of a signature.                                            *)

Ds(local, attrs, children) == Element(<<"ds", local>>, <<>>, attrs, children)
Method(local, algorithm) == Ds(local, <<Attr("Algorithm", algorithm)>>, <<>>)

\* newXMLSignature and finalizeXMLSignature: references have an address and a digest.
ReferenceElement(uri, digest) ==
  Ds("Reference", <<Attr("URI", uri)>>,
     << Method("DigestMethod", digest[1]), Ds("DigestValue", <<>>, <<Text("digest", digest)>>) >>)

SignedInfoElement(hash, references) ==
  Ds("SignedInfo", <<>>,
     << Method("CanonicalizationMethod", Exclusive), Method("SignatureMethod", hash) >> \o references)

\* manifestXML, for a container.
ManifestElement(hash, parts) ==
  LET names == SetToSeq(DOMAIN parts)
  IN Ds("Object", <<>>,
        <<Ds("Manifest", <<Attr("Id", ManifestID)>>,
             Each(names, LAMBDA name : ReferenceElement(name, Digest(hash, parts[name]))))>>)

PropertiesElement ==
  Ds("Object", <<>>,
     <<Element(<<"xades", "SignedProperties">>, <<>>, <<Attr("Id", PropertiesID)>>,
               <<Element(<<"xades", "SigningTime">>, <<>>, <<>>, <<Text("time", "now")>>)>>)>>)

SignatureOf(signedInfo, value, certificate, objects) ==
  Element(<<"ds", "Signature">>, [ds |-> "xmldsig#", xades |-> "XAdES"], <<Attr("Id", SignatureID)>>,
    << signedInfo, Ds("SignatureValue", <<>>, <<Text("value", value)>>),
       Ds("KeyInfo", <<>>, <<Ds("X509Certificate", <<>>, <<Text("certificate", certificate)>>)>>) >>
    \o objects)

\* The first signature of a document, with its scope.
SignatureElement(root) ==
  Heads(SelectSeq(AllElements(root), LAMBDA d :
          d.element.name[2] = "Signature" /\ FirstChild(d.element, "SignedInfo") # <<>>))

SignedInfo(signature) ==
  [element |-> Head(FirstChild(signature.element, "SignedInfo")), scope |-> signature.scope]

\* A signature in its parent, which may be none: what it refers to is at its place
\* when the digests are made, and the value is made after them.
Signed(key, certificate, uri, content, objects, parent) ==
  LET Place(s) == IF parent = <<>> THEN s ELSE AppendChild(parent[1], s)
      hash == AlgorithmFor(key)
      draft == Place(SignatureOf(SignedInfoElement(hash, <<>>), "none", certificate, objects))
      At(id) == Digest(hash, CanonicalOf(Head(ElementByID(draft, id))))
      references == << ReferenceElement(uri, IF uri = "" THEN Digest(hash, content) ELSE At(ManifestID)),
                       ReferenceElement("#" \o PropertiesID, At(PropertiesID)) >>
      info == SignedInfoElement(hash, references)
      placed == SignedInfo(Head(SignatureElement(Place(SignatureOf(info, "none", certificate, objects)))))
      value == [key |-> key, digest |-> Digest(hash, CanonicalOf(placed))]
  IN Place(SignatureOf(info, value, certificate, objects))

-----------------------------------------------------------------------------
(* Signing.                                                                *)

\* signXML: a document with one root that has no signature yet.
SignXML(document, identity) ==
  LET roots == ParseXML(document)
      root == RootElement(roots)
  IN IF root = <<>> THEN <<>>
     ELSE IF SignatureElement(root[1]) # <<>> THEN <<>>
     ELSE << Serialize(WithRoot(roots, Signed(identity.key, identity.certificate, "",
                                              Canonicalize(roots), <<PropertiesElement>>, root))) >>

\* signXMLParts: in a wrapper, or as a document of its own.
SignXMLParts(parts, identity, wrapper) ==
  IF DOMAIN parts = {} THEN <<>>
  ELSE << Serialize(<<Signed(identity.key, identity.certificate, "#" \o ManifestID, <<>>,
                             << ManifestElement(AlgorithmFor(identity.key), parts),
                                PropertiesElement >>, wrapper)>>) >>

-----------------------------------------------------------------------------
(* Verifying.                                                              *)

References(e) == SelectSeq(Elements(e.children), LAMBDA c : c.name[2] = "Reference")

\* The certificate in whose key the value was made.
CertificatesOf(signature) ==
  LET infos == FirstChild(signature, "KeyInfo")
      found == IF infos = <<>> THEN <<>>
               ELSE SelectSeq(Elements(infos[1].children), LAMBDA c : c.name[2] = "X509Certificate")
  IN Each(found, LAMBDA c : Head(c.children).text[2])

\* The digest that a reference has, and what it is of: the document without its
\* signature, an element of it, or a part of the container.
DigestValue(reference) == Head(FirstChild(reference, "DigestValue")[1].children).text[2]

\* Mutant: an address that leads nowhere is passed over.
CheckFound(reference, roots, root, parts) ==
  LET uri == AttrValue(reference, "URI")
      digest == DigestValue(reference)
  IN uri \in DOMAIN parts => digest = Digest(digest[1], parts[uri])

CheckXMLReference(reference, roots, root, parts) ==
  LET uri == AttrValue(reference, "URI")
      digest == DigestValue(reference)
      target == Heads(SelectSeq(AllElements(root), LAMBDA d :
                        uri \in {"#" \o AttrValue(d.element, id) : id \in {"Id", "ID"}}))
  IN \/ /\ uri = ""
        /\ LET unsigned == RemoveChild(root, Head(SignatureElement(root)).element)
           IN digest = Digest(digest[1], Canonicalize(WithRoot(roots, unsigned)))
     \/ uri # "" /\ target # <<>> /\ digest = Digest(digest[1], CanonicalOf(Head(target)))
     \/ uri \in DOMAIN parts /\ digest = Digest(digest[1], parts[uri])

\* verifyXMLSignature: the signer, if every reference and the value are right.  A
\* manifest is looked for by its own name; without parts there must be none.
VerifyXML(document, parts) ==
  LET roots == ParseXML(document)
      root == RootElement(roots)
      signature == IF root = <<>> THEN <<>> ELSE SignatureElement(root[1])
  IN IF signature = <<>> THEN <<>>
     ELSE LET info == SignedInfo(signature[1])
              hash == AttrValue(FirstChild(info.element, "SignatureMethod")[1], "Algorithm")
              value == Head(FirstChild(signature[1].element, "SignatureValue")[1].children).text[2]
              manifest == ElementByID(root[1], ManifestID)
              references == References(info.element)
                \o (IF manifest = <<>> THEN <<>> ELSE References(manifest[1].element))
              made == [key |-> value.key, digest |-> Digest(hash, CanonicalOf(info))]
          IN IF /\ AttrValue(FirstChild(info.element, "CanonicalizationMethod")[1], "Algorithm") = Exclusive
                /\ References(info.element) # <<>>
                /\ manifest # <<>> => DOMAIN parts # {}
                /\ \A i \in DOMAIN references : CheckXMLReference(references[i], roots, root[1], parts)
                /\ value = made
             THEN Heads(SelectSeq(CertificatesOf(signature[1].element), LAMBDA c : c.key = value.key))
             ELSE <<>>
=============================================================================
