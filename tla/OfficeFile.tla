----------------------------- MODULE OfficeFile -----------------------------
(***************************************************************************)
(* Signed office documents: OpenDocument, whose signature is one part of   *)
(* the archive, and Office Open XML, whose signatures are in a directory   *)
(* and are declared in the content types and the relationships.            *)
(***************************************************************************)
EXTENDS Archive, XmlSignature

Declaration(local, attrs) == Element(<<"", local>>, <<>>, attrs, <<>>)

\* What several functions do to a part: its root gets a child, unless one of its
\* children has a value for an attribute already.  Only the root is written.
Declares(root, attribute, value) ==
  \E i \in DOMAIN Elements(root.children) : AttrValue(Elements(root.children)[i], attribute) = value

AddedAlways(root, attribute, value, before, declaration) ==
  InsertChildBefore(root, before, declaration)
Declared(root, attribute, value, before, declaration) ==
  IF Declares(root, attribute, value) THEN root
  ELSE InsertChildBefore(root, before, declaration)

\* The root of the part of a name, if there is one.
PartRoot(entries, name) ==
  LET entry == EntryNamed(entries, name)
  IN IF entry = <<>> THEN <<>>
     ELSE IF "xml" \notin DOMAIN entry[1].data THEN <<>>
     ELSE RootElement(ParseXML(entry[1].data.xml))

Part(document) == [xml |-> document]
Written(root) == Part(Serialize(<<root>>))

-----------------------------------------------------------------------------
(* OpenDocument.                                                           *)

SignaturesPart == "META-INF/documentsignatures.xml"
ManifestPart == "META-INF/manifest.xml"
Wrapper == Element(<<"", "document-signatures">>, <<>>, <<>>, <<>>)

\* The parts that a signature covers.
CoveredODF(entries) ==
  PartsOf(SelectSeq(entries, LAMBDA e : ~EqualFold(e.name, SignaturesPart)))

SignODF(entries, identity) ==
  LET root == PartRoot(entries, ManifestPart)
      declared == Declared(root[1], "full-path", SignaturesPart, "",
                           Declaration("file-entry", <<Attr("full-path", SignaturesPart)>>))
      listed == ReplaceEntry(entries, Entry(ManifestPart, Written(declared)))
      signature == SignXMLParts(CoveredODF(listed), identity, <<Wrapper>>)
  IN IF root = <<>> THEN <<>>
     ELSE <<ReplaceEntry(listed, Entry(SignaturesPart, Part(signature[1])))>>

VerifyODF(entries) ==
  LET found == SelectSeq(entries, LAMBDA e : EqualFold(e.name, SignaturesPart))
  IN IF found = <<>> THEN <<>>
     ELSE IF "xml" \notin DOMAIN Head(found).data THEN <<>>
     ELSE VerifyXML(Head(found).data.xml, CoveredODF(entries))

-----------------------------------------------------------------------------
(* Office Open XML.                                                        *)

ContentTypesPart == "[Content_Types].xml"
RelationshipsPart == "_rels/.rels"
OriginPart == "_xmlsignatures/origin.sigs"
OriginRelationshipsPart == "_xmlsignatures/_rels/origin.sigs.rels"
SignaturePart == "_xmlsignatures/sig1.xml"
OriginType == "digital-signature/origin"

InSignatureDirectory(name) ==
  NameInfo[name].place = "_xmlsignatures" /\ NameInfo[name].exact
CoveredOPC(entries) == PartsOf(SelectSeq(entries, LAMBDA e : ~InSignatureDirectory(e.name)))

\* opcAddContentTypes: defaults come before overrides.
AddContentTypes(root) ==
  Declared(Declared(root, "Extension", "sigs", "Override",
                    Declaration("Default", <<Attr("Extension", "sigs")>>)),
           "PartName", "/" \o SignaturePart, "",
           Declaration("Override", <<Attr("PartName", "/" \o SignaturePart)>>))

\* opcAddOriginRelationship: one of the type is enough, wherever it leads.
AddOriginRelationship(root) ==
  Declared(root, "Type", OriginType, "",
           Declaration("Relationship", << Attr("Type", OriginType), Attr("Target", OriginPart) >>))

SignOPC(entries, identity) ==
  LET types == PartRoot(entries, ContentTypesPart)
      relationships == PartRoot(entries, RelationshipsPart)
      typed == ReplaceEntry(entries, Entry(ContentTypesPart, Written(AddContentTypes(types[1]))))
      related == ReplaceEntry(typed, Entry(RelationshipsPart,
                                           Written(AddOriginRelationship(relationships[1]))))
      signature == SignXMLParts(CoveredOPC(related), identity, <<>>)
      kept == SelectSeq(related, LAMBDA e : ~InSignatureDirectory(e.name))
  IN IF types = <<>> \/ relationships = <<>> THEN <<>>
     ELSE << kept \o << Entry(OriginPart, [bytes |-> "origin"]),
                        Entry(OriginRelationshipsPart, [bytes |-> "sig1.xml"]),
                        Entry(SignaturePart, Part(signature[1])) >> >>

\* findOPCSignaturePart: by name, or the first that can be one.
FindSignature(entries) ==
  LET named == EntryNamed(entries, SignaturePart)
      found == SelectSeq(entries, LAMBDA e :
                 NameInfo[e.name].place = "_xmlsignatures" /\ NameInfo[e.name].kind = "xml")
  IN IF named # <<>> THEN named ELSE Heads(found)

VerifyOPC(entries) ==
  LET signature == FindSignature(entries)
      types == PartRoot(entries, ContentTypesPart)
  IN IF signature = <<>> \/ types = <<>> THEN <<>>
     ELSE IF "xml" \notin DOMAIN signature[1].data \/ ~Declares(types[1], "Extension", "sigs")
     THEN <<>>
     ELSE VerifyXML(signature[1].data.xml, CoveredOPC(entries))
=============================================================================
