----------------------------- MODULE MCDocument -----------------------------
(***************************************************************************)
(* Small files of every format: bare ones, ones with what other programs   *)
(* leave in them (signatures of theirs, names in other cases, several      *)
(* entries of a name, declarations there are already), and two signers.    *)
(***************************************************************************)
EXTENDS Document

Kinds == [rsa |-> "RSA", large |-> "P-384"]
\* None of these files is the SET of the attributes of a signature.
AsSet(attributes) == [set |-> attributes]
Certificate(key) == [key |-> key, issuer |-> "CA", serial |-> key, keyIds |-> {}]
Signers == {[key |-> key, certificate |-> Certificate(key)] : key \in {"rsa", "large"}}
Stranger == [key |-> "rsa", certificate |-> [Certificate("rsa") EXCEPT !.serial = "other"]]

-----------------------------------------------------------------------------
(* Names: a line of at most 5 octets has room for the octet that begins it *)
(* and four of a name; of the last name the fifth continues a character.   *)

Info(lower, place, exact, kind, octets) ==
  [lower |-> lower, place |-> place, exact |-> exact, kind |-> kind, octets |-> octets]

InMeta(name, exact, kind, n) == name :> Info("meta-inf/" \o kind, "meta-inf", exact, kind, <<n>>)
InSignatures(name, kind, n) == name :> Info(name, "_xmlsignatures", TRUE, kind, <<n>>)
Outside(name, kind, octets) == name :> Info(name, "", TRUE, kind, octets)

Infos ==
  InMeta("META-INF/MANIFEST.MF", TRUE, "manifest", 1)
  @@ InMeta("META-INF/PIVZAVR.SF", TRUE, "sf", 2) @@ InMeta("META-INF/PIVZAVR.RSA", TRUE, "block", 3)
  @@ InMeta("META-INF/PIVZAVR.EC", TRUE, "block", 4) @@ InMeta("META-INF/CERT.SF", TRUE, "sf", 5)
  @@ InMeta("META-INF/CERT.RSA", TRUE, "block", 6) @@ InMeta("META-INF/CERT.EC", TRUE, "block", 7)
  @@ InMeta("Meta-Inf/other.sf", FALSE, "sf", 8) @@ InMeta("Meta-Inf/other.dsa", FALSE, "block", 9)
  @@ InMeta("meta-inf/manifest.mf", FALSE, "manifest", 10)
  @@ InMeta("META-INF/services", TRUE, "other", 11)
  @@ ("META-INF" :> Info("meta-inf", "META-INF itself", TRUE, "other", <<10>>))
  @@ InMeta("META-INF/manifest.xml", TRUE, "xml", 12)
  @@ ("META-INF/documentsignatures.xml" :> Info("signatures", "meta-inf", TRUE, "xml", <<13>>))
  @@ ("META-INF/DocumentSignatures.xml" :> Info("signatures", "meta-inf", TRUE, "xml", <<14>>))
  @@ InSignatures("_xmlsignatures/origin.sigs", "other", 15)
  @@ InSignatures("_xmlsignatures/_rels/origin.sigs.rels", "other", 16)
  @@ InSignatures("_xmlsignatures/sig1.xml", "xml", 17)
  @@ InSignatures("_xmlsignatures/sig2.xml", "xml", 18)
  @@ Outside("[Content_Types].xml", "xml", <<19>>) @@ Outside("_rels/.rels", "other", <<20>>)
  @@ Outside("a/", "directory", <<21>>) @@ Outside("a/b", "other", <<22, 23, 24, 25, 26>>)
  @@ Outside("c", "other", <<31, 32, 33, 34, 35, 129, 130, 36, 37>>) @@ Outside("new", "other", <<40>>)

Bytes(name, word) == Entry(name, [bytes |-> word])
Added == {Bytes("new", "x"), Bytes("META-INF/services", "x"), Bytes("META-INF", "x")}

-----------------------------------------------------------------------------
(* Java archives.                                                          *)

Classes == <<Bytes("a/", ""), Bytes("a/b", "x"), Bytes("c", "y")>>
Jar == <<Bytes("meta-inf/manifest.mf", "m")>> \o Classes
Foreign == << Bytes("Meta-Inf/other.sf", "s"), Bytes("Meta-Inf/other.dsa", "d") >> \o Classes
Twice == Append(Classes, Bytes("c", "z"))

(* Office documents.                                                       *)

OfStranger(parts, wrapper) == SignXMLParts(parts, Stranger, wrapper)[1]
List == Entry(ManifestPart,
  Part(<<Comment("c"), Element(<<"m", "manifest">>, [m |-> "odf"], <<>>,
                               <<Declaration("file-entry", <<Attr("full-path", "c")>>)>>)>>))
Odt == <<List, Bytes("c", "y")>>
OdtSigned == SignODF(Odt, Stranger)[1]
OdtOtherCase == Odt \o <<Entry("META-INF/DocumentSignatures.xml",
                              Part(OfStranger(CoveredODF(Odt), <<Wrapper>>)))>>

Types == Entry(ContentTypesPart,
  Part(<<Element(<<"", "Types">>, ("" :> "types"), <<>>,
           << Declaration("Default", <<Attr("Extension", "xml")>>),
              Declaration("Override", <<Attr("PartName", "/c")>>) >>)>>))
Relationships == Entry(RelationshipsPart,
  Part(<<Element(<<"", "Relationships">>, ("" :> "relationships"), <<>>,
           <<Declaration("Relationship", << Attr("Type", "office"), Attr("Target", "c") >>)>>)>>))
Docx == <<Types, Relationships, Bytes("c", "y")>>
DocxSigned ==
  Docx \o <<Entry("_xmlsignatures/sig2.xml", Part(OfStranger(CoveredOPC(Docx), <<>>)))>>

(* XML documents.                                                          *)

Xml == <<Instruction("style"), Comment("c"),
         Element(<<"", "root">>, [x |-> "one"], <<Attr("Id", "r")>>,
           <<Text("words", "t"), Element(<<"x", "child">>, <<>>, <<>>, <<Comment("c"), Text("words", "u")>>)>>)>>
XmlSigned == SignXML(Xml, Stranger)[1]
XmlNested == <<Element(<<"", "root">>, <<>>, <<>>,
                 <<Element(<<"x", "child">>, [x |-> "one"], <<>>, <<Text("words", "u")>>)>>)>>

\* With a character that is written as a reference, and with a line end.
XmlWords(words) ==
  <<Element(<<"", "root">>, <<>>, <<>>, <<Text("words", "&amp;"), Text("words", words)>>)>>

(* PDF documents: with a form, with a cross reference stream, and with a   *)
(* signature that has its byte range in front of its contents.             *)

Catalog == Object(1, [Type |-> Name("Catalog"), AcroForm |-> Ref(3)])
Form == << Object(3, [Fields |-> Fields(<<4>>)]), Object(4, [T |-> Name("Field")]) >>
Page == Object(2, [Type |-> Name("Page"), Contents |-> Ref(4)])
Trailer == [Size |-> <<"size", 5>>, Root |-> Ref(1), Info |-> Ref(4)]
Pdf == <<Catalog, Page>> \o Form \o <<Table([i \in 1..4 |-> i], Trailer), StartXRef(5)>>
PdfStream == << Catalog, Page >> \o Form \o <<Object(5, DictInsert(Trailer, "Size", <<"size", 6>>)), StartXRef(5)>>
PdfForeign == <<Catalog, Page>> \o Form
  \o << RangeEnd(<<0, 5, 6, 2>>), SignatureString(<<>>), Table([i \in 1..4 |-> i], Trailer), StartXRef(7) >>
PdfNoCatalog == << Page, Table([i \in {2} |-> 1], Trailer), StartXRef(2) >>

Files ==
  {[format |-> "JAR", file |-> f] : f \in {Jar, Foreign, Twice}}
  \cup {[format |-> "APK", file |-> Classes]}
  \cup {[format |-> "ODT", file |-> f] : f \in {Odt, OdtSigned, OdtOtherCase, <<Bytes("c", "y")>>}}
  \cup {[format |-> "DOCX", file |-> f] : f \in {Docx, DocxSigned, <<Types, Bytes("c", "y")>>}}
  \cup {[format |-> "XML", file |-> f] : f \in {Xml, XmlSigned, XmlNested}}
  \cup {[format |-> "XML", file |-> XmlWords(words)] : words \in {"\r", "&#xD;", "]]&gt;"}}
  \cup {[format |-> "PDF", file |-> f] : f \in {Pdf, PdfStream, PdfForeign, PdfNoCatalog}}
=============================================================================
