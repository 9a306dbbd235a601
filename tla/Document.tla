------------------------------ MODULE Document ------------------------------
(***************************************************************************)
(* A file that carries its own signature, in the hands of its users: it is *)
(* signed, also a second time, changed by other programs, and verified.    *)
(***************************************************************************)
EXTENDS OfficeFile, PdfFile, FiniteSets

CONSTANTS
  Documents,     \* the files to begin with: [format, file]
  Identities,    \* the signers: [key, certificate]
  NewParts,      \* the entries that other programs add to an archive
  MaxSigns,      \* bound: signatures that are made
  MaxEdits       \* bound: changes after the last of them

VARIABLES
  format,        \* of the file
  file,          \* what is in it
  signs,         \* how often it was signed
  edits,         \* how often it was changed since
  signed,        \* the last signature: who made it, and the file with it
  report         \* what a verification has said

vars == <<format, file, signs, edits, signed, report>>

Archives == {"JAR", "APK", "ODT", "DOCX", "XLSX"}
Unread == [verdict |-> "none", signer |-> <<>>]

-----------------------------------------------------------------------------
(* Sign and Verify, by the format.  An archive is written as it was read.  *)

SignFile(content, identity) ==
  CASE format = "XML" -> SignXML(content, identity)
    [] format \in {"DOCX", "XLSX"} -> SignOPC(content, identity)
    [] format = "ODT" -> SignODF(content, identity)
    [] format \in {"JAR", "APK"} -> SignJAR(format, content, identity)
    [] format = "PDF" -> SignPDF(content, identity)

VerifyFile(content) ==
  CASE format = "XML" -> VerifyXML(content, <<>>)
    [] format \in {"DOCX", "XLSX"} -> VerifyOPC(content)
    [] format = "ODT" -> VerifyODF(content)
    [] format \in {"JAR", "APK"} -> VerifyJAR(content)
    [] format = "PDF" -> VerifyPDF(content)

\* There is no verdict at all.
Crashes(content) == format \in {"JAR", "APK"} /\ VerifyCrashes(content)

-----------------------------------------------------------------------------
(* What other programs make of a file.                                     *)

OtherText == Text("words", "other")

ChangedXML(document) ==
  LET at == SelectInSeq(document, IsElement)
      root == document[at]
      Put(changed) == [document EXCEPT ![at] = changed]
  IN {Put(AppendChild(root, OtherText)), Put(AppendChild(root, Comment("other"))),
      Put([root EXCEPT !.attrs = Append(@, Attr("other", "other"))]),
      Put([root EXCEPT !.ns = ("" :> "other") @@ @])}
     \cup {Put([root EXCEPT !.children[i].ns = (prefix :> "other") @@ @]) :
             prefix \in {"", "x"}, i \in {j \in DOMAIN root.children : IsElement(root.children[j])}}
     \cup {Put([root EXCEPT !.children[i] = OtherText]) : i \in DOMAIN root.children}
     \cup {Put([root EXCEPT !.children[i].children = Append(@, OtherText)]) :
             i \in {j \in DOMAIN root.children : IsElement(root.children[j])}}

ChangedArchive(entries) ==
  {[entries EXCEPT ![i].data = [bytes |-> "other"]] : i \in DOMAIN entries}
  \cup {RemoveAt(entries, i) : i \in DOMAIN entries}
  \cup {Append(entries, part) : part \in NewParts}

\* An update that another program appends, or a change in place.
ChangedPDF(pieces) ==
  LET trailer == TrailerOf(pieces)
  IN {pieces \o << Object(2, [Type |-> Name("Other")]),
                   Table([i \in {2} |-> Len(pieces) + 1],
                         DictInsert(t.dict, "Prev", <<"prev", t.start>>)),
                   StartXRef(Len(pieces) + 2) >> : t \in ToSet(trailer)}
     \cup {[pieces EXCEPT ![i].dict = ("Other" :> Name("Other")) @@ @] :
             i \in {j \in DOMAIN pieces : Has(pieces[j], "dict")}}
     \cup {RemoveAt(pieces, i) : i \in {j \in DOMAIN pieces : Has(pieces[j], "object")}}

Changed(content) ==
  CASE format = "XML" -> ChangedXML(content)
    [] format = "PDF" -> ChangedPDF(content)
    [] format \in Archives -> ChangedArchive(content)

-----------------------------------------------------------------------------
Init ==
  /\ \E document \in Documents : format = document.format /\ file = document.file
  /\ signs = 0 /\ edits = 0 /\ signed = <<>> /\ report = Unread

\* A file that cannot be signed stays as it is.
Sign ==
  /\ signs < MaxSigns
  /\ signs' = signs + 1
  /\ \E identity \in Identities :
       LET result == SignFile(file, identity)
       IN \/ /\ result # <<>>
             /\ file' = result[1]
             /\ signed' = <<[by |-> identity.certificate, file |-> result[1]]>>
             /\ edits' = 0 /\ report' = Unread
          \/ /\ result = <<>>
             /\ UNCHANGED <<file, signed, edits, report>>
  /\ UNCHANGED format

Edit ==
  /\ edits < MaxEdits
  /\ edits' = edits + 1
  /\ file' \in Changed(file)
  /\ report' = Unread
  /\ UNCHANGED <<format, signs, signed>>

Verified ==
  /\ report = Unread
  /\ \/ /\ ~Crashes(file)
        /\ LET signer == VerifyFile(file)
           IN report' = [verdict |-> IF signer = <<>> THEN "bad" ELSE "good", signer |-> signer]
     \/ /\ Crashes(file)
        /\ report' = [verdict |-> "crash", signer |-> <<>>]
  /\ UNCHANGED <<format, file, signs, edits, signed>>

Next == Sign \/ Edit \/ Verified

Spec == Init /\ [][Next]_vars

-----------------------------------------------------------------------------
(* Properties.                                                             *)

JustSigned == signed # <<>> /\ edits = 0

Names(entries) == {e.name : e \in ToSet(entries)}
Unique(entries) == Cardinality(Names(entries)) = Len(entries)

\* What may not appear literally in a text.
MayNotAppear == {"\r", "]]>"}
Literal(document) == Words(document) \cap MayNotAppear

\* What Sign does not cope with: an archive with several entries of a name, a
\* signature part of OpenDocument whose name is written in another case, and an XML
\* document with a text that may not appear literally, as it writes it so.
Ordinary(content) ==
  /\ format = "XML" => Literal(content) = {}
  /\ format \in {"JAR", "APK"} => Unique(content)
  /\ format = "ODT" => \A name \in Names(content) : EqualFold(name, SignaturesPart) => name = SignaturesPart

(***************************************************************************)
(* What Sign makes, Verify accepts as the work of the same signer, also    *)
(* when the file carried signatures of other programs, or of other         *)
(* signers, before (embed.Sign, embed.Verify).                             *)
(***************************************************************************)
SignedIsAccepted ==
  JustSigned /\ report # Unread =>
    IF Ordinary(file) THEN report = [verdict |-> "good", signer |-> <<signed[1].by>>]
    ELSE report.verdict = "good" => report.signer = <<signed[1].by>>

\* An XML document without its signature.
Unsigned(document) ==
  LET roots == ParseXML(document)
      root == RootElement(roots)
      signature == IF root = <<>> THEN <<>> ELSE SignatureElement(root[1])
  IN IF signature = <<>> THEN roots ELSE WithRoot(roots, RemoveChild(root[1], Head(signature).element))

ExclusiveForms(nodes) == Each(nodes, LAMBDA node : ExclusiveForm(node, XmlScope, <<>>))

\* A document without the declarations of all elements but its root.
RECURSIVE Undeclared(_)
Undeclared(nodes) ==
  Each(nodes, LAMBDA node : IF IsElement(node) THEN [node EXCEPT !.ns = <<>>, !.children = Undeclared(@)]
                            ELSE node)
DeclaredAtRoot(roots) ==
  Each(roots, LAMBDA node : IF IsElement(node) THEN [node EXCEPT !.children = Undeclared(@)] ELSE node)

IsExtended(parts, more) ==
  \A name \in DOMAIN parts : IF name \in DOMAIN more THEN more[name] = parts[name] ELSE FALSE

\* What an archive holds outside of META-INF.
Payload(entries) == PartsOf(SelectSeq(entries, LAMBDA e : ~IsMetaInf(e.name)))

SameContent(before, after) ==
  CASE format = "XML" ->
         ExclusiveForms(DeclaredAtRoot(Unsigned(before))) = ExclusiveForms(DeclaredAtRoot(Unsigned(after)))
    [] format \in {"JAR", "APK"} -> Payload(before) = Payload(after)
    [] format = "ODT" -> IsExtended(CoveredODF(before), CoveredODF(after))
    [] format \in {"DOCX", "XLSX"} -> IsExtended(CoveredOPC(before), CoveredOPC(after))
    [] format = "PDF" -> IsPrefix(before, after)

(***************************************************************************)
(* A file that is accepted has the content that was signed, by the signer  *)
(* that is reported: nothing was changed or removed, and nothing was added *)
(* to a Java archive outside of META-INF.  What is not noticed: parts that *)
(* are added to an office document, updates that are appended to a PDF,    *)
(* and the namespaces that the elements of an XML document declare below   *)
(* its root, which are not hashed (checkEntries, verifyXMLParts,           *)
(* pdfSignatureContent, writeCanonicalNode).                               *)
(***************************************************************************)
ChangeIsNoticed ==
  signed # <<>> /\ report.verdict = "good" /\ Ordinary(signed[1].file) /\ Ordinary(file) =>
    /\ report.signer = <<signed[1].by>>
    /\ SameContent(signed[1].file, file)

\* The parts that Sign rewrites, and those that it replaces.
Rewritten(name) == name \in {ManifestPart, ContentTypesPart, RelationshipsPart}
Replaced(name) ==
  CASE format \in {"JAR", "APK"} -> IsSignaturePart(name)
    [] format = "ODT" -> name = SignaturesPart
    [] format \in {"DOCX", "XLSX"} -> InSignatureDirectory(name)

KeepsRoot(before, after) ==
  /\ SelectSeq(after.children, LAMBDA c : c \in ToSet(before.children)) = before.children
  /\ [after EXCEPT !.children = before.children] = before

KeepsContent(before, after) ==
  CASE format = "XML" -> Literal(after) = {} => Unsigned(after) = ParseXML(before)
    [] format = "PDF" ->
         /\ IsPrefix(before, after)
         /\ \A i \in Len(before) + 1..Len(after), j \in 1..Len(before) :
              Has(after[i], "object") /\ Has(before[j], "object") => after[i].object # before[j].object
    [] format \in Archives ->
         LET Others(entries) == SelectSeq(entries, LAMBDA e : ~Replaced(e.name) /\ ~Rewritten(e.name))
         IN /\ Others(after) = Others(before)
            /\ \A name \in {n \in Names(before) : Rewritten(n) /\ ~Replaced(n)} :
                 KeepsRoot(PartRoot(before, name)[1], PartRoot(after, name)[1])

(***************************************************************************)
(* Signing adds a signature and nothing else: the entries of an archive    *)
(* stay as they are and in their order, declarations are added to those    *)
(* there are, an XML document is what the parser kept of it, unless a text *)
(* in it may not appear literally, and a PDF is extended by objects whose  *)
(* numbers are free (signPDF, signJAR, signODF, signOPC, signXML).         *)
(***************************************************************************)
ContentKept == [][signs' # signs /\ signed' # signed => KeepsContent(file, file')]_vars

CountOf(seq, Test(_)) == Len(SelectSeq(seq, Test))
Declarations(name, attribute, value) ==
  CountOf(Elements(PartRoot(file, name)[1].children), LAMBDA c : AttrValue(c, attribute) = value)

(***************************************************************************)
(* A file that is signed again has one signature and declares it once:     *)
(* what an earlier signature left is replaced, whoever made it             *)
(* (removeJARSignatures, removeEntriesWithPrefix, odfAddManifestEntry,     *)
(* opcAddContentTypes, opcAddOriginRelationship).                          *)
(***************************************************************************)
SignedOnce ==
  JustSigned =>
    /\ format \in {"JAR", "APK"} =>
         \A kind \in {"manifest", "sf", "block"} :
           CountOf(file, LAMBDA e : IsMetaInf(e.name) /\ NameInfo[e.name].kind = kind) = 1
    /\ format = "ODT" =>
         /\ CountOf(file, LAMBDA e : e.name = SignaturesPart) = 1
         /\ Declarations(ManifestPart, "full-path", SignaturesPart) = 1
    /\ format \in {"DOCX", "XLSX"} =>
         /\ CountOf(file, LAMBDA e : InSignatureDirectory(e.name) /\ NameInfo[e.name].kind = "xml") = 1
         /\ Declarations(ContentTypesPart, "Extension", "sigs") = 1
         /\ Declarations(ContentTypesPart, "PartName", "/" \o SignaturePart) = 1
         /\ Declarations(RelationshipsPart, "Type", OriginType) = 1

(***************************************************************************)
(* "at most 72 bytes per line ...": the lines of a manifest that Sign made *)
(* have no more octets than that, and "a character that is several bytes   *)
(* wide is not split between two lines" (appendManifestLine).              *)
(***************************************************************************)
LinesFit ==
  JustSigned /\ format \in {"JAR", "APK"} =>
    LET manifest == EntryNamed(file, ManifestName)[1].data.manifest
    IN \A i \in DOMAIN manifest : \A j \in DOMAIN manifest[i].lines :
         LET line == manifest[i].lines[j]
         IN /\ Len(line) <= LineLimit
            /\ j > 1 => line[1] = 32 /\ ~Continues(line[2])

(***************************************************************************)
(* "The XML Signature is produced with exclusive canonicalization          *)
(* (xml-exc-c14n), as required by the XML Signature specification": the    *)
(* digest of the document is that of its exclusive form.                   *)
(***************************************************************************)
CanonicalFormIsExclusive ==
  format = "XML" /\ JustSigned /\ Literal(file) = {} =>
    LET info == SignedInfo(Head(SignatureElement(Head(RootElement(ParseXML(file))))))
        digest == DigestValue(Head(References(info.element)))
    IN digest[2] = ExclusiveForms(Unsigned(file))
=============================================================================
