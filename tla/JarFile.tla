------------------------------ MODULE JarFile ------------------------------
(***************************************************************************)
(* Signed Java archives and Android packages: the manifest has the digests *)
(* of the entries, a signature file the digests of the manifest and of its *)
(* sections, and a signature block signs the signature file.               *)
(*                                                                         *)
(* Data are records whose field says what they are: bytes, a manifest, a   *)
(* signature file, a block.  The attribute of a digest names its hash.     *)
(***************************************************************************)
EXTENDS Archive, CMS

CONSTANT LineLimit   \* the octets of a line, 72

-----------------------------------------------------------------------------
(* Lines.  An octet from 128 on continues a character.                     *)

Continues(octet) == octet >= 128
LineStart == <<32>>   \* the space that a line begins with which continues another

\* Mutant: a line is broken wherever it is full.
BreakAnywhere(octets, limit) == limit
\* A line is broken in front of a character.
BreakAt(octets, limit) ==
  CHOOSE at \in 0..limit :
    /\ ~Continues(octets[at + 1]) \/ at = 0
    /\ \A other \in at + 1..limit : Continues(octets[other + 1])

\* appendManifestLine, for a line of at least one octet.
RECURSIVE Lines(_, _)
Lines(octets, start) ==
  LET limit == LineLimit - Len(start)
  IN IF Len(octets) <= limit THEN <<start \o octets>>
     ELSE LET at == BreakAt(octets, limit)
          IN <<start \o SubSeq(octets, 1, at)>>
             \o Lines(SubSeq(octets, at + 1, Len(octets)), LineStart)
AppendManifestLine(octets) == Lines(octets, <<>>)

\* manifestAttributes: a line that continues another is joined with it.
Joined(lines) ==
  FlattenSeq([i \in DOMAIN lines |-> IF i = 1 THEN lines[i] ELSE Tail(lines[i])])

-----------------------------------------------------------------------------
(* The manifest and the signature file.                                    *)

IsMetaInf(name) == NameInfo[name].place = "meta-inf"
\* It looks at the octet behind the name of the directory, which the name of the
\* directory itself does not have: the program goes down.
BeyondName(entries) == \E i \in DOMAIN entries : NameInfo[entries[i].name].place = "META-INF itself"

HashForKey(key) ==
  CASE KeyKind[key] = "P-384" -> "SHA384"
    [] KeyKind[key] \in {"P-521", "Ed25519"} -> "SHA512"
    [] OTHER -> "SHA256"

MainSection == [lines |-> <<>>, digests |-> {}]

\* buildManifest: the old one is not looked at.
BuildManifest(entries, hash) ==
  LET listed == SelectSeq(entries, LAMBDA e : ~IsDirectory(e.name) /\ ~IsMetaInf(e.name))
  IN <<MainSection>> \o
     [i \in DOMAIN listed |->
        [lines |-> AppendManifestLine(NameInfo[listed[i].name].octets),
         digests |-> {Digest(hash, listed[i].data)}]]

\* The last section of every name.
SectionsOf(manifest) ==
  LET sections == Tail(manifest)
  IN [octets \in {Joined(s.lines) : s \in ToSet(sections)} |->
        sections[SelectLastInSeq(sections, LAMBDA s : Joined(s.lines) = octets)]]

\* buildSignatureFile.
BuildSignatureFile(manifest, hash) ==
  [manifest |-> {Digest(hash, manifest)},
   main |-> {Digest(hash, Head(manifest))},
   sections |-> {[lines |-> s.lines, digests |-> {Digest(hash, s)}] :
                   s \in {SectionsOf(manifest)[octets] : octets \in DOMAIN SectionsOf(manifest)}}]

Matching(digests, content) == \A d \in digests : d = Digest(d[1], content)

\* checkSignatureFile: what the signature file has a digest of.
CheckSignatureFile(file, manifest) ==
  LET sections == SectionsOf(manifest)
  IN /\ Matching(file.manifest, manifest)
     /\ Matching(file.main, Head(manifest))
     /\ \A s \in file.sections :
          IF Joined(s.lines) \in DOMAIN sections
          THEN Matching(s.digests, sections[Joined(s.lines)])
          ELSE FALSE

\* Mutant: only what the manifest lists is looked at.
CheckListed(entries, sections) ==
  \A octets \in DOMAIN sections :
    \E i \in DOMAIN entries :
      /\ NameInfo[entries[i].name].octets = octets
      /\ Matching(sections[octets].digests, entries[i].data)

\* checkEntries: the first entry of every listed name has the digest, and no
\* file but those of META-INF is left out.
CheckEntries(entries, sections) ==
  /\ \A octets \in DOMAIN sections :
       LET named == SelectSeq(entries, LAMBDA e : NameInfo[e.name].octets = octets)
       IN IF named = <<>> THEN FALSE
          ELSE Matching(sections[octets].digests, Head(named).data)
  /\ \A i \in DOMAIN entries :
       LET name == entries[i].name
       IN IsDirectory(name) \/ IsMetaInf(name) \/ NameInfo[name].octets \in DOMAIN sections

-----------------------------------------------------------------------------
(* Signing and verifying.                                                  *)

\* cmsDetached: a message of one signer, with its certificate and no content.
DetachedSignature(content, identity) ==
  LET signed == AddSignerInfo(NewSignedData("data", content), <<identity.certificate>>, identity.key)
  IN IF signed.error = "none"
     THEN <<SetCertificates(Detached(signed.sd), <<identity.certificate>>)>> ELSE <<>>

\* verifyDetachedCMS: the certificate of the first signer is the anchor of all.
VerifyDetachedCMS(sd, content) ==
  LET signers == SignerCertificates(sd)
  IN IF ~IsDetached(sd) \/ signers \in {<<>>, << <<>> >>} THEN <<>>
     ELSE IF (\A c \in ToSet(signers[1]) : c = Head(signers[1])) /\ Verify(sd, content)
     THEN <<Head(signers[1])>> ELSE <<>>

BlockName(format, key) ==
  LET extension == IF PublicKeyAlgorithm(key) = "ECDSA" THEN "EC"
                   ELSE IF KeyKind[key] = "Ed25519" THEN "SIG" ELSE "RSA"
  IN "META-INF/" \o (IF format = "APK" THEN "CERT." ELSE "PIVZAVR.") \o extension
FileName(format) == "META-INF/" \o (IF format = "APK" THEN "CERT.SF" ELSE "PIVZAVR.SF")
ManifestName == "META-INF/MANIFEST.MF"

\* Mutant: the signature files that are replaced are those of the same name.
IsNothing(name) == FALSE
IsSignaturePart(name) == IsMetaInf(name) /\ NameInfo[name].kind \in {"manifest", "sf", "block"}

SignJAR(format, entries, identity) ==
  LET hash == HashForKey(identity.key)
      manifest == BuildManifest(entries, hash)
      file == BuildSignatureFile(manifest, hash)
      block == DetachedSignature(file, identity)
      kept == SelectSeq(entries, LAMBDA e : ~IsSignaturePart(e.name))
      listed == ReplaceEntry(kept, Entry(ManifestName, [manifest |-> manifest]))
      filed == ReplaceEntry(listed, Entry(FileName(format), [file |-> file]))
  IN IF block = <<>> \/ BeyondName(entries) THEN <<>>
     ELSE <<ReplaceEntry(filed, Entry(BlockName(format, identity.key), [block |-> block[1]]))>>

FirstOf(entries, kind) ==
  LET found == SelectSeq(entries, LAMBDA e : IsMetaInf(e.name) /\ NameInfo[e.name].kind = kind)
  IN IF found = <<>> THEN <<>> ELSE <<Head(found)>>

Manifest(entries) ==
  LET upper == EntryNamed(entries, ManifestName)
  IN IF upper # <<>> THEN upper ELSE EntryNamed(entries, "meta-inf/manifest.mf")

\* An archive with a manifest is searched for its signature.
VerifyCrashes(entries) == Manifest(entries) # <<>> /\ BeyondName(entries)

\* The signer.  What is not of the form it should have does not parse.
VerifyJAR(entries) ==
  LET manifest == Manifest(entries)
      file == FirstOf(entries, "sf")
      block == FirstOf(entries, "block")
  IN IF manifest = <<>> \/ file = <<>> \/ block = <<>> THEN <<>>
     ELSE IF ~("manifest" \in DOMAIN manifest[1].data /\ "file" \in DOMAIN file[1].data
               /\ "block" \in DOMAIN block[1].data) THEN <<>>
     ELSE IF /\ CheckSignatureFile(file[1].data.file, manifest[1].data.manifest)
             /\ CheckEntries(entries, SectionsOf(manifest[1].data.manifest))
     THEN VerifyDetachedCMS(block[1].data.block, file[1].data.file) ELSE <<>>
=============================================================================
