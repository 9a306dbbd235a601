------------------------------ MODULE PdfFile ------------------------------
(***************************************************************************)
(* Signed PDF documents: the signature is an update that is appended, with *)
(* a signature field, and covers every byte of the file but its own.       *)
(*                                                                         *)
(* A file is a sequence of pieces, whose positions stand for offsets:      *)
(* objects with a dictionary, the string of a signature, the end of its    *)
(* dictionary with the byte range, cross reference tables with a trailer,  *)
(* and the entries that lead to a table.  A value of a dictionary is a     *)
(* pair of its kind and itself.                                            *)
(***************************************************************************)
EXTENDS JarFile, TLC

Object(number, dict) == [object |-> number, dict |-> dict]
SignatureString(block) == [contents |-> block]
RangeEnd(bounds) == [byteRange |-> bounds]
Table(offsets, trailer) == [offsets |-> offsets, trailer |-> trailer]
StartXRef(at) == [startxref |-> at]

Ref(number) == <<"ref", number>>
Name(word) == <<"name", word>>
Fields(numbers) == <<"fields", numbers>>

Has(piece, field) == field \in DOMAIN piece

-----------------------------------------------------------------------------
(* Reading.                                                                *)

\* pdfTrailerOf: the last table is where the last entry leads, or there is a
\* cross reference stream, an object whose dictionary is the trailer.
TrailerDict(file, at) ==
  IF at \notin 1..Len(file) - 1 THEN <<>>
  ELSE IF Has(file[at], "trailer") THEN <<file[at].trailer>>
  ELSE IF Has(file[at], "dict") THEN <<file[at].dict>>
  ELSE <<>>

\* The catalog, and the number that comes after those of all objects.
TrailerAt(dict, start) ==
  IF "Root" \notin DOMAIN dict THEN <<>>
  ELSE IF dict.Root[1] # "ref" THEN <<>>
  ELSE LET size == IF "Size" \in DOMAIN dict THEN dict.Size[2] ELSE 0
           root == dict.Root[2]
       IN <<[root |-> root, size |-> IF size <= root THEN root + 1 ELSE size,
             start |-> start, dict |-> dict]>>

TrailerOf(file) ==
  LET last == SelectLastInSeq(file, LAMBDA p : Has(p, "startxref"))
      From(start) == LET dict == TrailerDict(file, start)
                     IN IF dict = <<>> THEN <<>> ELSE TrailerAt(dict[1], start)
  IN IF last = 0 THEN <<>> ELSE From(file[last].startxref)

\* pdfObjectBody: the last definition in the file.
ObjectDict(file, number) ==
  LET at == SelectLastInSeq(file, LAMBDA p : Has(p, "object") /\ p.object = number)
  IN IF at = 0 THEN <<>> ELSE <<file[at].dict>>

-----------------------------------------------------------------------------
(* Signing.                                                                *)

\* pdfDictInsert: the key is added, or has a new value.
DictInsert(dict, key, value) == (key :> value) @@ dict
KeptKeys(dict, keys) == [k \in keys \cap DOMAIN dict |-> dict[k]]

\* Mutant: the objects of the update are numbered from the catalog on.
NumberFromRoot(trailer) == trailer.root
FirstNumber(trailer) == trailer.size

\* What a byte range leaves out.
Covered(file, bounds) ==
  SubSeq(file, bounds[1] + 1, bounds[1] + bounds[2])
  \o SubSeq(file, bounds[3] + 1, bounds[3] + bounds[4])

Update(file, trailer, catalog) ==
  LET n == FirstNumber(trailer)
      at == Len(file)
      bounds == <<0, at + 4, at + 5, 3>>
  IN file \o
     << Object(n, DictInsert(catalog, "AcroForm", Ref(n + 1))),
        Object(n + 1, [Fields |-> Fields(<<n + 2>>)]),
        Object(n + 2, [FT |-> Name("Sig"), V |-> Ref(n + 3)]),
        Object(n + 3, [Type |-> Name("Sig")]),
        SignatureString(<<>>),
        RangeEnd(bounds),
        Table([i \in n..n + 3 |-> at + 1 + (i - n)],
              [Size |-> <<"size", n + 4>>, Root |-> Ref(n), Prev |-> <<"prev", trailer.start>>]
              @@ KeptKeys(trailer.dict, {"Info", "ID"})),
        StartXRef(at + 7) >>

\* The block goes to its place, over what the byte range covers.
Filled(updated, hole, identity) ==
  LET block == DetachedSignature(Covered(updated, updated[hole + 1].byteRange), identity)
  IN IF block = <<>> THEN <<>> ELSE <<[updated EXCEPT ![hole] = SignatureString(block)]>>

SignAfter(file, trailer, identity) ==
  LET catalog == ObjectDict(file, trailer.root)
  IN IF catalog = <<>> THEN <<>>
     ELSE Filled(Update(file, trailer, catalog[1]), Len(file) + 5, identity)

SignPDF(file, identity) ==
  LET trailer == TrailerOf(file)
  IN IF trailer = <<>> THEN <<>> ELSE SignAfter(file, trailer[1], identity)

-----------------------------------------------------------------------------
(* Verifying.                                                              *)

\* The range is inside the file.
RangeIsValid(file, bounds) ==
  /\ bounds[1] = 0 /\ bounds[2] > 0 /\ bounds[4] > 0
  /\ bounds[3] + bounds[4] <= Len(file) /\ bounds[2] <= Len(file)

\* pdfSignatureContent: the last byte range and the last contents in front of it;
\* those of a page are no signature.  The range leaves out no more than the string.
VerifyPDF(file) ==
  LET range == SelectLastInSeq(file, LAMBDA p : Has(p, "byteRange"))
      bounds == file[range].byteRange
      hole == SelectLastInSeq(SubSeq(file, 1, range),
                              LAMBDA p : \/ Has(p, "contents")
                                         \/ Has(p, "dict") /\ "Contents" \in DOMAIN p.dict)
  IN IF range = 0 THEN <<>>
     ELSE IF ~RangeIsValid(file, bounds) \/ hole = 0 THEN <<>>
     ELSE IF ~Has(file[hole], "contents") \/ bounds[2] < hole - 1 \/ bounds[3] > hole THEN <<>>
     ELSE IF file[hole].contents = <<>> THEN <<>>
     ELSE VerifyDetachedCMS(file[hole].contents[1], Covered(file, bounds))
=============================================================================
