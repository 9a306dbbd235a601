----------------------------- MODULE CommandLine -----------------------------
(***************************************************************************)
(* What an invocation asks for: the command that is run, the invocations   *)
(* that are refused before a card is touched, how a signature is encoded,  *)
(* the file it goes to, and what a verification reads.                     *)
(*                                                                         *)
(* A request is a record with the options of the command line:             *)
(*   commands   the options that are commands, without --detach-sign       *)
(*   detach, armor, tsa, statusFd, random   whether they are given         *)
(*   user, ext, protect, algorithm          their values, "" without one   *)
(*   output     the name behind -o, NoName without one                     *)
(*   slot       the slot of the card                                       *)
(*   files      the other arguments, which are names                       *)
(* A name is the sequence of the parts that dots separate, in lower case.  *)
(***************************************************************************)
EXTENDS Sequences, FiniteSets, Naturals

NoName == <<>>
Dash == <<"-">>
Stdin == <<"standard input">>

Ext(name) == IF Len(name) < 2 THEN "" ELSE name[Len(name)]
WithoutExt(name) == IF Len(name) < 2 THEN name ELSE SubSeq(name, 1, Len(name) - 1)

\* The extensions of signature files, and what they say about the signature.
SignatureFormats ==
  [e \in {"sig", "sign", "sgn", "p7s", "p7m", "asc", "pem"} |->
     [armor |-> e \in {"asc", "pem"}, attached |-> e = "p7m"]]
IsSignatureExtension(e) == e \in DOMAIN SignatureFormats

\* The documents that can carry a signature.
DocumentExtensions == {"xml", "docx", "xlsx", "odt", "jar", "apk", "pdf"}
Embeddable(name) == Ext(name) \in DocumentExtensions

\* --detach-sign is a command only when there is no other.
DetachSignCommand(q) == q.detach /\ q.commands = {}
Commands(q) == IF DetachSignCommand(q) THEN {"detach-sign"} ELSE q.commands
Command(q) == CHOOSE c \in Commands(q) : TRUE
Is(c, q) == c \in q.commands

Signs(q) == Commands(q) \cap {"sign", "clearsign", "detach-sign"} # {}

\* The algorithm behind --set-management-key may come as a word of its own.
AlgorithmFromFiles(q) == Is("set-management-key", q) /\ q.algorithm = "" /\ Len(q.files) = 1
Files(q) == IF AlgorithmFromFiles(q) THEN <<>> ELSE q.files

(* Every complaint about the options; the first one is reported.           *)
Refused(q) ==
  \/ Cardinality(Commands(q)) # 1
  \/ ~Is("set-management-key", q) /\ (q.random \/ q.protect # "")
  \/ Is("set-management-key", q) /\ Files(q) # <<>>
  \/ q.protect \notin {"", "0", "1"}
  \/ Is("verify", q) /\ (q.user # "" \/ q.detach \/ q.armor)
  \/ Signs(q) /\ q.user = ""
  \/ ~Signs(q) /\ (q.output # NoName \/ q.ext # "")
  \/ Is("clearsign", q) /\ (q.ext # "" \/ q.detach)

\* A file that holds a signature rather than a signed document.
IsSignatureFile(name) ==
  /\ name \notin {NoName, Dash}
  /\ IsSignatureExtension(Ext(name))

EmbedsSignature(q) ==
  /\ Is("sign", q) /\ ~q.detach
  /\ q.ext = ""
  /\ Len(Files(q)) = 1
  /\ ~IsSignatureFile(q.output)
  /\ Embeddable(Files(q)[1])

\* How the signing commands differ: where the signature goes.
Mode(q) ==
  IF Is("clearsign", q) THEN "clear"
  ELSE IF EmbedsSignature(q) THEN "embedded"
  ELSE IF DetachSignCommand(q) \/ (q.detach /\ (q.output # NoName \/ q.ext # ""))
       THEN "file"
  ELSE "stream"

(* The encoding that a signature file has: the extension of the output     *)
(* file decides, then --ext, then --armor.                                 *)
FormatExtension(q) ==
  IF q.output # NoName THEN Ext(q.output)
  ELSE IF q.ext # "" THEN q.ext
  ELSE IF q.armor THEN "asc" ELSE "sig"

FileFormatRefused(q) ==
  \/ q.output # NoName /\ q.ext # ""
  \/ ~IsSignatureExtension(FormatExtension(q))
  \/ SignatureFormats[FormatExtension(q)].armor /\ ~q.armor

SignatureName(q) ==
  IF q.output # NoName THEN q.output ELSE Append(Files(q)[1], FormatExtension(q))

\* The name of a signed document keeps the extension of the document.
AppendedName(name) == Append(name, "signed")
SignedName(name) ==
  IF Ext(name) = "" THEN Append(name, "signed") ELSE WithoutExt(name) \o <<"signed", Ext(name)>>

\* The file a signature is written to; NoName is the standard output.
OutputName(q) ==
  IF Mode(q) = "file" THEN SignatureName(q)
  ELSE IF Mode(q) = "embedded" /\ q.output = NoName THEN SignedName(Files(q)[1])
  ELSE q.output

(* A signing command that cannot say what it signs or how.                 *)
BadArguments(q) ==
  \/ Mode(q) = "file" /\ (Len(Files(q)) # 1 \/ FileFormatRefused(q))
  \/ Mode(q) \in {"clear", "stream"} /\ Len(Files(q)) > 1

\* What the signature is: attached, detached or in front of it the message.
Encoding(q) ==
  CASE Mode(q) = "file" ->
         [kind |-> IF SignatureFormats[FormatExtension(q)].attached THEN "S" ELSE "D",
          armor |-> SignatureFormats[FormatExtension(q)].armor]
    [] Mode(q) = "clear" -> [kind |-> "C", armor |-> TRUE]
    [] Mode(q) = "embedded" -> [kind |-> "E", armor |-> FALSE]
    [] Mode(q) = "stream" -> [kind |-> IF q.detach THEN "D" ELSE "S", armor |-> q.armor]

\* The time stamp authority is not passed to an embedded signature.
StampAsked(q) == q.tsa /\ Mode(q) # "embedded"

\* The file that the name of a detached signature stands for.
HasOriginal(name) ==
  /\ IsSignatureExtension(Ext(name))
  /\ ~SignatureFormats[Ext(name)].attached
Original(name) == WithoutExt(name)

(* What --verify reads: the signature, the message of a detached one, and  *)
(* the format "embedded" of a document.                                    *)
Target(kind, signature, message) ==
  [kind |-> kind, signature |-> signature, message |-> message]

VerifiesTwo(files) ==
  Target("detached", files[1], IF files[2] = Dash THEN Stdin ELSE files[2])
VerifiesOne(name, existing) ==
  IF name # Dash /\ Embeddable(name) /\ ~IsSignatureFile(name)
  THEN Target("embedded", name, NoName)
  ELSE IF name # Dash /\ HasOriginal(name) /\ Original(name) \in existing
  THEN Target("detached", name, Original(name))
  ELSE Target("attached", name, NoName)

VerifyTarget(files, existing) ==
  CASE Len(files) = 0 -> Target("attached", NoName, NoName)
    [] Len(files) = 1 -> VerifiesOne(files[1], existing)
    [] Len(files) = 2 -> VerifiesTwo(files)
    [] OTHER -> Target("refused", NoName, NoName)
=============================================================================
