------------------------------ MODULE MCSigning ------------------------------
(***************************************************************************)
(* Instances of Signing.  Card a is a YubiKey, b a PIV card of another     *)
(* make, g a token that has no PIV application.  Library yk is the module  *)
(* of the YubiKey, sc OpenSC, which reports the CHUID in its TLV, and rt   *)
(* the module of g.                                                        *)
(***************************************************************************)
EXTENDS Signing

MCCards == {"a", "b", "g"}
MCYubiKeys == {"a"}
MCYkcs11 == {"yk"}
MCEmpty == "empty"

Libraries == {"yk", "sc", "rt"}

\* One setting of everything; the worlds below differ from it in a few fields.
Plain0 ==
  [environment |-> <<>>, file |-> <<>>, installed |-> <<"yk", "sc">>,
   serialEnvironment |-> "", serialFile |-> "", readable |-> TRUE,
   fails |-> [l \in Libraries |-> "nothing"],
   serves |-> [yk |-> {"a"}, sc |-> {"a", "b"}, rt |-> {"g"}],
   serial |-> [yk |-> [c \in MCCards |-> "1" \o c], sc |-> [c \in MCCards |-> "2" \o c],
               rt |-> [c \in MCCards |-> "3" \o c]],
   chuid |-> [yk |-> [c \in MCCards |-> "bare"], sc |-> [c \in MCCards |-> "wrapped"],
              rt |-> [c \in MCCards |-> "none"]],
   piv |-> {"a", "b"},
   owner |-> [a |-> "ann", b |-> "bob", g |-> "ann"],
   key |-> [c \in MCCards |-> c]]

Bare == [Plain0 EXCEPT !.chuid = [Plain0.chuid EXCEPT !["sc"] = [c \in MCCards |-> "bare"]]]

Worlds ==
  { Plain0, Bare,
    \* one library under two paths, and all three
    [Bare EXCEPT !.installed = <<"yk", "yk", "sc">>],
    [Plain0 EXCEPT !.installed = <<"yk", "rt", "sc">>],
    \* a module that does not load, or does not initialize
    [Bare EXCEPT !.fails = [Plain0.fails EXCEPT !["yk"] = "load"]],
    [Bare EXCEPT !.fails = [Plain0.fails EXCEPT !["yk"] = "initialize"]],
    \* one module exposes no CHUID
    [Plain0 EXCEPT !.chuid = [Plain0.chuid EXCEPT !["sc"] = [c \in MCCards |-> "none"]]],
    \* the module and the card are chosen by the user
    [Bare EXCEPT !.environment = <<"sc", "rt">>, !.file = <<"yk">>, !.serialFile = "2b"],
    [Bare EXCEPT !.file = <<"rt", "sc">>, !.serialEnvironment = "3g", !.serialFile = "2b"],
    \* the configuration file cannot be read, nothing is installed
    [Bare EXCEPT !.readable = FALSE],
    [Bare EXCEPT !.readable = FALSE, !.serialEnvironment = "2b", !.environment = <<"sc">>],
    [Bare EXCEPT !.installed = <<>>],
    \* the same user on two cards, and a certificate beside another key
    [Bare EXCEPT !.owner = [a |-> "ann", b |-> "ann", g |-> ""]],
    [Bare EXCEPT !.key = [a |-> "b", b |-> "b", g |-> "g"]],
    [Bare EXCEPT !.owner = [a |-> "", b |-> "bob", g |-> "ann"]] }

Bay(x, y) == <<x, y>>
Bays == {Bay("a", "empty"), Bay("b", "a"), Bay("g", "b"), Bay("empty", "empty")}

Txt == <<"doc", "txt">>
Pdf == <<"doc", "pdf">>
Odt == <<"doc", "odt">>
Sig == <<"doc", "txt", "sig">>
Out == <<"out", "p7m">>

Request(commands, user, files) ==
  [commands |-> commands, detach |-> FALSE, armor |-> FALSE, tsa |-> FALSE,
   statusFd |-> TRUE, random |-> FALSE, user |-> user, ext |-> "", protect |-> "",
   algorithm |-> "", output |-> NoName, slot |-> "9a", files |-> files]

CommandNames ==
  {"info", "update-trust", "sign", "verify", "clearsign", "reset", "unlock", "set-pin",
   "set-puk", "set-chuid", "set-ccc", "set-management-key", "print"}

Documents == [n \in {Txt, Pdf, Odt, Dash} |-> Plain(n)]

\* A message with a detached signature, and one inside an attached one.
Signatures ==
  [n \in {Txt, Sig, Out} |->
     IF n = Txt THEN Plain(Txt)
     ELSE Signed(IF n = Sig THEN "D" ELSE "S", FALSE, "a", "a", Plain(Txt), "no")]

Scenario(q, w, bay, n, files) ==
  [request |-> q, world |-> w, at |-> bay, moves |-> n, files |-> files]

\* Every form of the command line, with a card that stays where it is.
OptionRequests ==
  LET tried == [commands : {{}} \cup {{c} : c \in CommandNames} \cup {{"sign", "reset"}},
                detach : BOOLEAN, armor : BOOLEAN, tsa : BOOLEAN, statusFd : {TRUE},
                random : {FALSE}, user : {"", "ann"}, ext : {"", "p7m", "asc", "doc"},
                protect : {""}, algorithm : {""},
                output : {NoName, Txt, Out, Sig, <<"out", "pdf">>},
                slot : {"9a"},
                files : {<<>>, <<Txt>>, <<Pdf>>, <<Dash>>, <<Sig>>, <<Sig, Txt>>, <<Txt, Dash>>, <<Txt, Pdf, Sig>>}]
  IN {q \in tried :
        /\ q.commands \cap {"sign", "clearsign", "verify"} = {} =>
             Len(q.files) < 2 /\ ~q.tsa /\ q.output \in {NoName, Out} /\ q.ext \in {"", "asc"}
        /\ ~(q.detach /\ q.armor /\ q.tsa)}

KeyRequests ==
  { [Request({"set-management-key"}, "", files) EXCEPT !.random = r, !.protect = p, !.algorithm = a]
    : files \in {<<>>, <<Txt>>, <<Txt, Sig>>}, r \in BOOLEAN, p \in {"", "1", "2"}, a \in {"", "AES256"} }

OptionScenarios ==
  {Scenario(q, Bare, Bay("a", "empty"), 0, Documents) : q \in OptionRequests \cup KeyRequests}

\* Every kind of command in every world, while cards are moved.
CardRequests ==
  { Request({c}, "", <<>>) : c \in {"info", "reset", "set-pin", "unlock", "print", "verify"} }
  \cup { [Request({"sign"}, "ann", <<Txt>>) EXCEPT !.slot = s, !.tsa = (s = "9a")] : s \in {"9a", "9e"} }
  \cup { [Request({"sign"}, "ann", <<n>>) EXCEPT !.slot = s] : s \in {"9a", "9e"}, n \in {Pdf, Odt} }
  \cup { [Request({"sign"}, "ann", <<n>>) EXCEPT !.output = n] : n \in {Txt, Pdf, Odt} }

WorldScenarios ==
  {Scenario(q, w, bay, 0, Documents) : q \in CardRequests, w \in Worlds, bay \in Bays}

MoveScenarios ==
  {Scenario(q, w, bay, 1, Documents) : q \in CardRequests,
     w \in {Bare, [Bare EXCEPT !.owner = [a |-> "ann", b |-> "ann", g |-> "ann"],
                                !.installed = <<"sc", "rt">>, !.serialFile = "2a"]},
     bay \in {Bay("a", "empty"), Bay("b", "a")}}

VerifyScenarios ==
  {Scenario(Request({"verify"}, "", files), Bare, Bay("a", "empty"), 0, Signatures) :
     files \in {<<Sig>>, <<Out>>, <<Sig, Txt>>, <<Sig, Out>>, <<Txt>>, <<Out, Pdf>>}}

MCScenarios == VerifyScenarios \cup OptionScenarios \cup WorldScenarios \cup MoveScenarios

\* A reset of token g, whose module exposes no CHUID, beside the PIV card a.
ResetScenarios ==
  {Scenario(Request({"reset"}, "", <<>>),
            [Plain0 EXCEPT !.installed = <<"yk", "rt">>, !.serialFile = "3g"],
            Bay("g", "a"), 0, Documents)}
=============================================================================
