------------------------------ MODULE Pinentry ------------------------------
(***************************************************************************)
(* Asking the user for a secret: the pinentry program is started as a      *)
(* child process and driven over two pipes with the Assuan protocol, and   *)
(* a process that ends before it has answered is started once more.        *)
(*                                                                         *)
(* The program waits for a reply to every command, skips the lines that    *)
(* say nothing, and ends the process when it is through.  The pinentry     *)
(* process (external) greets, obeys, shows the dialog, may chat while it   *)
(* is open, and may crash or hang at any time; the user types or cancels.  *)
(*                                                                         *)
(* A text is a sequence of characters; "LF", "CR" and "%" are the ones     *)
(* that an Assuan line cannot carry as they are.                           *)
(***************************************************************************)
EXTENDS Configuration

CONSTANTS
  Characters,   \* what texts are made of
  Entries,      \* what the user may type
  Prompts,      \* the prompts: [description, message]
  Hosts,        \* [environment, file, installed]: where the program is named;
                \* a file has its lines, and the settings somebody wrote there
  MaxChatter,   \* bound: lines without an answer in them
  MaxCrashes,   \* bound: processes that end before they were told to
  Hangs         \* pinentry may stop answering

UpperHexDigits == {"0", "1", "2", "3", "4", "5", "6", "7", "8", "9", "A", "B", "C", "D", "E", "F"}

ASSUME TextsAssumption ==
  /\ {"LF", "CR", "%"} \cup UpperHexDigits \subseteq Characters
  /\ Entries \subseteq Seq(Characters)
  /\ \A p \in Prompts : p.description \in Seq(Characters) /\ p.message \in Seq(Characters)

\* The settings of a file are the ones that were written into it.
ASSUME FilesAssumption ==
  \A h \in Hosts : h.file.there /\ h.file.readable =>
    /\ h.file.lines \in Seq(Seq(Words))
    /\ h.file.settings \in Seq([key : Words, value : Seq(Words)])
    /\ WrittenIn(h.file.lines, h.file.settings)

ASSUME BoundsAssumption == MaxChatter \in Nat /\ MaxCrashes \in Nat /\ Hangs \in BOOLEAN

VARIABLES
  host,         \* the environment, the configuration file and the programs
  prompt,       \* what the dialog has to say
  path,         \* the pinentry program
  pc,           \* what the program does next
  todo,         \* the commands that are still to be sent
  pin,          \* the data received so far
  outcome,      \* how this run of pinentry ended
  runs,         \* how often pinentry was started
  answer,       \* what the command is told
  toPinentry,   \* the lines in the pipe to pinentry
  toClient,     \* the lines in the pipe from pinentry
  proc,         \* the pinentry process
  greeted,      \* it has sent its greeting
  shown,        \* the texts that pinentry was given
  dialog,       \* "closed", "open", or waiting for the answer to an "inquiry"
  entered,      \* what the user did in the dialog
  chatter,      \* lines without an answer still to come
  crashes       \* crashes still to come

client == <<host, prompt, path, todo, pin, outcome, runs, answer>>
pipes == <<toPinentry, toClient>>
pinentry == <<proc, greeted, shown, dialog, chatter, crashes>>
vars == <<client, pc, pipes, pinentry, entered>>

Line(is, text) == [is |-> is, text |-> text]
Nothing == Line("nothing", <<>>)
Cancelled == Line("cancelled", <<>>)
Failed == Line("failed", <<>>)
Down == Line("down", <<>>)
Entry(text) == Line("entry", text)

-----------------------------------------------------------------------------
(* The conversions of the texts.                                           *)

Escapes == [c \in {"LF", "CR", "%"} |->
              IF c = "LF" THEN <<"0", "A">> ELSE IF c = "CR" THEN <<"0", "D">> ELSE <<"2", "5">>]

Verbatim(s) == s
Escape(c) == IF c \in DOMAIN Escapes THEN <<"%">> \o Escapes[c] ELSE <<c>>
AssuanEscape(s) ==
  LET escaped[i \in 0..Len(s)] == IF i = 0 THEN <<>> ELSE escaped[i - 1] \o Escape(s[i])
  IN escaped[Len(s)]

\* The character that a pair of digits stands for; other bytes keep their digits.
Decoded(pair) ==
  IF \E c \in DOMAIN Escapes : Escapes[c] = pair
  THEN CHOOSE c \in DOMAIN Escapes : Escapes[c] = pair
  ELSE pair[1] \o pair[2]

IsEscape(s, i) == s[i] = "%" /\ s[i + 1] \in UpperHexDigits /\ s[i + 2] \in UpperHexDigits
UnescapedUpTo(s, last) ==
  LET unescaped[i \in 1..Len(s) + 1] ==
        IF i > Len(s) THEN <<>>
        ELSE IF i + 2 <= last /\ IsEscape(s, i)
             THEN <<Decoded(<<s[i + 1], s[i + 2]>>)>> \o unescaped[i + 3]
             ELSE <<s[i]>> \o unescaped[i + 1]
  IN unescaped[1]
MissesTheEnd(s) == UnescapedUpTo(s, Len(s) - 1)
AssuanUnescape(s) == UnescapedUpTo(s, Len(s))

\* The commands before GETPIN; the terminal and the title do not depend on the
\* prompt.
CommandsFor(p) ==
  <<Line("OPTION", <<>>), Line("SETTITLE", <<>>),
    Line("SETDESC", AssuanEscape(p.description)), Line("SETPROMPT", <<>>)>>
  \o (IF p.message = <<>> THEN <<>> ELSE <<Line("SETERROR", AssuanEscape(p.message))>>)

\* PIVZAVR_PINENTRY, the configuration file, or the first program there is.
PinentryPath == Preferred(host.environment, host.file, "pinentry", host.installed)

-----------------------------------------------------------------------------
(* The program.                                                            *)

Init ==
  /\ host \in Hosts /\ prompt \in Prompts
  /\ path = PinentryPath   \* getSecret looks for it once, before the first try
  /\ pc = "start" /\ todo = <<>> /\ pin = <<>>
  /\ outcome = Nothing /\ runs = 0 /\ answer = Nothing
  /\ toPinentry = <<>> /\ toClient = <<>>
  /\ proc = "none" /\ greeted = FALSE /\ dialog = "closed"
  /\ shown = [description |-> <<>>, message |-> <<>>]
  /\ entered = Nothing
  /\ chatter = MaxChatter /\ crashes = MaxCrashes

Return(result) ==
  /\ answer' = result
  /\ pc' = "done"

\* newClient.  A program that cannot be started is not tried again.
Start ==
  /\ pc = "start"
  /\ \/ /\ path \notin {Unreadable, <<>>}
        /\ pc' = "greeting"
        /\ todo' = CommandsFor(prompt) /\ pin' = <<>> /\ outcome' = Nothing
        /\ runs' = runs + 1
        /\ toPinentry' = <<>> /\ toClient' = <<>>
        /\ proc' = "running" /\ greeted' = FALSE /\ dialog' = "closed"
        /\ shown' = [description |-> <<>>, message |-> <<>>]
        /\ entered' = Nothing
        /\ UNCHANGED <<host, prompt, path, answer, chatter, crashes>>
     \/ /\ Return(Failed)
        /\ UNCHANGED <<host, prompt, path, todo, pin, outcome, runs, pipes, pinentry, entered>>

\* writeLine: a process that has ended does not read any more.
Write(line, next) ==
  IF proc = "exited"
  THEN pc' = "bye" /\ outcome' = Down /\ UNCHANGED toPinentry
  ELSE pc' = next /\ toPinentry' = Append(toPinentry, line) /\ UNCHANGED outcome

Reads == {"greeting", "reply", "answer", "farewell"}
Noise == {"comment", "empty"}
Received == Head(toClient)
AtEnd == toClient = <<>> /\ proc = "exited"

\* readLine passes over comments and empty lines.
SkipLine ==
  /\ pc \in Reads
  /\ toClient # <<>> /\ Received.is \in Noise
  /\ toClient' = Tail(toClient)
  /\ UNCHANGED <<client, pc, toPinentry, pinentry, entered>>

\* A reply that has to be OK: the greeting and the replies to the commands.
ReadOK ==
  /\ pc \in {"greeting", "reply"}
  /\ \/ /\ toClient # <<>> /\ Received.is \notin Noise
        /\ toClient' = Tail(toClient)
        /\ IF Received.is = "OK" THEN pc' = "configure" /\ UNCHANGED outcome
           ELSE pc' = "bye" /\ outcome' = Failed
     \/ /\ AtEnd
        /\ pc' = "bye" /\ outcome' = Down
        /\ UNCHANGED toClient
  /\ UNCHANGED <<host, prompt, path, todo, pin, runs, answer, toPinentry, pinentry, entered>>

Configure ==
  /\ pc = "configure"
  /\ IF todo = <<>>
     THEN Write(Line("GETPIN", <<>>), "answer") /\ UNCHANGED todo
     ELSE Write(Head(todo), "reply") /\ todo' = Tail(todo)
  /\ UNCHANGED <<host, prompt, path, pin, runs, answer, toClient, pinentry, entered>>

\* The error code of a cancelled dialog is told from the others.
EveryError(line) == Cancelled
ErrorOf(line) == IF line.text = <<"cancelled">> THEN Cancelled ELSE Failed

\* What the lines mean while the dialog is open; nobody rates the password.
Statuses == {"S"}
StatusesAndInquiries == {"S", "INQUIRE"}
AlsoInquiries(line) == line.is \in StatusesAndInquiries
IsStatus(line) == line.is \in Statuses

ReadAnswer ==
  /\ pc = "answer"
  /\ \/ /\ toClient # <<>> /\ Received.is \notin Noise
        /\ toClient' = Tail(toClient)
        /\ \/ /\ Received.is = "OK"
              /\ outcome' = Entry(pin) /\ pc' = "bye"
              /\ UNCHANGED <<pin, toPinentry>>
           \/ /\ Received.is = "D"
              /\ pin' = AssuanUnescape(Received.text)
              /\ UNCHANGED <<pc, outcome, toPinentry>>
           \/ /\ IsStatus(Received)
              /\ UNCHANGED <<pc, outcome, pin, toPinentry>>
           \/ /\ Received.is = "INQUIRE" /\ ~IsStatus(Received)
              /\ Write(Line("CAN", <<>>), "answer")
              /\ UNCHANGED pin
           \/ /\ Received.is \in {"ERR", "other"}
              /\ outcome' = IF Received.is = "ERR" THEN ErrorOf(Received) ELSE Failed
              /\ pc' = "bye"
              /\ UNCHANGED <<pin, toPinentry>>
     \/ /\ AtEnd
        /\ outcome' = Down /\ pc' = "bye"
        /\ UNCHANGED <<pin, toPinentry, toClient>>
  /\ UNCHANGED <<host, prompt, path, todo, runs, answer, pinentry, entered>>

\* close: say BYE, read one line, close the pipe and wait for the process.
SayBye ==
  /\ pc = "bye"
  /\ IF proc = "exited"
     THEN pc' = "wait" /\ UNCHANGED toPinentry
     ELSE pc' = "farewell" /\ toPinentry' = Append(toPinentry, Line("BYE", <<>>))
  /\ UNCHANGED <<client, toClient, pinentry, entered>>

ReadFarewell ==
  /\ pc = "farewell"
  /\ \/ toClient # <<>> /\ Received.is \notin Noise /\ toClient' = Tail(toClient)
     \/ AtEnd /\ UNCHANGED toClient
  /\ pc' = "wait"
  /\ UNCHANGED <<client, toPinentry, pinentry, entered>>

\* getSecret starts pinentry once more when it went down before it answered.
AnyFailure(result) == result \in {Down, Failed}
IsPinentryDown(result) == result = Down

AtOnce == TRUE
ProcessEnded == proc = "exited"

Reap ==
  /\ pc = "wait"
  /\ ProcessEnded
  /\ IF IsPinentryDown(outcome) /\ runs = 1
     THEN pc' = "start" /\ UNCHANGED answer
     ELSE Return(IF outcome = Down THEN Failed ELSE outcome)
  /\ UNCHANGED <<host, prompt, path, todo, pin, outcome, runs, pipes, pinentry, entered>>

-----------------------------------------------------------------------------
(* The pinentry process (external) and the user.                           *)

Reply(line) == toClient' = Append(toClient, line)

\* A greeting and a reply are OK, or an error, or something unforeseen.
Replies == {Line("OK", <<>>), Line("ERR", <<"other">>), Line("other", <<>>)}

Greet ==
  /\ proc = "running" /\ ~greeted
  /\ greeted' = TRUE
  /\ \E line \in Replies : Reply(line)
  /\ UNCHANGED <<client, pc, toPinentry, proc, shown, dialog, chatter, crashes, entered>>

Command == Head(toPinentry)
Given(what) == shown' = [shown EXCEPT ![what] = AssuanUnescape(Command.text)]

Obey ==
  /\ proc = "running" /\ greeted
  /\ toPinentry # <<>>
  /\ dialog # "open"
  /\ toPinentry' = Tail(toPinentry)
  /\ \/ /\ Command.is \in {"OPTION", "SETTITLE", "SETDESC", "SETPROMPT", "SETERROR"}
        /\ \E line \in Replies : Reply(line)
        /\ CASE Command.is = "SETDESC" -> Given("description")
             [] Command.is = "SETERROR" -> Given("message")
             [] OTHER -> UNCHANGED shown
        /\ UNCHANGED <<proc, dialog>>
     \/ /\ Command.is = "GETPIN"
        /\ dialog' = "open"
        /\ UNCHANGED <<toClient, proc, shown>>
     \/ /\ Command.is = "CAN"
        /\ dialog' = "open"
        /\ UNCHANGED <<toClient, proc, shown>>
     \/ /\ Command.is = "BYE"
        /\ Reply(Line("OK", <<>>))
        /\ proc' = "leaving"
        /\ UNCHANGED <<shown, dialog>>
  /\ UNCHANGED <<client, pc, greeted, chatter, crashes, entered>>

\* Pinentry reports, comments, or asks for the quality of what is typed.
Chat ==
  /\ proc = "running" /\ dialog = "open"
  /\ chatter > 0 /\ chatter' = chatter - 1
  /\ \E is \in {"S", "comment", "INQUIRE"} :
       /\ Reply(Line(is, <<>>))
       /\ dialog' = IF is = "INQUIRE" THEN "inquiry" ELSE dialog
  /\ UNCHANGED <<client, pc, toPinentry, proc, greeted, shown, crashes, entered>>

UserAnswers ==
  /\ proc = "running" /\ dialog = "open"
  /\ entered = Nothing
  /\ entered' \in {Entry(e) : e \in Entries} \cup {Cancelled}
  /\ UNCHANGED <<client, pc, pipes, pinentry>>

\* An empty entry sends no data.
Deliver ==
  /\ proc = "running" /\ dialog = "open"
  /\ \/ /\ entered.is = "entry"
        /\ toClient' = toClient \o
             (IF entered.text = <<>> THEN <<>> ELSE <<Line("D", AssuanEscape(entered.text))>>)
             \o <<Line("OK", <<>>)>>
     \/ entered = Cancelled /\ Reply(Line("ERR", <<"cancelled">>))
     \/ Reply(Line("ERR", <<"other">>))
  /\ dialog' = "closed"
  /\ UNCHANGED <<client, pc, toPinentry, proc, greeted, shown, chatter, crashes, entered>>

Exit ==
  /\ proc = "leaving"
  /\ proc' = "exited"
  /\ UNCHANGED <<client, pc, pipes, greeted, shown, dialog, chatter, crashes, entered>>

Crash ==
  /\ proc = "running"
  /\ crashes > 0 /\ crashes' = crashes - 1
  /\ proc' = "exited"
  /\ UNCHANGED <<client, pc, pipes, greeted, shown, dialog, chatter, entered>>

Hang ==
  /\ Hangs
  /\ proc \in {"running", "leaving"}
  /\ proc' = "hung"
  /\ UNCHANGED <<client, pc, pipes, greeted, shown, dialog, chatter, crashes, entered>>

-----------------------------------------------------------------------------

Program == Start \/ SkipLine \/ ReadOK \/ Configure \/ ReadAnswer \/ SayBye \/ ReadFarewell \/ Reap
Process == Greet \/ Obey \/ Deliver \/ Exit

Next == Program \/ Process \/ Chat \/ UserAnswers \/ Crash \/ Hang

\* The program goes on, pinentry does unless it hangs, and a dialog is answered:
\* by the user, or by the timeout of pinentry.
Spec == Init /\ [][Next]_vars /\ WF_vars(Program) /\ WF_vars(Process)

-----------------------------------------------------------------------------

TypeOK ==
  /\ pc \in {"start", "greeting", "reply", "configure", "answer", "bye", "farewell", "wait", "done"}
  /\ runs \in 0..2
  /\ {outcome.is, answer.is, entered.is} \subseteq {"nothing", "entry", "cancelled", "failed", "down"}
  /\ \A i \in DOMAIN toPinentry : \A j \in DOMAIN toPinentry[i].text :
       toPinentry[i].text[j] \notin {"LF", "CR"}
  /\ proc \in {"none", "running", "leaving", "hung", "exited"}
  /\ dialog \in {"closed", "open", "inquiry"}
  /\ chatter \in 0..MaxChatter /\ crashes \in 0..MaxCrashes

(* When the dialog opens, the user reads all of the prompt, the reason     *)
(* why the secret is asked for again among it: every command was obeyed    *)
(* before GETPIN is sent (configure and writeCommand in pinentry.go).      *)
DialogShowsThePrompt ==
  dialog = "open" =>
    shown = [description |-> prompt.description, message |-> prompt.message]

(* No pinentry process outlives the question it was started for, also when *)
(* the handshake or a command fails: a second one is started, and the      *)
(* caller goes on, only after the first was waited for (close).            *)
NoProcessLeft == pc \in {"start", "done"} => proc \in {"none", "exited"}

(* The user is asked a second time only after a process that ended before  *)
(* it answered: neither a cancelled dialog nor an error that pinentry      *)
(* reports is retried (getSecret and isPinentryDown in utils.go).          *)
AskedAgainAfterCrash == runs = 2 => crashes < MaxCrashes

(* What the caller is told is what the user did: see Dialog.               *)
D == INSTANCE Dialog WITH Entries <- {Entry(e) : e \in Entries}
ImplementsDialog == D!Spec

(* The configuration file is read as it was written: in both forms of a    *)
(* line, with comments and empty lines between them, the last value of a   *)
(* setting that has one and all values of a list (config.go).              *)
SettingsAreRead ==
  pc = "start" /\ runs = 0 /\ host.file.there /\ host.file.readable =>
    Config(host.file) = Meant(host.file.settings)

(* Unless pinentry hangs, the question is answered and the process gone.   *)
Answered == <>(pc = "done" \/ proc = "hung")
=============================================================================
