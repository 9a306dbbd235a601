------------------------------ MODULE MCPinentry ------------------------------
(* A small instance of Pinentry.                                           *)
EXTENDS Pinentry

MCCharacters == {"x", "LF", "CR", "%"} \cup UpperHexDigits

\* Every entry of up to two characters, and some that look like an escape.
MCEntries ==
  UNION {[1..n -> {"x", "%"}] : n \in 0..2}
  \cup { <<"LF">>, <<"%", "2", "5">>, <<"x", "%", "2", "5">>, <<"%", "%", "2">> }

MCPrompts ==
  { [description |-> <<"x", "%", "2", "5">>, message |-> <<>>],
    [description |-> <<"x">>, message |-> <<"x", "LF", "%">>] }

S(key, value) == [key |-> key, value |-> value]
File(lines, settings) ==
  [there |-> TRUE, readable |-> TRUE, lines |-> lines, settings |-> settings]
NoFile == [there |-> FALSE, readable |-> TRUE, lines |-> <<>>, settings |-> <<>>]
DamagedFile == [there |-> TRUE, readable |-> FALSE, lines |-> <<>>, settings |-> <<>>]

MCWords ==
  Keys \cup {"SP", "EQ", "HASH", "a", "b", "c", "q", "u", "v", "w", "yes", "unknown"}

\* Both forms of a line, repeated settings, comments and empty lines.
BothForms ==
  File(<< <<"HASH", "SP", "pinentry", "SP", "q">>,
          <<"SP", "pinentry", "SP", "EQ", "SP", "a", "SP">>, <<>>,
          <<"ca-certificate", "SP", "u", "SP", "HASH">>,
          <<"pinentry", "SP", "SP", "b", "SP", "c">>,
          <<"ca-certificate", "EQ", "v">>, <<"ca-certificate">>, <<"unknown", "SP", "w">>,
          <<"require-ocsp", "EQ", "yes">> >>,
       << S("pinentry", <<"a">>), S("ca-certificate", <<"u", "SP", "HASH">>),
          S("pinentry", <<"b", "SP", "c">>), S("ca-certificate", <<"v">>),
          S("ca-certificate", <<>>), S("require-ocsp", <<"yes">>) >>)
Withdrawn ==
  File(<< <<"pinentry", "EQ", "a">>, <<"HASH", "pinentry", "SP", "b">>, <<"pinentry", "SP">> >>,
       << S("pinentry", <<"a">>), S("pinentry", <<>>) >>)

Host(environment, file, installed) ==
  [environment |-> environment, file |-> file, installed |-> installed]

MCHosts ==
  { Host(<<"e">>, DamagedFile, <<>>), Host(<<>>, DamagedFile, <<"i">>), Host(<<>>, NoFile, <<>>),
    Host(<<>>, BothForms, <<"i">>), Host(<<>>, Withdrawn, <<"i">>), Host(<<>>, Withdrawn, <<>>) }
=============================================================================
