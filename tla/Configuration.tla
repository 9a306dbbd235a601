---------------------------- MODULE Configuration ----------------------------
(***************************************************************************)
(* The configuration file: what a line sets, and which of the environment, *)
(* the file and the defaults a setting comes from.                         *)
(*                                                                         *)
(* A line is a sequence of words, of which "SP", "EQ" and "HASH" are the   *)
(* space, "=" and "#"; every other word is text without them.              *)
(***************************************************************************)
EXTENDS Sequences, Naturals

CONSTANT Words   \* what lines are made of

LastKeys == {"pinentry", "pkcs11-module", "serial", "language", "require-ocsp"}
ListKeys == {"ca-certificate", "ocsp-server", "public-key"}
Keys == LastKeys \cup ListKeys

\* Lines may have the signs and the names of the settings.
ASSUME WordsAssumption == {"SP", "EQ", "HASH"} \cup Keys \subseteq Words

\* The first position of one of the words in a line, 0 without one.
FirstOf(words, line) ==
  IF \A i \in DOMAIN line : line[i] \notin words THEN 0
  ELSE CHOOSE i \in DOMAIN line :
         line[i] \in words /\ \A j \in 1..i - 1 : line[j] \notin words

Trimmed(line) ==
  LET text == {i \in DOMAIN line : line[i] # "SP"}
  IN IF text = {} THEN <<>>
     ELSE SubSeq(line, CHOOSE i \in text : \A j \in text : i <= j,
                       CHOOSE i \in text : \A j \in text : j <= i)

NoSetting == [key |-> <<>>, value |-> <<>>]
SettingOf(line, cut, after) ==
  [key |-> Trimmed(SubSeq(line, 1, cut - 1)),
   value |-> Trimmed(SubSeq(line, after, Len(line)))]

OnlySpaces(untrimmed) ==
  LET line == Trimmed(untrimmed)
  IN IF FirstOf({"SP"}, line) > 0
     THEN SettingOf(line, FirstOf({"SP"}, line), FirstOf({"SP"}, line))
     ELSE [key |-> line, value |-> <<>>]

\* "key value" or "key = value"; an equals sign anywhere makes it the second.
ParseConfigLine(untrimmed) ==
  LET line == Trimmed(untrimmed)
      equals == FirstOf({"EQ"}, line)
      space == FirstOf({"SP"}, line)
  IN IF line = <<>> \/ Head(line) = "HASH" THEN NoSetting
     ELSE IF equals > 0 THEN SettingOf(line, equals, equals + 1)
     ELSE IF space > 0 THEN SettingOf(line, space, space)
     ELSE [key |-> line, value |-> <<>>]

\* The last value wins, except for the keys that may be given more than once.
NoConfig == [key \in Keys |-> <<>>]
WithSetting(config, setting) ==
  [key \in Keys |->
     IF setting.key # <<key>> THEN config[key]
     ELSE IF key \in LastKeys THEN setting.value
     ELSE IF setting.value = <<>> THEN config[key]
     ELSE Append(config[key], setting.value)]

ReadConfig(lines) ==
  LET read[n \in 0..Len(lines)] ==
        IF n = 0 THEN NoConfig ELSE WithSetting(read[n - 1], ParseConfigLine(lines[n]))
  IN read[Len(lines)]

\* A file that is not there is an empty one; one that cannot be read is an error.
Unreadable == <<"unreadable">>
Config(file) == IF file.there THEN ReadConfig(file.lines) ELSE NoConfig

\* The environment, the file, and what is found, in this order.
Preferred(environment, file, key, found) ==
  IF environment # <<>> THEN environment
  ELSE IF ~file.readable THEN Unreadable
  ELSE IF Config(file)[key] # <<>> THEN Config(file)[key]
  ELSE found

-----------------------------------------------------------------------------
(* What a reader of the documentation expects of a file with the settings  *)
(* [key, value], whatever lines they are written in.                       *)
LastOf(settings, key) ==
  LET given == {i \in DOMAIN settings : settings[i].key = key}
  IN IF given = {} THEN <<>>
     ELSE settings[CHOOSE i \in given : \A j \in given : j <= i].value
AllOf(settings, key) ==
  LET all[n \in 0..Len(settings)] ==
        IF n = 0 THEN <<>>
        ELSE IF settings[n].key = key /\ settings[n].value # <<>>
        THEN Append(all[n - 1], settings[n].value)
        ELSE all[n - 1]
  IN all[Len(settings)]
Meant(settings) ==
  [key \in Keys |-> IF key \in LastKeys THEN LastOf(settings, key) ELSE AllOf(settings, key)]

\* A line with a setting in one of the two forms: the key, spaces with or without an
\* equals sign among them, and the value, which neither begins nor ends with a space;
\* without the sign there is none in the value either.
AllSpaces(line, from, to) == \A i \in from..to : line[i] = "SP"
IsValue(value) == value = <<>> \/ (value[1] # "SP" /\ value[Len(value)] # "SP")
Between(line, first, value, last) ==
  \/ /\ AllSpaces(line, first, last) /\ \A i \in DOMAIN value : value[i] # "EQ"
     /\ value = <<>> \/ first <= last
  \/ \E i \in first..last :
       line[i] = "EQ" /\ AllSpaces(line, first, i - 1) /\ AllSpaces(line, i + 1, last)
Writes(line, setting) ==
  /\ setting.key \notin {"SP", "EQ", "HASH"} /\ IsValue(setting.value)
  /\ \E k \in DOMAIN line, v \in 1..Len(line) + 1 :
       LET end == v + Len(setting.value)
       IN /\ k < v /\ end <= Len(line) + 1
          /\ AllSpaces(line, 1, k - 1) /\ line[k] = setting.key
          /\ Between(line, k + 1, setting.value, v - 1)
          /\ \A i \in DOMAIN setting.value : line[v + i - 1] = setting.value[i]
          /\ AllSpaces(line, end, Len(line))

\* An empty line, or one that begins with something that is no key: a comment.
SaysNothing(line) ==
  \/ AllSpaces(line, 1, Len(line))
  \/ \E k \in DOMAIN line :
       AllSpaces(line, 1, k - 1) /\ line[k] # "SP" /\ line[k] \notin Keys

\* A file whose settings are written in this order, with anything between them that
\* says nothing.
WrittenIn(lines, settings) ==
  \E at \in [DOMAIN settings -> DOMAIN lines] :
    /\ \A i, j \in DOMAIN settings : i < j => at[i] < at[j]
    /\ \A i \in DOMAIN settings : Writes(lines[at[i]], settings[i])
    /\ \A n \in DOMAIN lines : (\A i \in DOMAIN settings : at[i] # n) => SaysNothing(lines[n])
=============================================================================
