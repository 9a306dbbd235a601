# Verification of pivzavr

`pivzavr` signs and verifies data with a PIV smart card or a PKCS#11 token, and
manages the PIN, the PUK, the management key and the data objects of a card. It
keeps no state of its own between two runs except the trust store. What is hard
about it is that nearly all of its state belongs to others: the counters and
keys are on a card that several processes and programs share without a
transaction, the entries are in the hands of a user who answers dialogs, the
trust anchors are in a file that other processes replace, and messages and
documents come back from programs that encode and change them.

This directory holds TLA+ modules of those parts, TLC configurations that check
small instances of them, and TLAPS proofs for instances of any size.
Paths below are relative to the repository (`pkg/...`, `cmd/...`).

- [Inventory](#inventory)
- [What is modelled](#what-is-modelled)
  - [The PIN and the PUK](#the-pin-and-the-puk)
  - [The management key](#the-management-key)
  - [The trust store](#the-trust-store)
  - [Verification](#verification)
  - [One invocation](#one-invocation)
  - [The dialog](#the-dialog)
  - [Signed messages](#signed-messages)
  - [Signed documents](#signed-documents)
- [Runs](#runs)
- [Proofs](#proofs)
- [Where the code and its documents disagree](#where-the-code-and-its-documents-disagree)
- [Not modelled](#not-modelled)
- [Plan](#plan)

## Inventory

| Component | State | Operations | Talks to | What is hard | What makes it correct | Modules |
|---|---|---|---|---|---|---|
| PIN and PUK commands (`auth.go`, `access.go`, `unlock.go`, `reset.go`, `prompt.go`) | the entries of the running command | `secretPrompt`, `askNewSecret`, `--set-pin`, `--set-puk`, `--unlock`, `verifyPIN`, login before a signature, `--reset` | the applet, the PKCS#11 module, pinentry | counters that others change between dialogs; the last attempt; a PIN that is verified already; the loop that blocks a reference | what is installed was confirmed; only a possible secret costs an attempt; "blocked" is true; a reset can always be done | `CardSecrets` |
| Management key and data objects (`access.go`, `pivman.go`) | what was read from the card at the start of the command | `--set-management-key` with `--protect` and `--random`, `--set-chuid`, `--set-ccc` | the applet, pinentry | three writes that belong together; values that are stale when they are used; other programs that select their application | the key is always kept by somebody; no write is refused half way; what was reported as stored stays | `ManagementKey`, `KeyCustody`, `WatchedObject` |
| Trust store (`pkg/config/trust.go`) | the file `trust.bin` and temporary files | `--update-trust`, the first download of a verification, reading | the sources (HTTP and files), other processes, the disk | kills, failed writes, power failures, races of updates and readers | complete or absent; used as a whole; commands end | `TrustStore`, `AtomicTrust` |
| PIV applet commands (`piv.go`, `piv_card.go`, `tlv.go`, `chuid.go`) | none; the card holds the state | APDUs, chaining, status words, the signature with the card authentication key | PC/SC | 63xx and 63Cx counters, responses in parts | status words are told apart; a chained answer is whole | actions of the card modules |
| Card selection and PC/SC (`piv.go`, `piv_card.go`, `pkg/pcsc`) | context and connection | list readers, match a CHUID, connect, disconnect | the PC/SC service | a card exchanged between matching and connecting | the card that is changed is the card that was named | `CardSelection` |
| PKCS#11 tokens and modules (`token.go`, `token_pkcs11.go`, `pkg/pkcs11`, `config/module.go`) | open modules and sessions | find modules, list tokens, select by serial number, login, sign | the modules, the card behind them | one card in two modules; one library under two paths; cards that are moved meanwhile | a card is listed once; the selected token is the only one; modules are released, and only once | `Tokens`, `Signing` |
| Pinentry client (`pkg/pinentry`, `utils.go`) | the child process and its pipes | start, options, `GETPIN`, `BYE`, a second try | the pinentry process | a process that dies, is cancelled or does not answer; lines in any order; escapes | the caller is told what the user did; the process ends | `Pinentry`, `Dialog` |
| Verification (`verify.go`, `certcheck.go`, `ocsp.go`, `embedded.go`) | none | three attempts with different anchors, constraints, revocation | the trust store, the system's certificates, OCSP responders | unreachable responders, answers in any order, and old ones | no good signature from a revoked or unfit certificate | `Verification` |
| Signing and output files (`sign.go`, `signature.go`, `cmd/pivzavr/files.go`) | the output file | sign, time stamp, embed, write | token, time stamp service, file system | the certificate and the key are read at different times; an output that is created before the signature | the certificate belongs to the key; what is reported was written | `Signing` |
| Status protocol (`status.go`) | the descriptor | `SIG_CREATED`, `GOODSIG`, `TRUST_*`, `ERRSIG`, ... | Git and other callers | consistency of several lines, and a descriptor that only signing sets up | the lines agree with the outcome | `Verification`, `Signing` |
| CMS and time stamps (`pkg/cms`) | none | encode, transcode, decode, verify, time stamp exchange | verification, signing | order and encoding of what is signed; which signer; old answers of the service | what is accepted was signed; stamps belong to their signature | `CMS`, `DER`, `SignedMessage` |
| Embedded signature formats (`pkg/embed`) | none | XML, ZIP and PDF containers | verification, signing | names, duplicates, earlier signatures, canonical form, escapes | what is signed is accepted, and changes are noticed | `XmlTree`, `XmlSignature`, `Archive`, `JarFile`, `OfficeFile`, `PdfFile`, `Document` |
| Configuration (`config.go`, `pinentry_paths.go`, `module.go`) | none | read settings | every component | two forms of a line, repeated settings | settings are read as they were written | `Configuration` |
| Command line (`cmd/pivzavr/main.go`, `files.go`, `usage.go`) | the options | choose one command | every component | options that exclude each other | exactly one command runs, on the files that were named | `CommandLine` |
| Presentation and translation (`format.go`, `print.go`, `pkg/i18n`) | none | wording | every component | - | - | - |
| GOST algorithms (`pkg/gost`) | none | Streebog, GOST R 34.10 | CMS | wide arithmetic | test vectors | - |

A command that talks to the card opens a PC/SC context, connects in shared mode,
selects the PIV application and sends one APDU after the other; it never begins a
transaction. Between two APDUs it may open a dialog of pinentry and wait for
minutes. Its PKCS#11 module does the same over a connection of its own. This is
why the grain of the card models is **one action for each APDU and one for each
dialog**, with the program's reaction to the answer in the same action: nothing
that another process does can be seen in between.

## What is modelled

Four modules are composed with the rest by EXTENDS: `Signing` extends
`CardSelection`, which extends `Tokens`, which extends `CommandLine`; `Pinentry`
extends `Configuration`; `SignedMessage` extends `CMS` and `DER`; `Document` extends
the formats, and `XmlSignature` and `JarFile` extend `CMS`. `CardSecrets`,
`ManagementKey`, `TrustStore` and `Verification` stand for themselves, and are what
the single steps of `Signing` that name them abstract from.

A module also defines broken variants of some of its operators, each above the
operator it is a variant of: a dropped comparison, a boundary that is off by one,
a missing reset. They are used nowhere; put in the place of the operator they
make a property fail, which shows that the property depends on it.

### The PIN and the PUK

`CardSecrets` has the six commands that present a PIN or a PUK, for a set `Procs`
of processes on one card.

State of the card: `secret` and `tries` for both references and `pinVerified`.
State of a process: `pc` (the next step), `cmd`, the entries `typed`, `fresh` and
`again`, `shown` (the count the open dialog shows), `left` (the local variable of
`blockReference`) and `result`.

| Action | Code |
|---|---|
| `Start`, `Open` | the dispatch of a command; `findPIVReader` with its SELECT |
| `CountFirst` | the count that is read before the first dialog |
| `Show`, `Ask` | one round of `secretPrompt` |
| `AskNew`, `AskAgain` | `askNewSecret`, and the single entry of `--unlock` |
| `Cancel` | `pinentry.ErrCancelled` and every other error of a dialog |
| `Send` | CHANGE REFERENCE, VERIFY, `C_SetPIN` as RESET RETRY COUNTER and `C_Login`, with what `secretPrompt` makes of the answer |
| `Recount` | the count that is read after a rejected secret |
| `Deauthenticate`, `BlockPin`, `BlockPuk`, `ResetApplet` | `cardReset` and `blockReference` |
| `Kill` | the process is killed |

A failure of the transport is an alternative of every action that uses it, before
or after the card has carried out the command. `ChecksVerified` and
`Deauthenticates` are two kinds of cards that `cardReset` is written for: those
that compare a PIN that is verified already, and those that know the VERIFY which
clears the PIN state. An entry is abstracted to a member of `Secrets`, or to
`Malformed` for whatever `validatePIN` and `validatePUK` reject; the properties
tell nothing else apart. A reset blocks a reference with a secret that cannot be
right, so `BlockPin` and `BlockPuk` have no entry at all.

### The management key

`ManagementKey` has `--set-management-key` with all combinations of `--protect`
and `--random`, and `--set-chuid`/`--set-ccc`, which write an object and read it
back. State of the card: `mgmKey`, `stored` (the object `5FC109`), `pivman` (the
flag and the salt of the management data), `object`, the security status
`authenticated` and `pinVerified`, the pending `witness`, and `selected`, which is
false while another application is selected. `job[p]` is the record of the local
variables of `setManagementKey`. `known` is not in the code: it is what users have
learned, and makes "the key is lost" a statement.

| Action | Code |
|---|---|
| `Start`, `Open`, `ReadData`, `ReadAlgorithm` | the session, `readPivmanData`, the key metadata |
| `EnterPin`, `ReadStored` | `verifyPIN`, `protectedManagementKey` |
| `AskKey`, `Witness`, `Respond` | `askManagementKey` and the two halves of `cardAuthenticate`, once in the prompt and once in the command |
| `NewKey` | `--random`, or `askNewManagementKey`; then the PIN a new stored key needs |
| `SetKey`, `Store`, `Update`, `Report` | the three writes of `setManagementKey` and what `main` prints |
| `PutObject`, `ReadBack` | `setObject` |
| `Interrupt`, `OtherProgram` | a kill or a lost command; another program that selects its application |

`verifyPIN` and `askNewSecret` are single actions here because `CardSecrets` is
about them: what this module needs of them is that they end with a verified PIN or
end the command. Keys are model values with an algorithm; lengths and encodings
are left out. A generated key or object is one that nobody has seen (`Unused`).

`KeyCustody` is the abstract specification: the card has a key, a keeper is the
user, the card or nobody, and a command replaces both in one step. The mapping
reads the old key and keeper while a command is between its writes (`Abstract` and
`ImplementsKeyCustody` in `ManagementKey`).

`ReadBack` compares the object and reports it in one step, since nothing that others do can be
seen between the answer of the card and the comparison. What a user relies on is more than that
comparison: the value that was reported is on the card afterwards. `WatchedObject` adds the
history that says so: `confirmed`, the value of the last command that succeeded, and
`unconfirmed`, the values of those that failed or were interrupted, which the card may have too.

### The trust store

`TrustStore` has `--update-trust` and the verification that needs the store,
including the first download. State: `published` (what the sources hold, which may
change at any time), the file `store`, what of it is on the disk (`durable`), a
temporary file for each process, the progress of the download (`next`, `tried`,
`got`) and `used`, the anchors a verification works with.

| Action | Code |
|---|---|
| `Read` | `readTrust` and `decodeTrust`, and the fallback of `loadTrustAnchors` |
| `Fetch` | one attempt for one source: `Obtain`, `Retry` (`downloadFile`), `Skip` or `Abandon` (`downloadTrustCertificates`, `downloadTrustPublicKeys`) |
| `CreateTemp`, `Write`, `Rename` | `writeTrust` |
| `Publish` | a source changes |
| `Kill`, `Damage`, `PowerFailure`, `Sync` | a killed process; a user or a disk that edits or removes the file; a power failure and the write-back of the operating system |

The store is abstracted to the version of each source that is in it. Encoding and
checksum are abstracted to `Damaged`: a file that does not decode. The program does
not sync the file before it renames it; therefore a power failure may bring back
the file on the disk, or leave a name without data. The attempts of the operating
system to write it back are `Sync`, which may happen at any time or never.

`AtomicTrust` is the abstract specification: a complete store replaces another in
one step, and a verification uses a complete store or the certificates of the
operating system. The refinement mapping is the identity on `store` and `used`.

### Verification

`Verification` has `--verify` from the first byte of the signature to what is
printed, for signatures in CMS files and signatures embedded in documents. A
behaviour is one command; `Init` chooses its request, and the command stops when
it is done.

The request is `form`, `signature`, `ownCard` (the slot has a readable self-signed
certificate), `required` (`require-ocsp`) and `named` (the responders of the
certificate); `Configured` are those of the settings. A certificate or a signature
is abstracted to what the code finds out about it: a signature is the sequence of
its signers, and a signer is the set of what is true of it (`Traits`), how each pool
of CA certificates vouches for it (`anchor`: not at all, through an issuer, or as a
root itself) and which pools vouch for its time stamp. State of the command: `pc`,
the pool it was given (`anchors`), `kind` (the `trustKind`), the position of the
next responder, `answers`, and what it reports: `lines` (the status lines), `printed` (whether
"Good signature" is printed, and what the chain of trust says of its anchor), `warned` and
`result`. `statusFile` is whether there is a descriptor for status lines, which nothing sets up
in this command: `Emit` writes none of them.

| Action | Code |
|---|---|
| `Read` | `VerifySignature` and `VerifyEmbedded` up to the trust anchors |
| `Load` | `loadTrustAnchors`, whose outcomes `TrustStore` explains |
| `TryCA`, `TryCard`, `TryKey` | the attempts of `verifyAttached`, `verifyDetached`, `verifyFallback` and `verifyEmbeddedSignature`, each a whole `SignedData.verify` |
| `Check` | `verifyChains` up to `chainIssuer` |
| `Servers`, `Ask`, `Policy` | `checkRevocation`, one `queryOCSPResponder` each, `applyRevocationPolicy` |
| `Report` | `warnTrustFallback` and `reportSignature` |
| `Learn`, `Lapse` | a responder learns of the revocation; the answers from before it expire; not steps of the program |

The configuration file is read twice, in `Servers` and in `Policy`, and either can
fail. A request has no nonce (`ocsp.go:74`), so a responder that has learned of the revocation, or
somebody in its place, may give an answer from before it, which is accepted until its
`NextUpdate`, or for seven days (`validateOCSPResponse`): `Responses` has "good" until `lapsed`.
`Lapse` needs that all responders have learned, since one that has not makes new answers. `knew` is
not in the code: it is whether the old answers had expired when the responders were first needed,
so that "too late to know" is told from "not looked at".
A card certificate that issued the certificate of an embedded signature, other than
itself, is left out: the card of `selfSignedCardCertificate` vouches for itself only.

### One invocation

`Signing` is one invocation of the program from its options to its exit. `Init`
chooses a scenario: the command line, what is installed (`world`), the cards in the
readers, the files there are, and how often a card is moved. The state of the
environment is `at` (the card in each reader) and `fs`; the rest is the state of the
program: the modules and which libraries are initialized (`ctx`, `live`), the listing
of the tokens, the `token`, the search for its card over PC/SC, and the progress of a
signature.

| Module | What it has | Code |
|---|---|---|
| `CommandLine` | functions: which invocations are refused, the command, the encoding and the file of a signature, what `--verify` reads | the checks and the dispatch of `main.go`, the names of `signature.go` and `files.go` |
| `Tokens` | `Parse`, `FindModules`, `OpenModule`, `CountSlots` and `FillSlots` (the two calls of `C_GetSlotList`), `ReadTokenInfo`, `ReadChuid`, `Choose`, `Release`, `Describe`; `Move` is not a step of the program | `openModules`, `tokenLocations`, `TokenHandleWithSerial`, `DeviceInfos`, `Destroy` |
| `CardSelection` | `Search`, `MatchReader`, `Matched`, `Connect`, `CarryOut` | `findPIVReader`, `openCardSession`, `resetPIV`, `readPIVRetries` |
| `Signing` | `OpenInput`, `CreateOutput`, `ReadCertificate`, `ReadMessage`, `LoadSigner`, `OpenSession`, `Login`, `SignDigest`, `SignOverPcsc`, `BeginSigning`, `AddTimestamps`, `EmitSigCreated`, `WriteOutput`, `Verify` | `Sign`, `SignEmbedded`, `pkcs11Signer.Sign`, `writeSignatureOutput`, `writeEmbeddedSignature` |

A card is a model value and its certificate has its name; `world.owner` is the user
in the certificate and `world.key` the card whose key the slot really holds. A
signature is the record of what is in it and what it is over. `moved` is not in the
code: it remembers what the program was about to do when somebody moved a card, so
that a property can say which exchanges it allows for.

`RightCard` and `SignerOfTheCertificate` are stated with the windows that the code leaves
open as their conditions. `findPIVReader` disconnects before the session connects again, so a
card that is exchanged in the matching reader in between is reached instead; CMS
compares the key with the certificate when it is loaded, and the session for the
signature is opened after that; an XML signature does not compare them. In every other
order of steps and moves the right card is used.

### The dialog

`Pinentry` has one question: the choice of the program, its start, the greeting and
the commands, the answer, `BYE`, the end of the process, and a second process when the
first went down. The two sides are separate: the variables of the program (`pc`,
`todo`, `pin`, `outcome`, `runs`, `answer`), two pipes (`toPinentry`, `toClient`), and
the process (`proc`, `greeted`, `shown`, `dialog`) with its user (`entered`).

| Action | Code |
|---|---|
| `Start`, `Reap` | `newClient` and `close`, with the decision of `getSecret` and `isPinentryDown` |
| `ReadOK`, `Configure`, `SkipLine` | `configure`, `writeCommand`, `readOK`, `readLine` |
| `ReadAnswer` | the loop of `getPIN` |
| `SayBye`, `ReadFarewell` | `close` |
| `Greet`, `Obey`, `Chat`, `UserAnswers`, `Deliver`, `Exit`, `Crash`, `Hang` | the pinentry process, which is not part of the repository |

A text is a sequence of characters, because the escapes of the protocol are what can
go wrong with it. `Dialog` is the abstract specification: the user answers, the dialog
may be lost and shown again, and the caller is told what the user did or that it
failed. `Cancel` and `Ask` of `CardSecrets` rely on exactly this. `Configuration`
reads the file that names the program; its lines are sequences of words, of which `SP`,
`EQ` and `HASH` are the space and the signs. `Writes` is what it means that a line has a
setting in one of the two forms, and `Meant` what a file with such lines says; neither
uses the parser.

### Signed messages

`CMS` has the functions on signed data: attributes and their order, `AddSignerInfo`,
`FindCertificate`, `SignedMessageFor`, `Verify`, and the matching of time stamps. A
digest is the pair of its algorithm and the octets it is of, a signature is a key and a
digest: two are equal exactly if the octets are. The octets of the SET of attributes are
`SetOctets`, a constant; in the runs it gives octets, which a content may be as well, and nothing
in a signature tells the two apart (`SignedMessageFor` returns octets, as `cms/verify.go` does).
`DER` transcodes BER octets, which it has
as octets, since nesting, lengths and ends are what the code decides on. `Reading` is one
round of the recursion of `transcodeElement` and its two loops, for all their arguments at
once, and `Transcoding` as many rounds as there are octets: a recursive function on the
naturals, which the proofs can reason about.

`SignedMessage` is the life of a message: `Sign` (also twice), `Detach`, the time stamp
exchange (`StartStamping`, `Ask`, `Receive`, `AttachStamps`), `Close` with the
certificates that are kept, `Send` in one of the encodings there are or damaged, and `Read`. An
encoding has each length in any form and the content in one piece or two. The
service may repeat an old answer, refuse, or send a token of another type or one that
is not its own. A damaged message has other octets, certificates or attributes, none at all, or
the SET of its attributes in the place of its content. `made` is not in the code: it is what each
key has signed, as a content and as octets. Chains of certificates are left to `Verification`.

### Signed documents

`Document` takes a file of one of the six formats through `Sign` (also twice, by two
signers), `Edit` by other programs and `Verified`. The formats are functions on what
their scanners deliver: trees (`XmlTree`, `XmlSignature`), archives as sequences of entries
(`Archive`, `JarFile`, `OfficeFile`), and PDF files as sequences of objects, tables and
signature strings whose positions stand for offsets (`PdfFile`). Everything that is
asked of the name of an entry is in the constant `NameInfo`, so that names in other
cases are members of a small set. `WriteCanonical` is the canonical form of the code
and `ExclusiveForm` the one of the specification.

A text in the tree of an XML document is what it means, and one in the file is as it is written:
`WrittenAs` is `escapeText`, with which `Serialize` writes a tree back, and `ReadAs` is what the decoder
makes of it: of a reference the character, of a literal carriage return a line feed. A text with
`]]>` is not read at all. `SignXML`, `SignXMLParts` and the parts of an office document that are
rewritten all go through `Serialize`.

`Edit` changes every node, entry, and object in turn, removes entries and objects,
adds entries, and appends an update to a PDF. In an XML document it changes the namespaces
that the root declares and those that its child elements declare; the latter go unnoticed, as the form
that is hashed does not have them, and `ChangeIsNoticed` says so (`DeclaredAtRoot`).

An archive with an entry called `META-INF`, without a slash, ends the program (`BeyondName`,
`VerifyCrashes`): it is neither signed nor verified, and the verdict is "crash".

## Runs

`MC*.tla` define the instances; the refinement mappings are in the detailed modules.
`WatchedSecrets` is `CardSecrets` with a history variable, `alone`, that remembers which
commands met no other; `WatchedObject` does this for `ManagementKey` (in `key_custody` as well, where no object is
written and the history never changes). Each `.cfg` is one question.

| Run | Instance | Shows |
|---|---|---|
| `card_secrets` | two processes, all six commands, 2 attempts, one failure or kill, a card that does not compare a PIN it has verified and knows the VERIFY that clears it, fairness | `InstalledAsConfirmed`, `AttemptsOnlyForSecrets`, `BlockedReportIsTrue` under every interleaving; `UndisturbedResetSucceeds`: a reset that meets no other command and no failure succeeds from every state the others left; `ProgramStepsEnd`: the program reaches a dialog or ends, also when the other process refills the counter that a reset empties |
| `key_custody` | one process, three replacement keys, two interruptions | `Custody`: with no interruption the key is kept; `StoreCannotBeRefused`; `ImplementsKeyCustody` |
| `object_readback` | two processes, four values, other programs, one ignored write or interruption | `ConfirmedStays`: a value that was reported as stored stays until another command writes |
| `trust_processes` | two processes, two downloaded sources of which one is required, two attempts, one fault, fairness | `NeverPartial`, `NoNeedlessFallback`; `CommandsEnd`: also with sources that fail for ever |
| `trust_disasters` | two processes, one source is a file, two faults, disasters | `StoreIsComplete`, `ImplementsAtomicTrust` |
| `verify_verdict` | all signers and pairs of unstamped signers, three responders of which one is named twice, old answers that expire, fairness | `GoodIsDeserved`: the verdict, the anchor that is named, the warning and the result say what is true; `RefusalHasReason`: no order of anchors and no silent responder costs a verdict; `RevocationIsDecided`; `VerificationEnds` |
| `sign_command` | three cards, two readers, three libraries, 15 installations, every form of the command line, one move of a card at any step | `ModulesReleased`, `OnlyCard`, `ListedOnce`, `RightCard`, `SignerOfTheCertificate`, `SignedAsAsked`, `ReadsBack`: what a signature was written to is what `--verify` takes |
| `card_dialog` | 11 entries, 2 prompts, 6 configurations, 2 lines without an answer, 2 crashes, hangs, fairness | `DialogShowsThePrompt`, `NoProcessLeft`, `AskedAgainAfterCrash`, `SettingsAreRead`, `ImplementsDialog`, `Answered` |
| `signed_message` | two contents, three signers, two signatures, three requests, the messages of other programs, of which one has the SET of another's attributes as its content, all encodings | `StampIsOurs`, `StampedTogether`, `ReadsBack`, `AcceptedWasMade` |
| `signed_document` | 21 files of all formats, two signers, two signatures, one edit | `SignedIsAccepted`, `ChangeIsNoticed`, `ContentKept`, `SignedOnce`, `LinesFit` |
| `canonical_form` | as `signed_document` | violation of `CanonicalFormIsExclusive` |
| `reset_other_card` | one token without a CHUID, one PIV card | violation of `ResetHitsTheToken` |

Why the bounds are enough.

- *Card and store.* Two processes: every hazard is between
  one process and somebody else, and the card and the file keep no trace of who
  changed them, so a third process adds no state that the second cannot produce. Two
  secrets distinguish right from wrong and old from new; the factory PIN is one of
  them. Two attempts are the fewest where an attempt can be rejected and not be the
  last. Three keys are an old, a new and a third one that another user knows; four
  values are those of the object, of two processes and a fresh one. Two sources are a
  required and an optional one; two attempts are a failed and a last one. One fault
  puts a failure at each step, two put a second one into the recovery from the first.
  With unlimited entries the number of commands is not bounded: the runs explore any
  sequence of them.
- *Verification.* One signer takes every combination of its traits that is not
  meaningless, because `verify` looks at signers one by one; two are enough to have a
  good and a bad one in either order. Three responders give one that decides, one before
  and one after it, and two lists that overlap.
- *One invocation.* Two readers hold the card that is meant and another one; three
  cards are a YubiKey, another PIV card and a token that is none. One move, anywhere,
  is what a window of two steps needs; a second one could only undo it or bring the
  third card. An invocation ends, so nothing in it is repeated.
- *The dialog.* Entries of up to two characters, and of the longest that looks like an
  escape, put a percent sign at every place. Two crashes let both processes go down.
- *Messages and documents.* Two signatures and two signers are one before and one after
  another. Three requests allow an answer to be repeated twice. `LineLimit` is 5 in
  place of 72 octets, with names that are shorter, longer, twice as long, and have a
  character across the boundary. The files are the ones that the code makes decisions
  on: with and without what it looks for, in other cases, twice, and signed before.

The proofs below do not depend on these bounds.

Fairness is weak fairness of `Program(p)` (`Program` in `Verification` and `Pinentry`),
separately for each process, and of `Process` in `Pinentry`: a process that does not
wait for its user keeps running, a download has a time limit (30 seconds in `trust.go`
and `ocsp.go`), a command to the card is answered, and a pinentry that does not hang
answers, as its own timeout makes it do. Nobody has to start a command or cancel one, no fault
has to happen, and the dialogs of `CardSecrets` need never be answered. Weak fairness is
enough because no step of a process is disabled by what other processes do.

Deadlock is checked in the runs of the card and of the store: in no state are all
processes stuck. A verification, an invocation, a dialog, a message and a document
really come to an end; that the first and the third do not stop earlier is
`VerificationEnds` and `Answered`.

## Proofs

`tlapm` checks the following for every value of the constants that the named
assumptions allow: any set of processes, of secrets, keys or sources, any number
of attempts and faults, any texts, command lines, installations and messages.

| Module | Theorem | Needs |
|---|---|---|
| `CardSecretsProofs` | `TypeCorrect`, `InstalledCorrect`, `AttemptsCorrect`, `BlockedReportCorrect` | the assumptions of `CardSecrets` |
| | `UndisturbedResetCorrect` | a card that compares every PIN, or knows the VERIFY that clears the PIN state |
| `ManagementKeyProofs` | `TypeCorrect`, `ConfirmedStaysCorrect` | the assumptions of `ManagementKey` |
| | `CustodyKept` | one process, no other program, no ignored writes |
| | `KeyCustodyImplemented` | one process, no other program, no ignored writes |
| | `StoreNotRefused` | one process, no other program |
| `VerificationProofs` | `TypeCorrect`, `GoodIsDeservedCorrect`, `RefusalHasReasonCorrect`, `RevocationIsDecidedCorrect` | the assumptions of `Verification` |
| `TrustStoreProofs` | `TypeCorrect`, `StoreComplete`, `NeverPartialCorrect`, `NoNeedlessFallbackCorrect`, `ImplementsAtomicTrustCorrect` | the assumptions of `TrustStore` |
| `PinentryProofs` | `EscapedTextArrives` | that texts are made of `Characters` |
| | `TypeCorrect`, `DialogIsComplete`, `ProcessIsGone`, `OnlyACrashAsksAgain`, `DialogIsImplemented` | `TextsAssumption`, `BoundsAssumption` |
| | `SettingsAreUnderstood` | `FilesAssumption`, `WordsAssumption` |
| `SigningProofs` | `ModulesAreReleased`, `RightCardIsReached`, `SignerIsTheOneCertified`, `SuccessIsWhatWasAsked`, `ACardIsListedOnce`, `ItsOwnNameIsEnough` | `CardsAssumption`, `ScenariosAssumption` |
| | `TheTokenIsTheOnlyCard` | and `SerialsAssumption` |
| `SignedMessageProofs` | `StampsAreOurs`, `AllStampedOrNone`, `OnlyWhatWasMade` | `OthersAssumption`, `EncodingAssumption` |
| | `WhatIsSentIsRead` | and `MessagesAssumption`, `CertificatesAssumption`, `NestingAssumption`, `DepthAssumption` |
| `SetInduction` | `LeastElement`, `GreatestElement`, `SetInduction`, `Recursion` | nothing |

The assumptions are facts of the environment and not of the program. A text is made of
characters, the escapes and their digits among them (`TextsAssumption`). A configuration file
has been written with its settings: each is on a line of its own in one of the two forms, where
a value without the equals sign before it has none in it either, and every other line is
empty or begins with something that is no key (`FilesAssumption`). The invocation has
finitely many options; what is signed is called by the name of its file, which is not
empty; a path that is loaded leads to a library of which the instance says what it
reports (`ScenariosAssumption`); and two cards never report one serial number
(`SerialsAssumption`, which only the theorem on the only card uses: the program takes
tokens of one serial number and no CHUID for one card). Another program, too, makes its
messages as the standard asks for (`OthersAssumption`): it signs the content of the message
(`WellSigned`), names a signer as no other certificate of the message is named
(`WellNamed`), and stamps that signature if it stamps any (`WellStamped`). Two lists of
attributes have one encoding only if they are equal (`EncodingAssumption`); that no content
is such an encoding is *not* assumed. The properties are
about what becomes of a message on its way, and would blame `Read` for a foreign signer who
signed something else. That a message is read back needs contents whose length fits
into four octets, which is all that `readLength` takes (`MessagesAssumption`); an authority
that gives a serial number to one key only (`CertificatesAssumption`), because signers
are found by it; and a limit of the nesting that a message stays below
(`NestingAssumption`, at least 3, where the code has 64). The types of the four newer modules are part of the invariants, as far as the
arguments need them.

The arguments:

- **CardSecrets.** What a step installs is decided dialogs earlier, so the
  properties need an invariant about what a process holds when it reaches `send`:
  `Entered(p)` says that then `typed` is not `Malformed`, that a command which
  replaces a secret has a valid `fresh` equal to `again`, and that `--unlock` has a
  valid `fresh` from its first dialog on. `IInv` is the types and `Entered` of
  every process. It speaks of one process at a time and of nothing on the card,
  which is why others cannot break it. `UndisturbedResetSucceeds` is about the opposite,
  a command that nobody disturbs. Its invariant (`AInv`) is that no other process runs and
  that what `blockReference` has seen of a counter is what the counter is, so each
  wrong secret takes one attempt and the loop goes on; that the PIN stays at 0
  while the PUK is blocked; and that a process which does not run has seen no count, which
  is what the reset starts with, whatever happened before.
- **ManagementKey.** Types first (`TInv`); they include that no factory key is
  stored. `ConfirmedStays` is inductive together with them: a value that is written is about to be
  read back, a command that reads another one fails and leaves the object to whoever wrote it, and
  one that was killed before leaves its value unconfirmed (one lemma for each kind of step). For
  `Custody`,
  an invariant (`CInv`) says for each step of the only process what of its job agrees
  with the card: the data it read are still there, the current key is the card's key
  after it was proved, the new key is the card's key in the window, and the flag and
  the object are old or new according to the writes that are done. `Kept` joins it
  with what users know, and an interruption releases all of it.
  `StoreCannotBeRefused` rests on a smaller invariant (`AInv`) that interruptions do
  not release: what is verified at each step of a session. The refinement uses `AInv` and
  that what the command has read is still there (`Found`): `Report`, the last step of a
  replacement, replaces the key and its keeper together, `Interrupt` is the interruption,
  and every other step leaves both as they are.
- **TrustStore.** `IInv` is the types and four facts: a process that is past source
  *n* has every required source up to *n* (`Gathered`), the command and its step
  agree (`InOrder`), a temporary file that is renamed is complete and the two
  copies of the store are complete, missing or damaged (`FilesOK`), and a store is
  damaged or missing for a process that created it only for a cause
  (`Causes`). The refinement maps every step of a process to `Install`, `Consult`,
  `Forget` or a stutter.
- **Verification.** `IInv` says for each step what led to it: which anchors failed
  before this one (`Tried`), by which the signature was verified (`Trusted`), that the
  certificate was checked (`Checked`), which answers there can be (`Asked`), and that
  no good answer has come when the old ones had expired before the first responder was asked (`Known`).
  The verdict is
  then compared with `Genuine`, `VouchedBy` and `TrustedItself`, which are stated
  without the attempts: `NoAnchor` proves that the last refusal means that no anchor
  would have done, in whatever order. A command that is done changes nothing more.
- **Pinentry.** What arrives is what was sent because unescaping undoes the escapes, for
  every text. This is an induction over data: the library's induction theorems take
  an operator as a parameter, so `SetInduction` states the principle for the *set* of the
  lengths for which the claim holds, and the recursive functions of the model are shown to
  exist length by length (`EscapedForms`, `Meanings`). `IInv` has the types (`Scalars`, `Lines`), how a process that was
  told to leave is told from one that left (`Endings`), that the two sides take turns
  until the dialog opens (`Turns`), that a line which is not obeyed yet is still on its
  way (`Telling`), which answer is in the pipe once the dialog is closed (`Asking`), and that the
  program has heard what the user did (`Hearing`). `Asking` is the heart: lines without an
  answer may stand before each line of it, and a crash may cut it anywhere. In the refinement,
  `UserAnswers` is the answer of the user, a `Start` that runs pinentry again is the loss of
  a dialog, and the `Start` that gives up or the `Reap` at the end is what the caller is told.
- **Configuration.** A line is taken apart by positions: `TrimmedTo` and `TrimmedPart` say which
  part of a line is left between its spaces, `FormParsed` that the first equals sign or
  else the first space is the border of the key, `SettingParsed` that a line which was written
  in either form is parsed as its setting, and `NothingParsed` that a comment sets nothing.
  `FileIsRead` is an induction over the lines: those before a line are read as what the
  settings written on them mean. The host never changes (`HostStays`), so this is an invariant.
- **Signing.** `IInv` has a part for each question. `Modules` ties `live` to the contexts: a
  library is initialized exactly if one context that is open owns it. `Found` says which card
  was matched in which reader, unless it was disturbed, and `Reports` that what is said
  of a listed card is about one card.
  `Commanded` says which commands get to which step. `Written` follows the input from the file
  into the signature and the status lines, `Origin` what the output can be verified with;
  `Keys` follows the certificate, the session and the connection as long as nobody
  exchanges the card. `Listed`, the longest, is for `OnlyCard` and
  `ListedOnce`: in modules and slots that were looked at, every card is listed, or its key was
  seen already; keys are unique, and belong to the first module that reported them. Names come apart
  into what they were made of (`SignatureNameParts`, `SignedNameParts`), so a signature is
  found by its own name.
- **SignedMessage.** While stamps are fetched, those that have arrived belong to the first
  signatures in their order, the one that is asked for belongs to the next, and its nonce is
  recorded for that signature (`Fetched`); the message has either all of them or none
  (`Together`), because they are attached in one step at the end. For `AcceptedWasMade`,
  `Covers` says that each key made a signature over the octets it covers, as a content or as
  the SET of the attributes of one. Damage on the way
  replaces parts of the
  message; what is left of a signature that is accepted still covers the octets that are reported
  (`VerifiedIsCovered`).
  For `ReadsBack` a second invariant (`RInv`) says that every signature of the program is one
  that another program would accept too (`Prepared`): it covers the content, has the name of a
  certificate of its key, and its stamp is for it (`Finished` is the same once messages of others
  are among them). `SignatureIsWell` is where the order of the attributes counts: the
  program sorts them by their values and signs the set in ascending order of the whole
  encodings, and for the three attributes of a signature these are one order
  (`InAscendingOrder`, `InOrderAlready`). The other half is the transcoder. `Encodes(e, d, k)`
  says that wherever the octets `e` stand, the recursion answers `d` for them if *k* more
  levels of nesting are allowed and enough rounds are left; `PrimitiveRead`, `CompositeRead`
  and `OpenRead` go through the three kinds of an element, `LoopStops` and `LoopGoesOn` through
  the loops, `LengthRead` through the forms of a length. `MessageEncoded` puts them
  together for every encoding of a message, `Transcoded` says that the input is then
  rewritten to the distinguished one, `CutRead` that a content is joined
  again, and `WellVerifies` that such a message is verified.

The types are proved and not listed in a run: the theorem says more than an
instance. What is only model-checked:

- `VerificationEnds`, `ProgramStepsEnd`, `CommandsEnd` and `Answered`, because liveness
  under fairness is out of reach of the prover;
- everything in `XmlTree`, `XmlSignature`, `JarFile`, `OfficeFile`, `PdfFile` and
  `Document`, which use recursive operators on trees and lines, that the prover does not read.

## Where the code and its documents disagree

Two disagreements are runs of their own, which end in a counterexample:

1. **The form that an XML signature hashes is not the exclusive canonical form**
   (`canonical_form`). `writeCanonicalElement` hands the scope of the root to every
   descendant (`xmltree.go:421`), and `scopeOf` is called for the root only, so a
   namespace that is declared further down and used there is left out.
   `embed.go:21-23` says the form is `xml-exc-c14n`, as the specification requires. The
   program accepts its own signatures; others do not, and the namespace of such a
   prefix is not covered by the signature.
2. **A reset can hit another card than the token** (`reset_other_card`). A token without
   a CHUID, selected by its serial number, leaves the choice of the card to "exactly one PIV
   card is connected". The comment at `piv.go:157-159` says this "keeps a reset from
   hitting the wrong card"; the one PIV card may be another one.

The models show others, which follow from a reading of the actions named here:

- *A verification writes no status lines.* `SetupStatus` is called for signing only
  (`sign.go:116`, `embedded.go:48`), so `emit` and `emitf` return before they write
  (`status.go:179`, `status.go:190`). `verify.go:267-268` says that the status lines are
  emitted, and `README.md:193-195` and `README.md:705-707` that a signature is reported as
  `TRUST_ULTIMATE`. (`statusFile` and `Emit` of `Verification`: `lines` stays empty, and
  `GoodIsDeserved` is about what is printed.)
- *A certificate without any responder is accepted without a warning.*
  `applyRevocationPolicy` returns at `ocsp.go:264`; `README.md:698-701` promises a warning.
  (`Undetermined` of `Verification`.)
- *A generated key can get lost although it is stored on the card.* Between the new key
  (`access.go:445`) and its storage (`access.go:459`) another program can select its
  application; the write is refused and the key is never reported. `README.md:342` says a
  generated key that is not stored is reported, and `README.md:350` that a stored one "cannot get
  lost". (`OtherProgram` and `Store` of `ManagementKey`.)
- *A card can report a key it no longer holds.* The management data are read once, before
  the dialogs (`access.go:396`); a process that read "not stored" finds nothing to remove at
  `access.go:454` after another stored its key. `README.md:349` says otherwise. (`ReadData` and
  `Update`.)
- *What is written back as XML is not always what was hashed.* `escapeText` (`xmltree.go:561`)
  leaves a carriage return and `]]>` as they are. The first is read as a line feed, where the hash
  has `&#xD;` (`xmltree.go:461`), the second is not read at all, so a document with such a text
  is signed and then refused. The comment at `xmltree.go:559-560` says it escapes what may not
  appear literally. (`WrittenAs` and `ReadAs` of `XmlTree`; `SignedIsAccepted`, `ContentKept` and
  `CanonicalFormIsExclusive` are stated for documents without such a text, `Literal`.)
- *A damaged store is not reported.* `loadTrustAnchors` (`verify.go:425`) drops the error
  and goes on with the certificates of the operating system; `README.md:183` says such a
  store "is reported as invalid". (`Read` of `TrustStore`.)
- *The anchors of a fallback are used for the time stamp too* (`cms/verify.go:62`): a
  stamped signature of a self-signed card is refused. (`Vouched`.)
- *The extension of `-o` does not select the format of a signature that `--sign` makes
  without `--detach-sign`.* `README.md:535` says it does; `main.go:351-364` passes the
  options only. (`Encoding` of `CommandLine`.)
- *A document that is signed into itself is lost.* `files.go:120` truncates the output
  before the document is read; `README.md:621` says the file that was signed is not
  changed. (`CreateOutput`; `SignedAsAsked` shows that no success is reported.)
- *A value that holds an equals sign is cut* in a line of the form `key value`
  (`config.go:158`), which the comment at `config.go:150-151` does not say.
  (`ParseConfigLine`.)
- *Signatures with P-384 and P-521 keys in CMS use SHA-256*: `addSignerInfo` passes the encoded key
  (`protocol.go:609`, `protocol.go:649`) to a function that looks for an
  `*ecdsa.PublicKey` (`protocol.go:711`). (`EncodedKey` of `CMS`.)
- *Status lines with descriptors that are not open are lost without an error*
  (`status.go:172-174`, `status.go:184-187`); `statusOn` stands for an open descriptor.
- *An answer from before the revocation is accepted* until it expires: a request has no nonce
  (`ocsp.go:74`) and `validateOCSPResponse` (`ocsp.go:190-206`) looks at the times only. The documents
  promise nothing else; `RevocationIsDecided` is stated with this window. (`Responses`.)
- *A signature does not tell a content from the SET of attributes.* A message without
  attributes whose content is the SET that was signed is accepted (`cms/verify.go:131-137`), as it is by
  the standard's own rules; what is reported then is that SET. (`Vouches` in `SignedMessage`.)
- *An entry called `META-INF` ends the program*: `isMetaInf` looks at the ninth octet of a name
  of eight (`jar.go:125`). (`VerifyCrashes` of `JarFile`.)

`Custody`, `StoreIsComplete`, `RightCard` and the others do not contradict these: they are
the part of the promise that the code does keep.

Limits of the document formats that the properties leave out on purpose, because the
documents promise nothing: a PDF form that exists is replaced by the new one and
`/Encrypt` is dropped (`pdf.go`); an update appended to a signed PDF and parts added to an
office document are not noticed; comments, document types and nested instructions of
an XML document are dropped; a relationship to an origin is kept wherever it leads
(`opc.go:105`); of several entries of one name in an archive the first is checked
(`Ordinary` in `Document`); a signature part of OpenDocument in another case stays beside the
new one; main attributes of an earlier manifest are dropped.

## Not modelled

- The scanners of XML, ZIP and PDF, TLV, the fields of ASN.1 structures and the bytes of the
  trust store: the models begin with what they deliver, or with failure. BER lengths and
  nesting are the exception (`DER`).
- Chained responses and the masks of status words (`piv.go`, `piv_card.go`): pure functions
  of a few lines whose cases the tests list.
- A response that is read in parts while another program uses the card: each APDU is one
  action, and so is a chained one.
- The arithmetic of GOST algorithms, translation, wording and layout: nothing that
  a property relates.
- The bindings to PC/SC and PKCS#11 libraries: calls into code outside of the
  repository. Their effects are actions of the models.
- `setManagementKey` on a card that reports writes it ignores: `object_readback`
  has such a card for data objects, which are read back, but the stored key is not.
- Two updates of the trust store where the one that read its sources first is
  renamed last: `TrustStore` has the behaviour, and nothing promises otherwise. A source
  that is longer than `trustMaxDownloadSize` is cut; sizes are abstracted.
- Values of a `/ByteRange` in a PDF that are negative or too large for an integer, and answers of a
  responder without a time: the positions of the models are those of a file.
- A kill in the middle of an APDU or of a write to a file is the same as one before
  or after it, except for the temporary file, which nobody reads.
- Several invocations at once in `Signing`: what they share is the card, which
  `CardSecrets` and `ManagementKey` have, and files, which the documents promise nothing about.
- A manifest value of which more than a line of octets continue one character: the code
  would not end (`jar.go:82`), and no text in UTF-8 has one.

## Plan

The modules are complete in what they are for. What is left is a proof about `CommandLine`:
that exactly one command is run by an invocation that is not refused, for all options at
once.
