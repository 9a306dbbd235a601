\* Entries that need escapes and look like them, two crashes, and a pinentry that chats
\* or hangs.
SPECIFICATION Spec
CONSTANTS
  Words <- MCWords
  Characters <- MCCharacters
  Entries <- MCEntries
  Prompts <- MCPrompts
  Hosts <- MCHosts
  MaxChatter = 2
  MaxCrashes = 2
  Hangs = TRUE
INVARIANTS
  DialogShowsThePrompt
  NoProcessLeft
  AskedAgainAfterCrash
  SettingsAreRead
PROPERTIES
  ImplementsDialog
  Answered
CHECK_DEADLOCK FALSE
