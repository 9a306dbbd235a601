------------------------------ MODULE Archive ------------------------------
(***************************************************************************)
(* ZIP archives: entries in their order, each with a name and data.        *)
(***************************************************************************)
EXTENDS Naturals, Sequences, SequencesExt

CONSTANT
  \* What is asked of a name: the name in lower case, the directory it is in
  \* (in lower case, and whether it is written so), what its ending says
  \* it is, and its octets.
  NameInfo

Entry(name, data) == [name |-> name, data |-> data]
IsDirectory(name) == NameInfo[name].kind = "directory"
EqualFold(a, b) == NameInfo[a].lower = NameInfo[b].lower

\* zipEntryNamed: the first of the name.
EntryNamed(entries, name) ==
  LET found == SelectSeq(entries, LAMBDA e : e.name = name)
  IN IF found = <<>> THEN <<>> ELSE <<Head(found)>>

\* replaceZipEntry: all of the name go, and the new one is the last.
ReplaceEntry(entries, entry) ==
  Append(SelectSeq(entries, LAMBDA e : e.name # entry.name), entry)

\* The data of the files among the entries: of several with one name, the last.
PartsOf(entries) ==
  LET files == SelectSeq(entries, LAMBDA e : ~IsDirectory(e.name))
  IN [name \in {e.name : e \in ToSet(files)} |->
        files[SelectLastInSeq(files, LAMBDA e : e.name = name)].data]
=============================================================================
