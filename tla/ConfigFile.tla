------------------------------- MODULE ConfigFile ------------------------------
(***************************************************************************)
(* The files that settings are kept in (iotsaConfigFile.cpp): lines of a    *)
(* name, "=" and a value, read up to the next "=" and the next end of line. *)
(* A value is a sequence of lines, of which get() only finds the first; the *)
(* others become part of the name that follows them, as long as they do not *)
(* themselves hold a name that is looked for, which no value here does.     *)
(***************************************************************************)
EXTENDS Integers, SequencesExt

Entry(name, value) == [name |-> name, value |-> value]

\* The entry is found: its name starts a line of the file.
IsFound(file, i, name) ==
  file[i].name = name /\ (i = 1 \/ Len(file[i - 1].value) = 1)

\* IotsaConfigFileLoad::get()
GetValue(file, name, default) ==
  LET found == {i \in DOMAIN file : IsFound(file, i, name)}
  IN IF found = {} THEN default ELSE <<Head(file[Min(found)].value)>>

\* A save that power cuts short: the file was truncated when it was opened.
CutShort(file) == {SubSeq(file, 1, n) : n \in 0 .. Len(file)}
================================================================================
