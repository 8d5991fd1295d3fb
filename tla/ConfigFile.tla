----------------------------- MODULE ConfigFile -----------------------------
(***************************************************************************)
(* How conf_write replaces a configuration file (confdata.c), whatever the *)
(* program and the text: a file of its own is written, what has the name   *)
(* becomes name.old, and the new file takes its place.  The process can be *)
(* killed or interrupted between any two steps, and either rename can fail *)
(* (the first one unnoticed).                                              *)
(***************************************************************************)
EXTENDS Sequences

CONSTANT Names  \* the names of configuration files that the user types

VARIABLES
    files,      \* the files that exist, and their lines
    writing     \* the conf_write that is going on, if any

fileVars == <<files, writing>>

Old(name) == name \o ".old"
Holding(fs, name, text) == [n \in DOMAIN fs \cup {name} |-> IF n = name THEN text ELSE fs[n]]

\* The user saves nothing under the name of a backup.
ASSUME NamesAssumption ==
    /\ \A name \in Names : Old(name) \notin Names
    /\ \A m, n \in Names : Old(m) = Old(n) => m = n

SaveInit == writing = {}

\* The text goes to a file of its own, ...
WriteText(name, text) ==
    /\ writing = {}
    /\ writing' = {[name |-> name, text |-> text, old |-> FALSE, kept |-> TRUE]}

\* Mutant of BackUp: nothing is kept of the old file.
KeepNothing(w) ==
    /\ ~w.old /\ writing' = {[w EXCEPT !.old = TRUE]}
    /\ UNCHANGED files

\* ... what has the name is renamed, ...
BackUp(w) ==
    /\ ~w.old /\ writing' = {[w EXCEPT !.old = TRUE]}
    /\ files' = IF w.name \notin DOMAIN files THEN files
                ELSE Holding([n \in DOMAIN files \ {w.name} |-> files[n]],
                             Old(w.name), files[w.name])

\* ... or cannot be, which nobody looks at, ...
SkipBackUp(w) ==
    /\ ~w.old
    /\ writing' = {[name |-> w.name, text |-> w.text, old |-> TRUE, kept |-> FALSE]}
    /\ w.name \in DOMAIN files /\ UNCHANGED files

\* ... and the file takes its place, or cannot.
Replace(w) ==
    /\ w.old /\ writing' = {}
    /\ files' = Holding(files, w.name, w.text)
GiveUp(w) ==
    /\ w.old /\ writing' = {}
    /\ UNCHANGED files

\* The process is killed, or interrupted by a signal whose handler does not return.
Abandon == writing' = {} /\ UNCHANGED files

\* Files that are neither saved under such a name nor their backups.
WriteOther ==
    /\ \A n \in Names \cup {Old(name) : name \in Names} :
          /\ n \in DOMAIN files <=> n \in DOMAIN files'
          /\ n \in DOMAIN files => files'[n] = files[n]
    /\ UNCHANGED writing

SaveNext ==
    \/ \E w \in writing' : w.name \in Names /\ WriteText(w.name, w.text) /\ UNCHANGED files
    \/ \E w \in writing : BackUp(w) \/ SkipBackUp(w) \/ Replace(w) \/ GiveUp(w)
    \/ Abandon \/ WriteOther

SaveSpec == SaveInit /\ [][SaveNext]_fileVars
-----------------------------------------------------------------------------
\* The last text that was saved under a name, if there is one: after a save that did
\* not end it is the one of name.old.
Latest(name) ==
    LET kept == IF name \in DOMAIN files THEN name ELSE Old(name)
    IN  IF kept \in DOMAIN files THEN {files[kept]} ELSE {}

\* A configuration that is being replaced stays readable under its own name or under
\* name.old at every moment, until the whole new text has taken its place, and then it
\* is what name.old has, unless the rename to name.old failed: an interrupted save, or
\* one that reports a failure, never loses it.
OldTextKept ==
    [][\A name \in Names :
          \/ Latest(name)' = Latest(name)
          \/ \E w \in writing :
                /\ w.name = name /\ Latest(name)' = {w.text}
                /\ w.kept => \A text \in Latest(name) :
                      Old(name) \in DOMAIN files' /\ files'[Old(name)] = text]_files
=============================================================================
