------------------------------- MODULE Session -------------------------------
(***************************************************************************)
(* What the interactive front ends of Kconfig share: a process that has    *)
(* parsed the Kconfig files and read a configuration, in which the user    *)
(* changes values, loads and saves (support/kconfig/mconf.c, nconf.c,      *)
(* gconf.c and qconf.cc over symbol.c and confdata.c).                     *)
(***************************************************************************)
EXTENDS ConfData, ConfigFile

CONSTANTS
    Kconfigs,       \* Kconfig files, a sequence
    Configs,        \* for each of them what .config may have at the start; <<>>: there is none
    MaxEdits,       \* bound: changes of a value in a session
    MaxSaves        \* bound: calls of conf_write and conf_read in a session

VARIABLES
    front,      \* the program
    st,         \* the state of all symbols
    filename,   \* "filename": where Save and Exit write to
    mishaps,    \* what the environment has done wrong so far
    ended,      \* how the session ended, or "no"
    edits, saves,   \* bounded counters
    edit        \* history: the value that the last key has set, if it set one

sessionVars == <<M, front, st, files, filename, writing, mishaps, ended, edits, saves, edit>>

HasPrompt(i) == M.node[i].prompt # 0
SymOf(i) == M.node[i].sym
IsMenu(i) == IsMenuEntry(M, i)

Roots == M.roots

\* menu_get_parent_menu
RECURSIVE ParentMenu(_)
ParentMenu(i) == IF i = 1 \/ IsMenu(i) THEN i ELSE ParentMenu(M.node[i].parent)

DotConfig == ".config"
None == {}

SessionInit(fronts) ==
    /\ \E k \in DOMAIN Kconfigs :
          /\ M = MenuTree(Kconfigs[k])
          /\ \E c \in Configs[k] : files = IF c = <<>> THEN <<>> ELSE DotConfig :> c
    /\ front \in fronts
    /\ st = Blank
    /\ filename = DotConfig
    /\ writing = None /\ mishaps = {} /\ ended = "no"
    /\ edits = 0 /\ saves = 0 /\ edit = None

\* conf_read(NULL), when the program starts.
ReadConfig == IF DotConfig \in DOMAIN files THEN ConfRead(st, files[DotConfig])
              ELSE ConfReadNothing(st)

Running == ended = "no" /\ writing = None

\* The user sets s to val, which the front end lets through only when it can be.
Set(s, val) ==
    /\ edits < MaxEdits /\ edits' = edits + 1
    /\ edit' = {<<s, val>>}
    /\ UNCHANGED <<M, front, files, filename, writing, mishaps, ended, saves>>

NoEdit == edit' = None /\ UNCHANGED <<M, front, mishaps, edits>>

\* conf_read of a file that does not exist: what has been set counts as unchanged.
ReadMissing(name) ==
    /\ saves < MaxSaves /\ saves' = saves + 1
    /\ name \notin DOMAIN files
    /\ mishaps = {} /\ mishaps' = {"missing"}
    /\ st' = Calc([st EXCEPT !.changed = FALSE], Modules)
    /\ edit' = None /\ UNCHANGED <<M, front, files, filename, writing, ended, edits>>

\* conf_write
Write(w, name) == st' = w.st /\ WriteText(name, w.file)
BeginWrite(name) ==
    /\ saves < MaxSaves /\ saves' = saves + 1
    /\ Write(ConfWrite(st), name)
    /\ NoEdit /\ UNCHANGED <<files, filename, ended>>

RenameOld ==
    /\ ended = "no"
    /\ \E w \in writing :
          \/ BackUp(w) /\ UNCHANGED mishaps
          \/ SkipBackUp(w) /\ mishaps = {} /\ mishaps' = {"old"}
    /\ edit' = None
    /\ UNCHANGED <<M, front, st, filename, ended, edits, saves>>

RenameNew(w) == Replace(w) /\ NoEdit /\ UNCHANGED saves

RenameFails(w) ==
    /\ GiveUp(w)
    /\ mishaps = {} /\ mishaps' = {"rename"}
    /\ edit' = None
    /\ UNCHANGED <<M, front, st, filename, edits, saves>>
-----------------------------------------------------------------------------
\* What a calculation from scratch gives.
Fresh == Calculated(st)

\* A choice that is m has members that are m: with none of them set, a file cannot
\* tell it from a choice that is n.
Representable(s) ==
    \A c \in ChoiceSyms : s.curr[c] = 1 => \E x \in ToSet(Members(c)) : s.curr[x] # 0

ReadBack(name) == ConfRead(Blank, files[name])

\* sym_calc_choice forgets that the user has made an optional choice y, when one of its
\* members is new, and keeps its value until the next calculation makes it n.
Settled == \A c \in ChoiceSyms \cap M.optional : st.curr[c] = 2 => c \in st.user

Same(s1, s2) == \A s \in Named \cap Declared : s1.curr[s] = s2.curr[s]

\* The text of an int that conf_read has reset, because it was out of range, is typed
\* again now that it is in range: sym_set_string_value takes it for the old text.
TypedAgain ==
    \E s \in Ints \cap Declared \cap st.user :
        VisibleIn(st, s) /\ st.curr[s] # st.def[s] /\ IntWithinRange(st, s, st.def[s])

\* "Save" can be left out exactly when nothing would be lost: when the program thinks
\* that nothing has changed, the file it would save to gives the values that a
\* calculation from scratch gives.  conf_read after a failed open, and conf_write
\* after a failed rename or an interrupt, break it (see the README): mishaps.
SaveOffered ==
    Running /\ st # Blank /\ ~st.changed /\ mishaps \subseteq {"old"} /\ Representable(st) /\ Settled =>
        \E name \in DOMAIN files :
            (front \in {"mconf", "nconf"} => name = filename) /\ Same(ReadBack(name), Fresh)

\* SaveOffered, but for a text that was typed again (which SaveOffered alone finds), and
\* for an int that can no longer be calculated.
UnchangedIsSaved == SaveOffered \/ TypedAgain \/ Fresh.crashed

\* A value that the user was allowed to set is the value of the symbol, whatever else
\* the calculation of all others does.
EditTaken == Running /\ Settled => \A e \in edit : Fresh.curr[e[1]] = e[2]
=============================================================================
