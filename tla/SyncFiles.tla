------------------------------ MODULE SyncFiles ------------------------------
(***************************************************************************)
(* How "conf --syncconfig" tells make what has changed (conf_split_config  *)
(* and conf_write_autoconf in confdata.c): the file in include/config of   *)
(* every symbol whose line differs from that in auto.conf is touched, then *)
(* the header is renamed and, last, auto.conf.  The program can be killed  *)
(* between any two steps.  make builds again what depends on a touched     *)
(* file.  A line is <<symbol, value>>; a configuration is a set of them.   *)
(***************************************************************************)

VARIABLES
    phase,      \* what the program does, or "idle" between two runs
    synced,     \* the last run was a syncconfig, and has ended well
    wanted,     \* the lines of the configuration that this run was split for
    auto,       \* auto.conf, once there is one: a set that holds its lines
    header,     \* autoconf.h, the same
    touched,    \* symbols whose file in include/config is newer than what was built
    built       \* history: for each symbol the line that was last built with

products == <<auto, header, touched, built>>
syncVars == <<phase, synced, wanted, products>>

LineOf(lines, s) == {line \in lines : line[1] = s}

\* Nothing was built yet, or a configuration was.
SyncInit ==
    /\ phase = "idle" /\ synced = FALSE /\ wanted = {}
    /\ header = auto /\ touched = {}
    /\ built = [s \in DOMAIN built |-> LineOf(UNION auto, s)]

\* Mutant of Differ: a symbol that has left the configuration is forgotten.
DifferOfNew(new, old) ==
    {s \in DOMAIN built : \E line \in new : line[1] = s /\ line \notin old}

\* conf_split_config: the symbols whose line differs.
Differ(new, old) == {s \in DOMAIN built : LineOf(new, s) # LineOf(old, s)}

\* A run of the program begins, and goes on with what does not touch these files.
Begins == phase = "idle" /\ phase' \notin {"header", "auto"} /\ synced' = FALSE
GoesOn ==
    /\ phase \notin {"idle", "header", "auto"} /\ phase' \notin {"header", "auto"}
    /\ UNCHANGED synced

SplitConfig(lines) ==
    /\ phase = "split" /\ phase' = "header"
    /\ wanted' = lines
    /\ touched' = touched \cup Differ(lines, UNION auto)
    /\ UNCHANGED <<synced, auto, header, built>>

\* "this must be the last step"
PutHeader ==
    /\ phase = "header" /\ phase' = "auto"
    /\ header' = {wanted}
    /\ UNCHANGED <<synced, wanted, auto, touched, built>>
PutAuto ==
    /\ phase = "auto" /\ phase' = "idle" /\ synced' = TRUE
    /\ auto' = {wanted}
    /\ UNCHANGED <<wanted, header, touched, built>>

\* Killed, maybe while it touches the files for a configuration.
Killed(lines) ==
    /\ phase # "idle" /\ phase' = "idle"
    /\ \E some \in SUBSET (IF phase = "split" THEN Differ(lines, UNION auto) ELSE {}) :
          touched' = touched \cup some
    /\ UNCHANGED <<synced, wanted, auto, header, built>>

\* make, after syncconfig: what depends on a newer file is built again.
Rebuild ==
    /\ phase = "idle" /\ synced /\ touched # {}
    /\ built' = [s \in DOMAIN built |->
                    IF s \in touched THEN LineOf(UNION header, s) ELSE built[s]]
    /\ touched' = {}
    /\ UNCHANGED <<phase, synced, wanted, auto, header>>

\* Whatever the configurations are.
KilledSomewhere ==
    /\ phase # "idle" /\ phase' = "idle"
    /\ touched \subseteq touched' /\ touched' \subseteq DOMAIN built
    /\ phase # "split" => UNCHANGED touched
    /\ UNCHANGED <<synced, wanted, auto, header, built>>

SyncNext ==
    \/ (Begins \/ GoesOn) /\ UNCHANGED <<wanted, products>>
    \/ SplitConfig(wanted') \/ PutHeader \/ PutAuto \/ Rebuild \/ KilledSomewhere

SyncSpec == SyncInit /\ [][SyncNext]_syncVars
-----------------------------------------------------------------------------
\* After syncconfig and make nothing is left that was built with another value of a
\* symbol it uses, even when an earlier syncconfig was killed between any two steps:
\* renaming auto.conf "must be the last step" (confdata.c).
NothingStale ==
    synced /\ touched = {} => \A s \in DOMAIN built : built[s] = LineOf(wanted, s)
=============================================================================
