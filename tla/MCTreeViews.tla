---------------------------- MODULE MCTreeViews ----------------------------
(***************************************************************************)
(* One of the two graphical front ends runs; the other's rows stay empty.  *)
(***************************************************************************)
EXTENDS GtkConfig, QtConfig

F == INSTANCE KconfigFiles
MCKconfigs == <<F!Selected, F!ChoiceInMenu, F!IntInMenu, F!EitherOr>>
AllY == <<<<"A", 2>>>>
MCConfigs == <<{<<>>, AllY}, {<<>>, AllY}, {AllY \o <<<<"I", 3>>>>}, {AllY}>>
MCOrder == F!Order

\* Bounds: after so many changes, looks and saves the session only ends; but with the
\* first Kconfig file, three looks may be followed by one more step.
MaxMoves == 3
OneMoreStep ==
    /\ looks = MaxMoves /\ edits + saves = 0
    /\ \E i \in DOMAIN M.node : SymOf(i) = "MODULES"

TreeInit == WindowInit({"gconf", "qconf"}) /\ GtkInit /\ QtInit
TreeNext ==
    /\ ~st.crashed
    /\ edits + looks + saves < MaxMoves \/ OneMoreStep \/ closing \/ writing # None
    /\ \/ GtkNext /\ UNCHANGED qtVars
       \/ QtNext /\ UNCHANGED gtkVars
       \/ FileNext /\ UNCHANGED <<gtkVars, qtVars>>
TreeSpec == TreeInit /\ [][TreeNext]_<<sessionVars, windowVars, gtkVars, qtVars>>
=============================================================================
