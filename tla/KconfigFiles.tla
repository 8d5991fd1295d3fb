---------------------------- MODULE KconfigFiles ----------------------------
(***************************************************************************)
(* Kconfig files for TLC: as the lines that module Menu parses.  Together  *)
(* they have tristates with and without modules, defaults, a select, an    *)
(* imply, a menuconfig, a choice of bools and an optional one of           *)
(* tristates, a menu, and an int whose range depends on a symbol.          *)
(***************************************************************************)
EXTENDS Expr

Config(s) == [op |-> "config", sym |-> s]
Menuconfig(s) == [op |-> "menuconfig", sym |-> s]
Choice(c) == [op |-> "choice", sym |-> c]
Prompt == [op |-> "prompt", dep |-> NoExpr]
DependsOn(e) == [op |-> "depends", dep |-> e]
Default(e) == [op |-> "default", expr |-> e, dep |-> NoExpr]
DefaultIf(e, d) == [op |-> "default", expr |-> e, dep |-> d]
Selects(s) == [op |-> "select", sym |-> s, dep |-> NoExpr]
Implies(s) == [op |-> "imply", sym |-> s, dep |-> NoExpr]
RangeIf(low, high, d) == [op |-> "range", expr |-> <<"range", low, high>>, dep |-> d]
Line(what) == [op |-> what]

Bool(s) == <<Config(s), Prompt>>

\* A tristate that can be m, and that another symbol selects.
Selected ==
    <<Menuconfig("MODULES"), Prompt>>
    \o <<Config("T"), Prompt, DependsOn(Sym("MODULES")), Default(Sym("m"))>>
    \o Bool("A") \o <<Selects("T")>>

\* A menu with a choice below a symbol, whose default depends on a later one.
ChoiceInMenu ==
    <<Menuconfig("A"), Prompt>>
    \o <<Choice("C"), Prompt, DependsOn(Sym("A")), DefaultIf(Sym("Y"), Sym("B")), Line("begin")>>
    \o Bool("X") \o Bool("Y") \o <<Line("end")>> \o Bool("B")

\* A choice of tristates that can be m or n.
OptionalChoice ==
    Bool("MODULES")
    \o <<Choice("D"), Prompt, Line("optional"), Line("begin")>>
    \o <<Config("T"), Prompt, Config("U"), Prompt, Line("end")>>

\* A menu with an int: the first range that is visible is its range.
IntInMenu ==
    <<Line("menu"), Line("begin")>> \o Bool("A")
    \o <<Config("I"), Prompt, RangeIf("one", "two", Sym("A")), RangeIf("two", "three", NoExpr),
         Default(Sym("two")), Line("end")>>

\* A symbol that depends on a later one outside its menu, which implies it.
DependsOnLater ==
    <<Line("menu"), Line("begin"), Config("U"), Prompt, DependsOn(Sym("A")), Line("end")>>
    \o Bool("A") \o <<Implies("U")>>

\* A menu of which the one or the other entry is visible.
EitherOr ==
    Bool("A") \o <<Line("menu"), Line("begin"), Config("X"), Prompt, DependsOn(Sym("A")),
                   Config("Y"), Prompt, DependsOn(Not(Sym("A"))), Line("end")>>

Order == <<"MODULES", "A", "B", "X", "Y", "T", "U", "I", "C", "D">>
=============================================================================
