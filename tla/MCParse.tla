------------------------------- MODULE MCParse -------------------------------
(***************************************************************************)
(* What conf_parse does after the text was parsed, each half on inputs of  *)
(* its own: menu_finalize's passes over every expression of a small set,   *)
(* and the check for recursive dependencies on every small Kconfig file.   *)
(***************************************************************************)
EXTENDS ExprPasses, RecursiveDeps

F == INSTANCE KconfigFiles

Atoms == {Sym(s) : s \in {"A", "B", "T", "MODULES", "m"}}
         \cup {Cmp(op, s, c) : op \in {"=", "!="}, s \in {"A", "B", "T"}, c \in Consts}
         \cup {Cmp("<", "T", "y"), Cmp("=", "T", "A")}
Literals == Atoms \cup {Not(a) : a \in Atoms}
Few == {Sym("A"), Sym("B"), Sym("T"), Not(Sym("T")), Cmp("!=", "T", "n"), Not(Sym("A"))}
Twos == {Level(op, <<a, b>>) : op \in {"and", "or"}, a \in Few, b \in Literals}
Threes == {Level(ops[1], <<a, Level(ops[2], <<b, c>>)>>) :
              ops \in {<<"and", "or">>, <<"or", "and">>}, a \in Few, b \in Few, c \in Few}

MCOwnDeps == Literals \cup Twos \cup {Not(e) : e \in Twos} \cup Threes
MCParentDeps == {NoExpr, Sym("B"), Or(Sym("A"), Sym("T")), Not(Sym("T"))}
MCOwnerDeps == {NoExpr, Sym("B"), Not(Sym("T")), And(Sym("B"), Sym("T")), Or(Sym("B"), Sym("T"))}

\* The options of a symbol: none, or a dependency, a default or a select.
Options(ss) ==
    {<<>>} \cup {<<F!DependsOn(e)>> : e \in {Sym(s) : s \in ss}}
    \cup {<<F!Default(e)>> : e \in {Not(Sym(s)) : s \in ss}}
    \cup {<<F!Selects(s)>> : s \in ss \ {"X", "Y"}}

\* Two symbols around a choice of two.
Around(a, b, c, x, y) ==
    F!Bool("A") \o a
    \o <<F!Choice("C"), F!Prompt>> \o c \o <<F!Line("begin")>>
    \o F!Bool("X") \o x \o F!Bool("Y") \o y \o <<F!Line("end")>>
    \o F!Bool("B") \o b

SearchedLoops ==
    {Around(a, b, c, x, y) :
        a \in Options({"B", "X"}), b \in Options({"A", "Y"}),
        c \in {<<>>, <<F!DependsOn(Sym("A"))>>, <<F!DefaultIf(Sym("Y"), Sym("B"))>>},
        x \in {<<>>, <<F!DependsOn(Sym("A"))>>, <<F!Selects("B")>>},
        y \in {<<>>, <<F!DependsOn(Not(Sym("B")))>>, <<F!DependsOn(Sym("X"))>>}}

\* Two symbols that imply each other, or one that is below, selects or is above what it
\* implies; ...
ImpliedLoops ==
    {Around(<<F!Implies("B")>> \o a, b, <<>>, <<>>, y) :
        a \in {<<>>, <<F!Default(Not(Sym("B")))>>, <<F!DependsOn(Sym("X"))>>},
        b \in {<<>>, <<F!Implies("A")>>, <<F!DependsOn(Sym("A"))>>, <<F!Selects("A")>>},
        y \in {<<>>, <<F!DependsOn(Sym("B"))>>, <<F!Implies("A")>>}}

\* ... and two ints, one with the other, or itself, as a bound or as its default.
IntLoops ==
    {<<F!Config("I"), F!Prompt, F!RangeIf("one", high, d)>> \o i
     \o <<F!Config("J"), F!Prompt, F!RangeIf(low, "three", NoExpr)>> \o j \o F!Bool("A") :
        high \in {"two", "J"}, low \in {"one", "I"}, d \in {NoExpr, Sym("A")},
        i \in {<<>>, <<F!Default(Sym("three"))>>},
        j \in {<<>>, <<F!Default(Sym("I"))>>, <<F!DependsOn(Cmp("=", "I", "two"))>>}}

MCLoopKconfigs == SearchedLoops \cup ImpliedLoops \cup IntLoops

MCUsers ==
    {"I" :> 3, "J" :> 2, "I" :> 1 @@ "J" :> 3}
    \cup {s :> 2 : s \in {"A", "B", "X", "Y"}}
    \cup {"A" :> 2 @@ "Y" :> 2, "A" :> 0 @@ "B" :> 2}
MCOrders == {<<"C", "I", "A", "J", "B", "X", "Y">>, <<"B", "Y", "X", "J", "A", "I", "C">>,
             <<"X", "J", "I", "A", "B", "Y", "C">>}

Passes ==
    /\ PassInit /\ M = EmptyMenu
    /\ refs = RefsIn(M) /\ members = MembersIn(M) /\ group = GroupIn(M) /\ todo = <<"A">>
    /\ SearchInit
Check == DepsInit /\ pass = "none" /\ parent = NoExpr /\ own = NoExpr /\ dep = NoExpr
         /\ tristate = FALSE /\ owner = NoSymbol /\ base = NoExpr /\ submenu = FALSE

ParseInit == Passes \/ Check
ParseNext == \/ pass # "none" /\ PassNext /\ UNCHANGED depVars
             \/ pass = "none" /\ DepsNext /\ UNCHANGED passVars
ParseSpec == ParseInit /\ [][ParseNext]_<<passVars, depVars>>
=============================================================================
