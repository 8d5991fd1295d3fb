----------------------------- MODULE ExprPasses -----------------------------
(***************************************************************************)
(* The expression passes in the order in which menu_finalize (menu.c)      *)
(* applies them: a dependency written in a Kconfig file is rewritten,      *)
(* joined with the one of the enclosing menu and simplified; then the item *)
(* is compared with the symbol before it, to decide whether it goes into   *)
(* the submenu of that symbol.                                             *)
(***************************************************************************)
EXTENDS Expr

CONSTANTS
    ParentDeps,   \* dependencies of the enclosing menu, already simplified
    OwnDeps,      \* dependencies as they are written
    Owners,       \* symbols that may come before the item
    OwnerDeps     \* their prompt's dependencies, already simplified

VARIABLES
    pass,       \* the last pass that ran
    parent,     \* what the item inherits
    own,        \* what the Kconfig file says
    dep,        \* the expression that is being rewritten
    tristate,   \* whether the item is a tristate symbol
    owner,      \* the symbol before the item, and what its prompt depends on
    base,
    submenu     \* whether the item goes into the submenu of owner

passVars == <<pass, parent, own, dep, tristate, owner, base, submenu>>
source == <<parent, own, tristate>>

PassInit ==
    /\ pass = "parsed"
    /\ parent \in ParentDeps /\ own \in OwnDeps /\ dep = own
    /\ tristate \in BOOLEAN
    /\ owner = NoSymbol /\ base = NoExpr
    /\ submenu = FALSE

Pass(from, to, e) ==
    /\ pass = from /\ pass' = to /\ dep' = e
    /\ UNCHANGED <<source, owner, base, submenu>>

Rewritten == Pass("parsed", "rewritten", RewriteM(dep))
Transformed == Pass("rewritten", "transformed", Transform(dep))
Inherited == Pass("transformed", "inherited", AllocAnd(parent, dep))
Joined == Pass("inherited", "joined", EliminateDups(dep))
Final == Pass("joined", "final", IF tristate THEN dep ELSE TransBool(dep))

\* Mutant of Superset: the item's operands are not compared with the owner's.
AnyCommon(e, b) == EliminateEq(e, b)[2] # b \/ b = Sym("y")

\* Nothing is left of b, the owner's dependency, without what e has too.
Superset(e, b) == EliminateEq(e, b)[2] = Sym("y")

Visible(e) == EliminateDups(Transform(TransCompare(e, "!=")))

\* The automatic submenu: the item depends on owner, absolutely or with at least
\* everything that owner depends on.
PlaceItem ==
    /\ pass = "final" /\ pass' = "placed"
    /\ owner' \in Owners /\ base' \in OwnerDeps
    /\ submenu' = (/\ ContainsSymbol(dep, owner')
                   /\ \/ DependsSymbol(dep, owner')
                      \/ Superset(Visible(dep), Visible(base')))
    /\ UNCHANGED <<source, dep>>

PassNext == Rewritten \/ Transformed \/ Inherited \/ Joined \/ Final \/ PlaceItem

PassSpec == PassInit /\ [][PassNext]_passVars
-----------------------------------------------------------------------------
\* What the symbols that occur can be: a bool is n or y, and so is a tristate without
\* modules.
Occurring ==
    Symbols \cap ({Modules, owner} \cup UNION {ToSet(SymbolsOf(e)) : e \in {parent, own, base}})
Valuations ==
    {v \in [Occurring -> Tri] :
        /\ \A b \in Bools \cap Occurring : v[b] # 1
        /\ (Modules = "n" \/ v[Modules] = 0) => \A t \in Tristates \cap Occurring : v[t] # 1}

Written(v) == Min2(Value(parent, v), Value(RewriteM(own), v))

\* Simplifying a dependency changes its value for no values of the symbols: the
\* item is visible exactly when the Kconfig files say so, and as m or y as they say.
ValueKept ==
    /\ pass \in {"inherited", "joined"} \/ (pass = "final" /\ tristate) =>
          \A v \in Valuations : Value(dep, v) = Written(v)
    /\ pass = "transformed" => \A v \in Valuations : Value(dep, v) = Value(RewriteM(own), v)

\* For a bool FOO!=n becomes FOO, which may be m instead of y, but is n never else.
BoolKept ==
    pass = "final" => \A v \in Valuations : Value(dep, v) = 0 <=> Written(v) = 0

\* No operand is left twice in a level, and no bool is compared with a constant:
\* expr_eq and the submenu test rely on it.
RECURSIVE Simplified(_)
Simplified(e) ==
    CASE e[1] = "not" -> e[2][1] = "sym" /\ e[2][2] \notin Consts
      [] e[1] \in {"and", "or"} ->
            /\ \A i \in DOMAIN e[2] : Simplified(e[2][i])
            /\ \A i, j \in DOMAIN e[2] : i # j => ~ExprEq(e[2][i], e[2][j])
      [] e[1] \in {"=", "!="} -> ~(e[2] \in Bools /\ e[3] \in Consts)
      [] OTHER -> TRUE
NoRedundancy == pass = "joined" => Simplified(dep)

\* "our dependencies contain sym and are a 'superset' of sym's dependencies": what
\* goes into the submenu of a symbol is only visible when the symbol can be, as long
\* as no symbol is m (with modules !FOO is taken for FOO=n, and m is neither).
SubmenuBelowOwner ==
    submenu => \A v \in Valuations :
        ((\A t \in Tristates \cap Occurring : v[t] # 1) /\ Value(dep, v) # 0) =>
            Value(base, v) # 0 \/ v[owner] # 0
=============================================================================
