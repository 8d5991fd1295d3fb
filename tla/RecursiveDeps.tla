---------------------------- MODULE RecursiveDeps ----------------------------
(***************************************************************************)
(* The check for recursive dependencies (DepSearch) on the symbols of a    *)
(* Kconfig file, and what it is for: the values of symbols (Symbol).       *)
(***************************************************************************)
EXTENDS Symbol, DepSearch

CONSTANTS
    LoopKconfigs,   \* Kconfig files
    Users,          \* what a user may have set: functions from some symbols to values
    Orders          \* orders of the symbols: of the hash table, and of the questions for values

depVars == <<M, searchVars>>

\* The expressions of menu tree t that sym_check_sym_deps searches for symbol s: not what
\* implies it, not the bounds of a range, and not the member that is a choice's default.
TextsIn(p) == IF p.type = "default" /\ ~IsChoice(p.sym) THEN <<p.vis, p.expr>> ELSE <<p.vis>>
OwnTexts(t, s) ==
    LET ks == PropsOf(t, s, Prompts \cup {"default", "range", "imply", "symbol"})
    IN  FlattenSeq([i \in DOMAIN ks |-> TextsIn(t.prop[ks[i]])])

\* Mutant of Texts: what selects the symbol is not searched.
WithoutSelects(t, s) == OwnTexts(t, s)
Texts(t, s) == <<t.rev[s]>> \o OwnTexts(t, s)

\* The graph of the symbols of t.  The search finds nothing below the constants.
RefsIn(t) ==
    [s \in AllSymbols |->
        SelectSeq(FlattenSeq([i \in DOMAIN Texts(t, s) |-> SymbolsOf(Texts(t, s)[i])]),
                  LAMBDA x : x \in AllSymbols)]
MembersIn(t) == [s \in AllSymbols |-> IF s \in ChoiceSyms THEN t.members[s] ELSE <<>>]
GroupIn(t) == [s \in AllSymbols |-> IF t.choiceOf[s] = NoSymbol THEN s ELSE t.choiceOf[s]]

\* What the search leaves out although values are calculated from it: what implies a
\* symbol, and the bounds of the ranges of an int.
Bounds(t, s) ==
    LET ks == PropsOf(t, s, {"range"})
    IN  FlattenSeq([i \in DOMAIN ks |-> Tail(t.prop[ks[i]].expr)])
CalculatedFrom(s) ==
    (ToSet(refs[s]) \cup ToSet(SymbolsOf(M.imp[s])) \cup ToSet(Bounds(M, s))) \cap AllSymbols

\* menu_finalize makes such graphs as the theorem about the search is about.
ASSUME GraphAssumption ==
    \A k \in LoopKconfigs :
        \E t \in {MenuTree(k)} : GraphOK(RefsIn(t), MembersIn(t), GroupIn(t))

\* The order o of the symbols there are.
Asked(o) == SelectSeq(o, LAMBDA s : s \in Declared)

DepsInit ==
    /\ \E k \in LoopKconfigs : M = MenuTree(k)
    /\ refs = RefsIn(M) /\ members = MembersIn(M) /\ group = GroupIn(M)
    /\ todo \in {Asked(o) : o \in Orders}
    /\ SearchInit

-----------------------------------------------------------------------------
\* The symbols that are calculated from each other, a choice and its members as one: what
\* is left when those that nothing is left to calculate from are taken away in turn.
Circular ==
    LET from == [g \in AllSymbols |->
                    UNION {{group[x] : x \in CalculatedFrom(s) \ ({g} \ {s})} :
                              s \in {t \in AllSymbols : group[t] = g}}]
    IN  FoldSet(LAMBDA s, left : {g \in left : from[g] \cap left # {}},
                AllSymbols, AllSymbols)

UserHas(u) ==
    LET picked(c) == {s \in ToSet(Members(c)) \cap DOMAIN u : u[s] = 2}
        set == {c \in ChoiceSyms : picked(c) # {}}
    IN  [Blank EXCEPT !.def = u @@ [c \in set |-> 2] @@ @, !.user = DOMAIN u \cup set,
                      !.selected = [c \in ChoiceSyms |-> IF c \in set THEN CHOOSE s \in picked(c) : TRUE
                                                         ELSE NoSymbol]]

\* Values are calculated lazily, in the order in which the front ends ask for them,
\* and a symbol that is asked for while it is being calculated counts as n, or as an int
\* without a value.  Where nothing is reported, values that depend on the order come of
\* an imply or of the bounds of a range, which the search does not follow: in every
\* other Kconfig file they are the same in every order.
OrderIndependent ==
    Over /\ reports = 0 /\ Circular = {} =>
        \A u \in {w \in Users : DOMAIN w \subseteq Declared} :
            Cardinality({CalcAll(UserHas(u), Asked(o)).curr : o \in Orders}) = 1

DepsNext == SearchNext /\ UNCHANGED M

DepsSpec == DepsInit /\ [][DepsNext]_depVars
=============================================================================
