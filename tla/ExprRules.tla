------------------------------ MODULE ExprRules ------------------------------
(***************************************************************************)
(* Dependency expressions of the Kconfig front end: the values of symbols  *)
(* and comparisons, and the rules for one operand or two by which expr.c   *)
(* simplifies them.  Expr has whole expressions and the passes that apply  *)
(* the rules to them.                                                      *)
(***************************************************************************)
EXTENDS Integers, FiniteSets

CONSTANTS
    Bools,      \* symbols of type bool
    Tristates,  \* symbols of type tristate
    Modules     \* the symbol with "option modules"; "n" when there is none

Consts == {"n", "m", "y"}
Tri == 0..2
ConstValue == [n |-> 0, m |-> 1, y |-> 2, one |-> 1, two |-> 2, three |-> 3]
Comparisons == {"=", "!=", "<", "<=", ">", ">="}

NoExpr == <<"null">>
Sym(s) == <<"sym", s>>
Not(e) == <<"not", e>>
Cmp(op, s, t) == <<op, s, t>>

ASSUME SymbolsAssumption ==
    /\ Bools \cap Tristates = {}
    /\ (Bools \cup Tristates) \cap (DOMAIN ConstValue \cup {"none"}) = {}

\* What an operand becomes when it is to be eliminated, and what absorbs its level.
Neutral(type) == Sym(IF type = "and" THEN "y" ELSE "n")
Absorbing(type) == Sym(IF type = "and" THEN "n" ELSE "y")
-----------------------------------------------------------------------------
Min2(a, b) == IF a < b THEN a ELSE b
Max2(a, b) == IF a > b THEN a ELSE b

Compare(op, a, b) ==
    CASE op = "=" -> a = b   [] op = "!=" -> a # b
      [] op = "<" -> a < b   [] op = "<=" -> a <= b
      [] op = ">" -> a > b   [] op = ">=" -> a >= b

\* A comparison with a constant compares texts: "m" is before "n", "n" before "y".
TextOrder(val) == CASE val = 0 -> 1 [] val = 1 -> 0 [] OTHER -> val
Ordered(e, val) == IF {e[2], e[3]} \cap Consts # {} THEN TextOrder(val) ELSE val

\* The value of one symbol, when the symbols have the values of v.
ValueOf(s, v) == IF s \in DOMAIN ConstValue THEN ConstValue[s] ELSE v[s]
Join(type, a, b) == IF type = "and" THEN Min2(a, b) ELSE Max2(a, b)
Unit(type) == IF type = "and" THEN 2 ELSE 0

\* expr_calc_value of a symbol or a comparison.
AtomValue(e, v) ==
    IF e[1] = "sym" THEN ValueOf(e[2], v)
    ELSE IF Compare(e[1], Ordered(e, ValueOf(e[2], v)), Ordered(e, ValueOf(e[3], v))) THEN 2 ELSE 0
-----------------------------------------------------------------------------
Symbols == Bools \cup Tristates

\* The symbol that a joined operand is about; NoSymbol when it cannot be joined.
NoSymbol == "none"
SymbolOf(e, insideNot) ==
    CASE e[1] \in {"sym", "=", "!="} -> e[2]
      [] e[1] = "not" /\ e[2][1] \in insideNot -> e[2][2]
      [] OTHER -> NoSymbol

\* expr_join_or and expr_join_and simplify two operands about one symbol.
Joinable(e1, e2) ==
    /\ SymbolOf(e1, {"sym", "=", "!="}) = SymbolOf(e2, {"sym"})
    /\ SymbolOf(e2, {"sym"}) \in Symbols

Both(op, e1, e2) == e1[1] = op /\ e2[1] = op
Sides(e1, e2) == {e1[3], e2[3]}
\* Mutant of Third: the value that is named is one of those it must not be.
OneOf(two) == CHOOSE c \in Consts : c \in two

Third(two) == CHOOSE c \in Consts : c \notin two

\* e1 || e2 -> ?
JoinOr(e1, e2) ==
    LET s == SymbolOf(e1, {"sym", "=", "!="})
    IN  IF ~Joinable(e1, e2) THEN NoExpr
        ELSE CASE s \in Tristates /\ Both("=", e1, e2) /\ Sides(e1, e2) \subseteq Consts ->
                    Cmp("!=", s, Third(Sides(e1, e2)))
               [] s \in Bools /\ {e1, e2} = {Sym(s), Not(Sym(s))} -> Sym("y")
               [] OTHER -> NoExpr

\* e1 && e2 -> ?
JoinAnd(e1, e2) ==
    LET s == SymbolOf(e1, {"sym", "=", "!="})
        with(e) == {e1, e2} = {Sym(s), e}
        equal == IF e1[1] = "=" THEN e1 ELSE e2
        unequal == IF e1[1] = "=" THEN e2 ELSE e1
        named == s \in Tristates /\ Sides(e1, e2) \subseteq Consts
    IN  IF ~Joinable(e1, e2) THEN NoExpr
        ELSE CASE with(Cmp("=", s, "y")) \/ with(Cmp("!=", s, "m")) -> Cmp("=", s, "y")
               [] with(Cmp("!=", s, "n")) -> Sym(s)
               [] {e1[1], e2[1]} = {"=", "!="} /\ named ->
                    IF equal[3] = unequal[3] THEN Sym("n") ELSE equal
               [] Both("!=", e1, e2) /\ named -> Cmp("=", s, Third(Sides(e1, e2)))
               [] OTHER -> NoExpr
-----------------------------------------------------------------------------
\* Mutant of Negated: the order is turned around and not negated.
Reversed(op) ==
    CASE op = "=" -> "!="  [] op = "!=" -> "="
      [] op = "<" -> ">"  [] op = "<=" -> ">="
      [] op = ">" -> "<"  [] op = ">=" -> "<="

Negated(op) ==
    CASE op = "=" -> "!="  [] op = "!=" -> "="
      [] op = "<" -> ">="  [] op = "<=" -> ">"
      [] op = ">" -> "<="  [] op = ">=" -> "<"

\* Mutant of TransformComparison: that a bool is never m is not known.
KeepComparisonWithM(e) ==
    LET s == e[2]
    IN  IF e[1] \notin {"=", "!="} \/ s \notin Bools \/ e[3] \notin {"n", "y"} THEN e
        ELSE IF <<e[1], e[3]>> \in {<<"=", "y">>, <<"!=", "n">>} THEN Sym(s)
        ELSE Not(Sym(s))

\* A comparison of a bool symbol with a constant.
TransformComparison(e) ==
    LET s == e[2]
    IN  IF e[1] \notin {"=", "!="} \/ s \notin Bools \/ e[3] \notin Consts THEN e
        ELSE CASE e[3] = "m" -> Sym(IF e[1] = "=" THEN "n" ELSE "y")
               [] <<e[1], e[3]>> \in {<<"=", "y">>, <<"!=", "n">>} -> Sym(s)
               [] OTHER -> Not(Sym(s))
==============================================================================
