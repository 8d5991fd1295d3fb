-------------------------------- MODULE Expr --------------------------------
(***************************************************************************)
(* Dependency expressions of the Kconfig front end and the passes that     *)
(* rewrite them (support/kconfig/expr.c, and rewrite_m of menu.c).         *)
(*                                                                         *)
(* An expression is a tuple that starts with its type: <<"sym", s>>,       *)
(* <<"not", e>>, <<"and", es>>, <<"or", es>> and <<op, s, t>> for the      *)
(* comparisons.  The code builds && and || of two operands; every pass     *)
(* treats nested operands of the same type as one level, so a level is one *)
(* sequence here.  NoExpr is the null pointer, which stands for y.         *)
(***************************************************************************)
EXTENDS ExprRules, Sequences, SequencesExt

\* One level of && or ||: nested operands of the same type belong to it.
Operands(type, e) == IF e[1] = type THEN e[2] ELSE <<e>>
Level(type, es) ==
    LET all == FoldLeft(LAMBDA acc, e : acc \o Operands(type, e), <<>>, es)
    IN  IF Len(all) = 1 THEN all[1] ELSE <<type, all>>
And(e1, e2) == Level("and", <<e1, e2>>)
Or(e1, e2) == Level("or", <<e1, e2>>)

\* expr_alloc_and and expr_alloc_or: a null operand leaves the other.
AllocAnd(e1, e2) == IF e1 = NoExpr THEN e2 ELSE IF e2 = NoExpr THEN e1 ELSE And(e1, e2)
AllocOr(e1, e2) == IF e1 = NoExpr THEN e2 ELSE IF e2 = NoExpr THEN e1 ELSE Or(e1, e2)

-----------------------------------------------------------------------------
\* expr_calc_value: the value of e.
RECURSIVE Value(_, _)
Value(e, v) ==
    CASE e = NoExpr -> 2
      [] e[1] = "not" -> 2 - Value(e[2], v)
      [] e[1] \in {"and", "or"} ->
            FoldLeft(LAMBDA acc, x : Join(e[1], acc, Value(x, v)), Unit(e[1]), e[2])
      [] OTHER -> AtomValue(e, v)

\* The operands of e in the order in which they are calculated.
RECURSIVE SymbolsOf(_)
SymbolsOf(e) ==
    CASE e = NoExpr -> <<>>
      [] e[1] = "sym" -> <<e[2]>>
      [] e[1] = "not" -> SymbolsOf(e[2])
      [] e[1] \in {"and", "or"} -> FoldLeft(LAMBDA acc, x : acc \o SymbolsOf(x), <<>>, e[2])
      [] OTHER -> <<e[2], e[3]>>

RECURSIVE ContainsSymbol(_, _)
ContainsSymbol(e, s) ==
    CASE e = NoExpr -> FALSE
      [] e[1] = "sym" -> e[2] = s
      [] e[1] = "not" -> ContainsSymbol(e[2], s)
      [] e[1] \in {"and", "or"} -> \E i \in DOMAIN e[2] : ContainsSymbol(e[2][i], s)
      [] OTHER -> s \in {e[2], e[3]}

\* An absolute dependency on s: one of the operands of && cannot hold without it.
DependsSymbol(e, s) ==
    e # NoExpr /\ \E i \in DOMAIN Operands("and", e) :
        Operands("and", e)[i] \in {Sym(s), Cmp("=", s, "y"), Cmp("=", s, "m"),
                                   Cmp("!=", s, "n")}
-----------------------------------------------------------------------------
\* The level without its neutral operands, or the absorbing one.
WithoutNeutral(type, es) ==
    LET rest == SelectSeq(es, LAMBDA x : x # Neutral(type))
    IN  CASE Absorbing(type) \in ToSet(es) -> Absorbing(type)
          [] Absorbing(type) \notin ToSet(es) /\ rest = <<>> -> Neutral(type)
          [] OTHER -> Level(type, rest)

RECURSIVE EliminateYn(_)
EliminateYn(e) ==
    IF e[1] \notin {"and", "or"} THEN e
    ELSE WithoutNeutral(e[1], [i \in DOMAIN e[2] |-> EliminateYn(e[2][i])])

Pairs(m, n) == [k \in 1..(m * n) |-> <<((k - 1) \div n) + 1, ((k - 1) % n) + 1>>]

RECURSIVE ExprEq(_, _)

\* __expr_eliminate_eq: every two equal operands of the two levels become neutral.
EliminatePair(type, ls, ij) ==
    LET a == ls[1][ij[1]]
        b == ls[2][ij[2]]
    IN  IF ~(a = b /\ a \in {Sym("y"), Sym("n")}) /\ ExprEq(a, b)
        THEN <<[ls[1] EXCEPT ![ij[1]] = Neutral(type)], [ls[2] EXCEPT ![ij[2]] = Neutral(type)]>>
        ELSE ls

EliminateEqLevel(type, es) ==
    LET ls == [k \in 1..2 |-> Operands(type, es[k])]
        end == FoldLeft(LAMBDA acc, ij : EliminatePair(type, acc, ij), ls,
                        Pairs(Len(ls[1]), Len(ls[2])))
    IN  [k \in 1..2 |-> Level(type, end[k])]

\* As operands of the type of the first, and then of that of the second.
EliminateAs(es, k) ==
    IF es[k][1] \in {"and", "or"} /\ (k = 2 => es[1][1] # es[2][1])
    THEN EliminateEqLevel(es[k][1], es) ELSE es

\* expr_eliminate_eq: the two expressions without what they have in common.
EliminateEq(e1, e2) ==
    IF NoExpr \in {e1, e2} THEN <<e1, e2>>
    ELSE LET es == FoldLeft(EliminateAs, <<e1, e2>>, <<1, 2>>)
         IN  [k \in 1..2 |-> EliminateYn(es[k])]

\* Equal up to the order of operands: nothing is left of either.
NothingLeft(es) == es[1][1] = "sym" /\ es[1] = es[2]
ExprEq(e1, e2) ==
    CASE e1[1] # e2[1] -> FALSE
      [] e1[1] = e2[1] /\ e1[1] = "not" -> ExprEq(e1[2], e2[2])
      [] e1[1] = e2[1] /\ e1[1] \in {"and", "or"} -> NothingLeft(EliminateEq(e1, e2))
      [] OTHER -> e1 = e2
-----------------------------------------------------------------------------
\* Two operands that are equal are one.
JoinTwo(type, e1, e2) ==
    CASE ExprEq(e1, e2) -> e1
      [] ~ExprEq(e1, e2) /\ type = "or" -> JoinOr(e1, e2)
      [] OTHER -> JoinAnd(e1, e2)

\* expr_eliminate_dups1: every operand is joined with every other one; joins
\* counts the simplifications, inside the operands too.
RECURSIVE JoinLevel(_, _)
PutJoined(r, type, ij, in, e) ==
    IF e = NoExpr
    THEN [es |-> [r.es EXCEPT ![ij[1]] = in.e], joins |-> r.joins + in.joins]
    ELSE [es |-> [r.es EXCEPT ![ij[1]] = Neutral(type), ![ij[2]] = e],
          joins |-> r.joins + in.joins + 1]
Inside(e) == IF e[1] \in {"and", "or"} THEN JoinLevel(e[1], e[2]) ELSE [e |-> e, joins |-> 0]
JoinInside(r, type, ij, in) == PutJoined(r, type, ij, in, JoinTwo(type, in.e, r.es[ij[2]]))
JoinPair(type, r, ij) ==
    IF ij[1] = ij[2] THEN r ELSE JoinInside(r, type, ij, Inside(r.es[ij[1]]))
OneLevel(type, r) == [e |-> Level(type, r.es), joins |-> r.joins]
JoinLevel(type, es) ==
    OneLevel(type, FoldLeft(LAMBDA r, ij : JoinPair(type, r, ij), [es |-> es, joins |-> 0],
                            Pairs(Len(es), Len(es))))

\* expr_eliminate_dups: until a pass joins nothing.
RECURSIVE EliminateDups(_)
UntilNone(r) == IF r.joins = 0 THEN r.e ELSE EliminateDups(EliminateYn(r.e))
EliminateDups(e) == IF e[1] \notin {"and", "or"} THEN e ELSE UntilNone(JoinLevel(e[1], e[2]))
-----------------------------------------------------------------------------
\* expr_trans_bool: bool FOO!=n => FOO
RECURSIVE TransBool(_)
TransBool(e) ==
    CASE e[1] \in {"and", "or"} -> Level(e[1], [i \in DOMAIN e[2] |-> TransBool(e[2][i])])
      [] e[1] = "not" -> Not(TransBool(e[2]))
      [] e[1] = "!=" /\ e[2] \in Tristates /\ e[3] = "n" -> Sym(e[2])
      [] OTHER -> e

\* expr_transform: comparisons of bools and negations are rewritten away.
RECURSIVE Transform(_), TransformNot(_)
Transform(e) ==
    CASE e = NoExpr -> e
      [] e[1] \in {"and", "or"} -> Level(e[1], [i \in DOMAIN e[2] |-> Transform(e[2][i])])
      [] e[1] = "not" -> TransformNot(Transform(e[2]))
      [] OTHER -> TransformComparison(e)

TransformNot(e) ==
    CASE e[1] = "not" -> Transform(e[2])
      [] e[1] \in Comparisons -> Cmp(Negated(e[1]), e[2], e[3])
      [] e[1] \in {"and", "or"} ->
            Transform(Level(IF e[1] = "or" THEN "and" ELSE "or",
                            [i \in DOMAIN e[2] |-> Not(e[2][i])]))
      [] e = Sym("y") -> Sym("n")
      [] e = Sym("n") -> Sym("y")
      [] e = Sym("m") -> Sym("m")
      [] OTHER -> Not(e)

\* expr_trans_compare(e, op, "n"), op one of "=" and "!=".
RECURSIVE TransCompare(_, _)
TransCompare(e, op) ==
    LET negate(x) == IF op = "!=" THEN Not(x) ELSE x
        equal == [i \in DOMAIN e[2] |-> TransCompare(e[2][i], "=")]
    IN  CASE e = NoExpr -> negate(Sym("n"))
          [] e[1] = "and" -> negate(Level("or", equal))
          [] e[1] = "or" -> negate(Level("and", equal))
          [] e[1] = "not" -> TransCompare(e[2], IF op = "=" THEN "!=" ELSE "=")
          [] e[1] = "sym" -> Cmp(op, e[2], "n")
          [] OTHER -> IF op = "=" THEN Not(e) ELSE e

\* rewrite_m: "m" is m && MODULES.
RECURSIVE RewriteM(_)
RewriteM(e) ==
    CASE e[1] = "not" -> Not(RewriteM(e[2]))
      [] e[1] \in {"and", "or"} -> Level(e[1], [i \in DOMAIN e[2] |-> RewriteM(e[2][i])])
      [] e = Sym("m") -> And(e, Sym(Modules))
      [] OTHER -> e
=============================================================================
