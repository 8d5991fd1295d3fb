----------------------------- MODULE ParseProofs -----------------------------
(***************************************************************************)
(* What happens to dependencies when a Kconfig file was parsed.            *)
(*                                                                         *)
(* Each rule by which expr.c rewrites one operand, or joins two, keeps     *)
(* their value, for whatever symbols and values.                           *)
(*                                                                         *)
(* The search for recursive dependencies finds a loop exactly when there   *)
(* is one, in every graph of symbols and from whatever symbol it begins.   *)
(* That a report stands for a loop follows from the frames of the stack,   *)
(* each of which is reached by an edge from the one below.  That no loop   *)
(* is missed follows, as long as nothing is reported, from what is behind  *)
(* the search: the symbols that it is done with lead only to such symbols, *)
(* and there is no loop among them.                                        *)
(***************************************************************************)
EXTENDS ExprRules, DepSearch, SequenceTheorems, TLAPS

\* The values that symbols can have: a bool is never m.
Meanings == {v \in [Symbols -> Tri] : \A b \in Bools : v[b] # 1}

\* What the rules are applied to: symbols, comparisons, and their negations.
Comparable == Symbols \cup Consts
Comparison(e) == \E op \in Comparisons, s, t \in Comparable : e = Cmp(op, s, t)
Atom(e) == Comparison(e) \/ \E s \in Comparable : e = Sym(s)
Literal(e) == Atom(e) \/ \E a : Atom(a) /\ e = Not(a)
LiteralValue(e, v) == IF e[1] = "not" THEN 2 - AtomValue(e[2], v) ELSE AtomValue(e, v)

-----------------------------------------------------------------------------
\* The values of what comparisons compare.
LEMMA SideValues ==
    ASSUME NEW v \in Meanings, NEW s \in Comparable
    PROVE  /\ ValueOf(s, v) \in Tri
           /\ s \in Symbols => ValueOf(s, v) = v[s] /\ s \notin Consts
           /\ s \in Consts => ValueOf(s, v) = ConstValue[s]
           /\ s \in Bools => v[s] \in {0, 2}
  BY SymbolsAssumption DEF Meanings, Comparable, Symbols, Consts, ValueOf, ConstValue, Tri

\* A comparison compares two numbers, the same ones whatever its operator.
LEMMA ComparisonValue ==
    ASSUME NEW v, NEW s, NEW t, ValueOf(s, v) \in Int, ValueOf(t, v) \in Int
    PROVE  \E a, b \in Int :
             /\ \A p \in Comparisons :
                  AtomValue(Cmp(p, s, t), v) = IF Compare(p, a, b) THEN 2 ELSE 0
             /\ a = b <=> ValueOf(s, v) = ValueOf(t, v)
<1> DEFINE x == ValueOf(s, v)
           y == ValueOf(t, v)
           named == {s, t} \cap Consts # {}
           a == IF named THEN TextOrder(x) ELSE x
           b == IF named THEN TextOrder(y) ELSE y
<1>1. x \in Int /\ y \in Int
  OBVIOUS
<1>2. ASSUME NEW p \in Comparisons
      PROVE  AtomValue(Cmp(p, s, t), v) = IF Compare(p, a, b) THEN 2 ELSE 0
  <2>1. Cmp(p, s, t)[1] = p /\ Cmp(p, s, t)[2] = s /\ Cmp(p, s, t)[3] = t /\ p # "sym"
    BY DEF Cmp, Comparisons
  <2> QED
    BY <2>1 DEF AtomValue, Ordered
<1> HIDE DEF x, y, named
<1>3. a \in Int /\ b \in Int /\ (a = b <=> x = y)
  BY <1>1 DEF TextOrder
<1> QED
  BY <1>2, <1>3 DEF x, y

\* expr_transform turns !(a op b) around: the comparison with the negated operator has
\* the value of the negation, whatever the two sides are.
THEOREM NegatedKeepsValue ==
    ASSUME NEW v, NEW op \in Comparisons, NEW s, NEW t,
           ValueOf(s, v) \in Int, ValueOf(t, v) \in Int
    PROVE  AtomValue(Cmp(Negated(op), s, t), v) = 2 - AtomValue(Cmp(op, s, t), v)
<1>1. Negated(op) \in Comparisons
  BY DEF Negated, Comparisons
<1>2. PICK a, b \in Int :
        \A p \in Comparisons : AtomValue(Cmp(p, s, t), v) = IF Compare(p, a, b) THEN 2 ELSE 0
  BY ComparisonValue
<1>3. Compare(Negated(op), a, b) <=> ~Compare(op, a, b)
  <2>1. /\ Compare("=", a, b) <=> a = b
        /\ Compare("!=", a, b) <=> a # b
        /\ Compare("<", a, b) <=> a < b
        /\ Compare("<=", a, b) <=> a <= b
        /\ Compare(">", a, b) <=> a > b
        /\ Compare(">=", a, b) <=> a >= b
    BY Zenon DEF Compare
  <2>2. /\ Negated("=") = "!=" /\ Negated("!=") = "=" /\ Negated("<") = ">="
        /\ Negated("<=") = ">" /\ Negated(">") = "<=" /\ Negated(">=") = "<"
    BY DEF Negated
  <2> QED
    BY <2>1, <2>2 DEF Comparisons
<1> QED
  BY <1>1, <1>2, <1>3

\* What the comparisons of a symbol with a constant come to.
LEMMA WithConstant ==
    ASSUME NEW v \in Meanings, NEW s \in Symbols, NEW c \in Consts
    PROVE  /\ AtomValue(Cmp("=", s, c), v) = IF v[s] = ConstValue[c] THEN 2 ELSE 0
           /\ AtomValue(Cmp("!=", s, c), v) = IF v[s] # ConstValue[c] THEN 2 ELSE 0
<1>1. s \in Comparable /\ c \in Comparable /\ "=" \in Comparisons /\ "!=" \in Comparisons
  BY DEF Comparable, Comparisons
<1>2. ValueOf(s, v) = v[s] /\ ValueOf(c, v) = ConstValue[c]
  BY <1>1, SideValues
<1>3. PICK a, b \in Int :
        /\ \A p \in Comparisons : AtomValue(Cmp(p, s, c), v) = IF Compare(p, a, b) THEN 2 ELSE 0
        /\ a = b <=> ValueOf(s, v) = ValueOf(c, v)
  BY <1>1, SideValues, ComparisonValue DEF Tri
<1>4. (Compare("=", a, b) <=> (a = b)) /\ (Compare("!=", a, b) <=> a # b)
  BY DEF Compare
<1> QED
  BY <1>1, <1>2, <1>3, <1>4

\* A literal that is one symbol.
LEMMA OneSymbol ==
    ASSUME NEW v \in Meanings, NEW s \in Comparable
    PROVE  AtomValue(Sym(s), v) = ValueOf(s, v) /\ Sym(s)[1] = "sym" /\ Sym(s)[2] = s
  BY DEF AtomValue, Sym

\* A bool that is compared with a constant becomes the bool, its negation, or a constant,
\* and every other comparison stays (expr_transform).
THEOREM TransformKeepsValue ==
    ASSUME NEW v \in Meanings, NEW e, Comparison(e)
    PROVE  LiteralValue(TransformComparison(e), v) = AtomValue(e, v)
<1>1. PICK op \in Comparisons, s \in Comparable, t \in Comparable : e = Cmp(op, s, t)
  BY DEF Comparison
<1>2. e[1] = op /\ e[2] = s /\ e[3] = t /\ op # "not"
  BY <1>1 DEF Cmp, Comparisons
<1>3. CASE op \notin {"=", "!="} \/ s \notin Bools \/ t \notin Consts
  <2>1. TransformComparison(e) = e
    BY <1>2, <1>3 DEF TransformComparison
  <2> QED
    BY <1>2, <2>1 DEF LiteralValue
<1>4. CASE op \in {"=", "!="} /\ s \in Bools /\ t \in Consts
  <2>1. s \in Symbols /\ v[s] \in {0, 2} /\ ValueOf(s, v) = v[s]
    BY <1>4, SideValues DEF Symbols
  <2>2. e = Cmp(op, s, t)
    BY <1>1
  <2>3. /\ LiteralValue(Sym(s), v) = v[s] /\ LiteralValue(Not(Sym(s)), v) = 2 - v[s]
        /\ LiteralValue(Sym("n"), v) = 0 /\ LiteralValue(Sym("y"), v) = 2
    <3>1. Not(Sym(s))[1] = "not" /\ Not(Sym(s))[2] = Sym(s)
      BY DEF Not
    <3>2. "n" \in Comparable /\ "y" \in Comparable /\ ValueOf("n", v) = 0 /\ ValueOf("y", v) = 2
      BY DEF Comparable, Consts, ValueOf, ConstValue
    <3> QED
      BY <2>1, <3>1, <3>2, OneSymbol DEF LiteralValue
  <2>4. ConstValue["n"] = 0 /\ ConstValue["m"] = 1 /\ ConstValue["y"] = 2
    BY DEF ConstValue
  <2>5. CASE t = "m"
    <3>1. TransformComparison(e) = Sym(IF op = "=" THEN "n" ELSE "y")
      BY <1>2, <1>4, <2>5 DEF TransformComparison
    <3> QED
      BY <1>4, <2>1, <2>2, <2>3, <2>4, <2>5, <3>1, WithConstant
  <2>6. CASE (op = "=" /\ t = "y") \/ (op = "!=" /\ t = "n")
    <3>1. TransformComparison(e) = Sym(s)
      BY <1>2, <1>4, <2>6 DEF TransformComparison
    <3> QED
      BY <1>4, <2>1, <2>2, <2>3, <2>4, <2>6, <3>1, WithConstant
  <2>7. CASE (op = "=" /\ t = "n") \/ (op = "!=" /\ t = "y")
    <3>1. TransformComparison(e) = Not(Sym(s))
      BY <1>2, <1>4, <2>7 DEF TransformComparison
    <3> QED
      BY <1>4, <2>1, <2>2, <2>3, <2>4, <2>7, <3>1, WithConstant
  <2> QED
    BY <1>4, <2>5, <2>6, <2>7 DEF Consts
<1> QED
  BY <1>3, <1>4

-----------------------------------------------------------------------------
\* The shape of a literal that is a comparison.
LEMMA EqualityShape ==
    ASSUME NEW e, Literal(e), e[1] \in {"=", "!="}
    PROVE  e[2] \in Comparable /\ e[3] \in Comparable /\ e = Cmp(e[1], e[2], e[3])
<1>1. CASE \E a : Atom(a) /\ e = Not(a)
  BY <1>1 DEF Not
<1>2. CASE \E s \in Comparable : e = Sym(s)
  BY <1>2 DEF Sym
<1>3. CASE Comparison(e)
  BY <1>3 DEF Comparison, Cmp
<1> QED
  BY <1>1, <1>2, <1>3 DEF Literal, Atom

\* An equality of a symbol with a constant, as a literal.
LEMMA EqualityValue ==
    ASSUME NEW v \in Meanings, NEW e, Literal(e), e[1] \in {"=", "!="},
           e[2] \in Symbols, e[3] \in Consts
    PROVE  /\ e = Cmp(e[1], e[2], e[3])
           /\ e[1] = "=" => LiteralValue(e, v) = IF v[e[2]] = ConstValue[e[3]] THEN 2 ELSE 0
           /\ e[1] = "!=" => LiteralValue(e, v) = IF v[e[2]] # ConstValue[e[3]] THEN 2 ELSE 0
<1>1. e = Cmp(e[1], e[2], e[3])
  BY EqualityShape
<1>2. LiteralValue(e, v) = AtomValue(e, v)
  BY DEF LiteralValue
<1> DEFINE s == e[2]
           c == e[3]
<1>3. /\ AtomValue(Cmp("=", s, c), v) = IF v[s] = ConstValue[c] THEN 2 ELSE 0
      /\ AtomValue(Cmp("!=", s, c), v) = IF v[s] # ConstValue[c] THEN 2 ELSE 0
  BY WithConstant
<1>4. e[1] = "=" => e = Cmp("=", s, c)
  BY <1>1
<1>5. e[1] = "!=" => e = Cmp("!=", s, c)
  BY <1>1
<1> QED
  BY <1>1, <1>2, <1>3, <1>4, <1>5

\* The values of what the rules make.
LEMMA Made ==
    ASSUME NEW v \in Meanings, NEW s \in Symbols
    PROVE  /\ v[s] \in Tri
           /\ LiteralValue(Sym(s), v) = v[s] /\ LiteralValue(Not(Sym(s)), v) = 2 - v[s]
           /\ LiteralValue(Sym("n"), v) = 0 /\ LiteralValue(Sym("y"), v) = 2
           /\ \A c \in Consts :
                /\ LiteralValue(Cmp("=", s, c), v) = IF v[s] = ConstValue[c] THEN 2 ELSE 0
                /\ LiteralValue(Cmp("!=", s, c), v) = IF v[s] # ConstValue[c] THEN 2 ELSE 0
<1>1. s \in Comparable /\ "n" \in Comparable /\ "y" \in Comparable
  BY DEF Comparable, Consts
<1>2. v[s] \in Tri /\ ValueOf(s, v) = v[s] /\ ValueOf("n", v) = 0 /\ ValueOf("y", v) = 2
  BY <1>1, SideValues DEF Consts, ConstValue
<1>3. Not(Sym(s))[1] = "not" /\ Not(Sym(s))[2] = Sym(s)
  BY DEF Not
<1>4. \A c \in Consts : Cmp("=", s, c)[1] = "=" /\ Cmp("!=", s, c)[1] = "!="
  BY DEF Cmp
<1> QED
  BY <1>1, <1>2, <1>3, <1>4, OneSymbol, WithConstant DEF LiteralValue

\* The third of three values.
LEMMA ThirdValue ==
    ASSUME NEW c \in Consts, NEW d \in Consts, c # d
    PROVE  /\ Third({c, d}) \in Consts /\ Third({c, d}) \notin {c, d}
           /\ \A n \in Tri : n # ConstValue[Third({c, d})] <=> n \in {ConstValue[c], ConstValue[d]}
<1>1. \E x \in Consts : x \notin {c, d}
  BY DEF Consts
<1>2. Third({c, d}) \in Consts /\ Third({c, d}) \notin {c, d}
  BY <1>1 DEF Third
<1>3. \A x \in Consts : x \notin {c, d} =>
        \A n \in Tri : n # ConstValue[x] <=> n \in {ConstValue[c], ConstValue[d]}
  BY DEF Consts, ConstValue, Tri
<1> QED
  BY <1>2, <1>3

\* Two different operands of || that expr_join_or makes one of: the value stays.
THEOREM JoinOrKeepsValue ==
    ASSUME NEW v \in Meanings, NEW e1, NEW e2, Literal(e1), Literal(e2), e1 # e2,
           JoinOr(e1, e2) # NoExpr
    PROVE  LiteralValue(JoinOr(e1, e2), v) = Join("or", LiteralValue(e1, v), LiteralValue(e2, v))
<1> DEFINE s == SymbolOf(e1, {"sym", "=", "!="})
           equalities == s \in Tristates /\ Both("=", e1, e2) /\ Sides(e1, e2) \subseteq Consts
           opposites == s \in Bools /\ {e1, e2} = {Sym(s), Not(Sym(s))}
<1>1. Joinable(e1, e2) /\ s \in Symbols /\ (equalities \/ opposites)
  BY DEF JoinOr, Joinable
<1>2. CASE equalities
  <2>1. s = e1[2] /\ s = e2[2] /\ e1[1] = "=" /\ e2[1] = "="
    BY <1>1, <1>2 DEF Joinable, SymbolOf, Both
  <2>2. e1[3] \in Consts /\ e2[3] \in Consts
    BY <1>2 DEF Sides
  <2>3. e1[3] # e2[3]
    BY <1>1, <2>1, <2>2, EqualityValue
  <2>4. JoinOr(e1, e2) = Cmp("!=", s, Third({e1[3], e2[3]}))
    <3>1. ~opposites
      BY <1>2, SymbolsAssumption
    <3> QED
      BY <1>1, <1>2, <3>1 DEF JoinOr, Sides
  <2> DEFINE c == e1[3]
             d == e2[3]
             third == Third({c, d})
  <2>5. /\ third \in Consts
        /\ \A n \in Tri : n # ConstValue[third] <=> n \in {ConstValue[c], ConstValue[d]}
    BY <2>2, <2>3, ThirdValue
  <2>6. /\ LiteralValue(e1, v) = IF v[s] = ConstValue[c] THEN 2 ELSE 0
        /\ LiteralValue(e2, v) = IF v[s] = ConstValue[d] THEN 2 ELSE 0
    BY <1>1, <2>1, <2>2, EqualityValue
  <2>7. /\ LiteralValue(Cmp("!=", s, third), v) = IF v[s] # ConstValue[third] THEN 2 ELSE 0
        /\ v[s] \in Tri
    BY <1>1, <2>5, Made
  <2> HIDE DEF c, d, third, s
  <2> QED
    BY <2>4, <2>5, <2>6, <2>7 DEF Join, Max2, c, d, third
<1>3. CASE opposites
  <2>1. JoinOr(e1, e2) = Sym("y")
    <3>1. ~equalities
      BY <1>3, SymbolsAssumption
    <3> QED
      BY <1>1, <1>3, <3>1 DEF JoinOr
  <2>2. /\ v[s] \in {0, 2} /\ LiteralValue(Sym("y"), v) = 2
        /\ LiteralValue(Sym(s), v) = v[s] /\ LiteralValue(Not(Sym(s)), v) = 2 - v[s]
    BY <1>1, <1>3, SideValues, Made DEF Comparable
  <2>3. (e1 = Sym(s) /\ e2 = Not(Sym(s))) \/ (e1 = Not(Sym(s)) /\ e2 = Sym(s))
    BY <1>3
  <2> HIDE DEF s
  <2> QED
    BY <2>1, <2>2, <2>3 DEF Join, Max2
<1> QED
  BY <1>1, <1>2, <1>3

\* Two different operands of && that expr_join_and makes one of: the value stays.
THEOREM JoinAndKeepsValue ==
    ASSUME NEW v \in Meanings, NEW e1, NEW e2, Literal(e1), Literal(e2), e1 # e2,
           JoinAnd(e1, e2) # NoExpr
    PROVE  LiteralValue(JoinAnd(e1, e2), v) =
             Join("and", LiteralValue(e1, v), LiteralValue(e2, v))
<1> DEFINE s == SymbolOf(e1, {"sym", "=", "!="})
           with(e) == {e1, e2} = {Sym(s), e}
           equal == IF e1[1] = "=" THEN e1 ELSE e2
           unequal == IF e1[1] = "=" THEN e2 ELSE e1
           named == s \in Tristates /\ Sides(e1, e2) \subseteq Consts
           isY == with(Cmp("=", s, "y")) \/ with(Cmp("!=", s, "m"))
           isIt == with(Cmp("!=", s, "n"))
           oneOfEach == {e1[1], e2[1]} = {"=", "!="} /\ named
           unequals == Both("!=", e1, e2) /\ named
<1>1. Joinable(e1, e2) /\ s \in Symbols
  BY DEF JoinAnd, Joinable
<1>2. JoinAnd(e1, e2) = CASE isY -> Cmp("=", s, "y")
                          [] isIt -> Sym(s)
                          [] oneOfEach -> IF equal[3] = unequal[3] THEN Sym("n") ELSE equal
                          [] unequals -> Cmp("=", s, Third(Sides(e1, e2)))
                          [] OTHER -> NoExpr
  BY <1>1 DEF JoinAnd
<1>3. /\ Sym(s)[1] = "sym" /\ Cmp("=", s, "y")[1] = "=" /\ Cmp("!=", s, "m")[1] = "!="
      /\ Cmp("!=", s, "n")[1] = "!=" /\ Cmp("!=", s, "m")[3] = "m" /\ Cmp("!=", s, "n")[3] = "n"
  BY DEF Sym, Cmp
<1>4. /\ isY => ~isIt /\ ~oneOfEach /\ ~unequals
      /\ isIt => ~oneOfEach /\ ~unequals
      /\ oneOfEach => ~unequals
  <2>1. isY \/ isIt => "sym" \in {e1[1], e2[1]}
    BY <1>3
  <2>2. oneOfEach \/ unequals => "sym" \notin {e1[1], e2[1]}
    BY DEF Both
  <2>3. ~(oneOfEach /\ unequals)
    BY DEF Both
  <2>4. ~(isY /\ isIt)
    BY <1>3
  <2> QED
    BY <2>1, <2>2, <2>3, <2>4
<1>5. /\ v[s] \in Tri
      /\ LiteralValue(Sym(s), v) = v[s] /\ LiteralValue(Sym("n"), v) = 0
      /\ \A c \in Consts :
            /\ LiteralValue(Cmp("=", s, c), v) = IF v[s] = ConstValue[c] THEN 2 ELSE 0
            /\ LiteralValue(Cmp("!=", s, c), v) = IF v[s] # ConstValue[c] THEN 2 ELSE 0
  BY <1>1, Made
<1>6. /\ ConstValue["n"] = 0 /\ ConstValue["m"] = 1 /\ ConstValue["y"] = 2
      /\ "n" \in Consts /\ "m" \in Consts /\ "y" \in Consts
  BY DEF ConstValue, Consts
<1>7. CASE isY
  <2>1. JoinAnd(e1, e2) = Cmp("=", s, "y")
    BY <1>2, <1>4, <1>7
  <2>2. PICK e \in {Cmp("=", s, "y"), Cmp("!=", s, "m")} :
          (e1 = Sym(s) /\ e2 = e) \/ (e1 = e /\ e2 = Sym(s))
    BY <1>7
  <2>3. \/ LiteralValue(e, v) = IF v[s] = 2 THEN 2 ELSE 0
        \/ LiteralValue(e, v) = IF v[s] # 1 THEN 2 ELSE 0
    BY <1>5, <1>6, <2>2
  <2>4. LiteralValue(JoinAnd(e1, e2), v) = IF v[s] = 2 THEN 2 ELSE 0
    BY <1>5, <1>6, <2>1
  <2> HIDE DEF s
  <2> QED
    BY <1>5, <2>2, <2>3, <2>4 DEF Join, Min2, Tri
<1>8. CASE isIt
  <2>1. JoinAnd(e1, e2) = Sym(s)
    BY <1>2, <1>4, <1>8
  <2>2. LET e == Cmp("!=", s, "n") IN (e1 = Sym(s) /\ e2 = e) \/ (e1 = e /\ e2 = Sym(s))
    BY <1>8
  <2>3. LiteralValue(Cmp("!=", s, "n"), v) = IF v[s] # 0 THEN 2 ELSE 0
    BY <1>5, <1>6
  <2> HIDE DEF s
  <2> QED
    BY <1>5, <2>1, <2>2, <2>3 DEF Join, Min2, Tri
<1>9. CASE oneOfEach
  <2>1. /\ (e1[1] = "=" /\ e2[1] = "!=") \/ (e1[1] = "!=" /\ e2[1] = "=")
        /\ e1[3] \in Consts /\ e2[3] \in Consts
    BY <1>9 DEF Sides
  <2>2. e1[2] = s /\ e2[2] = s
    BY <1>1, <2>1 DEF Joinable, SymbolOf
  <2>3. equal \in {e1, e2} /\ unequal \in {e1, e2} /\ {e1, e2} = {equal, unequal}
    OBVIOUS
  <2>4. equal[1] = "=" /\ unequal[1] = "!=" /\ equal[3] \in Consts /\ unequal[3] \in Consts
    BY <2>1
  <2>5. /\ LiteralValue(equal, v) = IF v[s] = ConstValue[equal[3]] THEN 2 ELSE 0
        /\ LiteralValue(unequal, v) = IF v[s] # ConstValue[unequal[3]] THEN 2 ELSE 0
    BY <1>1, <2>1, <2>2, <2>4, EqualityValue
  <2>6. JoinAnd(e1, e2) = IF equal[3] = unequal[3] THEN Sym("n") ELSE equal
    BY <1>2, <1>4, <1>9
  <2>7. \A c, d \in Consts : ConstValue[c] = ConstValue[d] => c = d
    BY DEF Consts, ConstValue
  <2>8. (e1 = equal /\ e2 = unequal) \/ (e1 = unequal /\ e2 = equal)
    OBVIOUS
  <2> HIDE DEF s, equal, unequal
  <2>9. LiteralValue(JoinAnd(e1, e2), v) =
          IF v[s] = ConstValue[equal[3]] /\ v[s] # ConstValue[unequal[3]] THEN 2 ELSE 0
    BY <1>5, <2>4, <2>5, <2>6, <2>7
  <2> QED
    BY <2>5, <2>8, <2>9 DEF Join, Min2
<1>10. CASE unequals
  <2>1. e1[1] = "!=" /\ e2[1] = "!=" /\ e1[3] \in Consts /\ e2[3] \in Consts
    BY <1>10 DEF Both, Sides
  <2>2. e1[2] = s /\ e2[2] = s
    BY <1>1, <2>1 DEF Joinable, SymbolOf
  <2>3. e1[3] # e2[3]
    BY <1>1, <2>1, <2>2, EqualityValue
  <2> DEFINE c == e1[3]
             d == e2[3]
             third == Third({c, d})
  <2>4. JoinAnd(e1, e2) = Cmp("=", s, third)
    BY <1>2, <1>4, <1>10 DEF Sides
  <2>5. /\ third \in Consts
        /\ \A n \in Tri : n # ConstValue[third] <=> n \in {ConstValue[c], ConstValue[d]}
    BY <2>1, <2>3, ThirdValue
  <2>6. /\ LiteralValue(e1, v) = IF v[s] # ConstValue[c] THEN 2 ELSE 0
        /\ LiteralValue(e2, v) = IF v[s] # ConstValue[d] THEN 2 ELSE 0
    BY <1>1, <2>1, <2>2, EqualityValue
  <2>7. LiteralValue(Cmp("=", s, third), v) = IF v[s] = ConstValue[third] THEN 2 ELSE 0
    BY <1>5, <2>5
  <2> HIDE DEF c, d, third, s
  <2> QED
    BY <1>5, <2>4, <2>5, <2>6, <2>7 DEF Join, Min2
<1>11. CASE ~isY /\ ~isIt /\ ~oneOfEach /\ ~unequals
  <2> HIDE DEF isY, isIt, oneOfEach, unequals
  <2> QED
    BY <1>2, <1>11
<1> QED
  BY <1>7, <1>8, <1>9, <1>10, <1>11

\* What expr_transform does to the negation of a level, and expr_eliminate_yn to the
\* constants in one: the negation of && is || of the negations and the other way around;
\* the operand that is dropped changes nothing, and the one that stays decides alone.
THEOREM LevelsKeepValue ==
    ASSUME NEW v \in Meanings, NEW a \in Tri, NEW b \in Tri
    PROVE  /\ 2 - Join("and", a, b) = Join("or", 2 - a, 2 - b)
           /\ 2 - Join("or", a, b) = Join("and", 2 - a, 2 - b)
           /\ \A type \in {"and", "or"} :
                /\ LiteralValue(Neutral(type), v) = Unit(type)
                /\ Join(type, a, LiteralValue(Neutral(type), v)) = a
                /\ Join(type, a, LiteralValue(Absorbing(type), v)) =
                     LiteralValue(Absorbing(type), v)
<1>1. LiteralValue(Sym("n"), v) = 0 /\ LiteralValue(Sym("y"), v) = 2
  <2>1. "n" \in Comparable /\ "y" \in Comparable /\ ValueOf("n", v) = 0 /\ ValueOf("y", v) = 2
    BY DEF Comparable, Consts, ValueOf, ConstValue
  <2> QED
    BY <2>1, OneSymbol DEF LiteralValue
<1>2. 2 - Join("and", a, b) = Join("or", 2 - a, 2 - b)
  BY DEF Join, Min2, Max2, Tri
<1>3. 2 - Join("or", a, b) = Join("and", 2 - a, 2 - b)
  BY DEF Join, Min2, Max2, Tri
<1>4. ASSUME NEW type \in {"and", "or"}
      PROVE  /\ LiteralValue(Neutral(type), v) = Unit(type)
             /\ Join(type, a, LiteralValue(Neutral(type), v)) = a
             /\ Join(type, a, LiteralValue(Absorbing(type), v)) =
                  LiteralValue(Absorbing(type), v)
  <2>1. /\ LiteralValue(Neutral(type), v) = IF type = "and" THEN 2 ELSE 0
        /\ LiteralValue(Absorbing(type), v) = IF type = "and" THEN 0 ELSE 2
    BY <1>1 DEF Neutral, Absorbing
  <2> QED
    BY <2>1 DEF Join, Min2, Max2, Unit, Tri
<1> QED
  BY <1>2, <1>3, <1>4

-----------------------------------------------------------------------------
IsHead(g) == group[g] = g
Levels == 1 .. Len(stack)

TypesOK ==
    /\ GraphOK(refs, members, group)
    /\ todo \in Seq(Nodes)
    /\ stack \in Seq(Frame)
    /\ check \subseteq Nodes /\ checked \subseteq Nodes
    /\ loop \in Nodes \cup {NoLoop}
    /\ reports \in Nat /\ errors = 0

\* A frame is the search of a group, at a place in it; the next frame is that of the
\* operand it called; and no group is searched within its own search.
FrameOK(f) ==
    /\ IsHead(f.sym) /\ f.sym \in checked
    /\ f.nth <= Len(members[f.sym])
    /\ f.next \in 1 .. Len(OperandsOf(f)) + 1

Descends(f, g) == f.next > 1 /\ group[OperandsOf(f)[f.next - 1]] = g

PathOK ==
    /\ \A k \in Levels : FrameOK(stack[k])
    /\ \A k \in Levels : k < Len(stack) => Descends(stack[k], stack[k + 1].sym)
    /\ \A j, k \in Levels : stack[j].sym = stack[k].sym => j = k

\* The flags say what is on the stack, other than a choice whose members are searched.
OnWay(s) ==
    \E k \in Levels : group[s] = stack[k].sym /\ (s = stack[k].sym => stack[k].nth = 0)
FlagsOK ==
    /\ \A s \in Nodes : s \in checked <=> group[s] \in checked
    /\ \A s \in Nodes : s \in check <=> OnWay(s)

\* A loop that is on its way back ends at a frame of the stack.
Open(g) == \E k \in Levels : stack[k].sym = g
LoopOK ==
    /\ reports > 0 => Recursive
    /\ loop # NoLoop => reports > 0 /\ Open(group[loop])

\* The groups whose search has ended.
Done == {g \in Nodes : IsHead(g) /\ g \in checked /\ ~Open(g)}
DoneClosed == \A g \in Done : \A h \in Nodes : Edge(g, h) => h \in Done
DoneAcyclic == \A gs \in SUBSET Done : ~Endless(gs)

\* What the frame at level k has behind it: the operands of the parts of its group that
\* were searched, and those of the part under way.  A choice below, whose own search is
\* over, has no flag and may have been passed over.
Part(g, m) == IF m = 0 THEN g ELSE members[g][m]
Settled(k, s, r) == group[r] \in Done \/ (r = stack[k].sym /\ s # r)
Passed(k, r) == \E j \in Levels : j < k /\ r = stack[j].sym /\ stack[j].nth > 0
Child(k, i, r) ==
    /\ k < Len(stack) /\ i + 1 = stack[k].next
    /\ group[r] = stack[k + 1].sym

PartsSettled(k) ==
    \A m \in Nat : m < stack[k].nth =>
        \A i \in DOMAIN refs[Part(stack[k].sym, m)] :
            Settled(k, Part(stack[k].sym, m), refs[Part(stack[k].sym, m)][i])
OperandsSettled(k) ==
    \A i \in Nat \ {0} : i < stack[k].next =>
        \/ Settled(k, Searching(stack[k]), OperandsOf(stack[k])[i])
        \/ Passed(k, OperandsOf(stack[k])[i])
        \/ Child(k, i, OperandsOf(stack[k])[i])

Behind == DoneClosed /\ DoneAcyclic /\ \A k \in Levels : PartsSettled(k) /\ OperandsSettled(k)
DoneOK == reports = 0 => Behind

Covered == \A s \in Nodes : refs[s] # <<>> => s \in Elements(todo) \/ group[s] \in checked

SearchInv == TypesOK /\ PathOK /\ FlagsOK /\ LoopOK /\ DoneOK /\ Covered

-----------------------------------------------------------------------------
\* A group and its parts.
LEMMA Groups ==
    ASSUME GraphOK(refs, members, group)
    PROVE  /\ \A s \in Nodes : group[s] \in Nodes /\ IsHead(group[s])
           /\ \A s \in Nodes : refs[s] \in Seq(Nodes) /\ members[s] \in Seq(Nodes)
           /\ \A g \in Nodes : Family(g) \subseteq Nodes
           /\ \A g, s \in Nodes : IsHead(g) => (s \in Family(g) <=> group[s] = g)
<1>1. /\ refs \in [Nodes -> Seq(Nodes)] /\ members \in [Nodes -> Seq(Nodes)]
      /\ group \in [Nodes -> Nodes] /\ GroupsOK(members, group)
  BY DEF GraphOK
<1>2. \A s \in Nodes : members[s] \in Seq(Nodes)
  BY <1>1
<1>3. \A g \in Nodes : Family(g) \subseteq Nodes
  <2>1. TAKE g \in Nodes
  <2>2. members[g] \in Seq(Nodes)
    BY <1>2
  <2>3. Elements(members[g]) \subseteq Nodes
    BY <2>2 DEF Elements
  <2> QED
    BY <2>3 DEF Family
<1>4. \A g, s \in Nodes : IsHead(g) => (s \in Family(g) <=> group[s] = g)
  BY <1>1 DEF GroupsOK, Family, Elements, IsHead
<1> QED
  BY <1>1, <1>2, <1>3, <1>4 DEF GroupsOK, IsHead

LEMMA Parts ==
    ASSUME GraphOK(refs, members, group), NEW g \in Nodes, IsHead(g)
    PROVE  /\ Part(g, 0) = g
           /\ \A m \in Nat : m <= Len(members[g]) => Part(g, m) \in Nodes /\ group[Part(g, m)] = g
           /\ \A m \in Nat : 0 < m /\ m <= Len(members[g]) =>
                Part(g, m) # g /\ Part(g, m) \in Elements(members[g])
           /\ \A s \in Nodes : group[s] = g =>
                \E m \in Nat : m <= Len(members[g]) /\ s = Part(g, m)
<1>1. members[g] \in Seq(Nodes) /\ group[g] = g /\ GroupsOK(members, group)
  BY Groups DEF GraphOK, IsHead
<1>2. \A m \in 1 .. Len(members[g]) :
        members[g][m] \in Nodes /\ group[members[g][m]] = g /\ members[g][m] # g
  BY <1>1 DEF GroupsOK
<1>3. \A m \in Nat : 0 < m /\ m <= Len(members[g]) => m \in 1 .. Len(members[g]) /\ m # 0
  BY <1>1
<1>4. \A m \in Nat : 0 < m /\ m <= Len(members[g]) =>
        /\ Part(g, m) \in Nodes /\ group[Part(g, m)] = g /\ Part(g, m) # g
        /\ Part(g, m) \in Elements(members[g])
  BY <1>1, <1>2, <1>3 DEF Part, Elements
<1>5. Part(g, 0) = g
  BY DEF Part
<1>6. ASSUME NEW s \in Nodes, group[s] = g
      PROVE  \E m \in Nat : m <= Len(members[g]) /\ s = Part(g, m)
  <2>1. CASE s = g
    BY <1>1, <1>5, <2>1
  <2>2. CASE s # g
    <3>1. PICK m \in DOMAIN members[g] : s = members[g][m]
      BY <1>1, <1>6, <2>2 DEF GroupsOK, Elements
    <3>2. m \in Nat /\ m # 0 /\ m <= Len(members[g])
      BY <1>1, <3>1
    <3> QED
      BY <3>1, <3>2 DEF Part
  <2> QED
    BY <2>1, <2>2
<1>7. ASSUME NEW m \in Nat, m <= Len(members[g])
      PROVE  Part(g, m) \in Nodes /\ group[Part(g, m)] = g
  BY <1>1, <1>4, <1>5, <1>7
<1> QED
  BY <1>4, <1>5, <1>6, <1>7

\* The graph does not change, and with it the edges and loops.
LEMMA SameGraph ==
    ASSUME UNCHANGED graph
    PROVE  /\ \A g, h : Edge(g, h)' <=> Edge(g, h)
           /\ \A gs : Endless(gs)' <=> Endless(gs)
           /\ Recursive' <=> Recursive
           /\ GraphOK(refs, members, group)' <=> GraphOK(refs, members, group)
           /\ \A g : IsHead(g)' <=> IsHead(g)
           /\ \A g : Family(g)' = Family(g)
           /\ \A g, m : Part(g, m)' = Part(g, m)
           /\ \A f : Searching(f)' = Searching(f) /\ OperandsOf(f)' = OperandsOf(f)
<1>1. refs' = refs /\ members' = members /\ group' = group
  BY DEF graph
<1>2. \A g, h : Edge(g, h)' <=> Edge(g, h)
  BY <1>1 DEF Edge
<1>3. \A gs : Endless(gs)' <=> Endless(gs)
  BY <1>2 DEF Endless
<1>4. Recursive' <=> Recursive
  BY <1>3 DEF Recursive
<1>5. /\ \A g : IsHead(g)' <=> IsHead(g)
      /\ \A g : Family(g)' = Family(g)
      /\ \A g, m : Part(g, m)' = Part(g, m)
      /\ \A f : Searching(f)' = Searching(f) /\ OperandsOf(f)' = OperandsOf(f)
  BY <1>1 DEF IsHead, Family, Part, Searching, OperandsOf
<1>6. GraphOK(refs, members, group)' <=> GraphOK(refs, members, group)
  BY <1>1
<1> QED
  BY <1>2, <1>3, <1>4, <1>5, <1>6

\* The frames of the stack.
LEMMA Frames ==
    ASSUME TypesOK
    PROVE  /\ Len(stack) \in Nat
           /\ \A k \in Levels : /\ stack[k] \in Frame /\ stack[k].sym \in Nodes
                                /\ stack[k].nth \in Nat /\ stack[k].next \in Nat
           /\ stack # <<>> <=> Len(stack) > 0
           /\ stack # <<>> => Len(stack) \in Levels
<1>1. stack \in Seq(Frame)
  BY DEF TypesOK
<1>2. Len(stack) \in Nat /\ (stack # <<>> <=> Len(stack) > 0)
  BY <1>1
<1>3. \A k \in Levels : stack[k] \in Frame
  BY <1>1 DEF Levels
<1>4. \A f \in Frame : f.sym \in Nodes /\ f.nth \in Nat /\ f.next \in Nat
  BY DEF Frame
<1> QED
  BY <1>2, <1>3, <1>4 DEF Levels

\* What the operands of a frame are.
LEMMA FrameOperands ==
    ASSUME TypesOK, PathOK, NEW k \in Levels
    PROVE  /\ stack[k].sym \in Nodes /\ IsHead(stack[k].sym)
           /\ Searching(stack[k]) = Part(stack[k].sym, stack[k].nth)
           /\ Searching(stack[k]) \in Nodes
           /\ group[Searching(stack[k])] = stack[k].sym
           /\ Searching(stack[k]) = stack[k].sym <=> stack[k].nth = 0
           /\ OperandsOf(stack[k]) \in Seq(Nodes)
           /\ OperandsOf(stack[k]) = refs[Searching(stack[k])]
<1> DEFINE g == stack[k].sym
           m == stack[k].nth
<1>1. g \in Nodes /\ m \in Nat /\ IsHead(g) /\ m <= Len(members[g])
  BY Frames DEF PathOK, FrameOK
<1>2. Searching(stack[k]) = Part(g, m)
  BY DEF Searching, Part
<1>3. GraphOK(refs, members, group)
  BY DEF TypesOK
<1> HIDE DEF g, m
<1>4. Part(g, m) \in Nodes /\ group[Part(g, m)] = g /\ (m = 0 => Part(g, m) = g)
  BY <1>1, <1>3, Parts
<1>5. m # 0 => Part(g, m) # g
  <2>1. SUFFICES ASSUME m # 0 PROVE Part(g, m) # g
    OBVIOUS
  <2>2. 0 < m
    BY <1>1, <2>1
  <2> QED
    BY <1>1, <1>3, <2>2, Parts
<1>6. \A s \in Nodes : refs[s] \in Seq(Nodes)
  BY <1>3, Groups
<1> QED
  BY <1>1, <1>2, <1>4, <1>5, <1>6 DEF g, m, OperandsOf

LEMMA OperandNodes ==
    ASSUME TypesOK, PathOK, NEW k \in Levels, NEW i \in DOMAIN OperandsOf(stack[k])
    PROVE  OperandsOf(stack[k])[i] \in Nodes
<1>1. OperandsOf(stack[k]) \in Seq(Nodes)
  BY FrameOperands
<1> QED
  BY <1>1

-----------------------------------------------------------------------------
\* Each step of the search, by what it does to the frames.
Push(g) ==
    /\ Len(stack') = Len(stack) + 1
    /\ \A k \in Levels : k < Len(stack) => stack'[k] = stack[k]
    /\ stack'[Len(stack) + 1] = Start(g)
Bump ==
    LET n == Len(stack)
    IN  /\ stack'[n].sym = stack[n].sym /\ stack'[n].nth = stack[n].nth
        /\ stack'[n].next = stack[n].next + 1
Advance ==
    /\ Len(stack') = Len(stack)
    /\ \A k \in Levels : k < Len(stack) => stack'[k] = stack[k]
    /\ Bump
Move ==
    LET n == Len(stack)
    IN  /\ Len(stack') = n
        /\ \A k \in Levels : k < n => stack'[k] = stack[k]
        /\ stack'[n].sym = stack[n].sym /\ stack'[n].nth = stack[n].nth + 1
        /\ stack'[n].next = 1
Pop ==
    /\ Len(stack') + 1 = Len(stack)
    /\ \A k \in Levels : k < Len(stack) => stack'[k] = stack[k]

\* The calls are made from a stack st that has the present frames.
Advanced == [stack EXCEPT ![Len(stack)].next = @ + 1]

LEMMA Advances ==
    ASSUME TypesOK, stack # <<>>
    PROVE  /\ Advanced \in Seq(Frame) /\ Len(Advanced) = Len(stack)
           /\ \A k \in Levels : k < Len(stack) => Advanced[k] = stack[k]
           /\ Advanced[Len(stack)].sym = stack[Len(stack)].sym
           /\ Advanced[Len(stack)].nth = stack[Len(stack)].nth
           /\ Advanced[Len(stack)].next = stack[Len(stack)].next + 1
<1> DEFINE n == Len(stack)
           f == [stack[n] EXCEPT !.next = @ + 1]
<1>1. n \in Nat /\ n \in 1 .. n /\ stack \in Seq(Frame) /\ stack[n] \in Frame
  BY Frames DEF TypesOK, Levels
<1>2. f \in Frame /\ f.sym = stack[n].sym /\ f.nth = stack[n].nth /\ f.next = stack[n].next + 1
  BY <1>1 DEF Frame
<1>3. Advanced = [stack EXCEPT ![n] = f]
  BY DEF Advanced
<1> HIDE DEF f, n
<1>4. /\ Advanced \in Seq(Frame) /\ Len(Advanced) = Len(stack) /\ Advanced[n] = f
      /\ \A k \in 1 .. n : k < n => Advanced[k] = stack[k]
  BY <1>1, <1>2, <1>3 DEF n
<1> QED
  BY <1>2, <1>4 DEF n, Levels

LEMMA Pops ==
    ASSUME TypesOK, stack # <<>>
    PROVE  /\ Popped \in Seq(Frame) /\ Len(Popped) + 1 = Len(stack)
           /\ \A k \in Levels : k < Len(stack) => Popped[k] = stack[k]
<1> DEFINE n == Len(stack)
<1>1. n \in Nat /\ n > 0 /\ stack \in Seq(Frame)
  BY Frames DEF TypesOK
<1>2. n - 1 \in Nat /\ \A k \in 1 .. n - 1 : k \in 1 .. n
  BY <1>1
<1>3. Popped = SubSeq(stack, 1, n - 1)
  BY DEF Popped
<1>4. \A k \in 1 .. n - 1 : stack[k] \in Frame
  BY <1>1, <1>2
<1> HIDE DEF n
<1>5. /\ Popped \in Seq(Frame) /\ Len(Popped) = IF 1 <= n - 1 THEN n - 1 - 1 + 1 ELSE 0
      /\ \A k \in 1 .. n - 1 - 1 + 1 : Popped[k] = stack[1 + k - 1]
  BY <1>1, <1>2, <1>3, <1>4, SubSeqProperties
<1>6. Len(Popped) + 1 = n
  BY <1>1, <1>5
<1>7. \A k \in 1 .. n : k < n => Popped[k] = stack[k]
  <2>1. TAKE k \in 1 .. n
  <2>2. HAVE k < n
  <2>3. k \in 1 .. n - 1 - 1 + 1 /\ 1 + k - 1 = k
    BY <1>1, <2>2
  <2> QED
    BY <1>5, <2>3
<1> QED
  BY <1>5, <1>6, <1>7 DEF n, Levels

\* A frame that stays where it is searches what it searched.
LEMMA SameFrame ==
    ASSUME UNCHANGED graph, NEW k, stack'[k].sym = stack[k].sym, stack'[k].nth = stack[k].nth
    PROVE  /\ Searching(stack[k])' = Searching(stack[k])
           /\ OperandsOf(stack[k])' = OperandsOf(stack[k])
  BY DEF graph, Searching, OperandsOf

\* The call that a turn of SearchOperand makes.
Calling(s) ==
    /\ stack # <<>> => /\ Top.next \in DOMAIN OperandsOf(Top) /\ s = OperandsOf(Top)[Top.next]
                      /\ Bump
    /\ UNCHANGED graph

LEMMA Called ==
    ASSUME SearchInv, SearchOperand
    PROVE  \E s \in Nodes :
             /\ stack # <<>> /\ s = OperandsOf(Top)[Top.next] /\ Top.next \in DOMAIN OperandsOf(Top)
             /\ Call(s, Advanced)
<1>1. TypesOK /\ PathOK /\ stack # <<>> /\ Len(stack) \in Levels
  BY Frames DEF SearchInv, SearchOperand
<1>2. OperandsOf(Top) \in Seq(Nodes) /\ Top.next \in Nat
  BY <1>1, FrameOperands, Frames DEF Top
<1>3. Top.next >= 1 /\ ~(Top.next > Len(OperandsOf(Top)))
  BY <1>1 DEF PathOK, FrameOK, Top, SearchOperand, Searched
<1>4. Top.next \in DOMAIN OperandsOf(Top)
  BY <1>2, <1>3
<1>5. OperandsOf(Top)[Top.next] \in Nodes
  BY <1>1, <1>4, OperandNodes DEF Top
<1> QED
  BY <1>1, <1>4, <1>5 DEF SearchOperand, Advanced

-----------------------------------------------------------------------------
\* A call that begins a search puts a frame on the stack.
LEMMA BeginsFrame ==
    ASSUME TypesOK, PathOK, NEW s \in Nodes,
           \/ stack = <<>> /\ Begins(s, <<>>)
           \/ stack # <<>> /\ Begins(s, Advanced)
    PROVE  /\ stack' \in Seq(Frame) /\ Push(group[s])
           /\ stack # <<>> => Bump
<1>1. group[s] \in Nodes
  BY Groups DEF TypesOK
<1>2. Start(group[s]) \in Frame /\ stack \in Seq(Frame) /\ Len(stack) \in Nat
  BY <1>1, Frames DEF Start, Frame, TypesOK
<1>3. CASE stack = <<>> /\ Begins(s, <<>>)
  <2>1. stack' = Append(stack, Start(group[s]))
    BY <1>3 DEF Begins
  <2> QED
    BY <1>2, <1>3, <2>1, AppendProperties DEF Push, Levels
<1>4. CASE stack # <<>> /\ Begins(s, Advanced)
  <2>1. stack' = Append(Advanced, Start(group[s]))
    BY <1>4 DEF Begins
  <2>2. Advanced \in Seq(Frame) /\ Len(Advanced) = Len(stack)
    BY <1>4, Advances
  <2>3. /\ stack' \in Seq(Frame) /\ Len(stack') = Len(stack) + 1
        /\ stack'[Len(stack) + 1] = Start(group[s])
        /\ \A k \in Levels : stack'[k] = Advanced[k]
    BY <1>2, <2>1, <2>2, AppendProperties DEF Levels
  <2> QED
    BY <1>4, <2>3, Advances, Frames DEF Push, Bump
<1> QED
  BY <1>3, <1>4

\* Its path: what the frame on top called is the group of the new one.
LEMMA BeginsPath ==
    ASSUME SearchInv, NEW s \in Nodes, s \notin checked, Calling(s),
           Push(group[s]), checked' = checked \cup Family(group[s])
    PROVE  PathOK'
<1> DEFINE n == Len(stack)
           g == group[s]
<1>1. /\ TypesOK /\ PathOK /\ UNCHANGED graph /\ n \in Nat
      /\ GraphOK(refs, members, group)
      /\ g \in Nodes /\ IsHead(g) /\ g \notin checked
  BY Groups, Frames DEF SearchInv, Calling, FlagsOK, TypesOK
<1>2. Len(stack') = n + 1 /\ stack'[n + 1] = Start(g)
  BY DEF Push
<1>3. ASSUME NEW k \in Levels
      PROVE  /\ stack'[k].sym = stack[k].sym /\ stack'[k].nth = stack[k].nth
             /\ k < n => stack'[k].next = stack[k].next
             /\ k = n => /\ stack'[k].next = stack[k].next + 1
                        /\ stack[k].next \in DOMAIN OperandsOf(stack[k])
                        /\ s = OperandsOf(stack[k])[stack[k].next]
  <2>1. n # 0 /\ (k < n \/ k = n) /\ stack # <<>>
    BY <1>1, Frames DEF Levels
  <2> QED
    BY <2>1 DEF Push, Calling, Bump, Top
<1>4. ASSUME NEW k \in Levels PROVE FrameOK(stack[k])'
  <2>1. OperandsOf(stack[k])' = OperandsOf(stack[k])
    BY <1>1, <1>3, SameFrame
  <2>2. FrameOK(stack[k]) /\ OperandsOf(stack[k]) \in Seq(Nodes) /\ stack[k].next \in Nat
    BY <1>1, FrameOperands, Frames DEF PathOK
  <2>3. k < n \/ k = n
    BY <1>1 DEF Levels
  <2>4. stack'[k].next \in 1 .. Len(OperandsOf(stack[k])) + 1
    BY <1>3, <2>2, <2>3 DEF FrameOK
  <2>5. /\ IsHead(stack[k].sym)' /\ stack'[k].sym \in checked'
        /\ stack'[k].nth <= Len(members'[stack'[k].sym])
    BY <1>1, <1>3, <2>2 DEF FrameOK, IsHead, graph
  <2> QED
    BY <2>1, <2>4, <2>5 DEF FrameOK
<1>5. ASSUME NEW k, k = n + 1 PROVE FrameOK(stack[k])'
  <2>1. g \in checked'
    BY DEF Family
  <2>2. refs[g] \in Seq(Nodes) /\ members[g] \in Seq(Nodes)
    BY <1>1, Groups
  <2>3. OperandsOf(stack[k])' = refs[g] /\ Len(members[g]) >= 0 /\ Len(refs[g]) >= 0
    BY <1>1, <1>2, <1>5, <2>2 DEF OperandsOf, Searching, Start, graph
  <2>4. Start(g).sym = g /\ Start(g).nth = 0 /\ Start(g).next = 1
    BY DEF Start
  <2> QED
    BY <1>1, <1>2, <1>5, <2>1, <2>2, <2>3, <2>4 DEF FrameOK, IsHead, graph
<1>6. ASSUME NEW k \in Levels PROVE Descends(stack[k], stack[k + 1].sym)'
  <2>1. OperandsOf(stack[k])' = OperandsOf(stack[k])
    BY <1>1, <1>3, SameFrame
  <2>2. CASE k < n
    <3>1. k + 1 \in Levels /\ Descends(stack[k], stack[k + 1].sym)
      BY <1>1, <2>2 DEF PathOK, Levels
    <3> QED
      BY <1>1, <1>3, <2>1, <2>2, <3>1 DEF Descends, graph
  <2>3. CASE k = n
    <3>1. stack[k].next \in Nat /\ OperandsOf(stack[k]) \in Seq(Nodes)
      BY <1>1, Frames, FrameOperands
    <3>2. stack'[k].next > 1 /\ stack'[k].next - 1 = stack[k].next
      BY <1>3, <2>3, <3>1
    <3>3. stack'[k + 1].sym = g
      BY <1>2, <2>3 DEF Start
    <3> QED
      BY <1>1, <1>3, <2>1, <2>3, <3>2, <3>3 DEF Descends, graph
  <2> QED
    BY <1>1, <2>2, <2>3 DEF Levels
<1>7. \A k \in Levels : stack[k].sym # g
  BY <1>1 DEF PathOK, FrameOK
<1>8. \A k \in Levels' : k = n + 1 \/ k \in Levels
  BY <1>1, <1>2 DEF Levels
<1>9. stack'[n + 1].sym = g
  BY <1>2 DEF Start
<1>10. \A j, k \in Levels' : stack'[j].sym = stack'[k].sym => j = k
  <2>1. TAKE j, k \in Levels'
  <2>2. CASE j \in Levels /\ k \in Levels
    BY <1>1, <1>3, <2>2 DEF PathOK
  <2>3. CASE j = n + 1 \/ k = n + 1
    BY <1>3, <1>7, <1>8, <1>9, <2>3
  <2> QED
    BY <1>8, <2>2, <2>3
<1>11. \A k \in Levels' : k < Len(stack') => k \in Levels
  BY <1>1, <1>2 DEF Levels
<1> QED
  BY <1>4, <1>5, <1>6, <1>8, <1>10, <1>11 DEF PathOK

LEMMA BeginsFlags ==
    ASSUME SearchInv, NEW s \in Nodes, s \notin checked, Calling(s), Push(group[s]),
           check' = check \cup Family(group[s]), checked' = checked \cup Family(group[s])
    PROVE  FlagsOK'
<1> DEFINE n == Len(stack)
           g == group[s]
<1>1. /\ TypesOK /\ FlagsOK /\ UNCHANGED graph /\ n \in Nat /\ group' = group
      /\ g \in Nodes /\ IsHead(g)
      /\ \A x \in Nodes : group[x] \in Nodes /\ IsHead(group[x])
      /\ \A x \in Nodes : x \in Family(g) <=> group[x] = g
  BY Groups, Frames DEF SearchInv, Calling, TypesOK, graph
<1>2. \A x \in Nodes : x \in checked' <=> group[x] \in checked'
  BY <1>1 DEF FlagsOK, IsHead
<1>3. Len(stack') = n + 1 /\ stack'[n + 1].sym = g /\ stack'[n + 1].nth = 0
  BY DEF Push, Start
<1>4. \A k \in Levels : stack'[k].sym = stack[k].sym /\ stack'[k].nth = stack[k].nth
  <2>1. TAKE k \in Levels
  <2>2. n # 0 /\ (k < n \/ k = n) /\ stack # <<>>
    BY <1>1, Frames DEF Levels
  <2> QED
    BY <2>2 DEF Push, Calling, Bump
<1>5. /\ \A k \in Levels : k \in Levels'
      /\ \A k \in Levels' : k \in Levels \/ k = n + 1
      /\ \A k : k = n + 1 => k \in Levels'
  BY <1>1, <1>3 DEF Levels
<1>6. \A x \in Nodes : OnWay(x)' <=> OnWay(x) \/ group[x] = g
  BY <1>1, <1>3, <1>4, <1>5 DEF OnWay
<1>7. \A x \in Nodes : x \in check' <=> OnWay(x)'
  BY <1>1, <1>6 DEF FlagsOK
<1> QED
  BY <1>1, <1>2, <1>7 DEF FlagsOK

\* What is behind a frame that stays stays behind it.
LEMMA StaysBehind ==
    ASSUME TypesOK, UNCHANGED graph, Done \subseteq Done', NEW k \in Levels, k \in Levels',
           \A j \in Levels : j < k => stack'[j] = stack[j],
           stack'[k].sym = stack[k].sym
    PROVE  /\ \A x, r : Settled(k, x, r) => Settled(k, x, r)'
           /\ \A r : Passed(k, r) => Passed(k, r)'
           /\ stack'[k].nth = stack[k].nth /\ PartsSettled(k) => PartsSettled(k)'
<1>1. group' = group /\ refs' = refs /\ members' = members
  BY DEF graph
<1>2. \A x, r : Settled(k, x, r) => Settled(k, x, r)'
  BY <1>1 DEF Settled
<1>3. \A j \in Levels : j < k => j \in Levels'
  BY Frames DEF Levels
<1>4. \A r : Passed(k, r) => Passed(k, r)'
  BY <1>3 DEF Passed
<1>5. ASSUME stack'[k].nth = stack[k].nth, PartsSettled(k)
      PROVE  PartsSettled(k)'
  <2>1. \A m : Part(stack[k].sym, m)' = Part(stack[k].sym, m)
    BY <1>1 DEF Part
  <2> QED
    BY <1>1, <1>2, <1>5, <2>1 DEF PartsSettled
<1> QED
  BY <1>2, <1>4, <1>5

LEMMA BeginsBehind ==
    ASSUME SearchInv, NEW s \in Nodes, s \notin checked, Calling(s), Push(group[s]), Behind,
           checked' = checked \cup Family(group[s])
    PROVE  Behind'
<1> DEFINE n == Len(stack)
           g == group[s]
<1>1. /\ TypesOK /\ FlagsOK /\ PathOK /\ UNCHANGED graph /\ n \in Nat
      /\ g \in Nodes /\ IsHead(g) /\ g \notin checked
      /\ \A x \in Nodes : x \in Family(g) <=> group[x] = g
  BY Groups, Frames DEF SearchInv, Calling, FlagsOK, TypesOK
<1>2. Len(stack') = n + 1 /\ stack'[n + 1].sym = g /\ stack'[n + 1].nth = 0
      /\ stack'[n + 1].next = 1
  BY DEF Push, Start
<1>3. ASSUME NEW k \in Levels
      PROVE  /\ stack'[k].sym = stack[k].sym /\ stack'[k].nth = stack[k].nth
             /\ k < n => stack'[k] = stack[k]
             /\ k = n => /\ stack'[k].next = stack[k].next + 1
                        /\ s = OperandsOf(stack[k])[stack[k].next]
  <2>1. n # 0 /\ (k < n \/ k = n) /\ stack # <<>>
    BY <1>1, Frames DEF Levels
  <2> QED
    BY <2>1 DEF Push, Calling, Bump, Top
<1>4. /\ \A k \in Levels : k \in Levels'
      /\ \A k \in Levels' : k \in Levels \/ k = n + 1
      /\ \A k : k = n + 1 => k \in Levels'
  BY <1>1, <1>2 DEF Levels
<1>5. \A h : Open(h)' <=> Open(h) \/ h = g
  BY <1>2, <1>3, <1>4 DEF Open
<1>6. \A h : IsHead(h)' <=> IsHead(h)
  BY <1>1, SameGraph
<1>7. \A h \in Nodes : IsHead(h) => (h \in Family(g) <=> h = g)
  BY <1>1 DEF IsHead
<1>8. Done' = Done
  BY <1>1, <1>5, <1>6, <1>7 DEF Done
<1>9. DoneClosed' /\ DoneAcyclic'
  <2>1. /\ \A h1, h2 : Edge(h1, h2)' <=> Edge(h1, h2)
        /\ \A gs : Endless(gs)' <=> Endless(gs)
    BY <1>1, SameGraph
  <2> QED
    BY <1>8, <2>1 DEF Behind, DoneClosed, DoneAcyclic
<1>10. ASSUME NEW k \in Levels PROVE PartsSettled(k)' /\ OperandsSettled(k)'
  <2>1. k \in Levels' /\ \A j \in Levels : j < k => stack'[j] = stack[j]
    BY <1>1, <1>3, <1>4 DEF Levels
  <2>2. /\ \A x, r : Settled(k, x, r) => Settled(k, x, r)'
        /\ \A r : Passed(k, r) => Passed(k, r)'
        /\ PartsSettled(k) => PartsSettled(k)'
    BY <1>1, <1>3, <1>8, <2>1, StaysBehind
  <2>3. Searching(stack[k])' = Searching(stack[k]) /\ OperandsOf(stack[k])' = OperandsOf(stack[k])
    BY <1>1, <1>3, SameFrame
  <2>4. PartsSettled(k) /\ OperandsSettled(k)
    BY DEF Behind
  <2>5. CASE k < n
    <3>1. k + 1 \in Levels /\ k < Len(stack')
      BY <1>1, <1>2, <2>5 DEF Levels
    <3>2. \A i, r : Child(k, i, r) => Child(k, i, r)'
      BY <1>1, <1>3, <2>5, <3>1 DEF Child, graph
    <3> QED
      BY <1>3, <2>2, <2>3, <2>4, <2>5, <3>2 DEF OperandsSettled
  <2>6. CASE k = n
    <3>1. \A i, r : ~Child(k, i, r)
      BY <1>1, <2>6 DEF Child
    <3>2. stack[k].next \in Nat /\ stack'[k].next = stack[k].next + 1
      BY <1>1, <1>3, <2>6, Frames
    <3>3. \A i \in Nat : i < stack[k].next + 1 => i < stack[k].next \/ i = stack[k].next
      BY <3>2
    <3>4. ASSUME NEW i, i = stack[k].next PROVE Child(k, i, OperandsOf(stack[k])[i])'
      <4>1. k < Len(stack') /\ i + 1 = stack'[k].next /\ stack'[k + 1].sym = g
        BY <1>1, <1>2, <2>6, <3>2, <3>4
      <4>2. group'[OperandsOf(stack[k])'[i]] = g
        BY <1>1, <1>3, <2>3, <2>6, <3>4 DEF graph
      <4> QED
        BY <4>1, <4>2 DEF Child
    <3> QED
      BY <2>2, <2>3, <2>4, <3>1, <3>2, <3>3, <3>4 DEF OperandsSettled
  <2> QED
    BY <1>1, <2>5, <2>6 DEF Levels
<1>11. ASSUME NEW k, k = n + 1 PROVE PartsSettled(k)' /\ OperandsSettled(k)'
  <2>1. stack'[k].nth = 0 /\ stack'[k].next = 1
    BY <1>2, <1>11
  <2>2. PartsSettled(k)'
    BY <2>1 DEF PartsSettled
  <2>3. \A i \in Nat \ {0} : ~(i < 1)
    OBVIOUS
  <2>4. OperandsSettled(k)'
    BY <2>1, <2>3 DEF OperandsSettled
  <2> QED
    BY <2>2, <2>4
<1> QED
  BY <1>4, <1>9, <1>10, <1>11 DEF Behind

LEMMA BeginsKeeps ==
    ASSUME SearchInv, UNCHANGED graph, NEW s \in Nodes,
           \/ stack = <<>> /\ Begins(s, <<>>)
           \/ /\ stack # <<>> /\ Begins(s, Advanced)
              /\ Top.next \in DOMAIN OperandsOf(Top) /\ s = OperandsOf(Top)[Top.next]
    PROVE  stack' \in Seq(Frame) /\ PathOK' /\ FlagsOK' /\ LoopOK' /\ DoneOK'
<1>1. TypesOK /\ PathOK /\ LoopOK /\ DoneOK
  BY DEF SearchInv
<1>2. /\ s \notin checked /\ loop' = NoLoop /\ reports' = reports
      /\ check' = check \cup Family(group[s]) /\ checked' = checked \cup Family(group[s])
  BY DEF Begins
<1>3. stack' \in Seq(Frame) /\ Push(group[s]) /\ (stack # <<>> => Bump)
  BY <1>1, BeginsFrame
<1>4. Calling(s)
  BY <1>3 DEF Calling
<1>5. PathOK' /\ FlagsOK'
  BY <1>2, <1>3, <1>4, BeginsPath, BeginsFlags
<1>6. LoopOK'
  BY <1>1, <1>2, SameGraph DEF LoopOK
<1>7. DoneOK'
  BY <1>1, <1>2, <1>3, <1>4, BeginsBehind DEF DoneOK
<1> QED
  BY <1>3, <1>5, <1>6, <1>7

-----------------------------------------------------------------------------
\* The stack is a path of edges.
LEMMA PathEdges ==
    ASSUME TypesOK, PathOK, NEW k \in Levels, k < Len(stack)
    PROVE  Edge(stack[k].sym, stack[k + 1].sym)
<1> DEFINE x == Searching(stack[k])
           i == stack[k].next - 1
<1>1. /\ x \in Nodes /\ group[x] = stack[k].sym /\ OperandsOf(stack[k]) = refs[x]
      /\ IsHead(stack[k].sym) /\ refs[x] \in Seq(Nodes)
  BY FrameOperands
<1>2. /\ stack[k].next \in Nat /\ stack[k].next > 1
      /\ stack[k].next <= Len(refs[x]) + 1 /\ group[refs[x][i]] = stack[k + 1].sym
  BY <1>1, Frames DEF PathOK, FrameOK, Descends
<1>3. i \in DOMAIN refs[x]
  BY <1>1, <1>2
<1>4. k + 1 \in Levels /\ k + 1 # k
  BY Frames DEF Levels
<1>5. stack[k + 1].sym # stack[k].sym
  BY <1>4 DEF PathOK
<1>6. refs[x][i] # stack[k].sym
  BY <1>1, <1>2, <1>5 DEF IsHead
<1> HIDE DEF x, i
<1> QED
  BY <1>1, <1>2, <1>3, <1>6 DEF Edge

\* An operand that closes a loop is an edge from the top of the stack back to a frame.
LEMMA Closing ==
    ASSUME TypesOK, PathOK, FlagsOK, stack # <<>>, Top.next \in DOMAIN OperandsOf(Top),
           NEW s \in Nodes, s = OperandsOf(Top)[Top.next], s \in check
    PROVE  Recursive /\ Open(group[s])
<1> DEFINE n == Len(stack)
           x == Searching(stack[n])
           i == stack[n].next
<1>1. PICK k \in Levels : group[s] = stack[k].sym /\ (s = stack[k].sym => stack[k].nth = 0)
  BY DEF FlagsOK, OnWay
<1>2. n \in Nat /\ n \in Levels
  BY Frames
<1>3. /\ x \in Nodes /\ group[x] = stack[n].sym /\ OperandsOf(stack[n]) = refs[x]
      /\ IsHead(stack[n].sym) /\ (x = stack[n].sym <=> stack[n].nth = 0)
  BY <1>2, FrameOperands
<1>4. Edge(stack[n].sym, stack[k].sym)
  <2>1. i \in DOMAIN refs[x] /\ refs[x][i] = s
    BY <1>3 DEF Top
  <2>2. s = stack[n].sym => x = stack[n].sym
    <3>1. SUFFICES ASSUME s = stack[n].sym PROVE x = stack[n].sym
      OBVIOUS
    <3>2. stack[k].sym = stack[n].sym
      BY <1>1, <1>3, <3>1 DEF IsHead
    <3>3. k = n
      BY <1>2, <3>2 DEF PathOK
    <3> QED
      BY <1>1, <1>3, <3>1, <3>3
  <2> HIDE DEF x, i
  <2> QED
    BY <1>1, <1>3, <2>1, <2>2 DEF Edge
<1> DEFINE gs == {stack[j].sym : j \in {l \in Levels : k <= l}}
<1>5. gs \subseteq Nodes /\ stack[k].sym \in gs
  BY Frames DEF Levels
<1>6. ASSUME NEW g \in gs PROVE \E h \in gs : Edge(g, h)
  <2>1. PICK j \in Levels : k <= j /\ g = stack[j].sym
    BY <1>6
  <2>2. CASE j = n
    BY <1>4, <1>5, <2>1, <2>2
  <2>3. CASE j < n
    <3>1. Edge(g, stack[j + 1].sym)
      BY <2>1, <2>3, PathEdges
    <3>2. j + 1 \in Levels /\ k <= j + 1
      BY <1>2, <2>1, <2>3 DEF Levels
    <3> QED
      BY <3>1, <3>2
  <2> QED
    BY <1>2, <2>2, <2>3 DEF Levels
<1> HIDE DEF gs
<1>7. Endless(gs)
  BY <1>5, <1>6 DEF Endless
<1> QED
  BY <1>1, <1>5, <1>7 DEF Recursive, Open

\* An operand that is passed over is settled.
LEMMA Skipping ==
    ASSUME TypesOK, PathOK, FlagsOK, stack # <<>>,
           NEW s \in Nodes, s \in checked \ check
    PROVE  \/ Settled(Len(stack), Searching(Top), s)
           \/ Passed(Len(stack), s)
<1> DEFINE n == Len(stack)
<1>1. n \in Nat /\ n \in Levels /\ GraphOK(refs, members, group)
  BY Frames DEF TypesOK
<1>2. group[s] \in Nodes /\ IsHead(group[s]) /\ group[s] \in checked /\ ~OnWay(s)
  BY <1>1, Groups DEF FlagsOK
<1>3. CASE ~Open(group[s])
  BY <1>2, <1>3 DEF Settled, Done
<1>4. CASE Open(group[s])
  <2>1. PICK j \in Levels : stack[j].sym = group[s]
    BY <1>4 DEF Open
  <2>2. s = stack[j].sym /\ stack[j].nth # 0 /\ stack[j].nth \in Nat
    BY <1>2, <2>1, Frames DEF OnWay
  <2>3. CASE j = n
    <3>1. Searching(stack[n]) # stack[n].sym
      BY <1>1, <2>2, <2>3, FrameOperands
    <3> QED
      BY <2>2, <2>3, <3>1 DEF Settled, Top
  <2>4. CASE j < n
    <3>1. stack[j].nth > 0
      BY <2>2
    <3> QED
      BY <2>1, <2>2, <2>4, <3>1 DEF Passed
  <2> QED
    BY <1>1, <2>3, <2>4 DEF Levels
<1> QED
  BY <1>3, <1>4

\* A call that begins nothing.
LEMMA AdvanceKeeps ==
    ASSUME SearchInv, SearchOperand, NEW s \in Nodes,
           s = OperandsOf(Top)[Top.next], Top.next \in DOMAIN OperandsOf(Top),
           Closes(s, Advanced) \/ Skips(s, Advanced)
    PROVE  stack' \in Seq(Frame) /\ PathOK' /\ FlagsOK' /\ LoopOK' /\ DoneOK'
<1> DEFINE n == Len(stack)
<1>1. /\ TypesOK /\ PathOK /\ FlagsOK /\ LoopOK /\ DoneOK
      /\ UNCHANGED graph /\ stack # <<>> /\ loop = NoLoop
  BY DEF SearchInv, SearchOperand
<1>2. stack' = Advanced /\ check' = check /\ checked' = checked
  BY DEF Closes, Skips
<1>3. n \in Nat /\ n \in Levels /\ Levels' = Levels /\ Len(stack') = n
  BY <1>1, <1>2, Advances, Frames DEF Levels
<1>4. \A k \in Levels :
        /\ stack'[k].sym = stack[k].sym /\ stack'[k].nth = stack[k].nth
        /\ k < n => stack'[k] = stack[k]
        /\ k = n => stack'[k].next = stack[k].next + 1
  BY <1>1, <1>2, <1>3, Advances DEF Levels
<1>5. stack' \in Seq(Frame)
  BY <1>1, <1>2, Advances
<1>6. group' = group /\ members' = members /\ refs' = refs
  BY <1>1 DEF graph
<1>7. PathOK'
  <2>1. ASSUME NEW k \in Levels PROVE FrameOK(stack[k])'
    <3>1. OperandsOf(stack[k])' = OperandsOf(stack[k])
      BY <1>1, <1>4, SameFrame
    <3>2. FrameOK(stack[k]) /\ OperandsOf(stack[k]) \in Seq(Nodes) /\ stack[k].next \in Nat
      BY <1>1, FrameOperands, Frames DEF PathOK
    <3>3. k < n \/ k = n
      BY <1>3 DEF Levels
    <3>4. k = n => stack[k].next \in DOMAIN OperandsOf(stack[k])
      BY DEF Top
    <3>5. stack'[k].next \in 1 .. Len(OperandsOf(stack[k])) + 1
      BY <1>4, <3>2, <3>3, <3>4 DEF FrameOK
    <3> QED
      BY <1>2, <1>4, <1>6, <3>1, <3>2, <3>5 DEF FrameOK, IsHead
  <2>2. ASSUME NEW k \in Levels, k < n PROVE Descends(stack[k], stack[k + 1].sym)'
    <3>1. OperandsOf(stack[k])' = OperandsOf(stack[k])
      BY <1>1, <1>4, SameFrame
    <3>2. k + 1 \in Levels
      BY <1>3, <2>2 DEF Levels
    <3>3. Descends(stack[k], stack[k + 1].sym)
      BY <1>1, <2>2 DEF PathOK
    <3> QED
      BY <1>4, <1>6, <2>2, <3>1, <3>2, <3>3 DEF Descends
  <2>3. \A j, k \in Levels : stack'[j].sym = stack'[k].sym => j = k
    BY <1>1, <1>4 DEF PathOK
  <2> QED
    BY <1>3, <2>1, <2>2, <2>3 DEF PathOK
<1>8. FlagsOK'
  <2>1. \A x \in Nodes : OnWay(x)' <=> OnWay(x)
    BY <1>3, <1>4, <1>6 DEF OnWay
  <2> QED
    BY <1>1, <1>2, <1>6, <2>1 DEF FlagsOK
<1>9. \A h : Open(h)' <=> Open(h)
  BY <1>3, <1>4 DEF Open
<1>10. CASE Closes(s, Advanced)
  <2>1. s \in check /\ loop' = s /\ reports' = reports + 1 /\ reports \in Nat
    BY <1>1, <1>10 DEF Closes, TypesOK
  <2>2. Recursive /\ Open(group[s])
    BY <1>1, <2>1, Closing
  <2>3. LoopOK'
    <3>1. Recursive' /\ reports' > 0
      BY <1>1, <2>1, <2>2, SameGraph
    <3>2. Open(group[loop])'
      BY <1>4, <1>3, <1>6, <2>1, <2>2 DEF Open
    <3> QED
      BY <3>1, <3>2 DEF LoopOK
  <2>4. reports' # 0
    BY <2>1
  <2> QED
    BY <1>5, <1>7, <1>8, <2>3, <2>4 DEF DoneOK
<1>11. CASE Skips(s, Advanced)
  <2>1. s \in checked \ check /\ loop' = NoLoop /\ reports' = reports
    BY <1>11 DEF Skips
  <2>2. LoopOK'
    BY <1>1, <2>1, SameGraph DEF LoopOK
  <2>3. ASSUME Behind PROVE Behind'
    <3>1. Done' = Done
      BY <1>2, <1>6, <1>9 DEF Done, IsHead
    <3>2. DoneClosed' /\ DoneAcyclic'
      BY <1>1, <2>3, <3>1, SameGraph DEF Behind, DoneClosed, DoneAcyclic
    <3>3. ASSUME NEW k \in Levels PROVE PartsSettled(k)' /\ OperandsSettled(k)'
      <4>1. k \in Levels' /\ \A j \in Levels : j < k => stack'[j] = stack[j]
        BY <1>3, <1>4 DEF Levels
      <4>2. /\ \A x, r : Settled(k, x, r) => Settled(k, x, r)'
            /\ \A r : Passed(k, r) => Passed(k, r)'
            /\ PartsSettled(k) => PartsSettled(k)'
        BY <1>1, <1>4, <3>1, <4>1, StaysBehind
      <4>3. /\ Searching(stack[k])' = Searching(stack[k])
            /\ OperandsOf(stack[k])' = OperandsOf(stack[k])
        BY <1>1, <1>4, SameFrame
      <4>4. PartsSettled(k) /\ OperandsSettled(k)
        BY <2>3 DEF Behind
      <4>5. CASE k < n
        <5>1. k + 1 \in Levels
          BY <1>3, <4>5 DEF Levels
        <5>2. \A i, r : Child(k, i, r) => Child(k, i, r)'
          BY <1>3, <1>4, <1>6, <4>5, <5>1 DEF Child
        <5> QED
          BY <1>4, <4>2, <4>3, <4>4, <4>5, <5>2 DEF OperandsSettled
      <4>6. CASE k = n
        <5>1. \A i, r : ~Child(k, i, r)
          BY <1>3, <4>6 DEF Child
        <5>2. stack[k].next \in Nat /\ stack'[k].next = stack[k].next + 1
          BY <1>1, <1>4, <4>6, Frames
        <5>3. \A i \in Nat : i < stack[k].next + 1 => i < stack[k].next \/ i = stack[k].next
          BY <5>2
        <5>4. Settled(k, Searching(stack[k]), s) \/ Passed(k, s)
          BY <1>1, <2>1, <4>6, Skipping DEF Top
        <5>5. s = OperandsOf(stack[k])[stack[k].next]
          BY <4>6 DEF Top
        <5> QED
          BY <4>2, <4>3, <4>4, <5>1, <5>2, <5>3, <5>4, <5>5 DEF OperandsSettled
      <4> QED
        BY <1>3, <4>5, <4>6 DEF Levels
    <3> QED
      BY <1>3, <3>2, <3>3 DEF Behind
  <2> QED
    BY <1>1, <1>5, <1>7, <1>8, <2>1, <2>2, <2>3 DEF DoneOK
<1> QED
  BY <1>10, <1>11

\* Once all operands are searched each is settled: one that was passed over is a choice,
\* and the expressions name a member of it, too, which cannot have been passed over.
LEMMA SearchedSettled ==
    ASSUME TypesOK, PathOK, Behind, stack # <<>>, Searched(Top)
    PROVE  \A i \in DOMAIN OperandsOf(Top) :
              Settled(Len(stack), Searching(Top), OperandsOf(Top)[i])
<1> DEFINE n == Len(stack)
           x == Searching(stack[n])
<1>1. n \in Nat /\ n \in Levels /\ GraphOK(refs, members, group)
  BY Frames DEF TypesOK
<1>2. /\ x \in Nodes /\ group[x] = stack[n].sym /\ refs[x] \in Seq(Nodes)
      /\ OperandsOf(Top) = refs[x] /\ Searching(Top) = x
      /\ stack[n].next \in Nat /\ stack[n].next > Len(refs[x])
      /\ IsHead(stack[n].sym)
  BY <1>1, FrameOperands, Frames DEF Top, Searched
<1> HIDE DEF x
<1>3. ASSUME NEW i \in DOMAIN refs[x]
      PROVE  Settled(n, x, refs[x][i]) \/ Passed(n, refs[x][i])
  <2>1. i \in Nat \ {0} /\ i < stack[n].next
    BY <1>2
  <2>2. OperandsSettled(n) /\ x = Searching(stack[n]) /\ refs[x] = OperandsOf(stack[n])
    BY <1>1, <1>2 DEF Behind, x, Top
  <2>3. ~Child(n, i, refs[x][i])
    BY <1>1 DEF Child
  <2> QED
    BY <2>1, <2>2, <2>3 DEF OperandsSettled
<1>4. ASSUME NEW i \in DOMAIN refs[x], Passed(n, refs[x][i])
      PROVE  FALSE
  <2> DEFINE t == refs[x][i]
  <2>1. PICK j \in Levels : j < n /\ t = stack[j].sym /\ stack[j].nth > 0
    BY <1>4 DEF Passed
  <2>2. /\ t \in Nodes /\ IsHead(t) /\ stack[j].nth <= Len(members[t])
        /\ t # stack[n].sym /\ members[t] \in Seq(Nodes) /\ stack[j].nth \in Nat
    BY <1>1, <2>1, Frames, Groups DEF PathOK, FrameOK
  <2>3. members[t] # <<>>
    BY <2>1, <2>2
  <2>4. t \in Elements(refs[x])
    BY DEF Elements
  <2> HIDE DEF t
  <2>5. Elements(refs[x]) \cap Elements(members[t]) # {}
    BY <1>1, <1>2, <2>2, <2>3, <2>4 DEF GraphOK, NamesMembers
  <2>6. PICK l \in DOMAIN refs[x] : refs[x][l] \in Elements(members[t])
    BY <2>5 DEF Elements
  <2>7. group[refs[x][l]] = t /\ refs[x][l] # t
    <3>1. PICK q \in DOMAIN members[t] : refs[x][l] = members[t][q]
      BY <2>6 DEF Elements
    <3>2. GroupsOK(members, group)
      BY <1>1 DEF GraphOK
    <3> QED
      BY <2>2, <3>1, <3>2 DEF GroupsOK
  <2>8. t \notin Done
    BY <2>1 DEF Done, Open
  <2>9. refs[x][l] # stack[n].sym
    BY <1>2, <2>2, <2>7 DEF IsHead
  <2>10. ~Passed(n, refs[x][l])
    BY <2>7 DEF Passed, PathOK, FrameOK, IsHead
  <2> QED
    BY <1>3, <2>7, <2>8, <2>9, <2>10 DEF Settled
<1> QED
  BY <1>2, <1>3, <1>4

-----------------------------------------------------------------------------
\* The move of a choice to its next member.
LEMMA MoveShape ==
    ASSUME TypesOK, stack # <<>>, Top.nth < Len(members[Top.sym]),
           stack' = Append(Popped, [sym |-> Top.sym, nth |-> Top.nth + 1, next |-> 1])
    PROVE  stack' \in Seq(Frame) /\ Move
<1> DEFINE n == Len(stack)
           f == [sym |-> Top.sym, nth |-> Top.nth + 1, next |-> 1]
<1>1. /\ n \in Nat /\ n > 0 /\ Popped \in Seq(Frame) /\ Len(Popped) + 1 = n
      /\ \A k \in Levels : k < n => Popped[k] = stack[k]
  BY Pops, Frames
<1>2. Top.sym \in Nodes /\ Top.nth \in Nat
  BY Frames DEF Top
<1>3. f \in Frame /\ f.sym = Top.sym /\ f.nth = Top.nth + 1 /\ f.next = 1
  BY <1>2 DEF Frame
<1> HIDE DEF f
<1>4. stack' = Append(Popped, f)
  BY DEF f
<1>5. Len(Popped) \in Nat
  BY <1>1
<1>6. /\ stack' \in Seq(Frame) /\ Len(stack') = Len(Popped) + 1
      /\ stack'[Len(Popped) + 1] = f
      /\ \A k \in 1 .. Len(Popped) : stack'[k] = Popped[k]
  BY <1>1, <1>3, <1>4, AppendProperties
<1>7. \A k \in Levels : k < n => k \in 1 .. Len(Popped)
  BY <1>1, <1>5 DEF Levels
<1> QED
  BY <1>1, <1>3, <1>6, <1>7 DEF Move, Top

LEMMA MoveKeeps ==
    ASSUME SearchInv, NextMember
    PROVE  stack' \in Seq(Frame) /\ PathOK' /\ FlagsOK' /\ LoopOK' /\ DoneOK'
<1> DEFINE n == Len(stack)
<1>1. /\ TypesOK /\ PathOK /\ FlagsOK /\ LoopOK /\ DoneOK /\ UNCHANGED graph
      /\ stack # <<>> /\ Searched(Top) /\ Top.nth < Len(members[Top.sym])
      /\ check' = check \ {Top.sym}
      /\ checked' = checked /\ reports' = reports /\ loop' = loop
  BY DEF SearchInv, NextMember
<1>2. stack' \in Seq(Frame) /\ Move
  BY <1>1, MoveShape DEF NextMember
<1>3. n \in Nat /\ n \in Levels /\ Len(stack') = n /\ Levels' = Levels
  BY <1>1, <1>2, Frames DEF Move, Levels
<1>4. group' = group /\ members' = members /\ refs' = refs
  BY <1>1 DEF graph
<1>5. \A k \in Levels :
        /\ stack'[k].sym = stack[k].sym
        /\ k < n => stack'[k] = stack[k]
        /\ k = n => stack'[k].nth = stack[k].nth + 1 /\ stack'[k].next = 1
  BY <1>2, <1>3 DEF Move, Levels
<1>6. PathOK'
  <2>1. ASSUME NEW k \in Levels, k < n
        PROVE  FrameOK(stack[k])' /\ Descends(stack[k], stack[k + 1].sym)'
    <3>1. OperandsOf(stack[k])' = OperandsOf(stack[k])
      BY <1>1, <1>5, <2>1, SameFrame
    <3>2. k + 1 \in Levels /\ FrameOK(stack[k]) /\ Descends(stack[k], stack[k + 1].sym)
      BY <1>1, <1>3, <2>1 DEF PathOK, Levels
    <3> QED
      BY <1>1, <1>4, <1>5, <2>1, <3>1, <3>2 DEF FrameOK, Descends, IsHead
  <2>2. ASSUME NEW k \in Levels, k = n PROVE FrameOK(stack[k])'
    <3>1. stack[k].nth \in Nat /\ stack[k].nth < Len(members[stack[k].sym])
          /\ stack[k].sym \in Nodes /\ FrameOK(stack[k])
      BY <1>1, <2>2, Frames DEF Top, PathOK
    <3>2. members[stack[k].sym] \in Seq(Nodes)
      BY <1>1, <3>1, Groups DEF TypesOK
    <3>3. stack'[k].nth <= Len(members[stack[k].sym]) /\ stack'[k].nth \in Nat
      BY <1>5, <2>2, <3>1, <3>2
    <3>4. OperandsOf(stack[k])' = refs[Part(stack[k].sym, stack'[k].nth)]
      BY <1>4, <1>5 DEF OperandsOf, Searching, Part
    <3>5. Part(stack[k].sym, stack'[k].nth) \in Nodes
      BY <1>1, <3>1, <3>3, Parts DEF TypesOK, FrameOK
    <3>6. OperandsOf(stack[k])' \in Seq(Nodes)
      BY <1>1, <3>4, <3>5, Groups DEF TypesOK
    <3>7. stack'[k].next \in 1 .. Len(OperandsOf(stack[k])') + 1
      BY <1>5, <2>2, <3>6
    <3> QED
      BY <1>1, <1>4, <1>5, <3>1, <3>3, <3>7 DEF FrameOK, IsHead
  <2>3. \A j, k \in Levels : stack'[j].sym = stack'[k].sym => j = k
    BY <1>1, <1>5 DEF PathOK
  <2>4. \A k \in Levels : k < n \/ k = n
    BY <1>3 DEF Levels
  <2> QED
    BY <1>3, <2>1, <2>2, <2>3, <2>4 DEF PathOK
<1>7. FlagsOK'
  <2>1. IsHead(Top.sym) /\ Top = stack[n]
    BY <1>1, <1>3 DEF PathOK, FrameOK, Top
  <2>2. ASSUME NEW x \in Nodes, x # Top.sym PROVE OnWay(x)' <=> OnWay(x)
    <3>1. \A k \in Levels : k = n \/ (k < n /\ stack'[k] = stack[k])
      BY <1>3, <1>5 DEF Levels
    <3> QED
      BY <1>3, <1>4, <1>5, <2>1, <2>2, <3>1 DEF OnWay
  <2>3. ASSUME NEW c, c = Top.sym PROVE ~OnWay(c)'
    <3>1. SUFFICES ASSUME NEW k \in Levels, group[c] = stack[k].sym, stack'[k].nth = 0
                   PROVE  FALSE
      BY <1>3, <1>4, <1>5, <2>1, <2>3 DEF OnWay, IsHead
    <3>2. k = n
      BY <1>1, <1>3, <2>1, <2>3, <3>1 DEF PathOK, IsHead
    <3>3. stack[k].nth \in Nat /\ stack'[k].nth = stack[k].nth + 1
      BY <1>1, <1>5, <3>2, Frames
    <3> QED
      BY <3>1, <3>3
  <2>4. \A x \in Nodes : x \in check' <=> OnWay(x)'
    BY <1>1, <2>2, <2>3 DEF FlagsOK
  <2> QED
    BY <1>1, <1>4, <2>4 DEF FlagsOK
<1>8. \A h : Open(h)' <=> Open(h)
  BY <1>3, <1>5 DEF Open
<1>9. LoopOK'
  BY <1>1, <1>4, <1>8, SameGraph DEF LoopOK
<1>10. ASSUME Behind PROVE Behind'
  <2>1. Done' = Done
    BY <1>1, <1>4, <1>8 DEF Done, IsHead
  <2>2. DoneClosed' /\ DoneAcyclic'
    BY <1>1, <1>10, <2>1, SameGraph DEF Behind, DoneClosed, DoneAcyclic
  <2>3. ASSUME NEW k \in Levels PROVE PartsSettled(k)' /\ OperandsSettled(k)'
    <3>1. k \in Levels' /\ \A j \in Levels : j < k => stack'[j] = stack[j]
      BY <1>3, <1>5 DEF Levels
    <3>2. /\ \A x, r : Settled(k, x, r) => Settled(k, x, r)'
          /\ \A r : Passed(k, r) => Passed(k, r)'
          /\ stack'[k].nth = stack[k].nth /\ PartsSettled(k) => PartsSettled(k)'
      BY <1>1, <1>5, <2>1, <3>1, StaysBehind
    <3>3. PartsSettled(k) /\ OperandsSettled(k)
      BY <1>10 DEF Behind
    <3>4. CASE k < n
      <4>1. k + 1 \in Levels
        BY <1>3, <3>4 DEF Levels
      <4>2. \A i, r : Child(k, i, r) => Child(k, i, r)'
        BY <1>3, <1>4, <1>5, <3>4, <4>1 DEF Child
      <4>3. /\ Searching(stack[k])' = Searching(stack[k])
            /\ OperandsOf(stack[k])' = OperandsOf(stack[k])
        BY <1>1, <1>5, <3>4, SameFrame
      <4> QED
        BY <1>5, <3>2, <3>3, <3>4, <4>2, <4>3 DEF OperandsSettled
    <3>5. CASE k = n
      <4>1. \A i \in Nat \ {0} : ~(i < 1)
        OBVIOUS
      <4>2. OperandsSettled(k)'
        BY <1>5, <3>5, <4>1 DEF OperandsSettled
      <4>3. \A i \in DOMAIN OperandsOf(Top) : Settled(k, Searching(Top), OperandsOf(Top)[i])
        BY <1>1, <1>10, <3>5, SearchedSettled
      <4>4. /\ Searching(Top) = Part(stack[k].sym, stack[k].nth)
            /\ OperandsOf(Top) = refs[Part(stack[k].sym, stack[k].nth)]
            /\ stack[k].nth \in Nat
        BY <1>1, <3>5, FrameOperands, Frames DEF Top
      <4>5. \A m \in Nat : m < stack[k].nth + 1 => m < stack[k].nth \/ m = stack[k].nth
        BY <4>4
      <4>6. \A m : Part(stack[k].sym, m)' = Part(stack[k].sym, m)
        BY <1>4, <1>5 DEF Part
      <4>7. \A m \in Nat : m < stack'[k].nth =>
              \A i \in DOMAIN refs[Part(stack[k].sym, m)] :
                Settled(k, Part(stack[k].sym, m), refs[Part(stack[k].sym, m)][i])
        BY <1>5, <3>3, <3>5, <4>3, <4>4, <4>5 DEF PartsSettled
      <4>8. PartsSettled(k)'
        BY <1>4, <3>2, <4>6, <4>7 DEF PartsSettled
      <4> QED
        BY <4>2, <4>8
    <3> QED
      BY <1>3, <3>4, <3>5 DEF Levels
  <2> QED
    BY <1>3, <2>2, <2>3 DEF Behind
<1> QED
  BY <1>1, <1>2, <1>6, <1>7, <1>9, <1>10 DEF DoneOK

-----------------------------------------------------------------------------
\* The end of a search takes its frame off the stack.
LEMMA LeaveKeeps ==
    ASSUME SearchInv, stack # <<>>, Leave, UNCHANGED <<graph, checked>>
    PROVE  stack' \in Seq(Frame) /\ Pop /\ PathOK' /\ FlagsOK'
<1> DEFINE n == Len(stack)
<1>1. /\ TypesOK /\ PathOK /\ FlagsOK /\ checked' = checked /\ UNCHANGED graph
      /\ stack' = Popped /\ check' = check \ Family(Top.sym)
  BY DEF SearchInv, Leave
<1>2. stack' \in Seq(Frame) /\ Pop
  BY <1>1, Pops DEF Pop
<1>3. n \in Nat /\ n \in Levels /\ Len(stack') + 1 = n /\ Len(stack') \in Nat
  BY <1>1, <1>2, Frames DEF Pop
<1>4. /\ \A k \in Levels' : k \in Levels /\ k < n
      /\ \A k \in Levels : k < n => k \in Levels'
  BY <1>3 DEF Levels
<1>5. \A k \in Levels : k < n => stack'[k] = stack[k]
  BY <1>2 DEF Pop
<1>6. group' = group /\ members' = members /\ refs' = refs
  BY <1>1 DEF graph
<1>7. PathOK'
  <2>1. ASSUME NEW k \in Levels, k < n
        PROVE  FrameOK(stack[k])' /\ Descends(stack[k], stack[k + 1].sym)
    <3>1. OperandsOf(stack[k])' = OperandsOf(stack[k])
      BY <1>1, <1>5, <2>1, SameFrame
    <3>2. FrameOK(stack[k]) /\ Descends(stack[k], stack[k + 1].sym)
      BY <1>1, <2>1 DEF PathOK
    <3> QED
      BY <1>1, <1>5, <1>6, <2>1, <3>1, <3>2 DEF FrameOK, IsHead
  <2>2. ASSUME NEW k \in Levels', k < Len(stack')
        PROVE  Descends(stack[k], stack[k + 1].sym)'
    <3>1. k \in Levels /\ k < n /\ k + 1 \in Levels /\ k + 1 < n
      BY <1>3, <1>4, <2>2 DEF Levels
    <3>2. OperandsOf(stack[k])' = OperandsOf(stack[k])
      BY <1>1, <1>5, <3>1, SameFrame
    <3> QED
      BY <1>5, <1>6, <2>1, <3>1, <3>2 DEF Descends
  <2>3. \A j, k \in Levels' : stack'[j].sym = stack'[k].sym => j = k
    BY <1>1, <1>4, <1>5 DEF PathOK
  <2> QED
    BY <1>4, <2>1, <2>2, <2>3 DEF PathOK
<1>8. FlagsOK'
  <2>1. IsHead(Top.sym) /\ Top = stack[n] /\ Top.sym \in Nodes
    BY <1>1, <1>3, Frames DEF PathOK, FrameOK, Top
  <2>2. ASSUME NEW x \in Nodes
        PROVE  OnWay(x)' <=> OnWay(x) /\ x \notin Family(Top.sym)
    <3>1. x \in Family(Top.sym) <=> group[x] = stack[n].sym
      BY <1>1, <2>1, Groups DEF TypesOK
    <3>2. \A k \in Levels : k < n <=> stack[k].sym # stack[n].sym
      BY <1>1, <1>3 DEF PathOK, Levels
    <3> QED
      BY <1>4, <1>5, <1>6, <3>1, <3>2 DEF OnWay
  <2>3. \A x \in Nodes : x \in check' <=> OnWay(x)'
    BY <1>1, <2>2 DEF FlagsOK
  <2> QED
    BY <1>1, <1>6, <2>3 DEF FlagsOK
<1> QED
  BY <1>2, <1>7, <1>8

LEMMA UnwindKeeps ==
    ASSUME SearchInv, Unwind
    PROVE  stack' \in Seq(Frame) /\ PathOK' /\ FlagsOK' /\ LoopOK' /\ DoneOK'
<1> DEFINE n == Len(stack)
<1>1. /\ TypesOK /\ PathOK /\ LoopOK /\ stack # <<>> /\ loop # NoLoop /\ Leave
      /\ UNCHANGED graph /\ checked' = checked /\ reports' = reports
      /\ loop' = IF loop \in Family(Top.sym) THEN NoLoop ELSE loop
  BY DEF SearchInv, Unwind
<1>2. stack' \in Seq(Frame) /\ Pop /\ PathOK' /\ FlagsOK'
  BY <1>1, LeaveKeeps
<1>3. reports > 0 /\ reports \in Nat /\ loop \in Nodes /\ Open(group[loop])
  BY <1>1 DEF LoopOK, TypesOK
<1>4. DoneOK'
  BY <1>1, <1>3 DEF DoneOK
<1>5. Recursive'
  BY <1>1, <1>3, SameGraph DEF LoopOK
<1>6. ASSUME loop' # NoLoop PROVE Open(group[loop])'
  <2>1. loop' = loop /\ loop \notin Family(Top.sym) /\ group' = group
    BY <1>1, <1>6 DEF graph
  <2>2. n \in Nat /\ n \in Levels /\ Len(stack') + 1 = n /\ Len(stack') \in Nat
    BY <1>1, <1>2, Frames DEF Pop
  <2>3. group[loop] # stack[n].sym
    <3>1. IsHead(stack[n].sym) /\ stack[n].sym \in Nodes
      BY <1>1, <2>2, Frames DEF PathOK, FrameOK
    <3> QED
      BY <1>1, <1>3, <2>1, <3>1, Groups DEF TypesOK, Top
  <2>4. PICK k \in Levels : stack[k].sym = group[loop]
    BY <1>3 DEF Open
  <2>5. k < n /\ k \in Levels'
    BY <2>2, <2>3, <2>4 DEF Levels
  <2>6. stack'[k].sym = group[loop]
    BY <1>2, <2>4, <2>5 DEF Pop
  <2> QED
    BY <2>1, <2>5, <2>6 DEF Open
<1>7. LoopOK'
  BY <1>1, <1>3, <1>5, <1>6 DEF LoopOK
<1> QED
  BY <1>2, <1>4, <1>7

\* A group all parts of which were searched leads only to groups that were.
LEMMA GroupSettled ==
    ASSUME TypesOK, PathOK, Behind, stack # <<>>, Searched(Top),
           Top.nth = Len(members[Top.sym]), NEW h \in Nodes, Edge(Top.sym, h)
    PROVE  h \in Done
<1> DEFINE n == Len(stack)
           g == stack[n].sym
<1>1. n \in Levels /\ g \in Nodes /\ IsHead(g) /\ Top = stack[n]
      /\ stack[n].nth = Len(members[g]) /\ stack[n].nth \in Nat
  BY Frames DEF PathOK, FrameOK, Top
<1>2. PICK x \in Nodes : \E i \in DOMAIN refs[x] :
        /\ group[x] = g /\ group[refs[x][i]] = h /\ ~(refs[x][i] = g /\ x # g)
  BY <1>1 DEF Edge
<1>3. PICK i \in DOMAIN refs[x] :
        /\ group[x] = g /\ group[refs[x][i]] = h /\ ~(refs[x][i] = g /\ x # g)
  BY <1>2
<1>4. PICK m \in Nat : m <= Len(members[g]) /\ x = Part(g, m)
  BY <1>1, <1>3, Parts DEF TypesOK
<1>5. Settled(n, x, refs[x][i])
  <2>1. CASE m < stack[n].nth
    BY <1>1, <1>3, <1>4, <2>1 DEF Behind, PartsSettled
  <2>2. CASE m = stack[n].nth
    <3>1. Searching(Top) = x /\ OperandsOf(Top) = refs[x]
      BY <1>1, <1>4, <2>2, FrameOperands
    <3> QED
      BY <1>3, <3>1, SearchedSettled
  <2> QED
    BY <1>1, <1>4, <2>1, <2>2
<1> QED
  BY <1>3, <1>5 DEF Settled

LEMMA ReturnKeeps ==
    ASSUME SearchInv, Return
    PROVE  stack' \in Seq(Frame) /\ PathOK' /\ FlagsOK' /\ LoopOK' /\ DoneOK'
<1> DEFINE n == Len(stack)
           g == stack[n].sym
<1>1. /\ TypesOK /\ PathOK /\ LoopOK /\ DoneOK /\ stack # <<>> /\ loop = NoLoop /\ Leave
      /\ Searched(Top) /\ Top.nth = Len(members[Top.sym])
      /\ UNCHANGED graph /\ checked' = checked /\ reports' = reports /\ loop' = loop
  BY DEF SearchInv, Return
<1>2. stack' \in Seq(Frame) /\ Pop /\ PathOK' /\ FlagsOK'
  BY <1>1, LeaveKeeps
<1>3. LoopOK'
  BY <1>1, SameGraph DEF LoopOK
<1>4. /\ n \in Nat /\ n \in Levels /\ Len(stack') + 1 = n /\ Len(stack') \in Nat
      /\ g \in Nodes /\ IsHead(g) /\ g \in checked /\ Top.sym = g
  BY <1>1, <1>2, Frames DEF Pop, PathOK, FrameOK, Top
<1>5. /\ \A k \in Levels' : k \in Levels /\ k < n
      /\ \A k \in Levels : k < n => k \in Levels' /\ stack'[k] = stack[k]
  BY <1>2, <1>4 DEF Levels, Pop
<1>6. group' = group /\ members' = members /\ refs' = refs
  BY <1>1 DEF graph
<1>7. \A h : Open(h) <=> Open(h)' \/ h = g
  <2>1. \A k \in Levels : k < n \/ k = n
    BY <1>4 DEF Levels
  <2> QED
    BY <1>4, <1>5, <2>1 DEF Open
<1>8. \A h : h = g => ~Open(h)'
  BY <1>1, <1>4, <1>5 DEF Open, PathOK
<1>9. Done' = Done \cup {g}
  BY <1>1, <1>4, <1>6, <1>7, <1>8 DEF Done, IsHead
<1>10. g \notin Done
  BY <1>4 DEF Done, Open
<1>11. ASSUME Behind PROVE Behind'
  <2>1. \A h \in Nodes : Edge(g, h) => h \in Done
    BY <1>1, <1>4, <1>11, GroupSettled
  <2>2. DoneClosed'
    BY <1>1, <1>9, <1>11, <2>1, SameGraph DEF Behind, DoneClosed
  <2>3. ASSUME NEW gs, gs \subseteq Done \cup {g}, Endless(gs) PROVE FALSE
    <3> DEFINE rest == gs \ {g}
    <3>1. rest \subseteq Done /\ Done \subseteq Nodes
      BY <2>3 DEF Done
    <3>2. \A a \in gs : \E h \in rest : Edge(a, h)
      BY <1>10, <1>11, <2>1, <2>3, <3>1, <1>4 DEF Endless, Behind, DoneClosed
    <3>3. rest # {}
      BY <2>3, <3>2 DEF Endless
    <3>4. Endless(rest)
      BY <3>2, <3>3 DEF Endless
    <3> QED
      BY <1>11, <3>1, <3>4 DEF Behind, DoneAcyclic
  <2>4. DoneAcyclic'
    BY <1>1, <1>9, <2>3, SameGraph DEF DoneAcyclic
  <2>5. ASSUME NEW k \in Levels' PROVE PartsSettled(k)' /\ OperandsSettled(k)'
    <3>1. /\ k \in Levels /\ k < n /\ stack'[k] = stack[k]
          /\ \A j \in Levels : j < k => stack'[j] = stack[j]
      BY <1>4, <1>5 DEF Levels
    <3>2. /\ \A x, r : Settled(k, x, r) => Settled(k, x, r)'
          /\ \A r : Passed(k, r) => Passed(k, r)'
          /\ PartsSettled(k) => PartsSettled(k)'
      BY <1>1, <1>9, <3>1, StaysBehind
    <3>3. PartsSettled(k) /\ OperandsSettled(k)
      BY <1>11, <3>1 DEF Behind
    <3>4. \A i, x, r : Child(k, i, r) => Child(k, i, r)' \/ Settled(k, x, r)'
      <4>1. SUFFICES ASSUME NEW i, NEW x, NEW r, Child(k, i, r)
                     PROVE  Child(k, i, r)' \/ Settled(k, x, r)'
        OBVIOUS
      <4>2. CASE k + 1 = n
        BY <1>6, <1>9, <4>1, <4>2 DEF Child, Settled
      <4>3. CASE k + 1 # n
        <5>1. k + 1 \in Levels /\ k + 1 < n /\ k < Len(stack')
          BY <1>4, <3>1, <4>3 DEF Levels
        <5> QED
          BY <1>5, <1>6, <3>1, <4>1, <5>1 DEF Child
      <4> QED
        BY <4>2, <4>3
    <3>5. /\ Searching(stack[k])' = Searching(stack[k])
          /\ OperandsOf(stack[k])' = OperandsOf(stack[k])
      BY <1>1, <3>1, SameFrame
    <3> QED
      BY <3>1, <3>2, <3>3, <3>4, <3>5 DEF OperandsSettled
  <2> QED
    BY <2>2, <2>4, <2>5 DEF Behind
<1> QED
  BY <1>1, <1>2, <1>3, <1>11 DEF DoneOK

-----------------------------------------------------------------------------
LEMMA OperandKeeps == SearchInv /\ SearchOperand => SearchInv'
<1> SUFFICES ASSUME SearchInv, SearchOperand PROVE SearchInv'
  OBVIOUS
<1>1. TypesOK /\ Covered /\ stack # <<>> /\ UNCHANGED <<graph, todo, errors>>
  BY DEF SearchInv, SearchOperand
<1>2. PICK s \in Nodes :
        /\ s = OperandsOf(Top)[Top.next] /\ Top.next \in DOMAIN OperandsOf(Top)
        /\ Call(s, Advanced)
  BY Called
<1>3. stack' \in Seq(Frame) /\ PathOK' /\ FlagsOK' /\ LoopOK' /\ DoneOK'
  <2>1. CASE Begins(s, Advanced)
    BY <1>1, <1>2, <2>1, BeginsKeeps
  <2>2. CASE Closes(s, Advanced) \/ Skips(s, Advanced)
    BY <1>2, <2>2, AdvanceKeeps
  <2> QED
    BY <1>2, <2>1, <2>2 DEF Call
<1>4. /\ check' \subseteq Nodes /\ checked \subseteq checked' /\ checked' \subseteq Nodes
      /\ loop' \in Nodes \cup {NoLoop} /\ reports' \in Nat
  <2>1. Family(group[s]) \subseteq Nodes
    BY <1>1, Groups DEF TypesOK
  <2> QED
    BY <1>1, <1>2, <2>1 DEF Call, Begins, Closes, Skips, TypesOK
<1>5. TypesOK'
  BY <1>1, <1>3, <1>4, SameGraph DEF TypesOK
<1>6. Covered'
  BY <1>1, <1>4 DEF Covered, graph
<1> QED
  BY <1>3, <1>5, <1>6 DEF SearchInv

\* The search of the next symbol begins with no flag set, and ends nothing.
LEMMA SymbolsKeep == SearchInv /\ NextSymbol => SearchInv'
<1> SUFFICES ASSUME SearchInv, NextSymbol PROVE SearchInv'
  OBVIOUS
<1>1. /\ TypesOK /\ PathOK /\ FlagsOK /\ LoopOK /\ DoneOK /\ Covered
      /\ stack = <<>> /\ todo # <<>> /\ todo' = Tail(todo)
      /\ UNCHANGED graph /\ Call(Head(todo), <<>>)
      /\ errors' = IF loop = NoLoop THEN errors ELSE errors + 1
  BY DEF SearchInv, NextSymbol
<1> DEFINE s == Head(todo)
<1>2. s \in Nodes /\ todo \in Seq(Nodes)
  BY <1>1 DEF TypesOK
<1>3. Levels = {} /\ Len(stack) = 0
  BY <1>1 DEF Levels
<1>4. loop = NoLoop /\ errors' = 0
  BY <1>1, <1>3 DEF LoopOK, Open, TypesOK
<1>5. s \notin check
  BY <1>1, <1>2, <1>3 DEF FlagsOK, OnWay
<1> HIDE DEF s
<1>6. Skips(s, <<>>) \/ Begins(s, <<>>)
  BY <1>1, <1>5 DEF Call, Closes, s
<1>7. stack' \in Seq(Frame) /\ PathOK' /\ FlagsOK' /\ LoopOK' /\ DoneOK'
  <2>1. CASE Begins(s, <<>>)
    BY <1>1, <1>2, <2>1, BeginsKeeps
  <2>2. CASE Skips(s, <<>>)
    <3>1. /\ stack' = stack /\ check' = check /\ checked' = checked /\ loop' = loop
          /\ reports' = reports /\ refs' = refs /\ members' = members /\ group' = group
      BY <1>1, <1>4, <2>2 DEF Skips, graph
    <3>2. Levels' = {} /\ stack' \in Seq(Frame) /\ Len(stack') = 0
      BY <1>1, <1>3, <3>1 DEF Levels, TypesOK
    <3>3. PathOK'
      BY <3>2 DEF PathOK
    <3>4. \A h : Open(h)' <=> Open(h)
      BY <1>3, <3>2 DEF Open
    <3>5. FlagsOK'
      BY <1>1, <1>3, <3>1, <3>2 DEF FlagsOK, OnWay
    <3>6. LoopOK'
      BY <1>1, <1>4, <3>1, SameGraph DEF LoopOK
    <3>7. Done' = Done
      BY <3>1, <3>4 DEF Done, IsHead
    <3>8. DoneOK'
      BY <1>1, <3>1, <3>2, <3>7, SameGraph DEF DoneOK, Behind, DoneClosed, DoneAcyclic
    <3> QED
      BY <3>2, <3>3, <3>5, <3>6, <3>8
  <2> QED
    BY <1>6, <2>1, <2>2
<1>8. /\ check' \subseteq Nodes /\ checked \subseteq checked' /\ checked' \subseteq Nodes
      /\ loop' \in Nodes \cup {NoLoop} /\ reports' \in Nat /\ group[s] \in checked'
  <2>1. Family(group[s]) \subseteq Nodes /\ group[s] \in Family(group[s])
    BY <1>1, <1>2, Groups DEF TypesOK, Family
  <2>2. CASE Begins(s, <<>>)
    BY <1>1, <2>1, <2>2 DEF Begins, TypesOK
  <2>3. CASE Skips(s, <<>>)
    BY <1>1, <1>2, <2>3 DEF Skips, TypesOK, FlagsOK
  <2> QED
    BY <1>6, <2>2, <2>3
<1>9. todo' \in Seq(Nodes)
  BY <1>1, <1>2
<1>10. TypesOK'
  BY <1>1, <1>4, <1>7, <1>8, <1>9, SameGraph DEF TypesOK
<1>11. \A x \in Elements(todo) : x = s \/ x \in Elements(todo')
  <2>1. ASSUME NEW i \in DOMAIN todo, i # 1
        PROVE  todo[i] \in Elements(todo')
    <3>1. i - 1 \in DOMAIN todo' /\ todo'[i - 1] = todo[i]
      BY <1>1, <1>2, <2>1
    <3> QED
      BY <3>1 DEF Elements
  <2>2. s = todo[1]
    BY <1>1, <1>2 DEF s
  <2> QED
    BY <2>1, <2>2 DEF Elements
<1>12. Covered'
  BY <1>1, <1>8, <1>11 DEF Covered, graph
<1> QED
  BY <1>7, <1>10, <1>12 DEF SearchInv

LEMMA RestKeeps == SearchInv /\ (NextMember \/ Return \/ Unwind) => SearchInv'
<1> SUFFICES ASSUME SearchInv, NextMember \/ Return \/ Unwind PROVE SearchInv'
  OBVIOUS
<1>1. stack' \in Seq(Frame) /\ PathOK' /\ FlagsOK' /\ LoopOK' /\ DoneOK'
  BY MoveKeeps, ReturnKeeps, UnwindKeeps
<1>2. /\ TypesOK /\ Covered /\ UNCHANGED <<graph, todo, checked, reports, errors>>
      /\ check' \subseteq check /\ loop' \in {loop, NoLoop}
  BY DEF SearchInv, NextMember, Return, Unwind, Leave
<1>3. TypesOK'
  BY <1>1, <1>2, SameGraph DEF TypesOK
<1>4. Covered'
  BY <1>2 DEF Covered, graph
<1> QED
  BY <1>1, <1>3, <1>4 DEF SearchInv

LEMMA SearchStarts == SearchInit => SearchInv
<1> SUFFICES ASSUME SearchInit PROVE SearchInv
  OBVIOUS
<1>1. /\ GraphOK(refs, members, group) /\ todo \in Seq(Nodes) /\ AllToDo(refs, todo)
      /\ stack = <<>> /\ check = {} /\ checked = {}
      /\ loop = NoLoop /\ reports = 0 /\ errors = 0
  BY DEF SearchInit
<1>2. TypesOK
  BY <1>1 DEF TypesOK
<1>3. Levels = {} /\ Done = {}
  BY <1>1 DEF Levels, Done
<1>4. PathOK /\ LoopOK
  BY <1>1, <1>3 DEF PathOK, LoopOK
<1>5. FlagsOK
  BY <1>1, <1>3 DEF FlagsOK, OnWay
<1>6. \A gs \in SUBSET Done : ~Endless(gs)
  BY <1>3 DEF Endless
<1>7. DoneOK
  BY <1>3, <1>6 DEF DoneOK, Behind, DoneClosed, DoneAcyclic
<1>8. Covered
  BY <1>1 DEF Covered, AllToDo
<1> QED
  BY <1>2, <1>4, <1>5, <1>7, <1>8 DEF SearchInv

\* What holds in every state of the search: the stack is a path of edges, the flags say
\* what is on it, and what is behind it has no loop.
THEOREM SearchInvariant == SearchSpec => []SearchInv
<1>1. SearchInv /\ UNCHANGED searchVars => SearchInv'
  <2> SUFFICES ASSUME SearchInv, UNCHANGED searchVars PROVE SearchInv'
    OBVIOUS
  <2>1. /\ refs' = refs /\ members' = members /\ group' = group /\ todo' = todo
        /\ stack' = stack /\ check' = check /\ checked' = checked /\ loop' = loop
        /\ reports' = reports /\ errors' = errors
    BY DEF searchVars
  <2>2. UNCHANGED graph
    BY <2>1 DEF graph
  <2>3. TypesOK'
    BY <2>1 DEF SearchInv, TypesOK
  <2>4. PathOK' /\ FlagsOK'
    BY <2>1 DEF SearchInv, PathOK, FlagsOK, OnWay, Levels, FrameOK, Descends, OperandsOf,
      Searching, IsHead
  <2>5. Levels' = Levels /\ \A h : Open(h)' <=> Open(h)
    BY <2>1 DEF Open, Levels
  <2>6. LoopOK'
    BY <2>1, <2>2, <2>5, SameGraph DEF SearchInv, LoopOK
  <2>7. Done' = Done
    BY <2>1, <2>5 DEF Done, IsHead
  <2>8. (DoneClosed' <=> DoneClosed) /\ (DoneAcyclic' <=> DoneAcyclic)
    BY <2>2, <2>7, SameGraph DEF DoneClosed, DoneAcyclic
  <2>9. \A k : PartsSettled(k)' <=> PartsSettled(k)
    BY <2>1, <2>7 DEF PartsSettled, Settled, Part
  <2>10. \A k : OperandsSettled(k)' <=> OperandsSettled(k)
    BY <2>1, <2>5, <2>7 DEF OperandsSettled, Settled, Passed, Child, OperandsOf, Searching
  <2>11. DoneOK'
    BY <2>1, <2>5, <2>8, <2>9, <2>10 DEF SearchInv, DoneOK, Behind
  <2>12. Covered'
    BY <2>1 DEF SearchInv, Covered
  <2> QED
    BY <2>3, <2>4, <2>6, <2>11, <2>12 DEF SearchInv
<1>2. SearchInv /\ [SearchNext]_searchVars => SearchInv'
  BY <1>1, OperandKeeps, SymbolsKeep, RestKeeps DEF SearchNext
<1> QED
  BY <1>2, SearchStarts, PTL DEF SearchSpec

\* For every graph of symbols and choices, and in whatever order conf_parse comes to the
\* symbols: a loop is printed exactly when there is one, and none of them stops conf_parse
\* (sym_check_deps, zconf.y).
THEOREM LoopsAreReported == SearchSpec => []LoopsReported
<1>1. ASSUME SearchInv PROVE LoopsReported
  <2>1. SUFFICES ASSUME todo = <<>>, stack = <<>>
                 PROVE  (reports > 0 <=> Recursive) /\ errors = 0 /\ loop = NoLoop
    BY DEF LoopsReported, Over
  <2>2. TypesOK /\ LoopOK /\ DoneOK /\ Covered /\ Levels = {}
    BY <1>1, <2>1 DEF SearchInv, Levels
  <2>3. errors = 0 /\ loop = NoLoop /\ (reports > 0 => Recursive)
    BY <2>2 DEF TypesOK, LoopOK, Open
  <2>4. ASSUME reports = 0, NEW gs \in SUBSET Nodes, Endless(gs) PROVE FALSE
    <3>1. ASSUME NEW g \in gs PROVE g \in Done
      <4>1. PICK s \in Nodes : group[s] = g /\ refs[s] # <<>>
        BY <2>4, <3>1 DEF Endless, Edge
      <4>2. Elements(todo) = {}
        BY <2>1 DEF Elements
      <4>3. g \in checked
        BY <2>2, <4>1, <4>2 DEF Covered
      <4>4. IsHead(g)
        BY <2>2, <4>1, Groups DEF TypesOK
      <4> QED
        BY <2>2, <2>4, <4>3, <4>4 DEF Done, Open
    <3> QED
      BY <2>2, <2>4, <3>1 DEF DoneOK, Behind, DoneAcyclic
  <2>5. reports \in Nat
    BY <2>2 DEF TypesOK
  <2>6. Recursive => reports > 0
    BY <2>4, <2>5 DEF Recursive
  <2> QED
    BY <2>3, <2>6
<1> QED
  BY <1>1, SearchInvariant, PTL

-----------------------------------------------------------------------------
\* What symbols calculate: calc[g] is how group g gets its value from those of the groups
\* that it depends on; values are settled if none would change when calculated again.
DependsOnEdges(V, calc) ==
    \A g \in Nodes : \A c, d \in [Nodes -> V] :
        (\A h \in Nodes : Edge(g, h) => c[h] = d[h]) => calc[g][c] = calc[g][d]
SettledValues(V, calc) == {c \in [Nodes -> V] : \A g \in Nodes : c[g] = calc[g][c]}
OneSolution ==
    \A V : \A calc \in [Nodes -> [[Nodes -> V] -> V]] :
        DependsOnEdges(V, calc) =>
            \A c, d \in SettledValues(V, calc) : c = d

\* Where the search prints nothing, whatever it is that symbols calculate from those that
\* it follows, there is at most one way for all of them to have the values they calculate:
\* no order of calculation can end with other values (sym_calc_value, symbol.c).
THEOREM ValuesUnique == SearchSpec => [](Over /\ reports = 0 => OneSolution)
<1>1. ASSUME ~Recursive PROVE OneSolution
  <2>1. SUFFICES ASSUME NEW V, NEW calc \in [Nodes -> [[Nodes -> V] -> V]],
                        DependsOnEdges(V, calc),
                        NEW c \in SettledValues(V, calc), NEW d \in SettledValues(V, calc)
                 PROVE  c = d
    BY DEF OneSolution
  <2>2. /\ c \in [Nodes -> V] /\ d \in [Nodes -> V]
        /\ \A g \in Nodes : c[g] = calc[g][c] /\ d[g] = calc[g][d]
    BY DEF SettledValues
  <2> DEFINE differ == {g \in Nodes : c[g] # d[g]}
  <2>3. \A g \in differ : \E h \in differ : Edge(g, h)
    BY <2>1, <2>2 DEF DependsOnEdges
  <2>4. differ = {}
    BY <1>1, <2>3 DEF Recursive, Endless
  <2> QED
    BY <2>2, <2>4
<1>2. LoopsReported => (Over /\ reports = 0 => OneSolution)
  BY <1>1 DEF LoopsReported
<1> QED
  BY <1>2, LoopsAreReported, PTL
==============================================================================
