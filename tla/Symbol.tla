------------------------------- MODULE Symbol -------------------------------
(***************************************************************************)
(* The values of symbols (support/kconfig/symbol.c): a lazily calculated   *)
(* cache over what the user set.  Values are calculated on demand, each at *)
(* most once until everything is invalidated, and calculating one          *)
(* calculates what it depends on; so an operator here takes the state of   *)
(* all symbols and returns the next one.                                   *)
(***************************************************************************)
EXTENDS Menu

VARIABLE M              \* the menu tree that this process has made of its Kconfig file

Empty == -1             \* the value of an int that has none

\* The symbols of this Kconfig file: of a configuration's others none is found.
Declared == {M.node[i].sym : i \in DOMAIN M.node} \ {NoSymbol}

Members(c) == M.members[c]
ChoiceOf(s) == M.choiceOf[s]
IsMember(s) == s \in AllSymbols /\ ChoiceOf(s) # NoSymbol

\* The state of all symbols before a configuration is read.  user is the set of
\* symbols with SYMBOL_DEF_USER; selected and chosen are the members that a choice's
\* def[S_DEF_USER].val and curr.val point to; need is SYMBOL_NEED_SET_CHOICE_VALUES,
\* mark SYMBOL_CHANGED and MENU_CHANGED of the symbol's entry.  crashed is no part of it:
\* a null pointer was used, and the process is gone.
NoValues == [s \in AllSymbols |-> IF s \in Ints THEN Empty ELSE 0]
NoTri == [s \in AllSymbols |-> 0]
NoMember == [c \in ChoiceSyms |-> NoSymbol]
Blank == [curr |-> NoValues, def |-> NoValues, user |-> {}, selected |-> NoMember,
          chosen |-> NoMember, valid |-> {}, write |-> {}, need |-> {}, vis |-> NoTri,
          dir |-> NoTri, rev |-> NoTri, imp |-> NoTri, modules |-> 0, changed |-> FALSE, mark |-> {},
          crashed |-> FALSE]

\* sym_get_type: whether s cannot be m.
IsBool(st, s) ==
    \/ s \in Bools
    \/ s \in Tristates /\ (st.modules = 0 \/ (IsMember(s) /\ st.vis[s] = 2))
-----------------------------------------------------------------------------
\* Symbols are calculated one after the other.
RECURSIVE Calc(_, _), CalcAll(_, _)
CalcAll(st, ss) == IF ss = <<>> THEN st ELSE CalcAll(Calc(st, Head(ss)), Tail(ss))

CurrOf(st, s) == ValueOf(s, st.curr)

\* expr_calc_value: all operands are calculated, from left to right.
ValueIn(st, e) == [st |-> st, val |-> Value(e, st.curr)]
Eval(st, e) == ValueIn(CalcAll(st, SymbolsOf(e)), e)

\* The first of the properties ks whose condition is not n; 0 when there is none.
Look(r, k) == [st |-> r.st, val |-> r.val, prop |-> IF r.val = 0 THEN 0 ELSE k]
FirstVisible(st, ks) ==
    FoldLeft(LAMBDA acc, k : IF acc.prop # 0 THEN acc ELSE Look(Eval(acc.st, M.prop[k].vis), k),
             [st |-> st, val |-> 0, prop |-> 0], ks)

DefaultProp(st, s) == FirstVisible(st, M.props[s].default)
RangeProp(st, s) == FirstVisible(st, M.props[s].range)

AsBool(st, s, val) == IF val = 1 /\ IsBool(st, s) THEN 2 ELSE val

\* sym_calc_visibility: the prompts of s, ...
SeePrompt(s, val, r) ==
    LET hidden == IsMember(s) /\ s \in Tristates /\ r.val = 1 /\ r.st.curr[ChoiceOf(s)] = 2
    IN  [st |-> r.st, val |-> IF hidden THEN val ELSE Max2(val, r.val)]

SetVisibility(r, s) ==
    LET whole == r.val = 1 /\ (s \notin Tristates \/ r.st.modules = 0)
    IN  [r.st EXCEPT !.vis[s] = IF whole THEN 2 ELSE r.val]

PromptVisibility(st, s) ==
    SetVisibility(FoldLeft(LAMBDA acc, k : SeePrompt(s, acc.val, Eval(acc.st, M.prop[k].vis)),
                           [st |-> st, val |-> 0], M.props[s].prompt), s)

\* ... and, other than for a member of a choice, its dependencies, the symbols that
\* select it, and those that imply it.
Never(st, s, field) ==
    \/ field # "dir" /\ M[field][s] = NoExpr
    \/ field = "imp" /\ st.dir[s] = 0

SetDependency(r, s, field) == [r.st EXCEPT ![field][s] = AsBool(r.st, s, r.val)]
Dependency(st, s, field) ==
    SetDependency(IF Never(st, s, field) THEN [st |-> st, val |-> 0] ELSE Eval(st, M[field][s]),
                  s, field)

Dependencies(st, s) ==
    FoldLeft(LAMBDA acc, field : Dependency(acc, s, field), st,
             IF IsMember(s) THEN <<>> ELSE <<"dir", "rev", "imp">>)

MarkVisibility(st, old, s) ==
    LET same == \A f \in {"vis", "dir", "rev", "imp"} : st[f][s] = old[f][s]
    IN  IF same THEN st ELSE [st EXCEPT !.mark = @ \cup {s}]

CalcVisibility(st, s) == MarkVisibility(Dependencies(PromptVisibility(st, s), s), st, s)

VisibleIn(st, s) == st.vis[s] # 0

\* sym_choice_default: the first default that is visible, ...
TryDefault(r, s) ==
    [st |-> r.st, sym |-> IF r.val # 0 /\ VisibleIn(r.st, s) THEN s ELSE NoSymbol]

\* ... else the first visible member.
OrFirstVisible(r, c) ==
    LET visible == SelectSeq(Members(c), LAMBDA s : VisibleIn(r.st, s))
    IN  IF r.sym = NoSymbol /\ visible # <<>> THEN [r EXCEPT !.sym = visible[1]] ELSE r

ChoiceDefault(st, c) ==
    LET try(acc, k) ==
            IF acc.sym # NoSymbol THEN acc
            ELSE TryDefault(Eval(acc.st, M.prop[k].vis), M.prop[k].expr[2])
    IN  OrFirstVisible(FoldLeft(try, [st |-> st, sym |-> NoSymbol], M.props[c].default), c)

\* sym_calc_choice: the member that the choice c, which is y, takes; a new member makes
\* the choice forget that the user has set it.
ForgetNew(st, c) ==
    LET new == \E s \in ToSet(Members(c)) : VisibleIn(st, s) /\ s \notin st.user
    IN  IF new THEN [st EXCEPT !.user = @ \ {c}] ELSE st

TakeDefault(r, c) ==
    [r.st EXCEPT !.chosen[c] = r.sym, !.curr[c] = IF r.sym = NoSymbol THEN 0 ELSE @]

Choose(st, c) ==
    LET byUser == st.selected[c]
    IN  IF byUser # NoSymbol /\ VisibleIn(st, byUser)
        THEN [st EXCEPT !.chosen[c] = byUser]
        ELSE TakeDefault(ChoiceDefault(st, c), c)

CalcChoice(st, c) == Choose(ForgetNew(FoldLeft(CalcVisibility, st, Members(c)), c), c)

\* Mutant of MemberValue: a member is what the user made it.
MemberByUser(st, s) == st.def[s]

\* A member of a choice that is y is y when it is the one that is chosen.
MemberValue(st, s) == IF st.chosen[ChoiceOf(s)] = s THEN 2 ELSE 0

\* The value of a default d, the first one that is visible.
NoDefault(st) == [st |-> st, val |-> 0, prop |-> 0]
DefaultOf(st, s) == IF s \in ChoiceSyms THEN NoDefault(st) ELSE DefaultProp(st, s)

Limit(r, d, s) ==
    IF s \in Ints THEN [r EXCEPT !.st.write = @ \cup {s}] ELSE [r EXCEPT !.val = Min2(@, d.val)]
ValueOfDefault(d, s) ==
    IF d.prop = 0 THEN [st |-> d.st, val |-> NoValues[s]]
    ELSE Limit(Eval(d.st, M.prop[d.prop].expr), d, s)

\* What the default of a bool or tristate becomes by those that imply it, ...
Implied(r, s) ==
    LET own == Max2(r.val, IF s \in ChoiceSyms THEN 0 ELSE r.st.imp[s])
    IN  IF s \in Ints THEN r
        ELSE [st |-> [r.st EXCEPT !.write = IF own # 0 THEN @ \cup {s} ELSE @], val |-> own]

\* ... and its value by those that select it, and where m is not possible.
Raised(r, s) ==
    LET val == Max2(r.val, r.st.rev[s])
        whole == val = 1 /\ (IsBool(r.st, s) \/ r.st.imp[s] = 2)
    IN  IF s \in Ints THEN r ELSE [r EXCEPT !.val = IF whole THEN 2 ELSE val]

\* The user's value, as far as it is visible.
OfUser(st, s) == IF s \in Ints THEN st.def[s] ELSE Min2(st.def[s], st.vis[s])

WriteSelected(st, s) == [st EXCEPT !.write = IF st.rev[s] # 0 THEN @ \cup {s} ELSE @]

\* The value of a symbol after its visibility was calculated, before sym_validate_range.
CalcOwn(st, s) ==
    CASE IsMember(s) /\ st.vis[s] = 2 -> [st |-> st, val |-> MemberValue(st, s)]
      [] ~(IsMember(s) /\ st.vis[s] = 2) /\ VisibleIn(st, s) /\ s \in st.user ->
            Raised([st |-> st, val |-> OfUser(st, s)], s)
      [] OTHER -> Raised(Implied(ValueOfDefault(DefaultOf(WriteSelected(st, s), s), s), s), s)

\* strtoll of a value: that of an int without one is 0.
Number(val) == IF val = Empty THEN 0 ELSE val

\* sym_validate_range: out of the range the nearest end, or rather what was read last.
\* Where the user has set the int without giving it a text, strtoll gets a null pointer.
AtMost(st, s, end) ==
    LET most == Number(CurrOf(st, end))
    IN  IF Number(st.curr[s]) > most THEN [st EXCEPT !.curr[s] = most] ELSE st

AtLeast(st, s, low, high) ==
    LET least == Number(CurrOf(st, low))
    IN  IF Number(st.curr[s]) < least THEN [st EXCEPT !.curr[s] = least]
        ELSE AtMost(Calc(st, high), s, high)

NoText(st, s) == VisibleIn(st, s) /\ s \in st.user /\ st.def[s] = Empty
InRange(r, s) ==
    LET e == M.prop[r.prop].expr
        read == [r.st EXCEPT !.crashed = @ \/ NoText(r.st, s)]
    IN  IF r.prop = 0 THEN r.st ELSE AtLeast(Calc(read, e[2]), s, e[2], e[3])

ValidateRange(st, s) == InRange(RangeProp(st, s), s)

\* set_all_choice_values
SetAllChoiceValues(st, c) ==
    [st EXCEPT !.def = [s \in AllSymbols |->
                           IF s \in ToSet(Members(c)) \ st.user THEN 0 ELSE @[s]],
               !.user = @ \cup {c}, !.valid = @ \ {c}, !.need = @ \ {c}]

\* sym_calc_value: what s has while it is calculated, "set default if recursively
\* called", ...
SetDefault(st, s) ==
    [st EXCEPT !.write = IF VisibleIn(st, s) THEN @ \cup {s} ELSE @,
               !.curr[s] = NoValues[s],
               !.chosen = IF s \in ChoiceSyms THEN [@ EXCEPT ![s] = NoSymbol] ELSE @]

\* ... its new value, ...
SetCurr(r, s) == [r.st EXCEPT !.curr[s] = r.val]
NewValue(st, s) == SetCurr(CalcOwn(st, s), s)

\* ... the member of a choice and the range of an int, ...
SetWhole(st, s) ==
    CASE s \in Ints -> ValidateRange(st, s)
      [] s \in ChoiceSyms /\ st.curr[s] = 2 -> CalcChoice(st, s)
      [] OTHER -> st

\* ... the mark of a value that is another than before, ...
MarkChange(st, old, s) ==
    LET same == st.curr[s] = old.curr[s] /\ (s \in ChoiceSyms => st.chosen[s] = old.chosen[s])
    IN  CASE same -> st
          [] ~same /\ s = Modules -> [st EXCEPT !.modules = st.curr[s], !.mark = AllSymbols]
          [] ~same /\ s # Modules -> [st EXCEPT !.mark = @ \cup {s}]

\* ... and what the members of a choice take from it.
TellMembers(st, c) ==
    LET members == ToSet(Members(c))
        to == [st EXCEPT
                  !.write = (@ \cup {x \in members : c \in @ /\ VisibleIn(st, x)}) \ {c},
                  !.mark = IF c \in @ THEN @ \cup members ELSE @]
    IN  CASE c \notin ChoiceSyms -> st
          [] c \in ChoiceSyms /\ c \in st.need -> SetAllChoiceValues(to, c)
          [] OTHER -> to

ChoiceFirst(st, s) ==
    IF IsMember(s) /\ s \in st.need THEN Calc([st EXCEPT !.need = @ \ {s}], ChoiceOf(s)) ELSE st

Prepare(st, s) == [st EXCEPT !.valid = @ \cup {s}, !.write = @ \ {s}]

Settle(seen, st, s) ==
    TellMembers(MarkChange(SetWhole(NewValue(SetDefault(seen, s), s), s), st, s), s)

CalcOnce(st, s) == Settle(CalcVisibility(Prepare(ChoiceFirst(st, s), s), s), st, s)

Calc(st, s) == IF s \in DOMAIN ConstValue \/ s \in st.valid THEN st ELSE CalcOnce(st, s)
-----------------------------------------------------------------------------
\* Mutant of ClearAllValid: the change is not counted (conf_set_changed is missing).
ClearUncounted(st) == Calc([st EXCEPT !.valid = {}], Modules)

\* sym_clear_all_valid
ClearAllValid(st) == Calc([st EXCEPT !.valid = {}, !.changed = TRUE], Modules)

\* sym_tristate_within_range
WithinRange(st, s, val) ==
    /\ s \notin Ints
    /\ st.vis[s] > st.rev[s]
    /\ val = 1 => ~IsBool(st, s) /\ st.imp[s] # 2
    /\ IF IsMember(s) /\ st.vis[s] = 2 THEN val = 2 ELSE val \in st.rev[s]..st.vis[s]

\* Mutants of SetTristate: the other values stay as they were calculated; and a choice
\* is not told which of its members was set.
SetWithoutClear(st, s, val) ==
    Calc([st EXCEPT !.user = @ \cup {s}, !.def[s] = val, !.valid = @ \ {s}, !.changed = TRUE], s)
SetMemberOnly(st, s, val) ==
    ClearAllValid([st EXCEPT !.user = @ \cup {s}, !.def[s] = val])

\* sym_set_tristate_value, when it does not fail.
CanSet(st, s, val) == st.curr[s] = val \/ WithinRange(st, s, val)
SetTristate(st, s, val) ==
    LET c == ChoiceOf(s)
        own == [st EXCEPT !.user = @ \cup {s}, !.def[s] = val, !.mark = @ \cup ({s} \ st.user)]
        chosen == {x \in ToSet(Members(c)) : VisibleIn(st, x)}
        st1 == IF IsMember(s) /\ val = 2
               THEN [own EXCEPT !.selected[c] = s, !.user = @ \cup {c} \cup chosen]
               ELSE own
    IN  IF st.curr[s] = val THEN st1 ELSE ClearAllValid(st1)

\* sym_toggle_tristate_value: the next value that can be set, or the same again.
Toggled(st, s) ==
    LET next(val) == (val + 1) % 3
        one == next(st.curr[s])
    IN  CASE CanSet(st, s, one) -> one
          [] ~CanSet(st, s, one) /\ CanSet(st, s, next(one)) -> next(one)
          [] OTHER -> st.curr[s]

\* An int keeps the text it has, or has none, but counts as set.
ToggleInt(st, s) == [st EXCEPT !.user = @ \cup {s}, !.mark = @ \cup ({s} \ st.user)]
Toggle(st, s) == IF s \in Ints THEN ToggleInt(st, s) ELSE SetTristate(st, s, Toggled(st, s))

\* sym_string_within_range of an int.
Within(st, e, val) ==
    val \in Number(CurrOf(st, e[2]))..Number(CurrOf(st, e[3]))
InPropRange(r, val) ==
    LET e == M.prop[r.prop].expr
    IN  r.prop # 0 => Within(CalcAll(r.st, <<e[2], e[3]>>), e, val)
IntWithinRange(st, s, val) == val # Empty /\ InPropRange(RangeProp(st, s), val)

\* sym_set_string_value of an int, when it does not fail.
SetInt(st, s, val) ==
    LET own == [st EXCEPT !.user = @ \cup {s}, !.def[s] = val, !.mark = @ \cup ({s} \ st.user)]
    IN  IF st.def[s] = val THEN own ELSE ClearAllValid(own)

\* Mutant of StringDefault: defaults are left out.
DefaultOfType(st, s) == NoValues[s]

\* sym_get_string_default: what the value would be without the user.
DefaultText(r, s) ==
    LET val == Max2(r.val, r.st.rev[s])
        whole == val = 1 /\ ((~IsMember(s) /\ r.st.curr[Modules] = 0) \/ s \in Bools)
    IN  IF s \in Ints THEN r.val ELSE Max2(IF whole THEN 2 ELSE val, r.st.imp[s])

StringDefault(st, s) ==
    DefaultText(ValueOfDefault(DefaultProp(Calc(CalcVisibility(st, s), Modules), s), s), s)

\* sym_is_changable
Changeable(st, s) == st.vis[s] > st.rev[s]

\* menu_is_visible: a visible child makes a symbol that is not n, and that the user
\* cannot see, one that has been set.
RECURSIVE MenuIsVisible(_, _)
Seen(st, visible) == [st |-> st, visible |-> visible]
UserSees(r, s) == IF r.visible THEN [r EXCEPT !.st.user = @ \cup {s}] ELSE r

ChildVisible(st, i) ==
    FoldLeft(LAMBDA acc, j : IF acc.visible THEN acc ELSE MenuIsVisible(acc.st, j),
             Seen(st, FALSE), M.items[i])

BelowVisible(shown, i, s) ==
    LET inMenu == Value(M.node[i].visibility, shown.st.curr) # 0
    IN  CASE shown.val # 0 -> Seen(shown.st, TRUE)
          [] shown.val = 0 /\ inMenu /\ s \notin Ints \cup {NoSymbol} /\ shown.st.curr[s] # 0 ->
                UserSees(ChildVisible(shown.st, i), s)
          [] OTHER -> Seen(shown.st, FALSE)

\* The conditions of an entry, and the symbols that are calculated for each of them:
\* that of its menus, and that of its prompt, which belongs to its symbol.
Conditions(i) ==
    LET s == M.node[i].sym
        e == PromptVis(M, i)
    IN  <<<<M.node[i].visibility, SymbolsOf(M.node[i].visibility)>>,
          <<e, IF s = NoSymbol THEN SymbolsOf(e) ELSE <<s>>>>>>

PromptShown(st, i) ==
    FoldLeft(LAMBDA acc, c : IF acc.val = 0 THEN acc ELSE ValueIn(CalcAll(acc.st, c[2]), c[1]),
             [st |-> st, val |-> 2], Conditions(i))

MenuIsVisible(st, i) ==
    IF M.node[i].prompt = 0 THEN Seen(st, FALSE)
    ELSE BelowVisible(PromptShown(st, i), i, M.node[i].sym)
=============================================================================
