-------------------------------- MODULE Menu --------------------------------
(***************************************************************************)
(* The menu tree of a Kconfig file (support/kconfig/menu.c): what the      *)
(* parser's actions build (zconf.y) and what menu_finalize makes of it,    *)
(* and the check for recursive dependencies (symbol.c).                    *)
(*                                                                         *)
(* A Kconfig file is the sequence of its lines, each a record whose field  *)
(* "op" names the statement or the option.  Nodes and properties are       *)
(* numbered; 0 is the null pointer.                                        *)
(***************************************************************************)
EXTENDS Expr

CONSTANTS
    Ints,       \* symbols of type int
    ChoiceSyms     \* the symbols of choices, a subset of Bools and Tristates

Named == (Bools \cup Tristates \cup Ints) \ ChoiceSyms
AllSymbols == Named \cup ChoiceSyms

IsTristate(s) == s \in Tristates

\* _menu_init: the root menu, whose prompt is the main menu's.
EmptyMenu ==
    [node |-> <<[sym |-> NoSymbol, parent |-> 0, next |-> 0, list |-> 0,
                 dep |-> NoExpr, prompt |-> 1, visibility |-> NoExpr,
                 menuconfig |-> FALSE]>>,
     prop |-> <<[type |-> "menu", sym |-> NoSymbol, menu |-> 1, expr |-> NoExpr,
                 vis |-> NoExpr]>>,
     entry |-> 1, menu |-> 1, last |-> <<1, "list">>,
     optional |-> {}, dir |-> [s \in AllSymbols |-> NoExpr],
     rev |-> [s \in AllSymbols |-> NoExpr], imp |-> [s \in AllSymbols |-> NoExpr],
     members |-> [c \in ChoiceSyms |-> <<>>], choiceOf |-> [s \in AllSymbols |-> NoSymbol]]

RECURSIVE Ancestors(_, _)
Ancestors(m, i) ==
    LET p == m.node[i].parent IN IF p = 0 THEN <<>> ELSE <<p>> \o Ancestors(m, p)

\* menu_add_prop: a prompt is only visible where all the menus above it are.
AddProp(m, type, expr, dep) ==
    LET e == m.entry
        upper == IF type \in {"prompt", "menu"} /\ m.node[e].sym # NoSymbol
                 THEN Ancestors(m, e) ELSE <<>>
        vis == FoldLeft(LAMBDA v, a : AllocAnd(v, m.node[a].visibility), dep, upper)
        k == Len(m.prop) + 1
    IN  [m EXCEPT !.prop = Append(@, [type |-> type, sym |-> m.node[e].sym, menu |-> e,
                                      expr |-> expr, vis |-> vis]),
                  !.node[e].prompt = IF type \in {"prompt", "menu", "comment"} THEN k ELSE @]

\* menu_add_entry
AddEntry(m, s, menuconfig) ==
    LET i == Len(m.node) + 1
        linked == [m.node EXCEPT ![m.last[1]] =
                      [@ EXCEPT ![m.last[2]] = i]]
        added == [m EXCEPT !.node = Append(linked,
                      [sym |-> s, parent |-> m.menu, next |-> 0, list |-> 0, dep |-> NoExpr,
                       prompt |-> 0, visibility |-> NoExpr, menuconfig |-> menuconfig]),
                           !.last = <<i, "next">>, !.entry = i]
    IN  IF s = NoSymbol THEN added ELSE AddProp(added, "symbol", Sym(s), NoExpr)

\* menu_add_menu and menu_end_menu
AddMenu(m) == [m EXCEPT !.last = <<m.entry, "list">>, !.menu = m.entry]
EndMenu(m) == [m EXCEPT !.last = <<m.menu, "next">>, !.menu = m.node[m.menu].parent]

AddDep(m, e) == [m EXCEPT !.node[m.entry].dep = AllocAnd(@, e)]

\* The parser's action for one line.  The options of menus, choices and ifs come
\* before their "begin" line.
Line(m, l) ==
    CASE l.op = "config" -> [AddEntry(m, l.sym, FALSE) EXCEPT !.optional = @ \cup {l.sym}]
      [] l.op = "menuconfig" -> [AddEntry(m, l.sym, TRUE) EXCEPT !.optional = @ \cup {l.sym}]
      [] l.op = "choice" -> AddEntry(m, l.sym, FALSE)
      [] l.op = "optional" -> [m EXCEPT !.optional = @ \cup {m.node[m.entry].sym}]
      [] l.op = "if" -> AddMenu(AddDep(AddEntry(m, NoSymbol, FALSE), l.dep))
      [] l.op = "menu" -> AddProp(AddEntry(m, NoSymbol, FALSE), "menu", NoExpr, NoExpr)
      [] l.op = "comment" -> AddProp(AddEntry(m, NoSymbol, FALSE), "comment", NoExpr, NoExpr)
      [] l.op = "begin" -> AddMenu(m)
      [] l.op = "end" -> EndMenu(m)
      [] l.op = "depends" -> AddDep(m, l.dep)
      [] l.op = "visible" -> [m EXCEPT !.node[m.entry].visibility = AllocAnd(@, l.dep)]
      [] l.op = "prompt" -> AddProp(m, IF m.node[m.entry].menuconfig THEN "menu" ELSE "prompt",
                                    NoExpr, l.dep)
      [] l.op \in {"default", "range"} -> AddProp(m, l.op, l.expr, l.dep)
      [] l.op \in {"select", "imply"} -> AddProp(m, l.op, Sym(l.sym), l.dep)

Parse(lines) == FoldLeft(Line, EmptyMenu, lines)
-----------------------------------------------------------------------------
PromptVis(m, i) == IF m.node[i].prompt = 0 THEN NoExpr ELSE m.prop[m.node[i].prompt].vis
IsChoice(s) == s \in ChoiceSyms
PropsOf(m, s, types) ==
    SelectSeq([k \in 1..Len(m.prop) |-> k],
              LAMBDA k : m.prop[k].sym = s /\ m.prop[k].type \in types)
Prompts == {"prompt", "menu", "comment"}

\* The dependency that the items of node p inherit: the choice, the menu's or if's.
ParentDep(m, p) ==
    LET n == m.node[p]
    IN  IF n.sym # NoSymbol /\ IsChoice(n.sym) THEN Sym(n.sym)
        ELSE IF n.prompt # 0 THEN m.prop[n.prompt].vis ELSE n.dep

Inherit(above, e) == EliminateDups(AllocAnd(above, Transform(RewriteM(e))))

\* What a select or an imply adds to the symbol it names.
AddReverse(m, k) ==
    LET p == m.prop[k]
        by == AllocAnd(Sym(p.sym), p.vis)
    IN  CASE p.type = "select" -> [m EXCEPT !.rev[p.expr[2]] = AllocOr(@, by)]
          [] p.type = "imply" -> [m EXCEPT !.imp[p.expr[2]] = AllocOr(@, by)]
          [] OTHER -> m

\* Item i takes over what it inherits, and every property of it does.
InheritProps(m, base, i) ==
    LET bool == m.node[i].sym # NoSymbol /\ ~IsTristate(m.node[i].sym)
        vis(e) == IF bool THEN TransBool(e) ELSE e
        take(acc, k) == AddReverse([acc EXCEPT !.prop[k].vis = vis(Inherit(base, @))], k)
    IN  FoldLeft(take, [m EXCEPT !.node[i].dep = base],
                 SelectSeq([k \in 1..Len(m.prop) |-> k], LAMBDA k : m.prop[k].menu = i))

InheritNode(m, above, i) == InheritProps(m, Inherit(above, m.node[i].dep), i)

RECURSIVE Siblings(_, _)
Siblings(m, i) == IF i = 0 THEN <<>> ELSE <<i>> \o Siblings(m, m.node[i].next)
Children(m, p) == Siblings(m, m.node[p].list)

\* Whether the dependency of an item has all operands of that of the symbol before it.
VisibleExpr(e) == EliminateDups(Transform(TransCompare(e, "!=")))
IsSuperset(es) == EliminateEq(es[1], es[2])[2] = Sym("y")

\* Whether item i goes into the automatic submenu of the symbol node p.
InSubmenu(m, p, i) ==
    LET dep == IF m.node[i].prompt # 0 THEN PromptVis(m, i) ELSE m.node[i].dep
        s == m.node[p].sym
        both == <<dep, PromptVis(m, p)>>
    IN  /\ ContainsSymbol(dep, s)
        /\ DependsSymbol(dep, s) \/ IsSuperset([k \in 1..2 |-> VisibleExpr(both[k])])

\* A value of choice c: without "tristate" in a tristate choice only when that is y.
AddMember(m, c, i) ==
    LET s == m.node[i].sym
        whole == Cmp("=", c, "y")
        m1 == [m EXCEPT !.choiceOf[s] = c, !.members[c] = Append(@, s)]
        take(acc, k) == [acc EXCEPT !.prop[k].vis = AllocAnd(whole, @)]
    IN  IF ~IsTristate(c) \/ IsTristate(s) THEN m1
        ELSE FoldLeft(take, [m1 EXCEPT !.node[i].dep = AllocAnd(whole, @)],
                      SelectSeq([k \in 1..Len(m.prop) |-> k], LAMBDA k : m.prop[k].menu = i))

\* The items of an if, or of a symbol without a prompt, come after it instead.
Flatten(m, p, i) ==
    LET items == Children(m, i)
        moved == FoldLeft(LAMBDA acc, j : [acc EXCEPT !.node[j].parent = p], m, items)
    IN  [moved EXCEPT !.node[items[Len(items)]].next = m.node[i].next,
                      !.node[i].next = m.node[i].list, !.node[i].list = 0]

FlattenItem(m, p, i) ==
    IF m.node[i].list # 0 /\ m.node[i].prompt = 0 THEN Flatten(m, p, i) ELSE m

MakeMember(m, p, i) ==
    LET c == m.node[p].sym
        s == m.node[i].sym
    IN  IF NoSymbol \notin {c, s} /\ IsChoice(c) /\ m.choiceOf[s] = NoSymbol
        THEN AddMember(m, c, i) ELSE m

RECURSIVE Finalize(_, _), FinalizeFrom(_, _), Submenu(_, _, _, _), Tidy(_, _, _)

\* The items after p as far as they belong into its submenu; last is the last one.
SubmenuAfter(m, p, i) == Submenu(m, p, m.node[i].next, i)
Submenu(m, p, i, last) ==
    IF i # 0 /\ InSubmenu(m, p, i)
    THEN SubmenuAfter([Finalize(m, i) EXCEPT !.node[i].parent = p], p, i)
    ELSE IF last = 0 THEN m
    ELSE [m EXCEPT !.node[p].list = m.node[p].next, !.node[p].next = m.node[last].next,
                   !.node[last].next = 0]

FinalizeAfter(m, i) == FinalizeFrom(m, m.node[i].next)
FinalizeFrom(m, i) == IF i = 0 THEN m ELSE FinalizeAfter(Finalize(m, i), i)

TidyAfter(m, p, i) == Tidy(m, p, m.node[i].next)
Tidy(m, p, i) == IF i = 0 THEN m ELSE TidyAfter(FlattenItem(MakeMember(m, p, i), p, i), p, i)
TidyItems(m, p) == Tidy(m, p, m.node[p].list)

\* A choice that is not optional cannot be n where its prompt is visible.
NotOptional(m, p) ==
    LET s == m.node[p].sym
    IN  IF s # NoSymbol /\ s \notin m.optional /\ m.node[p].prompt # 0
        THEN [m EXCEPT !.rev[s] = AllocOr(@, AllocAnd(PromptVis(m, p), Sym("m")))] ELSE m

\* menu_finalize
FinalizeItems(m, p) ==
    FinalizeFrom(FoldLeft(LAMBDA acc, i : InheritNode(acc, ParentDep(m, p), i), m, Children(m, p)),
                 m.node[p].list)

Finalize(m, p) ==
    LET s == m.node[p].sym
    IN  NotOptional(TidyItems(
            CASE m.node[p].list # 0 -> FinalizeItems(m, p)
              [] m.node[p].list = 0 /\ s # NoSymbol ->
                    [Submenu(m, p, m.node[p].next, 0) EXCEPT !.dir[s] = AllocOr(@, m.node[p].dep)]
              [] OTHER -> m, p), p)

IsMenuEntry(m, i) == m.node[i].prompt # 0 /\ m.prop[m.node[i].prompt].type = "menu"

\* fixup_rootmenu: the entries with MENU_ROOT, the menus that contain only menus
\* between them and the main menu; below is whether i is below one of them.
RECURSIVE RootMenus(_, _, _)
RootMenus(m, i, below) ==
    {i} \cup UNION {RootMenus(m, j, below \/ IsMenuEntry(m, j)) :
                       j \in {x \in ToSet(Children(m, i)) : IsMenuEntry(m, x) \/ ~below}}

\* The tree of a Kconfig file, with the properties of each symbol and the items of each
\* menu as the lists that they are in the program.
Lists(m) ==
    [roots |-> RootMenus(m, 1, FALSE),
     items |-> [i \in DOMAIN m.node |-> Children(m, i)],
     props |-> [s \in AllSymbols |->
                   [default |-> PropsOf(m, s, {"default"}),
                    range |-> PropsOf(m, s, {"range"}),
                    prompt |-> PropsOf(m, s, Prompts)]]]
WithLists(m) == m @@ Lists(m)
MenuTree(lines) == WithLists(Finalize(Parse(lines), 1))
=============================================================================
