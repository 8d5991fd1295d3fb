------------------------------ MODULE QtConfig ------------------------------
(***************************************************************************)
(* qconf (support/kconfig/qconf.cc): two lists of items, the menus and the *)
(* entries of one menu, which are brought up to date after every change by *)
(* walking the menu tree along the items there are.  An item draws its     *)
(* value again only when its entry has MENU_CHANGED, or when all items are *)
(* to be drawn.                                                            *)
(*                                                                         *)
(* An entry has one item in a list at most.  kids gives the items below    *)
(* each item, and at 0 those of the list itself, where the item 0 is "..". *)
(* text gives what an item shows: in its prompt whether it is "(NEW)" and  *)
(* the text of an int; in the columns N, M and Y the value and the values  *)
(* that are possible; in "Value" the value.  seen is "visible".            *)
(***************************************************************************)
EXTENDS TreeView

VARIABLES lists         \* configList and menuList

qtVars == <<lists>>

None0 == 0              \* the root of a list that has none yet
ListNames == {"config", "menu"}
NoItems == [i \in 0..Len(M.node) |-> <<>>]
NoText0 == [new |-> FALSE, int |-> Empty, cols |-> <<>>, data |-> <<>>, seen |-> FALSE]
NoTexts == [i \in 0..Len(M.node) |-> NoText0]
EmptyList(view) == [mode |-> view, root |-> None0, kids |-> NoItems, text |-> NoTexts]

\* last is the number of items that updateMenuList is done with.
Acc(s, ls, opt) == [st |-> s, lists |-> ls, opt |-> opt, all |-> FALSE, last |-> 0]
ItemsOf(ls) == UNION {ToSet(ls.kids[i]) : i \in DOMAIN ls.kids}

\* updateMenu: what has no symbol, and a menu, shows a picture instead of a value, and
\* keeps what it had in its columns; what cannot be changed only keeps "Value".
AsMenu(list, i) ==
    \/ i = 0
    \/ SymOf(i) = NoSymbol
    \/ IsMenu(i) /\ list.mode \in {"single", "symbol"} /\ list.root # i
Fixed(s, opt, x) == x \notin Ints /\ ~Changeable(s, x) /\ opt = "normal"
Columns(s, x) == <<s.curr[x], {val \in Tri : val # s.curr[x] /\ WithinRange(s, x, val)}>>

ItemText(acc, l, i) ==
    LET old == acc.lists[l].text[i]
        s == SymOf(i)
        own == [old EXCEPT !.new = s \notin acc.st.user /\ old.seen, !.int = Empty]
    IN  CASE AsMenu(acc.lists[l], i) -> [old EXCEPT !.new = FALSE, !.int = Empty]
          [] ~AsMenu(acc.lists[l], i) /\ Fixed(acc.st, acc.opt, s) -> [own EXCEPT !.cols = <<>>]
          [] ~AsMenu(acc.lists[l], i) /\ s \in Ints ->
                [own EXCEPT !.int = acc.st.curr[s], !.data = <<acc.st.curr[s]>>]
          [] OTHER -> [own EXCEPT !.cols = Columns(acc.st, s), !.data = <<acc.st.curr[s]>>]

Redraw(acc, l, i) == [acc EXCEPT !.lists[l].text[i] = ItemText(acc, l, i)]

CalcItem(acc, i) ==
    IF i = 0 \/ SymOf(i) = NoSymbol THEN acc ELSE [acc EXCEPT !.st = Calc(@, SymOf(i))]

Marked(acc, i) == SymOf(i) # NoSymbol /\ SymOf(i) \in acc.st.mark
Unmark1(acc, i) == [acc EXCEPT !.st.mark = @ \ {SymOf(i)}]

\* Mutant of RedrawMarked: only the item of the list that is walked is drawn again.
RedrawOne(acc, l, i) ==
    IF Marked(acc, i) THEN Redraw(Unmark1(acc, i), l, i)
    ELSE IF acc.all THEN Redraw(acc, l, i) ELSE acc

\* testUpdateMenu, after the symbol was calculated: what has changed is drawn again in
\* both lists.
RedrawMarked(acc, l, i) ==
    LET showing == SelectSeq(<<"config", "menu">>, LAMBDA n : i \in ItemsOf(acc.lists[n]))
    IN  IF Marked(acc, i) THEN FoldLeft(LAMBDA a, n : Redraw(a, n, i), Unmark1(acc, i), showing)
        ELSE IF acc.all THEN Redraw(acc, l, i) ELSE acc

\* A new item, after the first at items below parent.
AddItem(acc, l, parent, at, i) == Redraw([acc EXCEPT !.lists[l].kids[parent] = InsertAt(@, at + 1, i)], l, i)
See(acc, l, i, visible) == [acc EXCEPT !.lists[l].text[i].seen = visible]
ShowItem(acc, found, l, parent, at, i) ==
    IF found THEN RedrawMarked(acc, l, i) ELSE AddItem(acc, l, parent, at, i)

\* The items below i, and those below them, are deleted.
RECURSIVE Below(_, _)
Below(kids, i) == {i} \cup UNION {Below(kids, j) : j \in ToSet(kids[i]) \ {0}}
Clear(acc, l, i) ==
    LET gone == Below(acc.lists[l].kids, i)
    IN  [acc EXCEPT !.lists[l].kids = [j \in DOMAIN @ |-> IF j \in gone THEN <<>> ELSE @[j]],
                    !.lists[l].text = [j \in DOMAIN @ |-> IF j \in gone \ {i} THEN NoText0 ELSE @[j]]]
DeleteItem(acc, l, parent, at) ==
    LET i == acc.lists[l].kids[parent][at]
    IN  [Clear(acc, l, i) EXCEPT !.lists[l].kids[parent] = RemoveAt(@, at),
                                 !.lists[l].text[i] = NoText0]

\* menuSkip, after menu_is_visible was asked.
Skipped(opt, i, visible) ==
    CASE opt = "normal" -> ~visible
      [] opt = "prompt" -> ~HasPrompt(i)
      [] OTHER -> FALSE

RECURSIVE UpdateMenuList(_, _, _, _)

\* updateMenuList: the items below the item parent, for the children of menu.
FoundAt(acc, l, parent, i) ==
    LET kids == acc.lists[l].kids[parent]
    IN  acc.last < Len(kids) /\ kids[acc.last + 1] = i

InOtherList(mode, i) == (mode = "menu" /\ i \notin Roots) \/ (mode = "symbol" /\ i \in Roots)
Hide(acc, found, l, parent) == IF found THEN DeleteItem(acc, l, parent, acc.last + 1) ELSE acc

BelowItem(acc, l, i) ==
    IF acc.lists[l].mode \in {"full", "menu"} \/ ~IsMenu(i) THEN UpdateMenuList(acc, l, i, i)
    ELSE Clear(acc, l, i)
NextItem(acc) == [acc EXCEPT !.last = @ + 1]

UpdateSeen(acc, visible, found, l, parent, i) ==
    CASE Skipped(acc.opt, i, visible) -> Hide(acc, found, l, parent)
      [] ~Skipped(acc.opt, i, visible) /\ SymOf(i) = NoSymbol /\ M.node[i].list = 0 /\ ~HasPrompt(i) ->
            acc
      [] OTHER -> NextItem(BelowItem(ShowItem(CalcItem(See(acc, l, i, visible), i), found, l, parent,
                                                acc.last, i), l, i))
UpdateEntry(acc, seen, found, l, parent, i) ==
    IF InOtherList(acc.lists[l].mode, i) THEN Hide(acc, found, l, parent)
    ELSE UpdateSeen([acc EXCEPT !.st = seen.st], seen.visible, found, l, parent, i)

UpdateEntries(acc, l, parent, menu) ==
    FoldLeft(LAMBDA a, i : UpdateEntry(a, MenuIsVisible(a.st, i), FoundAt(a, l, parent, i), l, parent, i),
             acc, M.items[menu])
UpdateMenuList(acc, l, parent, menu) ==
    LET kept == acc.lists[l].kids[parent]
        first == IF kept # <<>> /\ kept[1] = 0 THEN 1 ELSE 0
    IN  [UpdateEntries([acc EXCEPT !.last = first], l, parent, menu) EXCEPT !.last = acc.last]

\* ConfigList::updateList: ".." comes first, and below it the symbol of a menuconfig.
HasUp(list) ==
    /\ list.root # 1
    /\ list.mode = "single" \/ (list.mode = "symbol" /\ M.node[list.root].parent # 1)
HasRootItem(list) ==
    /\ list.mode = "single" \/ (list.mode = "symbol" /\ list.root \notin Roots)
    /\ SymOf(list.root) # NoSymbol /\ HasPrompt(list.root)

WithUp(acc, l, up) ==
    IF up /\ acc.lists[l].kids[0] = <<>> THEN AddItem(acc, l, 0, 0, 0) ELSE acc
RootItem(acc, l, at) ==
    LET kids == acc.lists[l].kids[0]
        i == IF Len(kids) = at THEN acc.lists[l].root ELSE kids[at + 1]
    IN  ShowItem(CalcItem(See(acc, l, i, TRUE), i), Len(kids) # at, l, 0, at, i)
FillList(acc, l, list, at) ==
    UpdateMenuList(IF HasRootItem(list) THEN RootItem(acc, l, at) ELSE acc, l,
                   IF HasRootItem(list) THEN list.root ELSE 0, list.root)
UpdateList(acc, l) ==
    LET list == acc.lists[l]
    IN  IF list.root = None0 THEN Clear(acc, l, 0)
        ELSE FillList(WithUp(acc, l, HasUp(list)), l, list, IF HasUp(list) THEN 1 ELSE 0)

UpdateListAll(acc, l) == [UpdateList([acc EXCEPT !.all = TRUE], l) EXCEPT !.all = FALSE]

\* ConfigView::updateList, and updateListAll
Update(acc) == FoldLeft(UpdateList, acc, <<"config", "menu">>)
UpdateAll(acc) == FoldLeft(UpdateListAll, acc, <<"config", "menu">>)

\* setRootMenu
WithRoot(acc, l, menu) == [Clear(acc, l, 0) EXCEPT !.lists[l].root = menu]
SetRootMenu(acc, l, menu) ==
    IF acc.lists[l].root = menu \/ ~IsMenu(menu) THEN acc
    ELSE UpdateListAll(WithRoot(acc, l, menu), l)
-----------------------------------------------------------------------------
Show(r) == st' = r.st /\ lists' = r.lists
Now == Acc(st, lists, option)

QtInit == lists = [l \in ListNames |-> EmptyList("single")]

IsQt == front = "qconf"
HasStarted == lists["config"].root # None0
QtOpen == IsQt /\ Open /\ HasStarted

\* showSingleView, showFullView and showSplitView.  The menu list is only hidden.
InView(acc, view) == [acc EXCEPT !.lists["config"].mode = view]
RootOrAll(acc, view) ==
    UpdateListAll(IF acc.lists["config"].root = 1 THEN InView(acc, view)
                  ELSE WithRoot(InView(acc, view), "config", 1), "config")
WithMenus(acc, view) ==
    IF view # "symbol" THEN acc
    ELSE SetRootMenu([acc EXCEPT !.lists["menu"].mode = "menu"], "menu", 1)
View(acc, view) == WithMenus(RootOrAll(acc, view), view)

\* main: the view is that of the settings.
QtStart(view) ==
    /\ IsQt /\ Open /\ ~HasStarted
    /\ Show(View(Acc(ReadConfig, lists, option), view))
    /\ Unchanged /\ UNCHANGED <<option, looks>>

ShowView(view) ==
    /\ QtOpen /\ Looked /\ Show(View(Now, view)) /\ UNCHANGED option

OnListItem(i) == QtOpen /\ \E l \in ListNames : i \in ItemsOf(lists[l]) \ {0}

\* setValue
SetValue(i, val) ==
    LET s == SymOf(i)
    IN  /\ OnListItem(i) /\ s # NoSymbol /\ s \notin Ints /\ CanSet(st, s, val)
        /\ Set(s, val) /\ Show(Update(Acc(SetTristate(st, s, val), lists, option)))
        /\ UNCHANGED windowVars

\* changeValue of a bool or tristate: nothing is drawn when it keeps its value.
ToggleItem(s, to) ==
    /\ Set(s, to.def[s])
    /\ Show(IF to.def[s] # st.curr[s] THEN Update(Acc(to, lists, option)) ELSE Acc(to, lists, option))
ChangeValue(i) ==
    /\ OnListItem(i) /\ SymOf(i) # NoSymbol /\ SymOf(i) \notin Ints
    /\ ToggleItem(SymOf(i), Toggle(st, SymOf(i)))
    /\ UNCHANGED windowVars

\* ConfigLineEdit::keyPressEvent: what is not in range changes nothing.
EditLine(s, val, valid) ==
    /\ IF valid THEN Set(s, val) ELSE NoEdit /\ UNCHANGED <<files, filename, writing, ended, saves>>
    /\ Show(Update(Acc(IF valid THEN SetInt(st, s, val) ELSE st, lists, option)))
LineEdit(i, val) ==
    /\ OnListItem(i) /\ SymOf(i) # NoSymbol /\ SymOf(i) \in Ints
    /\ EditLine(SymOf(i), val, IntWithinRange(st, SymOf(i), val))
    /\ UNCHANGED windowVars

\* changeMenu: a menu of either list is opened in the configList.
ChangeMenu(i) ==
    LET mode == lists["config"].mode
    IN  /\ OnListItem(i) /\ IsMenu(i)
        /\ \/ i \in ItemsOf(lists["config"]) /\ mode # "full"
           \/ i \in ItemsOf(lists["menu"]) /\ mode = "symbol"
        /\ Looked /\ UNCHANGED option
        /\ Show(SetRootMenu(Now, "config", i))

\* keyPressEvent; the mouse does the same.
KeyPress(i) == (\E val \in Tri : SetValue(i, val)) \/ ChangeValue(i) \/ ChangeMenu(i)

\* goBack, setParentMenu
GoBack ==
    LET root == lists["config"].root
    IN  /\ QtOpen /\ root # 1
        /\ Looked /\ UNCHANGED option
        /\ Show(SetRootMenu(Now, "config", ParentMenu(M.node[root].parent)))

ShowIfSeen(seen, i, to) ==
    /\ ~Skipped(option, i, seen.visible)
    /\ Show(SetRootMenu(Acc(seen.st, lists, option), "config", to))

\* setMenuLink, from the help text or the search window.
SetMenuLink(i) ==
    LET mode == lists["config"].mode
        to == CASE mode = "single" -> ParentMenu(i)
                [] mode = "symbol" -> IF i \in Roots THEN i
                                      ELSE ParentMenu(M.node[i].parent)
    IN  /\ QtOpen /\ i # 1 /\ mode # "full"
        /\ Looked /\ UNCHANGED option
        /\ ShowIfSeen(MenuIsVisible(st, i), i, to)

\* setOptionMode
SetOptionMode(o) ==
    /\ QtOpen /\ o # option /\ option' = o /\ Looked
    /\ Show(UpdateAll(Acc(st, lists, o)))

LoadConfig(name) ==
    /\ IsQt /\ HasStarted /\ ReadFile(name)
    /\ Show(UpdateAll(Acc(ConfRead(st, files[name]), lists, option)))

\* conf_read fails, and all items are drawn anyway.
LoadConfigFails(name) ==
    /\ QtOpen /\ saves < MaxSaves /\ saves' = saves + 1
    /\ name \notin DOMAIN files /\ mishaps = {} /\ mishaps' = {"missing"}
    /\ Show(UpdateAll(Acc(Calc([st EXCEPT !.changed = FALSE], Modules), lists, option)))
    /\ edit' = None /\ UNCHANGED <<M, front, files, filename, writing, ended, edits, windowVars>>

\* saveConfigAs asks for a name and does not use it.
SaveConfigAs == QtOpen /\ BeginWrite(DotConfig) /\ UNCHANGED <<windowVars, qtVars>>

QtNext ==
    \/ \E view \in {"single", "symbol", "full"} : QtStart(view) \/ ShowView(view)
    \/ \E i \in DOMAIN M.node :
          \/ KeyPress(i) \/ SetMenuLink(i)
          \/ \E val \in DOMAIN ConstValue \ Consts : LineEdit(i, ConstValue[val])
    \/ GoBack \/ SaveConfigAs
    \/ \E o \in {"normal", "all", "prompt"} : SetOptionMode(o)
    \/ \E name \in Names : LoadConfig(name) \/ LoadConfigFails(name)
-----------------------------------------------------------------------------
\* What a list is when it is made anew from a calculation from scratch.
Rebuilt(s, l) ==
    LET none == [lists EXCEPT ![l].kids = NoItems, ![l].text = NoTexts]
    IN  UpdateListAll(Acc(s, none, option), l).lists[l]

SameText(list, i, now, new) ==
    /\ now.int = new.int
    /\ AsMenu(list, i) \/ now.cols = new.cols
    /\ new.data # <<>> => now.data = new.data
SameList(now, new) ==
    now.kids = new.kids /\ \A i \in ItemsOf(now) : SameText(now, i, now.text[i], new.text[i])
ListsOf(s) == \A l \in ListNames : lists[l].root # None0 => SameList(lists[l], Rebuilt(s, l))

\* Walking along the items there are, and drawing only what is marked, gives the list
\* that building it anew would, in both lists and in every view: no entry is missing,
\* left over or out of place, and the columns N, M and Y have the value and the possible
\* values of now; so has "Value" of what can be changed.  Three things stay as they were
\* and are not claimed: all columns of an item that has become a menu, the column "Value"
\* of what can no longer be changed, and "(NEW)" of a member of a choice when another one
\* is chosen that was y already.
ListsCurrent == Running /\ HasStarted /\ Settled /\ ~TypedAgain => ListsOf(Fresh)
=============================================================================
