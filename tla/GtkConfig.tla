------------------------------ MODULE GtkConfig ------------------------------
(***************************************************************************)
(* gconf (support/kconfig/gconf.c): a tree of rows that is displayed once  *)
(* and from then on brought up to date row by row, by comparing it with    *)
(* the menu tree.                                                          *)
(***************************************************************************)
EXTENDS TreeView

VARIABLES
    mode,       \* view_mode: "single", "split" or "full"
    left,       \* tree1, the menus of the split view
    right,      \* tree2, a sequence of rows [menu, text, kids]
    current,    \* the menu of the single view
    browsed,    \* the menu of the split view, or NoMenu
    back,       \* whether the back button can be pressed
    behind      \* history: whether rows were left behind since the tree was last displayed

gtkVars == <<mode, left, right, current, browsed, back, behind>>

NoMenu == 0     \* the null pointer

Row(i, text) == [menu |-> i, text |-> text, kids |-> <<>>]

\* Whether an entry gets a row; with "normal", its symbol is calculated to find out.
Shown(seen, i, opt) ==
    CASE opt = "normal" -> seen.visible
      [] opt = "prompt" -> HasPrompt(i)
      [] OTHER -> HasPrompt(i) \/ SymOf(i) \in Named
AfterLook(s, seen, opt) == IF opt = "normal" THEN seen.st ELSE s

\* fill_row, after menu_is_visible: a row takes the mark off its symbol.
Unmark(s, x) == [s EXCEPT !.mark = @ \ {x}]
CalcEntry(s, i) == IF SymOf(i) = NoSymbol THEN s ELSE Unmark(Calc(s, SymOf(i)), SymOf(i))
SeeMembers(s, i) ==
    FoldLeft(LAMBDA acc, j : MenuIsVisible(acc, j).st, s,
             IF SymOf(i) \in ChoiceSyms THEN M.items[i] ELSE <<>>)
AsRow(s, i) == [st |-> s, row |-> Row(i, Text(s, i))]
FillRow(seen, i) == AsRow(SeeMembers(CalcEntry(seen.st, i), i), i)

RECURSIVE DisplayTree(_, _)

\* display_tree: rows for everything below entry i, after those there are.  What is
\* below an entry without a row of its own goes below the row before it.
Skips(acc, j) == acc.mode = "split" /\ (acc.left <=> j \notin Roots)
Descends(acc, i, j) ==
    /\ acc.rows # <<>> /\ ~(acc.mode # "full" /\ IsMenu(j) /\ ~acc.left)
    /\ acc.mode = "single" => i \in Roots

AppendRow(acc, r) == [acc EXCEPT !.st = r.st, !.rows = Append(@, r.row)]
Place(acc, seen, j) ==
    IF Shown(seen, j, acc.opt) THEN AppendRow(acc, FillRow(seen, j))
    ELSE [acc EXCEPT !.st = AfterLook(@, seen, acc.opt)]

InRow(acc, n, kids) == [acc EXCEPT !.st = kids.st, !.rows[n].kids = kids.rows]
InLastRow(acc, j) ==
    LET n == Len(acc.rows)
    IN  InRow(acc, n, DisplayTree([acc EXCEPT !.rows = acc.rows[n].kids], j))
AndBelow(acc, i, j) == IF Descends(acc, i, j) THEN InLastRow(acc, j) ELSE acc

DisplayEntry(acc, i, j) ==
    IF Skips(acc, j) THEN acc ELSE AndBelow(Place(acc, MenuIsVisible(acc.st, j), j), i, j)

DisplayTree(acc, i) ==
    FoldLeft(LAMBDA a, j : DisplayEntry([a EXCEPT !.st = Unmark(@, SymOf(j))], i, j), acc, M.items[i])

RECURSIVE HasRow(_, _), UpdateTree(_, _)

\* gtktree_iter_find_node
HasRow(rows, i) == \E k \in DOMAIN rows : rows[k].menu = i \/ HasRow(rows[k].kids, i)

\* update_tree: the rows of one parent from the k-th on, and the entries that are to
\* be compared with them.  It returns when the row that it removes was the last; cut has
\* the entries that are left then.
At(acc) == IF acc.k <= Len(acc.rows) THEN acc.rows[acc.k].menu ELSE 0

SetRow(acc, r, i) ==
    IF At(acc) # i THEN [acc EXCEPT !.st = r.st, !.rows = InsertAt(@, acc.k, r.row)]
    ELSE [acc EXCEPT !.st = r.st, !.rows[acc.k].text = r.row.text]
OwnRow(acc, seen, i) ==
    IF At(acc) = i /\ SymOf(i) \notin acc.st.mark THEN acc ELSE SetRow(acc, FillRow(seen, i), i)

NextRow(acc, kids) ==
    [acc EXCEPT !.st = kids.st, !.rows[acc.k].kids = kids.rows, !.k = @ + 1, !.cut = kids.cut]
UpdateBelow(acc, i) ==
    NextRow(acc, UpdateTree([acc EXCEPT !.rows = acc.rows[acc.k].kids, !.k = 1], M.items[i]))

RemoveRow(acc, entries) ==
    IF acc.k < Len(acc.rows) THEN UpdateTree([acc EXCEPT !.rows = RemoveAt(@, acc.k)], entries)
    ELSE [acc EXCEPT !.rows = SubSeq(@, 1, acc.k - 1), !.cut = @ \cup ToSet(entries)]

CompareRow(acc, seen, entries, shown, found) ==
    CASE ~shown /\ ~found -> UpdateTree(acc, Tail(entries))
      [] found /\ (~shown \/ At(acc) # Head(entries)) -> RemoveRow(acc, entries)
      [] OTHER -> UpdateTree(UpdateBelow(OwnRow(acc, seen, Head(entries)), Head(entries)), Tail(entries))
LookAndCompare(acc, seen, entries) ==
    CompareRow([acc EXCEPT !.st = AfterLook(@, seen, acc.opt)], seen, entries,
               Shown(seen, Head(entries), acc.opt), HasRow(acc.rows, Head(entries)))

UpdateTree(acc, entries) ==
    IF entries = <<>> THEN acc
    ELSE LookAndCompare(acc, MenuIsVisible(acc.st, Head(entries)), entries)

Tree(s, rows) == [st |-> s, rows |-> rows, mode |-> mode, opt |-> option, left |-> FALSE,
                  k |-> 1, cut |-> {}]

\* What is done with the menu, which is nowhere as long as nothing was browsed.
Crash(acc) == [acc EXCEPT !.st.crashed = TRUE]
DisplayMenu(acc, menu) == IF menu = NoMenu THEN Crash(acc) ELSE DisplayTree(acc, menu)
UpdateMenu(acc, menu) == IF menu = NoMenu THEN Crash(acc) ELSE UpdateTree(acc, M.items[menu])
-----------------------------------------------------------------------------
Draw(r) == st' = r.st /\ right' = r.rows
Display(r) == Draw(r) /\ behind' = FALSE

\* display_tree_part: the right tree is made anew, from the menu that is shown.
Part(s, view, menu) ==
    Display(DisplayMenu([Tree(s, <<>>) EXCEPT !.mode = view], menu)) /\ mode' = view

\* display_list: the left tree is made anew.
DisplayList(s) == DisplayTree([Tree(s, <<>>) EXCEPT !.mode = "split", !.left = TRUE], 1)

\* Mutant of Refresh: a value that changes in the full view is not shown.
RefreshPart(s) ==
    IF mode = "full" THEN st' = s /\ UNCHANGED <<right, left, current, mode, behind, browsed, option>>
    ELSE Part(s, mode, IF mode = "single" THEN current ELSE browsed)
         /\ UNCHANGED <<left, current, browsed, option>>

\* The view after a value was changed: the rows there are are brought up to date.
ShowLeft(r) == left' = r.rows /\ st' = r.st
Cut(r) == \E i \in r.cut : MenuIsVisible(r.st, i).visible
Updated(r) ==
    /\ IF mode = "split" THEN right' = r.rows /\ ShowLeft(DisplayList(r.st)) /\ current' = 1
       ELSE Draw(r) /\ UNCHANGED <<left, current>>
    /\ behind' = (behind \/ Cut(r))
Refresh(s) ==
    /\ IF mode = "single" THEN Part(s, mode, current) /\ UNCHANGED <<left, current>>
       ELSE Updated(UpdateMenu(Tree(s, right), IF mode = "split" THEN browsed ELSE 1))
    /\ UNCHANGED <<mode, browsed, option>>

GtkInit ==
    /\ mode = "full" /\ left = <<>> /\ right = <<>> /\ current = 1 /\ browsed = NoMenu
    /\ back = FALSE /\ behind = FALSE

IsGtk == front = "gconf"
Started == right # <<>> \/ left # <<>>

GtkStart ==
    /\ IsGtk /\ Open /\ ~Started
    /\ Display(DisplayTree(Tree(ReadConfig, <<>>), 1))
    /\ Unchanged /\ UNCHANGED <<mode, option, looks, left, current, browsed, back>>

RECURSIVE Flat(_)
Flat(rows) == UNION {{rows[k]} \cup Flat(rows[k].kids) : k \in DOMAIN rows}
OnRow(i) == IsGtk /\ Open /\ \E r \in Flat(right) : r.menu = i
OfType(i, types) == SymOf(i) # NoSymbol /\ SymOf(i) \in types

Edited == UNCHANGED <<back, closing, looks>>
SetOrNot(s, val, can) ==
    IF can THEN Set(s, val) ELSE NoEdit /\ UNCHANGED <<files, filename, writing, ended, saves>>

\* change_sym_value: what is not possible becomes y.
ChangeSymValue(i, col) ==
    LET s == SymOf(i)
        val == IF WithinRange(st, s, col) THEN col ELSE 2
    IN  /\ OnRow(i) /\ OfType(i, Bools \cup Tristates)
        /\ SetOrNot(s, val, CanSet(st, s, val))
        /\ Refresh(IF CanSet(st, s, val) THEN SetTristate(st, s, val) ELSE st)
        /\ Edited

\* toggle_sym_value, of whatever type.
RefreshToggled(s, to) == Set(s, to.def[s]) /\ Refresh(to)
ToggleSymValue(i) ==
    /\ OnRow(i) /\ OfType(i, AllSymbols)
    /\ RefreshToggled(SymOf(i), Toggle(st, SymOf(i)))
    /\ Edited

\* renderer_edited: the whole menu tree is compared with whatever tree is shown, also when
\* the text was refused.
CompareAll(r) == Draw(r) /\ behind' = (behind \/ Cut(r) \/ mode # "full")
RendererEdited(i, val) ==
    LET s == SymOf(i)
        can == IntWithinRange(st, s, val)
    IN  /\ OnRow(i) /\ OfType(i, Ints)
        /\ SetOrNot(s, val, can)
        /\ CompareAll(UpdateMenu(Tree(IF can THEN SetInt(st, s, val) ELSE st, right), 1))
        /\ Edited /\ UNCHANGED <<option, mode, left, current, browsed>>

\* on_single_clicked, on_split_clicked and on_full_clicked; the first leaves the back
\* button as it is.
ShowRows(view) ==
    /\ IsGtk /\ Open /\ Started /\ Looked
    /\ Part(st, view, 1) /\ current' = 1
    /\ back' = (view = "single" /\ back)
    /\ UNCHANGED <<browsed, option, left>>

ShowSplit ==
    /\ IsGtk /\ Open /\ Started /\ Looked
    /\ mode' = "split" /\ right' = <<>> /\ ShowLeft(DisplayList(st)) /\ current' = 1
    /\ back' = FALSE /\ behind' = FALSE
    /\ UNCHANGED <<browsed, option>>

\* A double click on a menu of the single or split view, and the back button.
GoTo(i) ==
    /\ Looked /\ current' = i
    /\ Part(st, mode, IF mode = "single" THEN i ELSE browsed)
    /\ UNCHANGED <<browsed, option, left>>
Descend(i) == OnRow(i) /\ mode # "full" /\ IsMenu(i) /\ GoTo(i) /\ back' = TRUE

\* on_back_clicked: above the main menu there is none.
Above(i) == LET up == M.node[i].parent IN IF IsMenu(up) THEN up ELSE M.node[up].parent
OnBack ==
    /\ IsGtk /\ Open /\ back
    /\ IF current # 1 THEN GoTo(Above(current)) /\ back' = (Above(current) # 1)
       ELSE Draw(Crash(Tree(st, right))) /\ Unchanged
            /\ UNCHANGED <<option, looks, mode, left, current, browsed, back, behind>>

\* A key n, m or y on a row, which is what a click on its column does.
ColumnKey(i) == \E col \in Tri : ChangeSymValue(i, col)

OnMenuRow(i) == IsGtk /\ Open /\ mode = "split" /\ \E r \in Flat(left) : r.menu = i

\* A double click on a menuconfig of the left tree: the first click shows its menu, the
\* second toggles it as well, and both trees are displayed anew.
DisplayBoth(l, i) == left' = l.rows /\ Part(l.st, mode, i)
ToggleMenu(s, to, rows, i) ==
    /\ Set(s, to.def[s])
    /\ DisplayBoth(DisplayList(UpdateTree(Tree(to, rows), M.items[i]).st), i)
ToggleShown(clicked, i) == ToggleMenu(SymOf(i), Toggle(clicked.st, SymOf(i)), clicked.rows, i)
DoubleClick(i) ==
    /\ OnMenuRow(i) /\ OfType(i, Bools \cup Tristates)
    /\ ToggleShown(DisplayTree(Tree(st, <<>>), i), i) /\ browsed' = i /\ current' = i
    /\ Edited /\ UNCHANGED option

\* A click on a menu of the left tree, or a double click on one without a symbol.
Browse(i) ==
    /\ OnMenuRow(i) /\ Looked
    /\ browsed' = i /\ Part(st, mode, i)
    /\ current' \in {current} \cup {j \in {i} : SymOf(j) = NoSymbol}
    /\ UNCHANGED <<option, left, back>>

\* on_set_option_mode1_activate and the others
SetOption(o) ==
    /\ IsGtk /\ Open /\ Started /\ o # option /\ Looked
    /\ option' = o /\ current' = 1
    /\ Display(DisplayTree([Tree(st, <<>>) EXCEPT !.opt = o], 1))
    /\ UNCHANGED <<mode, browsed, left, back>>

\* load_filename: the rows of what was loaded come after those that were shown.
LoadFilename(name) ==
    /\ IsGtk /\ Started /\ ReadFile(name)
    /\ Draw(DisplayTree(Tree(ConfRead(st, files[name]), right), 1)) /\ current' = 1
    /\ behind' = TRUE
    /\ UNCHANGED <<mode, browsed, left, back>>

LoadFails(name) == IsGtk /\ Open /\ Started /\ ReadMissing(name) /\ UNCHANGED <<windowVars, gtkVars>>

StoreFilename(name) == IsGtk /\ Open /\ Started /\ BeginWrite(name) /\ UNCHANGED <<windowVars, gtkVars>>

GtkNext ==
    \/ GtkStart \/ ShowSplit \/ OnBack
    \/ \E view \in {"single", "full"} : ShowRows(view)
    \/ \E i \in DOMAIN M.node :
          \/ ColumnKey(i) \/ ToggleSymValue(i) \/ Descend(i) \/ Browse(i) \/ DoubleClick(i)
          \/ \E val \in DOMAIN ConstValue \ Consts : RendererEdited(i, ConstValue[val])
    \/ \E o \in {"normal", "all", "prompt"} : SetOption(o)
    \/ \E name \in Names : LoadFilename(name) \/ LoadFails(name) \/ StoreFilename(name)
-----------------------------------------------------------------------------
\* The rows in the order in which they are shown.
RECURSIVE Lines(_)
Lines(rows) == FlattenSeq([k \in DOMAIN rows |-> <<rows[k]>> \o Lines(rows[k].kids)])

RowsFor(s, shown) ==
    /\ \A k \in DOMAIN shown : MenuIsVisible(s, shown[k].menu).visible
                               /\ shown[k].text = Text(s, shown[k].menu)
    /\ mode = "full" => [k \in DOMAIN shown |-> shown[k].menu] =
                        SelectSeq(WriteOrder, LAMBDA i : MenuIsVisible(s, i).visible)

\* Bringing the rows up to date one by one gives what displaying them anew would: rows
\* of visible entries only, with the values and the possible values that a calculation
\* from scratch gives, and in the full view one for every visible entry, in the order of
\* the menus.  Where "behind" is TRUE, and until the tree is displayed anew, rows are known
\* to be wrong: update_tree has returned before its end, or has compared the rows of one
\* menu with the main menu, or a loaded file has added all rows a second time.
RowsCurrent ==
    Running /\ IsGtk /\ Started /\ option = "normal" /\ ~behind /\ Settled =>
        RowsFor(Fresh, Lines(right)) \/ st.crashed \/ Fresh.crashed \/ TypedAgain
=============================================================================
