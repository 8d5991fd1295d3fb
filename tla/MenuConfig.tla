----------------------------- MODULE MenuConfig -----------------------------
(***************************************************************************)
(* The two terminal front ends, mconf and nconf: a stack of menus and      *)
(* dialogs, of which the top one is shown.  Every key ends with the menu   *)
(* being built anew, so the list that the user sees is a calculation over  *)
(* the cache of symbol values, and may itself fill that cache.             *)
(***************************************************************************)
EXTENDS Session

CONSTANTS
    Patterns,       \* symbols that the user searches for, each by its whole name
    SingleMenus,    \* the Kconfig files that are also shown as one menu that unfolds
    MaxScreens      \* bound: no search is begun above so many menus and dialogs

VARIABLES
    screens,    \* the menus and dialogs that are open, the one shown last
    items,      \* its items: the entry, the tag, and the value and marks that are shown
    view        \* whether invisible entries are shown (show_all_options), whether
                \* menus unfold in place (single_menu_mode), and which ones have

termVars == <<screens, items, view>>

Mconf == front = "mconf"
Top == screens[Len(screens)]
Screen(kind, node) == [kind |-> kind, node |-> node]

Append1(acc, i, tag, val, marks) ==
    [acc EXCEPT !.items = Append(@, [menu |-> i, tag |-> tag, val |-> val, marks |-> marks])]

\* item_make of nconf looks whether the entry is visible, after its value was read.
Item(acc, i, tag, val, marks) ==
    Append1(IF Mconf THEN acc ELSE [acc EXCEPT !.st = MenuIsVisible(@, i).st], i, tag, val, marks)

\* menu_is_empty, which calculates what is in the menu: a menu with nothing to show is
\* marked with "----".
ItemInside(acc, seen, i, tag, val, marks) ==
    Item([acc EXCEPT !.st = seen.st], i, tag, val,
         marks \cup (IF seen.visible THEN {} ELSE {"empty"}))
ItemOfMenu(acc, i, tag, val, marks) ==
    ItemInside(acc, ChildVisible(acc.st, i), i, tag, val, marks)

\* The member of a choice that is chosen, if it can be seen; 0 for all other entries.
SeeMember(a, r, s, j) ==
    [a EXCEPT !.st = r.st, !.def = IF r.visible /\ SymOf(j) = r.st.chosen[s] THEN j ELSE @]
LookAtMembers(acc, i) ==
    FoldLeft(LAMBDA a, j : SeeMember(a, MenuIsVisible(a.st, j), SymOf(i), j),
             [acc EXCEPT !.def = 0], IF SymOf(i) \in ChoiceSyms THEN M.items[i] ELSE <<>>)

\* build_conf of both lists an entry of the menu cur; conf_choice lists the members of the
\* choice cur, and which of them has the mark.
HasItem(i, cur) == SymOf(i) # NoSymbol \/ (i # cur /\ HasPrompt(i))

Tag(a, i, cur) ==
    LET s == SymOf(i)
    IN  CASE a.radio -> "x"
          [] ~a.radio /\ s = NoSymbol -> IF IsMenu(i) THEN "m" ELSE ":"
          [] ~a.radio /\ s \in ChoiceSyms -> IF Changeable(a.st, s) \/ a.def # 0 THEN "t" ELSE ":"
          [] ~a.radio /\ s \in Named /\ (i = cur \/ (IsMember(s) /\ a.st.curr[s] = 2)) -> ":"
          [] OTHER -> IF s \in Ints THEN "s" ELSE "t"

Heading(i, cur) == i = cur /\ SymOf(i) \notin ChoiceSyms
Shows(a, i, cur) ==
    LET s == SymOf(i)
        blank == \/ s = NoSymbol \/ Heading(i, cur)
                 \/ s \in ChoiceSyms /\ ~Changeable(a.st, s)
    IN  CASE blank -> 0
          [] ~blank /\ a.radio -> IF s = a.st.chosen[SymOf(cur)] THEN 2 ELSE 0
          [] OTHER -> a.st.curr[s]

\* (NEW), -*- and {M}; and a choice that is y has the name of its member.
Marks(a, i, cur, tag) ==
    LET s == SymOf(i)
        can == Changeable(a.st, s)
        named == {"new" : x \in {s} \ a.st.user}
        fixed == IF can THEN {"least" : x \in {s} \cap {t \in Tristates : a.st.rev[t] = 1}}
                 ELSE {"fixed"}
    IN  CASE s = NoSymbol \/ Heading(i, cur) \/ a.radio -> {}
          [] s \in ChoiceSyms -> IF a.st.curr[s] = 2 /\ a.def # 0 THEN {SymOf(a.def)} ELSE {}
          [] OTHER -> (IF can THEN named ELSE {}) \cup (IF tag = "t" THEN fixed ELSE {})

\* The entries that are listed after entry i: below a choice that is y only those of
\* its member, and below a menu none unless it is unfolded.
Below(a, i, cur) ==
    LET s == SymOf(i)
        unfolded == a.view.single /\ i \in a.view.open
        ofMember == IF a.def = 0 THEN <<>> ELSE IF M.node[a.def].list = 0 THEN <<>> ELSE <<a.def>>
    IN  CASE a.radio -> <<>>
          [] ~a.radio /\ s \in ChoiceSyms -> IF a.st.curr[s] = 2 THEN ofMember ELSE M.items[i]
          [] /\ ~a.radio /\ s \notin ChoiceSyms
             /\ s \in Ints \/ i = cur \/ ~IsMenu(i) \/ (s = NoSymbol /\ unfolded) -> M.items[i]
          [] OTHER -> <<>>

RECURSIVE Build(_, _, _)
BuildAll(acc, is, cur) == FoldLeft(LAMBDA a, j : Build(a, j, cur), acc, is)

\* The items of entry i, which is listed in the menu cur, and of those below it.
LooksInside(a, i, cur) ==
    /\ ~a.radio /\ IsMenu(i) /\ i # cur
    /\ IF SymOf(i) = NoSymbol THEN ~a.view.single ELSE SymOf(i) \notin Ints \cup ChoiceSyms
ItemOf(a, i, cur, tag) ==
    IF LooksInside(a, i, cur) THEN ItemOfMenu(a, i, tag, Shows(a, i, cur), Marks(a, i, cur, tag))
    ELSE Item(a, i, tag, Shows(a, i, cur), Marks(a, i, cur, tag))
Items(a, i, cur) ==
    BuildAll(IF HasItem(i, cur) THEN ItemOf(a, i, cur, Tag(a, i, cur)) ELSE a,
             Below(a, i, cur), cur)

\* "menu_is_visible() has side effect that it will recalc the value of the symbol";
\* nconf does not recalculate when everything is shown.
After(acc, seen) == IF ~Mconf /\ acc.view.all THEN acc ELSE [acc EXCEPT !.st = seen.st]
Listed(acc, seen, i) ==
    seen.visible \/ (acc.view.all /\ IF Mconf THEN ~acc.radio /\ HasPrompt(i) ELSE TRUE)

BuildSeen(acc, seen, i, cur) ==
    IF Listed(acc, seen, i) THEN Items(LookAtMembers(After(acc, seen), i), i, cur)
    ELSE After(acc, seen)

Build(acc, i, cur) == BuildSeen(acc, MenuIsVisible(acc.st, i), i, cur)

\* get_prompt_str: where a search result can lead to is the entry of the prompt, or the
\* nearest menu above it that is visible; nowhere when it is right in the main menu.
SeeMenu(a, r, j, i) ==
    [st |-> r.st, at |-> IF r.visible /\ (a.at = 0 \/ j = i) THEN j ELSE a.at]
Nearest(s, i) ==
    FoldLeft(LAMBDA a, j : IF j = i /\ a.at = 0 THEN a
                           ELSE SeeMenu(a, MenuIsVisible(a.st, j), j, i),
             [st |-> s, at |-> 0], SelectSeq(Ancestors(M, i), LAMBDA j : j # 1) \o <<i>>)
LeadTo(acc, near) ==
    IF near.at = 0 THEN [acc EXCEPT !.st = near.st]
    ELSE Append1([acc EXCEPT !.st = near.st], near.at, "j", 0, {})
Location(acc, k) == LeadTo(acc, Nearest(acc.st, M.prop[k].menu))

\* get_relations_str of one symbol: what is said of it is calculated for it.
Relations(acc, s) ==
    LET range == IF s \in Ints THEN RangeProp(acc.st, s).st ELSE acc.st
        reverse == SymbolsOf(M.rev[s]) \o SymbolsOf(M.imp[s])
        said(a) == [a EXCEPT !.st = CalcAll(@, reverse)]
    IN  said(FoldLeft(Location, [acc EXCEPT !.st = range], M.props[s].prompt))

\* The screen on top of ss, drawn from the state s; a dialog has no items.  A menu in
\* which nothing is left to be shown stays: child_count counts all items since the
\* program started, so it only ends a program whose main menu has none at first.
Nothing(s, v) == [st |-> s, items |-> <<>>, view |-> v, radio |-> FALSE, def |-> 0]
Shown(acc, top) ==
    CASE top.kind = "results" -> Relations(acc, SymOf(top.node))
      [] top.kind \in {"menu", "choice"} ->
            BuildAll([acc EXCEPT !.radio = top.kind = "choice"],
                     IF top.kind = "menu" THEN <<top.node>> ELSE M.items[top.node], top.node)
      [] OTHER -> acc
Drawn(s, ss, v) == Shown(Nothing(s, v), ss[Len(ss)])

\* Here nobody looks for SYMBOL_CHANGED.
Display(drawn, ss) ==
    /\ screens' = ss /\ items' = drawn.items /\ view' = drawn.view
    /\ st' = [drawn.st EXCEPT !.mark = {}]

Draw(s, ss) == Display(Drawn(s, ss, view), ss)
Push(s, kind, node) == Draw(s, Append(screens, Screen(kind, node)))
Pop(s) == Draw(s, Front(screens))

\* A dialog over what is shown.
Ask(kind, node) ==
    /\ screens' = Append(screens, Screen(kind, node)) /\ items' = <<>>
    /\ UNCHANGED <<st, view>>

\* The program reads .config, and shows the main menu.
TermInit ==
    /\ SessionInit({"mconf", "nconf"})
    /\ screens = <<>> /\ items = <<>>
    /\ \E single \in BOOLEAN :
          /\ single => \E k \in SingleMenus : M = MenuTree(Kconfigs[k])
          /\ view = [all |-> FALSE, single |-> single, open |-> {}]

Still == NoEdit /\ UNCHANGED <<files, filename, writing, ended, saves>>

Start ==
    /\ Running /\ screens = <<>>
    /\ Push(ReadConfig, "menu", 1)
    /\ Still
-----------------------------------------------------------------------------
\* Item it of the menu is selected.
OnItem(it) ==
    /\ Running /\ screens # <<>> /\ Top.kind = "menu"
    /\ it \in ToSet(items)

\* Whether Enter opens the radio list, or the menu below the item.
OpensChoice(it) == it.tag = "t" /\ SymOf(it.menu) \in ChoiceSyms /\ st.curr[SymOf(it.menu)] = 2
OpensMenu(it) == it.tag = "m" \/ (it.tag = "t" /\ ~OpensChoice(it) /\ IsMenu(it.menu))

\* What the keys n, m, y and space make of a symbol: y asks for m when y is not possible.
Keyed(s) == {0, 1, IF CanSet(st, s, 2) THEN 2 ELSE 1, Toggled(st, s)}
SetKey(it, val) ==
    LET s == SymOf(it.menu)
    IN  /\ it.tag = "t" /\ val \in Keyed(s) /\ CanSet(st, s, val)
        /\ Set(s, val) /\ Draw(SetTristate(st, s, val), screens)

\* conf of both; nconf ignores keys on invisible items.
Key(it) == OnItem(it) /\ (Mconf \/ MenuIsVisible(st, it.menu).visible)

\* In the results of a search, which mconf keeps, Enter opens the menu of one.
Leads(it) ==
    CASE Top.kind = "results" -> Screen("menu", M.node[it.menu].parent)
      [] Top.kind = "menu" -> Screen(IF OpensChoice(it) THEN "choice" ELSE "menu", it.menu)
Enter(it) ==
    /\ \/ Key(it) /\ (OpensChoice(it) \/ OpensMenu(it))
       \/ Running /\ screens # <<>> /\ Top.kind = "results"
    /\ Draw(st, Append(screens, Leads(it))) /\ Still

\* Enter unfolds a menu where the space bar opens it.
Unfold(it) ==
    /\ Key(it) /\ it.tag = "m" /\ view.single
    /\ LET open == IF it.menu \in view.open THEN view.open \ {it.menu} ELSE view.open \cup {it.menu}
       IN  Display(Drawn(st, screens, [view EXCEPT !.open = open]), screens)
    /\ Still
EnterString(it) == Key(it) /\ it.tag = "s" /\ Ask("string", it.menu) /\ Still
SetItem(it, val) == Key(it) /\ SetKey(it, val)

\* handle_exit, do_exit: what has changed is only lost when the user says so.
Exit(dialog) ==
    IF st.changed THEN Ask(dialog, 0) /\ UNCHANGED ended
    ELSE ended' = "clean" /\ UNCHANGED <<st, termVars>>

\* Esc leaves a menu, and from the main menu the program; F9 leaves nconf from any.
Leave ==
    /\ Running /\ screens # <<>> /\ Top.kind = "menu" /\ Len(screens) = 1
    /\ Exit("exit")
    /\ NoEdit /\ UNCHANGED <<files, filename, writing, saves>>

\* The function keys of nconf work in the list of a choice as well.
Keys == Running /\ screens # <<>> /\ (Top.kind = "menu" \/ (~Mconf /\ Top.kind = "choice"))

Quit ==
    /\ ~Mconf /\ Keys
    /\ Exit("exit")
    /\ NoEdit /\ UNCHANGED <<files, filename, writing, saves>>

\* sig_handler of mconf: the exit dialog over whatever was going on; the file that
\* was being written is not finished.
Interrupt ==
    /\ Mconf /\ ended = "no" /\ screens # <<>> /\ Top.kind \notin {"exit", "signal"}
    /\ mishaps = {}
    /\ mishaps' = IF writing = None THEN {} ELSE {"signal"}
    /\ Abandon
    /\ Exit("signal")
    /\ edit' = None /\ UNCHANGED <<M, front, filename, edits, saves>>

\* z, or F4 of nconf: everything is shown, or no longer.
ShowAll ==
    /\ Keys
    /\ Display(Drawn(st, screens, [view EXCEPT !.all = ~@]), screens) /\ Still

\* search_conf: mconf opens a list of what it has found, nconf only shows it.
Search(i) ==
    LET to == Calc(st, SymOf(i))
    IN  /\ Keys /\ Len(screens) < MaxScreens
        /\ SymOf(i) \in Patterns
        /\ Draw(IF Mconf THEN to ELSE Relations(Nothing(to, view), SymOf(i)).st,
                IF Mconf THEN Append(screens, Screen("results", i)) ELSE screens)
        /\ Still

-----------------------------------------------------------------------------
InDialog(kind) == Running /\ screens # <<>> /\ Top.kind = kind

\* conf_choice: a member is set to y, if that is possible.
ChooseMember(it) ==
    LET s == SymOf(it.menu)
        can == CanSet(st, s, 2)
    IN  /\ InDialog("choice") /\ it \in ToSet(items) /\ s # NoSymbol
        /\ Mconf \/ MenuIsVisible(st, it.menu).visible
        /\ IF can THEN Set(s, 2) ELSE Still
        /\ Pop(IF can THEN SetTristate(st, s, 2) ELSE st)

\* conf_string: an entry that is out of range is refused, and asked for again.
EnterInt(val) ==
    LET s == SymOf(Top.node)
    IN  /\ InDialog("string") /\ IntWithinRange(st, s, val)
        /\ Set(s, val) /\ Pop(SetInt(st, s, val))

\* Esc closes a menu or a dialog; in that of sig_handler it ends the program as well.
Escape ==
    /\ Running /\ screens # <<>>
    /\ \/ Top.kind \in {"choice", "string", "exit", "results"}
       \/ Top.kind = "menu" /\ Len(screens) > 1
    /\ Pop(st) /\ Still

\* conf_load and conf_save with a name that the user types, until there is a file that
\* can be read or written.
Load(name) ==
    LET changed(s) == [s EXCEPT !.changed = TRUE]
    IN  /\ Keys /\ saves < MaxSaves /\ saves' = saves + 1
        /\ name \in DOMAIN files
        /\ filename' = name
        /\ Draw(changed(ConfRead(st, files[name])), screens)
        /\ NoEdit /\ UNCHANGED <<files, writing, ended>>

LoadMissing(name) == Keys /\ ReadMissing(name) /\ UNCHANGED termVars

Save(name) == Keys /\ BeginWrite(name) /\ UNCHANGED termVars

\* The exit that saves.
AtExit == InDialog("exit") \/ InDialog("signal")
SaveAndExit == AtExit /\ BeginWrite(filename) /\ UNCHANGED termVars
Discard ==
    /\ AtExit /\ ended' = "discarded"
    /\ NoEdit /\ UNCHANGED <<st, files, filename, writing, saves, termVars>>

Rename == RenameOld /\ UNCHANGED termVars

Saved ==
    /\ ended = "no"
    /\ \E w \in writing :
          /\ RenameNew(w)
          /\ IF Top.kind \notin {"exit", "signal"}
             THEN filename' = w.name /\ Draw(Written(st), screens) /\ UNCHANGED ended
             ELSE ended' = "saved" /\ st' = Written(st) /\ UNCHANGED <<filename, termVars>>

\* A save that fails is asked for again; an exit that fails exits.
NotSaved ==
    /\ ended = "no"
    /\ \E w \in writing : RenameFails(w)
    /\ ended' = IF Top.kind \in {"exit", "signal"} THEN "failed" ELSE "no"
    /\ UNCHANGED termVars

TermNext ==
    \/ Start \/ Leave \/ Quit \/ Interrupt \/ ShowAll \/ Escape
    \/ \E it \in ToSet(items) :
          \/ Enter(it) \/ Unfold(it) \/ EnterString(it) \/ ChooseMember(it)
          \/ \E val \in Tri : SetItem(it, val)
    \/ \E i \in DOMAIN M.node : Search(i)
    \/ \E val \in DOMAIN ConstValue \ Consts : EnterInt(ConstValue[val])
    \/ \E name \in Names : Load(name) \/ LoadMissing(name) \/ Save(name)
    \/ SaveAndExit \/ Discard \/ Rename \/ Saved \/ NotSaved
-----------------------------------------------------------------------------
\* The menu on the screen is the one that a calculation from scratch gives: no value
\* and no mark of it is stale, and no entry is missing that the user could set now.
\* (With all entries shown, nconf does not calculate the invisible ones; and an int that
\* is TypedAgain keeps its old value.)
MenuCurrent ==
    LET inMenu == Running /\ screens # <<>> /\ Top.kind = "menu"
    IN  inMenu /\ (Mconf \/ ~view.all) /\ Settled =>
            Build(Nothing(Fresh, view), Top.node, Top.node).items = items \/ TypedAgain

\* "sym_calc_choice": of the members of a choice that is y, exactly one is y.
OneMember ==
    LET whole(s) == {c \in ChoiceSyms : s.curr[c] = 2}
        chosen(s, c) == {x \in ToSet(Members(c)) : s.curr[x] = 2}
        one(s) == \A c \in whole(s) : Cardinality(chosen(s, c)) = 1
    IN  Running /\ screens # <<>> /\ Settled => one(Fresh)

TermSpec == TermInit /\ [][TermNext]_<<sessionVars, termVars>>
=============================================================================
