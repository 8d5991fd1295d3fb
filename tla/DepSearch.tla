------------------------------ MODULE DepSearch ------------------------------
(***************************************************************************)
(* The check for recursive dependencies (sym_check_deps, symbol.c) that    *)
(* conf_parse (zconf.y) makes on every symbol once the menu is finalized,  *)
(* over any graph of symbols: a depth-first search with two flags,         *)
(* SYMBOL_CHECK for the symbols on the way and SYMBOL_CHECKED for those    *)
(* that need no second look.  The C functions call each other; here their  *)
(* activations are the frames of a stack, and a step is one call, the move *)
(* of a choice to its next member, or one return.                          *)
(***************************************************************************)
EXTENDS Naturals, Sequences

CONSTANTS Nodes,    \* the symbols
          NoLoop    \* NULL, as what a search returns

ASSUME NoLoopAssumption == NoLoop \notin Nodes

VARIABLES
    refs,       \* refs[s]: the symbols in the expressions that are searched for s, in order
    members,    \* members[c]: the members of choice c, in order; none for other symbols
    group,      \* the choice that a symbol is a member of; else the symbol
    todo,       \* the symbols that the loop of conf_parse has still to come to
    stack,      \* the searches that are under way
    check,      \* the symbols with SYMBOL_CHECK
    checked,    \* the symbols with SYMBOL_CHECKED
    loop,       \* what the search that just ended returns: the symbol that closes a loop
    reports,    \* how many loops were printed
    errors      \* yynerrs

graph == <<refs, members, group>>
searchVars == <<refs, members, group, todo, stack, check, checked, loop, reports, errors>>

Elements(s) == {s[i] : i \in DOMAIN s}

\* A choice and its members are searched, and marked, together.
Family(g) == {g} \cup Elements(members[g])

\* The search of sym: where it is a choice, of its nth member after its own; and the
\* operand that is next.
Frame == [sym : Nodes, nth : Nat, next : Nat]
Start(g) == [sym |-> g, nth |-> 0, next |-> 1]
Searching(f) == IF f.nth = 0 THEN f.sym ELSE members[f.sym][f.nth]
OperandsOf(f) == refs[Searching(f)]

Top == stack[Len(stack)]
Popped == SubSeq(stack, 1, Len(stack) - 1)
Searched(f) == f.next > Len(OperandsOf(f))

-----------------------------------------------------------------------------
\* What every graph of symbols is like: groups are choices with their members, and an
\* expression that names a choice of which its symbol is no member names a member of it,
\* too.  (A choice without a name is only named in the dependencies of what is below one
\* of its members, which name that member.)
GroupsOK(ms, gr) ==
    \A s \in Nodes :
        /\ gr[gr[s]] = gr[s]
        /\ \A i \in DOMAIN ms[s] : gr[ms[s][i]] = s /\ ms[s][i] # s
        /\ gr[s] # s => s \in Elements(ms[gr[s]])
NamesMembers(rs, ms, gr) ==
    \A s, t \in Nodes :
        t \in Elements(rs[s]) /\ ms[t] # <<>> /\ gr[s] # t =>
            Elements(rs[s]) \cap Elements(ms[t]) # {}
GraphOK(rs, ms, gr) ==
    /\ rs \in [Nodes -> Seq(Nodes)]
    /\ ms \in [Nodes -> Seq(Nodes)]
    /\ gr \in [Nodes -> Nodes]
    /\ GroupsOK(ms, gr)
    /\ NamesMembers(rs, ms, gr)

\* All symbols are in the hash table that the loop of conf_parse goes through.
AllToDo(rs, to) == \A s \in Nodes : rs[s] # <<>> => s \in Elements(to)

SearchInit ==
    /\ GraphOK(refs, members, group)
    /\ todo \in Seq(Nodes) /\ AllToDo(refs, todo)
    /\ stack = <<>> /\ check = {} /\ checked = {}
    /\ loop = NoLoop /\ reports = 0 /\ errors = 0

\* sym_check_deps, called for s with the searches st under way.  A member of a choice
\* is handed on to its choice, which has the same flags when the member has none.
Closes(s, st) ==
    /\ s \in check
    /\ loop' = s /\ reports' = reports + 1
    /\ stack' = st /\ UNCHANGED <<check, checked>>

Skips(s, st) ==
    /\ s \in checked \ check
    /\ loop' = NoLoop /\ stack' = st
    /\ UNCHANGED <<check, checked, reports>>

Begins(s, st) ==
    /\ s \notin check \cup checked
    /\ stack' = Append(st, Start(group[s]))
    /\ check' = check \cup Family(group[s])
    /\ checked' = checked \cup Family(group[s])
    /\ loop' = NoLoop /\ UNCHANGED reports

Call(s, st) == Closes(s, st) \/ Skips(s, st) \/ Begins(s, st)

\* One turn of the loop in conf_parse, once what the one before called has returned.
NextSymbol ==
    /\ stack = <<>> /\ todo # <<>>
    /\ todo' = Tail(todo)
    /\ errors' = IF loop = NoLoop THEN errors ELSE errors + 1
    /\ Call(Head(todo), <<>>)
    /\ UNCHANGED graph

\* sym_check_expr_deps: operand by operand, until one of them closes a loop.
SearchOperand ==
    /\ stack # <<>> /\ loop = NoLoop /\ ~Searched(Top)
    /\ Call(OperandsOf(Top)[Top.next], [stack EXCEPT ![Len(stack)].next = @ + 1])
    /\ UNCHANGED <<graph, todo, errors>>

\* sym_check_choice_deps: while the choice is searched its members are on the way, and
\* so they are, without the choice, while each of them is.
NextMember ==
    /\ stack # <<>> /\ loop = NoLoop /\ Searched(Top)
    /\ Top.nth < Len(members[Top.sym])
    /\ stack' = Append(Popped, [sym |-> Top.sym, nth |-> Top.nth + 1, next |-> 1])
    /\ check' = check \ {Top.sym}
    /\ UNCHANGED <<graph, todo, checked, loop, reports, errors>>

\* Mutant of Leave: the members of a choice keep their SYMBOL_CHECK.
LeaveMarked == stack' = Popped /\ check' = check \ {Top.sym}

Leave == stack' = Popped /\ check' = check \ Family(Top.sym)

Return ==
    /\ stack # <<>> /\ loop = NoLoop /\ Searched(Top)
    /\ Top.nth = Len(members[Top.sym])
    /\ Leave
    /\ UNCHANGED <<graph, todo, checked, loop, reports, errors>>

\* A loop ends what is under way up to the symbol that closes it, or to its choice.
Unwind ==
    /\ stack # <<>> /\ loop # NoLoop
    /\ Leave
    /\ loop' = IF loop \in Family(Top.sym) THEN NoLoop ELSE loop
    /\ UNCHANGED <<graph, todo, checked, reports, errors>>

SearchNext == NextSymbol \/ SearchOperand \/ NextMember \/ Return \/ Unwind

SearchSpec == SearchInit /\ [][SearchNext]_searchVars

-----------------------------------------------------------------------------
\* A choice and its members are calculated together: as one, they depend on what any
\* of them depends on, other than that a member depends on its choice.
Edge(g, h) ==
    \E s \in Nodes : \E i \in DOMAIN refs[s] :
        /\ group[s] = g /\ group[refs[s][i]] = h
        /\ ~(refs[s][i] = g /\ s # g)

\* Each symbol of the set depends on one of them.
Endless(gs) == gs # {} /\ \A g \in gs : \E h \in gs : Edge(g, h)
Recursive == \E gs \in SUBSET Nodes : Endless(gs)

Over == todo = <<>> /\ stack = <<>>

\* "recursive dependency detected!" is printed exactly when there is one, whatever
\* symbol the search begins with, although a symbol that was searched once is not
\* searched again.  It is never fatal: the loop ends at the symbol that closes it, so
\* conf_parse does not see it, and the front end goes on.
LoopsReported ==
    Over => (reports > 0 <=> Recursive) /\ errors = 0 /\ loop = NoLoop
=============================================================================
