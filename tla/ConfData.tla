------------------------------ MODULE ConfData ------------------------------
(***************************************************************************)
(* Configuration files (support/kconfig/confdata.c).  A file is the        *)
(* sequence of its lines <<symbol, value>>; "# FOO is not set" is the      *)
(* value 0 of a bool or tristate.                                          *)
(***************************************************************************)
EXTENDS Symbol

CONSTANT SymbolOrder    \* all symbols, in the order of the hash table

\* The menu entries in the order in which a configuration is written.
RECURSIVE Preorder(_)
Preorder(i) == <<i>> \o FlattenSeq([k \in DOMAIN M.items[i] |-> Preorder(M.items[i][k])])
WriteOrder == Tail(Preorder(1))
-----------------------------------------------------------------------------
\* conf_set_sym_val: what a symbol of this type can be set to by a file.
ValidFor(s, val) == IF s \in Bools THEN val \in {0, 2} ELSE val # Empty

\* Mutant of ReadMember: the member that is y is not remembered.
ReadMemberValue(st, s) == [st EXCEPT !.def[ChoiceOf(s)] = Max2(@, st.def[s])]

\* What a line does to the choice that its symbol is a value of.
ReadMember(st, s) ==
    LET c == ChoiceOf(s)
        val == st.def[s]
    IN  [st EXCEPT !.user = IF val = 1 /\ st.def[c] = 2 THEN @ \ {c} ELSE @,
                   !.selected[c] = IF val = 2 THEN s ELSE @,
                   !.def[c] = Max2(@, val)]

\* One line of conf_read_simple; warned is conf_warnings.
ReadLine(acc, line) ==
    LET s == line[1]
        val == line[2]
        st == acc.st
        set == IF s \in Ints /\ val = 0 THEN st
               ELSE [st EXCEPT !.def[s] = val, !.user = @ \cup {s}]
        member == IsMember(s)
        override == member /\ (\/ val = 1 /\ st.def[ChoiceOf(s)] = 2
                               \/ val = 2 /\ st.def[ChoiceOf(s)] # 0)
    IN  CASE s \notin Declared -> [acc EXCEPT !.st.changed = TRUE]
          [] s \in Declared /\ ~ValidFor(s, val) -> [acc EXCEPT !.warned = TRUE]
          [] OTHER -> [st |-> IF member THEN ReadMember(set, s) ELSE set,
                       warned |-> acc.warned \/ s \in st.user \/ override]

\* conf_read_simple of the user's values.
ReadSimple(st, file) ==
    LET none == [st EXCEPT !.valid = {}, !.user = ChoiceSyms, !.def = NoValues,
                           !.selected = NoMember, !.mark = AllSymbols]
    IN  FoldLeft(ReadLine, [st |-> none, warned |-> FALSE], file)

\* Whether the calculated value of s is the one in the file.
Agrees(st, s) ==
    \/ s \in ChoiceSyms
    \/ s \in st.user /\ s \in st.write /\ st.def[s] = st.curr[s]
    \/ s \notin st.user /\ s \notin st.write

\* Forgets the value of an invisible symbol, and that of an int out of its range.
Forget(acc, s, hide, outside) ==
    [st |-> [acc.st EXCEPT !.user = IF hide \/ outside THEN @ \ {s} ELSE @,
                           !.valid = IF outside THEN @ \ {s} ELSE @],
     unsaved |-> acc.unsaved \/ outside]
Reset(acc, s) ==
    IF s \notin acc.st.user \/ IsMember(s) THEN acc
    ELSE Forget(acc, s, ~VisibleIn(acc.st, s) /\ ~acc.unsaved,
                s \in Ints /\ ~IntWithinRange(acc.st, s, acc.st.def[s]))

\* conf_read
CalcRead(simple) ==
    [st |-> CalcAll(Calc(simple.st, Modules), SymbolOrder), warned |-> simple.warned]
ResetAll(read) ==
    LET differs == \E s \in AllSymbols : ~Agrees(read.st, s)
    IN  FoldLeft(Reset, [st |-> read.st, unsaved |-> differs], SymbolOrder)
NoteUnsaved(end, warned) == [end.st EXCEPT !.changed = @ \/ warned \/ end.unsaved]
Complete(read) == NoteUnsaved(ResetAll(read), read.warned)
ConfRead(st, file) == Complete(CalcRead(ReadSimple([st EXCEPT !.changed = FALSE], file)))

\* ... when there is no file.
ConfReadNothing(st) == Calc([st EXCEPT !.changed = TRUE], Modules)
-----------------------------------------------------------------------------
\* A symbol is calculated before it is written, and an entry without one is looked at.
SeeEntry(st, i) ==
    LET s == M.node[i].sym
    IN  CASE s = NoSymbol -> MenuIsVisible(st, i).st
          [] s \in ChoiceSyms -> st
          [] OTHER -> Calc(st, s)
IsWritten(st, i) == M.node[i].sym \in Named \cap st.write

\* One entry of conf_write: a symbol is written once, and its flag is used up.
PutEntry(st, file, i) ==
    LET s == M.node[i].sym
    IN  IF ~IsWritten(st, i) THEN [st |-> st, file |-> file]
        ELSE [st |-> [st EXCEPT !.write = @ \ {s}], file |-> Append(file, <<s, st.curr[s]>>)]
WriteEntry(acc, i) == PutEntry(SeeEntry(acc.st, i), acc.file, i)

\* conf_write up to the renames: the text, and the state it leaves behind.
ConfWrite(st) ==
    FoldLeft(WriteEntry, [st |-> IF st.changed THEN st ELSE ClearAllValid(st), file |-> <<>>],
             WriteOrder)
Written(st) == [st EXCEPT !.changed = FALSE]

\* One entry of conf_write_defconfig: what is not the default anyway.
InDefault(st, s) ==
    \/ ~Changeable(st, s)
    \/ st.curr[s] = StringDefault(st, s)
    \/ /\ IsMember(s) /\ s \in Bools /\ st.curr[s] = 2
       /\ ChoiceOf(s) \notin M.optional
       /\ ChoiceDefault(st, ChoiceOf(s)).sym = s
PutChanged(st, file, i) ==
    LET s == M.node[i].sym
        used == [st EXCEPT !.write = @ \ {s}]
    IN  [st |-> IF IsWritten(st, i) THEN used ELSE st,
         file |-> IF IsWritten(st, i) /\ ~InDefault(used, s) THEN Append(file, <<s, st.curr[s]>>)
                  ELSE file]
WriteChanged(acc, i) == PutChanged(SeeEntry(acc.st, i), acc.file, i)

ConfWriteDefconfig(st) ==
    FoldLeft(WriteChanged, [st |-> ClearAllValid(st), file |-> <<>>], WriteOrder)
-----------------------------------------------------------------------------
\* conf_write_autoconf calculates everything anew and writes what is not n.
Calculated(st) == CalcAll(ClearAllValid(st), SymbolOrder)
AutoConf(st) == {<<s, st.curr[s]>> : s \in {x \in Named \cap st.write : st.curr[x] # 0 \/ x \in Ints}}
-----------------------------------------------------------------------------
\* randomize_choice_values, when the choice c is y: member s gets it.
RandomizeChoice(st, c, s) ==
    LET ss == ToSet(Members(c))
    IN  [st EXCEPT !.def = [x \in AllSymbols |-> IF x = s THEN 2 ELSE IF x \in ss THEN 0 ELSE @[x]],
                   !.selected[c] = s, !.user = @ \cup ss \cup {c}, !.valid = @ \ (ss \cup {c})]

\* conf_set_all_new_symbols: values are what the mode, or the dice, give each
\* symbol that has none; "default" gives none.
NewSymbols(st) == (Declared \cap (Bools \cup Tristates)) \ (st.user \cup st.valid)
SetNew(st, mode, values) ==
    LET new == NewSymbols(st)
        own == IF mode = "default" THEN st
               ELSE [st EXCEPT !.def = [s \in AllSymbols |-> IF s \in new THEN values[s] ELSE @[s]],
                               !.user = @ \cup (IF mode = "random" THEN new \ ChoiceSyms ELSE new)]
        cleared == ClearAllValid(own)
        needing == {s \in AllSymbols : (s \in ChoiceSyms /\ s \notin cleared.user) \/ IsMember(s)}
    IN  IF mode = "random" THEN cleared ELSE [cleared EXCEPT !.need = @ \cup needing]

\* ... and then each choice that has none; picks are the members that are drawn.
SetChoice(mode, picks, seen, c) ==
    CASE mode # "random" -> [st |-> SetAllChoiceValues(seen, c), changed |-> TRUE]
      [] mode = "random" /\ seen.curr[c] = 2 ->
            [st |-> RandomizeChoice(seen, c, picks[c]), changed |-> TRUE]
      [] OTHER -> [st |-> seen, changed |-> FALSE]
SetAllNew(st, mode, values, picks) ==
    LET step(acc, c) == IF c \in acc.st.user THEN acc
                        ELSE SetChoice(mode, picks, Calc(acc.st, c), c)
    IN  FoldLeft(step, [st |-> SetNew(st, mode, values), changed |-> NewSymbols(st) # {}],
                 SelectSeq(SymbolOrder, LAMBDA s : s \in ChoiceSyms))
=============================================================================
