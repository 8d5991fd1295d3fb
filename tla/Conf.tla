--------------------------------- MODULE Conf ---------------------------------
(***************************************************************************)
(* The line-oriented front end (support/kconfig/conf.c), which every build *)
(* runs: each run of the program reads a configuration, completes it in    *)
(* the way of its mode and writes it.  oldconfig and syncconfig ask for    *)
(* the symbols that have no value until a walk over the menu tree asks     *)
(* nothing; the recursion of the walk is a list of what is left to do.     *)
(***************************************************************************)
EXTENDS Session, SyncFiles

CONSTANTS
    Modes,      \* the modes that are run
    MaxRuns     \* bound: runs of the program

VARIABLES
    todo,       \* what is left of conf and check_conf: <<task, menu entry, ...>>
    root,       \* rootEntry
    asked,      \* conf_cnt # 0
    runs        \* bounded counter

confVars == <<todo, root, asked, runs, syncVars>>
mode == front

AllModes == {"allnoconfig", "allyesconfig", "allmodconfig", "alldefconfig", "randconfig"}
AskModes == {"oldaskconfig", "oldconfig", "syncconfig", "listnewconfig"}
Defconfig == "defconfig"

ConfInit ==
    /\ SessionInit({"none"})
    /\ todo = <<>> /\ root = 0 /\ asked = FALSE /\ runs = 0
    /\ auto \in {None} \cup {{ToSet(c)} : c \in UNION {Configs[k] : k \in DOMAIN Configs} \ {<<>>}}
    /\ built = [s \in Named |-> LineOf(UNION auto, s)]
    /\ SyncInit

InPhase(p) == ended = "no" /\ phase = p
Goto(p) == phase' = p
Stays == edit' = None /\ UNCHANGED <<M, filename, mishaps, edits, saves, runs>>
NoFiles == UNCHANGED <<files, writing>>
Exit(how) == ended' = how /\ Goto("idle")
NoSync == UNCHANGED <<synced, wanted, products>>

-----------------------------------------------------------------------------
\* main up to the switch: what is read.  KCONFIG_ALLCONFIG may name any of the files.
Input(m) == IF m = "defconfig" THEN Defconfig ELSE DotConfig
Start(m) ==
    /\ phase = "idle" /\ runs < MaxRuns /\ runs' = runs + 1
    /\ front' = m
    /\ m \in {"defconfig", "syncconfig"} => Input(m) \in DOMAIN files
    /\ IF m \in AllModes
       THEN \/ st' = Blank
            \/ \E n \in DOMAIN files : st' = ReadSimple(Blank, files[n]).st
       ELSE st' = IF Input(m) \in DOMAIN files THEN ConfRead(Blank, files[Input(m)])
                  ELSE ConfReadNothing(Blank)
    /\ ended' = "no" /\ mishaps' = mishaps
    /\ phase' = CASE m \in AllModes \cup {"defconfig"} -> "set"
                  [] m \in AskModes -> "ask"
                  [] m = "savedefconfig" -> "minimal"
                  [] OTHER -> "write"
    /\ todo' = IF m = "oldaskconfig" THEN <<<<"conf", 1>>>> ELSE <<<<"check", 1>>>>
    /\ root' = IF m = "oldaskconfig" THEN 1 ELSE 0
    /\ asked' = FALSE
    /\ synced' = FALSE
    /\ edit' = None /\ UNCHANGED <<M, files, filename, writing, edits, saves, wanted, products>>

\* KCONFIG_NOSILENTUPDATE
ExplicitUpdate ==
    /\ InPhase("ask") /\ mode = "syncconfig" /\ st.changed /\ todo = <<<<"check", 1>>>> /\ ~asked
    /\ Exit("failed")
    /\ Stays /\ NoFiles /\ NoSync /\ UNCHANGED <<front, st, todo, root, asked>>

\* conf_set_all_new_symbols: with randconfig, until nothing is new.
NewValues == CASE mode = "allyesconfig" -> {2}
               [] mode = "allmodconfig" -> {1}
               [] OTHER -> {0}
How == IF mode = "randconfig" THEN "random"
       ELSE IF mode \in {"alldefconfig", "defconfig"} THEN "default" ELSE "same"
\* The dice: one value for each new symbol, and one member for each choice.
Rolls ==
    LET new == NewSymbols(st)
        whole == new \ Tristates
        roll(b, t) == [s \in AllSymbols |-> IF s \in DOMAIN b THEN b[s]
                                           ELSE IF s \in DOMAIN t THEN t[s] ELSE 0]
    IN  {roll(b, t) : b \in [whole -> {0, 2}], t \in [new \cap Tristates -> Tri]}
Picks ==
    LET cs == {c \in ChoiceSyms : Members(c) # <<>>}
        of(f) == [c \in ChoiceSyms |-> IF c \in cs THEN Members(c)[f[c]] ELSE NoSymbol]
    IN  {of(f) : f \in {g \in [cs -> 1..Max2(1, Len(SymbolOrder))] :
                          \A c \in cs : g[c] <= Len(Members(c))}}

Draws == IF mode = "randconfig" THEN Rolls \X Picks
         ELSE {<<[s \in AllSymbols |-> val], NoMember>> : val \in NewValues}

WithAllNew(r) ==
    /\ st' = r.st
    /\ Goto(IF mode = "randconfig" /\ r.changed THEN "set" ELSE "write")
SetAllNewSymbols ==
    /\ InPhase("set")
    /\ \E draw \in Draws : WithAllNew(SetAllNew(st, How, draw[1], draw[2]))
    /\ Stays /\ NoFiles /\ NoSync /\ UNCHANGED <<front, ended, todo, root, asked>>
-----------------------------------------------------------------------------
Tasks(kind, is) == [k \in DOMAIN is |-> <<kind, is[k]>>]
Task == todo[1]
Entry == Task[2]
Rest == Tail(todo)
IsNew(s, x) == x \notin s.user

Asking(kind) == InPhase("ask") /\ todo # <<>> /\ Task[1] = kind
Walked(s, more) ==
    /\ st' = s /\ todo' = more \o Rest
    /\ Stays /\ NoFiles /\ UNCHANGED <<front, ended, syncVars>>

\* Mutant of Asks: whatever can be set is asked for.
AsksAlways(s1, s) == Changeable(s1, s) \/ (s \in ChoiceSyms /\ s1.curr[s] = 2)

Asks(s1, s) ==
    /\ IsNew(s1, s)
    /\ Changeable(s1, s) \/ (s \in ChoiceSyms /\ s1.curr[s] = 2)

\* check_conf: what is new, and can be set, is asked from the menu that it is in.
Check(seen, s, below, top) ==
    IF seen.visible /\ mode # "listnewconfig" /\ s # NoSymbol /\ Asks(seen.st, s)
    THEN Walked(seen.st, <<<<"conf", top>>>> \o below) /\ root' = top /\ asked' = TRUE
    ELSE Walked(seen.st, IF seen.visible THEN below ELSE <<>>) /\ UNCHANGED <<root, asked>>
CheckConf ==
    /\ Asking("check")
    /\ Check(MenuIsVisible(st, Entry), SymOf(Entry), Tasks("check", M.items[Entry]),
             ParentMenu(Entry))

\* conf: "Except in oldaskconfig mode, we show only menus that contain new symbols."
OwnTask(s) ==
    CASE s = NoSymbol -> <<>>
      [] s \in ChoiceSyms -> <<<<"choice", Entry>>>>
      [] s \in Ints -> <<<<"string", Entry>>>>
      [] OTHER -> <<<<"sym", Entry>>>>
ConfTasks(visible, s) ==
    CASE ~visible -> <<>>
      [] visible /\ IsMenu(Entry) /\ mode # "oldaskconfig" /\ root # Entry -> <<<<"check", Entry>>>>
      [] OTHER -> OwnTask(s) \o (IF s \in ChoiceSyms THEN <<>> ELSE Tasks("conf", M.items[Entry]))
WalkSeen(seen) == Walked(seen.st, ConfTasks(seen.visible, SymOf(Entry)))
WalkConf ==
    /\ Asking("conf")
    /\ WalkSeen(MenuIsVisible(st, Entry)) /\ UNCHANGED <<root, asked>>

\* conf_askvalue: whether the user is asked.
AskValue(s) ==
    /\ Changeable(st, s)
    /\ mode = "oldaskconfig" \/ IsNew(st, s)

NoQuestion ==
    /\ Asking("sym") \/ Asking("string")
    /\ ~AskValue(SymOf(Entry))
    /\ Walked(st, <<>>) /\ UNCHANGED <<root, asked>>

\* conf_sym and conf_string, until the answer is one that can be set.  At the end of the
\* input, xfgets leaves the empty line that stands for the value that is shown: an answer
\* like others, except that an int whose value cannot be set is then asked for for ever.
AnswerSym(val) ==
    LET s == SymOf(Entry)
    IN  /\ Asking("sym") /\ AskValue(s) /\ CanSet(st, s, val)
        /\ Walked(SetTristate(st, s, val), <<>>) /\ UNCHANGED <<root, asked>>

AnswerString(val) ==
    LET s == SymOf(Entry)
    IN  /\ Asking("string") /\ AskValue(s) /\ IntWithinRange(st, s, val)
        /\ Walked(SetInt(st, s, val), <<>>) /\ UNCHANGED <<root, asked>>

\* conf_choice: first whether it is y, m or n, if that can be set, ...
WalkChoice ==
    LET s == SymOf(Entry)
        pick == <<"pick", Entry, IsNew(st, s), FALSE>>
    IN  /\ Asking("choice")
        /\ Walked(st, IF Changeable(st, s) THEN <<<<"sym", Entry>>, pick>> ELSE <<pick>>)
        /\ UNCHANGED <<root, asked>>

\* ... and then, when it is y, which member; when it is m, each one.  Without the
\* member that is to be kept, the same question comes again and again.
Visible(acc, r, j) ==
    [st |-> r.st, shown |-> IF r.visible /\ SymOf(j) # NoSymbol THEN Append(acc.shown, j)
                            ELSE acc.shown]
SeeMembers(s, is) ==
    FoldLeft(LAMBDA acc, j : Visible(acc, MenuIsVisible(acc.st, j), j), [st |-> s, shown |-> <<>>], is)

\* The members that the user can pick, or the one that is kept.
Offered(seen, c) ==
    LET all == ToSet(seen.shown)
    IN  IF Len(seen.shown) # 1 /\ mode # "oldaskconfig" /\ ~Task[3]
        THEN {j \in all : SymOf(j) = seen.st.chosen[c]}
        ELSE all
Pick(s, j) ==
    Walked(IF CanSet(s, SymOf(j), 2) THEN SetTristate(s, SymOf(j), 2) ELSE s,
           Tasks("conf", M.items[j]))
PickFrom(own, seen, choices) ==
    IF choices = {} THEN Walked(own, <<[Task EXCEPT ![4] = ~@]>>)
    ELSE \E j \in choices : Pick(seen.st, j)
SeeAndPick(own, seen, c) == PickFrom(own, seen, Offered(seen, c))
PickWhen(own, c, is) ==
    CASE own.curr[c] = 0 -> Walked(own, <<>>)
      [] own.curr[c] = 1 -> Walked(own, Tasks("conf", is))
      [] own.curr[c] = 2 -> SeeAndPick(own, SeeMembers(own, is), c)
PickMember ==
    /\ Asking("pick")
    /\ PickWhen(Calc(st, SymOf(Entry)), SymOf(Entry), M.items[Entry]) /\ UNCHANGED <<root, asked>>

\* Mutant of Again: one walk is enough.
Once == mode = "oldaskconfig"

Again == asked \/ mode = "oldaskconfig"

\* "Update until a loop caused no more changes"
NextLoop ==
    /\ InPhase("ask") /\ todo = <<>>
    /\ IF Again
       THEN /\ todo' = <<<<"check", 1>>>> /\ UNCHANGED <<phase, ended>>
       ELSE /\ UNCHANGED todo
            /\ IF mode = "listnewconfig" THEN Exit("done")
               ELSE /\ UNCHANGED ended
                    /\ Goto(IF mode = "syncconfig" /\ ~st.changed THEN "split" ELSE "write")
    /\ front' = IF mode = "oldaskconfig" THEN "oldconfig" ELSE mode
    /\ asked' = FALSE
    /\ Stays /\ NoFiles /\ NoSync /\ UNCHANGED <<st, root>>
-----------------------------------------------------------------------------
\* Mutant of WriteConfig: .config is written in place.
WriteInPlace ==
    /\ InPhase("write") /\ Exit("done")
    /\ st' = Written(ConfWrite(st).st) /\ files' = (DotConfig :> ConfWrite(st).file) @@ files
    /\ Stays /\ NoSync /\ UNCHANGED <<front, writing, todo, root, asked>>

\* conf_write(NULL)
WriteConfig ==
    /\ InPhase("write") /\ Goto("rename")
    /\ Write(ConfWrite(st), DotConfig)
    /\ Stays /\ NoSync /\ UNCHANGED <<front, files, ended, todo, root, asked>>

MoveOld == InPhase("rename") /\ RenameOld /\ UNCHANGED confVars

MoveNew ==
    /\ InPhase("rename")
    /\ \E w \in writing : RenameNew(w)
    /\ st' = Written(st)
    /\ IF mode = "syncconfig" THEN Goto("split") /\ UNCHANGED ended ELSE Exit("done")
    /\ NoSync /\ UNCHANGED <<filename, todo, root, asked, runs>>

WriteFails ==
    /\ InPhase("rename")
    /\ \E w \in writing : RenameFails(w)
    /\ Exit("failed")
    /\ NoSync /\ UNCHANGED <<todo, root, asked, runs>>

\* conf_write_defconfig writes the file in place.
Minimal(w) == st' = w.st /\ files' = (Defconfig :> w.file) @@ files
WriteMinimal ==
    /\ InPhase("minimal") /\ Exit("done")
    /\ Minimal(ConfWriteDefconfig(st))
    /\ Stays /\ NoSync /\ UNCHANGED <<front, writing, todo, root, asked>>

\* conf_write_autoconf, in the steps that others can see.
Split ==
    /\ InPhase("split") /\ SplitConfig(AutoConf(Fresh)) /\ st' = Fresh
    /\ Stays /\ NoFiles /\ UNCHANGED <<front, ended, todo, root, asked>>
RenameHeader ==
    /\ InPhase("header") /\ PutHeader
    /\ Stays /\ NoFiles /\ UNCHANGED <<front, st, ended, todo, root, asked>>
RenameAuto ==
    /\ InPhase("auto") /\ PutAuto /\ ended' = "done"
    /\ Stays /\ NoFiles /\ UNCHANGED <<front, st, todo, root, asked>>

\* The program is killed, between any two system calls that others can see.
Crash ==
    /\ ended = "no" /\ phase \notin {"idle", "ask", "set"} /\ mishaps = {}
    /\ mishaps' = {"crash"} /\ ended' = "killed"
    /\ Abandon /\ Killed(AutoConf(Fresh))
    /\ edit' = None
    /\ UNCHANGED <<M, front, st, filename, edits, saves, todo, root, asked, runs>>

Build == Rebuild /\ Stays /\ NoFiles /\ UNCHANGED <<front, st, ended, todo, root, asked>>

ConfStep ==
    \/ SetAllNewSymbols \/ ExplicitUpdate
    \/ CheckConf \/ WalkConf \/ NoQuestion \/ WalkChoice \/ PickMember \/ NextLoop
    \/ \E val \in Tri : AnswerSym(val)
    \/ \E val \in DOMAIN ConstValue \ Consts : AnswerString(ConstValue[val])
    \/ WriteConfig \/ MoveOld \/ MoveNew \/ WriteMinimal
    \/ Split \/ RenameHeader \/ RenameAuto

ConfNext == ConfStep \/ (\E m \in Modes : Start(m)) \/ WriteFails \/ Crash \/ Build

\* A run goes on until it ends, and the user answers every question some time, with what
\* can be set (which nobody does at the end of the input): the weak fairness of ConfStep,
\* which is enabled as long as the program runs.
Busy == phase # "idle"
ConfSpec ==
    /\ ConfInit /\ [][ConfNext]_<<sessionVars, confVars>>
    /\ []<>(~Busy) \/ []<><<ConfStep>>_<<sessionVars, confVars>>
-----------------------------------------------------------------------------
\* Every file is replaced in the order that confdata.c prescribes: the steps of all
\* modes are those of ConfigFile and SyncFiles, so that what is proved of these holds
\* for conf.
ReplacesInOrder == SaveSpec /\ SyncSpec

Done == phase = "idle" /\ ended = "done"
FixedPoint(read) == Same(read, Fresh) /\ ~read.changed
NextRead == ConfRead(Blank, files[DotConfig])

AskedIn(s) ==
    \A i \in DOMAIN M.node :
        SymOf(i) # NoSymbol /\ MenuIsVisible(s, i).visible /\ Changeable(s, SymOf(i))
            => SymOf(i) \in s.user

\* After oldconfig and syncconfig nothing is left that the user could set and was not
\* asked for, even what only became visible by a later answer: the next build is silent.
AskedAll ==
    Done /\ mode \in {"oldconfig", "syncconfig"} =>
        AskedIn(Fresh)

\* What a run writes, the next one reads as it was, and has nothing to change: whatever
\* the mode and the dice, .config is a fixed point.
RoundTrip ==
    Done /\ mode \notin {"savedefconfig", "listnewconfig"} /\ Representable(st) /\ Settled =>
        FixedPoint(NextRead)

\* A minimal file is enough: defconfig makes of it the configuration it was made from.
MinimalIsEnough ==
    Done /\ mode = "savedefconfig" =>
        Same(Calculated(SetAllNew(ConfRead(Blank, files[Defconfig]), "default", NoTri, NoMember).st),
             Fresh)

\* The questions come to an end: every walk asks for less than the one before.
QuestionsEnd == (phase = "ask") ~> (phase # "ask")
=============================================================================
