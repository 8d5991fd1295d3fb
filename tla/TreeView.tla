------------------------------ MODULE TreeView ------------------------------
(***************************************************************************)
(* What the two graphical front ends share, gconf and qconf: the window    *)
(* with its file menu, and the question that is asked when it is closed.   *)
(* A row shows the value of its entry's symbol and the values that can be  *)
(* set; it is drawn again when the symbol has SYMBOL_CHANGED.              *)
(***************************************************************************)
EXTENDS Session

CONSTANT MaxLooks       \* bound: changes of the view in a session

VARIABLES
    closing,    \* whether the question "Save configuration ?" is open
    option,     \* the entries to be shown: "normal", "all" or "prompt"
    looks       \* bounded counter

windowVars == <<closing, option, looks>>

WindowInit(fronts) ==
    /\ SessionInit(fronts)
    /\ closing = FALSE /\ option = "normal" /\ looks = 0

Open == Running /\ ~closing

\* What a row shows of its symbol's value, once that is calculated.
Text(s, i) ==
    LET x == SymOf(i)
    IN  IF x = NoSymbol THEN <<>>
        ELSE <<s.curr[x], IF x \in ChoiceSyms THEN s.chosen[x] ELSE NoSymbol,
               {val \in Tri : val # s.curr[x] /\ WithinRange(s, x, val)}>>

Unchanged == NoEdit /\ UNCHANGED <<files, filename, writing, ended, saves, closing>>

\* The user looks at something else.
Looked == Unchanged /\ looks < MaxLooks /\ looks' = looks + 1

\* File/Load: of a file that exists.
ReadFile(name) ==
    /\ Open /\ saves < MaxSaves /\ saves' = saves + 1
    /\ name \in DOMAIN files
    /\ NoEdit /\ UNCHANGED <<files, filename, writing, ended, windowVars>>

\* The save button, which is only sensitive when something has changed.
SaveButton == Open /\ st.changed /\ BeginWrite(DotConfig) /\ UNCHANGED windowVars

Close ==
    /\ Open
    /\ IF st.changed THEN closing' = TRUE /\ UNCHANGED ended
       ELSE ended' = "clean" /\ UNCHANGED closing
    /\ NoEdit /\ UNCHANGED <<st, files, filename, writing, saves, option, looks>>

Asked == Running /\ closing
AnswerYes == Asked /\ BeginWrite(DotConfig) /\ UNCHANGED windowVars
AnswerNo ==
    /\ Asked /\ ended' = "discarded"
    /\ NoEdit /\ UNCHANGED <<st, files, filename, writing, saves, windowVars>>
AnswerCancel ==
    /\ Asked /\ closing' = FALSE
    /\ NoEdit /\ UNCHANGED <<st, files, filename, writing, ended, saves, option, looks>>

FileSaved ==
    /\ ended = "no"
    /\ \E w \in writing : RenameNew(w)
    /\ st' = Written(st)
    /\ ended' = IF closing THEN "saved" ELSE "no"
    /\ UNCHANGED <<filename, windowVars>>

\* gconf quits even when it could not save; qconf goes on.
FileNotSaved ==
    /\ ended = "no"
    /\ \E w \in writing : RenameFails(w)
    /\ ended' = IF closing /\ front = "gconf" THEN "failed" ELSE "no"
    /\ closing' = FALSE
    /\ UNCHANGED <<option, looks>>

FileNext ==
    \/ SaveButton \/ Close \/ AnswerYes \/ AnswerNo \/ AnswerCancel
    \/ RenameOld /\ UNCHANGED windowVars
    \/ FileSaved \/ FileNotSaved
=============================================================================
