--------------------------- MODULE ConfFilesProofs ---------------------------
(***************************************************************************)
(* The two protocols by which Kconfig replaces files, proved: a saved text *)
(* is never lost (ConfigFile), and make never uses what was built with an  *)
(* old value (SyncFiles), for every configuration and however often the    *)
(* program is killed.                                                      *)
(***************************************************************************)
EXTENDS ConfigFile, SyncFiles, TLAPS

\* What has been written so far belongs to a name that the user typed, which is free
\* once the old file has been renamed, unless that failed.
SaveInv ==
    \A w \in writing :
        /\ w = [name |-> w.name, text |-> w.text, old |-> w.old, kept |-> w.kept]
        /\ w.name \in Names
        /\ w.old /\ w.kept => w.name \notin DOMAIN files

\* Nothing is being saved at first.
LEMMA SaveInitInv == SaveInit => SaveInv
BY DEF SaveInit, SaveInv

\* The rename to the backup preserves the invariant.
LEMMA BackUpInv ==
    ASSUME SaveInv, NEW w \in writing, BackUp(w)
    PROVE  SaveInv'
<1> DEFINE u == [name |-> w.name, text |-> w.text, old |-> TRUE, kept |-> w.kept]
<1>1. w = [name |-> w.name, text |-> w.text, old |-> w.old, kept |-> w.kept] /\ w.name \in Names
  BY DEF SaveInv
<1>3. writing' = {u}
  BY <1>1 DEF BackUp
<1>4. Old(w.name) # w.name
  BY <1>1, NamesAssumption
<1>5. w.name \notin DOMAIN files'
  <2>1. CASE w.name \notin DOMAIN files
    BY <2>1 DEF BackUp, SaveInv
  <2>2. CASE w.name \in DOMAIN files
    <3>1. files' = [n \in {Old(w.name)} \cup (DOMAIN files \ {w.name}) |->
                      IF n = Old(w.name) THEN files[w.name] ELSE files[n]]
      BY <2>2 DEF BackUp, Holding
    <3> QED BY <3>1, <1>4
  <2> QED BY <2>1, <2>2
<1>2. u.name = w.name /\ u.text = w.text /\ u.old /\ u.kept = w.kept
  OBVIOUS
<1> QED BY <1>1, <1>2, <1>3, <1>5 DEF SaveInv

\* So does a rename that fails.
LEMMA SkipInv ==
    ASSUME SaveInv, NEW w \in writing, SkipBackUp(w)
    PROVE  SaveInv'
<1> DEFINE u == [name |-> w.name, text |-> w.text, old |-> TRUE, kept |-> FALSE]
<1>1. w = [name |-> w.name, text |-> w.text, old |-> w.old, kept |-> w.kept] /\ w.name \in Names
  BY DEF SaveInv
<1>2. writing' = {u}
  BY DEF SkipBackUp
<1>3. u.name = w.name /\ u.text = w.text /\ ~u.kept
  OBVIOUS
<1> QED BY <1>1, <1>2, <1>3 DEF SaveInv

\* So does the end of a save, whether the new file takes its place or not.
LEMMA ReplaceInv ==
    ASSUME SaveInv, NEW w \in writing, Replace(w)
    PROVE  SaveInv'
<1>1. files' = [n \in {w.name} \cup DOMAIN files |-> IF n = w.name THEN w.text ELSE files[n]]
  BY DEF Replace, Holding
<1>2. writing' = {}
  BY DEF Replace
<1> QED BY <1>1, <1>2 DEF SaveInv

\* Every step preserves the invariant.
LEMMA SaveStepInv == SaveInv /\ [SaveNext]_fileVars => SaveInv'
<1> SUFFICES ASSUME SaveInv, [SaveNext]_fileVars PROVE SaveInv'
  OBVIOUS
<1>1. CASE \E w \in writing' : w.name \in Names /\ WriteText(w.name, w.text) /\ UNCHANGED files
  <2>1. PICK w \in writing' : w.name \in Names /\ WriteText(w.name, w.text) /\ UNCHANGED files
    BY <1>1
  <2>2. writing' = {[name |-> w.name, text |-> w.text, old |-> FALSE, kept |-> TRUE]}
    BY <2>1 DEF WriteText
  <2> QED BY <2>1, <2>2 DEF SaveInv
<1>2. CASE \E w \in writing : BackUp(w)
  BY <1>2, BackUpInv
<1>8. CASE \E w \in writing : SkipBackUp(w)
  BY <1>8, SkipInv
<1>3. CASE \E w \in writing : Replace(w)
  BY <1>3, ReplaceInv
<1>4. CASE \E w \in writing : GiveUp(w)
  BY <1>4 DEF GiveUp, SaveInv
<1>5. CASE Abandon
  BY <1>5 DEF Abandon, SaveInv
<1>6. CASE WriteOther
  BY <1>6 DEF WriteOther, SaveInv
<1>7. CASE UNCHANGED fileVars
  BY <1>7 DEF fileVars, SaveInv
<1> QED BY <1>1, <1>2, <1>3, <1>4, <1>5, <1>6, <1>7, <1>8 DEF SaveNext

\* While a file is replaced its name and its backup are the only ones that change.
LEMMA OthersKept ==
    ASSUME NEW name \in Names, NEW other \in Names, name # other,
           \A n \in {other, Old(other)} :
               /\ n \in DOMAIN files <=> n \in DOMAIN files'
               /\ n \in DOMAIN files => files'[n] = files[n]
    PROVE  Latest(other)' = Latest(other)
BY DEF Latest, Old

SavedOrBackedUp(name) ==
    \/ Latest(name)' = Latest(name)
    \/ \E w \in writing :
          /\ w.name = name /\ Latest(name)' = {w.text}
          /\ w.kept => \A text \in Latest(name) :
                Old(name) \in DOMAIN files' /\ files'[Old(name)] = text

\* After the rename to the backup the latest text of every name is the one of before.
LEMMA BackUpKeeps ==
    ASSUME SaveInv, NEW w \in writing, BackUp(w), NEW name \in Names
    PROVE  SavedOrBackedUp(name)
<1>1. w.name \in Names
  BY DEF SaveInv
<1>2. CASE w.name \notin DOMAIN files
  BY <1>2 DEF BackUp, SavedOrBackedUp, Latest, Old
<1>3. CASE w.name \in DOMAIN files
  <2>1. files' = [n \in {Old(w.name)} \cup (DOMAIN files \ {w.name}) |->
                    IF n = Old(w.name) THEN files[w.name] ELSE files[n]]
    BY <1>3 DEF BackUp, Holding
  <2>2. Old(w.name) \notin Names /\ Old(name) \notin Names
    BY <1>1, NamesAssumption
  <2>3. CASE name = w.name
    BY <1>1, <1>3, <2>1, <2>2, <2>3 DEF SavedOrBackedUp, Latest
  <2>4. CASE name # w.name
    <3>1. Old(name) # Old(w.name)
      BY <1>1, <2>4, NamesAssumption
    <3> QED BY <1>1, <2>1, <2>2, <2>4, <3>1, OthersKept DEF SavedOrBackedUp
  <2> QED BY <2>3, <2>4
<1> QED BY <1>2, <1>3

\* When the new file takes its place the old text is in the backup, if that was made.
LEMMA ReplaceKeeps ==
    ASSUME SaveInv, NEW w \in writing, Replace(w), NEW name \in Names
    PROVE  SavedOrBackedUp(name)
<1>1. w.name \in Names /\ (w.kept => w.name \notin DOMAIN files)
  BY DEF SaveInv, Replace
<1>2. files' = [n \in {w.name} \cup DOMAIN files |-> IF n = w.name THEN w.text ELSE files[n]]
  BY DEF Replace, Holding
<1>3. Old(name) \notin Names
  BY NamesAssumption
<1>4. CASE name = w.name
  <2>1. Latest(name)' = {w.text}
    BY <1>2, <1>4 DEF Latest
  <2>2. ASSUME w.kept, NEW text \in Latest(name)
        PROVE  Old(name) \in DOMAIN files' /\ files'[Old(name)] = text
    BY <1>1, <1>2, <1>3, <1>4, <2>2 DEF Latest
  <2> QED BY <1>4, <2>1, <2>2 DEF SavedOrBackedUp
<1>5. CASE name # w.name
  BY <1>1, <1>2, <1>3, <1>5, OthersKept DEF SavedOrBackedUp
<1> QED BY <1>4, <1>5

\* A configuration that is being saved is never lost (conf_write): whatever is killed
\* or fails, the last saved text of every name stays, as name or as name.old, until
\* the new one has taken its place, and name.old has it then if it could be renamed.
THEOREM SavedTextKept == SaveSpec => OldTextKept
<1>1. SaveInit => SaveInv
  BY SaveInitInv
<1>2. SaveInv /\ [SaveNext]_fileVars => SaveInv'
  BY SaveStepInv
<1>3. SaveInv /\ [SaveNext]_fileVars =>
        [\A name \in Names :
            \/ Latest(name)' = Latest(name)
            \/ \E w \in writing :
                  /\ w.name = name /\ Latest(name)' = {w.text}
                  /\ w.kept => \A text \in Latest(name) :
                        Old(name) \in DOMAIN files' /\ files'[Old(name)] = text]_files
  <2> SUFFICES ASSUME SaveInv, [SaveNext]_fileVars, files' # files, NEW name \in Names
               PROVE  SavedOrBackedUp(name)
    BY DEF SavedOrBackedUp
  <2>1. CASE WriteOther
    BY <2>1 DEF WriteOther, SavedOrBackedUp, Latest
  <2>2. CASE ~WriteOther
    <3>1. \E w \in writing : BackUp(w) \/ Replace(w)
      BY <2>2 DEF SaveNext, fileVars, GiveUp, SkipBackUp, Abandon
    <3> QED BY <3>1, BackUpKeeps, ReplaceKeeps
  <2> QED BY <2>1, <2>2
<1> QED BY <1>1, <1>2, <1>3, PTL DEF SaveSpec, OldTextKept
-----------------------------------------------------------------------------
\* What is not touched was built with the line that auto.conf has; the files of all
\* that will change are touched before anything else changes; and auto.conf is only
\* replaced when the header is the new one.
SyncInv ==
    /\ \A s \in DOMAIN built \ touched : built[s] = LineOf(UNION auto, s)
    /\ phase \in {"header", "auto"} => Differ(wanted, UNION auto) \subseteq touched
    /\ phase = "auto" => header = {wanted}
    /\ synced => phase = "idle" /\ auto = {wanted} /\ header = {wanted}

\* Every step preserves the invariant of syncconfig.
LEMMA SyncStepInv == SyncInv /\ [SyncNext]_syncVars => SyncInv'
<1> SUFFICES ASSUME SyncInv, [SyncNext]_syncVars PROVE SyncInv'
  OBVIOUS
<1> USE DEF SyncInv, products
<1>1. CASE (Begins \/ GoesOn) /\ UNCHANGED <<wanted, products>>
  BY <1>1 DEF Begins, GoesOn, LineOf
<1>2. CASE SplitConfig(wanted')
  <2>1. UNCHANGED <<synced, auto, header, built>> /\ ~synced /\ phase' = "header"
    BY <1>2 DEF SplitConfig
  <2>2. touched' = touched \cup Differ(wanted', UNION auto)
    BY <1>2 DEF SplitConfig
  <2>3. Differ(wanted, UNION auto)' = Differ(wanted', UNION auto)
    BY <2>1 DEF Differ, LineOf
  <2> HIDE DEF products
  <2> QED BY <2>1, <2>2, <2>3 DEF LineOf
<1>3. CASE PutHeader
  BY <1>3 DEF PutHeader, Differ, LineOf
<1>4. CASE PutAuto
  <2>1. auto' = {wanted} /\ UNION auto' = wanted
    BY <1>4 DEF PutAuto
  <2>2. ASSUME NEW s \in DOMAIN built \ touched PROVE built[s] = LineOf(wanted, s)
    <3>1. s \notin Differ(wanted, UNION auto)
      BY <1>4 DEF PutAuto
    <3>2. LineOf(wanted, s) = LineOf(UNION auto, s)
      BY <3>1 DEF Differ
    <3> QED BY <3>2
  <2> QED BY <1>4, <2>1, <2>2 DEF PutAuto, LineOf
<1>5. CASE Rebuild
  <2>1. UNION auto = wanted /\ UNION header = wanted
    BY <1>5 DEF Rebuild
  <2> QED BY <1>5, <2>1 DEF Rebuild, LineOf
<1>6. CASE KilledSomewhere
  BY <1>6 DEF KilledSomewhere, LineOf
<1>7. CASE UNCHANGED syncVars
  BY <1>7 DEF syncVars, Differ, LineOf
<1> QED BY <1>1, <1>2, <1>3, <1>4, <1>5, <1>6, <1>7 DEF SyncNext

\* conf_split_config touches what differs from auto.conf, and auto.conf is the last
\* file that conf_write_autoconf replaces: however often it is killed, after a run
\* that ends and a make nothing is left that was built with another value.
THEOREM RebuiltWhatChanged == SyncSpec => []NothingStale
<1>1. SyncInit => SyncInv
  BY DEF SyncInit, SyncInv
<1>2. SyncInv /\ [SyncNext]_syncVars => SyncInv'
  BY SyncStepInv
<1>3. SyncInv => NothingStale
  <2> SUFFICES ASSUME SyncInv, synced, touched = {}, NEW s \in DOMAIN built
               PROVE  built[s] = LineOf(wanted, s)
    BY DEF NothingStale
  <2>1. UNION auto = wanted
    BY DEF SyncInv
  <2> QED BY <2>1 DEF SyncInv
<1> QED BY <1>1, <1>2, <1>3, PTL DEF SyncSpec
=============================================================================
