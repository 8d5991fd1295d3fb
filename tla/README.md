# Formal verification of the UP7000 Buildroot image

This directory holds TLA+ models of the parts of this repository whose
correctness is hard to test: interrupted builds, builds that share a directory,
jobs that run in parallel, a configuration editor that shows cached values, and
programs whose requests complete in any order. The repository is Buildroot
2024.02.9 with a board directory for the Aaeon UP 7000, a br2-external tree with
OpenVINO packages, and small OpenVINO applications.

## 1. The system and its parts

| Part | Source | State it keeps | Operations | What is hard |
|---|---|---|---|---|
| Download wrapper | `support/download/dl-wrapper`, `check-hash`, `package/pkg-download.mk` | the download directory, its lock, temporaries | look at the file, hash it, delete it, try the sites in turn, save | several builds share the directory; every command can fail; kill at any point; extraction without the lock |
| Package infrastructure | `package/pkg-generic.mk`, `pkg-utils.mk`, `Makefile` | stamp files, build directories, host/staging/target directories, file lists | the steps of a package, `-reinstall`, `-rebuild`, `-reconfigure`, `-dirclean`, target-finalize | parallel packages, order-only prerequisites, interrupted steps, copies of copies in per-package directories |
| Kconfig: parsing | `support/kconfig/zconf.y`, `menu.c`, `expr.c`, `symbol.c` | the menu tree, dependency expressions, check flags | menu_finalize, the expression passes, the recursion check | three-valued logic rewritten by two-valued rules; a search that looks only once |
| Kconfig: values and files | `symbol.c`, `confdata.c` | a lazily filled cache of symbol values, `.config`, `auto.conf`, `include/config` | calculate, set, read, write, split | what is stale, what is forgotten, renames that fail half way |
| Kconfig: front ends | `conf.c`, `mconf.c`, `nconf.c`, `gconf.c`, `qconf.cc` | screens, rows and lists that show values; a file name; what is asked | keys, clicks, dialogs, load, save, signals; the modes of conf | views brought up to date piece by piece; a signal handler that writes |
| OpenVINO benchmark | `br2-external/package/openvino-benchmark/src/benchmark.cpp` | a ring of asynchronous requests, measures | prime, wait, record, restart | completions in any order, more requests than inferences |
| Detection and hello applications | `app/*`, `br2-external/package/openvino-demo/src/detect.cpp` | pictures saved, exit code | argument handling, decoding of a tensor, saving | boundaries; one picture of several failing |
| Image assembly | `Makefile` 724-806, `fs/common.mk`, `board/up7000/*` | target directory, images, UUIDs | finalize hooks, copies of target, post-build, post-image | exit codes in pipelines |
| Git backend and other backends | `support/download/*` | a git cache that survives builds | init, fetch, checkout, archive, start afresh once | a borked cache, an ERR trap that re-executes the script |
| Kconfig widgets | `support/kconfig/lxdialog`, `nconf.gui.c`, `images.c` | none of the configuration | drawing, key codes | not about order |
| Toolchain wrapper, host helpers, board data, package recipes, tests | `toolchain/`, `package/*`, `support/`, `board/`, `utils/` | none of their own | text processing; instances of the package infrastructure | not about order |

How they interact. A front end of Kconfig writes `.config`; every build begins
with `conf --syncconfig`, which brings it up to date and splits it into the
files that make compares with its stamps. `make` then runs the rules of the
package infrastructure; the download rule takes the lock of the package's
download directory and runs dl-wrapper, which runs one backend per site; the
extract rule reads what dl-wrapper saved, without the lock, and make may be
running the same rules in another output directory at that time. When all
packages are installed, target-finalize assembles the target directory,
`fs/common.mk` makes file systems of copies of it and the board's post-image
script makes the disk image. The benchmark and the detection program are
packages of that image.

What makes each part correct:

- downloads: a build that goes on has a file that passed its hash check; the
  final name never shows half a file; a file is deleted only when its hash is wrong, or
  could not be taken; every request is answered.
- package builds: a stamp never says more than the directories hold; a package
  sees finished dependencies and nothing else; a rebuild reaches the image.
- Kconfig: rewriting a dependency never changes its value; a value does not
  depend on the order of calculation unless an error was printed (or should have been:
  see section 4); what a view
  shows is what a calculation from scratch gives; what is written is read back
  as it was; "nothing has changed" is only said when nothing would be lost; an
  old configuration survives a save that is killed or fails; the questions come to an end with
  nothing left to ask; nothing stays built with an old value.
- applications: only idle requests are started, every inference is collected
  once and measured as its own, the program ends; a saved picture has the boxes
  the detector found, and success means that everything was done.

PROJECT.json lists the hazards of this code at their lines and the properties
that would catch each of them.

## 2. Modules

| Module | Models |
|---|---|
| `CheckHash` | support/download/check-hash: the exit code for a file and a hash policy, and what a verified file is |
| `DlCache` | abstract: what the wrapper promises: a file that is looked at, replaced and answered for atomically |
| `DlWrapper` | dl-wrapper under flock, one action per command that can fail or be interrupted, and the extract step |
| `MCDlWrapper` | instance: two builds, two sites, three contents, five hash policies |
| `DlWrapperProofs` | inductive invariant, six theorems, the refinement of DlCache |
| `AtomicBuild` | abstract: a build whose steps are complete or not, each made of what the complete steps before it made |
| `PkgBuild` | the package infrastructure as GNU make runs it, in one output directory |
| `MCPkgBuild` | instance: a library with an override source directory and a program that uses it |
| `PkgBuildProofs` | inductive invariant and six theorems, for any packages and dependencies |
| `ShipProofs` | what a rebuild makes reaches the image, and the refinement of AtomicBuild, for any packages and dependencies |
| `ExprRules` | expr.c: the values of symbols and comparisons, and the rules that rewrite one operand or join two |
| `Expr` | expr.c: whole expressions, their values and the passes that rewrite them |
| `ExprPasses` | the order in which menu_finalize applies the passes, one action each, and its decision what goes into a submenu |
| `Menu` | zconf.y's actions and menu.c: the menu tree that the lines of a Kconfig file become |
| `Symbol` | symbol.c: the cache of values, choices, ranges, visibility, setting a value |
| `DepSearch` | sym_check_deps and the loop over it in conf_parse, on any graph of symbols |
| `RecursiveDeps` | the graph of a Kconfig file's symbols, and the values of symbols in any order |
| `ParseProofs` | the rules of ExprRules keep values, and the search of DepSearch misses no loop: eight theorems |
| `MCParse` | instance: passes over some 1,600 expressions, recursion check over 1,032 small Kconfig files |
| `ConfData` | confdata.c: reading, writing, minimal files, auto.conf, new values for unset symbols |
| `ConfigFile` | how conf_write replaces a file: the text, the rename of the old one, the rename of the new one |
| `SyncFiles` | how syncconfig tells make what has changed: touched files, the header, auto.conf |
| `ConfFilesProofs` | a saved text is never lost, and nothing stays built with an old value: for any configurations |
| `Session` | what the interactive front ends share: edits, saving with the steps of ConfigFile, the environment's mishaps |
| `KconfigFiles` | small Kconfig files that the instances use |
| `MenuConfig` | mconf and nconf: the stack of menus and dialogs, the list of items, search, signals |
| `MCMenuConfig` | instance, and the one of `menuconfig_lost` |
| `TreeView` | what gconf and qconf share: the window, save, close |
| `GtkConfig` | gconf: rows brought up to date by comparing them with the menu tree |
| `QtConfig` | qconf: two lists brought up to date by walking the menu tree along the items |
| `MCTreeViews` | instance that runs either of them |
| `Conf` | conf in its modes, with syncconfig's files, crashes and the build that follows |
| `MCConf` | instance |
| `Window` | abstract: a bounded window of inferences |
| `Benchmark` | benchmark.cpp, with the device completing requests on its own |
| `OrderLemmas` | lemmas: induction on numbers, and the i-th element of a finite set in an order |
| `BenchmarkProofs` | inductive invariants, five theorems, the refinement of Window |
| `Detect` | vino-detect, openvino-detect and vino-hello |
| `DetectProofs` | inductive invariant and two theorems: what is saved is what was decoded, and success is one |
| `MCApps` | instance that runs one of the four programs |

### DlWrapper

`pc[b]` is where build b's wrapper is in the script, `lock` the holder of
`$(DL_DIR)/.lock`, `out` the file under its final name, `old` the file in the old
flat download directory, `tmpf` and `tmpOutput` the two temporaries, `rc` the exit
code the script carries to its end, `policy[b]` the content of the build's hash
files, `got[b]` what it extracted. Every command that can fail has a fault kind in
the constant `Faults`, the sum program in the pipeline of check-hash included (`Codes`
are the exit codes that the check of one file can have; `lost` are the builds whose good
file it took away); `set -e` is the jump to "ended" with the temporaries left
where they are. `Kill` is the user interrupting make: it takes the wrapper and
its children, and the lock with them. What a site delivers and what post-processing
makes of it are constants. A wrong file is one of `Contents`; `Truncated` stands
for every file whose writer has not finished or never will.

Abstractions: one file of one package is followed (all files of a package share
one lock, nothing else relates two of them); a backend is one command that
delivers, fails or is interrupted; names, messages and options that only pass
through are left out; the abandoned temporaries of an earlier run have names of
their own and are dropped when the next run starts.

### PkgBuild

`stamp[p][s]` is the stamp of step s: absent, older than a normal prerequisite, or
current. `job[p]` is the step whose commands make is running and `worked[p]` says
that they are done but the stamp is not touched yet: a rule is a begin, an end and
a touch, and failure or interruption can come between any two. What a package
compiles is the version number of its sources: `tree`, `obj`, `host[d][p]` and
`target[d][p]` hold versions, so that a stale copy is a number that is too small,
and `Partial` is what an unfinished writer leaves. d is a package (per-package
directories) or `Global`. `perPackage` is chosen in the initial state, so each run
covers both configurations.

A run of make is a session with one goal: `all`, or one of `-reinstall`, `-rebuild`,
`-reconfigure`, `-dirclean` of a package. Its removals are done first, one command
at a time and in the order of the rules. `Ready` is what lets make run a rule:
everything before it is up to date and, from configure on, everything below the
package is installed (make runs a rule at most once in a run: here too, since its stamp
stays current until the run ends, and a rule that fails ends the run); without per-package directories nothing else runs
(`.NOTPARALLEL`). `Configure` starts by filling the per-package directories from
the direct dependencies in sorted order. `Finalize` is target-finalize's copy of
one package's target directory.

Abstractions: download and extract are one "source" step (DlWrapper models the
download); host and images installs have the shape of staging and target installs
and host-finalize the shape of target-finalize, so one of each is modelled; the
rsync that fills a directory is one step, because the dependencies it reads from
are installed and nothing rebuilds them in the same session; sources change only
between sessions; the finalize hooks and scripts after the copy belong to image
assembly. A dirclean removes a directory in the order in which its files happen to
lie: any set of stamps can survive an interrupted one. `torn` marks the packages
with such leftovers, and packages configured from them: the properties say nothing
about those, since the code promises nothing until the next dirclean.

`AtomicBuild` is what all this promises, without jobs, commands, failures, directories
or per-package copies: `Finish` completes a step in one instant, when everything before
it is complete in its package and, from configure on, below it, and makes its product
of exactly what the step before it made; what it outdates is not complete any more;
`Forget` is the removal of a stamp, `Tear` and `Wipe` are a dirclean and `Rebuilt` a
`-rebuild` that ended well, which must have installed the sources of now. PkgBuild
refines it (`ImplementsBuild`) with a step complete when its stamp is current
(`DoneSteps`), its product the one in the directories that the package uses, or nothing
while the stamp is not current (`MadeProducts`), and `src`, `asked` and `torn` themselves:
the end of a rule is invisible and the touch of its stamp is the instant at which it
finishes; a failure or an interruption shows nowhere.

### Kconfig

A Kconfig file is a sequence of records, one per line: `Menu` does to them what
the parser's actions do (nodes, properties, the choice around its members) and
then menu_finalize: dependencies are inherited, rewritten by the passes of
`Expr`, entries that depend on the symbol before them move into its submenu.
`M` is the result. A dependency is a nested tuple; nested operands of one type
are kept as one level, since every pass of the code treats them so.

`Symbol` works on one record `st`, the fields of all `struct symbol`s: `def` and
`user` are what the user set (S_DEF_USER and SYMBOL_DEF_USER), `selected` the
member a choice remembers; `valid`, `curr`, `chosen`, `vis`, `dir`, `rev`, `imp`
are the cache; `write`, `need`, `mark` and `changed` the flags SYMBOL_WRITE,
NEED_SET_CHOICE_VALUES, CHANGED and the change count. Asking for a value fills
the cache, in the order in which the code asks, and an operator returns the next
`st`. This is why staleness can be stated: `Fresh` is the same calculation
with an empty cache, and the properties compare what is shown, written or reset
with it. Integers stand for int symbols; strings and hex, `option` lines and
environment symbols, several definitions of one symbol, and help texts are left
out. `crashed` says that the program has used a null pointer (section 4); nothing
happens after that.

`ExprRules` has what expr.c does to one operand or two (expr_join_or, expr_join_and, the
negations and the comparisons of bools), and `Expr` the passes that apply it throughout an
expression. `DepSearch` is sym_check_deps and the loop that calls it, over any graph:
`refs[s]` are the symbols in the expressions that are searched for s, `members` and
`group` say which symbols are one choice. The C functions call each other
recursively; here their activations are the frames of `stack`, each with the symbol, the
member of a choice and the operand it has come to, so that a call (`SearchOperand`,
`NextSymbol`), the next member (`NextMember`), a return and the way back from a loop
(`Return`, `Unwind`) are steps. `check` and `checked` are the two flags, which a choice
and its members have together except while a member is searched. `RecursiveDeps` makes
the graph of a Kconfig file's symbols (`RefsIn`, `MembersIn`, `GroupIn`) and
compares the values that symbols get in different orders.

`ConfData` reads a file line by line into `st` (with warnings, choices told from
their members, what is out of range reset), writes it in menu order, leaves out
of a minimal file what is the default anyway, and makes auto.conf. `ConfigFile` has
`files`, the files and their lines, and `writing`, the conf_write that is going on, in
three steps, since the process can be killed and the signal handler of mconf can run
between any two: the text (`WriteText`), the rename of the old file (`BackUp`), the
rename of the new one (`Replace`). The last may fail, which ends the save (`GiveUp`), and so
may the one before, which conf_write does not look at (`SkipBackUp`). It knows nothing of
symbols: the text is any value. `Session` uses its actions for every front end, and
counts in `mishaps` what the environment does wrong, one per session. An fclose that fails
and KCONFIG_OVERWRITECONFIG, which writes in place, are left out.

`SyncFiles` has the rest of what conf leaves on the disk: the lines of `auto` and
`header`, and the symbols whose file in include/config was `touched`, which `Rebuild`
(make) takes back. `built` remembers with which line each symbol was last built. A
configuration is a set of lines <<symbol, value>>. `SplitConfig` is conf_split_config,
`PutHeader` and `PutAuto` are the renames of conf_write_autoconf; tristate.conf, which
it renames between them, is left out. `Killed` can come before or after each, and half
way through the files that are touched; a rename that fails ends the program and leaves
the same. `SyncSpec` and `SaveSpec` are the protocols on their own, with any
configuration and any text; that `Conf` follows them is the property `ReplacesInOrder`.

`MenuConfig`: `screens` is the stack of menus and dialogs, `items` the list on
the screen with the tag, the value and the marks that each item shows ((NEW), -*- and
{M}, the member of a choice, "----" for an empty menu, which menu_is_empty calculates),
`view` what is shown of the menus: all entries, or all menus as one whose parts unfold
(`Unfold`, MENUCONFIG_MODE and NCONFIG_MODE). `Enter`, `EnterString` and
`SetItem` are the keys on an item, the last one for y, n, m and space;
`ChooseMember` picks in the radio list of a choice, `EnterInt` and `Escape` answer a
dialog, `Leave` and `Quit` go back and end, `Search` opens the results, `ShowAll` is
the key that lists invisible entries, then load, save, and SIGINT at any time
(`Interrupt`); the function keys of nconf work in the list of a choice as well. Every one of them rebuilds the list as build_conf does; `Mconf` tells
the two programs apart where they differ.

`GtkConfig`: `right` is a tree of rows `[menu, text, kids]`, `left` the tree of
menus of the split view. `UpdateTree` is update_tree of gconf.c, which walks the
rows and the menu tree side by side, inserts, removes, and redraws a row whose
symbol has SYMBOL_CHANGED; it stops at a row that it removes when that was the last of
its parent, and `cut` has the entries it did not come to. `behind` remembers that
visible ones were among them. `QtConfig`: `lists` has, for configList and menuList,
the items below each item and the columns each was last drawn with, those included that
updateMenu does not clear; `UpdateList` walks
the menu tree along the items, as updateMenuList of qconf.cc does. Keys, clicks,
views, options, links, loading and saving are actions.

`Conf`: a run of the program has a `phase`; `todo` is the recursion of conf and
check_conf as a list of what is left to do, one call at a time, because the user
answers in between. Writing is done with the actions of ConfigFile, and syncconfig
goes on with those of SyncFiles; `Crash` may come at each, and `Build` is make building
everything whose symbol was touched (external: the rest of the build system). The end of
the input is an empty answer, which stands for the value that is shown; `AnswerSym` and
`AnswerString` have that answer among the others as long as the value can be set.

Left out of Kconfig beyond that: the lexer, nconf's incremental search, qconf's
search window and info view, all drawing.

### Applications

`Benchmark` has `pc` at a group of statements of main; `status[r]` is what the
library knows of request r; `launched`, `done`, `start_times` and `latencies` are the
variables of the source. The device completes any running request at any time
(`Complete`), and any call of the library may throw. `now` counts completions, so a
latency is how many completions it saw. `number`, `begun` and `finished` are history
variables that say which inference a request was started for, and when. `Detect` takes
the pictures of the command line one by one (an option that openvino-detect does not know
is one of them); a detection row has coordinates in
tenths of the picture, so that truncation, clamping and empty boxes happen;
`saved` is the output directory by file name. std::sort is given by its result in both:
`Sorted` has in the k-th place the value with fewer than k below it and at least k up
to it, and `InOrder` the picture with k paths up to its own. `Decode` is the loop over
the rows as a recursive function, and `Expected`, which says what is to be drawn,
does not follow the loop: the i-th box is that of the i-th row that is sure and not
empty, with each coordinate at the nearest pixel of the picture.

## 3. Runs

| Run | Asks | Answer | States |
|---|---|---|---|
| `download` | SuccessIsVerified, ExtractsVerified, AtomicSave, DeletesOnlyMismatch, ImplementsCache, EveryRequestEnds | all hold | 496,630 |
| `download_cleanup` | "If anything goes wrong, we just remove all the temporaries created so far" | violated | |
| `download_legacy` | "If we can neither link nor copy, fallback to doing a download" | violated | |
| `pkg` | StampsTruth, DependenciesReady, Isolation, ConfiguresPatched, ShipsRebuilds, ImplementsBuild | all hold | 295,730 |
| `pkg_rebuild` | "make busybox-rebuild all": "the root filesystem image contains the updated BusyBox" | violated with per-package directories | |
| `pkg_binarch` | "checking that the package installs correctly cross-compiled binaries" | violated on the second make | |
| `parse` | ValueKept, BoolKept, NoRedundancy, SubmenuBelowOwner, LoopsReported, OrderIndependent | all hold | 198,670 |
| `menuconfig` | MenuCurrent, OneMember, EditTaken, UnchangedIsSaved, OldTextKept | all hold | 101,393 |
| `menuconfig_lost` | SaveOffered: "Reset a string value if it's out of range" | violated: the same value typed again is lost | |
| `treeviews` | RowsCurrent, ListsCurrent, UnchangedIsSaved | all hold | 38,431 |
| `conf` | AskedAll, RoundTrip, MinimalIsEnough, NothingStale, ReplacesInOrder, QuestionsEnd | all hold | 117,912 |
| `apps` | NeverBusy, EachMeasured, ReportInOrder, SavedAsDecoded, OkMeansDone, ImplementsWindow, BmEnds | all hold | 268,974 |

Every property of a passing run has a mutant of the code, kept in the module beside
the definition it mutates, that TLC finds to violate it: a shared lock, a removed
test, a stamp touched too early, a symbol that is not invalidated, a rename left
out, and so on.

What the properties do not ask, and why. `SuccessIsVerified`, `ExtractsVerified`: of a
build in `lost`, whose good file a failing sum program took away; `DeletesOnlyMismatch`
and DlCache (`Misjudge`) allow a deletion for that reason and for a wrong hash, and for no
other. `OrderIndependent`: of a Kconfig file in which a symbol can ask for its own value
through what the recursion check does not follow (`Circular`). `Settled`: sym_calc_choice
forgets that the user has made an optional choice y when it has new members, but keeps its
value until the next calculation; the properties are asked when no choice is between the
two. `TypedAgain`: an int in the state that `menuconfig_lost` shows to be wrong. `crashed`:
after a null pointer. `Representable`: a choice that is m with no member set to m cannot be
told from one that is n in any file. `mishaps` in SaveOffered: after a failed open or
a failed rename of the new file the program does believe too much (section 4).
`RowsCurrent` is asked with the option "normal", and not while rows are left behind in a
way of section 4 (`behind`). `ListsCurrent` does not claim the columns that updateMenu
never clears. `MenuCurrent` is not asked of nconf while it shows all entries.
`OldTextKept` does not claim that name.old has the last text when the rename to it failed
(the text under the name itself is then kept until it is replaced). `OkMeansDone` is asked
of vino-detect, not of the demo (section 4); a picture that cannot be read is, by the
program's own design, a warning and no failure. `StampsTruth` and its like say nothing of a
package whose dirclean was interrupted. Each of these is a behaviour of the code that is
listed, not a state the models leave out.

Bounds. `MaxRuns` = 2 makes per build and two builds: enough for a build to succeed,
be dircleaned and download again while another one with other hash files fails or
is killed in between. Two sites: a first that fails and a second that delivers. The
five hash policies are one per exit code of check-hash, and a wrong hash.
`MaxSessions` = 3 for the package run: build, rebuild or dirclean, build again;
4 in `pkg_rebuild`, where `MaxFaults` = 0 keeps the run to what happens without any
failure. `MaxVersion` = 2: the sources before and after an edit. `MaxFaults` = 1: one
failing command or interruption anywhere; what it leaves behind meets the later
sessions. Two packages are the smallest dependency; the program sorts after the
library it uses, as most programs and lib* packages do not, which is what
`pkg_rebuild` needs and `ShipsRebuilds` excludes.

Kconfig: two edits, so that the second meets what the first left in the cache; one
conf_write or conf_read, with an edit before and after it; at most two screens below a
search; two runs of conf, since the second meets the files of the first, or of a first
that was killed. The Kconfig files are small but between them have tristates with and
without modules, a select, choices with a default, an optional choice of tristates, an
int whose range depends on a symbol, a menu, a menuconfig, and a symbol that depends on
a later one outside its menu, which implies it, and a menu of two entries of which one
appears as the other vanishes: the shapes on which the code of the front ends branches.
One of them is also shown as a single menu. `treeviews` allows three changes, looks and
saves, and a fourth step after three looks in the first file; it leaves out the optional
choice and the implied symbol.
`parse` takes every two-operand expression over a small set of literals and
three-operand ones over six of them, below four parents and before five owners; its
Kconfig files are two symbols around a choice of two with every combination of a few
options, two symbols that imply each other or others, and two ints whose ranges are
numbers or each other, searched and calculated in several orders.

Applications: one to six inferences with one to four requests, fewer, as many and more
than there are inferences; pictures with a box across the border, beyond it, ending
before it begins, an unreadable picture and two with the same file name. The theorems
hold without any bound.

Deadlock is not checked (`CHECK_DEADLOCK FALSE`): nobody has to run make or press a
key, programs end, and bounded counters stop the rest.

Fairness. `DlFairSpec`: weak fairness of every wrapper's next command and of the
extraction: commands end (the backends have timeouts) and the kernel hands a free
lock to a waiter. Weak fairness of Flock is enough because a build runs make a
bounded number of times. `ConfSpec`: a run goes on until it ends
and the user answers every question some time with what can be set; it is written out as
"infinitely often not busy, or infinitely often a step", which is weak fairness of
ConfStep because ConfStep is enabled whenever the program is busy, and spares TLC the
ENABLED. `BmFairness`: the program takes its next step, and the device completes every
request it was given. Nobody has to edit, interrupt or run anything.

## 4. What the checks found

Shown by a run that expects a violation:

- `dl-wrapper` 182-197: with `set -e` a failing mktemp or chmod in the download
  directory leaves the whole download in the build directory.
- `dl-wrapper` 61-65: a legacy file that is copied in part is accepted when the
  package has no hash file.
- `Makefile` 726 and `pkg-utils.mk` 222-236: with per-package directories a rebuilt
  library does not reach the image when a package that depends on it is copied
  after it.
- `pkg-generic.mk` 135-141: a package that fails the architecture check passes it
  on the next make, with an empty list of files. The same emptied list follows any
  rebuild, so `make graph-size` attributes nothing to that package.
- `symbol.c` 716 and `confdata.c` 461: a value that was out of range when the file was
  read keeps its text; typed again once it is in range, it compares equal, nothing is
  invalidated, and the menu shows and saves the default.

Met while modelling, part of the models, and exempted from the properties above or of
no consequence to them:

- check-hash 60: a sum program that fails in the pipeline makes the hash empty and the
  exit code 2, "hash mismatch"; dl-wrapper 79-81 then deletes the file that is there,
  which may be right and which another build may have been told of. The next request
  downloads it again.
- conf_read sets the change count to 0 before it fails to open a file: "Load" of a
  wrong name followed by Exit loses the edits without a question.
- conf_write uses up SYMBOL_WRITE while it writes the text: after a failed rename, or
  a SIGINT that interrupts it in mconf, the file that is saved next misses symbols.
  A kill between the two renames leaves only `.config.old`.
- sym_check_deps prints "recursive dependency detected!", but the frame of the symbol
  that closes the loop returns NULL, so conf_parse never counts it and the error that
  zconf.y 556-562 treats as fatal is not. Imply expressions and range bounds are not
  searched at all: two symbols that imply each other, or two ints that are each a bound of
  the other's range, can have values that depend on which of them is asked for first, and
  nothing is printed. A choice has no SYMBOL_CHECK while its members are searched: a loop
  that leads back to a choice by its own name, and not by that of a member, would not
  be reported. Only a choice with a name can be named so; Buildroot has none, and a
  dependency on a choice without a name comes with one on a member.
- gconf: update_tree returns when the row it removes is the last one (gconf.c 1290, 1315),
  so that of two entries that appear and vanish by turns neither may be shown;
  renderer_edited compares the whole menu tree with whatever view
  is shown, after a refused text as well; loading a file adds every row a second time; it
  quits even when saving fails; rows kept under the options "all" and "prompt" can be
  stale.
- gconf crashes: a click on an int toggles it (846-860 from 917-923), which counts it as
  set by the user; if it has no text, sym_validate_range (symbol.c 175) reads the null
  pointer. The back button stays sensitive after a change to the single view or of the
  options, which go back to the main menu: pressed then, it takes the parent of that
  (711-712). An edit in the split view before any menu was browsed compares with no menu.
- qconf: an entry that can no longer be changed keeps its old text in the column "Value"
  (qconf.cc 164-169), one that has become a menu with a change of view keeps all columns
  (133-140), and "(NEW)" can outlive a choice.
- nconf with all entries shown does not recalculate the invisible ones.
- qconf: "Save As" asks for a name and writes `.config`.
- an optional choice that is y with new members is n after the next calculation; a
  choice that is m without members cannot be saved.
- conf: an answer to a choice that has no visible member to keep asks again for ever, and
  so does the end of the input for an int that has no valid value (conf.c 75-82, 130-161);
  mconf's search results for entries in the main menu itself lead nowhere.
- mconf: SIGINT and then Esc exits without saving. child_count is never reset, so a main
  menu that has become empty stays open.
- conf_write does not look at the rename to `.old` (confdata.c 831): when it fails, the old
  text is lost as soon as the new file is renamed.
- openvino-detect does not look at what imwrite returns and ends with success;
  two pictures with one file name overwrite each other's output in all detectors;
  a row with image id < 0 "signals end-of-detections" in a comment (detect.cpp 81) and
  is skipped instead: SavedAsDecoded allows both readings of the rows after it. An option
  that it does not know, --help too, is taken for a picture.
- vino-hello: "--list-devices" is to "Print available OpenVINO devices and exit" (main.cpp
  23); with a model it goes on and infers. OkMeansDone asks for what the usage says, the
  list, and for an inference where no list was asked for.
- benchmark.cpp waits in ring order, so fewer than nireq requests can be under way
  although the comment at 166 says "at all times", and a latency includes the time its
  request waited to be collected. std::stoi of a wrong argument is outside the try.

## 5. Proofs

TLAPS proves, for every value of the constants that satisfies the named
assumptions, the theorems listed in PROJECT.json. The assumptions say what the code
gives: `DlAssumption`, `BuildAssumption`, `SortAssumption` and `CommandLinesAssumption`
what the constants are; `NamesAssumption` that nobody saves a configuration under the
name of another one's backup (a user who does overwrites the backup);
`NoLoopAssumption` that NULL is no symbol; `SymbolsAssumption` and `GraphAssumption`
are explained below; `RequestedAssumption` and `PicturesAssumption` that a directory is
finite and has one file of a path, and that a picture that can be read has a size and rows
of numbers.

`DlWrapperProofs`. The theorems hold with any faults, the sum program's included. The
inductive invariant `DlInv` is a conjunction of: the types;
who holds the lock is the one build between Flock and Exit (`LockInv`); what the
final name may show at each place of the script (`OutInv`); what the download is
after its hash check (`DownloadInv`); the exit code and the result agree
(`ResultInv`); and the file stays verified for everybody who was told so and is not in `lost`
(`ServedInv`), which is where the lock and the equal hash policies are needed. Each
conjunct is preserved by one lemma with one step per action; the theorems follow
from `DlInv`, and `DlImplementsCache` maps each step to a step of DlCache or a
stutter, with the cache empty while a legacy file is being copied.

`PkgBuildProofs`. `StampsTruth` is not inductive: a touch makes a stamp current
because of what the rule did before. `BuildInv` adds

- `JobInv`: a rule runs only while its own stamp is not current, everything before
  it is, and everything below is up to date: so nothing that a stamp stands for is
  being rewritten, and no dependency of a running rule is running;
- `WorkTrue`: what the finished commands of a rule have produced, until the touch;
- `DircleanInv`: how far a dirclean is, so that leftovers are always marked torn and
  a finished dirclean leaves no files in the per-package directory;
- `Clean`: what a per-package directory holds of the staged dependencies, which
  needs `Isolation` and `BelowClosure` (the dependencies' directories have no files
  of the package itself, because there are no cycles).

`BelowClosure` (Below is the transitive closure), `LastOfMember`, `PreparedFrom`
and `EntryValue` are lemmas about the operators the model is made of. The
assumption `SortAssumption` says of `$(sort)` that it puts one package of every
nonempty set last.

`ShipProofs`. `ShipsRebuilds` compares the image of one session with the sources of
an earlier one, so `BuildInv` is not enough. `ShipInv` adds

- `SourcesInv`: nothing newer than the sources was asked for;
- `AskedInv`: what is unpacked and compiled is no older than the last successful
  rebuild; a removal can leave less, never something older;
- `RebuildInv`: in a rebuild, the source and build steps that are done again after
  their removal have the version of the sources, so when make ends well `asked` may
  become that version;
- `FinalInv`: target-finalize copies in sorted order while everything stays up to
  date, and a copy of a later package overwrites nothing of a package that it does
  not depend on, which is `Isolation` again.

`MadeStep` and `SessionStep` say once what any step does to a product and to the
session; the conjuncts follow from them.

`BuildImplemented` is the refinement of AtomicBuild. Besides `BuildInv` and `ShipInv` it
needs `WorkInv`: between the last command of a rule and the touch, the product is made of
what the steps before it made, also in a package that is torn. Then a touch is Finish
(`TouchFinishes`), a removal Forget, Tear or Wipe, the end of a session Rebuilt or
nothing, an edit Change, and every other step of make changes nothing that shows
(`Hidden`): each case of `AtomicStep` is one action. So a theorem about AtomicBuild is one about
make with its failures and parallel jobs.

`BenchmarkProofs`. That only idle requests are started needs to know which requests
are under way: `BmInv` is the types and NeverBusy and, until the program ends, what
each phase has set up (`PhaseInv`); that the busy slots are those of the inferences
done+1 to launched, modulo nireq, so a slot is started again only after it was
collected (`RingInv`); that the clock counts what was collected and what is
ready (`ClockInv`); and that what was measured covers the inference itself and is at
most 2 * nireq - 1 completions long (`TimeInv`). The lemmas about the remainder (`ModRange`, `ModSmall`, ...) say that
nireq consecutive inferences have different slots. WindowImplemented maps starting
a request to Launch, measuring to Collect, and all else to a stutter.

`ReportsInOrder`. `ReportInv` adds that there is no exit code before the end; that every
inference was collected when the statistics are made is part of `BmInv`. The rest is
arithmetic: `SortedInOrder` (the sorted sequence exists and does not decrease),
`Positions` (a higher percentile lies no earlier, and none lies beyond the last value) and
`Between` (a point between two neighbours lies between them), so that
`PercentileInOrder` holds for every sequence of latencies, of one value too.

`DetectProofs`. `DtInv` says that the pictures that are left are the last of those
collected, that each file saved so far is right, and that a picture that is done and
readable was saved unless a later one of its name was. The step that saves needs
`DecodesAsExpected`: what the loop pushed is what `Expected` says. `LoopDraws` proves it
by induction on the rows: after n rows there is one box for each row up to n that is to
be drawn, at the place of that row. `ClampIsNearest` says of the clamping that it
takes the nearest pixel, for any coordinate and size. A picture with the boxes of all its
rows is one of the two that SavedAsDecoded allows (`MadeIsAnnotated`); the invariant itself
says which one was made.

`OrderLemmas`. The induction theorems of the library take an operator and cannot be
used by these provers; `Reached` states induction of a set instead (a set with 0, and
with n + 1 whenever n < L is in it, has 0..L), and proves it from the library's theorem on
least elements. `Ranked` and `RankedAt` say that a finite set has an i-th element in the
order of a number given to each, and that it is the only one if the numbers differ: the
two sorts rest on it.

`ConfFilesProofs`. `SavedTextKept`: the inductive invariant `SaveInv` says that the
name which is being saved is one the user typed and has no file once it was renamed to its
backup, unless that rename failed; with `NamesAssumption` no other name or backup is
touched. OldTextKept asks for more than that some text survives: it is the last one that
was saved, and after a save it is what name.old has, unless the rename to it failed. `RebuiltWhatChanged`: `SyncInv` says that what is not touched was
built with the line in auto.conf, that between the split and the end every symbol whose
line will change is touched, and that auto.conf is only replaced when the header is the
new one; so a kill at any step, any number of times, leaves nothing that the next
syncconfig would miss. Both theorems are about the protocols with any texts and
configurations; the run `conf` checks that the steps of conf are steps of both
(`ReplacesInOrder`), and the run `menuconfig` checks OldTextKept of mconf and nconf.

`ParseProofs`, the search. That a printed loop is one follows from `PathOK`: the frames
are a path of edges, and no group is searched within its own search. That none is missed is
harder, since a symbol is searched only once and a choice loses its flag while its members
are searched. `SearchInv` adds what the two flags stand for (`FlagsOK`), that a loop on its
way back ends at a frame of the stack (`LoopOK`), that every symbol is still to come or
was begun (`Covered`) and, while nothing is reported, `DoneOK`: the groups whose search
has ended depend only on such groups and have no loop among them, and each frame has
behind it only operands that lead to such groups, to the frame above, or back to a choice
whose members are being searched. When the operands of a part are all searched,
`SearchedSettled` excludes the last of these (an expression that names a choice from
outside names a member, which would have closed a loop), so after its last part a group
leads only to groups that are done and joins them (`GroupSettled`). A loop among them
would go through it, and since the others depend only on each other there would be a loop
without it. In the end everything is done, so there is no loop: `LoopsAreReported`. The
hypothesis `GraphOK` says that a choice is the group of its members and, in
`NamesMembers`, what section 4 says of choices without a name: TLC finds a loop that is
missed in a graph without it.
`GraphAssumption` is that menu_finalize makes such graphs; TLC evaluates it for the 972
Kconfig files of `parse`.

`ValuesUnique` is what the search is for: where it printed nothing, and whatever each group
calculates from the groups it depends on, two assignments of values that no
calculation would change are equal, since the groups in which they differ would each depend on
another one. It says nothing of what symbols take from imply expressions and range bounds,
which the search does not follow; that sym_calc_value ends with such an assignment in
every order is left to TLC (OrderIndependent).

`ParseProofs`, the rules. For literals (a symbol, a comparison, or the negation of one)
over any symbols, and all values in which no bool is m: two different operands that
JoinOr or JoinAnd makes one of have the value of what it makes of them; Negated and
TransformComparison keep the value; De Morgan's laws hold for the three values, a neutral
operand changes nothing and an absorbing one decides alone. `SymbolsAssumption`: no symbol is
both bool and tristate, or is called like a constant. That the passes apply these rules
throughout an expression without changing its value is induction over expressions and
left to TLC (ValueKept).

Model-checked only: the liveness properties (EveryRequestEnds,
QuestionsEnd, BmEnds: the prover handles neither fairness nor ENABLED); what Kconfig
calculates (ValueKept, BoolKept, NoRedundancy, SubmenuBelowOwner, OrderIndependent,
MenuCurrent, OneMember, EditTaken, UnchangedIsSaved, RowsCurrent, ListsCurrent, AskedAll,
RoundTrip, MinimalIsEnough) and that conf implements the two protocols
(ReplacesInOrder): calculating a value, finalizing a menu and walking a tree
are RECURSIVE operators, in the code's own shape, and the prover has no SMT backend in a
module that has one; and the five violations. That every variable of the wrappers and of
the build keeps its type (DlTypeOK, BuildTypeOK) is proved and not checked by a run.

## 6. Plan

Done: the download wrapper, the package infrastructure but for the extensions below,
Kconfig with its five front ends, the applications; every safety property of the first
two and of the applications is proved, with the refinements of their abstract
specifications, and of Kconfig the two file protocols, the search for recursive
dependencies and the rules for expressions. What is left, in order:

1. PkgBuild with several goals in one parallel make (`pkg-rebuild all` with .WAIT),
   extract and patch dependencies, and host installs.
2. The git backend: the cache, the steps from init to archive, the ERR trap and its
   single retry, with DlWrapper's backend step as its abstract specification.
3. Image assembly: reruns of the filesystem and image scripts after a failure.
4. Kconfig: strings, several definitions of a symbol, qconf's search.

## 7. Not modelled

- Image assembly: one process runs one command after the other on copies that it
  makes afresh; only target-finalize's copy is modelled (PkgBuild).
- The git backend and the other backends: their steps are commands of external tools.
  DlWrapper takes a backend as a command that delivers, fails or is interrupted.
- Kconfig's lexer, widgets and translations; the parts listed under "Kconfig" above.
- The toolchain wrapper, makedevs, mkusers, fix-rpath and relocate-sdk: sequential
  text and file processing without interleaving.
- Board data and package recipes: they are constants of PkgBuild.
- legal-info, the test suite and the utilities: not part of a build. The backup
  procedure of docs/disk-backup-restore.md has no code in the tree.
