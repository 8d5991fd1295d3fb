------------------------------ MODULE PkgBuild ------------------------------
(***************************************************************************)
(* The package infrastructure of package/pkg-generic.mk as GNU make runs   *)
(* it: the chain of stamp files of every package, the order between        *)
(* packages, the <pkg>-reinstall, -rebuild, -reconfigure and -dirclean     *)
(* goals, the shared or per-package host and target directories, and       *)
(* target-finalize, in one output directory, with commands that fail and   *)
(* make invocations that are interrupted at any point.                     *)
(*                                                                         *)
(* What a package compiles or installs is a version number: the version of *)
(* the sources it comes from.  host[d][p] and target[d][p] are the version *)
(* of p's files in the host (staging included) and target directories of   *)
(* d, a package or Global.                                                 *)
(***************************************************************************)
EXTENDS Naturals, FiniteSets

CONSTANTS Packages,     \* the enabled packages
          Rank,         \* their order in $(sort $(PACKAGES))
          Deps,         \* Deps[p]: FOO_DEPENDENCIES
          Override,     \* the packages with an OVERRIDE_SRCDIR
          Staged,       \* the packages with FOO_INSTALL_STAGING = YES
          BadArch,      \* the packages that install a binary for another architecture
          Global,       \* the directories output/host and output/target
          NoPackage,    \* the goal concerns no package
          Partial,      \* files being written, or left by what was interrupted
          Goals,        \* bound: the goals <<kind, package>> make is asked for
          MaxVersion,   \* bound: the last version of an override source directory
          MaxSessions,  \* bound: how often make is run
          MaxFaults     \* bound: how often a command fails or make is interrupted

VARIABLES perPackage,   \* BR2_PER_PACKAGE_DIRECTORIES
          src,          \* version of each package's sources
          goal,         \* what make was asked for: a kind of goal ...
          pkg,          \* ... and its package
          todo,         \* the removals that goal starts with, not yet done
          failing,      \* a command failed: make starts nothing more
          sessions,     \* how often make was run
          faults,       \* how often a command failed or make was interrupted
          job,          \* the step whose commands make is running, per package
          worked,       \* those commands are done, the stamp is not yet touched
          stamp,        \* stamp files: absent, older than a prerequisite, or current
          tree,         \* version of the sources in the build directory
          patches,      \* .applied_patches_list: none, some or all patches applied
          obj,          \* version of what was compiled
          host, target, \* the host and target directories
          ppdirs,       \* the per-package directories that exist
          before,       \* .files-list.before exists
          list,         \* .files-list.txt: none, empty, or the files p installed
          synced,       \* the packages target-finalize has copied
          asked,        \* source version at the last successful rebuild
          torn          \* packages with leftovers of an interrupted dirclean

session == <<goal, pkg, todo, sessions, synced, asked>>
products == <<tree, patches, obj>>
dirs == <<host, target, ppdirs>>
lists == <<before, list>>
buildVars == <<perPackage, src, session, faults, failing, job, worked, stamp, products,
               dirs, lists, torn>>

Versions == 1..MaxVersion
Files == Versions \cup {0, Partial}
Steps == {"source", "patch", "configure", "build", "staging", "target", "installed"}
Kinds == {"all", "reinstall", "rebuild", "reconfigure", "dirclean"}

\* The packages p depends on, directly or not (FINAL_RECURSIVE_DEPENDENCIES).
Below == [p \in Packages |->
    {q \in Packages : \A S \in SUBSET Packages :
        Deps[p] \subseteq S /\ (\A r \in S : Deps[r] \subseteq S) => q \in S}]

ASSUME BuildAssumption ==
    /\ Global \notin Packages /\ NoPackage \notin Packages
    /\ MaxVersion \in Nat \ {0} /\ MaxSessions \in Nat /\ MaxFaults \in Nat /\ Partial \notin Nat
    /\ Goals \subseteq {<<"all", NoPackage>>} \cup ((Kinds \ {"all"}) \X Packages)
    /\ Override \subseteq Packages /\ Staged \subseteq Packages
    /\ Deps \in [Packages -> SUBSET Packages]
    /\ \A p \in Packages : p \notin Below[p]

\* $(sort) has no duplicates, and every nonempty set of packages has a last one.
ASSUME SortAssumption ==
    /\ Rank \in [Packages -> Nat]
    /\ \A p, q \in Packages : Rank[p] = Rank[q] => p = q
    /\ \A Q \in (SUBSET Packages) \ {{}} : \E q \in Q : \A r \in Q : Rank[r] <= Rank[q]
-----------------------------------------------------------------------------
\* The steps of p, in make's order: "source" is .stamp_rsynced for an override
\* package and .stamp_downloaded, .stamp_extracted for another.
StepsOf(p) == Steps \ ((IF p \in Override THEN {"patch"} ELSE {})
                       \cup (IF p \in Staged THEN {} ELSE {"staging"}))

No == [source |-> 1, patch |-> 2, configure |-> 3, build |-> 4, staging |-> 5,
       target |-> 6, installed |-> 7]

Prior(p, s) == {t \in StepsOf(p) : No[t] < No[s]}

\* The normal prerequisites: a stamp older than one of them is remade.  The
\* others (rsync before configure, dependencies before configure) are order-only.
Prerequisites ==
    [source |-> {}, patch |-> {"source"}, configure |-> {"patch"},
     build |-> {"configure"}, staging |-> {"build"}, target |-> {"build", "staging"},
     installed |-> {"build", "staging", "target"}]

Current(p, s) == stamp[p][s] = "current"
UpToDate(p) == \A s \in StepsOf(p) : Current(p, s)
Quiet == \A p \in Packages : job[p] = "idle"

\* Where p's HOST_DIR and TARGET_DIR are.
Loc(p) == IF perPackage THEN p ELSE Global

\* The last of a set of packages in $(sort) order.
LastOf(Q) == CHOOSE q \in Q : \A r \in Q : Rank[r] <= Rank[q]

\* Mutant of Prepared: every per-package directory is rsynced.
PreparedFromAll(dir, p) == [r \in Packages |->
    LET Q == {q \in Packages : dir[q][r] # 0}
    IN  IF Q = {} THEN dir[p][r] ELSE dir[LastOf(Q)][r]]

\* p's directory after prepare-per-package-directory: the directories of its
\* dependencies are rsynced into it in turn, and a later one overwrites.
Prepared(dir, p) == [r \in Packages |->
    LET Q == {q \in Deps[p] : dir[q][r] # 0}
    IN  IF Q = {} THEN dir[p][r] ELSE dir[LastOf(Q)][r]]

Empty == [p \in Packages |-> 0]
-----------------------------------------------------------------------------
BuildInit ==
    /\ perPackage \in BOOLEAN
    /\ src = [p \in Packages |-> 1]
    /\ goal = "none" /\ pkg = NoPackage /\ todo = {}
    /\ failing = FALSE /\ sessions = 0 /\ faults = 0
    /\ job = [p \in Packages |-> "idle"]
    /\ worked = [p \in Packages |-> FALSE]
    /\ stamp = [p \in Packages |-> [s \in Steps |-> "absent"]]
    /\ tree = Empty /\ obj = Empty
    /\ patches = [p \in Packages |-> "none"]
    /\ host = [d \in Packages \cup {Global} |-> Empty]
    /\ target = [d \in Packages \cup {Global} |-> Empty]
    /\ ppdirs = {}
    /\ before = [p \in Packages |-> FALSE]
    /\ list = [p \in Packages |-> "none"]
    /\ synced = {} /\ asked = Empty
    /\ torn = {}

\* The developer changes an override source directory.
Edit(p) ==
    /\ goal = "none"
    /\ p \in Override /\ src[p] < MaxVersion
    /\ src' = [src EXCEPT ![p] = @ + 1]
    /\ UNCHANGED <<perPackage, session, faults, failing, job, worked, stamp, products,
                   dirs, lists, torn>>

\* What a goal removes before it builds, in the order of the rules.
RemovalNo ==
    [source |-> 1, installed |-> 2, staging |-> 3, target |-> 4, build |-> 5,
     configure |-> 6, tearDirs |-> 7, rmDirs |-> 8, tearBuild |-> 9, rmBuild |-> 10]

RemovalSteps == {"source", "installed", "staging", "target", "build", "configure",
                 "tearDirs", "rmDirs", "tearBuild", "rmBuild"}

\* Mutant of ReinstallRemoves: the rsync stamp stays.
KeepRsync(p) == {"installed", "staging", "target"}

ReinstallRemoves(p) == {"installed", "staging", "target"}
                       \cup (IF p \in Override THEN {"source"} ELSE {})

\* Mutant of Removals: a rebuild installs again what was compiled before.
InstallAgain(k, p) == IF k = "all" THEN {} ELSE ReinstallRemoves(p)

Removals(k, p) ==
    CASE k = "all" -> {}
      [] k = "reinstall" -> ReinstallRemoves(p)
      [] k = "rebuild" -> ReinstallRemoves(p) \cup {"build"}
      [] k = "reconfigure" -> ReinstallRemoves(p) \cup {"build", "configure"}
      [] k = "dirclean" -> {"tearBuild", "rmBuild"}
                           \cup (IF perPackage THEN {"tearDirs", "rmDirs"} ELSE {})

\* The user runs make with one goal.
Make(k, p) ==
    /\ goal = "none" /\ sessions < MaxSessions
    /\ <<k, p>> \in Goals
    /\ goal' = k /\ pkg' = p
    /\ todo' = Removals(k, p)
    /\ sessions' = sessions + 1
    /\ UNCHANGED <<perPackage, src, synced, asked, faults, failing, job, worked,
                   stamp, products, dirs, lists, torn>>

\* r is the next removal of the goal.
NextRemoval(r) ==
    /\ r \in todo /\ \A t \in todo : RemovalNo[r] <= RemovalNo[t]
    /\ todo' = todo \ {r}
    /\ UNCHANGED <<perPackage, src, goal, pkg, sessions, synced, asked,
                   faults, failing, job, worked>>

\* <pkg>-clean-for-reinstall, -rebuild and -reconfigure: one rm -f per stamp.
RemoveStamp(s) ==
    /\ NextRemoval(s)
    /\ stamp' = [stamp EXCEPT ![pkg][s] = "absent"]
    /\ UNCHANGED <<products, dirs, lists, torn>>

Torn(dir) == [r \in Packages |-> IF dir[r] = 0 THEN 0 ELSE Partial]

\* <pkg>-dirclean: rm -Rf of the per-package directory, begun ...
TearDirs ==
    /\ NextRemoval("tearDirs")
    /\ host' = [host EXCEPT ![pkg] = Torn(@)]
    /\ target' = [target EXCEPT ![pkg] = Torn(@)]
    /\ torn' = torn \cup {pkg}
    /\ UNCHANGED <<stamp, products, ppdirs, lists>>

\* ... and done ...
RemoveDirs ==
    /\ NextRemoval("rmDirs")
    /\ host' = [host EXCEPT ![pkg] = Empty]
    /\ target' = [target EXCEPT ![pkg] = Empty]
    /\ ppdirs' = ppdirs \ {pkg}
    /\ UNCHANGED <<stamp, products, lists, torn>>

\* ... then rm -Rf of the build directory, in the order the files happen to have ...
TearBuild ==
    /\ NextRemoval("tearBuild")
    /\ \E keep \in SUBSET Steps :
          stamp' = [stamp EXCEPT ![pkg] =
                      [s \in Steps |-> IF s \in keep THEN @[s] ELSE "absent"]]
    /\ tree' = [tree EXCEPT ![pkg] = IF @ = 0 THEN 0 ELSE Partial]
    /\ obj' = [obj EXCEPT ![pkg] = IF @ = 0 THEN 0 ELSE Partial]
    /\ torn' = torn \cup {pkg}
    /\ UNCHANGED <<patches, dirs, lists>>

\* ... and done.
RemoveBuild ==
    /\ NextRemoval("rmBuild")
    /\ stamp' = [stamp EXCEPT ![pkg] = [s \in Steps |-> "absent"]]
    /\ tree' = [tree EXCEPT ![pkg] = 0]
    /\ obj' = [obj EXCEPT ![pkg] = 0]
    /\ patches' = [patches EXCEPT ![pkg] = "none"]
    /\ before' = [before EXCEPT ![pkg] = FALSE]
    /\ list' = [list EXCEPT ![pkg] = "none"]
    /\ torn' = torn \ {pkg}
    /\ UNCHANGED dirs
-----------------------------------------------------------------------------
\* The packages the goal wants up to date.
Wanted == CASE goal = "all" -> Packages
            [] goal \in {"none", "dirclean"} -> {}
            [] OTHER -> {pkg} \cup Below[pkg]

\* Mutant of Ready: configure has no order-only dependencies.
ReadyWithoutDeps(p, s) ==
    /\ goal # "none" /\ todo = {} /\ ~failing
    /\ p \in Wanted /\ s \in StepsOf(p) /\ job[p] = "idle"
    /\ ~Current(p, s)
    /\ \A t \in Prior(p, s) : Current(p, t)
    /\ perPackage \/ Quiet

\* make may run the rule of s: the stamp has to be remade, everything before it
\* is up to date, and without per-package directories nothing else is running.
\* make runs a rule once in a run, and so does this guard: a stamp touched in a
\* run stays up to date until it ends, and a rule that failed ends it.
Ready(p, s) ==
    /\ goal # "none" /\ todo = {} /\ ~failing
    /\ p \in Wanted /\ s \in StepsOf(p) /\ job[p] = "idle"
    /\ ~Current(p, s)
    /\ \A t \in Prior(p, s) : Current(p, t)
    /\ No[s] >= 3 => \A q \in Below[p] : UpToDate(q)
    /\ perPackage \/ Quiet

\* Mutant of Begin: the stamp is touched by the first command of the rule.
TouchFirst(p, s) ==
    /\ Ready(p, s)
    /\ job' = [job EXCEPT ![p] = s]
    /\ stamp' = [stamp EXCEPT ![p][s] = "current"]
    /\ UNCHANGED <<perPackage, src, session, faults, failing, worked>>

Begin(p, s) ==
    /\ Ready(p, s)
    /\ job' = [job EXCEPT ![p] = s]
    /\ UNCHANGED <<perPackage, src, session, faults, failing, worked, stamp>>

End(p, s) ==
    /\ job[p] = s /\ ~worked[p]
    /\ worked' = [worked EXCEPT ![p] = TRUE]
    /\ UNCHANGED <<perPackage, src, session, faults, failing, job, stamp>>

\* A command of the rule fails: make lets the other jobs end and stops.
Stop(p) ==
    /\ job' = [job EXCEPT ![p] = "idle"]
    /\ failing' = TRUE
    /\ UNCHANGED <<perPackage, src, session, worked, stamp>>

\* Download and extract, or rsync of the override source directory.
Source(p) ==
    /\ \/ Begin(p, "source") /\ tree' = [tree EXCEPT ![p] = Partial]
       \/ End(p, "source") /\ tree' = [tree EXCEPT ![p] = src[p]]
    /\ UNCHANGED <<patches, obj, dirs, lists, torn>>

\* Mutant of Patch: a patch that the list names is skipped.
SkipListed(p) ==
    /\ \/ /\ Begin(p, "patch") /\ patches[p] = "none" /\ UNCHANGED worked
          /\ patches' = [patches EXCEPT ![p] = "some"]
       \/ /\ Ready(p, "patch") /\ patches[p] # "none" /\ UNCHANGED patches
          /\ job' = [job EXCEPT ![p] = "patch"]
          /\ worked' = [worked EXCEPT ![p] = TRUE]
          /\ UNCHANGED <<perPackage, src, session, faults, failing, stamp>>
       \/ End(p, "patch") /\ patches' = [patches EXCEPT ![p] = "all"]
    /\ UNCHANGED <<tree, obj, dirs, lists, torn>>

\* apply-patches.sh refuses a patch that .applied_patches_list already names.
Patch(p) ==
    /\ \/ /\ Begin(p, "patch") /\ patches[p] = "none"
          /\ patches' = [patches EXCEPT ![p] = "some"]
       \/ /\ Ready(p, "patch") /\ patches[p] # "none"
          /\ Stop(p) /\ UNCHANGED <<faults, patches>>
       \/ End(p, "patch") /\ patches' = [patches EXCEPT ![p] = "all"]
    /\ UNCHANGED <<tree, obj, dirs, lists, torn>>

\* Configure first fills the per-package directories; rsync fails when one of a
\* dependency is missing.  It also lists the files already installed.
Configure(p) ==
    /\ \/ /\ Begin(p, "configure") /\ ~perPackage
          /\ before' = [before EXCEPT ![p] = TRUE]
          /\ UNCHANGED <<dirs, torn>>
       \/ /\ Begin(p, "configure") /\ perPackage /\ Deps[p] \subseteq ppdirs
          /\ host' = [host EXCEPT ![p] = Prepared(host, p)]
          /\ target' = [target EXCEPT ![p] = Prepared(target, p)]
          /\ ppdirs' = ppdirs \cup {p}
          /\ torn' = IF Deps[p] \cap torn # {} THEN torn \cup {p} ELSE torn
          /\ before' = [before EXCEPT ![p] = TRUE]
       \/ /\ Ready(p, "configure") /\ perPackage /\ ~(Deps[p] \subseteq ppdirs)
          /\ Stop(p) /\ UNCHANGED <<faults, dirs, torn, before>>
       \/ End(p, "configure") /\ UNCHANGED <<dirs, torn, before>>
    /\ UNCHANGED <<products, list>>

Build(p) ==
    /\ \/ Begin(p, "build") /\ obj' = [obj EXCEPT ![p] = Partial]
       \/ End(p, "build") /\ obj' = [obj EXCEPT ![p] = tree[p]]
    /\ UNCHANGED <<tree, patches, dirs, lists, torn>>

InstallStaging(p) ==
    /\ \/ Begin(p, "staging") /\ host' = [host EXCEPT ![Loc(p)][p] = Partial]
       \/ End(p, "staging") /\ host' = [host EXCEPT ![Loc(p)][p] = obj[p]]
    /\ UNCHANGED <<products, target, ppdirs, lists, torn>>

InstallTarget(p) ==
    /\ \/ Begin(p, "target") /\ target' = [target EXCEPT ![Loc(p)][p] = Partial]
       \/ End(p, "target") /\ target' = [target EXCEPT ![Loc(p)][p] = obj[p]]
    /\ UNCHANGED <<products, host, ppdirs, lists, torn>>

\* The file list is what was installed since .files-list.before; without that
\* file comm fails, the pipeline does not, and the list is empty.  check-bin-arch
\* then looks at the listed files.
Installed(p) ==
    /\ \/ Begin(p, "installed") /\ UNCHANGED lists
       \/ /\ \/ End(p, "installed") /\ ~(p \in BadArch /\ before[p])
             \/ job[p] = "installed" /\ ~worked[p] /\ p \in BadArch /\ before[p]
                /\ Stop(p) /\ UNCHANGED faults
          /\ list' = [list EXCEPT ![p] = IF before[p] THEN "files" ELSE "empty"]
          /\ before' = [before EXCEPT ![p] = FALSE]
    /\ UNCHANGED <<products, dirs, torn>>

\* touch $@, the last command of every rule: the stamps that have it as a normal
\* prerequisite are now older.
Touch(p) ==
    /\ job[p] # "idle" /\ worked[p]
    /\ stamp' = [stamp EXCEPT ![p] =
          [s \in Steps |->
              CASE s = job[p] -> "current"
                [] job[p] \in Prerequisites[s] /\ @[s] = "current" -> "old"
                [] OTHER -> @[s]]]
    /\ job' = [job EXCEPT ![p] = "idle"]
    /\ worked' = [worked EXCEPT ![p] = FALSE]
    /\ UNCHANGED <<perPackage, src, session, faults, failing, products, dirs, lists, torn>>

\* Any command may fail.
Fail(p) ==
    /\ job[p] # "idle" /\ ~worked[p]
    /\ faults < MaxFaults /\ faults' = faults + 1
    /\ Stop(p)
    /\ UNCHANGED <<products, dirs, lists, torn>>

\* target-finalize copies the per-package directories into the global one, in
\* sorted order; rsync fails when one is missing.
Finalize(p) ==
    /\ goal = "all" /\ ~failing /\ perPackage
    /\ \A q \in Packages : UpToDate(q)
    /\ p \notin synced /\ \A q \in Packages \ synced : Rank[p] <= Rank[q]
    /\ \/ /\ p \in ppdirs
          /\ target' = [target EXCEPT ![Global] = [r \in Packages |->
                IF target[p][r] = 0 THEN @[r] ELSE target[p][r]]]
          /\ synced' = synced \cup {p}
          /\ UNCHANGED failing
       \/ p \notin ppdirs /\ failing' = TRUE /\ UNCHANGED <<target, synced>>
    /\ UNCHANGED <<perPackage, src, goal, pkg, todo, sessions, asked, faults, job,
                   worked, stamp, products, host, ppdirs, lists, torn>>

\* make has nothing left to do: the goal is reached.
Reached ==
    /\ goal # "none" /\ todo = {} /\ ~failing
    /\ \A p \in Wanted : UpToDate(p)
    /\ goal = "all" /\ perPackage => synced = Packages

Leave ==
    /\ goal' = "none" /\ pkg' = NoPackage /\ todo' = {} /\ synced' = {}
    /\ failing' = FALSE
    /\ job' = [p \in Packages |-> "idle"]
    /\ worked' = [p \in Packages |-> FALSE]
    /\ UNCHANGED <<perPackage, src, sessions, stamp, products, dirs, lists, torn>>

\* make ends well.
Succeed ==
    /\ Reached /\ Quiet
    /\ asked' = IF goal \in {"rebuild", "reconfigure"}
                THEN [asked EXCEPT ![pkg] = src[pkg]] ELSE asked
    /\ Leave /\ UNCHANGED faults

\* make ends badly, once the jobs that were running have ended.
GiveUp == failing /\ Quiet /\ Leave /\ UNCHANGED <<faults, asked>>

\* The user interrupts make.
Kill ==
    /\ goal # "none"
    /\ faults < MaxFaults /\ faults' = faults + 1
    /\ Leave /\ UNCHANGED asked

Step(p) ==
    \/ Source(p) \/ Patch(p) \/ Configure(p) \/ Build(p) \/ InstallStaging(p)
    \/ InstallTarget(p) \/ Installed(p) \/ Touch(p)

Remove == (\E s \in Steps : RemoveStamp(s))
          \/ TearDirs \/ RemoveDirs \/ TearBuild \/ RemoveBuild

MakeRuns == Remove \/ (\E p \in Packages : Step(p) \/ Finalize(p)) \/ Succeed \/ GiveUp

BuildNext ==
    \/ MakeRuns
    \/ \E p \in Packages : Edit(p) \/ Fail(p)
    \/ \E g \in Goals : Make(g[1], g[2])
    \/ Kill

BuildSpec == BuildInit /\ [][BuildNext]_buildVars
-----------------------------------------------------------------------------
BuildControlTypeOK ==
    /\ perPackage \in BOOLEAN
    /\ src \in [Packages -> Versions]
    /\ goal \in Kinds \cup {"none"}
    /\ pkg \in Packages \cup {NoPackage}
    /\ goal \in {"none", "all"} <=> pkg = NoPackage
    /\ todo # {} => pkg \in Packages
    /\ todo \subseteq RemovalSteps
    /\ failing \in BOOLEAN
    /\ sessions \in 0..MaxSessions
    /\ faults \in 0..MaxFaults
    /\ job \in [Packages -> Steps \cup {"idle"}]
    /\ worked \in [Packages -> BOOLEAN]
    /\ stamp \in [Packages -> [Steps -> {"absent", "old", "current"}]]

ProductsTypeOK ==
    /\ tree \in [Packages -> Files]
    /\ patches \in [Packages -> {"none", "some", "all"}]
    /\ obj \in [Packages -> Files]
    /\ before \in [Packages -> BOOLEAN]
    /\ list \in [Packages -> {"none", "empty", "files"}]
    /\ asked \in [Packages -> Versions \cup {0}]
    /\ torn \subseteq Packages

DirsTypeOK ==
    /\ host \in [Packages \cup {Global} -> [Packages -> Files]]
    /\ target \in [Packages \cup {Global} -> [Packages -> Files]]
    /\ ppdirs \subseteq Packages
    /\ synced \subseteq Packages

\* Every variable holds a value of its type, and a goal has the package it needs.
BuildTypeOK == BuildControlTypeOK /\ ProductsTypeOK /\ DirsTypeOK

\* What p's up-to-date stamps stand for.
StampsTrue(p) ==
    /\ Current(p, "source") => tree[p] \in Versions
    /\ Current(p, "patch") => patches[p] = "all"
    /\ Current(p, "build") => obj[p] \in Versions
    /\ Current(p, "staging") =>
          /\ host[Loc(p)][p] \in Versions
          /\ Current(p, "build") => host[Loc(p)][p] = obj[p]
    /\ Current(p, "target") =>
          /\ target[Loc(p)][p] \in Versions
          /\ Current(p, "build") => target[Loc(p)][p] = obj[p]

\* "stamp files to keep track of which build steps have been completed": an
\* up-to-date stamp means that what the step produces is there, complete, and
\* made from what the stamps before it stand for, whatever was interrupted or
\* failed since, except after an interrupted dirclean.
StampsTruth == \A p \in Packages \ torn : StampsTrue(p)

\* While a package is configured, compiled or installed, everything it depends on
\* is up to date and untouched, and what its dependencies install in staging is
\* complete where the package looks for it, also with other packages being built
\* in parallel.
DependenciesReady ==
    \A p \in Packages : (job[p] # "idle" /\ No[job[p]] >= 3) =>
        /\ \A q \in Below[p] : UpToDate(q) /\ job[q] = "idle"
        /\ p \notin torn => \A q \in Deps[p] \cap Staged :
              q \notin torn => host[Loc(p)][q] \in Versions

\* "a given package only sees the dependencies it has explicitly expressed" (and
\* theirs): a per-package directory never holds files of any other package.
Isolation ==
    perPackage => \A p, r \in Packages :
        (host[p][r] # 0 \/ target[p][r] # 0) => r \in Below[p] \cup {p}

\* A package is never configured or compiled from sources that miss patches, also
\* when the patch step was interrupted and make was run again.
ConfiguresPatched ==
    \A p \in Packages \ (Override \cup torn) :
        (job[p] # "idle" /\ No[job[p]] >= 3) => patches[p] = "all"

\* No package that depends on p comes after it in sorted order.
LastWriter(p) == \A q \in Packages : p \in Below[q] => Rank[q] < Rank[p]

\* When "make all" has built everything and makes the root filesystem image from
\* $(TARGET_DIR), that directory has complete files of every package, and of no
\* older version than the sources at its last successful rebuild (with
\* per-package directories: unless a package that depends on it is copied later).
ImageMade == goal = "all" /\ Reached /\ Quiet

ShipsRebuilds ==
    ImageMade => \A p \in Packages \ torn :
        (~perPackage \/ LastWriter(p)) =>
            target[Global][p] \in Versions /\ target[Global][p] >= asked[p]

\* The complete steps of every package, and the version of what each has made, as
\* AtomicBuild sees them: a step shows when its stamp is up to date.
DoneSteps == [p \in Packages |-> {s \in Steps : Current(p, s)}]

ProductOf(p, s) == CASE s = "source" -> tree[p]
                     [] s = "build" -> obj[p]
                     [] s = "staging" -> host[Loc(p)][p]
                     [] s = "target" -> target[Loc(p)][p]

MadeProducts == [p \in Packages |->
    [s \in {"source", "build", "staging", "target"} |->
        IF Current(p, s) THEN ProductOf(p, s) ELSE 0]]

Chains == [p \in Packages |-> StepsOf(p)]

Atomic == INSTANCE AtomicBuild WITH
    Chain <- Chains, done <- DoneSteps, made <- MadeProducts

\* Commands, parallel jobs, failures and interruptions, the stamps and the shared
\* or per-package directories together implement AtomicBuild: every step of make
\* is one of its steps, or invisible in it.
ImplementsBuild == Atomic!AtomicSpec
-----------------------------------------------------------------------------
\* "A make <pkg>-rebuild all sequence will rsync the source code from
\* <pkg>_OVERRIDE_SRCDIR [...]; the root filesystem image in output/images
\* contains the updated" package.
RebuildReachesImage ==
    ImageMade => \A p \in Packages \ torn :
        target[Global][p] \in Versions /\ target[Global][p] >= asked[p]

\* make checks "that the package installs correctly cross-compiled binaries": no
\* package that installs a binary for another architecture counts as installed.
InstallsOnlyTargetBinaries ==
    \A p \in BadArch \ torn : ~Current(p, "installed")
=============================================================================
