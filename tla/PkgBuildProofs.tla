--------------------------- MODULE PkgBuildProofs ---------------------------
(***************************************************************************)
(* Proofs about PkgBuild for any packages, dependencies and goals, any     *)
(* number of versions, sessions and faults, with and without per-package   *)
(* directories.                                                            *)
(***************************************************************************)
EXTENDS PkgBuild, TLAPS

\* Below is the transitive closure of Deps.
LEMMA BelowClosure ==
    /\ \A p \in Packages : Below[p] \subseteq Packages /\ p \notin Below[p]
    /\ \A p \in Packages : Deps[p] \subseteq Below[p]
    /\ \A p \in Packages : \A q \in Below[p] : Below[q] \subseteq Below[p]
<1>0. Deps \in [Packages -> SUBSET Packages]
  BY BuildAssumption
<1>1. \A p \in Packages : Below[p] \subseteq Packages /\ p \notin Below[p]
  BY BuildAssumption DEF Below
<1>2. ASSUME NEW p \in Packages, NEW q \in Deps[p]
      PROVE  q \in Below[p]
  BY <1>0, <1>2 DEF Below
<1>3. ASSUME NEW p \in Packages, NEW q \in Below[p], NEW t \in Below[q]
      PROVE  t \in Below[p]
  <2>1. q \in Packages /\ t \in Packages
    BY <1>1
  <2>2. ASSUME NEW S \in SUBSET Packages, Deps[p] \subseteq S,
               \A r \in S : Deps[r] \subseteq S
        PROVE  t \in S
    <3>1. q \in S
      BY <2>2 DEF Below
    <3>2. Deps[q] \subseteq S
      BY <2>2, <3>1
    <3>3. QED
      BY <2>1, <2>2, <3>2 DEF Below
  <2>3. QED
    BY <2>1, <2>2 DEF Below
<1>4. QED
  BY <1>1, <1>2, <1>3

\* A table stays one when an entry or a row of it changes.
LEMMA EntryUpdate ==
    ASSUME NEW A, NEW B, NEW C, NEW t \in [A -> [B -> C]],
           NEW a \in A, NEW b \in B, NEW c \in C
    PROVE  [t EXCEPT ![a][b] = c] \in [A -> [B -> C]]
<1>1. [t[a] EXCEPT ![b] = c] \in [B -> C]
  OBVIOUS
<1>2. [t EXCEPT ![a][b] = c] = [t EXCEPT ![a] = [t[a] EXCEPT ![b] = c]]
  OBVIOUS
<1>3. QED
  BY <1>1, <1>2

LEMMA RowUpdate ==
    ASSUME NEW A, NEW B, NEW C, NEW t \in [A -> [B -> C]],
           NEW a \in A, NEW r \in [B -> C]
    PROVE  [t EXCEPT ![a] = r] \in [A -> [B -> C]]
OBVIOUS

\* The last of a nonempty set of packages is one of them.
LEMMA LastOfMember ==
    ASSUME NEW Q \in SUBSET Packages, Q # {}
    PROVE  LastOf(Q) \in Q
<1>1. \E q \in Q : \A r \in Q : Rank[r] <= Rank[q]
  BY SortAssumption
<1>2. QED
  BY <1>1 DEF LastOf

\* A prepared directory has, of each package, what it had before or what the
\* directory of one of the dependencies has.
LEMMA PreparedFrom ==
    ASSUME NEW dir, NEW p \in Packages, NEW r \in Packages
    PROVE  \/ /\ Prepared(dir, p)[r] = dir[p][r]
              /\ \A q \in Deps[p] : dir[q][r] = 0
           \/ \E q \in Deps[p] : dir[q][r] # 0 /\ Prepared(dir, p)[r] = dir[q][r]
<1> DEFINE Q == {q \in Deps[p] : dir[q][r] # 0}
<1>1. CASE Q = {}
  <2>1. Prepared(dir, p)[r] = dir[p][r]
    BY <1>1 DEF Prepared
  <2>2. QED
    BY <1>1, <2>1
<1>2. CASE Q # {}
  <2>1. Q \in SUBSET Packages
    BY BuildAssumption
  <2>2. LastOf(Q) \in Q
    BY <1>2, <2>1, LastOfMember
  <2>3. Prepared(dir, p)[r] = dir[LastOf(Q)][r]
    BY <1>2 DEF Prepared
  <2>4. QED
    BY <2>2, <2>3
<1>3. QED
  BY <1>1, <1>2

LEMMA PreparedType ==
    ASSUME NEW dir \in [Packages \cup {Global} -> [Packages -> Files]], NEW p \in Packages
    PROVE  Prepared(dir, p) \in [Packages -> Files]
<1>1. Prepared(dir, p) = [r \in Packages |-> Prepared(dir, p)[r]]
  BY DEF Prepared
<1>2. ASSUME NEW r \in Packages
      PROVE  Prepared(dir, p)[r] \in Files
  <2>1. Deps[p] \subseteq Packages
    BY BuildAssumption
  <2>2. QED
    BY <2>1, PreparedFrom
<1>3. QED
  BY <1>1, <1>2

\* Every step keeps the types of the control variables.
LEMMA ControlStep == BuildTypeOK /\ [BuildNext]_buildVars => BuildControlTypeOK'
<1> SUFFICES ASSUME BuildTypeOK, [BuildNext]_buildVars
             PROVE  BuildControlTypeOK'
  OBVIOUS
<1>a. /\ MaxVersion \in Nat \ {0} /\ MaxSessions \in Nat /\ MaxFaults \in Nat
      /\ Goals \subseteq {<<"all", NoPackage>>} \cup ((Kinds \ {"all"}) \X Packages)
      /\ NoPackage \notin Packages
  BY BuildAssumption
<1> USE DEF BuildTypeOK, BuildControlTypeOK, RemovalSteps, Kinds, Steps, Versions
<1>1. ASSUME NEW p \in Packages, Edit(p)
      PROVE  BuildControlTypeOK'
  BY <1>1, <1>a DEF Edit, session, products, dirs, lists
<1>2. ASSUME NEW g \in Goals, Make(g[1], g[2])
      PROVE  BuildControlTypeOK'
  <2>1. g = <<"all", NoPackage>> \/ g \in (Kinds \ {"all"}) \X Packages
    BY <1>2, <1>a
  <2>2. Removals(g[1], g[2]) \subseteq RemovalSteps
    BY <2>1 DEF Removals, ReinstallRemoves
  <2>3. QED
    BY <1>2, <1>a, <2>1, <2>2 DEF Make, Removals, session, products, dirs, lists
<1>3. ASSUME NEW s \in Steps, RemoveStamp(s)
      PROVE  BuildControlTypeOK'
  BY <1>3, <1>a DEF RemoveStamp, NextRemoval, session, products, dirs, lists
<1>4. CASE TearDirs
  BY <1>4, <1>a DEF TearDirs, NextRemoval, session, products, dirs, lists
<1>5. CASE RemoveDirs
  BY <1>5, <1>a DEF RemoveDirs, NextRemoval, session, products, dirs, lists
<1>6. CASE TearBuild
  <2>1. PICK keep \in SUBSET Steps :
           stamp' = [stamp EXCEPT ![pkg] =
                       [s \in Steps |-> IF s \in keep THEN @[s] ELSE "absent"]]
    BY <1>6 DEF TearBuild
  <2>2. [s \in Steps |-> IF s \in keep THEN stamp[pkg][s] ELSE "absent"]
            \in [Steps -> {"absent", "old", "current"}]
    BY <1>6 DEF TearBuild, NextRemoval
  <2>3. stamp' \in [Packages -> [Steps -> {"absent", "old", "current"}]]
    BY <2>1, <2>2
  <2>4. QED
    BY <1>6, <2>3, <1>a DEF TearBuild, NextRemoval
<1>7. CASE RemoveBuild
  BY <1>7, <1>a DEF RemoveBuild, NextRemoval, session, products, dirs, lists
<1>8. ASSUME NEW p \in Packages, Source(p)
      PROVE  BuildControlTypeOK'
  BY <1>8, <1>a DEF Source, Begin, Ready, End, session, products, dirs, lists
<1>9. ASSUME NEW p \in Packages, Patch(p)
      PROVE  BuildControlTypeOK'
  BY <1>9, <1>a DEF Patch, Begin, Ready, End, Stop, session, products, dirs, lists
<1>10. ASSUME NEW p \in Packages, Configure(p)
      PROVE  BuildControlTypeOK'
  BY <1>10, <1>a DEF Configure, Begin, Ready, End, Stop, session, products, dirs, lists
<1>11. ASSUME NEW p \in Packages, Build(p)
      PROVE  BuildControlTypeOK'
  BY <1>11, <1>a DEF Build, Begin, Ready, End, session, products, dirs, lists
<1>12. ASSUME NEW p \in Packages, InstallStaging(p)
      PROVE  BuildControlTypeOK'
  BY <1>12, <1>a DEF InstallStaging, Begin, Ready, End, session, products, dirs, lists
<1>13. ASSUME NEW p \in Packages, InstallTarget(p)
      PROVE  BuildControlTypeOK'
  BY <1>13, <1>a DEF InstallTarget, Begin, Ready, End, session, products, dirs, lists
<1>14. ASSUME NEW p \in Packages, Installed(p)
      PROVE  BuildControlTypeOK'
  BY <1>14, <1>a DEF Installed, Begin, Ready, End, Stop, session, products, dirs, lists
<1>15. ASSUME NEW p \in Packages, Touch(p)
      PROVE  BuildControlTypeOK'
  BY <1>15, <1>a DEF Touch, session, products, dirs, lists
<1>16. ASSUME NEW p \in Packages, Fail(p)
      PROVE  BuildControlTypeOK'
  BY <1>16, <1>a DEF Fail, Stop, session, products, dirs, lists
<1>17. ASSUME NEW p \in Packages, Finalize(p)
      PROVE  BuildControlTypeOK'
  BY <1>17, <1>a DEF Finalize, session, products, dirs, lists
<1>18. CASE Succeed
  BY <1>18, <1>a DEF Succeed, Leave, session, products, dirs, lists
<1>19. CASE GiveUp
  BY <1>19, <1>a DEF GiveUp, Leave, session, products, dirs, lists
<1>20. CASE Kill
  <2>1. faults' \in 0..MaxFaults
    BY <1>20, <1>a DEF Kill
  <2>2. QED
    BY <1>20, <2>1 DEF Kill, Leave
<1>21. CASE UNCHANGED buildVars
  BY <1>21 DEF buildVars, session, products, dirs, lists
<1>22. QED
  BY <1>1, <1>2, <1>3, <1>4, <1>5, <1>6, <1>7, <1>8, <1>9,
     <1>10, <1>11, <1>12, <1>13, <1>14, <1>15, <1>16, <1>17, <1>18,
     <1>19, <1>20, <1>21
     DEF BuildNext, MakeRuns, Remove, Step

\* Every step keeps the types of what is built.
LEMMA ProductsStep == BuildTypeOK /\ [BuildNext]_buildVars => ProductsTypeOK'
<1> SUFFICES ASSUME BuildTypeOK, [BuildNext]_buildVars
             PROVE  ProductsTypeOK'
  OBVIOUS
<1>a. MaxVersion \in Nat \ {0}
  BY BuildAssumption
<1> USE DEF BuildTypeOK, BuildControlTypeOK, ProductsTypeOK, Files, Versions
<1>1. ASSUME NEW p \in Packages, Edit(p)
      PROVE  ProductsTypeOK'
  BY <1>1, <1>a DEF Edit, session, products, dirs, lists
<1>2. ASSUME NEW g \in Goals, Make(g[1], g[2])
      PROVE  ProductsTypeOK'
  BY <1>2, <1>a DEF Make, session, products, dirs, lists
<1>3. ASSUME NEW s \in Steps, RemoveStamp(s)
      PROVE  ProductsTypeOK'
  BY <1>3, <1>a DEF RemoveStamp, NextRemoval, session, products, dirs, lists
<1>4. CASE TearDirs
  BY <1>4, <1>a DEF TearDirs, NextRemoval, session, products, dirs, lists
<1>5. CASE RemoveDirs
  BY <1>5, <1>a DEF RemoveDirs, NextRemoval, session, products, dirs, lists
<1>6. CASE TearBuild
  BY <1>6, <1>a DEF TearBuild, NextRemoval, session, products, dirs, lists
<1>7. CASE RemoveBuild
  BY <1>7, <1>a DEF RemoveBuild, NextRemoval, session, products, dirs, lists
<1>8. ASSUME NEW p \in Packages, Source(p)
      PROVE  ProductsTypeOK'
  BY <1>8, <1>a, ZenonT(30) DEF Source, Begin, Ready, End, session, products, dirs, lists
<1>9. ASSUME NEW p \in Packages, Patch(p)
      PROVE  ProductsTypeOK'
  BY <1>9, <1>a DEF Patch, Begin, Ready, End, Stop, session, products, dirs, lists
<1>10. ASSUME NEW p \in Packages, Configure(p)
      PROVE  ProductsTypeOK'
  BY <1>10, <1>a DEF Configure, Begin, Ready, End, Stop, session, products, dirs, lists
<1>11. ASSUME NEW p \in Packages, Build(p)
      PROVE  ProductsTypeOK'
  BY <1>11, <1>a DEF Build, Begin, Ready, End, session, products, dirs, lists
<1>12. ASSUME NEW p \in Packages, InstallStaging(p)
      PROVE  ProductsTypeOK'
  BY <1>12, <1>a DEF InstallStaging, Begin, Ready, End, session, products, dirs, lists
<1>13. ASSUME NEW p \in Packages, InstallTarget(p)
      PROVE  ProductsTypeOK'
  BY <1>13, <1>a DEF InstallTarget, Begin, Ready, End, session, products, dirs, lists
<1>14. ASSUME NEW p \in Packages, Installed(p)
      PROVE  ProductsTypeOK'
  BY <1>14, <1>a DEF Installed, Begin, Ready, End, Stop, session, products, dirs, lists
<1>15. ASSUME NEW p \in Packages, Touch(p)
      PROVE  ProductsTypeOK'
  BY <1>15, <1>a DEF Touch, session, products, dirs, lists
<1>16. ASSUME NEW p \in Packages, Fail(p)
      PROVE  ProductsTypeOK'
  BY <1>16, <1>a DEF Fail, Stop, session, products, dirs, lists
<1>17. ASSUME NEW p \in Packages, Finalize(p)
      PROVE  ProductsTypeOK'
  BY <1>17, <1>a DEF Finalize, session, products, dirs, lists
<1>18. CASE Succeed
  BY <1>18, <1>a DEF Succeed, Leave, session, products, dirs, lists
<1>19. CASE GiveUp
  BY <1>19, <1>a DEF GiveUp, Leave, session, products, dirs, lists
<1>20. CASE Kill
  BY <1>20, <1>a DEF Kill, Leave, session, products, dirs, lists
<1>21. CASE UNCHANGED buildVars
  BY <1>21 DEF buildVars, session, products, dirs, lists
<1>22. QED
  BY <1>1, <1>2, <1>3, <1>4, <1>5, <1>6, <1>7, <1>8, <1>9,
     <1>10, <1>11, <1>12, <1>13, <1>14, <1>15, <1>16, <1>17, <1>18,
     <1>19, <1>20, <1>21
     DEF BuildNext, MakeRuns, Remove, Step

\* Every step keeps the types of the directories.
LEMMA DirsStep == BuildTypeOK /\ [BuildNext]_buildVars => DirsTypeOK'
<1> SUFFICES ASSUME BuildTypeOK, [BuildNext]_buildVars
             PROVE  DirsTypeOK'
  OBVIOUS
<1> USE
  DEF BuildTypeOK, BuildControlTypeOK, ProductsTypeOK, DirsTypeOK, Files, Versions,
  Empty, Loc, Torn
<1>1. ASSUME NEW p \in Packages, Edit(p)
      PROVE  DirsTypeOK'
  BY <1>1 DEF Edit, session, products, dirs, lists
<1>2. ASSUME NEW g \in Goals, Make(g[1], g[2])
      PROVE  DirsTypeOK'
  BY <1>2 DEF Make, session, products, dirs, lists
<1>3. ASSUME NEW s \in Steps, RemoveStamp(s)
      PROVE  DirsTypeOK'
  BY <1>3 DEF RemoveStamp, NextRemoval, session, products, dirs, lists
<1>4. CASE TearDirs
  BY <1>4 DEF TearDirs, NextRemoval, session, products, dirs, lists
<1>5. CASE RemoveDirs
  BY <1>5 DEF RemoveDirs, NextRemoval, session, products, dirs, lists
<1>6. CASE TearBuild
  BY <1>6 DEF TearBuild, NextRemoval, session, products, dirs, lists
<1>7. CASE RemoveBuild
  BY <1>7 DEF RemoveBuild, NextRemoval, session, products, dirs, lists
<1>8. ASSUME NEW p \in Packages, Source(p)
      PROVE  DirsTypeOK'
  BY <1>8 DEF Source, Begin, Ready, End, session, products, dirs, lists
<1>9. ASSUME NEW p \in Packages, Patch(p)
      PROVE  DirsTypeOK'
  BY <1>9 DEF Patch, Begin, Ready, End, Stop, session, products, dirs, lists
<1>10. ASSUME NEW p \in Packages, Configure(p)
      PROVE  DirsTypeOK'
  <2>1. Prepared(host, p) \in [Packages -> Files] /\ Prepared(target, p) \in [Packages -> Files]
    BY PreparedType
  <2>2. /\ [host EXCEPT ![p] = Prepared(host, p)]
               \in [Packages \cup {Global} -> [Packages -> Files]]
        /\ [target EXCEPT ![p] = Prepared(target, p)]
               \in [Packages \cup {Global} -> [Packages -> Files]]
    BY <2>1, RowUpdate
  <2>3. QED
    BY <1>10, <2>2, ZenonT(30)
       DEF Configure, Begin, Ready, End, Stop, session, products, dirs, lists
<1>11. ASSUME NEW p \in Packages, Build(p)
      PROVE  DirsTypeOK'
  BY <1>11 DEF Build, Begin, Ready, End, session, products, dirs, lists
<1>12. ASSUME NEW p \in Packages, InstallStaging(p)
      PROVE  DirsTypeOK'
  <2>1. Loc(p) \in Packages \cup {Global} /\ obj[p] \in Files /\ Partial \in Files
    BY DEF Loc
  <2>2. \/ host' = [host EXCEPT ![Loc(p)][p] = Partial]
        \/ host' = [host EXCEPT ![Loc(p)][p] = obj[p]]
    BY <1>12 DEF InstallStaging
  <2>a. host \in [Packages \cup {Global} -> [Packages -> Files]]
    OBVIOUS
  <2> HIDE DEF Files, Versions, Loc
  <2>b. [host EXCEPT ![Loc(p)][p] = Partial] \in [Packages \cup {Global} -> [Packages -> Files]]
    BY <2>1, <2>a, EntryUpdate
  <2>c. [host EXCEPT ![Loc(p)][p] = obj[p]] \in [Packages \cup {Global} -> [Packages -> Files]]
    BY <2>1, <2>a, EntryUpdate
  <2>3. host' \in [Packages \cup {Global} -> [Packages -> Files]]
    BY <2>2, <2>b, <2>c
  <2>4. QED
    BY <1>12, <2>3 DEF InstallStaging, Begin, End, session, dirs
<1>13. ASSUME NEW p \in Packages, InstallTarget(p)
      PROVE  DirsTypeOK'
  <2>1. Loc(p) \in Packages \cup {Global} /\ obj[p] \in Files /\ Partial \in Files
    BY DEF Loc
  <2>2. \/ target' = [target EXCEPT ![Loc(p)][p] = Partial]
        \/ target' = [target EXCEPT ![Loc(p)][p] = obj[p]]
    BY <1>13 DEF InstallTarget
  <2>a. target \in [Packages \cup {Global} -> [Packages -> Files]]
    OBVIOUS
  <2> HIDE DEF Files, Versions, Loc
  <2>b. [target EXCEPT ![Loc(p)][p] = Partial] \in [Packages \cup {Global} -> [Packages -> Files]]
    BY <2>1, <2>a, EntryUpdate
  <2>c. [target EXCEPT ![Loc(p)][p] = obj[p]] \in [Packages \cup {Global} -> [Packages -> Files]]
    BY <2>1, <2>a, EntryUpdate
  <2>3. target' \in [Packages \cup {Global} -> [Packages -> Files]]
    BY <2>2, <2>b, <2>c
  <2>4. QED
    BY <1>13, <2>3 DEF InstallTarget, Begin, End, session, dirs
<1>14. ASSUME NEW p \in Packages, Installed(p)
      PROVE  DirsTypeOK'
  BY <1>14 DEF Installed, Begin, Ready, End, Stop, session, products, dirs, lists
<1>15. ASSUME NEW p \in Packages, Touch(p)
      PROVE  DirsTypeOK'
  BY <1>15 DEF Touch, session, products, dirs, lists
<1>16. ASSUME NEW p \in Packages, Fail(p)
      PROVE  DirsTypeOK'
  BY <1>16 DEF Fail, Stop, session, products, dirs, lists
<1>17. ASSUME NEW p \in Packages, Finalize(p)
      PROVE  DirsTypeOK'
  <2>1. [r \in Packages |-> IF target[p][r] = 0 THEN target[Global][r] ELSE target[p][r]]
            \in [Packages -> Files]
    OBVIOUS
  <2>2. target' \in [Packages \cup {Global} -> [Packages -> Files]]
    BY <1>17, <2>1 DEF Finalize
  <2>3. QED
    BY <1>17, <2>2 DEF Finalize, session, dirs
<1>18. CASE Succeed
  BY <1>18 DEF Succeed, Leave, session, products, dirs, lists
<1>19. CASE GiveUp
  BY <1>19 DEF GiveUp, Leave, session, products, dirs, lists
<1>20. CASE Kill
  BY <1>20 DEF Kill, Leave, session, products, dirs, lists
<1>21. CASE UNCHANGED buildVars
  BY <1>21 DEF buildVars, session, products, dirs, lists
<1>22. QED
  BY <1>1, <1>2, <1>3, <1>4, <1>5, <1>6, <1>7, <1>8, <1>9,
     <1>10, <1>11, <1>12, <1>13, <1>14, <1>15, <1>16, <1>17, <1>18,
     <1>19, <1>20, <1>21
     DEF BuildNext, MakeRuns, Remove, Step

LEMMA InitType == BuildInit => BuildTypeOK
<1>1. MaxVersion \in Nat \ {0} /\ MaxSessions \in Nat /\ MaxFaults \in Nat
  BY BuildAssumption
<1> SUFFICES ASSUME BuildInit PROVE BuildTypeOK
  OBVIOUS
<1> USE DEF BuildInit, Empty, Files, Versions
<1>2. BuildControlTypeOK
  <2>1. stamp \in [Packages -> [Steps -> {"absent", "old", "current"}]]
    OBVIOUS
  <2>2. job \in [Packages -> Steps \cup {"idle"}] /\ worked \in [Packages -> BOOLEAN]
    OBVIOUS
  <2>3. 1 \in Versions /\ src \in [Packages -> Versions]
    BY <1>1
  <2>4. sessions \in 0..MaxSessions /\ faults \in 0..MaxFaults
    BY <1>1
  <2> HIDE DEF Versions
  <2>5. QED
    BY <2>1, <2>2, <2>3, <2>4 DEF BuildControlTypeOK
<1>3. ProductsTypeOK
  BY DEF ProductsTypeOK
<1>4. DirsTypeOK
  BY DEF DirsTypeOK
<1>5. QED
  BY <1>2, <1>3, <1>4 DEF BuildTypeOK

\* Every variable keeps its type, in every run of make.
THEOREM BuildTypeCorrect == BuildSpec => []BuildTypeOK
<1>1. BuildTypeOK /\ [BuildNext]_buildVars => BuildTypeOK'
  BY ControlStep, ProductsStep, DirsStep DEF BuildTypeOK
<1>2. QED
  BY InitType, <1>1, PTL DEF BuildSpec
-----------------------------------------------------------------------------
\* A rule runs only while its stamp is missing or old and everything before it,
\* here and below, is up to date; stamps of steps a package has not are absent.
JobInv == \A p \in Packages :
    /\ job[p] # "idle" =>
          /\ goal \notin {"none", "dirclean"} /\ todo = {}
          /\ job[p] \in StepsOf(p) /\ ~Current(p, job[p])
          /\ \A t \in Prior(p, job[p]) : Current(p, t)
          /\ No[job[p]] >= 3 => \A q \in Below[p] : UpToDate(q)
    /\ worked[p] => job[p] # "idle"
    /\ \A s \in Steps \ StepsOf(p) : stamp[p][s] = "absent"

\* Between the last command of a rule and its touch the product is complete.
WorkTrue(p) == worked[p] =>
    /\ job[p] = "source" => tree[p] \in Versions
    /\ job[p] = "patch" => patches[p] = "all"
    /\ job[p] = "build" => obj[p] \in Versions
    /\ job[p] = "staging" => obj[p] \in Versions /\ host[Loc(p)][p] = obj[p]
    /\ job[p] = "target" => obj[p] \in Versions /\ target[Loc(p)][p] = obj[p]

TruthInv == \A p \in Packages \ torn : StampsTrue(p) /\ WorkTrue(p)

\* Where a dirclean is: until it is done its package counts as torn, and when the
\* per-package directory is gone nothing of the package's copies is left.
DircleanInv ==
    /\ goal # "dirclean" => todo \subseteq Steps
    /\ "tearDirs" \in todo \/ "rmDirs" \in todo => "rmBuild" \in todo
    /\ "tearDirs" \in todo => "rmDirs" \in todo
    /\ goal = "dirclean" /\ perPackage =>
          /\ "rmBuild" \in todo /\ "tearDirs" \notin todo => pkg \in torn
          /\ "rmDirs" \notin todo => host[pkg] = Empty

\* A per-package directory that is not torn has no incomplete staged files of
\* another package, and from the configure step on those of the dependencies.
Clean(p) ==
    /\ \A r \in Staged \ {p} : host[p][r] # Partial
    /\ Current(p, "configure") \/ job[p] = "configure" =>
          \A q \in Deps[p] \cap Staged : host[p][q] \in Versions

CleanInv == perPackage => \A p \in Packages \ torn : Clean(p)

BuildInv ==
    /\ BuildTypeOK /\ JobInv /\ TruthInv /\ Isolation /\ DircleanInv /\ CleanInv

LEMMA InitInv == BuildInit => BuildInv
<1> SUFFICES ASSUME BuildInit PROVE BuildInv
  OBVIOUS
<1>1. BuildTypeOK
  BY InitType
<1>2. JobInv
  BY DEF BuildInit, JobInv, StepsOf, Steps
<1>3. TruthInv
  BY DEF BuildInit, TruthInv, StampsTrue, WorkTrue, Current, Steps
<1>5. Isolation
  BY DEF BuildInit, Isolation, Empty
<1>6. DircleanInv
  BY DEF BuildInit, DircleanInv
<1>7. CleanInv
  BY BuildAssumption DEF BuildInit, CleanInv, Clean, Current, Steps, Empty
<1>8. QED
  BY <1>1, <1>2, <1>3, <1>5, <1>6, <1>7 DEF BuildInv

\* A rule that is begun, has done its work or fails keeps what rules rely on.
LEMMA RuleJob ==
    ASSUME BuildTypeOK, JobInv, NEW p \in Packages, NEW s \in Steps,
           Begin(p, s) \/ End(p, s) \/ (Stop(p) /\ ~worked[p])
    PROVE  JobInv'
<1>b. \A q \in Packages : Below[q] \subseteq Packages /\ q \notin Below[q]
  BY BelowClosure
<1>c. \A q \in Packages : StepsOf(q) \subseteq Steps
  BY DEF StepsOf
<1>d. \A t \in Steps : Prior(p, t) \subseteq StepsOf(p) /\ t \notin Prior(p, t)
  BY DEF Prior, Steps, No
<1>t. job \in [Packages -> Steps \cup {"idle"}] /\ worked \in [Packages -> BOOLEAN]
  BY DEF BuildTypeOK, BuildControlTypeOK
<1> "idle" \notin Steps
  BY DEF Steps
<1>1. CASE Begin(p, s)
  <2>1. Ready(p, s) /\ goal \notin {"none", "dirclean"}
    BY <1>1 DEF Begin, Ready, Wanted
  <2>2. UNCHANGED <<goal, todo, worked, stamp>> /\ job' = [job EXCEPT ![p] = s]
    BY <1>1 DEF Begin, session
  <2>3. QED
    BY <2>1, <2>2, <1>b, <1>c, <1>d, <1>t DEF JobInv, Ready, Current, UpToDate
<1>2. CASE End(p, s)
  BY <1>2, <1>b, <1>c, <1>d, <1>t DEF JobInv, End, Current, UpToDate, session
<1>3. CASE Stop(p) /\ ~worked[p]
  BY <1>3, <1>b, <1>c, <1>d, <1>t DEF JobInv, Stop, Current, UpToDate, session
<1>4. QED
  BY <1>1, <1>2, <1>3

\* Every step keeps what a running rule relies on.
LEMMA JobStep == BuildInv /\ [BuildNext]_buildVars => JobInv'
<1> SUFFICES ASSUME BuildInv, [BuildNext]_buildVars
             PROVE  JobInv'
  OBVIOUS
<1>b. \A p \in Packages : Below[p] \subseteq Packages /\ p \notin Below[p]
  BY BelowClosure
<1>c. \A p \in Packages : StepsOf(p) \subseteq Steps
  BY DEF StepsOf
<1>d. \A p \in Packages, s \in Steps : Prior(p, s) \subseteq StepsOf(p) /\ s \notin Prior(p, s)
  BY DEF Prior, Steps, No
<1> USE DEF BuildInv, BuildTypeOK, BuildControlTypeOK, JobInv, Current, UpToDate
<1>1. ASSUME NEW p \in Packages, Edit(p)
      PROVE  JobInv'
  BY <1>1, <1>b, <1>c, <1>d DEF Edit, session, products, dirs, lists
<1>2. ASSUME NEW g \in Goals, Make(g[1], g[2])
      PROVE  JobInv'
  BY <1>2, <1>b, <1>c, <1>d DEF Make, session, products, dirs, lists
<1>3. ASSUME NEW s \in Steps, RemoveStamp(s)
      PROVE  JobInv'
  BY <1>3, <1>b, <1>c, <1>d DEF RemoveStamp, NextRemoval, session, products, dirs, lists
<1>4. CASE TearDirs
  BY <1>4, <1>b, <1>c, <1>d DEF TearDirs, NextRemoval, session, products, dirs, lists
<1>5. CASE RemoveDirs
  BY <1>5, <1>b, <1>c, <1>d DEF RemoveDirs, NextRemoval, session, products, dirs, lists
<1>6. CASE TearBuild
  BY <1>6, <1>b, <1>c, <1>d DEF TearBuild, NextRemoval, session, products, dirs, lists
<1>7. CASE RemoveBuild
  BY <1>7, <1>b, <1>c, <1>d DEF RemoveBuild, NextRemoval, session, products, dirs, lists
<1>8. ASSUME NEW p \in Packages, Source(p)
      PROVE  JobInv'
  BY <1>8, RuleJob DEF Source, Steps
<1>9. ASSUME NEW p \in Packages, Patch(p)
      PROVE  JobInv'
  <2>1. Begin(p, "patch") \/ End(p, "patch") \/ (Stop(p) /\ ~worked[p])
    BY <1>9 DEF Patch, Ready, JobInv
  <2>2. QED
    BY <2>1, RuleJob DEF Steps
<1>10. ASSUME NEW p \in Packages, Configure(p)
      PROVE  JobInv'
  <2>1. Begin(p, "configure") \/ End(p, "configure") \/ (Stop(p) /\ ~worked[p])
    BY <1>10 DEF Configure, Ready, JobInv
  <2>2. QED
    BY <2>1, RuleJob DEF Steps
<1>11. ASSUME NEW p \in Packages, Build(p)
      PROVE  JobInv'
  BY <1>11, RuleJob DEF Build, Steps
<1>12. ASSUME NEW p \in Packages, InstallStaging(p)
      PROVE  JobInv'
  BY <1>12, RuleJob DEF InstallStaging, Steps
<1>13. ASSUME NEW p \in Packages, InstallTarget(p)
      PROVE  JobInv'
  BY <1>13, RuleJob DEF InstallTarget, Steps
<1>14. ASSUME NEW p \in Packages, Installed(p)
      PROVE  JobInv'
  <2>1. Begin(p, "installed") \/ End(p, "installed") \/ (Stop(p) /\ ~worked[p])
    BY <1>14 DEF Installed
  <2>2. QED
    BY <2>1, RuleJob DEF Steps
<1>15. ASSUME NEW p \in Packages, Touch(p)
      PROVE  JobInv'
  BY <1>15, <1>b, <1>c, <1>d DEF Touch, session, products, dirs, lists
<1>16. ASSUME NEW p \in Packages, Fail(p)
      PROVE  JobInv'
  BY <1>16, <1>b, <1>c, <1>d DEF Fail, Stop, session, products, dirs, lists
<1>17. ASSUME NEW p \in Packages, Finalize(p)
      PROVE  JobInv'
  BY <1>17, <1>b, <1>c, <1>d DEF Finalize, session, products, dirs, lists
<1>18. CASE Succeed
  BY <1>18, <1>b, <1>c, <1>d DEF Succeed, Leave, session, products, dirs, lists
<1>19. CASE GiveUp
  BY <1>19, <1>b, <1>c, <1>d DEF GiveUp, Leave, session, products, dirs, lists
<1>20. CASE Kill
  BY <1>20, <1>b, <1>c, <1>d DEF Kill, Leave, session, products, dirs, lists
<1>21. CASE UNCHANGED buildVars
  BY <1>21 DEF buildVars, session, products, dirs, lists
<1>22. QED
  BY <1>1, <1>2, <1>3, <1>4, <1>5, <1>6, <1>7, <1>8, <1>9,
     <1>10, <1>11, <1>12, <1>13, <1>14, <1>15, <1>16, <1>17, <1>18,
     <1>19, <1>20, <1>21
     DEF BuildNext, MakeRuns, Remove, Step

\* Every step keeps where a dirclean is.
LEMMA DircleanStep == BuildInv /\ [BuildNext]_buildVars => DircleanInv'
<1> SUFFICES ASSUME BuildInv, [BuildNext]_buildVars
             PROVE  DircleanInv'
  OBVIOUS
<1>b. /\ Goals \subseteq {<<"all", NoPackage>>} \cup ((Kinds \ {"all"}) \X Packages)
      /\ NoPackage \notin Packages /\ Global \notin Packages
  BY BuildAssumption
<1>c. \A p \in Packages : job[p] # "idle" => todo = {} /\ goal # "dirclean"
  BY DEF BuildInv, JobInv
<1> USE
  DEF BuildInv, BuildTypeOK, BuildControlTypeOK, DirsTypeOK, DircleanInv, RemovalNo,
  RemovalSteps, Steps, Kinds
<1>1. ASSUME NEW p \in Packages, Edit(p)
      PROVE  DircleanInv'
  BY <1>1, <1>b DEF Edit, session, products, dirs, lists
<1>2. ASSUME NEW g \in Goals, Make(g[1], g[2])
      PROVE  DircleanInv'
  <2>1. g[1] \in Kinds /\ todo' = Removals(g[1], g[2]) /\ goal' = g[1]
        /\ UNCHANGED <<perPackage, host>>
    BY <1>2, <1>b DEF Make, dirs
  <2>2. CASE g[1] = "dirclean"
    BY <2>1, <2>2 DEF Removals
  <2>3. CASE g[1] # "dirclean"
    <3>1. Removals(g[1], g[2]) \subseteq Steps
      BY <2>1, <2>3 DEF Removals, ReinstallRemoves
    <3>2. QED
      BY <2>1, <2>3, <3>1
  <2>4. QED
    BY <2>2, <2>3
<1>3. ASSUME NEW s \in Steps, RemoveStamp(s)
      PROVE  DircleanInv'
  BY <1>3, <1>b DEF RemoveStamp, NextRemoval, session, products, dirs, lists
<1>4. CASE TearDirs
  BY <1>4, <1>b DEF TearDirs, NextRemoval, session, products, dirs, lists
<1>5. CASE RemoveDirs
  BY <1>5, <1>b DEF RemoveDirs, NextRemoval, session, products, dirs, lists
<1>6. CASE TearBuild
  BY <1>6, <1>b DEF TearBuild, NextRemoval, session, products, dirs, lists
<1>7. CASE RemoveBuild
  BY <1>7, <1>b DEF RemoveBuild, NextRemoval, session, products, dirs, lists
<1>8. ASSUME NEW p \in Packages, Source(p)
      PROVE  DircleanInv'
  <2>1. todo = {} /\ goal # "dirclean" /\ UNCHANGED <<todo, goal>>
    BY <1>8, <1>c DEF Source, Begin, Ready, End, Wanted, session, products, dirs, lists
  <2>2. QED
    BY <2>1
<1>9. ASSUME NEW p \in Packages, Patch(p)
      PROVE  DircleanInv'
  <2>1. todo = {} /\ goal # "dirclean" /\ UNCHANGED <<todo, goal>>
    BY <1>9, <1>c
       DEF Patch, Begin, Ready, End, Stop, Wanted, session, products, dirs, lists
  <2>2. QED
    BY <2>1
<1>10. ASSUME NEW p \in Packages, Configure(p)
      PROVE  DircleanInv'
  <2>1. todo = {} /\ goal # "dirclean" /\ UNCHANGED <<todo, goal>>
    BY <1>10, <1>c
       DEF Configure, Begin, Ready, End, Stop, Wanted, session, products, dirs, lists
  <2>2. QED
    BY <2>1
<1>11. ASSUME NEW p \in Packages, Build(p)
      PROVE  DircleanInv'
  <2>1. todo = {} /\ goal # "dirclean" /\ UNCHANGED <<todo, goal>>
    BY <1>11, <1>c DEF Build, Begin, Ready, End, Wanted, session, products, dirs, lists
  <2>2. QED
    BY <2>1
<1>12. ASSUME NEW p \in Packages, InstallStaging(p)
      PROVE  DircleanInv'
  <2>1. todo = {} /\ goal # "dirclean" /\ UNCHANGED <<todo, goal>>
    BY <1>12, <1>c
       DEF InstallStaging, Begin, Ready, End, Wanted, session, products, dirs, lists
  <2>2. QED
    BY <2>1
<1>13. ASSUME NEW p \in Packages, InstallTarget(p)
      PROVE  DircleanInv'
  <2>1. todo = {} /\ goal # "dirclean" /\ UNCHANGED <<todo, goal>>
    BY <1>13, <1>c
       DEF InstallTarget, Begin, Ready, End, Wanted, session, products, dirs, lists
  <2>2. QED
    BY <2>1
<1>14. ASSUME NEW p \in Packages, Installed(p)
      PROVE  DircleanInv'
  <2>1. todo = {} /\ goal # "dirclean" /\ UNCHANGED <<todo, goal>>
    BY <1>14, <1>c
       DEF Installed, Begin, Ready, End, Stop, Wanted, session, products, dirs, lists
  <2>2. QED
    BY <2>1
<1>15. ASSUME NEW p \in Packages, Touch(p)
      PROVE  DircleanInv'
  BY <1>15, <1>b DEF Touch, session, products, dirs, lists
<1>16. ASSUME NEW p \in Packages, Fail(p)
      PROVE  DircleanInv'
  BY <1>16, <1>b DEF Fail, Stop, session, products, dirs, lists
<1>17. ASSUME NEW p \in Packages, Finalize(p)
      PROVE  DircleanInv'
  BY <1>17, <1>b DEF Finalize, session, products, dirs, lists
<1>18. CASE Succeed
  BY <1>18, <1>b DEF Succeed, Leave, session, products, dirs, lists
<1>19. CASE GiveUp
  BY <1>19, <1>b DEF GiveUp, Leave, session, products, dirs, lists
<1>20. CASE Kill
  BY <1>20, <1>b DEF Kill, Leave, session, products, dirs, lists
<1>21. CASE UNCHANGED buildVars
  BY <1>21 DEF buildVars, session, products, dirs, lists
<1>22. QED
  BY <1>1, <1>2, <1>3, <1>4, <1>5, <1>6, <1>7, <1>8, <1>9,
     <1>10, <1>11, <1>12, <1>13, <1>14, <1>15, <1>16, <1>17, <1>18,
     <1>19, <1>20, <1>21
     DEF BuildNext, MakeRuns, Remove, Step

\* What an installation changes in a table of directories.
LEMMA EntryValue ==
    ASSUME NEW A, NEW B, NEW C, NEW t \in [A -> [B -> C]], NEW a \in A, NEW b \in B, NEW c
    PROVE  \A x \in A, y \in B :
              [t EXCEPT ![a][b] = c][x][y] = IF x = a /\ y = b THEN c ELSE t[x][y]
OBVIOUS

\* p's install step s makes the directories new of old: its files are Partial
\* when it begins and what was compiled when it ends.
Installs(p, s, old, new) ==
    \E w \in {obj[p], Partial} :
        /\ \/ w = Partial /\ Begin(p, s)
           \/ w = obj[p] /\ End(p, s)
        /\ \A x, r \in Packages :
              new[x][r] = IF x = Loc(p) /\ r = p THEN w ELSE old[x][r]
        /\ \A x, r \in Packages :
              new[Loc(x)][r] = IF Loc(x) = Loc(p) /\ r = p THEN w ELSE old[Loc(x)][r]

LEMMA StagingEffect ==
    ASSUME BuildTypeOK, NEW p \in Packages, InstallStaging(p)
    PROVE  /\ UNCHANGED <<perPackage, src, session, products, target, ppdirs, lists, torn>>
           /\ Installs(p, "staging", host, host')
<1>1. host \in [Packages \cup {Global} -> [Packages -> Files]]
  BY DEF BuildTypeOK, DirsTypeOK
<1>2. \A x \in Packages : Loc(x) \in Packages \cup {Global}
  BY DEF Loc
<1>3. UNCHANGED <<perPackage, src, session, products, target, ppdirs, lists, torn>>
  BY DEF InstallStaging, Begin, End
<1>4. PICK w \in {obj[p], Partial} :
         /\ \/ w = Partial /\ Begin(p, "staging")
            \/ w = obj[p] /\ End(p, "staging")
         /\ host' = [host EXCEPT ![Loc(p)][p] = w]
  BY DEF InstallStaging
<1>5. \A x \in Packages \cup {Global}, r \in Packages :
         host'[x][r] = IF x = Loc(p) /\ r = p THEN w ELSE host[x][r]
  BY <1>1, <1>2, <1>4, EntryValue
<1>6. \A x, r \in Packages :
         host'[x][r] = IF x = Loc(p) /\ r = p THEN w ELSE host[x][r]
  BY <1>5
<1>7. \A x, r \in Packages :
         host'[Loc(x)][r] = IF Loc(x) = Loc(p) /\ r = p THEN w ELSE host[Loc(x)][r]
  BY <1>2, <1>5
<1>8. QED
  BY <1>3, <1>4, <1>6, <1>7 DEF Installs

LEMMA TargetEffect ==
    ASSUME BuildTypeOK, NEW p \in Packages, InstallTarget(p)
    PROVE  /\ UNCHANGED <<perPackage, src, session, products, host, ppdirs, lists, torn>>
           /\ Installs(p, "target", target, target')
<1>1. target \in [Packages \cup {Global} -> [Packages -> Files]]
  BY DEF BuildTypeOK, DirsTypeOK
<1>2. \A x \in Packages : Loc(x) \in Packages \cup {Global}
  BY DEF Loc
<1>3. UNCHANGED <<perPackage, src, session, products, host, ppdirs, lists, torn>>
  BY DEF InstallTarget, Begin, End
<1>4. PICK w \in {obj[p], Partial} :
         /\ \/ w = Partial /\ Begin(p, "target")
            \/ w = obj[p] /\ End(p, "target")
         /\ target' = [target EXCEPT ![Loc(p)][p] = w]
  BY DEF InstallTarget
<1>5. \A x \in Packages \cup {Global}, r \in Packages :
         target'[x][r] = IF x = Loc(p) /\ r = p THEN w ELSE target[x][r]
  BY <1>1, <1>2, <1>4, EntryValue
<1>6. \A x, r \in Packages :
         target'[x][r] = IF x = Loc(p) /\ r = p THEN w ELSE target[x][r]
  BY <1>5
<1>7. \A x, r \in Packages :
         target'[Loc(x)][r] = IF Loc(x) = Loc(p) /\ r = p THEN w ELSE target[Loc(x)][r]
  BY <1>2, <1>5
<1>8. QED
  BY <1>3, <1>4, <1>6, <1>7 DEF Installs

\* Every step keeps the per-package directories isolated.
LEMMA IsolationStep == BuildInv /\ [BuildNext]_buildVars => Isolation'
<1> SUFFICES ASSUME BuildInv, [BuildNext]_buildVars
             PROVE  Isolation'
  OBVIOUS
<1>t. BuildTypeOK
  BY DEF BuildInv
<1>h. /\ host \in [Packages \cup {Global} -> [Packages -> Files]]
      /\ target \in [Packages \cup {Global} -> [Packages -> Files]]
  BY <1>t DEF BuildTypeOK, DirsTypeOK
<1>g. Global \notin Packages /\ Partial \notin Nat
  BY BuildAssumption
<1>p. todo # {} => pkg \in Packages
  BY <1>t DEF BuildTypeOK, BuildControlTypeOK
<1>i. Isolation
  BY DEF BuildInv
<1> USE DEF Isolation, Empty, Torn
<1>1. ASSUME NEW p \in Packages, Edit(p)
      PROVE  Isolation'
  BY <1>1, <1>h, <1>g, <1>p, <1>i DEF Edit, session, products, dirs, lists
<1>2. ASSUME NEW g \in Goals, Make(g[1], g[2])
      PROVE  Isolation'
  BY <1>2, <1>h, <1>g, <1>p, <1>i DEF Make, session, products, dirs, lists
<1>3. ASSUME NEW s \in Steps, RemoveStamp(s)
      PROVE  Isolation'
  BY <1>3, <1>h, <1>g, <1>p, <1>i
     DEF RemoveStamp, NextRemoval, session, products, dirs, lists
<1>4. CASE TearDirs
  BY <1>4, <1>h, <1>g, <1>p, <1>i
     DEF TearDirs, NextRemoval, session, products, dirs, lists
<1>5. CASE RemoveDirs
  BY <1>5, <1>h, <1>g, <1>p, <1>i
     DEF RemoveDirs, NextRemoval, session, products, dirs, lists
<1>6. CASE TearBuild
  BY <1>6, <1>h, <1>g, <1>p, <1>i
     DEF TearBuild, NextRemoval, session, products, dirs, lists
<1>7. CASE RemoveBuild
  BY <1>7, <1>h, <1>g, <1>p, <1>i
     DEF RemoveBuild, NextRemoval, session, products, dirs, lists
<1>8. ASSUME NEW p \in Packages, Source(p)
      PROVE  Isolation'
  BY <1>8, <1>h, <1>g, <1>p, <1>i
     DEF Source, Begin, Ready, End, session, products, dirs, lists
<1>9. ASSUME NEW p \in Packages, Patch(p)
      PROVE  Isolation'
  BY <1>9, <1>h, <1>g, <1>p, <1>i
     DEF Patch, Begin, Ready, End, Stop, session, products, dirs, lists
<1>10. ASSUME NEW p \in Packages, Configure(p)
      PROVE  Isolation'
  <2>1. Deps[p] \subseteq Below[p] /\ Below[p] \subseteq Packages
    BY BelowClosure
  <2>2. CASE UNCHANGED <<host, target>>
    BY <1>10, <1>i, <2>2 DEF Configure, Begin, Ready, End, Stop, session, dirs
  <2>3. CASE /\ perPackage
             /\ host' = [host EXCEPT ![p] = Prepared(host, p)]
             /\ target' = [target EXCEPT ![p] = Prepared(target, p)]
    <3>1. ASSUME NEW r \in Packages, Prepared(host, p)[r] # 0
          PROVE  r \in Below[p] \cup {p}
      <4>1. host[p][r] # 0 \/ \E d \in Deps[p] : host[d][r] # 0
        BY <3>1, PreparedFrom
      <4>2. QED
        BY <4>1, <1>i, <2>1, <2>3, BelowClosure
    <3>2. ASSUME NEW r \in Packages, Prepared(target, p)[r] # 0
          PROVE  r \in Below[p] \cup {p}
      <4>1. target[p][r] # 0 \/ \E d \in Deps[p] : target[d][r] # 0
        BY <3>2, PreparedFrom
      <4>2. QED
        BY <4>1, <1>i, <2>1, <2>3, BelowClosure
    <3>3. ASSUME NEW x \in Packages, NEW r \in Packages,
                 host'[x][r] # 0 \/ target'[x][r] # 0
          PROVE  r \in Below[x] \cup {x}
      BY <1>h, <1>i, <2>3, <3>1, <3>2, <3>3
    <3>4. QED
      BY <1>10, <2>3, <3>3 DEF Configure, Begin
  <2>4. QED
    BY <1>10, <2>2, <2>3 DEF Configure, Begin, Ready, End, Stop, session, dirs
<1>11. ASSUME NEW p \in Packages, Build(p)
      PROVE  Isolation'
  BY <1>11, <1>h, <1>g, <1>p, <1>i
     DEF Build, Begin, Ready, End, session, products, dirs, lists
<1>12. ASSUME NEW p \in Packages, InstallStaging(p)
      PROVE  Isolation'
  <2>1. UNCHANGED <<perPackage, target>>
    BY <1>12, <1>t, StagingEffect
  <2>2. ASSUME NEW x \in Packages, NEW r \in Packages, host'[x][r] # 0, ~(x = p /\ r = p),
               perPackage
        PROVE  host[x][r] # 0
    <3>1. Installs(p, "staging", host, host')
      BY <1>12, <1>t, StagingEffect
    <3>2. QED
      BY <2>2, <3>1 DEF Installs, Loc
  <2>3. p \in Below[p] \cup {p}
    OBVIOUS
  <2>4. QED
    BY <1>i, <2>1, <2>2, <2>3
<1>13. ASSUME NEW p \in Packages, InstallTarget(p)
      PROVE  Isolation'
  <2>1. UNCHANGED <<perPackage, host>>
    BY <1>13, <1>t, TargetEffect
  <2>2. ASSUME NEW x \in Packages, NEW r \in Packages, target'[x][r] # 0, ~(x = p /\ r = p),
               perPackage
        PROVE  target[x][r] # 0
    <3>1. Installs(p, "target", target, target')
      BY <1>13, <1>t, TargetEffect
    <3>2. QED
      BY <2>2, <3>1 DEF Installs, Loc
  <2>3. p \in Below[p] \cup {p}
    OBVIOUS
  <2>4. QED
    BY <1>i, <2>1, <2>2, <2>3
<1>14. ASSUME NEW p \in Packages, Installed(p)
      PROVE  Isolation'
  BY <1>14, <1>h, <1>g, <1>p, <1>i
     DEF Installed, Begin, Ready, End, Stop, session, products, dirs, lists
<1>15. ASSUME NEW p \in Packages, Touch(p)
      PROVE  Isolation'
  BY <1>15, <1>h, <1>g, <1>p, <1>i DEF Touch, session, products, dirs, lists
<1>16. ASSUME NEW p \in Packages, Fail(p)
      PROVE  Isolation'
  BY <1>16, <1>h, <1>g, <1>p, <1>i DEF Fail, Stop, session, products, dirs, lists
<1>17. ASSUME NEW p \in Packages, Finalize(p)
      PROVE  Isolation'
  <2>1. \A x \in Packages : target'[x] = target[x]
    BY <1>17, <1>h, <1>g DEF Finalize
  <2>2. UNCHANGED <<perPackage, host>>
    BY <1>17 DEF Finalize
  <2>3. QED
    BY <1>i, <2>1, <2>2
<1>18. CASE Succeed
  BY <1>18, <1>h, <1>g, <1>p, <1>i DEF Succeed, Leave, session, products, dirs, lists
<1>19. CASE GiveUp
  BY <1>19, <1>h, <1>g, <1>p, <1>i DEF GiveUp, Leave, session, products, dirs, lists
<1>20. CASE Kill
  BY <1>20, <1>h, <1>g, <1>p, <1>i DEF Kill, Leave, session, products, dirs, lists
<1>21. CASE UNCHANGED buildVars
  BY <1>21, <1>h, <1>g, <1>p, <1>i DEF buildVars, session, products, dirs, lists
<1>22. QED
  BY <1>1, <1>2, <1>3, <1>4, <1>5, <1>6, <1>7, <1>8, <1>9,
     <1>10, <1>11, <1>12, <1>13, <1>14, <1>15, <1>16, <1>17, <1>18,
     <1>19, <1>20, <1>21
     DEF BuildNext, MakeRuns, Remove, Step

\* Preparing the directories of a package leaves its own files alone: those of its
\* dependencies have none of them.
LEMMA OwnFiles ==
    ASSUME Isolation, perPackage, NEW p \in Packages
    PROVE  Prepared(host, p)[p] = host[p][p] /\ Prepared(target, p)[p] = target[p][p]
<1>1. ASSUME NEW q \in Deps[p]
      PROVE  host[q][p] = 0 /\ target[q][p] = 0
  <2>1. q \in Below[p] /\ q \in Packages /\ Below[q] \subseteq Below[p] /\ p \notin Below[p]
    BY BelowClosure
  <2>2. QED
    BY <2>1 DEF Isolation
<1>2. QED
  BY <1>1, PreparedFrom

\* A step that changes nothing p's stamps and running rule stand for.
Kept(p) ==
    /\ UNCHANGED perPackage
    /\ \A s \in Steps : stamp'[p][s] = "current" => stamp[p][s] = "current"
    /\ worked'[p] => worked[p] /\ job'[p] = job[p]
    /\ tree'[p] = tree[p] /\ patches'[p] = patches[p] /\ obj'[p] = obj[p]
    /\ host'[Loc(p)][p] = host[Loc(p)][p] /\ target'[Loc(p)][p] = target[Loc(p)][p]

LEMMA KeptTrue ==
    ASSUME NEW p \in Packages, Kept(p), StampsTrue(p), WorkTrue(p)
    PROVE  StampsTrue(p)' /\ WorkTrue(p)'
<1>1. Loc(p)' = Loc(p)
  BY DEF Kept, Loc
<1>2. StampsTrue(p)'
  BY <1>1 DEF Kept, StampsTrue, Current, Steps
<1>3. WorkTrue(p)'
  BY <1>1 DEF Kept, WorkTrue
<1>4. QED
  BY <1>2, <1>3

\* Every step keeps what the stamps and the running rules stand for.
LEMMA TruthStep == BuildInv /\ [BuildNext]_buildVars => TruthInv'
<1> SUFFICES ASSUME BuildInv, [BuildNext]_buildVars
             PROVE  TruthInv'
  OBVIOUS
<1>t. BuildTypeOK
  BY DEF BuildInv
<1>h. /\ host \in [Packages \cup {Global} -> [Packages -> Files]]
      /\ target \in [Packages \cup {Global} -> [Packages -> Files]]
  BY <1>t DEF BuildTypeOK, DirsTypeOK
<1>g. Global \notin Packages /\ Partial \notin Nat
  BY BuildAssumption
<1>p. todo # {} => pkg \in Packages
  BY <1>t DEF BuildTypeOK, BuildControlTypeOK
<1>j. JobInv
  BY DEF BuildInv
<1>i. Isolation
  BY DEF BuildInv
<1>s. TruthInv
  BY DEF BuildInv
<1>k. ASSUME \A q \in Packages \ torn' : q \notin torn /\ Kept(q)
      PROVE  TruthInv'
  BY <1>k, <1>s, KeptTrue DEF TruthInv
<1>b. /\ stamp \in [Packages -> [Steps -> {"absent", "old", "current"}]]
      /\ job \in [Packages -> Steps \cup {"idle"}] /\ worked \in [Packages -> BOOLEAN]
      /\ tree \in [Packages -> Files] /\ obj \in [Packages -> Files]
      /\ patches \in [Packages -> {"none", "some", "all"}]
      /\ src \in [Packages -> Versions]
  BY <1>t DEF BuildTypeOK, BuildControlTypeOK, ProductsTypeOK
<1>q. todo # {} => \A q \in Packages : job[q] = "idle" /\ ~worked[q]
  BY <1>j DEF JobInv
<1>m. ASSUME NEW p \in Packages,
             \A q \in Packages \ torn' : q # p => q \notin torn /\ Kept(q),
             p \notin torn' => StampsTrue(p)' /\ WorkTrue(p)'
      PROVE  TruthInv'
  BY <1>m, <1>s, KeptTrue DEF TruthInv
<1>x. ASSUME NEW p \in Packages, NEW s \in Steps, Begin(p, s)
      PROVE  /\ stamp[p][s] # "current" /\ job'[p] = s /\ ~worked'[p]
             /\ UNCHANGED <<stamp, perPackage>>
  BY <1>x, <1>b, <1>j DEF Begin, Ready, Current, JobInv
<1>y. ASSUME NEW p \in Packages, NEW s \in Steps, End(p, s)
      PROVE  /\ stamp[p][s] # "current" /\ job'[p] = s
             /\ UNCHANGED <<stamp, perPackage>>
             /\ \A t \in StepsOf(p) : No[t] < No[s] => stamp[p][t] = "current"
  BY <1>y, <1>b, <1>j DEF End, JobInv, Current, Prior, Steps
<1>1. ASSUME NEW p \in Packages, Edit(p)
      PROVE  TruthInv'
  <2>1. \A q \in Packages \ torn' : q \notin torn /\ Kept(q)
    BY <1>1, <1>b, <1>g, <1>h DEF Edit, Loc, Kept, session, products, dirs, lists
  <2>2. QED
    BY <2>1, <1>k
<1>2. ASSUME NEW g \in Goals, Make(g[1], g[2])
      PROVE  TruthInv'
  <2>1. \A q \in Packages \ torn' : q \notin torn /\ Kept(q)
    BY <1>2, <1>b, <1>g, <1>h DEF Make, Loc, Kept, session, products, dirs, lists
  <2>2. QED
    BY <2>1, <1>k
<1>3. ASSUME NEW s \in Steps, RemoveStamp(s)
      PROVE  TruthInv'
  <2>1. \A q \in Packages \ torn' : q \notin torn /\ Kept(q)
    BY <1>3, <1>b, <1>g, <1>h, <1>p
       DEF RemoveStamp, NextRemoval, Loc, Torn, Kept, session, products, dirs, lists
  <2>2. QED
    BY <2>1, <1>k
<1>4. CASE TearDirs
  <2>1. \A q \in Packages \ torn' : q \notin torn /\ Kept(q)
    BY <1>4, <1>b, <1>g, <1>h, <1>p
       DEF TearDirs, NextRemoval, Loc, Torn, Kept, session, products, dirs, lists
  <2>2. QED
    BY <2>1, <1>k
<1>5. CASE RemoveDirs
  <2>0. perPackage => pkg \in torn
    BY <1>5, <1>p DEF RemoveDirs, NextRemoval, BuildInv, DircleanInv, RemovalNo, Steps
  <2>1. \A q \in Packages \ torn' : q \notin torn /\ Kept(q)
    BY <1>5, <1>b, <1>g, <1>h, <1>p, <2>0
       DEF RemoveDirs, NextRemoval, Loc, Kept, session, products, dirs, lists
  <2>2. QED
    BY <2>1, <1>k
<1>6. CASE TearBuild
  <2>1. \A q \in Packages \ torn' : q \notin torn /\ Kept(q)
    BY <1>6, <1>b, <1>g, <1>h, <1>p
       DEF TearBuild, NextRemoval, Loc, Torn, Kept, session, products, dirs, lists
  <2>2. QED
    BY <2>1, <1>k
<1>7. CASE RemoveBuild
  <2>0. PICK p \in Packages : p = pkg
    BY <1>7, <1>p DEF RemoveBuild, NextRemoval
  <2>1. \A q \in Packages \ torn' : q # p => q \notin torn /\ Kept(q)
    BY <1>7, <1>b, <1>g, <1>h, <2>0
       DEF RemoveBuild, NextRemoval, Loc, Kept, session, products, dirs, lists
  <2>2. StampsTrue(p)' /\ WorkTrue(p)'
    BY <1>7, <1>b, <1>q, <2>0
       DEF RemoveBuild, NextRemoval, StampsTrue, WorkTrue, Current, Steps
  <2>3. QED
    BY <2>1, <2>2, <1>m
<1>8. ASSUME NEW p \in Packages, Source(p)
      PROVE  TruthInv'
  <2>1. UNCHANGED <<perPackage, patches, obj, host, target, torn>>
    BY <1>8 DEF Source, Begin, End, dirs, products
  <2>2. \A q \in Packages \ torn' : q # p => q \notin torn /\ Kept(q)
    BY <1>8, <1>b, <2>1 DEF Source, Begin, End, Loc, Kept, session
  <2>3. CASE Begin(p, "source")
    BY <1>x, <1>m, <1>s, <2>1, <2>2, <2>3
       DEF StampsTrue, WorkTrue, TruthInv, Current, Loc, Steps
  <2>4. CASE End(p, "source") /\ tree' = [tree EXCEPT ![p] = src[p]]
    <3>1. p \notin torn => tree'[p] \in Versions
      BY <1>b, <2>4
    <3>2. p \notin torn => StampsTrue(p)' /\ WorkTrue(p)'
      BY <1>y, <1>s, <2>1, <2>4, <3>1
         DEF StampsTrue, WorkTrue, TruthInv, Current, Loc, Steps
    <3>3. QED
      BY <1>m, <2>1, <2>2, <3>2
  <2>5. QED
    BY <1>8, <2>3, <2>4 DEF Source
<1>9. ASSUME NEW p \in Packages, Patch(p)
      PROVE  TruthInv'
  <2>1. UNCHANGED <<perPackage, tree, obj, host, target, torn>>
    BY <1>9 DEF Patch, Begin, End, Stop, dirs, products
  <2>2. \A q \in Packages \ torn' : q # p => q \notin torn /\ Kept(q)
    BY <1>9, <1>b, <2>1 DEF Patch, Begin, End, Ready, Stop, Loc, Kept, session
  <2>3. CASE Begin(p, "patch")
    BY <1>x, <1>m, <1>s, <2>1, <2>2, <2>3
       DEF StampsTrue, WorkTrue, TruthInv, Current, Loc, Steps
  <2>4. CASE End(p, "patch") /\ patches' = [patches EXCEPT ![p] = "all"]
    <3>1. p \notin torn => patches'[p] = "all"
      BY <1>b, <2>4
    <3>2. p \notin torn => StampsTrue(p)' /\ WorkTrue(p)'
      BY <1>y, <1>s, <2>1, <2>4, <3>1
         DEF StampsTrue, WorkTrue, TruthInv, Current, Loc, Steps
    <3>3. QED
      BY <1>m, <2>1, <2>2, <3>2
  <2>5. CASE Stop(p) /\ job[p] = "idle" /\ UNCHANGED patches
    <3>1. Kept(p)
      BY <1>b, <1>j, <2>1, <2>5 DEF Stop, JobInv, Kept
    <3>2. QED
      BY <1>k, <2>1, <2>2, <3>1
  <2>6. QED
    BY <1>9, <2>3, <2>4, <2>5 DEF Patch, Ready
<1>10. ASSUME NEW p \in Packages, Configure(p)
      PROVE  TruthInv'
  <2>1. UNCHANGED <<perPackage, stamp, tree, patches, obj>> /\ torn \subseteq torn'
    BY <1>10 DEF Configure, Begin, End, Stop, products
  <2>2. \A q \in Packages : /\ host'[Loc(q)][q] = host[Loc(q)][q]
                            /\ target'[Loc(q)][q] = target[Loc(q)][q]
    <3>1. CASE UNCHANGED dirs
      BY <3>1 DEF dirs
    <3>2. CASE /\ perPackage
               /\ host' = [host EXCEPT ![p] = Prepared(host, p)]
               /\ target' = [target EXCEPT ![p] = Prepared(target, p)]
      BY <1>h, <1>i, <3>2, OwnFiles DEF Loc
    <3>3. QED
      BY <1>10, <3>1, <3>2 DEF Configure
  <2>3. \A q \in Packages \ {p} : worked'[q] = worked[q] /\ job'[q] = job[q]
    BY <1>10, <1>b DEF Configure, Begin, End, Stop
  <2>4. p \notin torn => StampsTrue(p)' /\ WorkTrue(p)'
    <3>1. worked'[p] => job'[p] = "configure"
      BY <1>10, <1>b, <1>j, <1>x DEF Configure, Begin, End, Stop, Ready, JobInv, Steps
    <3>2. QED
      BY <1>s, <2>1, <2>2, <3>1 DEF StampsTrue, WorkTrue, TruthInv, Current, Loc
  <2>5. QED
    BY <1>m, <2>1, <2>2, <2>3, <2>4 DEF Kept
<1>11. ASSUME NEW p \in Packages, Build(p)
      PROVE  TruthInv'
  <2>1. UNCHANGED <<perPackage, tree, patches, host, target, torn>>
    BY <1>11 DEF Build, Begin, End, dirs, products
  <2>2. \A q \in Packages \ torn' : q # p => q \notin torn /\ Kept(q)
    BY <1>11, <1>b, <2>1 DEF Build, Begin, End, Loc, Kept, session
  <2>3. CASE Begin(p, "build")
    BY <1>x, <1>m, <1>s, <2>1, <2>2, <2>3
       DEF StampsTrue, WorkTrue, TruthInv, Current, Loc, Steps
  <2>4. CASE End(p, "build") /\ obj' = [obj EXCEPT ![p] = tree[p]]
    <3>1. p \notin torn => obj'[p] \in Versions
      BY <1>b, <2>4, <1>y, <1>s DEF StampsTrue, TruthInv, Current, StepsOf, Steps, No
    <3>2. p \notin torn => StampsTrue(p)' /\ WorkTrue(p)'
      BY <1>y, <1>s, <2>1, <2>4, <3>1
         DEF StampsTrue, WorkTrue, TruthInv, Current, Loc, Steps
    <3>3. QED
      BY <1>m, <2>1, <2>2, <3>2
  <2>5. QED
    BY <1>11, <2>3, <2>4 DEF Build
<1>12. ASSUME NEW p \in Packages, InstallStaging(p)
      PROVE  TruthInv'
  <2>1. Installs(p, "staging", host, host') /\ UNCHANGED <<perPackage, tree, patches, obj, target, torn>>
    BY <1>12, <1>t, StagingEffect DEF products
  <2>2. \A q \in Packages \ torn' : q # p => q \notin torn /\ Kept(q)
    BY <1>b, <2>1 DEF Installs, Begin, End, Kept
  <2>3. CASE Begin(p, "staging")
    BY <1>x, <1>m, <1>s, <2>1, <2>2, <2>3
       DEF Installs, StampsTrue, WorkTrue, TruthInv, Current, Loc, Steps
  <2>4. CASE End(p, "staging")
    <3>1. host'[Loc(p)][p] = obj[p]
      BY <1>x, <1>y, <2>1, <2>4 DEF Installs, Begin, Ready, End, Steps
    <3>2. p \notin torn => obj[p] \in Versions
      BY <1>y, <1>s, <2>4 DEF StampsTrue, TruthInv, Current, StepsOf, Steps, No
    <3>3. p \notin torn => StampsTrue(p)' /\ WorkTrue(p)'
      BY <1>y, <1>s, <2>1, <2>4, <3>1, <3>2
         DEF StampsTrue, WorkTrue, TruthInv, Current, Loc, Steps
    <3>4. QED
      BY <1>m, <2>1, <2>2, <3>3
  <2>5. QED
    BY <2>1, <2>3, <2>4 DEF Installs
<1>13. ASSUME NEW p \in Packages, InstallTarget(p)
      PROVE  TruthInv'
  <2>1. Installs(p, "target", target, target') /\ UNCHANGED <<perPackage, tree, patches, obj, host, torn>>
    BY <1>13, <1>t, TargetEffect DEF products
  <2>2. \A q \in Packages \ torn' : q # p => q \notin torn /\ Kept(q)
    BY <1>b, <2>1 DEF Installs, Begin, End, Kept
  <2>3. CASE Begin(p, "target")
    BY <1>x, <1>m, <1>s, <2>1, <2>2, <2>3
       DEF Installs, StampsTrue, WorkTrue, TruthInv, Current, Loc, Steps
  <2>4. CASE End(p, "target")
    <3>1. target'[Loc(p)][p] = obj[p]
      BY <1>x, <1>y, <2>1, <2>4 DEF Installs, Begin, Ready, End, Steps
    <3>2. p \notin torn => obj[p] \in Versions
      BY <1>y, <1>s, <2>4 DEF StampsTrue, TruthInv, Current, StepsOf, Steps, No
    <3>3. p \notin torn => StampsTrue(p)' /\ WorkTrue(p)'
      BY <1>y, <1>s, <2>1, <2>4, <3>1, <3>2
         DEF StampsTrue, WorkTrue, TruthInv, Current, Loc, Steps
    <3>4. QED
      BY <1>m, <2>1, <2>2, <3>3
  <2>5. QED
    BY <2>1, <2>3, <2>4 DEF Installs
<1>14. ASSUME NEW p \in Packages, Installed(p)
      PROVE  TruthInv'
  <2>1. UNCHANGED <<perPackage, stamp, tree, patches, obj, host, target, torn>>
    BY <1>14 DEF Installed, Begin, End, Stop, products, dirs
  <2>2. \A q \in Packages \ {p} : worked'[q] = worked[q] /\ job'[q] = job[q]
    BY <1>14, <1>b DEF Installed, Begin, End, Stop
  <2>3. p \notin torn => StampsTrue(p)' /\ WorkTrue(p)'
    BY <1>14, <1>b, <1>s, <1>j, <2>1
       DEF Installed, Begin, End, Stop, StampsTrue, WorkTrue, TruthInv, Current, Loc,
       JobInv, Ready
  <2>4. QED
    BY <1>m, <2>1, <2>2, <2>3 DEF Kept
<1>15. ASSUME NEW p \in Packages, Touch(p)
      PROVE  TruthInv'
  <2>1. \A q \in Packages \ torn' : q \notin torn /\ (q # p => Kept(q))
    BY <1>15, <1>b, <1>g, <1>h
       DEF Touch, Prerequisites, Loc, Kept, session, products, dirs, lists
  <2>8. p \notin torn' => StampsTrue(p)' /\ WorkTrue(p)'
    BY <1>15, <1>b, <1>g, <1>h, <1>s, <1>j, <2>1
       DEF Touch, Prerequisites, Loc, Kept, session, products, dirs, lists, TruthInv,
       StampsTrue, WorkTrue, Current, Steps, JobInv
  <2>9. QED
    BY <2>1, <2>8, <1>m
<1>16. ASSUME NEW p \in Packages, Fail(p)
      PROVE  TruthInv'
  <2>1. \A q \in Packages \ torn' : q \notin torn /\ Kept(q)
    BY <1>16, <1>b, <1>g, <1>h DEF Fail, Stop, Loc, Kept, session, products, dirs, lists
  <2>2. QED
    BY <2>1, <1>k
<1>17. ASSUME NEW p \in Packages, Finalize(p)
      PROVE  TruthInv'
  <2>1. \A q \in Packages \ torn' : q \notin torn /\ Kept(q)
    BY <1>17, <1>b, <1>g, <1>h DEF Finalize, Loc, Kept, session, products, dirs, lists
  <2>2. QED
    BY <2>1, <1>k
<1>18. CASE Succeed
  <2>1. \A q \in Packages \ torn' : q \notin torn /\ Kept(q)
    BY <1>18, <1>b, <1>g, <1>h
       DEF Succeed, Leave, Loc, Kept, session, products, dirs, lists
  <2>2. QED
    BY <2>1, <1>k
<1>19. CASE GiveUp
  <2>1. \A q \in Packages \ torn' : q \notin torn /\ Kept(q)
    BY <1>19, <1>b, <1>g, <1>h
       DEF GiveUp, Leave, Loc, Kept, session, products, dirs, lists
  <2>2. QED
    BY <2>1, <1>k
<1>20. CASE Kill
  <2>1. \A q \in Packages \ torn' : q \notin torn /\ Kept(q)
    BY <1>20, <1>b, <1>g, <1>h
       DEF Kill, Leave, Loc, Kept, session, products, dirs, lists
  <2>2. QED
    BY <2>1, <1>k
<1>21. CASE UNCHANGED buildVars
  <2>1. \A q \in Packages \ torn' : q \notin torn /\ Kept(q)
    BY <1>21, <1>b, <1>g, <1>h DEF buildVars, Kept, session, products, dirs, lists
  <2>2. QED
    BY <2>1, <1>k
<1>22. QED
  BY <1>1, <1>2, <1>3, <1>4, <1>5, <1>6, <1>7, <1>8, <1>9,
     <1>10, <1>11, <1>12, <1>13, <1>14, <1>15, <1>16, <1>17, <1>18,
     <1>19, <1>20, <1>21
     DEF BuildNext, MakeRuns, Remove, Step

\* A step that leaves p's per-package directory, but for p's own files, and its
\* configure step as they were.
CleanKept(p) ==
    /\ \A r \in Packages \ {p} : host'[p][r] = host[p][r]
    /\ stamp'[p]["configure"] = "current" =>
          stamp[p]["configure"] = "current" \/ job[p] = "configure"
    /\ job'[p] = "configure" => job[p] = "configure"

LEMMA CleanKeptTrue ==
    ASSUME NEW p \in Packages, CleanKept(p), Clean(p)
    PROVE  Clean(p)'
<1>1. p \notin Deps[p] /\ Deps[p] \subseteq Packages /\ Staged \subseteq Packages
  BY BelowClosure, BuildAssumption
<1>2. QED
  BY <1>1 DEF CleanKept, Clean, Current

\* What configure finds in its per-package directory when make runs it.
LEMMA PreparedClean ==
    ASSUME BuildInv, perPackage, NEW p \in Packages, Deps[p] \cap torn = {}, p \notin torn,
           Ready(p, "configure")
    PROVE  /\ \A r \in Staged \ {p} : Prepared(host, p)[r] # Partial
           /\ \A q \in Deps[p] \cap Staged : Prepared(host, p)[q] \in Versions
<1>1. /\ Deps[p] \subseteq Packages /\ Staged \subseteq Packages /\ Partial \notin Nat
      /\ Deps[p] \subseteq Below[p] /\ p \notin Deps[p] /\ MaxVersion \in Nat
  BY BelowClosure, BuildAssumption
<1>2. host \in [Packages \cup {Global} -> [Packages -> Files]]
  BY DEF BuildInv, BuildTypeOK, DirsTypeOK
<1>3. Partial \notin Versions /\ 0 \notin Versions /\ Partial # 0
  BY <1>1 DEF Versions
<1>4. ASSUME NEW q \in Deps[p] \cap Staged
      PROVE  host[q][q] \in Versions
  <2>1. UpToDate(q) /\ "staging" \in StepsOf(q)
    BY <1>1 DEF Ready, No, StepsOf, Steps
  <2>2. StampsTrue(q)
    BY <1>1 DEF BuildInv, TruthInv
  <2>3. QED
    BY <2>1, <2>2 DEF UpToDate, StampsTrue, Loc
<1>5. ASSUME NEW d \in Deps[p], NEW r \in Staged
      PROVE  host[d][r] # Partial
  <2>1. Clean(d)
    BY <1>1 DEF BuildInv, CleanInv
  <2>2. QED
    BY <1>3, <1>4, <2>1 DEF Clean
<1>6. ASSUME NEW r \in Staged \ {p}
      PROVE  Prepared(host, p)[r] # Partial
  <2>1. host[p][r] # Partial
    BY DEF BuildInv, CleanInv, Clean
  <2>2. QED
    BY <1>1, <1>5, <2>1, PreparedFrom
<1>7. ASSUME NEW q \in Deps[p] \cap Staged
      PROVE  Prepared(host, p)[q] \in Versions
  <2>1. PICK d \in Deps[p] : host[d][q] # 0 /\ Prepared(host, p)[q] = host[d][q]
    BY <1>1, <1>3, <1>4, PreparedFrom
  <2>2. host[d][q] \in Files /\ host[d][q] # Partial
    BY <1>1, <1>2, <1>5
  <2>3. QED
    BY <2>1, <2>2 DEF Files
<1>8. QED
  BY <1>6, <1>7

\* Every step keeps the per-package directories clean.
LEMMA CleanStep == BuildInv /\ [BuildNext]_buildVars => CleanInv'
<1> SUFFICES ASSUME BuildInv, [BuildNext]_buildVars
             PROVE  CleanInv'
  OBVIOUS
<1>t. BuildTypeOK
  BY DEF BuildInv
<1>h. /\ host \in [Packages \cup {Global} -> [Packages -> Files]]
      /\ target \in [Packages \cup {Global} -> [Packages -> Files]]
  BY <1>t DEF BuildTypeOK, DirsTypeOK
<1>g. Global \notin Packages /\ Partial \notin Nat
  BY BuildAssumption
<1>p. todo # {} => pkg \in Packages
  BY <1>t DEF BuildTypeOK, BuildControlTypeOK
<1>j. JobInv
  BY DEF BuildInv
<1>s. CleanInv
  BY DEF BuildInv
<1>k. ASSUME \A q \in Packages \ torn' : perPackage => q \notin torn /\ CleanKept(q),
             UNCHANGED perPackage
      PROVE  CleanInv'
  BY <1>k, <1>s, CleanKeptTrue DEF CleanInv
<1>m. ASSUME NEW p \in Packages, UNCHANGED perPackage,
             \A q \in Packages \ torn' : perPackage /\ q # p => q \notin torn /\ CleanKept(q),
             p \notin torn' /\ perPackage => Clean(p)'
      PROVE  CleanInv'
  BY <1>m, <1>s, CleanKeptTrue DEF CleanInv
<1>b. /\ stamp \in [Packages -> [Steps -> {"absent", "old", "current"}]]
      /\ job \in [Packages -> Steps \cup {"idle"}]
  BY <1>t DEF BuildTypeOK, BuildControlTypeOK
<1>1. ASSUME NEW p \in Packages, Edit(p)
      PROVE  CleanInv'
  <2>1. UNCHANGED perPackage
    BY <1>1 DEF Edit
  <2>2. \A q \in Packages \ torn' : perPackage => q \notin torn /\ CleanKept(q)
    BY <1>1, <1>b, <1>g, <1>h DEF Edit, CleanKept, Steps, session, products, dirs, lists
  <2>3. QED
    BY <2>1, <2>2, <1>k
<1>2. ASSUME NEW g \in Goals, Make(g[1], g[2])
      PROVE  CleanInv'
  <2>1. UNCHANGED perPackage
    BY <1>2 DEF Make
  <2>2. \A q \in Packages \ torn' : perPackage => q \notin torn /\ CleanKept(q)
    BY <1>2, <1>b, <1>g, <1>h DEF Make, CleanKept, Steps, session, products, dirs, lists
  <2>3. QED
    BY <2>1, <2>2, <1>k
<1>3. ASSUME NEW s \in Steps, RemoveStamp(s)
      PROVE  CleanInv'
  <2>1. UNCHANGED perPackage
    BY <1>3 DEF RemoveStamp, NextRemoval
  <2>2. \A q \in Packages \ torn' : perPackage => q \notin torn /\ CleanKept(q)
    BY <1>3, <1>b, <1>g, <1>h, <1>p
       DEF RemoveStamp, NextRemoval, CleanKept, Steps, session, products, dirs, lists
  <2>3. QED
    BY <2>1, <2>2, <1>k
<1>4. CASE TearDirs
  <2>1. UNCHANGED perPackage
    BY <1>4 DEF TearDirs, NextRemoval
  <2>2. \A q \in Packages \ torn' : perPackage => q \notin torn /\ CleanKept(q)
    BY <1>4, <1>b, <1>g, <1>h, <1>p
       DEF TearDirs, NextRemoval, CleanKept, Steps, session, products, dirs, lists
  <2>3. QED
    BY <2>1, <2>2, <1>k
<1>5. CASE RemoveDirs
  <2>0. perPackage => pkg \in torn
    BY <1>5, <1>p DEF RemoveDirs, NextRemoval, BuildInv, DircleanInv, RemovalNo, Steps
  <2>1. UNCHANGED perPackage
    BY <1>5 DEF RemoveDirs, NextRemoval
  <2>2. \A q \in Packages \ torn' : perPackage => q \notin torn /\ CleanKept(q)
    BY <1>5, <1>b, <1>g, <1>h, <1>p, <2>0
       DEF RemoveDirs, NextRemoval, CleanKept, Steps, session, products, dirs, lists
  <2>3. QED
    BY <2>1, <2>2, <1>k
<1>6. CASE TearBuild
  <2>1. UNCHANGED perPackage
    BY <1>6 DEF TearBuild, NextRemoval
  <2>2. \A q \in Packages \ torn' : perPackage => q \notin torn /\ CleanKept(q)
    BY <1>6, <1>b, <1>g, <1>h, <1>p
       DEF TearBuild, NextRemoval, CleanKept, Steps, session, products, dirs, lists
  <2>3. QED
    BY <2>1, <2>2, <1>k
<1>7. CASE RemoveBuild
  <2>1. PICK p \in Packages : p = pkg
    BY <1>7, <1>p DEF RemoveBuild, NextRemoval
  <2>2. UNCHANGED perPackage
    BY <1>7 DEF RemoveBuild, NextRemoval
  <2>3. \A q \in Packages \ torn' : q # p => q \notin torn /\ CleanKept(q)
    BY <1>7, <1>b, <2>1 DEF RemoveBuild, NextRemoval, dirs, CleanKept
  <2>4. perPackage => Clean(p)'
    <3>1. perPackage => host'[p] = Empty
      BY <1>7, <2>1
         DEF RemoveBuild, NextRemoval, BuildInv, DircleanInv, RemovalNo, Steps, dirs
    <3>2. stamp'[p]["configure"] = "absent" /\ job'[p] = "idle"
      BY <1>7, <1>b, <1>j, <2>1 DEF RemoveBuild, NextRemoval, JobInv, Steps
    <3>3. Staged \subseteq Packages /\ Partial # 0
      BY BuildAssumption
    <3>4. QED
      BY <3>1, <3>2, <3>3 DEF Clean, Current, Empty
  <2>5. QED
    BY <2>2, <2>3, <2>4, <1>m
<1>8. ASSUME NEW p \in Packages, Source(p)
      PROVE  CleanInv'
  <2>1. UNCHANGED perPackage
    BY <1>8 DEF Source, Begin, Ready, End
  <2>2. \A q \in Packages \ torn' : perPackage => q \notin torn /\ CleanKept(q)
    BY <1>8, <1>b, <1>g, <1>h
       DEF Source, Begin, Ready, End, CleanKept, Steps, session, products, dirs, lists
  <2>3. QED
    BY <2>1, <2>2, <1>k
<1>9. ASSUME NEW p \in Packages, Patch(p)
      PROVE  CleanInv'
  <2>1. UNCHANGED perPackage
    BY <1>9 DEF Patch, Begin, Ready, End, Stop
  <2>2. \A q \in Packages \ torn' : perPackage => q \notin torn /\ CleanKept(q)
    BY <1>9, <1>b, <1>g, <1>h
       DEF Patch, Begin, Ready, End, Stop, CleanKept, Steps, session, products, dirs,
       lists
  <2>3. QED
    BY <2>1, <2>2, <1>k
<1>10. ASSUME NEW p \in Packages, Configure(p)
      PROVE  CleanInv'
  <2>1. UNCHANGED <<perPackage, stamp>> /\ torn \subseteq torn'
    BY <1>10 DEF Configure, Begin, End, Stop
  <2>2. \A q \in Packages \ torn' : perPackage /\ q # p => q \notin torn /\ CleanKept(q)
    BY <1>10, <1>b, <1>h, <2>1 DEF Configure, Begin, End, Stop, CleanKept, dirs
  <2>3. CASE UNCHANGED host /\ (End(p, "configure") \/ (Stop(p) /\ job[p] = "idle"))
    <3>1. CleanKept(p)
      BY <1>b, <2>1, <2>3 DEF End, Stop, CleanKept
    <3>2. QED
      BY <1>k, <2>1, <2>2, <3>1
  <2>4. CASE ~perPackage
    BY <2>1, <2>4 DEF CleanInv
  <2>5. CASE /\ perPackage /\ Begin(p, "configure")
             /\ host' = [host EXCEPT ![p] = Prepared(host, p)]
             /\ torn' = IF Deps[p] \cap torn # {} THEN torn \cup {p} ELSE torn
    <3>1. ASSUME p \notin torn'
          PROVE  Clean(p)'
      <4>1. p \notin torn /\ Deps[p] \cap torn = {}
        BY <2>5, <3>1
      <4>2. /\ \A r \in Staged \ {p} : Prepared(host, p)[r] # Partial
            /\ \A q \in Deps[p] \cap Staged : Prepared(host, p)[q] \in Versions
        BY <2>5, <4>1, PreparedClean DEF Begin
      <4>3. host'[p] = Prepared(host, p)
        BY <1>h, <2>5
      <4>4. QED
        BY <4>2, <4>3 DEF Clean
    <3>2. QED
      BY <1>m, <2>1, <2>2, <3>1
  <2>6. QED
    BY <1>10, <2>3, <2>4, <2>5 DEF Configure, dirs, Ready
<1>11. ASSUME NEW p \in Packages, Build(p)
      PROVE  CleanInv'
  <2>1. UNCHANGED perPackage
    BY <1>11 DEF Build, Begin, Ready, End
  <2>2. \A q \in Packages \ torn' : perPackage => q \notin torn /\ CleanKept(q)
    BY <1>11, <1>b, <1>g, <1>h
       DEF Build, Begin, Ready, End, CleanKept, Steps, session, products, dirs, lists
  <2>3. QED
    BY <2>1, <2>2, <1>k
<1>12. ASSUME NEW p \in Packages, InstallStaging(p)
      PROVE  CleanInv'
  <2>1. Installs(p, "staging", host, host') /\ UNCHANGED <<perPackage, torn>>
    BY <1>12, <1>t, StagingEffect
  <2>2. /\ UNCHANGED stamp
        /\ job' = [job EXCEPT ![p] = "staging"] \/ UNCHANGED job
    BY <2>1 DEF Installs, Begin, End
  <2>3. \A q \in Packages : perPackage => CleanKept(q)
    BY <1>b, <2>1, <2>2 DEF Installs, Loc, CleanKept, Steps
  <2>4. QED
    BY <1>k, <2>1, <2>3
<1>13. ASSUME NEW p \in Packages, InstallTarget(p)
      PROVE  CleanInv'
  <2>1. UNCHANGED perPackage
    BY <1>13 DEF InstallTarget, Begin, Ready, End
  <2>2. \A q \in Packages \ torn' : perPackage => q \notin torn /\ CleanKept(q)
    BY <1>13, <1>b, <1>g, <1>h
       DEF InstallTarget, Begin, Ready, End, CleanKept, Steps, session, products, dirs,
       lists
  <2>3. QED
    BY <2>1, <2>2, <1>k
<1>14. ASSUME NEW p \in Packages, Installed(p)
      PROVE  CleanInv'
  <2>1. UNCHANGED perPackage
    BY <1>14 DEF Installed, Begin, Ready, End, Stop
  <2>2. \A q \in Packages \ torn' : perPackage => q \notin torn /\ CleanKept(q)
    BY <1>14, <1>b, <1>g, <1>h
       DEF Installed, Begin, Ready, End, Stop, CleanKept, Steps, session, products,
       dirs, lists
  <2>3. QED
    BY <2>1, <2>2, <1>k
<1>15. ASSUME NEW p \in Packages, Touch(p)
      PROVE  CleanInv'
  <2>1. UNCHANGED perPackage
    BY <1>15 DEF Touch
  <2>2. \A q \in Packages \ torn' : perPackage => q \notin torn /\ CleanKept(q)
    BY <1>15, <1>b, <1>g, <1>h
       DEF Touch, CleanKept, Steps, session, products, dirs, lists
  <2>3. QED
    BY <2>1, <2>2, <1>k
<1>16. ASSUME NEW p \in Packages, Fail(p)
      PROVE  CleanInv'
  <2>1. UNCHANGED perPackage
    BY <1>16 DEF Fail, Stop
  <2>2. \A q \in Packages \ torn' : perPackage => q \notin torn /\ CleanKept(q)
    BY <1>16, <1>b, <1>g, <1>h
       DEF Fail, Stop, CleanKept, Steps, session, products, dirs, lists
  <2>3. QED
    BY <2>1, <2>2, <1>k
<1>17. ASSUME NEW p \in Packages, Finalize(p)
      PROVE  CleanInv'
  <2>1. UNCHANGED perPackage
    BY <1>17 DEF Finalize
  <2>2. \A q \in Packages \ torn' : perPackage => q \notin torn /\ CleanKept(q)
    BY <1>17, <1>b, <1>g, <1>h
       DEF Finalize, CleanKept, Steps, session, products, dirs, lists
  <2>3. QED
    BY <2>1, <2>2, <1>k
<1>18. CASE Succeed
  <2>1. UNCHANGED perPackage
    BY <1>18 DEF Succeed, Leave
  <2>2. \A q \in Packages \ torn' : perPackage => q \notin torn /\ CleanKept(q)
    BY <1>18, <1>b, <1>g, <1>h
       DEF Succeed, Leave, CleanKept, Steps, session, products, dirs, lists
  <2>3. QED
    BY <2>1, <2>2, <1>k
<1>19. CASE GiveUp
  <2>1. UNCHANGED perPackage
    BY <1>19 DEF GiveUp, Leave
  <2>2. \A q \in Packages \ torn' : perPackage => q \notin torn /\ CleanKept(q)
    BY <1>19, <1>b, <1>g, <1>h
       DEF GiveUp, Leave, CleanKept, Steps, session, products, dirs, lists
  <2>3. QED
    BY <2>1, <2>2, <1>k
<1>20. CASE Kill
  <2>1. UNCHANGED perPackage
    BY <1>20 DEF Kill, Leave
  <2>2. \A q \in Packages \ torn' : perPackage => q \notin torn /\ CleanKept(q)
    BY <1>20, <1>b, <1>g, <1>h
       DEF Kill, Leave, CleanKept, Steps, session, products, dirs, lists
  <2>3. QED
    BY <2>1, <2>2, <1>k
<1>21. CASE UNCHANGED buildVars
  <2>1. UNCHANGED perPackage
    BY <1>21 DEF buildVars
  <2>2. \A q \in Packages \ torn' : perPackage => q \notin torn /\ CleanKept(q)
    BY <1>21, <1>b, <1>g, <1>h
       DEF buildVars, CleanKept, Steps, session, products, dirs, lists
  <2>3. QED
    BY <2>1, <2>2, <1>k
<1>22. QED
  BY <1>1, <1>2, <1>3, <1>4, <1>5, <1>6, <1>7, <1>8, <1>9,
     <1>10, <1>11, <1>12, <1>13, <1>14, <1>15, <1>16, <1>17, <1>18,
     <1>19, <1>20, <1>21
     DEF BuildNext, MakeRuns, Remove, Step

LEMMA BuildInvStep == BuildInv /\ [BuildNext]_buildVars => BuildInv'
<1> SUFFICES ASSUME BuildInv, [BuildNext]_buildVars
             PROVE  BuildInv'
  OBVIOUS
<1>1. BuildTypeOK'
  BY ControlStep, ProductsStep, DirsStep DEF BuildInv, BuildTypeOK
<1>2. QED
  BY <1>1, JobStep, TruthStep, IsolationStep, DircleanStep, CleanStep DEF BuildInv

\* The inductive invariant holds in every run of make.
THEOREM BuildInvariant == BuildSpec => []BuildInv
BY InitInv, BuildInvStep, PTL DEF BuildSpec

\* A stamp never promises more than the directories hold, whatever was
\* interrupted or failed before.
THEOREM StampsAreTrue == BuildSpec => []StampsTruth
<1>1. BuildInv => StampsTruth
  BY DEF BuildInv, TruthInv, StampsTruth
<1>2. QED
  BY BuildInvariant, <1>1, PTL

\* A per-package directory holds files of the package and of what it depends on,
\* in every run of make.
THEOREM DirectoriesIsolated == BuildSpec => []Isolation
<1>1. BuildInv => Isolation
  BY DEF BuildInv
<1>2. QED
  BY BuildInvariant, <1>1, PTL

\* Whatever runs in parallel, a package is configured, compiled and installed
\* with complete dependencies.
THEOREM DependenciesAreReady == BuildSpec => []DependenciesReady
<1>1. ASSUME BuildInv, NEW p \in Packages, job[p] # "idle", No[job[p]] >= 3
      PROVE  /\ \A q \in Below[p] : UpToDate(q) /\ job[q] = "idle"
             /\ p \notin torn => \A q \in Deps[p] \cap Staged :
                   q \notin torn => host[Loc(p)][q] \in Versions
  <2>1. \A q \in Below[p] : q \in Packages /\ UpToDate(q)
    BY <1>1, BelowClosure DEF BuildInv, JobInv
  <2>2. ASSUME NEW q \in Below[p], job[q] # "idle"
        PROVE  FALSE
    <3>1. job[q] \in StepsOf(q) /\ ~Current(q, job[q])
      BY <1>1, <2>1, <2>2 DEF BuildInv, JobInv
    <3>2. QED
      BY <2>1, <3>1 DEF UpToDate
  <2>3. ASSUME p \notin torn, NEW q \in Deps[p] \cap Staged, q \notin torn
        PROVE  host[Loc(p)][q] \in Versions
    <3>1. q \in Packages /\ q \in Below[p]
      BY BelowClosure, BuildAssumption
    <3>2. CASE perPackage
      <4>1. Clean(p)
        BY <1>1, <2>3, <3>2 DEF BuildInv, CleanInv
      <4>2. job[p] = "configure" \/ "configure" \in Prior(p, job[p])
        BY <1>1 DEF BuildInv, BuildTypeOK, BuildControlTypeOK, Steps, Prior, StepsOf, No
      <4>3. Current(p, "configure") \/ job[p] = "configure"
        BY <1>1, <4>2 DEF BuildInv, JobInv
      <4>4. QED
        BY <3>2, <4>1, <4>3 DEF Clean, Loc
    <3>3. CASE ~perPackage
      <4>1. StampsTrue(q)
        BY <1>1, <2>3, <3>1 DEF BuildInv, TruthInv
      <4>2. Current(q, "staging")
        BY <2>1, <3>1 DEF UpToDate, StepsOf, Steps
      <4>3. QED
        BY <3>3, <4>1, <4>2 DEF StampsTrue, Loc
    <3>4. QED
      BY <3>2, <3>3
  <2>4. QED
    BY <2>1, <2>2, <2>3
<1>2. BuildInv => DependenciesReady
  BY <1>1 DEF DependenciesReady
<1>3. QED
  BY BuildInvariant, <1>2, PTL

\* No interruption lets a package be configured from sources that miss patches.
THEOREM AlwaysPatched == BuildSpec => []ConfiguresPatched
<1>1. ASSUME BuildInv, NEW p \in Packages \ (Override \cup torn),
             job[p] # "idle", No[job[p]] >= 3
      PROVE  patches[p] = "all"
  <2>1. "patch" \in StepsOf(p)
    BY DEF StepsOf, Steps
  <2>2. "patch" \in Prior(p, job[p])
    BY <1>1, <2>1 DEF BuildInv, BuildTypeOK, BuildControlTypeOK, Steps, Prior, No
  <2>3. Current(p, "patch") /\ StampsTrue(p)
    BY <1>1, <2>2 DEF BuildInv, JobInv, TruthInv
  <2>4. QED
    BY <2>3 DEF StampsTrue
<1>2. BuildInv => ConfiguresPatched
  BY <1>1 DEF ConfiguresPatched
<1>3. QED
  BY BuildInvariant, <1>2, PTL

=============================================================================
