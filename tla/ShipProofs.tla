----------------------------- MODULE ShipProofs -----------------------------
(***************************************************************************)
(* Proofs about PkgBuild, for any packages, dependencies and goals, with   *)
(* and without per-package directories: what a rebuild compiles and what   *)
(* target-finalize copies reach the root filesystem image, and make        *)
(* implements AtomicBuild.                                                 *)
(***************************************************************************)
EXTENDS PkgBuildProofs

\* Nothing was asked for that is newer than the sources, and only sources with an
\* override directory change.
SourcesInv ==
    /\ \A p \in Packages : asked[p] <= src[p]
    /\ \A p \in Packages \ Override : src[p] = 1

\* Step s of p has been done, but for the touch of its stamp.
Made(p, s) == Current(p, s) \/ (job[p] = s /\ worked[p])

\* What is built has at least the version of the last successful rebuild.
AskedInv ==
    \A p \in Override \ torn :
        /\ Made(p, "source") => tree[p] >= asked[p]
        /\ Made(p, "build") => obj[p] >= asked[p]

\* While p is rebuilt, what its rules have made is of the version of its sources.
RebuildInv ==
    (goal \in {"rebuild", "reconfigure"} /\ pkg \in Override \ torn) =>
        /\ "source" \notin todo /\ Made(pkg, "source") => tree[pkg] = src[pkg]
        /\ "build" \notin todo /\ Made(pkg, "build") => obj[pkg] = src[pkg]

\* target-finalize runs when everything is built, and goes through the packages in
\* order; a package that nothing below a later one brings again has its own files in
\* the image.
FinalInv ==
    /\ synced # {} => goal = "all" /\ perPackage /\ \A q \in Packages : UpToDate(q)
    /\ \A p \in synced, q \in Packages \ synced : Rank[p] <= Rank[q]
    /\ \A p \in synced \ torn : LastWriter(p) => target[Global][p] = target[p][p]

ShipInv == SourcesInv /\ AskedInv /\ RebuildInv /\ FinalInv

\* Every step keeps the order of the versions.
LEMMA SourcesStep == BuildTypeOK /\ SourcesInv /\ [BuildNext]_buildVars => SourcesInv'
<1> SUFFICES ASSUME BuildTypeOK, SourcesInv, [BuildNext]_buildVars
             PROVE  SourcesInv'
  OBVIOUS
<1>t. src \in [Packages -> Versions] /\ asked \in [Packages -> Versions \cup {0}]
  BY DEF BuildTypeOK, BuildControlTypeOK, ProductsTypeOK
<1>n. \A q \in Packages : src[q] \in Nat /\ asked[q] \in Nat
  BY <1>t, BuildAssumption DEF Versions
<1> USE DEF SourcesInv
<1>1. ASSUME NEW p \in Packages, Edit(p)
      PROVE  SourcesInv'
  <2>1. asked' = asked /\ src' = [src EXCEPT ![p] = src[p] + 1] /\ p \in Override
    BY <1>1 DEF Edit, session
  <2>2. \A q \in Packages : src'[q] = IF q = p THEN src[q] + 1 ELSE src[q]
    BY <1>t, <2>1
  <2>3. QED
    BY <1>n, <2>1, <2>2
<1>2. ASSUME NEW g \in Goals, Make(g[1], g[2])
      PROVE  SourcesInv'
  BY <1>2, <1>t DEF Make, session, products, dirs, lists
<1>3. ASSUME NEW s \in Steps, RemoveStamp(s)
      PROVE  SourcesInv'
  BY <1>3, <1>t DEF RemoveStamp, NextRemoval, session, products, dirs, lists
<1>4. CASE TearDirs
  BY <1>4, <1>t DEF TearDirs, NextRemoval, session, products, dirs, lists
<1>5. CASE RemoveDirs
  BY <1>5, <1>t DEF RemoveDirs, NextRemoval, session, products, dirs, lists
<1>6. CASE TearBuild
  BY <1>6, <1>t DEF TearBuild, NextRemoval, session, products, dirs, lists
<1>7. CASE RemoveBuild
  BY <1>7, <1>t DEF RemoveBuild, NextRemoval, session, products, dirs, lists
<1>8. ASSUME NEW p \in Packages, Source(p)
      PROVE  SourcesInv'
  BY <1>8, <1>t DEF Source, Begin, Ready, End, session, products, dirs, lists
<1>9. ASSUME NEW p \in Packages, Patch(p)
      PROVE  SourcesInv'
  BY <1>9, <1>t DEF Patch, Begin, Ready, End, Stop, session, products, dirs, lists
<1>10. ASSUME NEW p \in Packages, Configure(p)
      PROVE  SourcesInv'
  BY <1>10, <1>t DEF Configure, Begin, Ready, End, Stop, session, products, dirs, lists
<1>11. ASSUME NEW p \in Packages, Build(p)
      PROVE  SourcesInv'
  BY <1>11, <1>t DEF Build, Begin, Ready, End, session, products, dirs, lists
<1>12. ASSUME NEW p \in Packages, InstallStaging(p)
      PROVE  SourcesInv'
  BY <1>12, <1>t DEF InstallStaging, Begin, Ready, End, session, products, dirs, lists
<1>13. ASSUME NEW p \in Packages, InstallTarget(p)
      PROVE  SourcesInv'
  BY <1>13, <1>t DEF InstallTarget, Begin, Ready, End, session, products, dirs, lists
<1>14. ASSUME NEW p \in Packages, Installed(p)
      PROVE  SourcesInv'
  BY <1>14, <1>t DEF Installed, Begin, Ready, End, Stop, session, products, dirs, lists
<1>15. ASSUME NEW p \in Packages, Touch(p)
      PROVE  SourcesInv'
  BY <1>15, <1>t DEF Touch, session, products, dirs, lists
<1>16. ASSUME NEW p \in Packages, Fail(p)
      PROVE  SourcesInv'
  BY <1>16, <1>t DEF Fail, Stop, session, products, dirs, lists
<1>17. ASSUME NEW p \in Packages, Finalize(p)
      PROVE  SourcesInv'
  BY <1>17, <1>t DEF Finalize, session, products, dirs, lists
<1>18. CASE Succeed
  <2>1. src' = src
    BY <1>18 DEF Succeed, Leave
  <2>2. asked' = IF goal \in {"rebuild", "reconfigure"}
                 THEN [asked EXCEPT ![pkg] = src[pkg]] ELSE asked
    BY <1>18 DEF Succeed
  <2>3. \A q \in Packages : asked'[q] \in {asked[q], src[q]}
    BY <1>t, <2>2
  <2>4. QED
    BY <1>n, <2>1, <2>3
<1>19. CASE GiveUp
  BY <1>19, <1>t DEF GiveUp, Leave, session, products, dirs, lists
<1>20. CASE Kill
  BY <1>20, <1>t DEF Kill, Leave, session, products, dirs, lists
<1>21. CASE UNCHANGED buildVars
  BY <1>21, <1>t DEF buildVars, session, products, dirs, lists
<1>22. QED
  BY <1>1, <1>2, <1>3, <1>4, <1>5, <1>6, <1>7, <1>8, <1>9, <1>10, <1>11, <1>12, <1>13,
     <1>14, <1>15, <1>16, <1>17, <1>18, <1>19, <1>20, <1>21 DEF BuildNext, MakeRuns,
     Remove, Step

\* How a step comes to have the sources of p, and what was compiled of it, in place:
\* they were, or the rule has done its work.
SourceMade(p) == Made(p, "source")' =>
    \/ p \notin torn /\ Made(p, "source") /\ tree'[p] = tree[p]
    \/ tree'[p] = src[p] /\ UNCHANGED <<src, session>>

BuildMade(p) == Made(p, "build")' =>
    \/ p \notin torn /\ Made(p, "build") /\ obj'[p] = obj[p]
    \/ /\ p \notin torn /\ Made(p, "source") /\ todo = {}
       /\ obj'[p] = tree[p] /\ UNCHANGED <<src, session>>

LEMMA MadeStep ==
    ASSUME BuildInv, [BuildNext]_buildVars, NEW q \in Packages, q \notin torn'
    PROVE  SourceMade(q) /\ BuildMade(q)
<1>b. /\ stamp \in [Packages -> [Steps -> {"absent", "old", "current"}]]
      /\ job \in [Packages -> Steps \cup {"idle"}] /\ worked \in [Packages -> BOOLEAN]
      /\ tree \in [Packages -> Files] /\ obj \in [Packages -> Files]
      /\ todo # {} => pkg \in Packages
  BY DEF BuildInv, BuildTypeOK, BuildControlTypeOK, ProductsTypeOK
<1>j. JobInv
  BY DEF BuildInv
<1>k. ASSUME q \notin torn, tree'[q] = tree[q], obj'[q] = obj[q],
             \A t \in {"source", "build"} : Made(q, t)' => Made(q, t)
      PROVE  SourceMade(q) /\ BuildMade(q)
  BY <1>k DEF SourceMade, BuildMade
<1>1. ASSUME NEW p \in Packages, Edit(p)
      PROVE  SourceMade(q) /\ BuildMade(q)
  <2>1. q \notin torn /\ tree'[q] = tree[q] /\ obj'[q] = obj[q]
    BY <1>1, <1>b DEF Edit, session, products, dirs, lists
  <2>2. \A t \in {"source", "build"} : Made(q, t)' => Made(q, t)
    BY <1>1, <1>b, <1>j DEF Edit, session, products, dirs, lists,
       Made, Current, Steps, JobInv
  <2>3. QED
    BY <2>1, <2>2, <1>k
<1>2. ASSUME NEW g \in Goals, Make(g[1], g[2])
      PROVE  SourceMade(q) /\ BuildMade(q)
  <2>1. q \notin torn /\ tree'[q] = tree[q] /\ obj'[q] = obj[q]
    BY <1>2, <1>b DEF Make, session, products, dirs, lists
  <2>2. \A t \in {"source", "build"} : Made(q, t)' => Made(q, t)
    BY <1>2, <1>b, <1>j DEF Make, session, products, dirs, lists,
       Made, Current, Steps, JobInv
  <2>3. QED
    BY <2>1, <2>2, <1>k
<1>3. ASSUME NEW s \in Steps, RemoveStamp(s)
      PROVE  SourceMade(q) /\ BuildMade(q)
  <2>1. q \notin torn /\ tree'[q] = tree[q] /\ obj'[q] = obj[q]
    BY <1>3, <1>b DEF RemoveStamp, NextRemoval, session, products, dirs, lists
  <2>2. \A t \in {"source", "build"} : Made(q, t)' => Made(q, t)
    BY <1>3, <1>b, <1>j DEF RemoveStamp, NextRemoval, session, products, dirs, lists,
       Made, Current, Steps, JobInv
  <2>3. QED
    BY <2>1, <2>2, <1>k
<1>4. CASE TearDirs
  <2>1. q \notin torn /\ tree'[q] = tree[q] /\ obj'[q] = obj[q]
    BY <1>4, <1>b DEF TearDirs, NextRemoval, session, products, dirs, lists
  <2>2. \A t \in {"source", "build"} : Made(q, t)' => Made(q, t)
    BY <1>4, <1>b, <1>j DEF TearDirs, NextRemoval, session, products, dirs, lists,
       Made, Current, Steps, JobInv
  <2>3. QED
    BY <2>1, <2>2, <1>k
<1>5. CASE RemoveDirs
  <2>1. q \notin torn /\ tree'[q] = tree[q] /\ obj'[q] = obj[q]
    BY <1>5, <1>b DEF RemoveDirs, NextRemoval, session, products, dirs, lists
  <2>2. \A t \in {"source", "build"} : Made(q, t)' => Made(q, t)
    BY <1>5, <1>b, <1>j DEF RemoveDirs, NextRemoval, session, products, dirs, lists,
       Made, Current, Steps, JobInv
  <2>3. QED
    BY <2>1, <2>2, <1>k
<1>6. CASE TearBuild
  <2>1. q \notin torn /\ tree'[q] = tree[q] /\ obj'[q] = obj[q]
    BY <1>6, <1>b DEF TearBuild, NextRemoval, session, products, dirs, lists
  <2>2. \A t \in {"source", "build"} : Made(q, t)' => Made(q, t)
    BY <1>6, <1>b, <1>j DEF TearBuild, NextRemoval, session, products, dirs, lists,
       Made, Current, Steps, JobInv
  <2>3. QED
    BY <2>1, <2>2, <1>k
<1>7. CASE RemoveBuild
  <2>1. CASE q = pkg
    <3>1. stamp'[q] = [s \in Steps |-> "absent"] /\ ~worked'[q]
      BY <1>7, <1>b, <1>j, <2>1 DEF RemoveBuild, NextRemoval, JobInv
    <3>2. QED
      BY <3>1 DEF SourceMade, BuildMade, Made, Current, Steps
  <2>2. CASE q # pkg
    <3>1. q \notin torn /\ tree'[q] = tree[q] /\ obj'[q] = obj[q]
      BY <1>7, <1>b, <2>2 DEF RemoveBuild, NextRemoval
    <3>2. \A t \in {"source", "build"} : Made(q, t)' => Made(q, t)
      BY <1>7, <1>b, <2>2 DEF RemoveBuild, NextRemoval, Made, Current
    <3>3. QED
      BY <3>1, <3>2, <1>k
  <2>3. QED
    BY <2>1, <2>2
<1>8. ASSUME NEW p \in Packages, Source(p)
      PROVE  SourceMade(q) /\ BuildMade(q)
  <2>1. q \notin torn /\ obj'[q] = obj[q] /\ UNCHANGED <<src, session, stamp>>
    BY <1>8 DEF Source, Begin, Ready, End, session, products, dirs, lists
  <2>2. CASE q # p
    <3>1. tree'[q] = tree[q] /\ job'[q] = job[q] /\ worked'[q] = worked[q]
      BY <1>8, <1>b, <2>2 DEF Source, Begin, End
    <3>2. QED
      BY <2>1, <3>1, <1>k DEF Made, Current
  <2>3. CASE q = p /\ Begin(p, "source")
    <3>1. ~Current(q, "source") /\ ~worked[q] /\ UNCHANGED worked
      BY <2>3, <1>j DEF Begin, Ready, JobInv
    <3>2. QED
      BY <2>1, <3>1 DEF SourceMade, BuildMade, Made, Current
  <2>4. CASE q = p /\ End(p, "source")
    <3>1. tree'[q] = src[q]
      BY <1>8, <1>b, <2>4 DEF Source, Begin, Ready, End, Steps
    <3>2. UNCHANGED job /\ job[q] = "source" /\ todo = {}
      BY <2>4, <1>j DEF End, JobInv
    <3>3. QED
      BY <2>1, <3>1, <3>2 DEF SourceMade, BuildMade, Made, Current
  <2>5. QED
    BY <1>8, <2>2, <2>3, <2>4 DEF Source
<1>9. ASSUME NEW p \in Packages, Patch(p)
      PROVE  SourceMade(q) /\ BuildMade(q)
  <2>1. q \notin torn /\ tree'[q] = tree[q] /\ obj'[q] = obj[q]
    BY <1>9, <1>b DEF Patch, Begin, Ready, End, Stop, session, products, dirs, lists
  <2>2. \A t \in {"source", "build"} : Made(q, t)' => Made(q, t)
    BY <1>9, <1>b, <1>j DEF Patch, Begin, Ready, End, Stop, session, products, dirs, lists,
       Made, Current, Steps, JobInv
  <2>3. QED
    BY <2>1, <2>2, <1>k
<1>10. ASSUME NEW p \in Packages, Configure(p)
      PROVE  SourceMade(q) /\ BuildMade(q)
  <2>1. q \notin torn /\ tree'[q] = tree[q] /\ obj'[q] = obj[q]
    BY <1>10, <1>b DEF Configure, Begin, Ready, End, Stop, session, products, dirs, lists
  <2>2. \A t \in {"source", "build"} : Made(q, t)' => Made(q, t)
    BY <1>10, <1>b, <1>j DEF Configure, Begin, Ready, End, Stop, session, products, dirs, lists,
       Made, Current, Steps, JobInv
  <2>3. QED
    BY <2>1, <2>2, <1>k
<1>11. ASSUME NEW p \in Packages, Build(p)
      PROVE  SourceMade(q) /\ BuildMade(q)
  <2>1. q \notin torn /\ tree'[q] = tree[q] /\ UNCHANGED <<src, session, stamp>>
    BY <1>11 DEF Build, Begin, Ready, End, session, products, dirs, lists
  <2>2. CASE q # p
    <3>1. obj'[q] = obj[q] /\ job'[q] = job[q] /\ worked'[q] = worked[q]
      BY <1>11, <1>b, <2>2 DEF Build, Begin, End
    <3>2. QED
      BY <2>1, <3>1, <1>k DEF Made, Current
  <2>3. CASE q = p /\ Begin(p, "build")
    <3>1. ~Current(q, "build") /\ ~worked[q] /\ UNCHANGED worked
      BY <2>3, <1>j DEF Begin, Ready, JobInv
    <3>2. QED
      BY <2>1, <3>1 DEF SourceMade, BuildMade, Made, Current
  <2>4. CASE q = p /\ End(p, "build")
    <3>1. obj'[q] = tree[q]
      BY <1>11, <1>b, <2>4 DEF Build, Begin, Ready, End, Steps
    <3>2. UNCHANGED job /\ job[q] = "build" /\ todo = {}
      BY <2>4, <1>j DEF End, JobInv
    <3>3. Current(q, "source")
      BY <2>4, <1>j DEF End, JobInv, Prior, StepsOf, Steps, No
    <3>4. QED
      BY <2>1, <3>1, <3>2, <3>3 DEF SourceMade, BuildMade, Made, Current
  <2>5. QED
    BY <1>11, <2>2, <2>3, <2>4 DEF Build
<1>12. ASSUME NEW p \in Packages, InstallStaging(p)
      PROVE  SourceMade(q) /\ BuildMade(q)
  <2>1. q \notin torn /\ tree'[q] = tree[q] /\ obj'[q] = obj[q]
    BY <1>12, <1>b DEF InstallStaging, Begin, Ready, End, session, products, dirs, lists
  <2>2. \A t \in {"source", "build"} : Made(q, t)' => Made(q, t)
    BY <1>12, <1>b, <1>j DEF InstallStaging, Begin, Ready, End, session, products, dirs, lists,
       Made, Current, Steps, JobInv
  <2>3. QED
    BY <2>1, <2>2, <1>k
<1>13. ASSUME NEW p \in Packages, InstallTarget(p)
      PROVE  SourceMade(q) /\ BuildMade(q)
  <2>1. q \notin torn /\ tree'[q] = tree[q] /\ obj'[q] = obj[q]
    BY <1>13, <1>b DEF InstallTarget, Begin, Ready, End, session, products, dirs, lists
  <2>2. \A t \in {"source", "build"} : Made(q, t)' => Made(q, t)
    BY <1>13, <1>b, <1>j DEF InstallTarget, Begin, Ready, End, session, products, dirs, lists,
       Made, Current, Steps, JobInv
  <2>3. QED
    BY <2>1, <2>2, <1>k
<1>14. ASSUME NEW p \in Packages, Installed(p)
      PROVE  SourceMade(q) /\ BuildMade(q)
  <2>1. q \notin torn /\ tree'[q] = tree[q] /\ obj'[q] = obj[q]
    BY <1>14, <1>b DEF Installed, Begin, Ready, End, Stop, session, products, dirs, lists
  <2>2. \A t \in {"source", "build"} : Made(q, t)' => Made(q, t)
    BY <1>14, <1>b, <1>j DEF Installed, Begin, Ready, End, Stop, session, products, dirs, lists,
       Made, Current, Steps, JobInv
  <2>3. QED
    BY <2>1, <2>2, <1>k
<1>15. ASSUME NEW p \in Packages, Touch(p)
      PROVE  SourceMade(q) /\ BuildMade(q)
  <2>1. q \notin torn /\ tree'[q] = tree[q] /\ obj'[q] = obj[q]
    BY <1>15, <1>b DEF Touch, session, products, dirs, lists
  <2>2. \A t \in {"source", "build"} : Made(q, t)' => Made(q, t)
    BY <1>15, <1>b, <1>j DEF Touch, session, products, dirs, lists,
       Made, Current, Steps, JobInv
  <2>3. QED
    BY <2>1, <2>2, <1>k
<1>16. ASSUME NEW p \in Packages, Fail(p)
      PROVE  SourceMade(q) /\ BuildMade(q)
  <2>1. q \notin torn /\ tree'[q] = tree[q] /\ obj'[q] = obj[q]
    BY <1>16, <1>b DEF Fail, Stop, session, products, dirs, lists
  <2>2. \A t \in {"source", "build"} : Made(q, t)' => Made(q, t)
    BY <1>16, <1>b, <1>j DEF Fail, Stop, session, products, dirs, lists,
       Made, Current, Steps, JobInv
  <2>3. QED
    BY <2>1, <2>2, <1>k
<1>17. ASSUME NEW p \in Packages, Finalize(p)
      PROVE  SourceMade(q) /\ BuildMade(q)
  <2>1. q \notin torn /\ tree'[q] = tree[q] /\ obj'[q] = obj[q]
    BY <1>17, <1>b DEF Finalize, session, products, dirs, lists
  <2>2. \A t \in {"source", "build"} : Made(q, t)' => Made(q, t)
    BY <1>17, <1>b, <1>j DEF Finalize, session, products, dirs, lists,
       Made, Current, Steps, JobInv
  <2>3. QED
    BY <2>1, <2>2, <1>k
<1>18. CASE Succeed
  <2>1. q \notin torn /\ tree'[q] = tree[q] /\ obj'[q] = obj[q]
    BY <1>18, <1>b DEF Succeed, Leave, session, products, dirs, lists
  <2>2. \A t \in {"source", "build"} : Made(q, t)' => Made(q, t)
    BY <1>18, <1>b, <1>j DEF Succeed, Leave, session, products, dirs, lists,
       Made, Current, Steps, JobInv
  <2>3. QED
    BY <2>1, <2>2, <1>k
<1>19. CASE GiveUp
  <2>1. q \notin torn /\ tree'[q] = tree[q] /\ obj'[q] = obj[q]
    BY <1>19, <1>b DEF GiveUp, Leave, session, products, dirs, lists
  <2>2. \A t \in {"source", "build"} : Made(q, t)' => Made(q, t)
    BY <1>19, <1>b, <1>j DEF GiveUp, Leave, session, products, dirs, lists,
       Made, Current, Steps, JobInv
  <2>3. QED
    BY <2>1, <2>2, <1>k
<1>20. CASE Kill
  <2>1. q \notin torn /\ tree'[q] = tree[q] /\ obj'[q] = obj[q]
    BY <1>20, <1>b DEF Kill, Leave, session, products, dirs, lists
  <2>2. \A t \in {"source", "build"} : Made(q, t)' => Made(q, t)
    BY <1>20, <1>b, <1>j DEF Kill, Leave, session, products, dirs, lists,
       Made, Current, Steps, JobInv
  <2>3. QED
    BY <2>1, <2>2, <1>k
<1>21. CASE UNCHANGED buildVars
  <2>1. q \notin torn /\ tree'[q] = tree[q] /\ obj'[q] = obj[q]
    BY <1>21, <1>b DEF buildVars, session, products, dirs, lists
  <2>2. \A t \in {"source", "build"} : Made(q, t)' => Made(q, t)
    BY <1>21, <1>b, <1>j DEF buildVars, session, products, dirs, lists,
       Made, Current, Steps, JobInv
  <2>3. QED
    BY <2>1, <2>2, <1>k
<1>22. QED
  BY <1>1, <1>2, <1>3, <1>4, <1>5, <1>6, <1>7, <1>8, <1>9, <1>10, <1>11, <1>12, <1>13,
     <1>14, <1>15, <1>16, <1>17, <1>18, <1>19, <1>20, <1>21 DEF BuildNext, MakeRuns,
     Remove, Step

\* What a step does to the session: it ends, begins, goes on with its removals, or
\* leaves goal, sources and what was asked for alone.
LEMMA SessionStep ==
    ASSUME BuildInv, [BuildNext]_buildVars
    PROVE  \/ Succeed
           \/ /\ UNCHANGED asked
              /\ \/ goal' = "none"
                 \/ todo' = Removals(goal', pkg')
                 \/ /\ UNCHANGED <<src, goal, pkg>>
                    /\ \E r \in todo : todo' = todo \ {r} /\ (r \in Steps => ~Made(pkg, r)')
                 \/ UNCHANGED <<src, goal, pkg, todo>>
<1> DEFINE
      Goes == \/ goal' = "none"
              \/ todo' = Removals(goal', pkg')
              \/ /\ UNCHANGED <<src, goal, pkg>>
                 /\ \E r \in todo : todo' = todo \ {r} /\ (r \in Steps => ~Made(pkg, r)')
              \/ UNCHANGED <<src, goal, pkg, todo>>
<1>b. /\ stamp \in [Packages -> [Steps -> {"absent", "old", "current"}]]
      /\ todo # {} => pkg \in Packages
  BY DEF BuildInv, BuildTypeOK, BuildControlTypeOK
<1>j. todo # {} => \A q \in Packages : job[q] = "idle" /\ ~worked[q]
  BY DEF BuildInv, JobInv
<1>1. ASSUME NEW p \in Packages, Edit(p)
      PROVE  Succeed \/ (UNCHANGED asked /\ Goes)
  BY <1>1 DEF Edit, session, products, dirs, lists
<1>2. ASSUME NEW g \in Goals, Make(g[1], g[2])
      PROVE  Succeed \/ (UNCHANGED asked /\ Goes)
  BY <1>2 DEF Make, session, products, dirs, lists
<1>3. ASSUME NEW s \in Steps, RemoveStamp(s)
      PROVE  Succeed \/ (UNCHANGED asked /\ Goes)
  <2>1. /\ UNCHANGED <<src, goal, pkg, asked, job, worked>> /\ s \in todo
        /\ todo' = todo \ {s} /\ stamp' = [stamp EXCEPT ![pkg][s] = "absent"]
    BY <1>3 DEF RemoveStamp, NextRemoval
  <2>2. ~Made(pkg, s)'
    BY <1>b, <1>j, <2>1 DEF Made, Current
  <2>3. QED
    BY <2>1, <2>2
<1>4. CASE TearDirs
  <2>1. /\ UNCHANGED <<src, goal, pkg, asked>> /\ "tearDirs" \in todo
        /\ todo' = todo \ {"tearDirs"} /\ "tearDirs" \notin Steps
    BY <1>4 DEF TearDirs, NextRemoval, Steps
  <2>2. QED
    BY <2>1
<1>5. CASE RemoveDirs
  <2>1. /\ UNCHANGED <<src, goal, pkg, asked>> /\ "rmDirs" \in todo
        /\ todo' = todo \ {"rmDirs"} /\ "rmDirs" \notin Steps
    BY <1>5 DEF RemoveDirs, NextRemoval, Steps
  <2>2. QED
    BY <2>1
<1>6. CASE TearBuild
  <2>1. /\ UNCHANGED <<src, goal, pkg, asked>> /\ "tearBuild" \in todo
        /\ todo' = todo \ {"tearBuild"} /\ "tearBuild" \notin Steps
    BY <1>6 DEF TearBuild, NextRemoval, Steps
  <2>2. QED
    BY <2>1
<1>7. CASE RemoveBuild
  <2>1. /\ UNCHANGED <<src, goal, pkg, asked>> /\ "rmBuild" \in todo
        /\ todo' = todo \ {"rmBuild"} /\ "rmBuild" \notin Steps
    BY <1>7 DEF RemoveBuild, NextRemoval, Steps
  <2>2. QED
    BY <2>1
<1>8. ASSUME NEW p \in Packages, Source(p)
      PROVE  Succeed \/ (UNCHANGED asked /\ Goes)
  BY <1>8 DEF Source, Begin, Ready, End, session, products, dirs, lists
<1>9. ASSUME NEW p \in Packages, Patch(p)
      PROVE  Succeed \/ (UNCHANGED asked /\ Goes)
  BY <1>9 DEF Patch, Begin, Ready, End, Stop, session, products, dirs, lists
<1>10. ASSUME NEW p \in Packages, Configure(p)
      PROVE  Succeed \/ (UNCHANGED asked /\ Goes)
  BY <1>10 DEF Configure, Begin, Ready, End, Stop, session, products, dirs, lists
<1>11. ASSUME NEW p \in Packages, Build(p)
      PROVE  Succeed \/ (UNCHANGED asked /\ Goes)
  BY <1>11 DEF Build, Begin, Ready, End, session, products, dirs, lists
<1>12. ASSUME NEW p \in Packages, InstallStaging(p)
      PROVE  Succeed \/ (UNCHANGED asked /\ Goes)
  BY <1>12 DEF InstallStaging, Begin, Ready, End, session, products, dirs, lists
<1>13. ASSUME NEW p \in Packages, InstallTarget(p)
      PROVE  Succeed \/ (UNCHANGED asked /\ Goes)
  BY <1>13 DEF InstallTarget, Begin, Ready, End, session, products, dirs, lists
<1>14. ASSUME NEW p \in Packages, Installed(p)
      PROVE  Succeed \/ (UNCHANGED asked /\ Goes)
  BY <1>14 DEF Installed, Begin, Ready, End, Stop, session, products, dirs, lists
<1>15. ASSUME NEW p \in Packages, Touch(p)
      PROVE  Succeed \/ (UNCHANGED asked /\ Goes)
  BY <1>15 DEF Touch, session, products, dirs, lists
<1>16. ASSUME NEW p \in Packages, Fail(p)
      PROVE  Succeed \/ (UNCHANGED asked /\ Goes)
  BY <1>16 DEF Fail, Stop, session, products, dirs, lists
<1>17. ASSUME NEW p \in Packages, Finalize(p)
      PROVE  Succeed \/ (UNCHANGED asked /\ Goes)
  BY <1>17 DEF Finalize, session, products, dirs, lists
<1>18. CASE Succeed
  BY <1>18
<1>19. CASE GiveUp
  BY <1>19 DEF GiveUp, Leave, session, products, dirs, lists
<1>20. CASE Kill
  BY <1>20 DEF Kill, Leave, session, products, dirs, lists
<1>21. CASE UNCHANGED buildVars
  BY <1>21 DEF buildVars, session, products, dirs, lists
<1>22. QED
  BY <1>1, <1>2, <1>3, <1>4, <1>5, <1>6, <1>7, <1>8, <1>9, <1>10, <1>11, <1>12, <1>13,
     <1>14, <1>15, <1>16, <1>17, <1>18, <1>19, <1>20, <1>21 DEF BuildNext, MakeRuns,
     Remove, Step

\* Every step keeps what is built as new as what was asked for.
LEMMA AskedStep ==
    ASSUME BuildInv, SourcesInv, AskedInv, RebuildInv, [BuildNext]_buildVars
    PROVE  AskedInv'
<1>n. \A p \in Packages : src[p] \in Nat /\ asked[p] \in Nat
  BY BuildAssumption DEF BuildInv, BuildTypeOK, BuildControlTypeOK, ProductsTypeOK, Versions
<1>o. Override \subseteq Packages
  BY BuildAssumption
<1>1. ASSUME NEW p \in Override \ torn', asked'[p] = asked[p]
      PROVE  /\ Made(p, "source")' => tree'[p] >= asked'[p]
             /\ Made(p, "build")' => obj'[p] >= asked'[p]
  <2>1. SourceMade(p) /\ BuildMade(p)
    BY <1>o, MadeStep
  <2>2. src[p] >= asked[p]
    BY <1>n, <1>o DEF SourcesInv
  <2>3. Made(p, "source")' => tree'[p] >= asked'[p]
    BY <1>1, <2>1, <2>2 DEF SourceMade, AskedInv
  <2>4. Made(p, "build")' => obj'[p] >= asked'[p]
    BY <1>1, <2>1 DEF BuildMade, AskedInv
  <2>5. QED
    BY <2>3, <2>4
<1>2. CASE UNCHANGED asked
  BY <1>1, <1>2 DEF AskedInv
<1>3. CASE Succeed
  <2>1. /\ UNCHANGED <<tree, obj, torn, stamp, src>>
        /\ asked' = IF goal \in {"rebuild", "reconfigure"}
                    THEN [asked EXCEPT ![pkg] = src[pkg]] ELSE asked
        /\ todo = {} /\ \A q \in Wanted : UpToDate(q)
    BY <1>3 DEF Succeed, Leave, Reached, products
  <2>2. ASSUME NEW p \in Override \ torn', asked'[p] # asked[p]
        PROVE  tree[p] = src[p] /\ obj[p] = src[p] /\ asked'[p] = src[p]
    <3>1. goal \in {"rebuild", "reconfigure"} /\ p = pkg /\ asked'[p] = src[p]
      BY <1>o, <2>1, <2>2 DEF BuildInv, BuildTypeOK, ProductsTypeOK
    <3>2. UpToDate(p)
      BY <2>1, <3>1 DEF Wanted
    <3>3. Current(p, "source") /\ Current(p, "build")
      BY <3>2 DEF UpToDate, StepsOf, Steps
    <3>4. QED
      BY <2>1, <2>2, <3>1, <3>3 DEF RebuildInv, Made
  <2>3. ASSUME NEW p \in Override \ torn', asked'[p] # asked[p]
        PROVE  /\ Made(p, "source")' => tree'[p] >= asked'[p]
               /\ Made(p, "build")' => obj'[p] >= asked'[p]
    BY <1>n, <1>o, <2>1, <2>2, <2>3
  <2>4. QED
    BY <1>1, <2>3 DEF AskedInv
<1>4. QED
  BY <1>2, <1>3, SessionStep

\* Every step keeps a rebuild on the sources that it began with.
LEMMA RebuildStep ==
    ASSUME BuildInv, RebuildInv, [BuildNext]_buildVars
    PROVE  RebuildInv'
<1> SUFFICES ASSUME goal' \in {"rebuild", "reconfigure"}, pkg' \in Override \ torn'
             PROVE  /\ "source" \notin todo' /\ Made(pkg, "source")' => tree'[pkg'] = src'[pkg']
                    /\ "build" \notin todo' /\ Made(pkg, "build")' => obj'[pkg'] = src'[pkg']
  BY DEF RebuildInv
<1>1. CASE todo' = Removals(goal', pkg')
  <2>1. {"source", "build"} \subseteq Removals(goal', pkg')
    BY DEF Removals, ReinstallRemoves
  <2>2. QED
    BY <1>1, <2>1
<1>2. ASSUME UNCHANGED <<src, goal, pkg>>,
             "source" \notin todo' /\ Made(pkg, "source")' => "source" \notin todo,
             "build" \notin todo' /\ Made(pkg, "build")' => "build" \notin todo
      PROVE  /\ "source" \notin todo' /\ Made(pkg, "source")' => tree'[pkg'] = src'[pkg']
             /\ "build" \notin todo' /\ Made(pkg, "build")' => obj'[pkg'] = src'[pkg']
  <2>1. pkg \in Packages /\ pkg \in Override /\ pkg \notin torn'
    BY <1>2, BuildAssumption
  <2>2. SourceMade(pkg) /\ BuildMade(pkg)
    BY <2>1, MadeStep
  <2>3. "source" \notin todo' /\ Made(pkg, "source")' => tree'[pkg'] = src'[pkg']
    BY <1>2, <2>1, <2>2 DEF SourceMade, RebuildInv
  <2>4. "build" \notin todo' /\ Made(pkg, "build")' => obj'[pkg'] = src'[pkg']
    BY <1>2, <2>1, <2>2 DEF BuildMade, RebuildInv
  <2>5. QED
    BY <2>3, <2>4
<1>3. CASE /\ UNCHANGED <<src, goal, pkg>>
           /\ \E r \in todo : todo' = todo \ {r} /\ (r \in Steps => ~Made(pkg, r)')
  BY <1>2, <1>3 DEF Steps
<1>4. CASE UNCHANGED <<src, goal, pkg, todo>>
  BY <1>2, <1>4
<1>5. ~Succeed
  BY DEF Succeed, Leave
<1>6. QED
  BY <1>1, <1>3, <1>4, <1>5, SessionStep

\* Once target-finalize has begun, the session only finalizes or ends.
LEMMA SyncedStep ==
    ASSUME BuildInv, FinalInv, synced # {}, [BuildNext]_buildVars
    PROVE  \/ synced' = {}
           \/ \E p \in Packages : Finalize(p)
           \/ UNCHANGED <<goal, perPackage, stamp, torn, target, synced>>
<1> DEFINE Goes == \/ synced' = {}
                   \/ \E p \in Packages : Finalize(p)
                   \/ UNCHANGED <<goal, perPackage, stamp, torn, target, synced>>
<1>a. goal = "all" /\ todo = {} /\ \A q \in Packages : UpToDate(q)
  BY BuildAssumption DEF BuildInv, BuildTypeOK, BuildControlTypeOK, FinalInv
<1>j. \A q \in Packages : job[q] = "idle"
  BY <1>a DEF BuildInv, JobInv, UpToDate
<1>r. ~(\E r \in RemovalSteps \cup Steps : NextRemoval(r))
  BY <1>a DEF NextRemoval
<1>s. \A q \in Packages, s \in Steps : ~Ready(q, s)
  BY <1>a DEF Ready, UpToDate
<1>1. ASSUME NEW p \in Packages, Edit(p)
      PROVE  Goes
  BY <1>1, <1>a DEF Edit
<1>2. ASSUME NEW g \in Goals, Make(g[1], g[2])
      PROVE  Goes
  BY <1>2, <1>a DEF Make
<1>3. ASSUME NEW s \in Steps, RemoveStamp(s)
      PROVE  Goes
  BY <1>3, <1>r DEF RemoveStamp
<1>4. CASE TearDirs
  BY <1>4, <1>r DEF TearDirs, RemovalSteps
<1>5. CASE RemoveDirs
  BY <1>5, <1>r DEF RemoveDirs, RemovalSteps
<1>6. CASE TearBuild
  BY <1>6, <1>r DEF TearBuild, RemovalSteps
<1>7. CASE RemoveBuild
  BY <1>7, <1>r DEF RemoveBuild, RemovalSteps
<1>8. ASSUME NEW p \in Packages, Source(p)
      PROVE  Goes
  BY <1>8, <1>j, <1>s DEF Source, Begin, End, Steps
<1>9. ASSUME NEW p \in Packages, Patch(p)
      PROVE  Goes
  BY <1>9, <1>j, <1>s DEF Patch, Begin, End, Steps
<1>10. ASSUME NEW p \in Packages, Configure(p)
      PROVE  Goes
  BY <1>10, <1>j, <1>s DEF Configure, Begin, End, Steps
<1>11. ASSUME NEW p \in Packages, Build(p)
      PROVE  Goes
  BY <1>11, <1>j, <1>s DEF Build, Begin, End, Steps
<1>12. ASSUME NEW p \in Packages, InstallStaging(p)
      PROVE  Goes
  BY <1>12, <1>j, <1>s DEF InstallStaging, Begin, End, Steps
<1>13. ASSUME NEW p \in Packages, InstallTarget(p)
      PROVE  Goes
  BY <1>13, <1>j, <1>s DEF InstallTarget, Begin, End, Steps
<1>14. ASSUME NEW p \in Packages, Installed(p)
      PROVE  Goes
  BY <1>14, <1>j, <1>s DEF Installed, Begin, End, Steps
<1>15. ASSUME NEW p \in Packages, Touch(p)
      PROVE  Goes
  BY <1>15, <1>j DEF Touch
<1>16. ASSUME NEW p \in Packages, Fail(p)
      PROVE  Goes
  BY <1>16, <1>j DEF Fail
<1>17. ASSUME NEW p \in Packages, Finalize(p)
      PROVE  Goes
  BY <1>17
<1>18. CASE Succeed
  BY <1>18 DEF Succeed, Leave
<1>19. CASE GiveUp
  BY <1>19 DEF GiveUp, Leave
<1>20. CASE Kill
  BY <1>20 DEF Kill, Leave
<1>21. CASE UNCHANGED buildVars
  BY <1>21 DEF buildVars, session, dirs
<1>22. QED
  BY <1>1, <1>2, <1>3, <1>4, <1>5, <1>6, <1>7, <1>8, <1>9, <1>10, <1>11, <1>12, <1>13,
     <1>14, <1>15, <1>16, <1>17, <1>18, <1>19, <1>20, <1>21 DEF BuildNext, MakeRuns,
     Remove, Step

\* Only target-finalize begins to copy packages.
LEMMA UnsyncedStep ==
    ASSUME synced = {}, [BuildNext]_buildVars
    PROVE  synced' = {} \/ \E p \in Packages : Finalize(p)
<1> DEFINE Goes == synced' = {} \/ \E p \in Packages : Finalize(p)
<1>1. ASSUME NEW p \in Packages, Edit(p)
      PROVE  Goes
  BY <1>1 DEF Edit, session, products, dirs, lists
<1>2. ASSUME NEW g \in Goals, Make(g[1], g[2])
      PROVE  Goes
  BY <1>2 DEF Make, session, products, dirs, lists
<1>3. ASSUME NEW s \in Steps, RemoveStamp(s)
      PROVE  Goes
  BY <1>3 DEF RemoveStamp, NextRemoval, session, products, dirs, lists
<1>4. CASE TearDirs
  BY <1>4 DEF TearDirs, NextRemoval, session, products, dirs, lists
<1>5. CASE RemoveDirs
  BY <1>5 DEF RemoveDirs, NextRemoval, session, products, dirs, lists
<1>6. CASE TearBuild
  BY <1>6 DEF TearBuild, NextRemoval, session, products, dirs, lists
<1>7. CASE RemoveBuild
  BY <1>7 DEF RemoveBuild, NextRemoval, session, products, dirs, lists
<1>8. ASSUME NEW p \in Packages, Source(p)
      PROVE  Goes
  BY <1>8 DEF Source, Begin, Ready, End, session, products, dirs, lists
<1>9. ASSUME NEW p \in Packages, Patch(p)
      PROVE  Goes
  BY <1>9 DEF Patch, Begin, Ready, End, Stop, session, products, dirs, lists
<1>10. ASSUME NEW p \in Packages, Configure(p)
      PROVE  Goes
  BY <1>10 DEF Configure, Begin, Ready, End, Stop, session, products, dirs, lists
<1>11. ASSUME NEW p \in Packages, Build(p)
      PROVE  Goes
  BY <1>11 DEF Build, Begin, Ready, End, session, products, dirs, lists
<1>12. ASSUME NEW p \in Packages, InstallStaging(p)
      PROVE  Goes
  BY <1>12 DEF InstallStaging, Begin, Ready, End, session, products, dirs, lists
<1>13. ASSUME NEW p \in Packages, InstallTarget(p)
      PROVE  Goes
  BY <1>13 DEF InstallTarget, Begin, Ready, End, session, products, dirs, lists
<1>14. ASSUME NEW p \in Packages, Installed(p)
      PROVE  Goes
  BY <1>14 DEF Installed, Begin, Ready, End, Stop, session, products, dirs, lists
<1>15. ASSUME NEW p \in Packages, Touch(p)
      PROVE  Goes
  BY <1>15 DEF Touch, session, products, dirs, lists
<1>16. ASSUME NEW p \in Packages, Fail(p)
      PROVE  Goes
  BY <1>16 DEF Fail, Stop, session, products, dirs, lists
<1>17. ASSUME NEW p \in Packages, Finalize(p)
      PROVE  Goes
  BY <1>17
<1>18. CASE Succeed
  BY <1>18 DEF Succeed, Leave, session, products, dirs, lists
<1>19. CASE GiveUp
  BY <1>19 DEF GiveUp, Leave, session, products, dirs, lists
<1>20. CASE Kill
  BY <1>20 DEF Kill, Leave, session, products, dirs, lists
<1>21. CASE UNCHANGED buildVars
  BY <1>21 DEF buildVars, session, products, dirs, lists
<1>22. QED
  BY <1>1, <1>2, <1>3, <1>4, <1>5, <1>6, <1>7, <1>8, <1>9, <1>10, <1>11, <1>12, <1>13,
     <1>14, <1>15, <1>16, <1>17, <1>18, <1>19, <1>20, <1>21 DEF BuildNext, MakeRuns,
     Remove, Step

\* What target-finalize copies of p overwrites nothing of a package of which
\* nothing later has files.
LEMMA FinalizeStep ==
    ASSUME BuildInv, FinalInv, NEW p \in Packages, Finalize(p)
    PROVE  FinalInv'
<1>a. /\ goal = "all" /\ perPackage /\ \A q \in Packages : UpToDate(q)
      /\ p \notin synced /\ \A q \in Packages \ synced : Rank[p] <= Rank[q]
      /\ UNCHANGED <<perPackage, goal, stamp, torn>>
  BY DEF Finalize
<1>b. (\A q \in Packages : UpToDate(q))'
  BY <1>a DEF UpToDate, Current, StepsOf
<1>t. /\ target \in [Packages \cup {Global} -> [Packages -> Files]]
      /\ synced \subseteq Packages /\ Rank \in [Packages -> Nat]
  BY SortAssumption DEF BuildInv, BuildTypeOK, DirsTypeOK
<1>1. CASE /\ target' = [target EXCEPT ![Global] = [r \in Packages |->
                IF target[p][r] = 0 THEN @[r] ELSE target[p][r]]]
           /\ synced' = synced \cup {p}
  <2>1. \A q \in Packages : /\ target'[q] = target[q]
                            /\ target'[Global][q] = IF target[p][q] = 0 THEN target[Global][q]
                                                    ELSE target[p][q]
    BY <1>1, <1>t, BuildAssumption
  <2>2. \A q \in synced', r \in Packages \ synced' : Rank[q] <= Rank[r]
    BY <1>1, <1>a DEF FinalInv
  <2>3. ASSUME NEW q \in synced' \ torn', LastWriter(q)
        PROVE  target'[Global][q] = target'[q][q]
    <3>1. q \in Packages /\ q \notin torn
      BY <1>1, <1>a, <1>t, <2>3
    <3>2. CASE q = p
      <4>1. Current(p, "target") /\ StampsTrue(p)
        BY <1>a, <3>1, <3>2 DEF UpToDate, StepsOf, Steps, BuildInv, TruthInv
      <4>2. target[p][p] # 0
        BY <1>a, <4>1 DEF StampsTrue, Loc, Versions
      <4>3. QED
        BY <2>1, <3>2, <4>2
    <3>3. CASE q # p
      <4>1. q \in synced /\ target[Global][q] = target[q][q]
        BY <1>1, <2>3, <3>1, <3>3 DEF FinalInv
      <4>2. Rank[q] <= Rank[p]
        BY <1>a, <4>1 DEF FinalInv
      <4>3. q \notin Below[p]
        BY <1>t, <2>3, <3>1, <4>2 DEF LastWriter
      <4>4. target[p][q] = 0
        BY <1>a, <3>1, <3>3, <4>3 DEF BuildInv, Isolation
      <4>5. QED
        BY <2>1, <3>1, <4>1, <4>4
    <3>4. QED
      BY <3>2, <3>3
  <2>4. QED
    BY <1>a, <1>b, <2>2, <2>3 DEF FinalInv, LastWriter
<1>2. CASE UNCHANGED <<target, synced>>
  BY <1>2, <1>a, <1>b DEF FinalInv, LastWriter
<1>3. QED
  BY <1>1, <1>2 DEF Finalize

\* Every step keeps what target-finalize has done.
LEMMA FinalStep ==
    ASSUME BuildInv, FinalInv, [BuildNext]_buildVars
    PROVE  FinalInv'
<1>1. CASE synced' = {}
  BY <1>1 DEF FinalInv
<1>2. ASSUME NEW p \in Packages, Finalize(p)
      PROVE  FinalInv'
  BY <1>2, FinalizeStep
<1>3. CASE UNCHANGED <<goal, perPackage, stamp, torn, target, synced>>
  BY <1>3 DEF FinalInv, UpToDate, Current, StepsOf, LastWriter
<1>4. QED
  BY <1>1, <1>2, <1>3, SyncedStep, UnsyncedStep

LEMMA InitShip == BuildInit => ShipInv
<1> SUFFICES ASSUME BuildInit PROVE ShipInv
  OBVIOUS
<1>1. SourcesInv
  BY BuildAssumption DEF BuildInit, SourcesInv, Empty
<1>2. AskedInv
  BY BuildAssumption DEF BuildInit, AskedInv, Made, Current, Steps, Empty
<1>3. RebuildInv
  BY DEF BuildInit, RebuildInv
<1>4. FinalInv
  BY DEF BuildInit, FinalInv
<1>5. QED
  BY <1>1, <1>2, <1>3, <1>4 DEF ShipInv

\* The invariant of target-finalize and of the last successful rebuild holds in
\* every run of make, beside that of the stamps.
THEOREM ShipInvariant == BuildSpec => [](BuildInv /\ ShipInv)
<1>1. BuildInv /\ ShipInv /\ [BuildNext]_buildVars => (BuildInv /\ ShipInv)'
  BY BuildInvStep, SourcesStep, AskedStep, RebuildStep, FinalStep DEF ShipInv, BuildInv
<1>2. QED
  BY InitInv, InitShip, <1>1, PTL DEF BuildSpec

\* The root filesystem image has complete files of every package, and of no older
\* version than the sources at its last successful rebuild, unless a package that
\* depends on it is copied later.
THEOREM RebuildsShipped == BuildSpec => []ShipsRebuilds
<1>1. ASSUME BuildInv, ShipInv, ImageMade, NEW p \in Packages \ torn,
             ~perPackage \/ LastWriter(p)
      PROVE  target[Global][p] \in Versions /\ target[Global][p] >= asked[p]
  <2>1. UpToDate(p) /\ (perPackage => synced = Packages)
    BY <1>1 DEF ImageMade, Reached, Wanted
  <2>2. Current(p, "source") /\ Current(p, "build") /\ Current(p, "target") /\ StampsTrue(p)
    BY <1>1, <2>1 DEF UpToDate, StepsOf, Steps, BuildInv, TruthInv
  <2>3. obj[p] \in Versions /\ target[Loc(p)][p] = obj[p]
    BY <2>2 DEF StampsTrue
  <2>4. target[Global][p] = obj[p]
    BY <1>1, <2>1, <2>3 DEF Loc, ShipInv, FinalInv
  <2>5. obj[p] >= asked[p]
    <3>1. CASE p \in Override
      BY <1>1, <2>2, <3>1 DEF ShipInv, AskedInv, Made
    <3>2. CASE p \notin Override
      <4>1. asked[p] \in Nat /\ asked[p] <= 1 /\ obj[p] \in Nat /\ obj[p] >= 1
        BY <1>1, <2>3, <3>2, BuildAssumption
           DEF BuildInv, BuildTypeOK, ProductsTypeOK, ShipInv, SourcesInv, Versions
      <4>2. QED
        BY <4>1
    <3>3. QED
      BY <3>1, <3>2
  <2>6. QED
    BY <2>3, <2>4, <2>5
<1>2. BuildInv /\ ShipInv => ShipsRebuilds
  BY <1>1 DEF ShipsRebuilds
<1>3. QED
  BY ShipInvariant, <1>2, PTL

-----------------------------------------------------------------------------
\* Between the last command of a rule and its touch, the product is made of what
\* AtomicBuild says, also in a torn package.
WorkInv == \A p \in Packages : worked[p] =>
    /\ job[p] = "source" => tree[p] = src[p]
    /\ job[p] = "build" => obj[p] = tree[p]
    /\ job[p] = "staging" => host[Loc(p)][p] = obj[p]
    /\ job[p] = "target" => target[Loc(p)][p] = obj[p]

\* A step after which p's rule, if it has done its work, had done it before and from
\* the same things.
WorkKept(p) == worked'[p] =>
    /\ worked[p] /\ job'[p] = job[p]
    /\ src'[p] = src[p] /\ tree'[p] = tree[p] /\ obj'[p] = obj[p]
    /\ host'[Loc(p)'][p] = host[Loc(p)][p] /\ target'[Loc(p)'][p] = target[Loc(p)][p]

\* Every step keeps what a rule that has done its work has made.
LEMMA WorkStep == BuildInv /\ WorkInv /\ [BuildNext]_buildVars => WorkInv'
<1> SUFFICES ASSUME BuildInv, WorkInv, [BuildNext]_buildVars
             PROVE  WorkInv'
  OBVIOUS
<1>t. BuildTypeOK
  BY DEF BuildInv
<1>h. /\ host \in [Packages \cup {Global} -> [Packages -> Files]]
      /\ target \in [Packages \cup {Global} -> [Packages -> Files]]
  BY <1>t DEF BuildTypeOK, DirsTypeOK
<1>b. /\ stamp \in [Packages -> [Steps -> {"absent", "old", "current"}]]
      /\ job \in [Packages -> Steps \cup {"idle"}] /\ worked \in [Packages -> BOOLEAN]
      /\ tree \in [Packages -> Files] /\ obj \in [Packages -> Files]
      /\ src \in [Packages -> Versions]
  BY <1>t DEF BuildTypeOK, BuildControlTypeOK, ProductsTypeOK
<1>g. Global \notin Packages
  BY BuildAssumption
<1>j. JobInv
  BY DEF BuildInv
<1>q. ASSUME todo # {} \/ goal = "none" PROVE \A q \in Packages : ~worked[q]
  BY <1>q, <1>j DEF JobInv
<1>k. ASSUME \A q \in Packages : WorkKept(q)
      PROVE  WorkInv'
  <2>1. ASSUME NEW q \in Packages, worked'[q]
        PROVE  /\ job'[q] = "source" => tree'[q] = src'[q]
               /\ job'[q] = "build" => obj'[q] = tree'[q]
               /\ job'[q] = "staging" => host'[Loc(q)'][q] = obj'[q]
               /\ job'[q] = "target" => target'[Loc(q)'][q] = obj'[q]
    BY <1>k, <2>1 DEF WorkKept, WorkInv
  <2>2. QED
    BY <2>1 DEF WorkInv
<1>m. ASSUME NEW p \in Packages, \A q \in Packages \ {p} : WorkKept(q),
             worked'[p] =>
                /\ job'[p] = "source" => tree'[p] = src'[p]
                /\ job'[p] = "build" => obj'[p] = tree'[p]
                /\ job'[p] = "staging" => host'[Loc(p)'][p] = obj'[p]
                /\ job'[p] = "target" => target'[Loc(p)'][p] = obj'[p]
      PROVE  WorkInv'
  <2>1. ASSUME NEW q \in Packages, worked'[q]
        PROVE  /\ job'[q] = "source" => tree'[q] = src'[q]
               /\ job'[q] = "build" => obj'[q] = tree'[q]
               /\ job'[q] = "staging" => host'[Loc(q)'][q] = obj'[q]
               /\ job'[q] = "target" => target'[Loc(q)'][q] = obj'[q]
    BY <1>m, <2>1 DEF WorkKept, WorkInv
  <2>2. QED
    BY <2>1 DEF WorkInv
<1>l. UNCHANGED perPackage => \A q \in Packages : Loc(q)' = Loc(q)
  BY DEF Loc
<1>1. CASE (\E p \in Packages : Edit(p)) \/ (\E g \in Goals : Make(g[1], g[2]))
  <2>1. \A q \in Packages : ~worked'[q]
    BY <1>1, <1>q DEF Edit, Make, session
  <2>2. QED
    BY <2>1 DEF WorkInv
<1>2. CASE Remove
  <2>1. UNCHANGED worked /\ todo # {}
    BY <1>2 DEF Remove, RemoveStamp, TearDirs, RemoveDirs, TearBuild, RemoveBuild, NextRemoval
  <2>2. QED
    BY <2>1, <1>q DEF WorkInv
<1>3. ASSUME NEW p \in Packages, Source(p)
      PROVE  WorkInv'
  <2>1. UNCHANGED <<perPackage, src, obj, host, target>>
    BY <1>3 DEF Source, Begin, End, dirs
  <2>2. \A q \in Packages \ {p} : WorkKept(q)
    BY <1>3, <1>b, <1>l, <2>1 DEF Source, Begin, End, WorkKept
  <2>3. worked'[p] => job'[p] = "source" /\ tree'[p] = src'[p]
    BY <1>3, <1>b, <1>j, <2>1 DEF Source, Begin, Ready, End, JobInv, Steps
  <2>4. QED
    BY <1>m, <2>2, <2>3
<1>4. ASSUME NEW p \in Packages, Patch(p) \/ Configure(p) \/ Installed(p)
      PROVE  WorkInv'
  <2>1. UNCHANGED <<perPackage, src, tree, obj>>
    BY <1>4 DEF Patch, Configure, Installed, Begin, End, Stop, products
  <2>2. \A q \in Packages : /\ host'[Loc(q)][q] = host[Loc(q)][q]
                            /\ target'[Loc(q)][q] = target[Loc(q)][q]
    <3>1. CASE UNCHANGED dirs
      BY <3>1 DEF dirs
    <3>2. CASE /\ perPackage
               /\ host' = [host EXCEPT ![p] = Prepared(host, p)]
               /\ target' = [target EXCEPT ![p] = Prepared(target, p)]
      BY <1>h, <3>2, OwnFiles DEF Loc, BuildInv
    <3>3. QED
      BY <1>4, <3>1, <3>2 DEF Patch, Configure, Installed, dirs
  <2>3. \A q \in Packages \ {p} : WorkKept(q)
    <3>1. \A q \in Packages \ {p} : worked'[q] = worked[q] /\ job'[q] = job[q]
      BY <1>4, <1>b DEF Patch, Configure, Installed, Begin, End, Stop
    <3>2. QED
      BY <2>1, <2>2, <3>1, <1>l DEF WorkKept
  <2>4. worked'[p] => job'[p] \in {"patch", "configure", "installed"}
    BY <1>4, <1>b, <1>j
       DEF Patch, Configure, Installed, Begin, End, Stop, Ready, JobInv, Steps
  <2>5. QED
    BY <1>m, <2>3, <2>4
<1>5. ASSUME NEW p \in Packages, Build(p)
      PROVE  WorkInv'
  <2>1. UNCHANGED <<perPackage, src, tree, host, target>>
    BY <1>5 DEF Build, Begin, End, dirs
  <2>2. \A q \in Packages \ {p} : WorkKept(q)
    BY <1>5, <1>b, <1>l, <2>1 DEF Build, Begin, End, WorkKept
  <2>3. worked'[p] => job'[p] = "build" /\ obj'[p] = tree'[p]
    BY <1>5, <1>b, <1>j, <2>1 DEF Build, Begin, Ready, End, JobInv, Steps
  <2>4. QED
    BY <1>m, <2>2, <2>3
<1>6. ASSUME NEW p \in Packages, InstallStaging(p)
      PROVE  WorkInv'
  <2>1. /\ UNCHANGED <<perPackage, src, tree, obj, target>>
        /\ Installs(p, "staging", host, host')
    BY <1>6, <1>t, StagingEffect DEF products
  <2>2. \A q \in Packages \ {p} : WorkKept(q)
    BY <1>b, <1>l, <2>1 DEF Installs, Begin, End, WorkKept
  <2>3. worked'[p] => job'[p] = "staging" /\ host'[Loc(p)][p] = obj'[p]
    BY <1>b, <1>j, <2>1 DEF Installs, Begin, Ready, End, JobInv, Steps
  <2>4. QED
    BY <1>m, <1>l, <2>1, <2>2, <2>3
<1>7. ASSUME NEW p \in Packages, InstallTarget(p)
      PROVE  WorkInv'
  <2>1. /\ UNCHANGED <<perPackage, src, tree, obj, host>>
        /\ Installs(p, "target", target, target')
    BY <1>7, <1>t, TargetEffect DEF products
  <2>2. \A q \in Packages \ {p} : WorkKept(q)
    BY <1>b, <1>l, <2>1 DEF Installs, Begin, End, WorkKept
  <2>3. worked'[p] => job'[p] = "target" /\ target'[Loc(p)][p] = obj'[p]
    BY <1>b, <1>j, <2>1 DEF Installs, Begin, Ready, End, JobInv, Steps
  <2>4. QED
    BY <1>m, <1>l, <2>1, <2>2, <2>3
<1>8. ASSUME NEW p \in Packages, Touch(p) \/ Fail(p)
      PROVE  WorkInv'
  <2>1. UNCHANGED <<perPackage, src, products, dirs>>
    BY <1>8 DEF Touch, Fail, Stop
  <2>2. \A q \in Packages : worked'[q] => worked[q] /\ job'[q] = job[q]
    BY <1>8, <1>b DEF Touch, Fail, Stop
  <2>3. QED
    BY <1>k, <1>l, <2>1, <2>2 DEF WorkKept, products, dirs
<1>9. ASSUME NEW p \in Packages, Finalize(p)
      PROVE  WorkInv'
  <2>1. UNCHANGED <<perPackage, src, job, worked, products, host>> /\ perPackage
    BY <1>9 DEF Finalize
  <2>2. \A q \in Packages : Loc(q) = q /\ target'[q] = target[q]
    BY <1>9, <1>h, <1>g, <2>1 DEF Finalize, Loc
  <2>3. QED
    BY <1>k, <1>l, <2>1, <2>2 DEF WorkKept, products
<1>10. CASE Succeed \/ GiveUp \/ Kill
  <2>1. \A q \in Packages : ~worked'[q]
    BY <1>10 DEF Succeed, GiveUp, Kill, Leave
  <2>2. QED
    BY <2>1 DEF WorkInv
<1>11. CASE UNCHANGED buildVars
  BY <1>11, <1>k, <1>l DEF buildVars, WorkKept, products, dirs
<1>12. QED
  BY <1>1, <1>2, <1>3, <1>4, <1>5, <1>6, <1>7, <1>8, <1>9, <1>10, <1>11
     DEF BuildNext, MakeRuns, Step

-----------------------------------------------------------------------------
\* A table in which one entry changes.
LEMMA OneEntry ==
    ASSUME NEW A, NEW f, NEW g, f = [x \in A |-> f[x]], g = [x \in A |-> g[x]],
           NEW a \in A, \A x \in A \ {a} : g[x] = f[x]
    PROVE  \A e : g[a] = e => g = [f EXCEPT ![a] = e]
OBVIOUS

\* The steps of AtomicBuild are those of make.
LEMMA AtomicSteps == Atomic!Steps = Steps /\ No["configure"] = 3
BY DEF Atomic!Steps, No, Steps

\* What of a package shows in AtomicBuild.
Shown(p) == {s \in Steps : Current(p, s)}
MadeIn(p) == [s \in Atomic!Products |-> IF Current(p, s) THEN ProductOf(p, s) ELSE 0]

LEMMA ShownIs ==
    /\ DoneSteps = [p \in Packages |-> Shown(p)]
    /\ MadeProducts = [p \in Packages |-> MadeIn(p)]
    /\ DoneSteps' = [p \in Packages |-> Shown(p)']
    /\ MadeProducts' = [p \in Packages |-> MadeIn(p)']
BY DEF DoneSteps, MadeProducts, Shown, MadeIn, Atomic!Products

\* p's complete steps and their products are what they were.
Same(p) ==
    /\ \A s \in Steps : Current(p, s)' <=> Current(p, s)
    /\ \A s \in Atomic!Products : Current(p, s) => ProductOf(p, s)' = ProductOf(p, s)

LEMMA SameShown ==
    ASSUME NEW p \in Packages, Same(p)
    PROVE  Shown(p)' = Shown(p) /\ MadeIn(p)' = MadeIn(p)
BY DEF Same, Shown, MadeIn, Atomic!Products, Steps

LEMMA Hidden ==
    ASSUME \A p \in Packages : Same(p), UNCHANGED <<src, asked, torn>>
    PROVE  UNCHANGED Atomic!atomicVars
<1>1. DoneSteps' = DoneSteps /\ MadeProducts' = MadeProducts
  BY ShownIs, SameShown
<1>2. QED
  BY <1>1 DEF Atomic!atomicVars

\* Only p shows a change.
LEMMA OnlyOne ==
    ASSUME NEW p \in Packages, \A q \in Packages \ {p} : Same(q)
    PROVE  /\ DoneSteps' = [DoneSteps EXCEPT ![p] = Shown(p)']
           /\ MadeProducts' = [MadeProducts EXCEPT ![p] = MadeIn(p)']
           /\ DoneSteps[p] = Shown(p) /\ MadeProducts[p] = MadeIn(p)
           /\ \A q \in Packages \ {p} : DoneSteps'[q] = DoneSteps[q]
                                        /\ MadeProducts'[q] = MadeProducts[q]
<1>1. \A q \in Packages \ {p} : Shown(q)' = Shown(q) /\ MadeIn(q)' = MadeIn(q)
  BY SameShown
<1>2. \A q \in Packages \ {p} : DoneSteps'[q] = DoneSteps[q] /\ MadeProducts'[q] = MadeProducts[q]
  BY <1>1, ShownIs
<1>3. DoneSteps'[p] = Shown(p)' /\ MadeProducts'[p] = MadeIn(p)'
  BY ShownIs
<1>4. /\ DoneSteps = [x \in Packages |-> DoneSteps[x]]
      /\ DoneSteps' = [x \in Packages |-> DoneSteps'[x]]
  BY ShownIs
<1>5. /\ MadeProducts = [x \in Packages |-> MadeProducts[x]]
      /\ MadeProducts' = [x \in Packages |-> MadeProducts'[x]]
  BY ShownIs
<1>6. DoneSteps' = [DoneSteps EXCEPT ![p] = Shown(p)']
  BY <1>2, <1>3, <1>4, OneEntry
<1>7. MadeProducts' = [MadeProducts EXCEPT ![p] = MadeIn(p)']
  BY <1>2, <1>3, <1>5, OneEntry
<1>8. QED
  BY <1>2, <1>6, <1>7, ShownIs

\* A package that is torn shows fewer steps, and damaged or missing products.
LEMMA TearShows ==
    ASSUME BuildTypeOK', NEW p \in Packages, \A q \in Packages \ {p} : Same(q),
           torn' = torn \cup {p}, UNCHANGED <<src, asked>>,
           \A s \in Steps : Current(p, s)' => Current(p, s),
           \A s \in Atomic!Products :
              Current(p, s)' => ProductOf(p, s)' \in {ProductOf(p, s), Partial, 0}
    PROVE  Atomic!Tear(p)
<1>1. \A q \in Packages : Shown(q)' \in SUBSET Steps
  BY DEF Shown
<1>2. DoneSteps' \in [Packages -> SUBSET Steps]
  BY <1>1, ShownIs
<1>3. ASSUME NEW q \in Packages, NEW s \in Atomic!Products
      PROVE  ProductOf(q, s)' \in Nat \cup {Partial}
  <2>1. Loc(q)' \in Packages \cup {Global}
    BY DEF Loc
  <2>2. Files \subseteq Nat \cup {Partial}
    BY BuildAssumption DEF Files, Versions
  <2>3. /\ tree'[q] \in Files /\ obj'[q] \in Files
        /\ host'[Loc(q)'][q] \in Files /\ target'[Loc(q)'][q] \in Files
    BY <2>1 DEF BuildTypeOK, ProductsTypeOK, DirsTypeOK
  <2>4. QED
    BY <1>3, <2>2, <2>3 DEF ProductOf, Atomic!Products
<1>4. \A q \in Packages : MadeIn(q)' \in [Atomic!Products -> Nat \cup {Partial}]
  BY <1>3 DEF MadeIn
<1>5. MadeProducts' \in [Packages -> [Atomic!Products -> Nat \cup {Partial}]]
  BY <1>4, ShownIs
<1>6. Shown(p)' \subseteq Shown(p)
  BY DEF Shown
<1>7. \A s \in Atomic!Products : MadeIn(p)'[s] \in {MadeIn(p)[s], Partial, 0}
  <2>1. Atomic!Products \subseteq Steps
    BY DEF Atomic!Products, Steps
  <2>2. QED
    BY <2>1 DEF MadeIn
<1>8. /\ DoneSteps[p] = Shown(p) /\ MadeProducts[p] = MadeIn(p)
      /\ DoneSteps'[p] = Shown(p)' /\ MadeProducts'[p] = MadeIn(p)'
      /\ \A q \in Packages \ {p} : DoneSteps'[q] = DoneSteps[q]
                                   /\ MadeProducts'[q] = MadeProducts[q]
  BY OnlyOne, ShownIs
<1>9. QED
  BY <1>2, <1>5, <1>6, <1>7, <1>8, AtomicSteps DEF Atomic!Tear

\* The touch of its stamp finishes a step: what comes before it is complete, and its
\* product is made of theirs.
LEMMA TouchFinishes ==
    ASSUME BuildInv, WorkInv, NEW p \in Packages, Touch(p)
    PROVE  job[p] \in Steps /\ Atomic!Finish(p, job[p])
<1> DEFINE s == job[p]
           Out == {t \in Steps : s \in Prerequisites[t]}
<1>b. /\ stamp \in [Packages -> [Steps -> {"absent", "old", "current"}]]
      /\ job \in [Packages -> Steps \cup {"idle"}] /\ worked \in [Packages -> BOOLEAN]
  BY DEF BuildInv, BuildTypeOK, BuildControlTypeOK
<1>j. JobInv /\ s # "idle" /\ worked[p]
  BY DEF BuildInv, Touch
<1>1. /\ s \in StepsOf(p) /\ s \in Steps /\ ~Current(p, s)
      /\ \A t \in Prior(p, s) : Current(p, t)
      /\ No[s] >= 3 => \A q \in Below[p] : UpToDate(q)
  BY <1>b, <1>j DEF JobInv
<1>2. UNCHANGED <<perPackage, src, tree, obj, host, target, asked, torn>>
  BY DEF Touch, session, products, dirs
<1>3. \A t \in Steps : Current(p, t)' <=> t = s \/ (Current(p, t) /\ t \notin Out)
  BY <1>b, <1>1 DEF Touch, Current
<1>4. \A q \in Packages \ {p} : Same(q)
  <2>1. \A q \in Packages \ {p} : stamp'[q] = stamp[q]
    BY <1>b DEF Touch
  <2>2. QED
    BY <1>2, <2>1 DEF Same, Current, ProductOf, Loc
<1>5. \A t \in Atomic!Products : ProductOf(p, t)' = ProductOf(p, t)
  BY <1>2 DEF ProductOf, Loc
<1>6. Shown(p)' = (Shown(p) \ Out) \cup {s}
  BY <1>1, <1>3 DEF Shown
<1>7. s \in Atomic!Products => ProductOf(p, s) = Atomic!Input(p, s)
  <2>1. MadeProducts[p] = MadeIn(p)
    BY ShownIs
  <2>2. CASE s = "source"
    BY <1>j, <2>2 DEF WorkInv, ProductOf, Atomic!Input
  <2>3. CASE s = "build"
    <3>1. Current(p, "source")
      BY <1>1, <2>3 DEF Prior, StepsOf, Steps, No
    <3>2. MadeIn(p)["source"] = tree[p]
      BY <3>1 DEF MadeIn, Atomic!Products, ProductOf
    <3>3. QED
      BY <1>j, <2>1, <2>3, <3>2 DEF WorkInv, ProductOf, Atomic!Input
  <2>4. CASE s \in {"staging", "target"}
    <3>1. Current(p, "build")
      BY <1>1, <2>4 DEF Prior, StepsOf, Steps, No
    <3>2. MadeIn(p)["build"] = obj[p]
      BY <3>1 DEF MadeIn, Atomic!Products, ProductOf
    <3>3. QED
      BY <1>j, <2>1, <2>4, <3>2 DEF WorkInv, ProductOf, Atomic!Input
  <2>5. QED
    BY <2>2, <2>3, <2>4 DEF Atomic!Products
<1>8. MadeIn(p)' = [t \in Atomic!Products |->
                      CASE t = s -> Atomic!Input(p, s)
                        [] t \in Out -> 0
                        [] OTHER -> MadeIn(p)[t]]
  <2>1. ASSUME NEW t \in Atomic!Products
        PROVE  (IF Current(p, t)' THEN ProductOf(p, t)' ELSE 0) =
                 CASE t = s -> Atomic!Input(p, s)
                   [] t \in Out -> 0
                   [] OTHER -> MadeIn(p)[t]
    <3>1. t \in Steps
      BY DEF Atomic!Products, Steps
    <3>2. MadeIn(p)[t] = IF Current(p, t) THEN ProductOf(p, t) ELSE 0
      BY DEF MadeIn
    <3>3. s \notin Out
      BY <1>1 DEF Prerequisites, Steps
    <3>4. QED
      BY <1>3, <1>5, <1>7, <3>1, <3>2, <3>3
  <2>2. QED
    BY <2>1 DEF MadeIn
<1>9. Atomic!Outdated(s) = Out
  BY AtomicSteps DEF Atomic!Outdated
<1>10. /\ s \in Chains[p] \ DoneSteps[p]
       /\ \A t \in Chains[p] : No[t] < No[s] => t \in DoneSteps[p]
  <2>1. Chains[p] = StepsOf(p) /\ DoneSteps[p] = Shown(p) /\ StepsOf(p) \subseteq Steps
    BY ShownIs DEF Chains, StepsOf
  <2>2. QED
    BY <1>1, <2>1 DEF Shown, Prior
<1>11. No[s] >= No["configure"] => \A q \in Below[p] : Atomic!Complete(q)
  <2>1. \A q \in Below[p] : q \in Packages
    BY BelowClosure
  <2>2. \A q \in Packages : UpToDate(q) => Atomic!Complete(q)
    BY ShownIs DEF UpToDate, Atomic!Complete, Chains, Shown, StepsOf
  <2>3. QED
    BY <1>1, <2>1, <2>2, AtomicSteps
<1>12. DoneSteps' = [DoneSteps EXCEPT ![p] = (DoneSteps[p] \ Atomic!Outdated(s)) \cup {s}]
  BY <1>4, <1>6, <1>9, OnlyOne
<1>13. MadeProducts' = [MadeProducts EXCEPT ![p] = [t \in Atomic!Products |->
                          CASE t = s -> Atomic!Input(p, s)
                            [] t \in Atomic!Outdated(s) -> 0
                            [] OTHER -> MadeProducts[p][t]]]
  <2>1. MadeProducts' = [MadeProducts EXCEPT ![p] = MadeIn(p)'] /\ MadeProducts[p] = MadeIn(p)
    BY <1>4, OnlyOne
  <2>2. QED
    BY <1>8, <1>9, <2>1
<1>14. QED
  BY <1>1, <1>2, <1>10, <1>11, <1>12, <1>13 DEF Atomic!Finish

\* A removed stamp is a step forgotten, a finished dirclean a package wiped out, and
\* a rebuild that succeeds leaves the sources of now installed.
LEMMA RemovalForgets ==
    ASSUME BuildInv, NEW p \in Packages, p = pkg, NEW s \in Steps, RemoveStamp(s)
    PROVE  Atomic!Forget(p, s)
<1>b. stamp \in [Packages -> [Steps -> {"absent", "old", "current"}]]
  BY DEF BuildInv, BuildTypeOK, BuildControlTypeOK, RemoveStamp, NextRemoval
<1>1. UNCHANGED <<perPackage, src, tree, obj, host, target, asked, torn>>
  BY DEF RemoveStamp, NextRemoval, products, dirs
<1>2. \A q \in Packages, t \in Steps : ProductOf(q, t)' = ProductOf(q, t)
  BY <1>1 DEF ProductOf, Loc
<1>3. \A q \in Packages, t \in Steps :
         Current(q, t)' <=> Current(q, t) /\ ~(q = p /\ t = s)
  BY <1>b DEF RemoveStamp, Current
<1>4. \A q \in Packages \ {p} : Same(q)
  BY <1>2, <1>3 DEF Same, Atomic!Products, Steps
<1>5. Shown(p)' = Shown(p) \ {s}
  BY <1>b, <1>3 DEF Shown
<1>6. MadeIn(p)' = [t \in Atomic!Products |-> IF t = s THEN 0 ELSE MadeIn(p)[t]]
  BY <1>b, <1>2, <1>3 DEF MadeIn, Atomic!Products, Steps
<1>7. QED
  BY <1>b, <1>1, <1>4, <1>5, <1>6, OnlyOne DEF Atomic!Forget

LEMMA DircleanWipes ==
    ASSUME BuildInv, NEW p \in Packages, p = pkg, RemoveBuild
    PROVE  Atomic!Wipe(p)
<1>b. stamp \in [Packages -> [Steps -> {"absent", "old", "current"}]]
  BY DEF BuildInv, BuildTypeOK, BuildControlTypeOK, RemoveBuild, NextRemoval
<1>t. tree \in [Packages -> Files] /\ obj \in [Packages -> Files]
  BY DEF BuildInv, BuildTypeOK, ProductsTypeOK
<1>1. /\ UNCHANGED <<perPackage, src, host, target, asked>> /\ torn' = torn \ {p}
      /\ \A q \in Packages \ {p} : tree'[q] = tree[q] /\ obj'[q] = obj[q]
  BY <1>t DEF RemoveBuild, NextRemoval, dirs
<1>2. \A q \in Packages \ {p} : Same(q)
  <2>1. \A q \in Packages \ {p} : stamp'[q] = stamp[q]
    BY <1>b DEF RemoveBuild
  <2>2. QED
    BY <1>1, <2>1 DEF Same, Current, ProductOf, Loc, Atomic!Products
<1>3. \A t \in Steps : ~Current(p, t)'
  BY <1>b DEF RemoveBuild, Current
<1>4. Shown(p)' = {} /\ MadeIn(p)' = Atomic!Nothing
  BY <1>3 DEF Shown, MadeIn, Atomic!Nothing, Atomic!Products, Steps
<1>5. QED
  BY <1>b, <1>1, <1>2, <1>4, OnlyOne DEF Atomic!Wipe

LEMMA RebuildShows ==
    ASSUME BuildInv, ShipInv, Succeed, goal \in {"rebuild", "reconfigure"}
    PROVE  pkg \in Packages /\ Atomic!Rebuilt(pkg)
<1>1. pkg \in Packages /\ todo = {}
  BY DEF BuildInv, BuildTypeOK, BuildControlTypeOK, Succeed, Reached
<1>2. \A q \in Below[pkg] \cup {pkg} : q \in Packages /\ UpToDate(q)
  BY <1>1, BelowClosure DEF Succeed, Reached, Wanted
<1>3. \A q \in Packages : UpToDate(q) => Atomic!Complete(q)
  BY ShownIs DEF UpToDate, Atomic!Complete, Chains, Shown, StepsOf
<1>4. pkg \in Override \ torn => MadeProducts[pkg]["target"] = src[pkg]
  <2>1. Current(pkg, "build") /\ Current(pkg, "target")
    BY <1>2 DEF UpToDate, StepsOf, Steps
  <2>2. pkg \notin torn => target[Loc(pkg)][pkg] = obj[pkg]
    BY <1>1, <2>1 DEF BuildInv, TruthInv, StampsTrue
  <2>3. pkg \in Override \ torn => obj[pkg] = src[pkg]
    BY <1>1, <2>1 DEF ShipInv, RebuildInv, Made
  <2>4. MadeProducts[pkg]["target"] = target[Loc(pkg)][pkg]
    BY <1>1, <2>1, ShownIs DEF MadeIn, Atomic!Products, ProductOf
  <2>5. QED
    BY <2>2, <2>3, <2>4
<1>5. UNCHANGED <<perPackage, src, stamp, tree, obj, host, target, torn>>
  BY DEF Succeed, Leave, products, dirs
<1>6. UNCHANGED <<DoneSteps, MadeProducts>>
  BY <1>5 DEF DoneSteps, MadeProducts, Current, ProductOf, Loc
<1>7. asked' = [asked EXCEPT ![pkg] = src[pkg]]
  BY DEF Succeed
<1>8. QED
  BY <1>1, <1>2, <1>3, <1>4, <1>5, <1>6, <1>7 DEF Atomic!Rebuilt

\* Every step of make is a step of AtomicBuild or does not show there.
LEMMA AtomicStep ==
    BuildInv /\ BuildTypeOK' /\ ShipInv /\ WorkInv /\ [BuildNext]_buildVars
        => [Atomic!AtomicNext]_Atomic!atomicVars
<1> SUFFICES ASSUME BuildInv, BuildTypeOK', ShipInv, WorkInv, [BuildNext]_buildVars
             PROVE  Atomic!AtomicNext \/ UNCHANGED Atomic!atomicVars
  OBVIOUS
<1>t. BuildTypeOK
  BY DEF BuildInv
<1>h. /\ host \in [Packages \cup {Global} -> [Packages -> Files]]
      /\ target \in [Packages \cup {Global} -> [Packages -> Files]]
  BY <1>t DEF BuildTypeOK, DirsTypeOK
<1>b. /\ stamp \in [Packages -> [Steps -> {"absent", "old", "current"}]]
      /\ job \in [Packages -> Steps \cup {"idle"}]
      /\ tree \in [Packages -> Files] /\ obj \in [Packages -> Files]
      /\ todo # {} => pkg \in Packages
  BY <1>t DEF BuildTypeOK, BuildControlTypeOK, ProductsTypeOK
<1>g. Global \notin Packages
  BY BuildAssumption
<1>j. JobInv
  BY DEF BuildInv
<1>s. ASSUME UNCHANGED <<perPackage, src, stamp, tree, obj, host, target, asked, torn>>
      PROVE  UNCHANGED Atomic!atomicVars
  BY <1>s, Hidden DEF Same, Current, ProductOf, Loc, Atomic!Products
<1>1. ASSUME NEW p \in Packages, Edit(p)
      PROVE  Atomic!Change(p)
  <2>1. UNCHANGED <<perPackage, stamp, tree, obj, host, target, asked, torn>>
    BY <1>1 DEF Edit, session, products, dirs
  <2>2. UNCHANGED <<DoneSteps, MadeProducts>>
    BY <2>1 DEF DoneSteps, MadeProducts, Current, ProductOf, Loc
  <2>3. QED
    BY <1>1, <2>1, <2>2 DEF Edit, Atomic!Change
<1>2. CASE \E g \in Goals : Make(g[1], g[2])
  BY <1>2, <1>s DEF Make, products, dirs
<1>3. ASSUME NEW s \in Steps, RemoveStamp(s)
      PROVE  \E p \in Packages : Atomic!Forget(p, s)
  <2>1. PICK p \in Packages : p = pkg
    BY <1>3, <1>b DEF RemoveStamp, NextRemoval
  <2>2. QED
    BY <1>3, <2>1, RemovalForgets
<1>4. CASE TearDirs
  <2>0. PICK p \in Packages : p = pkg
    BY <1>4, <1>b DEF TearDirs, NextRemoval
  <2>1. /\ UNCHANGED <<perPackage, src, stamp, tree, obj, asked>>
        /\ torn' = torn \cup {p}
    BY <1>4, <2>0, <1>b DEF TearDirs, NextRemoval, products
  <2>2. \A q \in Packages \ {p} : /\ host'[Loc(q)][q] = host[Loc(q)][q]
                                    /\ target'[Loc(q)][q] = target[Loc(q)][q]
    BY <1>4, <2>0, <1>h, <1>g, <2>1 DEF TearDirs, Loc
  <2>3. /\ host'[Loc(p)][p] \in {host[Loc(p)][p], Partial, 0}
        /\ target'[Loc(p)][p] \in {target[Loc(p)][p], Partial, 0}
    BY <1>4, <2>0, <1>h, <1>g, <2>1 DEF TearDirs, Loc, Torn
  <2>4. \A q \in Packages \ {p} : Same(q)
    BY <2>1, <2>2 DEF Same, Current, ProductOf, Loc, Atomic!Products
  <2>5. \A s \in Atomic!Products : ProductOf(p, s)' \in {ProductOf(p, s), Partial, 0}
    BY <2>1, <2>3 DEF ProductOf, Loc, Atomic!Products
  <2>6. Atomic!Tear(p)
    BY <2>1, <2>4, <2>5, TearShows DEF Current
  <2>7. QED
    BY <2>1, <2>6 DEF Atomic!AtomicNext
<1>5. CASE RemoveDirs
  <2>0. PICK p \in Packages : p = pkg
    BY <1>5, <1>b DEF RemoveDirs, NextRemoval
  <2>1. UNCHANGED <<perPackage, src, stamp, tree, obj, asked, torn>>
    BY <1>5, <2>0, <1>b DEF RemoveDirs, NextRemoval, products
  <2>2. \A q \in Packages : ~(perPackage /\ q = p) =>
           /\ host'[Loc(q)][q] = host[Loc(q)][q]
           /\ target'[Loc(q)][q] = target[Loc(q)][q]
    BY <1>5, <2>0, <1>h, <1>g, <2>1 DEF RemoveDirs, Loc
  <2>3. CASE perPackage
    <3>1. p \in torn
      BY <1>5, <2>0, <2>3 DEF RemoveDirs, NextRemoval, BuildInv, DircleanInv, RemovalNo, Steps
    <3>2. host'[Loc(p)][p] = 0 /\ target'[Loc(p)][p] = 0
      BY <1>5, <2>0, <1>h, <2>1, <2>3 DEF RemoveDirs, Loc, Empty
    <3>3. \A q \in Packages \ {p} : Same(q)
      BY <2>1, <2>2 DEF Same, Current, ProductOf, Loc, Atomic!Products
    <3>4. \A s \in Atomic!Products : ProductOf(p, s)' \in {ProductOf(p, s), Partial, 0}
      BY <2>1, <3>2 DEF ProductOf, Loc, Atomic!Products
    <3>5. Atomic!Tear(p)
      BY <2>1, <3>1, <3>3, <3>4, TearShows DEF Current
    <3>6. QED
      BY <2>1, <3>5 DEF Atomic!AtomicNext
  <2>4. CASE ~perPackage
    BY <2>1, <2>2, <2>4, Hidden DEF Same, Current, ProductOf, Loc, Atomic!Products
  <2>5. QED
    BY <2>3, <2>4
<1>6. CASE TearBuild
  <2>0. PICK p \in Packages : p = pkg
    BY <1>6, <1>b DEF TearBuild, NextRemoval
  <2>1. /\ UNCHANGED <<perPackage, src, host, target, asked>>
        /\ torn' = torn \cup {p}
    BY <1>6, <2>0, <1>b DEF TearBuild, NextRemoval, dirs
  <2>2. /\ \A q \in Packages \ {p} : /\ stamp'[q] = stamp[q]
                                       /\ tree'[q] = tree[q] /\ obj'[q] = obj[q]
        /\ \A s \in Steps : Current(p, s)' => Current(p, s)
    BY <1>6, <2>0, <1>b, <2>1 DEF TearBuild, Current
  <2>3. tree'[p] \in {Partial, 0} /\ obj'[p] \in {Partial, 0}
    BY <1>6, <2>0, <1>b, <2>1 DEF TearBuild
  <2>4. \A q \in Packages \ {p} : Same(q)
    BY <2>1, <2>2 DEF Same, Current, ProductOf, Loc, Atomic!Products
  <2>5. \A s \in Atomic!Products : ProductOf(p, s)' \in {ProductOf(p, s), Partial, 0}
    BY <2>1, <2>3 DEF ProductOf, Loc, Atomic!Products
  <2>6. Atomic!Tear(p)
    BY <2>1, <2>2, <2>4, <2>5, TearShows
  <2>7. QED
    BY <2>1, <2>6 DEF Atomic!AtomicNext
<1>7. CASE RemoveBuild
  <2>1. PICK p \in Packages : p = pkg
    BY <1>7, <1>b DEF RemoveBuild, NextRemoval
  <2>2. QED
    BY <1>7, <2>1, DircleanWipes DEF Atomic!AtomicNext
<1>8. ASSUME NEW p \in Packages, Source(p)
      PROVE  UNCHANGED Atomic!atomicVars
  <2>1. /\ UNCHANGED <<perPackage, src, stamp, obj, host, target, asked, torn>>
        /\ ~Current(p, "source") /\ \A q \in Packages \ {p} : tree'[q] = tree[q]
    BY <1>8, <1>b, <1>j DEF Source, Begin, Ready, End, JobInv, session, dirs, Steps
  <2>2. QED
    BY <2>1, Hidden DEF Same, Current, ProductOf, Loc, Atomic!Products
<1>9. ASSUME NEW p \in Packages, Patch(p)
      PROVE  UNCHANGED Atomic!atomicVars
  BY <1>9, <1>s DEF Patch, Begin, End, Stop, session, dirs
<1>10. ASSUME NEW p \in Packages, Configure(p)
      PROVE  Atomic!Tear(p) \/ UNCHANGED Atomic!atomicVars
  <2>1. UNCHANGED <<perPackage, src, stamp, tree, obj, asked>> /\ torn' \in {torn, torn \cup {p}}
    BY <1>10 DEF Configure, Begin, End, Stop, session, products
  <2>2. \A q \in Packages : /\ host'[Loc(q)][q] = host[Loc(q)][q]
                            /\ target'[Loc(q)][q] = target[Loc(q)][q]
    <3>1. CASE UNCHANGED dirs
      BY <3>1 DEF dirs
    <3>2. CASE /\ perPackage
               /\ host' = [host EXCEPT ![p] = Prepared(host, p)]
               /\ target' = [target EXCEPT ![p] = Prepared(target, p)]
      BY <1>h, <3>2, OwnFiles DEF Loc, BuildInv
    <3>3. QED
      BY <1>10, <3>1, <3>2 DEF Configure
  <2>3. \A q \in Packages : Same(q)
    BY <2>1, <2>2 DEF Same, Current, ProductOf, Loc, Atomic!Products
  <2>4. CASE torn' = torn
    BY <2>1, <2>3, <2>4, Hidden
  <2>5. CASE torn' = torn \cup {p}
    <3>1. /\ \A s \in Steps : Current(p, s)' => Current(p, s)
          /\ \A s \in Atomic!Products : Current(p, s)' => ProductOf(p, s)' = ProductOf(p, s)
      BY <2>3 DEF Same, Atomic!Products, Steps
    <3>2. QED
      BY <2>1, <2>3, <2>5, <3>1, TearShows
  <2>6. QED
    BY <2>1, <2>4, <2>5
<1>11. ASSUME NEW p \in Packages, Build(p)
      PROVE  UNCHANGED Atomic!atomicVars
  <2>1. /\ UNCHANGED <<perPackage, src, stamp, tree, host, target, asked, torn>>
        /\ ~Current(p, "build") /\ \A q \in Packages \ {p} : obj'[q] = obj[q]
    BY <1>11, <1>b, <1>j DEF Build, Begin, Ready, End, JobInv, session, dirs, Steps
  <2>2. QED
    BY <2>1, Hidden DEF Same, Current, ProductOf, Loc, Atomic!Products
<1>12. ASSUME NEW p \in Packages, InstallStaging(p)
      PROVE  UNCHANGED Atomic!atomicVars
  <2>1. /\ UNCHANGED <<perPackage, src, tree, obj, target, asked, torn>>
        /\ Installs(p, "staging", host, host')
    BY <1>12, <1>t, StagingEffect DEF products, session
  <2>2. UNCHANGED stamp /\ ~Current(p, "staging")
    BY <1>b, <1>j, <2>1 DEF Installs, Begin, Ready, End, JobInv, Steps
  <2>3. \A q \in Packages \ {p} : host'[Loc(q)][q] = host[Loc(q)][q]
    BY <2>1 DEF Installs
  <2>4. QED
    BY <2>1, <2>2, <2>3, Hidden DEF Same, Current, ProductOf, Loc, Atomic!Products
<1>13. ASSUME NEW p \in Packages, InstallTarget(p)
      PROVE  UNCHANGED Atomic!atomicVars
  <2>1. /\ UNCHANGED <<perPackage, src, tree, obj, host, asked, torn>>
        /\ Installs(p, "target", target, target')
    BY <1>13, <1>t, TargetEffect DEF products, session
  <2>2. UNCHANGED stamp /\ ~Current(p, "target")
    BY <1>b, <1>j, <2>1 DEF Installs, Begin, Ready, End, JobInv, Steps
  <2>3. \A q \in Packages \ {p} : target'[Loc(q)][q] = target[Loc(q)][q]
    BY <2>1 DEF Installs
  <2>4. QED
    BY <2>1, <2>2, <2>3, Hidden DEF Same, Current, ProductOf, Loc, Atomic!Products
<1>14. ASSUME NEW p \in Packages, Installed(p) \/ Fail(p)
      PROVE  UNCHANGED Atomic!atomicVars
  BY <1>14, <1>s DEF Installed, Fail, Begin, End, Stop, session, products, dirs
<1>15. ASSUME NEW p \in Packages, Touch(p)
      PROVE  job[p] \in Steps /\ Atomic!Finish(p, job[p])
  BY <1>15, TouchFinishes
<1>16. ASSUME NEW p \in Packages, Finalize(p)
      PROVE  UNCHANGED Atomic!atomicVars
  <2>1. /\ UNCHANGED <<perPackage, src, stamp, tree, obj, host, asked, torn>>
        /\ perPackage
    BY <1>16 DEF Finalize, products
  <2>2. \A q \in Packages : Loc(q) = q /\ target'[q] = target[q]
    BY <1>16, <1>h, <1>g, <2>1 DEF Finalize, Loc
  <2>3. QED
    BY <2>1, <2>2, Hidden DEF Same, Current, ProductOf, Loc, Atomic!Products
<1>17. CASE Succeed
  <2>1. CASE goal \in {"rebuild", "reconfigure"}
    BY <1>17, <2>1, RebuildShows DEF Atomic!AtomicNext
  <2>2. CASE goal \notin {"rebuild", "reconfigure"}
    BY <1>17, <2>2, <1>s DEF Succeed, Leave, products, dirs
  <2>3. QED
    BY <2>1, <2>2
<1>18. CASE GiveUp \/ Kill
  BY <1>18, <1>s DEF GiveUp, Kill, Leave, products, dirs
<1>19. CASE UNCHANGED buildVars
  BY <1>19, <1>s DEF buildVars, session, products, dirs
<1>20. ASSUME NEW p \in Packages, Step(p) \/ Finalize(p)
       PROVE  Atomic!AtomicNext \/ UNCHANGED Atomic!atomicVars
  BY <1>20, <1>8, <1>9, <1>10, <1>11, <1>12, <1>13, <1>14, <1>15, <1>16, AtomicSteps
     DEF Step, Atomic!AtomicNext
<1>21. QED
  BY <1>1, <1>2, <1>3, <1>4, <1>5, <1>6, <1>7, <1>14, <1>17, <1>18, <1>19, <1>20, AtomicSteps
     DEF BuildNext, MakeRuns, Remove, Atomic!AtomicNext

\* make, with commands that fail, parallel jobs, shared or per-package directories
\* and interruptions at any point, implements AtomicBuild: every step of a package
\* is complete or to be done again, is made of what the steps before it made, and
\* a rebuild that succeeds has installed the sources of now.
THEOREM BuildImplemented == BuildSpec => ImplementsBuild
<1>1. BuildInit => Atomic!AtomicInit /\ WorkInv
  <2> SUFFICES ASSUME BuildInit PROVE Atomic!AtomicInit /\ WorkInv
    OBVIOUS
  <2>1. WorkInv
    BY DEF BuildInit, WorkInv
  <2>2. \A p \in Packages, s \in Steps : ~Current(p, s)
    BY DEF BuildInit, Current
  <2>3. \A p \in Packages : Shown(p) = {} /\ MadeIn(p) = Atomic!Nothing
    BY <2>2 DEF Shown, MadeIn, Atomic!Nothing, Atomic!Products, Steps
  <2>4. /\ DoneSteps = [p \in Packages |-> {}]
        /\ MadeProducts = [p \in Packages |-> Atomic!Nothing]
    BY <2>3, ShownIs
  <2>5. QED
    BY <2>1, <2>4 DEF BuildInit, Atomic!AtomicInit, Empty
<1>2. QED
  BY <1>1, WorkStep, AtomicStep, BuildTypeCorrect, ShipInvariant, PTL
     DEF BuildSpec, ImplementsBuild, Atomic!AtomicSpec
=============================================================================
