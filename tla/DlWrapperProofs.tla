-------------------------- MODULE DlWrapperProofs --------------------------
(***************************************************************************)
(* Proofs about DlWrapper for any number of builds, URIs and contents, any *)
(* hash policies and any set of faults.                                    *)
(***************************************************************************)
EXTENDS DlWrapper, TLAPS

\* check-hash ends with one of four codes, and 0 means what the manual says.
LEMMA HashCodeMeaning ==
    ASSUME NEW p, NEW c
    PROVE  /\ HashCode(p, c) \in {0, 2, 3, 4}
           /\ HashCode(p, c) = 0 => Verified(p, c)
<1>1. HashCode(p, c) \in {0, 2, 3, 4}
  BY DEF HashCode
<1>2. ASSUME HashCode(p, c) = 0
      PROVE  Verified(p, c)
  <2>1. AllLinesHold(p, c)
    BY <1>2 DEF HashCode
  <2>2. p.hfiles = 0 \/ Relevant(p) # {} \/ p.exempt
    BY <1>2, <2>1 DEF HashCode
  <2>3. QED
    BY <2>1, <2>2 DEF Verified
<1>3. QED
  BY <1>1, <1>2

\* A program that fails in check-hash never makes a file pass, and never makes the
\* wrapper keep one as unlisted: it can only condemn it.
LEMMA CodesMeaning ==
    ASSUME NEW b, NEW c
    PROVE  /\ 0 \in Codes(b, c) <=> Code(b, c) = 0
           /\ 3 \in Codes(b, c) <=> Code(b, c) = 3
           /\ 2 \in Codes(b, c) => JudgedBad(b, c)
BY DEF Codes, FailureCodes, JudgedBad
-----------------------------------------------------------------------------
\* The lock is held exactly by the build whose wrapper is running.
LockInv == \A b \in Builds : pc[b] \in Locked <=> lock = b

\* What the holder knows of the file at the final name.
OutInv == \A b \in Builds :
    /\ pc[b] = "rm" => out # Absent /\ JudgedBad(b, out)
    /\ pc[b] \in {"cp", "uri", "backend", "post", "verify", "mktemp", "cat", "mv"}
          => out = Absent
    /\ pc[b] \in {"cp", "copying"} => old # Absent
    /\ pc[b] = "copying" => out = Truncated

\* What the holder knows of its download.
Checked(b, c) ==
    /\ c \in Contents
    /\ Code(b, c) \in {0, 3}
    /\ rc[b] = 0 <=> Code(b, c) = 0

DownloadInv == \A b \in Builds :
    /\ pc[b] = "backend" => uri[b] \in 1..NUris
    /\ pc[b] \in {"post", "verify"} => tmpf[b] \in Contents /\ uri[b] \in 1..NUris
    /\ pc[b] \in {"mktemp", "cat"} => Checked(b, tmpf[b])
    /\ pc[b] = "mv" => Checked(b, tmpOutput[b])

\* A result exists exactly when the wrapper has ended, and only a build that has
\* been told "yes" can lose its file.
ResultInv == \A b \in Builds :
    /\ pc[b] \in Locked \cup {"idle", "flock"} => result[b] = "none"
    /\ pc[b] = "extracted" => result[b] = "ok"
    /\ b \in lost => result[b] = "ok"

\* With the same hash files everywhere, the file a build was told of stays unless
\* it is lost: so a legacy file is copied only when no build counts on one.
ServedInv == SamePolicy => \A b \in Builds :
    /\ pc[b] = "copying" => \A a \in Builds \ lost : result[a] # "ok"
    /\ result[b] = "ok" /\ b \notin lost => out # Absent /\ Code(b, out) = 0
    /\ pc[b] = "extracted" /\ b \notin lost => got[b] # Absent /\ Code(b, got[b]) = 0

DlInv == DlTypeOK /\ LockInv /\ OutInv /\ DownloadInv /\ ResultInv /\ ServedInv

LEMMA DlInitInv == DlInit => DlInv
<1> SUFFICES ASSUME DlInit PROVE DlInv
  OBVIOUS
<1> USE DlAssumption DEF DlInit
<1>1. DlTypeOK
  BY DEF DlTypeOK, ControlTypeOK, FilesTypeOK, File
<1>2. LockInv
  BY DEF LockInv, Locked
<1>3. OutInv /\ DownloadInv /\ ResultInv
  BY DEF OutInv, DownloadInv, ResultInv
<1>4. ServedInv
  BY DEF ServedInv
<1>5. QED
  BY <1>1, <1>2, <1>3, <1>4 DEF DlInv
\* Every step keeps the types of the control variables.
LEMMA ControlStep == DlInv /\ [DlNext]_dlVars => ControlTypeOK'
<1> SUFFICES ASSUME DlInv, [DlNext]_dlVars
             PROVE  ControlTypeOK'
  OBVIOUS
<1>a. NUris \in Nat /\ MaxRuns \in Nat
  BY DlAssumption
<1> USE DEF DlInv, DlTypeOK, ControlTypeOK, DownloadInv, Locked
<1>1. ASSUME NEW b \in Builds, Make(b)
      PROVE  ControlTypeOK'
  BY <1>1, <1>a DEF Make, Goto
<1>2. ASSUME NEW b \in Builds, Flock(b)
      PROVE  ControlTypeOK'
  BY <1>2, <1>a DEF Flock, Goto
<1>3. ASSUME NEW b \in Builds, Legacy(b)
      PROVE  ControlTypeOK'
  BY <1>3, <1>a DEF Legacy, Goto
<1>4. ASSUME NEW b \in Builds, CopyLegacy(b)
      PROVE  ControlTypeOK'
  BY <1>4, <1>a DEF CopyLegacy, Goto
<1>5. ASSUME NEW b \in Builds, FinishCopy(b)
      PROVE  ControlTypeOK'
  BY <1>5, <1>a DEF FinishCopy, Goto
<1>6. ASSUME NEW b \in Builds, CheckExisting(b)
      PROVE  ControlTypeOK'
  BY <1>6, <1>a DEF CheckExisting, Goto, Exit, Running
<1>7. ASSUME NEW b \in Builds, RemoveExisting(b)
      PROVE  ControlTypeOK'
  BY <1>7, <1>a DEF RemoveExisting, Goto, Exit, Running
<1>8. ASSUME NEW b \in Builds, NextUri(b)
      PROVE  ControlTypeOK'
  BY <1>8, <1>a DEF NextUri, Goto, Exit, Running
<1>9. ASSUME NEW b \in Builds, Backend(b)
      PROVE  ControlTypeOK'
  BY <1>9, <1>a DEF Backend, Goto, TryNext
<1>10. ASSUME NEW b \in Builds, PostProcess(b)
      PROVE  ControlTypeOK'
  BY <1>10, <1>a DEF PostProcess, Goto, TryNext
<1>11. ASSUME NEW b \in Builds, VerifyDownload(b)
      PROVE  ControlTypeOK'
  BY <1>11, <1>a DEF VerifyDownload, Goto, TryNext
<1>12. ASSUME NEW b \in Builds, MakeTmpOutput(b)
      PROVE  ControlTypeOK'
  BY <1>12, <1>a DEF MakeTmpOutput, Goto, Exit, Running
<1>13. ASSUME NEW b \in Builds, CatOutput(b)
      PROVE  ControlTypeOK'
  BY <1>13, <1>a DEF CatOutput, Goto, Exit, Running
<1>14. ASSUME NEW b \in Builds, Rename(b)
      PROVE  ControlTypeOK'
  BY <1>14, <1>a DEF Rename, Exit
<1>15. ASSUME NEW b \in Builds, Extract(b)
      PROVE  ControlTypeOK'
  BY <1>15, <1>a DEF Extract, Goto
<1>16. ASSUME NEW b \in Builds, Kill(b)
      PROVE  ControlTypeOK'
  BY <1>16, <1>a DEF Kill, Goto, Exit
<1>17. CASE UNCHANGED dlVars
  BY <1>17 DEF dlVars
<1>18. QED
  BY <1>1, <1>2, <1>3, <1>4, <1>5, <1>6, <1>7, <1>8, <1>9, <1>10, <1>11, <1>12, <1>13, <1>14, <1>15, <1>16, <1>17 DEF DlNext, Wrapper

\* Every step keeps the types of the files.
LEMMA FilesStep == DlInv /\ [DlNext]_dlVars => FilesTypeOK'
<1> SUFFICES ASSUME DlInv, [DlNext]_dlVars
             PROVE  FilesTypeOK'
  OBVIOUS
<1>a. /\ Served \in [1..NUris -> SUBSET Contents]
      /\ Repack \in [Contents -> Contents \cup {Absent}]
  BY DlAssumption
<1> USE DEF DlInv, DlTypeOK, FilesTypeOK, DownloadInv, File
<1>1. ASSUME NEW b \in Builds, Make(b)
      PROVE  FilesTypeOK'
  BY <1>1, <1>a DEF Make, Goto
<1>2. ASSUME NEW b \in Builds, Flock(b)
      PROVE  FilesTypeOK'
  BY <1>2, <1>a DEF Flock, Goto
<1>3. ASSUME NEW b \in Builds, Legacy(b)
      PROVE  FilesTypeOK'
  BY <1>3, <1>a DEF Legacy, Goto
<1>4. ASSUME NEW b \in Builds, CopyLegacy(b)
      PROVE  FilesTypeOK'
  BY <1>4, <1>a DEF CopyLegacy, Goto
<1>5. ASSUME NEW b \in Builds, FinishCopy(b)
      PROVE  FilesTypeOK'
  BY <1>5, <1>a DEF FinishCopy, Goto
<1>6. ASSUME NEW b \in Builds, CheckExisting(b)
      PROVE  FilesTypeOK'
  BY <1>6, <1>a DEF CheckExisting, Goto, Exit, Running
<1>7. ASSUME NEW b \in Builds, RemoveExisting(b)
      PROVE  FilesTypeOK'
  BY <1>7, <1>a DEF RemoveExisting, Goto, Exit, Running
<1>8. ASSUME NEW b \in Builds, NextUri(b)
      PROVE  FilesTypeOK'
  BY <1>8, <1>a DEF NextUri, Goto, Exit, Running
<1>9. ASSUME NEW b \in Builds, Backend(b)
      PROVE  FilesTypeOK'
  BY <1>9, <1>a DEF Backend, Goto, TryNext
<1>10. ASSUME NEW b \in Builds, PostProcess(b)
      PROVE  FilesTypeOK'
  BY <1>10, <1>a DEF PostProcess, Goto, TryNext
<1>11. ASSUME NEW b \in Builds, VerifyDownload(b)
      PROVE  FilesTypeOK'
  BY <1>11, <1>a DEF VerifyDownload, Goto, TryNext
<1>12. ASSUME NEW b \in Builds, MakeTmpOutput(b)
      PROVE  FilesTypeOK'
  BY <1>12, <1>a DEF MakeTmpOutput, Goto, Exit, Running
<1>13. ASSUME NEW b \in Builds, CatOutput(b)
      PROVE  FilesTypeOK'
  BY <1>13, <1>a DEF CatOutput, Goto, Exit, Running
<1>14. ASSUME NEW b \in Builds, Rename(b)
      PROVE  FilesTypeOK'
  BY <1>14, <1>a DEF Rename, Exit
<1>15. ASSUME NEW b \in Builds, Extract(b)
      PROVE  FilesTypeOK'
  BY <1>15, <1>a DEF Extract, Goto
<1>16. ASSUME NEW b \in Builds, Kill(b)
      PROVE  FilesTypeOK'
  BY <1>16, <1>a DEF Kill, Goto, Exit
<1>17. CASE UNCHANGED dlVars
  BY <1>17 DEF dlVars
<1>18. QED
  BY <1>1, <1>2, <1>3, <1>4, <1>5, <1>6, <1>7, <1>8, <1>9, <1>10, <1>11, <1>12, <1>13, <1>14, <1>15, <1>16, <1>17 DEF DlNext, Wrapper

\* Every step keeps the lock with the running wrapper.
LEMMA LockStep == DlInv /\ [DlNext]_dlVars => LockInv'
<1> SUFFICES ASSUME DlInv, [DlNext]_dlVars
             PROVE  LockInv'
  OBVIOUS
<1>a. Free \notin Builds
  BY DlAssumption
<1> USE DEF DlInv, DlTypeOK, ControlTypeOK, LockInv, Locked
<1>1. ASSUME NEW b \in Builds, Make(b)
      PROVE  LockInv'
  BY <1>1, <1>a DEF Make, Goto
<1>2. ASSUME NEW b \in Builds, Flock(b)
      PROVE  LockInv'
  BY <1>2, <1>a DEF Flock, Goto
<1>3. ASSUME NEW b \in Builds, Legacy(b)
      PROVE  LockInv'
  BY <1>3, <1>a DEF Legacy, Goto
<1>4. ASSUME NEW b \in Builds, CopyLegacy(b)
      PROVE  LockInv'
  BY <1>4, <1>a DEF CopyLegacy, Goto
<1>5. ASSUME NEW b \in Builds, FinishCopy(b)
      PROVE  LockInv'
  BY <1>5, <1>a DEF FinishCopy, Goto
<1>6. ASSUME NEW b \in Builds, CheckExisting(b)
      PROVE  LockInv'
  BY <1>6, <1>a DEF CheckExisting, Goto, Exit, Running
<1>7. ASSUME NEW b \in Builds, RemoveExisting(b)
      PROVE  LockInv'
  BY <1>7, <1>a DEF RemoveExisting, Goto, Exit, Running
<1>8. ASSUME NEW b \in Builds, NextUri(b)
      PROVE  LockInv'
  BY <1>8, <1>a DEF NextUri, Goto, Exit, Running
<1>9. ASSUME NEW b \in Builds, Backend(b)
      PROVE  LockInv'
  BY <1>9, <1>a DEF Backend, Goto, TryNext
<1>10. ASSUME NEW b \in Builds, PostProcess(b)
      PROVE  LockInv'
  BY <1>10, <1>a DEF PostProcess, Goto, TryNext
<1>11. ASSUME NEW b \in Builds, VerifyDownload(b)
      PROVE  LockInv'
  BY <1>11, <1>a DEF VerifyDownload, Goto, TryNext
<1>12. ASSUME NEW b \in Builds, MakeTmpOutput(b)
      PROVE  LockInv'
  BY <1>12, <1>a DEF MakeTmpOutput, Goto, Exit, Running
<1>13. ASSUME NEW b \in Builds, CatOutput(b)
      PROVE  LockInv'
  BY <1>13, <1>a DEF CatOutput, Goto, Exit, Running
<1>14. ASSUME NEW b \in Builds, Rename(b)
      PROVE  LockInv'
  BY <1>14, <1>a DEF Rename, Exit
<1>15. ASSUME NEW b \in Builds, Extract(b)
      PROVE  LockInv'
  BY <1>15, <1>a DEF Extract, Goto
<1>16. ASSUME NEW b \in Builds, Kill(b)
      PROVE  LockInv'
  BY <1>16, <1>a DEF Kill, Goto, Exit
<1>17. CASE UNCHANGED dlVars
  BY <1>17 DEF dlVars
<1>18. QED
  BY <1>1, <1>2, <1>3, <1>4, <1>5, <1>6, <1>7, <1>8, <1>9, <1>10, <1>11, <1>12, <1>13, <1>14, <1>15, <1>16, <1>17 DEF DlNext, Wrapper

\* Every step keeps what the holder knows of the final name.
LEMMA OutStep == DlInv /\ [DlNext]_dlVars => OutInv'
<1> SUFFICES ASSUME DlInv, [DlNext]_dlVars
             PROVE  OutInv'
  OBVIOUS
<1>a. Free \notin Builds
  BY DlAssumption
<1> USE DEF DlInv, DlTypeOK, ControlTypeOK, FilesTypeOK, LockInv, OutInv, JudgedBad, Locked, Code
<1>1. ASSUME NEW b \in Builds, Make(b)
      PROVE  OutInv'
  BY <1>1, <1>a DEF Make, Goto
<1>2. ASSUME NEW b \in Builds, Flock(b)
      PROVE  OutInv'
  BY <1>2, <1>a DEF Flock, Goto
<1>3. ASSUME NEW b \in Builds, Legacy(b)
      PROVE  OutInv'
  BY <1>3, <1>a DEF Legacy, Goto
<1>4. ASSUME NEW b \in Builds, CopyLegacy(b)
      PROVE  OutInv'
  BY <1>4, <1>a DEF CopyLegacy, Goto
<1>5. ASSUME NEW b \in Builds, FinishCopy(b)
      PROVE  OutInv'
  BY <1>5, <1>a DEF FinishCopy, Goto
<1>6. ASSUME NEW b \in Builds, CheckExisting(b)
      PROVE  OutInv'
  BY <1>6, <1>a, CodesMeaning DEF CheckExisting, Goto, Exit, Running
<1>7. ASSUME NEW b \in Builds, RemoveExisting(b)
      PROVE  OutInv'
  BY <1>7, <1>a DEF RemoveExisting, Goto, Exit, Running
<1>8. ASSUME NEW b \in Builds, NextUri(b)
      PROVE  OutInv'
  BY <1>8, <1>a DEF NextUri, Goto, Exit, Running
<1>9. ASSUME NEW b \in Builds, Backend(b)
      PROVE  OutInv'
  BY <1>9, <1>a DEF Backend, Goto, TryNext
<1>10. ASSUME NEW b \in Builds, PostProcess(b)
      PROVE  OutInv'
  BY <1>10, <1>a DEF PostProcess, Goto, TryNext
<1>11. ASSUME NEW b \in Builds, VerifyDownload(b)
      PROVE  OutInv'
  BY <1>11, <1>a DEF VerifyDownload, Goto, TryNext
<1>12. ASSUME NEW b \in Builds, MakeTmpOutput(b)
      PROVE  OutInv'
  BY <1>12, <1>a DEF MakeTmpOutput, Goto, Exit, Running
<1>13. ASSUME NEW b \in Builds, CatOutput(b)
      PROVE  OutInv'
  BY <1>13, <1>a DEF CatOutput, Goto, Exit, Running
<1>14. ASSUME NEW b \in Builds, Rename(b)
      PROVE  OutInv'
  BY <1>14, <1>a DEF Rename, Exit
<1>15. ASSUME NEW b \in Builds, Extract(b)
      PROVE  OutInv'
  BY <1>15, <1>a DEF Extract, Goto
<1>16. ASSUME NEW b \in Builds, Kill(b)
      PROVE  OutInv'
  BY <1>16, <1>a DEF Kill, Goto, Exit
<1>17. CASE UNCHANGED dlVars
  BY <1>17 DEF dlVars
<1>18. QED
  BY <1>1, <1>2, <1>3, <1>4, <1>5, <1>6, <1>7, <1>8, <1>9, <1>10, <1>11, <1>12, <1>13, <1>14, <1>15, <1>16, <1>17 DEF DlNext, Wrapper

\* Every step keeps what a wrapper knows of its download.
LEMMA DownloadStep == DlInv /\ [DlNext]_dlVars => DownloadInv'
<1> SUFFICES ASSUME DlInv, [DlNext]_dlVars
             PROVE  DownloadInv'
  OBVIOUS
<1>a. /\ Served \in [1..NUris -> SUBSET Contents]
      /\ Repack \in [Contents -> Contents \cup {Absent}]
      /\ NUris \in Nat /\ Absent \notin Contents
  BY DlAssumption
<1> USE DEF DlInv, DlTypeOK, ControlTypeOK, FilesTypeOK, DownloadInv, Checked, Code
<1>1. ASSUME NEW b \in Builds, Make(b)
      PROVE  DownloadInv'
  BY <1>1, <1>a DEF Make, Goto
<1>2. ASSUME NEW b \in Builds, Flock(b)
      PROVE  DownloadInv'
  BY <1>2, <1>a DEF Flock, Goto
<1>3. ASSUME NEW b \in Builds, Legacy(b)
      PROVE  DownloadInv'
  BY <1>3, <1>a DEF Legacy, Goto
<1>4. ASSUME NEW b \in Builds, CopyLegacy(b)
      PROVE  DownloadInv'
  BY <1>4, <1>a DEF CopyLegacy, Goto
<1>5. ASSUME NEW b \in Builds, FinishCopy(b)
      PROVE  DownloadInv'
  BY <1>5, <1>a DEF FinishCopy, Goto
<1>6. ASSUME NEW b \in Builds, CheckExisting(b)
      PROVE  DownloadInv'
  BY <1>6, <1>a DEF CheckExisting, Goto, Exit, Running
<1>7. ASSUME NEW b \in Builds, RemoveExisting(b)
      PROVE  DownloadInv'
  BY <1>7, <1>a DEF RemoveExisting, Goto, Exit, Running
<1>8. ASSUME NEW b \in Builds, NextUri(b)
      PROVE  DownloadInv'
  BY <1>8, <1>a DEF NextUri, Goto, Exit, Running
<1>9. ASSUME NEW b \in Builds, Backend(b)
      PROVE  DownloadInv'
  BY <1>9, <1>a DEF Backend, Goto, TryNext
<1>10. ASSUME NEW b \in Builds, PostProcess(b)
      PROVE  DownloadInv'
  BY <1>10, <1>a DEF PostProcess, Goto, TryNext
<1>11. ASSUME NEW b \in Builds, VerifyDownload(b)
      PROVE  DownloadInv'
  BY <1>11, <1>a, CodesMeaning DEF VerifyDownload, Goto, TryNext
<1>12. ASSUME NEW b \in Builds, MakeTmpOutput(b)
      PROVE  DownloadInv'
  BY <1>12, <1>a DEF MakeTmpOutput, Goto, Exit, Running
<1>13. ASSUME NEW b \in Builds, CatOutput(b)
      PROVE  DownloadInv'
  BY <1>13, <1>a DEF CatOutput, Goto, Exit, Running
<1>14. ASSUME NEW b \in Builds, Rename(b)
      PROVE  DownloadInv'
  BY <1>14, <1>a DEF Rename, Exit
<1>15. ASSUME NEW b \in Builds, Extract(b)
      PROVE  DownloadInv'
  BY <1>15, <1>a DEF Extract, Goto
<1>16. ASSUME NEW b \in Builds, Kill(b)
      PROVE  DownloadInv'
  BY <1>16, <1>a DEF Kill, Goto, Exit
<1>17. CASE UNCHANGED dlVars
  BY <1>17 DEF dlVars
<1>18. QED
  BY <1>1, <1>2, <1>3, <1>4, <1>5, <1>6, <1>7, <1>8, <1>9, <1>10, <1>11, <1>12, <1>13, <1>14, <1>15, <1>16, <1>17 DEF DlNext, Wrapper

\* Every step keeps results with the wrappers that ended.
LEMMA ResultStep == DlInv /\ [DlNext]_dlVars => ResultInv'
<1> SUFFICES ASSUME DlInv, [DlNext]_dlVars
             PROVE  ResultInv'
  OBVIOUS
<1> USE DEF DlInv, DlTypeOK, ControlTypeOK, ResultInv, Locked
<1>1. ASSUME NEW b \in Builds, Make(b)
      PROVE  ResultInv'
  BY <1>1 DEF Make, Goto
<1>2. ASSUME NEW b \in Builds, Flock(b)
      PROVE  ResultInv'
  BY <1>2 DEF Flock, Goto
<1>3. ASSUME NEW b \in Builds, Legacy(b)
      PROVE  ResultInv'
  BY <1>3 DEF Legacy, Goto
<1>4. ASSUME NEW b \in Builds, CopyLegacy(b)
      PROVE  ResultInv'
  BY <1>4 DEF CopyLegacy, Goto
<1>5. ASSUME NEW b \in Builds, FinishCopy(b)
      PROVE  ResultInv'
  BY <1>5 DEF FinishCopy, Goto
<1>6. ASSUME NEW b \in Builds, CheckExisting(b)
      PROVE  ResultInv'
  BY <1>6 DEF CheckExisting, Goto, Exit, Running
<1>7. ASSUME NEW b \in Builds, RemoveExisting(b)
      PROVE  ResultInv'
  BY <1>7 DEF RemoveExisting, Goto, Exit, Running
<1>8. ASSUME NEW b \in Builds, NextUri(b)
      PROVE  ResultInv'
  BY <1>8 DEF NextUri, Goto, Exit, Running
<1>9. ASSUME NEW b \in Builds, Backend(b)
      PROVE  ResultInv'
  BY <1>9 DEF Backend, Goto, TryNext
<1>10. ASSUME NEW b \in Builds, PostProcess(b)
      PROVE  ResultInv'
  BY <1>10 DEF PostProcess, Goto, TryNext
<1>11. ASSUME NEW b \in Builds, VerifyDownload(b)
      PROVE  ResultInv'
  BY <1>11 DEF VerifyDownload, Goto, TryNext
<1>12. ASSUME NEW b \in Builds, MakeTmpOutput(b)
      PROVE  ResultInv'
  BY <1>12 DEF MakeTmpOutput, Goto, Exit, Running
<1>13. ASSUME NEW b \in Builds, CatOutput(b)
      PROVE  ResultInv'
  BY <1>13 DEF CatOutput, Goto, Exit, Running
<1>14. ASSUME NEW b \in Builds, Rename(b)
      PROVE  ResultInv'
  BY <1>14 DEF Rename, Exit
<1>15. ASSUME NEW b \in Builds, Extract(b)
      PROVE  ResultInv'
  BY <1>15 DEF Extract, Goto
<1>16. ASSUME NEW b \in Builds, Kill(b)
      PROVE  ResultInv'
  BY <1>16 DEF Kill, Goto, Exit
<1>17. CASE UNCHANGED dlVars
  BY <1>17 DEF dlVars
<1>18. QED
  BY <1>1, <1>2, <1>3, <1>4, <1>5, <1>6, <1>7, <1>8, <1>9, <1>10, <1>11, <1>12, <1>13, <1>14, <1>15, <1>16, <1>17 DEF DlNext, Wrapper

\* Every step leaves the file of the builds that were told of it.
LEMMA ServedStep == DlInv /\ [DlNext]_dlVars => ServedInv'
<1> SUFFICES ASSUME DlInv, [DlNext]_dlVars
             PROVE  ServedInv'
  OBVIOUS
<1>a. Absent \notin Contents
  BY DlAssumption
<1> USE DEF DlInv, DlTypeOK, ControlTypeOK, FilesTypeOK, LockInv, OutInv, DownloadInv, Checked, ResultInv, ServedInv, SamePolicy, Locked, Code
<1>1. ASSUME NEW b \in Builds, Make(b)
      PROVE  ServedInv'
  BY <1>1, <1>a DEF Make, Goto
<1>2. ASSUME NEW b \in Builds, Flock(b)
      PROVE  ServedInv'
  BY <1>2, <1>a DEF Flock, Goto
<1>3. ASSUME NEW b \in Builds, Legacy(b)
      PROVE  ServedInv'
  BY <1>3, <1>a DEF Legacy, Goto
<1>4. ASSUME NEW b \in Builds, CopyLegacy(b)
      PROVE  ServedInv'
  BY <1>4, <1>a DEF CopyLegacy, Goto
<1>5. ASSUME NEW b \in Builds, FinishCopy(b)
      PROVE  ServedInv'
  BY <1>5, <1>a DEF FinishCopy, Goto
<1>6. ASSUME NEW b \in Builds, CheckExisting(b)
      PROVE  ServedInv'
  BY <1>6, <1>a, CodesMeaning DEF CheckExisting, Goto, Exit, Running
<1>7. ASSUME NEW b \in Builds, RemoveExisting(b)
      PROVE  ServedInv'
  BY <1>7, <1>a DEF RemoveExisting, Goto, Exit, Running
<1>8. ASSUME NEW b \in Builds, NextUri(b)
      PROVE  ServedInv'
  BY <1>8, <1>a DEF NextUri, Goto, Exit, Running
<1>9. ASSUME NEW b \in Builds, Backend(b)
      PROVE  ServedInv'
  BY <1>9, <1>a DEF Backend, Goto, TryNext
<1>10. ASSUME NEW b \in Builds, PostProcess(b)
      PROVE  ServedInv'
  BY <1>10, <1>a DEF PostProcess, Goto, TryNext
<1>11. ASSUME NEW b \in Builds, VerifyDownload(b)
      PROVE  ServedInv'
  BY <1>11, <1>a DEF VerifyDownload, Goto, TryNext
<1>12. ASSUME NEW b \in Builds, MakeTmpOutput(b)
      PROVE  ServedInv'
  BY <1>12, <1>a DEF MakeTmpOutput, Goto, Exit, Running
<1>13. ASSUME NEW b \in Builds, CatOutput(b)
      PROVE  ServedInv'
  BY <1>13, <1>a DEF CatOutput, Goto, Exit, Running
<1>14. ASSUME NEW b \in Builds, Rename(b)
      PROVE  ServedInv'
  BY <1>14, <1>a DEF Rename, Exit
<1>15. ASSUME NEW b \in Builds, Extract(b)
      PROVE  ServedInv'
  BY <1>15, <1>a DEF Extract, Goto
<1>16. ASSUME NEW b \in Builds, Kill(b)
      PROVE  ServedInv'
  BY <1>16, <1>a DEF Kill, Goto, Exit
<1>17. CASE UNCHANGED dlVars
  BY <1>17 DEF dlVars
<1>18. QED
  BY <1>1, <1>2, <1>3, <1>4, <1>5, <1>6, <1>7, <1>8, <1>9, <1>10, <1>11, <1>12, <1>13, <1>14, <1>15, <1>16, <1>17 DEF DlNext, Wrapper

\* DlInv is inductive.
LEMMA DlStepInv == DlInv /\ [DlNext]_dlVars => DlInv'
BY ControlStep, FilesStep, LockStep, OutStep, DownloadStep, ResultStep, ServedStep
   DEF DlInv, DlTypeOK

LEMMA DlInvariant == DlSpec => []DlInv
BY DlInitInv, DlStepInv, PTL DEF DlSpec
-----------------------------------------------------------------------------
\* Every variable of the wrappers keeps its type.
THEOREM DlTypeCorrect == DlSpec => []DlTypeOK
BY DlInvariant, PTL DEF DlInv

\* As long as all builds have the same hash files, a build whose download step
\* succeeded (dl-wrapper exited with 0) finds a verified file under the final
\* name, whatever the other builds do and whatever fails or is killed, unless a sum
\* program failed on that file in between.
THEOREM DlSuccessIsVerified == DlSpec => []SuccessIsVerified
<1>1. DlInv => SuccessIsVerified
  BY HashCodeMeaning DEF DlInv, ServedInv, SuccessIsVerified, Code
<1>2. QED
  BY <1>1, DlInvariant, PTL

\* Under the same condition, what the lock-free extract step reads is verified.
THEOREM DlExtractsVerified == DlSpec => []ExtractsVerified
<1>1. DlInv => ExtractsVerified
  BY HashCodeMeaning DEF DlInv, ServedInv, ExtractsVerified, Code
<1>2. QED
  BY <1>1, DlInvariant, PTL

\* dl-wrapper deletes a file of the download directory only under the lock, and
\* only one whose hash is wrong or could not be taken.
THEOREM DlDeletesOnlyMismatch == DlSpec => DeletesOnlyMismatch
<1> DEFINE Allowed == out # Absent /\ out' = Absent =>
                        \E b \in Builds : lock = b /\ JudgedBad(b, out)
<1>1. DlInv /\ [DlNext]_dlVars => [Allowed]_dlVars
  <2> SUFFICES ASSUME DlInv, [DlNext]_dlVars, out # Absent, out' = Absent
               PROVE  \E b \in Builds : lock = b /\ JudgedBad(b, out)
    OBVIOUS
  <2>a. Absent \notin Contents /\ Absent # Truncated
    BY DlAssumption
  <2>1. PICK b \in Builds : out' # out /\ Wrapper(b)
    BY DEF DlNext, Make, Extract, Kill, dlVars
  <2>2. RemoveExisting(b)
    <3> USE <2>1, <2>a DEF DlInv, OutInv, DownloadInv, Checked
    <3>1. ~CopyLegacy(b)
      BY DEF CopyLegacy
    <3>2. ~FinishCopy(b)
      BY DEF FinishCopy
    <3>3. ~Rename(b)
      BY DEF Rename
    <3>4. ~Legacy(b)
      BY DEF Legacy
    <3>5. QED
      BY <3>1, <3>2, <3>3, <3>4
         DEF Wrapper, Flock, CheckExisting, NextUri, Backend, PostProcess,
             VerifyDownload, MakeTmpOutput, CatOutput
  <2>3. QED
    BY <2>2 DEF RemoveExisting, DlInv, OutInv, LockInv, Locked
<1>2. QED
  BY <1>1, DlInvariant, PTL DEF DlSpec, DeletesOnlyMismatch
-----------------------------------------------------------------------------
\* dl-wrapper saves atomically: whichever command fails or is killed, the final
\* name shows no file cut short unless a legacy file was there to be copied.
THEOREM DlAtomicSave == DlSpec => []AtomicSave
<1>1. DlInit => AtomicSave
  BY DlAssumption DEF DlInit, AtomicSave
<1>2. DlInv /\ AtomicSave /\ [DlNext]_dlVars => AtomicSave'
  <2> SUFFICES ASSUME DlInv, AtomicSave, [DlNext]_dlVars, old' = Absent
               PROVE  out' # Truncated
    BY DEF AtomicSave
  <2>a. Truncated \notin Contents /\ Absent # Truncated
    BY DlAssumption
  <2> USE <2>a DEF AtomicSave, DlInv, OutInv, DownloadInv, Checked
  <2>1. CASE out' = out
    BY <2>1 DEF DlNext, Make, Wrapper, Extract, Kill, dlVars, Flock, Legacy,
        CopyLegacy, FinishCopy, CheckExisting, RemoveExisting, NextUri, Backend,
        PostProcess, VerifyDownload, MakeTmpOutput, CatOutput, Rename
  <2>2. ASSUME NEW b \in Builds, Legacy(b)
        PROVE  out' # Truncated
    BY <2>2 DEF Legacy
  <2>3. ASSUME NEW b \in Builds, CopyLegacy(b)
        PROVE  out' # Truncated
    BY <2>3 DEF CopyLegacy
  <2>4. ASSUME NEW b \in Builds, FinishCopy(b)
        PROVE  out' # Truncated
    BY <2>4 DEF FinishCopy
  <2>5. ASSUME NEW b \in Builds, RemoveExisting(b)
        PROVE  out' # Truncated
    BY <2>5 DEF RemoveExisting
  <2>6. ASSUME NEW b \in Builds, Rename(b)
        PROVE  out' # Truncated
    BY <2>6 DEF Rename
  <2>7. QED
    BY <2>1, <2>2, <2>3, <2>4, <2>5, <2>6
       DEF DlNext, Make, Wrapper, Extract, Kill, dlVars, Flock, CheckExisting,
           NextUri, Backend, PostProcess, VerifyDownload, MakeTmpOutput, CatOutput
<1>3. QED
  BY <1>1, <1>2, DlInvariant, PTL DEF DlSpec
-----------------------------------------------------------------------------
\* Only the holder of the lock can be copying, so the cache's file is read off it.
LEMMA CacheFileOf ==
    ASSUME LockInv
    PROVE  /\ \A b \in Builds : pc[b] \in Locked \ {"copying"} => CacheFile = out
           /\ \A b \in Builds : pc[b] = "copying" => CacheFile = Absent
BY DEF LockInv, Locked, CacheFile

LEMMA CacheFileOfPrimed ==
    ASSUME LockInv'
    PROVE  /\ \A b \in Builds : pc'[b] \in Locked \ {"copying"} => CacheFile' = out'
           /\ \A b \in Builds : pc'[b] = "copying" => CacheFile' = Absent
           /\ lock' = Free => CacheFile' = out'
BY DlAssumption DEF LockInv, Locked, CacheFile

\* A step that leaves the control of all but one build alone, and does not let
\* that build start or end a copy, shows the cache the file as it is.
LEMMA CacheFileSame ==
    ASSUME NEW b \in Builds, ControlTypeOK, out' = out, pc[b] # "copying",
           NEW l, l # "copying", pc' = [pc EXCEPT ![b] = l]
    PROVE  CacheFile' = CacheFile
BY DEF CacheFile, ControlTypeOK

\* Who was told "yes" changes only with the result of the build that moves.
LEMMA CacheServedOf ==
    ASSUME NEW b \in Builds, ControlTypeOK, lost' = lost \ {b}
    PROVE  /\ result' = [result EXCEPT ![b] = "ok"] => CacheServed' = CacheServed \cup {b}
           /\ \A r \in {"none", "failed", "killed"} :
                 result' = [result EXCEPT ![b] = r] => CacheServed' = CacheServed \ {b}
BY DEF CacheServed, ControlTypeOK

\* The cache's check is the wrapper's.
LEMMA CacheCode ==
    \A b, c : Cache!Code(b, c) = Code(b, c) /\ Cache!Sums(policy[b]) = Sums(policy[b])
BY DEF Code, Cache!Code, HashCode, Cache!HashCode, AllLinesHold, Cache!AllLinesHold,
       Relevant, Cache!Relevant, LineHolds, Cache!LineHolds, FirstFailure,
       Cache!FirstFailure, Sums, Cache!Sums

LEMMA CacheServedSame == UNCHANGED <<result, lost>> => UNCHANGED CacheServed
BY DEF CacheServed

\* Each step of the wrappers is a step of the cache, or leaves it alone.
LEMMA CacheStep ==
    DlInv /\ DlInv' /\ [DlNext]_dlVars => [Cache!CacheNext]_(Cache!cacheVars)
<1> SUFFICES ASSUME DlInv, DlInv', [DlNext]_dlVars
             PROVE  Cache!CacheNext \/ UNCHANGED Cache!cacheVars
  OBVIOUS
<1> USE DEF Cache!cacheVars
<1>a. /\ LockInv /\ LockInv' /\ ControlTypeOK /\ FilesTypeOK /\ OutInv
      /\ DownloadInv /\ ResultInv /\ OutInv'
  BY DEF DlInv, DlTypeOK
<1>b. Absent \notin Contents /\ Truncated \notin Contents /\ Absent # Truncated
  BY DlAssumption
<1>c. ASSUME NEW b \in Builds, result[b] = "none"
      PROVE  CacheServed \ {b} = CacheServed
  BY <1>c DEF CacheServed
<1>d. ASSUME NEW b \in Builds, pc[b] \in Locked
      PROVE  lost \ {b} = lost
  BY <1>d, <1>a DEF ResultInv
<1>1. ASSUME NEW b \in Builds, Make(b)
      PROVE  Cache!Ask(b)
  <2>1. CacheFile' = CacheFile
    BY <1>1, <1>a, CacheFileSame DEF Make, Goto
  <2>2. CacheServed' = CacheServed \ {b}
    BY <1>1, <1>a, CacheServedOf DEF Make
  <2>3. QED
    BY <1>1, <2>1, <2>2 DEF Make, Cache!Ask
<1>2. ASSUME NEW b \in Builds, Flock(b)
      PROVE  UNCHANGED Cache!cacheVars
  BY <1>2, <1>a, CacheFileSame, CacheServedSame DEF Flock, Goto
<1>3. ASSUME NEW b \in Builds, Legacy(b)
      PROVE  Cache!Import \/ UNCHANGED Cache!cacheVars
  BY <1>3, <1>a, CacheFileOf, CacheFileOfPrimed, CacheServedSame
     DEF Legacy, Goto, Locked, FilesTypeOK, ControlTypeOK, Cache!Import
<1>4. ASSUME NEW b \in Builds, CopyLegacy(b)
      PROVE  UNCHANGED Cache!cacheVars
  BY <1>4, <1>a, CacheFileOf, CacheFileOfPrimed, CacheServedSame
     DEF CopyLegacy, Goto, Locked, ControlTypeOK, OutInv
<1>5. ASSUME NEW b \in Builds, FinishCopy(b)
      PROVE  Cache!Import
  <2>1. CacheFile = Absent /\ CacheFile' = out'
    BY <1>5, <1>a, CacheFileOf, CacheFileOfPrimed DEF FinishCopy, Goto, Locked, ControlTypeOK
  <2>2. out' \in Contents \cup {Truncated}
    BY <1>5, <1>a DEF FinishCopy, OutInv, FilesTypeOK
  <2>3. QED
    BY <1>5, <2>1, <2>2, CacheServedSame DEF FinishCopy, Cache!Import
<1>6. ASSUME NEW b \in Builds, CheckExisting(b)
      PROVE  Cache!Accept(b) \/ UNCHANGED Cache!cacheVars
  <2>1. CacheFile = out /\ CacheFile' = out /\ UNCHANGED <<policy, lost>>
    BY <1>6, <1>a, CacheFileOf, CacheFileOfPrimed
       DEF CheckExisting, Goto, Exit, Running, Locked, ControlTypeOK
  <2>2. CASE UNCHANGED result
    BY <2>1, <2>2, CacheServedSame
  <2>3. CASE out # Absent /\ Code(b, out) = 0 /\ Exit(b, "ok")
    <3>1. lost' = lost \ {b}
      BY <1>6, <2>1, <1>d DEF CheckExisting, Locked
    <3>2. QED
      BY <3>1, <2>1, <2>3, <1>a, CacheServedOf, CacheCode DEF Exit, Cache!Accept
  <2>4. CASE Exit(b, "failed")
    <3>1. lost' = lost \ {b}
      BY <1>6, <2>1, <1>d DEF CheckExisting, Locked
    <3>2. QED
      BY <3>1, <2>1, <2>4, <1>6, <1>a, <1>c, CacheServedOf
         DEF Exit, CheckExisting, ResultInv, Locked
  <2>5. QED
    BY <1>6, <2>2, <2>3, <2>4, CodesMeaning DEF CheckExisting, Running
<1>7. ASSUME NEW b \in Builds, RemoveExisting(b)
      PROVE  Cache!Discard(b) \/ Cache!Misjudge(b) \/ UNCHANGED Cache!cacheVars
  <2>1. CacheFile = out /\ CacheFile' = out' /\ UNCHANGED policy
    BY <1>7, <1>a, CacheFileOf, CacheFileOfPrimed
       DEF RemoveExisting, Goto, Exit, Running, Locked, ControlTypeOK
  <2>2. out # Absent /\ JudgedBad(b, out)
    BY <1>7, <1>a DEF RemoveExisting, OutInv
  <2>3. CASE out' = Absent /\ UNCHANGED result /\ Code(b, out) = 2
    BY <1>7, <2>1, <2>2, <2>3, CacheCode, CacheServedSame
       DEF RemoveExisting, Cache!Discard
  <2>4. CASE out' = Absent /\ UNCHANGED result /\ Code(b, out) # 2
    <3>1. lost' = lost \cup {a \in Builds : result[a] = "ok"}
      BY <1>7, <2>2, <2>4, <1>b DEF RemoveExisting
    <3>2. CacheServed' = {}
      BY <3>1, <2>4 DEF CacheServed
    <3>3. QED
      BY <2>1, <2>2, <2>4, <3>2, CacheCode DEF JudgedBad, Cache!Misjudge
  <2>5. CASE Exit(b, "failed") /\ UNCHANGED <<out, lost>>
    <3>1. UNCHANGED CacheServed
      BY <2>5, <1>7, <1>a, <1>c, <1>d, CacheServedOf
         DEF Exit, RemoveExisting, ResultInv, Locked
    <3>2. QED
      BY <3>1, <2>1, <2>5
  <2>6. QED
    BY <1>7, <2>3, <2>4, <2>5 DEF RemoveExisting, Running
<1>8. ASSUME NEW b \in Builds, NextUri(b)
      PROVE  UNCHANGED Cache!cacheVars
  <2>1. CacheFile = out /\ CacheFile' = out /\ UNCHANGED policy
    BY <1>8, <1>a, CacheFileOf, CacheFileOfPrimed
       DEF NextUri, Goto, Exit, Running, Locked, ControlTypeOK
  <2>2. UNCHANGED CacheServed
    BY <1>8, <1>a, <1>c, <1>d, CacheServedOf, CacheServedSame
       DEF NextUri, Exit, Running, ResultInv, Locked
  <2>3. QED
    BY <2>1, <2>2
<1>9. ASSUME NEW b \in Builds, Backend(b) \/ PostProcess(b) \/ VerifyDownload(b)
      PROVE  UNCHANGED Cache!cacheVars
  BY <1>9, <1>a, CacheFileSame, CacheServedSame
     DEF Backend, PostProcess, VerifyDownload, TryNext, Goto
<1>10. ASSUME NEW b \in Builds, MakeTmpOutput(b) \/ CatOutput(b)
       PROVE  UNCHANGED Cache!cacheVars
  <2>1. CacheFile = out /\ CacheFile' = out /\ UNCHANGED policy
    BY <1>10, <1>a, CacheFileOf, CacheFileOfPrimed
       DEF MakeTmpOutput, CatOutput, Goto, Exit, Running, Locked, ControlTypeOK
  <2>2. UNCHANGED CacheServed
    BY <1>10, <1>a, <1>c, <1>d, CacheServedOf, CacheServedSame
       DEF MakeTmpOutput, CatOutput, Exit, Running, ResultInv, Locked
  <2>3. QED
    BY <2>1, <2>2
<1>11. ASSUME NEW b \in Builds, Rename(b)
       PROVE  (\E c \in Contents : Cache!Save(b, c)) \/ UNCHANGED Cache!cacheVars
  <2>1. CacheFile = out /\ CacheFile' = out' /\ UNCHANGED policy
    BY <1>11, <1>a, CacheFileOf, CacheFileOfPrimed
       DEF Rename, Exit, Locked, ControlTypeOK
  <2>2. out = Absent /\ Checked(b, tmpOutput[b])
    BY <1>11, <1>a DEF Rename, OutInv, DownloadInv
  <2>3. CASE Exit(b, "failed")
    <3>1. UNCHANGED CacheServed
      BY <2>3, <1>11, <1>a, <1>c, <1>d, CacheServedOf DEF Exit, Rename, ResultInv, Locked
    <3>2. CASE out' = out
      BY <3>1, <3>2, <2>1
    <3>3. CASE out' = tmpOutput[b] /\ rc[b] # 0
      BY <3>1, <3>3, <2>1, <2>2, CacheCode DEF Checked, Cache!Save
    <3>4. QED
      BY <3>2, <3>3, <2>3, <1>11, <1>a DEF Rename, Exit, ControlTypeOK
  <2>4. CASE out' = tmpOutput[b] /\ rc[b] = 0 /\ Exit(b, "ok")
    BY <2>4, <2>1, <2>2, <1>11, <1>a, <1>d, CacheServedOf, CacheCode
       DEF Checked, Exit, Rename, Locked, Cache!Save
  <2>5. QED
    BY <1>11, <2>3, <2>4 DEF Rename
<1>12. ASSUME NEW b \in Builds, Extract(b)
       PROVE  UNCHANGED Cache!cacheVars
  BY <1>12, <1>a, CacheFileSame, CacheServedSame DEF Extract, Goto
<1>13. ASSUME NEW b \in Builds, Kill(b)
       PROVE  Cache!Import \/ UNCHANGED Cache!cacheVars
  <2>1. UNCHANGED <<CacheServed, policy>>
    BY <1>13, <1>a, <1>c, <1>d, CacheServedOf DEF Kill, Exit, ResultInv, Locked
  <2>2. CASE pc[b] = "copying"
    <3>1. CacheFile = Absent /\ CacheFile' = Truncated
      BY <1>13, <2>2, <1>a, CacheFileOf, CacheFileOfPrimed
         DEF Kill, Exit, OutInv, Locked
    <3>2. QED
      BY <2>1, <3>1 DEF Cache!Import
  <2>3. CASE pc[b] # "copying"
    BY <1>13, <2>1, <2>3, <1>a, CacheFileSame DEF Kill, Goto, Exit
  <2>4. QED
    BY <2>2, <2>3
<1>14. CASE UNCHANGED dlVars
  BY <1>14 DEF dlVars, CacheFile, CacheServed
<1>15. QED
  BY <1>1, <1>2, <1>3, <1>4, <1>5, <1>6, <1>7, <1>8, <1>9, <1>10, <1>11, <1>12,
     <1>13, <1>14 DEF DlNext, Wrapper, Cache!CacheNext

\* The wrappers, with their lock, temporaries, faults and interruptions, implement
\* the atomic cache: each request is answered as if it were one step, and "yes"
\* only when the file is there and passes the asking build's check.
THEOREM DlImplementsCache == DlSpec => ImplementsCache
<1>1. DlInit => Cache!CacheInit
  <2> SUFFICES ASSUME DlInit PROVE Cache!CacheInit
    OBVIOUS
  <2>1. CacheFile = out
    BY DEF DlInit, CacheFile
  <2>2. CacheServed = {}
    BY DEF DlInit, CacheServed
  <2>3. QED
    BY <2>1, <2>2 DEF DlInit, Cache!CacheInit
<1>2. QED
  BY <1>1, CacheStep, DlInvariant, PTL DEF DlSpec, ImplementsCache, Cache!CacheSpec
=============================================================================
