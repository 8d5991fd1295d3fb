----------------------------- MODULE DlWrapper -----------------------------
(***************************************************************************)
(* support/download/dl-wrapper, run under "flock $(DL_DIR)/.lock" by the   *)
(* DOWNLOAD macro of every build that shares BR2_DL_DIR, and the extract   *)
(* step that reads the downloaded file afterwards, without the lock.       *)
(* One file of one package is followed: all files of a package share one   *)
(* lock, and nothing relates two of them.                                  *)
(***************************************************************************)
EXTENDS CheckHash

CONSTANTS Builds,       \* the builds that share BR2_DL_DIR
          Contents,     \* complete contents the file may have
          Absent,       \* no such file
          Truncated,    \* a file whose writer has not finished, or never will
          Free,         \* the lock is held by nobody
          NUris,        \* the candidate URIs are tried in the order 1..NUris
          Served,       \* Served[u]: what the site at URI u may deliver
          Repack,       \* Repack[c]: what post-processing makes of c, or Absent
                        \* when it fails on it (identity: no -p option)
          LegacyFiles,  \* what may be in the old flat download directory
          Policies,     \* the hash policies a build may have
          Faults,       \* which commands may fail ("hash": those that check-hash
                        \* runs), and "kill"
          MaxRuns       \* bound: how often each build runs make

FaultKinds == {"hash", "ln", "cp", "rm", "mktemp", "chmod", "cat", "mv", "kill"}

ASSUME DlAssumption ==
    /\ Builds # {}
    /\ Free \notin Builds
    /\ Absent \notin Contents /\ Truncated \notin Contents /\ Absent # Truncated
    /\ NUris \in Nat /\ MaxRuns \in Nat
    /\ Served \in [1..NUris -> SUBSET Contents]
    /\ Repack \in [Contents -> Contents \cup {Absent}]
    /\ LegacyFiles \subseteq Contents \cup {Absent}
    /\ Faults \subseteq FaultKinds

VARIABLES pc,           \* where each build's wrapper (or make itself) is
          lock,         \* holder of $(DL_DIR)/.lock
          out,          \* the file under its final name (-o)
          old,          \* the file in the old flat download directory (-D, -f)
          policy,       \* each build's hash files
          uri,          \* the URI being tried
          tmpf,         \* ${tmpd}/output in BUILD_DIR; Absent: tmpd removed
          tmpOutput,    \* the temporary "${output}.XXXXXX" next to the output
          rc,           \* the exit code the wrapper will return after the mv
          result,       \* how the wrapper of the last make ended
          runs,         \* how often each build has run make
          got,          \* what the build extracted
          lost          \* history: the builds that were told "yes" and whose file
                        \* went because taking its hash failed in another check

dlVars == <<pc, lock, out, old, policy, uri, tmpf, tmpOutput, rc, result, runs, got,
          lost>>

File == Contents \cup {Absent, Truncated}

\* Program counters of the wrapper while it holds the lock.
Locked == {"legacy", "cp", "copying", "check", "rm", "uri", "backend",
           "post", "verify", "mktemp", "cat", "mv"}

Code(b, c) == HashCode(policy[b], c)

\* What check-hash may answer.
Codes(b, c) ==
    {Code(b, c)} \cup (IF "hash" \in Faults THEN FailureCodes(policy[b]) ELSE {})
-----------------------------------------------------------------------------
DlInit ==
    /\ policy \in [Builds -> Policies]
    /\ old \in LegacyFiles
    /\ out \in Contents \cup {Absent}
    /\ lock = Free
    /\ pc = [b \in Builds |-> "idle"]
    /\ uri = [b \in Builds |-> 1]
    /\ tmpf = [b \in Builds |-> Absent]
    /\ tmpOutput = [b \in Builds |-> Absent]
    /\ rc = [b \in Builds |-> 1]
    /\ result = [b \in Builds |-> "none"]
    /\ runs = [b \in Builds |-> 0]
    /\ got = [b \in Builds |-> Absent]
    /\ lost = {}

Goto(b, label) == pc' = [pc EXCEPT ![b] = label]

\* The wrapper's process ends, and its variables with it: its status is make's,
\* and its lock is released.
Exit(b, how) ==
    /\ pc' = [pc EXCEPT ![b] = "ended"]
    /\ result' = [result EXCEPT ![b] = how]
    /\ lock' = Free
    /\ uri' = [uri EXCEPT ![b] = 1]
    /\ rc' = [rc EXCEPT ![b] = 1]

Running == UNCHANGED <<lock, result, uri, rc>>

\* The user runs make, for the first time, after a failed or interrupted build,
\* or after <pkg>-dirclean: there is no .stamp_downloaded.
Make(b) ==
    /\ \/ pc[b] \in {"idle", "extracted"}
       \/ pc[b] = "ended" /\ result[b] # "ok"
    /\ runs[b] < MaxRuns
    /\ runs' = [runs EXCEPT ![b] = @ + 1]
    /\ result' = [result EXCEPT ![b] = "none"]
    /\ lost' = lost \ {b}
    /\ Goto(b, "flock")
    /\ UNCHANGED <<lock, out, old, policy, uri, tmpf, tmpOutput, rc, got>>

\* Mutant of Flock: the lock is taken in shared mode (flock -s).
SharedFlock(b) ==
    /\ pc[b] = "flock"
    /\ lock' = b
    /\ tmpf' = [tmpf EXCEPT ![b] = Absent]
    /\ tmpOutput' = [tmpOutput EXCEPT ![b] = Absent]
    /\ Goto(b, "legacy")
    /\ UNCHANGED <<out, old, policy, uri, rc, result, runs, got, lost>>

\* flock acquires the lock file and starts the wrapper.
Flock(b) ==
    /\ pc[b] = "flock"
    /\ lock = Free
    /\ lock' = b
    /\ tmpf' = [tmpf EXCEPT ![b] = Absent]
    /\ tmpOutput' = [tmpOutput EXCEPT ![b] = Absent]
    /\ Goto(b, "legacy")
    /\ UNCHANGED <<out, old, policy, uri, rc, result, runs, got, lost>>

\* Mutant of Legacy: the link replaces a file that exists (ln -f, no -e test).
ForcedLegacy(b) ==
    /\ pc[b] = "legacy"
    /\ out' = IF old # Absent THEN old ELSE out
    /\ Goto(b, "check")
    /\ UNCHANGED <<lock, old, policy, uri, tmpf, tmpOutput, rc, result, runs, got, lost>>

\* Legacy handling: hard-link the file of the old download directory...
Legacy(b) ==
    /\ pc[b] = "legacy"
    /\ \/ /\ out # Absent \/ old = Absent
          /\ Goto(b, "check")
          /\ UNCHANGED out
       \/ /\ out = Absent /\ old # Absent
          /\ out' = old
          /\ Goto(b, "check")
       \/ /\ out = Absent /\ old # Absent
          /\ "ln" \in Faults
          /\ Goto(b, "cp")
          /\ UNCHANGED out
    /\ UNCHANGED <<lock, old, policy, uri, tmpf, tmpOutput, rc, result, runs, got, lost>>

\* ... or copy it, in place, under its final name ...
CopyLegacy(b) ==
    /\ pc[b] = "cp"
    /\ \/ out' = Truncated /\ Goto(b, "copying")
       \/ "cp" \in Faults /\ Goto(b, "check") /\ UNCHANGED out
    /\ UNCHANGED <<lock, old, policy, uri, tmpf, tmpOutput, rc, result, runs, got, lost>>

\* ... and carry on ("|| true") when cp runs out of space.
FinishCopy(b) ==
    /\ pc[b] = "copying"
    /\ \/ out' = old
       \/ "cp" \in Faults /\ UNCHANGED out
    /\ Goto(b, "check")
    /\ UNCHANGED <<lock, old, policy, uri, tmpf, tmpOutput, rc, result, runs, got, lost>>

\* Mutant of CheckExisting: a file the hash file does not list is good enough.
LenientCheckExisting(b) ==
    /\ pc[b] = "check"
    /\ \/ out = Absent /\ Goto(b, "uri") /\ Running
       \/ out # Absent /\ Code(b, out) \in {0, 3} /\ Exit(b, "ok")
       \/ out # Absent /\ Codes(b, out) \cap {1, 4} # {} /\ Exit(b, "failed")
       \/ out # Absent /\ 2 \in Codes(b, out) /\ Goto(b, "rm") /\ Running
    /\ UNCHANGED <<out, old, policy, tmpf, tmpOutput, runs, got, lost>>

\* Mutant of CheckExisting: every failed check downloads the file again.
EagerCheckExisting(b) ==
    /\ pc[b] = "check"
    /\ \/ out = Absent /\ Goto(b, "uri") /\ Running
       \/ out # Absent /\ Code(b, out) = 0 /\ Exit(b, "ok")
       \/ out # Absent /\ Codes(b, out) # {0} /\ Goto(b, "rm") /\ Running
    /\ UNCHANGED <<out, old, policy, tmpf, tmpOutput, runs, got, lost>>

\* An existing file is good, is a hard error, or is to be downloaded again.
CheckExisting(b) ==
    /\ pc[b] = "check"
    /\ \/ out = Absent /\ Goto(b, "uri") /\ Running
       \/ out # Absent /\ 0 \in Codes(b, out) /\ Exit(b, "ok")
       \/ out # Absent /\ Codes(b, out) \ {0, 2} # {} /\ Exit(b, "failed")
       \/ out # Absent /\ 2 \in Codes(b, out) /\ Goto(b, "rm") /\ Running
    /\ UNCHANGED <<out, old, policy, tmpf, tmpOutput, runs, got, lost>>

\* Without looking at it again: it may be a good file whose hash was not taken.
RemoveExisting(b) ==
    /\ pc[b] = "rm"
    /\ \/ /\ out' = Absent
          /\ lost' = IF Code(b, out) = 2 THEN lost
                     ELSE lost \cup {a \in Builds : result[a] = "ok"}
          /\ Goto(b, "uri")
          /\ Running
       \/ "rm" \in Faults /\ Exit(b, "failed") /\ UNCHANGED <<out, lost>>
    /\ UNCHANGED <<old, policy, tmpf, tmpOutput, runs, got>>

\* Top of the loop over the URIs: make a fresh tmpd, or give up.
NextUri(b) ==
    /\ pc[b] = "uri"
    /\ \/ /\ uri[b] <= NUris
          /\ tmpf' = [tmpf EXCEPT ![b] = Truncated]
          /\ Goto(b, "backend")
          /\ Running
       \/ /\ uri[b] > NUris \/ "mktemp" \in Faults
          /\ Exit(b, "failed")
          /\ UNCHANGED tmpf
    /\ UNCHANGED <<out, old, policy, tmpOutput, runs, got, lost>>

\* Mutant of TryNext: the same URI is tried again.
TrySame(b) ==
    /\ tmpf' = [tmpf EXCEPT ![b] = Absent]
    /\ Goto(b, "uri")
    /\ UNCHANGED uri

\* "rm -rf ${tmpd}; continue"
TryNext(b) ==
    /\ tmpf' = [tmpf EXCEPT ![b] = Absent]
    /\ uri' = [uri EXCEPT ![b] = @ + 1]
    /\ Goto(b, "uri")

\* The backend fetches the file into tmpd, or fails.
Backend(b) ==
    /\ pc[b] = "backend"
    /\ \/ /\ \E c \in Served[uri[b]] : tmpf' = [tmpf EXCEPT ![b] = c]
          /\ Goto(b, "post")
          /\ UNCHANGED uri
       \/ TryNext(b)
    /\ UNCHANGED <<lock, out, old, policy, tmpOutput, rc, result, runs, got, lost>>

\* <backend>-post-process repacks the archive (cargo, go vendoring).
PostProcess(b) ==
    /\ pc[b] = "post"
    /\ IF Repack[tmpf[b]] = Absent
       THEN TryNext(b)
       ELSE /\ tmpf' = [tmpf EXCEPT ![b] = Repack[tmpf[b]]]
            /\ Goto(b, "verify")
            /\ UNCHANGED uri
    /\ UNCHANGED <<lock, out, old, policy, tmpOutput, rc, result, runs, got, lost>>

\* The download must pass check-hash; one the hash file does not list is kept
\* all the same, with a failing exit code.
VerifyDownload(b) ==
    /\ pc[b] = "verify"
    /\ \/ /\ \E k \in Codes(b, tmpf[b]) \cap {0, 3} :
                 rc' = [rc EXCEPT ![b] = IF k = 0 THEN 0 ELSE 1]
          /\ Goto(b, "mktemp")
          /\ UNCHANGED <<tmpf, uri>>
       \/ Codes(b, tmpf[b]) \ {0, 3} # {} /\ TryNext(b) /\ UNCHANGED rc
    /\ UNCHANGED <<lock, out, old, policy, tmpOutput, result, runs, got, lost>>

\* Mutant of MakeTmpOutput: the download is written under its final name.
WriteInPlace(b) ==
    /\ pc[b] = "mktemp"
    /\ out' = Truncated
    /\ tmpOutput' = [tmpOutput EXCEPT ![b] = Truncated]
    /\ Goto(b, "cat")
    /\ Running
    /\ UNCHANGED <<old, policy, tmpf, runs, got, lost>>

\* mktemp and chmod in the download directory; "set -e" ends the wrapper at once
\* when either fails.
MakeTmpOutput(b) ==
    /\ pc[b] = "mktemp"
    /\ \/ /\ tmpOutput' = [tmpOutput EXCEPT ![b] = Truncated]
          /\ Goto(b, "cat")
          /\ Running
       \/ "mktemp" \in Faults /\ Exit(b, "failed") /\ UNCHANGED tmpOutput
       \/ /\ "chmod" \in Faults
          /\ tmpOutput' = [tmpOutput EXCEPT ![b] = Truncated]
          /\ Exit(b, "failed")
    /\ UNCHANGED <<out, old, policy, tmpf, runs, got, lost>>

\* cat appends the download to the temporary; tmpd goes away either way.
CatOutput(b) ==
    /\ pc[b] = "cat"
    /\ \/ /\ tmpOutput' = [tmpOutput EXCEPT ![b] = tmpf[b]]
          /\ Goto(b, "mv")
          /\ Running
       \/ /\ "cat" \in Faults
          /\ tmpOutput' = [tmpOutput EXCEPT ![b] = Absent]
          /\ Exit(b, "failed")
    /\ tmpf' = [tmpf EXCEPT ![b] = Absent]
    /\ UNCHANGED <<out, old, policy, runs, got, lost>>

\* The atomic rename, and the wrapper's exit code.
Rename(b) ==
    /\ pc[b] = "mv"
    /\ tmpOutput' = [tmpOutput EXCEPT ![b] = Absent]
    /\ \/ out' = tmpOutput[b] /\ Exit(b, IF rc[b] = 0 THEN "ok" ELSE "failed")
       \/ "mv" \in Faults /\ Exit(b, "failed") /\ UNCHANGED out
    /\ UNCHANGED <<old, policy, tmpf, runs, got, lost>>

\* make extracts what is under the final name at that time, without the lock; it
\* fails when nothing is there, until <pkg>-dirclean removes .stamp_downloaded.
Extract(b) ==
    /\ pc[b] = "ended" /\ result[b] = "ok"
    /\ got' = [got EXCEPT ![b] = out]
    /\ Goto(b, "extracted")
    /\ UNCHANGED <<lock, out, old, policy, uri, tmpf, tmpOutput, rc, result, runs, lost>>

\* The user interrupts make: flock, the wrapper and its children all die.
Kill(b) ==
    /\ "kill" \in Faults
    /\ \/ pc[b] \in Locked /\ Exit(b, "killed")
       \/ /\ pc[b] = "flock"
          /\ Goto(b, "ended")
          /\ result' = [result EXCEPT ![b] = "killed"]
          /\ UNCHANGED <<lock, uri, rc>>
    /\ UNCHANGED <<out, old, policy, tmpf, tmpOutput, runs, got, lost>>

Wrapper(b) ==
    \/ Flock(b) \/ Legacy(b) \/ CopyLegacy(b) \/ FinishCopy(b)
    \/ CheckExisting(b) \/ RemoveExisting(b) \/ NextUri(b) \/ Backend(b)
    \/ PostProcess(b) \/ VerifyDownload(b) \/ MakeTmpOutput(b)
    \/ CatOutput(b) \/ Rename(b)

DlNext == \E b \in Builds : Make(b) \/ Wrapper(b) \/ Extract(b) \/ Kill(b)

DlSpec == DlInit /\ [][DlNext]_dlVars

\* The kernel hands a free lock to a waiter, and every command the wrapper runs
\* ends (wget has timeouts); nobody has to run make, or to interrupt it.
DlFairness == \A b \in Builds : WF_dlVars(Wrapper(b)) /\ WF_dlVars(Extract(b))

DlFairSpec == DlSpec /\ DlFairness
-----------------------------------------------------------------------------
ControlTypeOK ==
    /\ pc \in [Builds -> Locked \cup {"idle", "flock", "ended", "extracted"}]
    /\ lock \in Builds \cup {Free}
    /\ uri \in [Builds -> 1..(NUris + 1)]
    /\ rc \in [Builds -> {0, 1}]
    /\ result \in [Builds -> {"none", "ok", "failed", "killed"}]
    /\ runs \in [Builds -> 0..MaxRuns]

FilesTypeOK ==
    /\ out \in File
    /\ old \in Contents \cup {Absent}
    /\ policy \in [Builds -> Policies]
    /\ tmpf \in [Builds -> File]
    /\ tmpOutput \in [Builds -> File]
    /\ got \in [Builds -> File]
    /\ lost \subseteq Builds

\* Every variable holds a value of its type.
DlTypeOK == ControlTypeOK /\ FilesTypeOK

\* The builds have the same hash files (the same Buildroot tree, say).
SamePolicy == \A a, b \in Builds : policy[a] = policy[b]

\* A build whose download step succeeded finds the whole, verified file under
\* its final name, for as long as nothing but builds with the same hash files
\* uses the download directory: no other build removes or replaces it between
\* .stamp_downloaded and the extraction, whatever failed or was interrupted.  The
\* one exception is a build that lost it to a failing sum program, which
\* check-hash takes for a mismatch; asking again makes that good.
SuccessIsVerified ==
    SamePolicy =>
        \A b \in Builds \ lost :
            result[b] = "ok" => out # Absent /\ Verified(policy[b], out)

\* What a build extracts passed that build's own hash check, although the
\* extract step takes no lock (pkg-generic.mk runs EXTRACT_CMDS bare).
ExtractsVerified ==
    SamePolicy =>
        \A b \in Builds \ lost :
            pc[b] = "extracted" => got[b] # Absent /\ Verified(policy[b], got[b])

\* "ensure atomicity when saving": without a legacy copy the final name never
\* shows a file cut short, whichever command fails or is killed.
AtomicSave == old = Absent => out # Truncated

\* check-hash may say that the file differs from its hash.
JudgedBad(b, c) == Code(b, c) = 2 \/ ("hash" \in Faults /\ Sums(policy[b]))

\* A file is only ever deleted from the download directory by the holder of the
\* lock, and only for its hash: it is wrong, or the sum program that was run on it
\* failed.  A hard error (no hash for the file, or a hash type that is unknown
\* before any sum was taken) never deletes one, so that it is not fetched again
\* from a later location.
DeletesOnlyMismatch ==
    [][out # Absent /\ out' = Absent =>
        \E b \in Builds : lock = b /\ JudgedBad(b, out)]_dlVars

\* Every build that waits for the lock eventually has its answer.
EveryRequestEnds == \A b \in Builds : pc[b] = "flock" ~> pc[b] \in {"ended", "extracted"}
-----------------------------------------------------------------------------
\* The wrapper implements the atomic cache.  While a legacy file is being copied
\* the cache has no file yet.
CacheFile == IF \E b \in Builds : pc[b] = "copying" THEN Absent ELSE out

CacheServed == {b \in Builds \ lost : result[b] = "ok"}

Cache == INSTANCE DlCache WITH file <- CacheFile, served <- CacheServed,
                               Unreliable <- "hash" \in Faults

\* Every step of the wrappers is one atomic step of DlCache, or invisible in it.
ImplementsCache == Cache!CacheSpec
-----------------------------------------------------------------------------
\* "If anything goes wrong, we just remove all the temporaries created so far."
FailureLeavesNothing ==
    \A b \in Builds :
        result[b] = "failed" => tmpf[b] = Absent /\ tmpOutput[b] = Absent

\* "If we can neither link nor copy, fallback to doing a download": the wrapper
\* never answers for a file that was cut short.
NeverAcceptsTruncated ==
    \A b \in Builds : result[b] = "ok" => out # Truncated
=============================================================================
