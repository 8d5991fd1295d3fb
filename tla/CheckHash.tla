----------------------------- MODULE CheckHash -----------------------------
(***************************************************************************)
(* support/download/check-hash: decides whether a downloaded file may be   *)
(* used.  A policy stands for the -H hash files of one package as the      *)
(* script reads them, and for BR_NO_CHECK_HASH_FOR:                        *)
(*   hfiles   how many of the hash files exist (nb_h_files),               *)
(*   lines    their lines, in the order they are read,                     *)
(*   exempt   whether the file is listed in BR_NO_CHECK_HASH_FOR.          *)
(* A line names a file (mine: this one or another), uses a hash algorithm  *)
(* the script supports (known) or not, and records the hash of the content *)
(* want.  Two contents have the same hash only if they are the same.       *)
(***************************************************************************)
EXTENDS Integers, Sequences

\* The lines of the hash files that name the file being checked.
Relevant(p) == {i \in DOMAIN p.lines : p.lines[i].mine}

LineHolds(line, c) == line.known /\ line.want = c

\* check_one_hash exits at the first line that does not hold: 4 for an unknown
\* algorithm, 2 for a mismatch.
FirstFailure(p, c) ==
    CHOOSE i \in Relevant(p) :
        /\ ~LineHolds(p.lines[i], c)
        /\ \A j \in Relevant(p) : j < i => LineHolds(p.lines[j], c)

AllLinesHold(p, c) == \A i \in Relevant(p) : LineHolds(p.lines[i], c)

\* The exit code of check-hash for content c, when every program it runs works.
HashCode(p, c) ==
    IF ~AllLinesHold(p, c)
    THEN IF p.lines[FirstFailure(p, c)].known THEN 2 ELSE 4
    ELSE IF p.hfiles = 0 \/ Relevant(p) # {} \/ p.exempt THEN 0 ELSE 3

\* Whether the script gets as far as running a sum program on the file: the
\* first line for it decides.
Sums(p) ==
    \E i \in Relevant(p) : p.lines[i].known /\ \A j \in Relevant(p) : i <= j

\* The exit codes when a program the script runs fails.  "set -e" ends it with 1
\* when a hash file cannot be read; but without pipefail a sum program that fails
\* leaves an empty hash, which differs from every known one: 2.
FailureCodes(p) ==
    (IF p.hfiles > 0 THEN {1} ELSE {}) \cup (IF Sums(p) THEN {2} ELSE {})

\* What the manual promises of a hash file (adding-packages-directory.adoc:
\* "all hashes must match"; a file with no hash in a hash file is an error; no
\* hash file, no check).
Verified(p, c) ==
    \/ p.hfiles = 0
    \/ Relevant(p) = {} /\ p.exempt
    \/ Relevant(p) # {} /\ AllLinesHold(p, c)
=============================================================================
