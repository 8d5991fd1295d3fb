------------------------------ MODULE DlCache ------------------------------
(***************************************************************************)
(* What the download wrapper promises its callers, with every call reduced *)
(* to single steps: one file of BR2_DL_DIR, looked at, replaced and        *)
(* answered for atomically.  A caller is told "yes" only at a moment when  *)
(* the whole file is there and passes that caller's own hash policy.       *)
(***************************************************************************)
EXTENDS CheckHash

CONSTANTS Builds,       \* the concurrent builds that share BR2_DL_DIR
          Contents,     \* complete contents the file may have
          Absent,       \* no file
          Truncated,    \* a file cut short
          Policies,     \* the hash policies builds may have
          Unreliable    \* whether taking a hash may fail

VARIABLES file,         \* the file at its final name
          served,       \* the builds that count on the file: their last request
                        \* was answered "yes", and the file is still there
          policy        \* the hash policy of each build; never changes

cacheVars == <<file, served, policy>>

Code(b, c) == HashCode(policy[b], c)

CacheInit ==
    /\ policy \in [Builds -> Policies]
    /\ file \in Contents \cup {Absent, Truncated}
    /\ served = {}

\* A build asks again: it has been told nothing yet.
Ask(b) ==
    /\ served' = served \ {b}
    /\ UNCHANGED <<file, policy>>

\* A file of the old, flat download directory is taken over unseen.
Import ==
    /\ file = Absent
    /\ file' \in Contents \cup {Truncated}
    /\ UNCHANGED <<served, policy>>

\* A file whose hash is wrong for the asking build is deleted.
Discard(b) ==
    /\ file # Absent
    /\ Code(b, file) = 2
    /\ file' = Absent
    /\ UNCHANGED <<served, policy>>

\* The computer fails to take the hash of a file that the build's hash files list:
\* the file is deleted unread, and nobody can count on it any more.
Misjudge(b) ==
    /\ Unreliable
    /\ file # Absent
    /\ Sums(policy[b])
    /\ Code(b, file) # 2
    /\ file' = Absent
    /\ served' = {}
    /\ UNCHANGED policy

\* A download is saved whole.  One the hash file does not list is saved too,
\* but its build is not told "yes".
Save(b, c) ==
    /\ file = Absent
    /\ file' = c
    /\ \/ Code(b, c) = 0 /\ served' = served \cup {b}
       \/ Code(b, c) = 3 /\ UNCHANGED served
    /\ UNCHANGED policy

\* The file is there already and passes this build's check.
Accept(b) ==
    /\ file # Absent
    /\ Code(b, file) = 0
    /\ served' = served \cup {b}
    /\ UNCHANGED <<file, policy>>

CacheNext ==
    \/ Import
    \/ \E b \in Builds : Ask(b) \/ Discard(b) \/ Misjudge(b) \/ Accept(b)
    \/ \E b \in Builds, c \in Contents : Save(b, c)

CacheSpec == CacheInit /\ [][CacheNext]_cacheVars
=============================================================================
