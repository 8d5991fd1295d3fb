---------------------------- MODULE AtomicBuild ----------------------------
(***************************************************************************)
(* What the package infrastructure promises of a package's build, with     *)
(* every step reduced to one instant: a step is complete or it is not, it  *)
(* completes when everything before it is complete, here and in the        *)
(* packages below, and what it makes is made of exactly what the complete  *)
(* steps before it made.  There are no commands, jobs, failures or         *)
(* interruptions, and no directories.  Only a dirclean that was begun and  *)
(* not ended leaves a package in which complete steps mean nothing.        *)
(***************************************************************************)
EXTENDS Naturals

CONSTANTS Packages,       \* the enabled packages
          Below,          \* Below[p]: what p depends on, directly or not
          Override,       \* the packages whose sources may change
          Chain,          \* Chain[p]: the steps of p ...
          No,             \* ... and their order
          Prerequisites,  \* the steps that, once redone, make a step outdated
          Partial         \* the damaged product of an interrupted dirclean

VARIABLES src,            \* version of each package's sources
          done,           \* done[p]: the complete steps of p
          made,           \* made[p][s]: version of what the complete step s of p made
          asked,          \* source version at the last successful rebuild
          torn            \* packages with leftovers of an unfinished dirclean

atomicVars == <<src, done, made, asked, torn>>

Steps == DOMAIN No
Products == {"source", "build", "staging", "target"}
Nothing == [s \in Products |-> 0]

Complete(p) == Chain[p] \subseteq done[p]
-----------------------------------------------------------------------------
AtomicInit ==
    /\ src = [p \in Packages |-> 1]
    /\ done = [p \in Packages |-> {}]
    /\ made = [p \in Packages |-> Nothing]
    /\ asked = [p \in Packages |-> 0]
    /\ torn = {}

\* The developer changes the sources.
Change(p) ==
    /\ p \in Override
    /\ src' = [src EXCEPT ![p] = @ + 1]
    /\ UNCHANGED <<done, made, asked, torn>>

\* What step s of p makes its product of.
Input(p, s) == CASE s = "source" -> src[p]
                 [] s = "build" -> made[p]["source"]
                 [] OTHER -> made[p]["build"]

\* The steps that are outdated by a new run of s.
Outdated(s) == {t \in Steps : s \in Prerequisites[t]}

Finish(p, s) ==
    /\ s \in Chain[p] \ done[p]
    /\ \A t \in Chain[p] : No[t] < No[s] => t \in done[p]
    /\ No[s] >= No["configure"] => \A q \in Below[p] : Complete(q)
    /\ done' = [done EXCEPT ![p] = (@ \ Outdated(s)) \cup {s}]
    /\ made' = [made EXCEPT ![p] = [t \in Products |->
                  CASE t = s -> Input(p, s)
                    [] t \in Outdated(s) -> 0
                    [] OTHER -> @[t]]]
    /\ UNCHANGED <<src, asked, torn>>

\* A goal starts with a step that has to be done again.
Forget(p, s) ==
    /\ done' = [done EXCEPT ![p] = @ \ {s}]
    /\ made' = [made EXCEPT ![p] = [t \in Products |-> IF t = s THEN 0 ELSE @[t]]]
    /\ UNCHANGED <<src, asked, torn>>

\* A dirclean is under way, or p has files of a package that one has torn.
Tear(p) ==
    /\ torn' = torn \cup {p}
    /\ done' \in [Packages -> SUBSET Steps]
    /\ made' \in [Packages -> [Products -> Nat \cup {Partial}]]
    /\ done'[p] \subseteq done[p]
    /\ \A s \in Products : made'[p][s] \in {made[p][s], Partial, 0}
    /\ \A q \in Packages \ {p} : done'[q] = done[q] /\ made'[q] = made[q]
    /\ UNCHANGED <<src, asked>>

\* A dirclean has ended.
Wipe(p) ==
    /\ done' = [done EXCEPT ![p] = {}]
    /\ made' = [made EXCEPT ![p] = Nothing]
    /\ torn' = torn \ {p}
    /\ UNCHANGED <<src, asked>>

\* make <pkg>-rebuild has succeeded: what is installed is made of the sources of now.
Rebuilt(p) ==
    /\ Complete(p) /\ \A q \in Below[p] : Complete(q)
    /\ p \in Override \ torn => made[p]["target"] = src[p]
    /\ asked' = [asked EXCEPT ![p] = src[p]]
    /\ UNCHANGED <<src, done, made, torn>>

AtomicNext == \E p \in Packages :
    \/ Change(p) \/ Tear(p) \/ Wipe(p) \/ Rebuilt(p)
    \/ \E s \in Steps : Finish(p, s) \/ Forget(p, s)

AtomicSpec == AtomicInit /\ [][AtomicNext]_atomicVars
=============================================================================
