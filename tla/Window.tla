------------------------------- MODULE Window -------------------------------
(***************************************************************************)
(* What the asynchronous mode of the benchmark promises: niter inferences, *)
(* each launched once and collected once, with never more than nireq of    *)
(* them between the two.                                                   *)
(***************************************************************************)
EXTENDS Integers

VARIABLES
    niter, nireq,       \* how many inferences, and how many at a time
    launched, done      \* how many have been launched, and collected

Init ==
    /\ niter \in Nat \ {0} /\ nireq \in Nat \ {0}
    /\ launched = 0 /\ done = 0

Launch ==
    /\ launched < niter /\ launched - done < nireq
    /\ launched' = launched + 1
    /\ UNCHANGED <<niter, nireq, done>>

Collect ==
    /\ done < launched
    /\ done' = done + 1
    /\ UNCHANGED <<niter, nireq, launched>>

Next == Launch \/ Collect

Spec == Init /\ [][Next]_<<niter, nireq, launched, done>>
=============================================================================
