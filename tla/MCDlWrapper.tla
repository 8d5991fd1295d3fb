---------------------------- MODULE MCDlWrapper ----------------------------
(* Two builds and two sites.  A site may deliver the right archive, a wrong *)
(* one, or one that post-processing cannot handle; the old download         *)
(* directory may hold the right one.  The builds' hash files cover every    *)
(* exit code of check-hash.                                                 *)
EXTENDS DlWrapper

CONSTANTS good, bad, raw

MCContents == {good, bad, raw}
MCServed == [u \in 1..NUris |-> IF u = 1 THEN MCContents ELSE {good, bad}]
MCRepack == [c \in MCContents |-> IF c = raw THEN Absent ELSE c]
MCLegacy == {good, Absent}

Line(w) == [mine |-> TRUE, known |-> TRUE, want |-> w]
NoHashFile == [hfiles |-> 0, lines |-> << >>, exempt |-> FALSE]
Unlisted == [hfiles |-> 1, lines |-> << >>, exempt |-> FALSE]
HashOf(w) == [hfiles |-> 1, lines |-> <<Line(w)>>, exempt |-> FALSE]
BadType == [hfiles |-> 1, exempt |-> FALSE,
            lines |-> <<Line(good), [Line(good) EXCEPT !.known = FALSE]>>]

MCPolicies == {NoHashFile, Unlisted, HashOf(good), HashOf(bad), BadType}
OnlyNoHashFile == {NoHashFile}
OnlyHashOfGood == {HashOf(good)}
=============================================================================
