----------------------------- MODULE MCPkgBuild -----------------------------
(* A library with an override source directory and staging files, a program  *)
(* that depends on it and sorts after it, and whose recipe installs a binary *)
(* for another architecture, or the same program without that fault.         *)
EXTENDS PkgBuild

CONSTANTS lib, web

MCRank == [p \in Packages |-> IF p = lib THEN 1 ELSE 2]
MCDeps == [p \in Packages |-> IF p = lib THEN {} ELSE {lib}]
OnlyLib == {lib}
None == {}
OnlyWeb == {web}
LibWeb == {lib, web}

LibGoals == {"reinstall", "rebuild", "reconfigure", "dirclean"} \X {lib}
MCGoals == {<<"all", NoPackage>>, <<"rebuild", web>>} \cup LibGoals
AllAndRebuild == {<<"all", NoPackage>>, <<"rebuild", lib>>}
=============================================================================
