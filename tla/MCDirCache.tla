----------------------------- MODULE MCDirCache -----------------------------
(* Two directories, one of which can move into the other, and a file that   *)
(* each of them can hold.                                                   *)
EXTENDS DirCache, TLC

MCDirs == {<<>>, <<"a">>, <<"b">>, <<"a", "b">>}
MCPaths == MCDirs \cup {<<"a", "f">>, <<"b", "f">>}
MCStored == {<<>>, <<"a">>, <<"a", "f">>}
MCSymmetry == Permutations(Calls)
=============================================================================
