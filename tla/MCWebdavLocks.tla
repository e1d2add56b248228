--------------------------- MODULE MCWebdavLocks ----------------------------
(* WebdavLocks on a small tree: two files in a directory; one user has the *)
(* directory as base, one the first file.  The requests are interchangeable.*)
EXTENDS WebdavLocks, TLC

CONSTANTS a, b

MCPaths == {<<>>, <<a>>, <<b>>}
MCBases == {<<>>, <<a>>}
MCSymmetry == Permutations(Requests)
=============================================================================
