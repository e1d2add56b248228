---------------------------- MODULE MCStrmQueue ----------------------------
(***************************************************************************)
(* A strm.txt of a directory and two files, the first of which it names    *)
(* twice.                                                                  *)
(***************************************************************************)
EXTENDS StrmQueue

MCLines == {"a", "c", "d"}
MCFolders == {"d"}
MCText  == <<"a", "d", "a", "c">>
=============================================================================
