---------------------------- MODULE MCSearchBuild ---------------------------
(* A directory with a file in it.  One request builds the whole index, the *)
(* other one updates the file, the directory, or the file after the        *)
(* directory that it is in.                                                *)
EXTENDS SearchBuild, TLC

CONSTANTS d, x, all, part

MCParent == (d :> Root) @@ (x :> d)
PathFile == (all :> <<Root>>) @@ (part :> <<x>>)
PathDir == (all :> <<Root>>) @@ (part :> <<d>>)
PathBoth == (all :> <<Root>>) @@ (part :> <<d, x>>)
=============================================================================
