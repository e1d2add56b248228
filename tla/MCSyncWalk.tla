----------------------------- MODULE MCSyncWalk -----------------------------
(***************************************************************************)
(* Small trees for SyncWalk.  In MCDirs/MCPaths a directory with two       *)
(* files, a second directory with one, a file between them in byte order   *)
(* and a file whose provider is not in the white list.  Names are spelled  *)
(* "a", "b", ... in MCSpell; SpaceSpell has "a", "a b" and "b", where the   *)
(* string order of full paths is not the order of the walk.                *)
(***************************************************************************)
EXTENDS SyncWalk

MCDirs   == {<< >>, <<1>>, <<3>>}
MCPaths  == MCDirs \cup {<<1, 1>>, <<1, 2>>, <<2>>, <<3, 1>>, <<4>>}
MCListed == MCPaths \ {<<4>>}
MCSpell  == <<<<97>>, <<98>>, <<99>>, <<100>>>>

SmallDirs  == {<< >>, <<1>>}
SmallPaths == SmallDirs \cup {<<1, 1>>, <<1, 2>>, <<2>>}

SpaceSpell == <<<<97>>, <<97, 32, 98>>, <<98>>>>
=============================================================================
