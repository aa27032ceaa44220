--------------------------- MODULE MCFileOrganizer ---------------------------
(* Two files, one rewrite by the user and one new authorization: enough for  *)
(* a move that fails half-way, a stale preview, a file in both places and a  *)
(* folder that is authorized again.                                          *)
EXTENDS FileOrganizer
==============================================================================
