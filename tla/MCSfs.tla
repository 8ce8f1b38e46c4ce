------------------------------- MODULE MCSfs -------------------------------
(* Contents of Sfs: one or two blocks long, and the placeholder of a directory. *)
EXTENDS Sfs

Contents == {<<1>>, <<2, 3>>}
OneBlock == <<1>>
=============================================================================
