------------------------------- MODULE MCExec -------------------------------
(* Two harts; shell and GUI service on different harts, or on the same one. *)
EXTENDS Exec

Apart == [shelld |-> 0, gpuid |-> 1, gui_cmd |-> 0]
Together == [shelld |-> 1, gpuid |-> 1, gui_cmd |-> 0]
TwoPlacements == {Apart, Together}
=============================================================================
