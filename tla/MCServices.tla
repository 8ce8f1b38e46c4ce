----------------------------- MODULE MCServices -----------------------------
(* Three harts of a machine with as many harts as daemons: each daemon has its
   own.  The daemons that neither log nor run programs are left out. *)
EXTENDS Services

MCBoot == << [name |-> "klogd", hart |-> 2], [name |-> "shelld", hart |-> 0],
             [name |-> "gui_cmd", hart |-> 1] >>
=============================================================================
