------------------------- MODULE MCFireSystemHistory -------------------------
(* The instances of MCFireSystem, with history. *)
EXTENDS FireSystemHistory, MCFireSystem
=============================================================================
