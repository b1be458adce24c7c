----------------------------- MODULE MCTaskList -----------------------------
(* TaskList for TLC: MCTaskList.cfg gives the bound its value. *)
EXTENDS TaskList
=============================================================================
