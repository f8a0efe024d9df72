------------------------------- MODULE MCTask -------------------------------
(***************************************************************************)
(* Instances of Task for TLC: what the code around the task may do.        *)
(***************************************************************************)
EXTENDS Task

AnyClient   == ClientActs
CancelOnly  == {"cancel"}
DropsEarly  == {"early_drop"}
=============================================================================
