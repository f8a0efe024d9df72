---------------------------- MODULE MCUringDriver ----------------------------
(* Instances of UringDriver for TLC. *)
EXTENDS UringDriver, TLC

CONSTANTS w1, w2

TwoWakers == {w1, w2}
=============================================================================
