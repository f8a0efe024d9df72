----------------------------- MODULE MCExecutor -----------------------------
(***************************************************************************)
(* Instances of Executor for TLC: the root future spawns a and c, and a    *)
(* spawns b.                                                               *)
(***************************************************************************)
EXTENDS Executor

CONSTANTS a, b, c

ChainAndLeaf  == {a, b, c}
OwnerOfThree  == [t \in {a, b, c} |-> IF t = b THEN a ELSE Root]
Chain         == {a, b}
OwnerOfTwo    == [t \in {a, b} |-> IF t = b THEN a ELSE Root]

AnyClient   == {"cancel", "early_drop", "channel"}
YieldsOn    == {"yield_forever"}
=============================================================================
