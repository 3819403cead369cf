------------------------- MODULE MCEngineConnection -------------------------
(* Small instances of EngineConnection for TLC. *)
EXTENDS EngineConnection, TLC

CONSTANTS t1, t2, t3
OneTarget  == <<t1>>
TwoTargets == <<t1, t2>>
OneRemoval == <<t3>>
NoRemoval  == <<>>

=============================================================================
