---------------------------- MODULE MCSourceRefresh ----------------------------
(* Small instances of SourceRefresh for TLC. *)
EXTENDS SourceRefresh, TLC

CONSTANTS s1, s2, c1, c2

(* c2 reads a second source, and the first one through c1. *)
ChainInputs == (c1 :> {s1}) @@ (c2 :> {c1, s2})
ChainOrder  == <<c1, c2>>
(* One cell over one source. *)
OneInput    == c1 :> {s1}
OneOrder    == <<c1>>
=============================================================================
