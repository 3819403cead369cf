------------------------- MODULE MCWorkspaceSessions -------------------------
(***************************************************************************)
(* Instances of WorkspaceSessions for TLC.  Session ids are told apart     *)
(* only by the records that hold them: when no session is given at the     *)
(* start, a state and the one with the ids exchanged behave alike.         *)
(***************************************************************************)
EXTENDS WorkspaceSessions, TLC

AnySession == Permutations(SessionIds)

(* A bound: of the visit after the crash only the boot is explored.        *)
BootAfterCrash == booted => unloads = 0
=============================================================================
