---------------------------- MODULE MCJobRunner ----------------------------
(***************************************************************************)
(* JobRunner with a bulk job and an incremental job, and one or two        *)
(* requests in flight.                                                     *)
(***************************************************************************)
EXTENDS JobRunner, TLC

CONSTANTS bulk1, sync1, c1, c2

OneOfEach   == {bulk1, sync1}
SyncJob     == {sync1}
TwoRequests == {c1, c2}
OneRequest  == {c1}

\* Requests are interchangeable (used by runs that check no liveness).
RequestSymmetry == Permutations(TwoRequests)
=============================================================================
