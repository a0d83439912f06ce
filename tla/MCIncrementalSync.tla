------------------------- MODULE MCIncrementalSync -------------------------
(***************************************************************************)
(* IncrementalSync with two or three rows, all three ways of detecting     *)
(* changes, and room for one worker that outlives its run.                 *)
(***************************************************************************)
EXTENDS IncrementalSync

AllModes  == {"watermark", "max_key", "ora_rowscn"}
OneBlock  == {1, 2}
TwoSlots  == {1, 2}
=============================================================================
