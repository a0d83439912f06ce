---------------------------- MODULE CopyPromise ----------------------------
(***************************************************************************)
(* What copying a table promises, whatever the chunks, retries, pauses and *)
(* settings: rows are accounted for (they arrive, or are written down as   *)
(* failed), accounting is never taken back, and progress is only claimed   *)
(* over rows that are accounted for.  The claim may shrink (a late writer  *)
(* may put an older position back), but it is never ahead of the truth.    *)
(***************************************************************************)
CONSTANT Rows

VARIABLES
  settled,   \* rows that arrived or were written down as failed
  claimed    \* rows the recorded progress says are dealt with

PromiseInit == settled = {} /\ claimed = {}

Account == settled' \in SUBSET Rows /\ settled \subseteq settled'
           /\ claimed' = claimed
Claim   == claimed' \in SUBSET settled /\ settled' = settled

PromiseNext == Account \/ Claim
Promise == PromiseInit /\ [][PromiseNext]_<<settled, claimed>>
=============================================================================
