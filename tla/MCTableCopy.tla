---------------------------- MODULE MCTableCopy ----------------------------
(***************************************************************************)
(* TableCopy with three rows, one the destination refuses and one it takes *)
(* only coerced, and two settings that differ in all three fields.         *)
(***************************************************************************)
EXTENDS TableCopy

TwoSettings == {[batch |-> 2, range |-> Rows, cap |-> 0],
                [batch |-> 3, range |-> Rows \ {1}, cap |-> 1]}
OneSetting  == {[batch |-> 2, range |-> Rows, cap |-> 0]}
OneBad      == {2}
OneCoerced  == {3}
AllModes    == {"bulk", "range", "sample"}
=============================================================================
