---------------------------- MODULE MCTablePool ----------------------------
(***************************************************************************)
(* TablePool with two or three tables, one of them without a date column.  *)
(***************************************************************************)
EXTENDS TablePool

CONSTANTS t1, t2, t3

TwoTables   == {t1, t2}
ThreeTables == {t1, t2, t3}
LastTable   == {t2}
AllModes    == {"bulk", "range", "sample", "incremental"}
BulkOnly    == {"bulk"}
=============================================================================
