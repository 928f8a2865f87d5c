---------------------------- MODULE MCFireSystem ----------------------------
(* Small instances of the fire system.  In base 6, 2 and 5 are written     *)
(* <<2,0>> and <<5,0>>, 7 is <<1,1>>: a threshold of 2 and one of 7 differ *)
(* in both bytes, and so do the readings 5 and 8 (<<2,1>>).                *)
EXTENDS FireSystem

ColdAndHot    == {0, 5}
TwoHot        == {0, 5, 8}
AtThresholdOnly == {2}
Seven         == {7}
TwoAndSeven   == {2, 7}
None          == {}
=============================================================================
