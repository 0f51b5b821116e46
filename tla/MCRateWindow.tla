---------------------------- MODULE MCRateWindow ----------------------------
(***************************************************************************)
(* A small instance of RateWindow: two skills, a window of two ticks, a    *)
(* cap that may be set to zero, one or two.                                *)
(***************************************************************************)
EXTENDS RateWindow, TLC

CONSTANTS missing, upgrades

TwoSkills == {missing, upgrades}
SmallCaps == {0, 1, 2}
Interchangeable == Permutations(Skills)
=============================================================================
