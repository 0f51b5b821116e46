--------------------------- MODULE MCSearchLedger ---------------------------
(***************************************************************************)
(* Small instances of SearchLedger.  Every key belongs to one skill, as    *)
(* the prefixes of the cache keys have it: with one skill all keys are     *)
(* its own, with two the keys are shared out.                              *)
(***************************************************************************)
EXTENDS SearchLedger

OneSkill   == {"missing"}
TwoSkills  == {"missing", "upgrade"}
OneKey     == {"film"}
TwoKeys    == {"film", "series"}
OwnedByOne == [k \in TwoKeys |-> "missing"]
OneOwned   == [k \in OneKey |-> "missing"]
Shared     == [k \in TwoKeys |-> IF k = "film" THEN "missing" ELSE "upgrade"]
NoTitle    == "no key"
=============================================================================
