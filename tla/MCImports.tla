----------------------------- MODULE MCImports ------------------------------
(***************************************************************************)
(* Small instances of Imports: one download, two apps the instance  *)
(* may point to, two request threads.                                      *)
(***************************************************************************)
EXTENDS Imports, TLC

CONSTANTS tab1, tab2, radarr, radarr2, film

TwoTabs == {tab1, tab2}
TwoApps == {radarr, radarr2}
OneDownload == {film}
AllKinds == {"import", "discard", "status", "edit"}
Interchangeable == Permutations(TwoTabs) \cup Permutations(TwoApps)
=============================================================================
