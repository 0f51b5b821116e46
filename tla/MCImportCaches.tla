--------------------------- MODULE MCImportCaches ---------------------------
(***************************************************************************)
(* A small instance of ImportCaches: three request threads for two slots.     *)
(***************************************************************************)
EXTENDS ImportCaches, TLC

CONSTANTS menu, page, page2, film

Threads == {menu, page, page2}
Interchangeable == Permutations(Threads)
OneDownload == {film}
AllKinds == {"list", "card", "count", "import"}
=============================================================================
