------------------------- MODULE MCAllotmentArchive -------------------------
(* Small instances of AllotmentArchive: two application numbers.           *)
EXTENDS AllotmentArchive

CONSTANTS n1, n2
=============================================================================
