---------------------------- MODULE MCBidLedger -----------------------------
(* Small instances of BidLedger: a placed retail bid, a placed HNI bid, and *)
(* ids for the rows a rebid makes.                                          *)
EXTENDS BidLedger, TLC

CONSTANTS a1, a2, a3, a4

MCPlaced   == <<a1, a2>>
MCExisting == {a1, a2}
MCCategory == (a1 :> "ind") @@ (a2 :> "shni")

SerialExisting == {a1, a2, a4}
SerialCategory == MCCategory @@ (a4 :> "ind")

Interchangeable == Permutations(Handler) \cup Permutations(Poster)
=============================================================================
