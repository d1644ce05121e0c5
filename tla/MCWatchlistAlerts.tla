------------------------- MODULE MCWatchlistAlerts --------------------------
EXTENDS WatchlistAlerts, TLC

CONSTANTS u1, u2, i1, i2

MCFirst == (i1 :> "before") @@ (i2 :> "closing")
MCMarked == {i2}
MCWatchlist == {<<u1, i1>>, <<u1, i2>>, <<u2, i1>>}
=============================================================================
