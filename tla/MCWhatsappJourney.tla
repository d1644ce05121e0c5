------------------------- MODULE MCWhatsappJourney --------------------------
EXTENDS WhatsappJourney, TLC

CONSTANTS i1, i2, p1, h1, h2

Interchangeable == Permutations(Ipo) \cup Permutations(Profile) \cup Permutations(Handler)
=============================================================================
