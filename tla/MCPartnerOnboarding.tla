------------------------- MODULE MCPartnerOnboarding -------------------------
EXTENDS PartnerOnboarding, TLC

\* Accounts, applications, handlers and names are told apart only by what they do.
Symmetry == Permutations(App) \cup Permutations(Account) \cup Permutations(Reviewer)
=============================================================================
