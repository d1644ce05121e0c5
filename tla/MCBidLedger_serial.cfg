SPECIFICATION ApartSpec
CONSTANTS
  a1 = a1
  a2 = a2
  a3 = a3
  a4 = a4
  App = {a1, a2, a3}
  Existing <- MCExisting
  Placed <- MCPlaced
  Category <- MCCategory
  Handler = {h1, h2}
  Poster = {p1}
  MaxQty = 2
  MaxOps = 3
  MaxBids = 3
SYMMETRY Interchangeable
INVARIANTS DatabaseDescribesExchange
PROPERTIES InstitutionalOnlyRaised OnlyOwnBidTouched
