SPECIFICATION Spec
CONSTANTS
  a1 = a1
  a2 = a2
  a3 = a3
  a4 = a4
  App = {a1, a2, a3, a4}
  Existing <- SerialExisting
  Placed <- MCPlaced
  Category <- SerialCategory
  Handler = {h1, h2}
  Poster = {p1, p2}
  MaxQty = 1
  MaxOps = 2
  MaxBids = 3
SYMMETRY Interchangeable
INVARIANTS TypeOK NumbersAreOwn InstitutionalNeverWithdrawn
PROPERTY ImplementsBook
