SPECIFICATION Spec
CONSTANTS
  MaxRetries = 3
  IDs = {i1, i2}
  Keys = {k1, k2}
  NoKey = NoKey
  NoID = NoID
CONSTRAINT OneReplaced
SYMMETRY StoreSymmetry
INVARIANT IndexExact
PROPERTY ImplementsStore
