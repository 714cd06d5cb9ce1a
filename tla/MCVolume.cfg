CONSTANTS
  Kinds = {"dense", "sparse"}
  Ticks = 7
  SparsePrices = {2, 3, 5, 6, 8}
  MaxVolume = 3
  Modulus = 16
SPECIFICATION Spec
INVARIANTS DenseSumsAreExact SparseSumsAreExact SparseSubDoesNotPanic
