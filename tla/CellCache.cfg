SPECIFICATION Spec
CONSTANTS
  a1 = a1  a2 = a2  a3 = a3  b1 = b1  x1 = x1  x2 = x2
  Workers = {w1, w2}
  Keys = {a1, a2, a3, b1, x1, x2}
  Chains <- MCChains
  Compiles = {a1, a2, a3, b1, x2}
  SizeOf <- MCSizeOf
  MaxBytes = 2
SYMMETRY Symmetry
INVARIANTS
  OnlyCompiledIsCached
  ReferencesReady
  NoFileIsForgotten
PROPERTIES
  NoTornCopy
