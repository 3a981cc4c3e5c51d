SPECIFICATION Spec
CONSTANTS
  Runs = {r1, r2}
  Loader = Loader
  InitialFiles = 2
  MaxAppends = 1
  MaxSnapshots = 5
  MaxBehind = 1
SYMMETRY RunSymmetry
INVARIANTS
  TypeOK
  ReceiptMeansUndisturbed
  ReceiptIsEarned
CHECK_DEADLOCK FALSE
