SPECIFICATION Spec
CONSTANTS
  Files = {f1, f2}
  Workers = {w1, w2}
  MaxUpdates = 4
SYMMETRY Symmetry
INVARIANTS IndexIsSnapshot ExactWhenSerial
