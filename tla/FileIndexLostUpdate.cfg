SPECIFICATION Spec
CONSTANTS
  Files = {f1, f2}
  Workers = {w1, w2}
  MaxUpdates = 2
INVARIANT ExactWhenQuiet
