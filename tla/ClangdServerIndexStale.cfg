SPECIFICATION Spec
CONSTANTS
  Files = {f1}
  Workers = {w1, w2}
  MaxCalls = 3
INVARIANT IndexIsCurrent
