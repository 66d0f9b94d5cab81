\* A lazy definition that replaces another is taken for an address.
SPECIFICATION Spec
CONSTANTS
  Names = {n1}
  Sources = {s1, s2}
  Queries = {q1}
  Client = client
  MaxDefines = 2
INVARIANT AnswersAreAddresses
