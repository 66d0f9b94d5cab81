\* Every query is answered and no callback comes twice or, but for the
\* entries in Premature, too early.
SPECIFICATION FairSpec
CONSTANTS
  Names = {n1, n2}
  Sources = {s1, s2}
  Queries = {q1, q2}
  Client = client
  MaxDefines = 3
INVARIANTS
  CallbackProtocol
  ReadyIsFinal
PROPERTIES
  SourcesAskedOnce
  QueriesComplete
