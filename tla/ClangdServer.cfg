SPECIFICATION FairSpec
CONSTANTS
  Files = {f1, f2}
  Workers = {w1, w2}
  MaxCalls = 3
INVARIANTS DefinitionsAreFresh DoneAfterDiagnostics RemovedFileIsIdle ShownDiagnosticsAreCurrent
PROPERTIES DefinitionsReturn DiagnosticsArrive ShutdownReturns
