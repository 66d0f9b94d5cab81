SPECIFICATION FairSpec
CONSTANT MaxRequests = 3
INVARIANTS RebuildsExclusive GuardAssertions PromisesSetOnce FreshResults
PROPERTIES CallbacksInOrder PreambleIsFresh ASTIsFresh FuturesBecomeReady ComputationsReturn
