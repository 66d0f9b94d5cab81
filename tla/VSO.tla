---------------------------------- MODULE VSO ----------------------------------
(***************************************************************************)
(* The core of the ORC JIT (llvm/lib/ExecutionEngine/Orc/Core.cpp): a VSO  *)
(* is a symbol table whose entries are defined at once or lazily, by a     *)
(* source that is asked for the symbol when a query first looks it up.     *)
(* AsynchronousSymbolQuery counts the symbols it still waits for and calls *)
(* its owner back when all are resolved and again when all are finalized.  *)
(*                                                                         *)
(* A call with several symbols handles one after the other, so it stands   *)
(* for as many calls with one symbol each.  An address is named by who     *)
(* defined it.  The asserts of the code are guards: builds have them on.   *)
(***************************************************************************)
EXTENDS Naturals, FiniteSets, Sequences

CONSTANTS
  Names,
  Sources,     \* the SymbolSources
  Queries,     \* the queries; each is made at most once
  Client,      \* who defines symbols at once
  MaxDefines   \* bound on the calls of define() and defineLazy()

ASSUME NamesAssumption == IsFiniteSet(Names)
ASSUME ClientAssumption == Client \notin Sources
ASSUME DefinesAssumption == MaxDefines \in Nat

VARIABLES
  Strong,                    \* flags of an entry: neither Weak nor Common
  Stage,                     \* flags NotMaterialized and Materializing
  Word,                      \* its union, while that is an Address or a Source
  Address,                   \* MaterializationInfo: 0 is Unset
  PendingResolution,         \* MaterializationInfo: queries
  PendingFinalization,
  Wanted,                    \* the names of each query
  LookedUp,                  \* of these, the ones found by lookup()
  OutstandingResolutions,
  OutstandingFinalizations,
  Symbols,                   \* what setDefinition stored in a query
  Notified,                  \* the callbacks each query has made, in order
  Work,                      \* what sources were asked to materialize
  Emitted,                   \* what they have resolved but not finalized
  Discarded,                 \* what they were told to discard
  Premature,                 \* history: the entries marked as materialized before
                             \* the source of a definition of theirs finalizes it
  defines

entries == <<Strong, Stage, Word, Address, PendingResolution, PendingFinalization>>
queries == <<OutstandingResolutions, OutstandingFinalizations, Symbols, Notified>>
sources == <<Work, Emitted, Discarded>>
vars == <<entries, queries, sources, Wanted, LookedUp, Premature, defines>>

Unset == [is |-> "unset"]
AddressOf(d) == [is |-> "address", of |-> d]
PointerTo(s) == [is |-> "source", of |-> s]
Addresses == {AddressOf(d) : d \in Sources \cup {Client}}

Init ==
  /\ Strong = [n \in Names |-> FALSE]
  /\ Stage = [n \in Names |-> "absent"]
  /\ Word = [n \in Names |-> Unset]
  /\ Address = [n \in Names |-> Unset]
  /\ PendingResolution = [n \in Names |-> {}]
  /\ PendingFinalization = [n \in Names |-> {}]
  /\ Wanted = [q \in Queries |-> {}]
  /\ LookedUp = [q \in Queries |-> {}]
  /\ OutstandingResolutions = [q \in Queries |-> 0]
  /\ OutstandingFinalizations = [q \in Queries |-> 0]
  /\ Symbols = [q \in Queries |-> [n \in Names |-> Unset]]
  /\ Notified = [q \in Queries |-> <<>>]
  /\ Work = {} /\ Emitted = {} /\ Discarded = {}
  /\ Premature = {}
  /\ defines = 0

-----------------------------------------------------------------------------
(* AsynchronousSymbolQuery. *)

\* The constructor.  A query for no symbol at all would never call back.
NewQuery(q, N) ==
  /\ Wanted[q] = {} /\ N # {}
  /\ Wanted' = [Wanted EXCEPT ![q] = N]
  /\ OutstandingResolutions' = [OutstandingResolutions EXCEPT ![q] = Cardinality(N)]
  /\ OutstandingFinalizations' = [OutstandingFinalizations EXCEPT ![q] = Cardinality(N)]
  /\ UNCHANGED <<entries, Symbols, Notified, sources, LookedUp, Premature, defines>>

\* What the callbacks add to Notified when the queries in Q count down.
Resolves(Q, q) == q \in Q /\ OutstandingResolutions[q] = 1
Finalizes(Q, q) == q \in Q /\ OutstandingFinalizations[q] = 1
Callbacks(Q, R, q) ==
  (IF Resolves(Q, q) THEN <<"resolved">> ELSE <<>>) \o
  (IF Finalizes(R, q) THEN <<"ready">> ELSE <<>>)
CountDown(count, Q) ==
  [q \in Queries |-> IF q \in Q /\ count[q] # 0 THEN count[q] - 1 ELSE count[q]]

\* setDefinition(n, a) on the queries in Q, then notifySymbolFinalized() on
\* those in R.  Both ignore a query that has failed.
Notify(Q, n, a, R) ==
  /\ OutstandingResolutions' = CountDown(OutstandingResolutions, Q)
  /\ OutstandingFinalizations' = CountDown(OutstandingFinalizations, R)
  /\ Symbols' = [q \in Queries |->
       IF q \in Q /\ OutstandingResolutions[q] # 0
       THEN [Symbols[q] EXCEPT ![n] = a] ELSE Symbols[q]]
  /\ Notified' = [q \in Queries |-> Notified[q] \o Callbacks(Q, R, q)]

\* setFailed, which must not be called after both callbacks.  A mutant leaves
\* the second counter alone.
FailedFinalizationsMutant(q) == OutstandingFinalizations[q]
FailedFinalizations(q) == 0
setFailed(q) ==
  /\ Wanted[q] # {} /\ Notified[q] \in {<<>>, <<"resolved">>}
  /\ OutstandingResolutions' = [OutstandingResolutions EXCEPT ![q] = 0]
  /\ OutstandingFinalizations' = [OutstandingFinalizations EXCEPT ![q] = FailedFinalizations(q)]
  /\ Notified' = [Notified EXCEPT ![q] = Append(@, "error")]
  /\ UNCHANGED <<entries, Symbols, sources, Wanted, LookedUp, Premature, defines>>

-----------------------------------------------------------------------------
(* VSO and SymbolTableEntry. *)

\* compareLinkage, for an entry that exists.
DuplicateDefinition(n, strong) == Strong[n] /\ strong
ExistingDefinitionIsStronger(n, strong) == ~strong

\* The entry becomes a finalized definition d.
Materialized(n, strong, d) ==
  /\ Strong' = [Strong EXCEPT ![n] = strong]
  /\ Stage' = [Stage EXCEPT ![n] = "materialized"]
  /\ Word' = [Word EXCEPT ![n] = d]
  /\ Address' = [Address EXCEPT ![n] = Unset]
  /\ PendingResolution' = [PendingResolution EXCEPT ![n] = {}]
  /\ PendingFinalization' = [PendingFinalization EXCEPT ![n] = {}]

\* The source of an entry that nobody has asked for yet.
LazySource(n) == IF Stage[n] = "lazy" THEN {<<Word[n].of, n>>} ELSE {}

Defining == defines < MaxDefines /\ defines' = defines + 1

\* define(): a new symbol, or a strong definition over a weak one, which is
\* resolved and finalized even while a source is materializing the weak one; if
\* that one is resolved, the queries that have its address count it as final.
define(n, strong) ==
  /\ Defining
  /\ IF Stage[n] = "absent" \/ ~(DuplicateDefinition(n, strong)
                                 \/ ExistingDefinitionIsStronger(n, strong))
     THEN /\ Materialized(n, strong, AddressOf(Client))
          /\ Notify(PendingResolution[n], n, AddressOf(Client),
                    PendingResolution[n] \cup PendingFinalization[n])
          /\ Discarded' = Discarded \cup LazySource(n)
          /\ Premature' = Premature \cup {m \in {n} : Address[m] # Unset}
     ELSE UNCHANGED <<entries, queries, Discarded, Premature>>
  /\ UNCHANGED <<Work, Emitted, Wanted, LookedUp>>

\* defineLazy(): a new symbol.
defineLazyNew(n, strong, s) ==
  /\ Defining
  /\ Stage[n] = "absent"
  /\ Strong' = [Strong EXCEPT ![n] = strong]
  /\ Stage' = [Stage EXCEPT ![n] = "lazy"]
  /\ Word' = [Word EXCEPT ![n] = PointerTo(s)]
  /\ UNCHANGED <<Address, PendingResolution, PendingFinalization, queries, sources,
                 Wanted, LookedUp, Premature>>

\* defineLazy() of a symbol that exists, and is not being materialized (an
\* assertion).  Unless both are strong the entry gets the new source, also when
\* the existing definition is the stronger one; replaceWithSource assigns the
\* flags as given, without NotMaterialized, so nobody will materialize it.
replaceWithSource(n, strong, s) ==
  /\ Defining
  /\ Stage[n] \in {"lazy", "materialized"} /\ ~DuplicateDefinition(n, strong)
  /\ Discarded' = Discarded \cup LazySource(n) \cup
       (IF ExistingDefinitionIsStronger(n, strong) THEN {<<s, n>>} ELSE {})
  /\ Strong' = [Strong EXCEPT ![n] = strong]
  /\ Stage' = [Stage EXCEPT ![n] = "materialized"]
  /\ Word' = [Word EXCEPT ![n] = PointerTo(s)]
  /\ Premature' = Premature \cup {n}
  /\ UNCHANGED <<Address, PendingResolution, PendingFinalization, queries, Work, Emitted,
                 Wanted, LookedUp>>

\* A definition that is both strong and a duplicate is reported and skipped.
defineLazyDuplicate(n, strong) ==
  /\ Defining
  /\ Stage[n] # "absent" /\ DuplicateDefinition(n, strong)
  /\ UNCHANGED <<entries, queries, sources, Wanted, LookedUp, Premature>>

\* lookup(): SymbolTableEntry::query of an entry that exists.
Lookup(q, n) ==
  /\ n \in Wanted[q] \ LookedUp[q]
  /\ LookedUp' = [LookedUp EXCEPT ![q] = @ \cup {n}]
  /\ UNCHANGED <<Emitted, Discarded, Wanted, Premature, defines>>

QueryMaterialized(q, n) ==
  /\ Lookup(q, n) /\ Stage[n] = "materialized"
  /\ Notify({q}, n, Word[n], {q})
  /\ UNCHANGED <<entries, Work>>

\* MaterializationInfo::query: an address that is known is handed out, and the
\* query waits for the finalization; a mutant does not.
WhenResolvedMutant(q, n) == {}
WhenResolved(q, n) == IF Address[n] = Unset THEN {} ELSE {q}
QueryMaterializing(q, n) ==
  /\ Lookup(q, n) /\ Stage[n] = "materializing"
  /\ IF Address[n] # Unset
     THEN /\ Notify({q}, n, Address[n], {q} \ WhenResolved(q, n))
          /\ PendingFinalization' =
               [PendingFinalization EXCEPT ![n] = @ \cup WhenResolved(q, n)]
          /\ UNCHANGED PendingResolution
     ELSE /\ PendingResolution' = [PendingResolution EXCEPT ![n] = @ \cup {q}]
          /\ UNCHANGED <<queries, PendingFinalization>>
  /\ UNCHANGED <<Strong, Stage, Word, Address, Work>>

\* The first lookup hands the symbol to its source.  A mutant forgets to mark
\* the entry.
AskedMutant == "lazy"
Asked == "materializing"
QueryLazy(q, n) ==
  /\ Lookup(q, n) /\ Stage[n] = "lazy"
  /\ Stage' = [Stage EXCEPT ![n] = Asked]
  /\ Address' = [Address EXCEPT ![n] = Unset]
  /\ PendingResolution' = [PendingResolution EXCEPT ![n] = @ \cup {q}]
  /\ Work' = Work \cup {[source |-> Word[n].of, name |-> n, strong |-> Strong[n], by |-> q]}
  /\ UNCHANGED <<Strong, Word, PendingFinalization, queries>>

\* MaterializationInfo::resolve: the queries go on to wait for the
\* finalization; a mutant forgets them.
MoveOnMutant(n) == PendingFinalization[n]
MoveOn(n) == PendingFinalization[n] \cup PendingResolution[n]

\* A source resolves what it was asked for: the waiting queries get the address,
\* or, if define() or replaceWithSource was faster, the entry's definition is
\* overwritten, and counts as finalized at once.
resolve(w) ==
  LET n == w.name IN
  /\ w \in Work
  /\ Work' = Work \ {w} /\ Emitted' = Emitted \cup {w}
  /\ \/ /\ Stage[n] = "materializing"
        /\ Address' = [Address EXCEPT ![n] = AddressOf(w.source)]
        /\ Notify(PendingResolution[n], n, AddressOf(w.source), {})
        /\ PendingFinalization' = [PendingFinalization EXCEPT ![n] = MoveOn(n)]
        /\ PendingResolution' = [PendingResolution EXCEPT ![n] = {}]
        /\ UNCHANGED <<Strong, Stage, Word, Premature>>
     \/ /\ Stage[n] # "materializing"
        /\ Materialized(n, w.strong, AddressOf(w.source))
        /\ Premature' = Premature \cup {n}
        /\ UNCHANGED queries
  /\ UNCHANGED <<Discarded, Wanted, LookedUp, defines>>

\* SymbolSource::materialize may materialize additional symbols: while it does its
\* job w, a source resolves a lazy symbol of its own that nobody has asked for.
\* Here too the entry counts as finalized at once, and the source, which has
\* still to finalize it, is told to discard the symbol.
resolveAdditional(w, n) ==
  /\ w \in Work /\ Stage[n] = "lazy" /\ Word[n] = PointerTo(w.source)
  /\ Emitted' = Emitted \cup
       {[source |-> w.source, name |-> n, strong |-> Strong[n], by |-> w.by]}
  /\ Materialized(n, Strong[n], AddressOf(w.source))
  /\ Premature' = Premature \cup {n}
  /\ Discarded' = Discarded \cup LazySource(n)
  /\ UNCHANGED <<Work, queries, Wanted, LookedUp, defines>>

\* ... and finalizes it.
finalize(w) ==
  LET n == w.name IN
  /\ w \in Emitted
  /\ Emitted' = Emitted \ {w}
  /\ \/ /\ Stage[n] = "materializing"
        /\ Materialized(n, w.strong, Address[n])
        /\ Notify({}, n, Unset, PendingFinalization[n])
     \/ /\ Stage[n] # "materializing"
        /\ UNCHANGED <<entries, queries>>
  /\ UNCHANGED <<Work, Discarded, Wanted, LookedUp, Premature, defines>>

-----------------------------------------------------------------------------
SourceStep == \E w \in Work : resolve(w)
FinalizeStep == \E w \in Emitted : finalize(w)

\* The owners of the queries and of the VSO may stop at any time.
Stopped == Work = {} /\ Emitted = {} /\ UNCHANGED vars

Next ==
  \/ \E q \in Queries, N \in SUBSET Names : NewQuery(q, N)
  \/ \E q \in Queries : setFailed(q)
  \/ \E n \in Names, strong \in BOOLEAN : define(n, strong) \/ defineLazyDuplicate(n, strong)
  \/ \E n \in Names, strong \in BOOLEAN, s \in Sources :
       defineLazyNew(n, strong, s) \/ replaceWithSource(n, strong, s)
  \/ \E q \in Queries, n \in Names :
       QueryMaterialized(q, n) \/ QueryMaterializing(q, n) \/ QueryLazy(q, n)
  \/ SourceStep \/ FinalizeStep
  \/ \E w \in Work, n \in Names : resolveAdditional(w, n)
  \/ Stopped

Spec == Init /\ [][Next]_vars

\* Sources do what they are asked for; nothing else has to happen.
FairSpec == Spec /\ WF_vars(SourceStep) /\ WF_vars(FinalizeStep)

-----------------------------------------------------------------------------
(* Properties. *)

\* AsynchronousSymbolQuery calls its owner back at most twice, "resolved"
\* before "ready", and never again after an error (Core.h, setFailed), although
\* the lists of the entries still point to a query that has failed.
CallbackProtocol ==
  \A q \in Queries : Notified[q] \in {<<>>, <<"resolved">>, <<"resolved", "ready">>,
                                     <<"error">>, <<"resolved", "error">>}

\* A query is ready only when no entry will ever notify it again and everything
\* it asked for has an address, whose source, if it has one, has finalized it --
\* whichever of define(), resolve() and finalize() came first.  That the address
\* is final does not hold for the entries in Premature: although resolve() does
\* "not mark the symbols as finalized yet" (Core.h), it does mark an entry that
\* is not being materialized, define() finalizes what a source has only resolved,
\* and replaceWithSource() marks what has no address at all.
ReadyIsFinal ==
  \A q \in Queries : Notified[q] = <<"resolved", "ready">> =>
    \A n \in Wanted[q] :
      /\ q \notin PendingResolution[n] \cup PendingFinalization[n]
      /\ Symbols[q][n] # Unset
      /\ n \notin Premature =>
           /\ Symbols[q][n] \in Addresses
           /\ \A w \in Emitted : w.name = n => AddressOf(w.source) # Symbols[q][n]

\* lookup() asks at most one source to materialize a name at a time, however
\* many queries want it, and never one that was told to discard it.
SourcesAskedOnce ==
  [][\A w \in Work' \ Work :
       /\ <<w.source, w.name>> \notin Discarded
       /\ \A v \in Work \cup Emitted : v.name # w.name]_vars

\* A query whose symbols were all found hears of the end, if the sources that
\* were asked for them resolve and finalize them: no list forgets it.
QueriesComplete ==
  \A q \in Queries :
    (Wanted[q] # {} /\ LookedUp[q] = Wanted[q]) ~> (Notified[q] \notin {<<>>, <<"resolved">>})

\* What Core.h says of lookup(): a symbol that is materialized is answered by
\* its address, any other by way of its source, so no query is ever answered
\* with the pointer to a source.
AnswersAreAddresses ==
  \A q \in Queries, n \in Names : Symbols[q][n] \notin {PointerTo(s) : s \in Sources}
=============================================================================
