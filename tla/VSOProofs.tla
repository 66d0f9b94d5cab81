------------------------------- MODULE VSOProofs -------------------------------
(***************************************************************************)
(* What VSO promises to the owners of queries and to the sources, for any  *)
(* sets of names, sources and queries, and any number of definitions.      *)
(***************************************************************************)
EXTENDS VSO, FiniteSetTheorems, SequenceTheorems, TLAPS

\* The names that a query waits for to be resolved, and to be finalized.
Unresolved(q) ==
  {n \in Wanted[q] : n \notin LookedUp[q] \/ q \in PendingResolution[n]}
Unfinalized(q) ==
  {n \in Wanted[q] : \/ n \notin LookedUp[q]
                     \/ q \in PendingResolution[n] \cup PendingFinalization[n]}

Jobs == [source : Sources, name : Names, strong : BOOLEAN, by : Queries]

\* The values that the steps rely on.
Shape ==
  /\ Stage \in [Names -> {"absent", "lazy", "materializing", "materialized"}]
  /\ Strong \in [Names -> BOOLEAN]
  /\ DOMAIN Word = Names /\ Word = [n \in Names |-> Word[n]]
  /\ DOMAIN Address = Names /\ Address = [n \in Names |-> Address[n]]
  /\ PendingResolution \in [Names -> SUBSET Queries]
  /\ PendingFinalization \in [Names -> SUBSET Queries]
  /\ Wanted \in [Queries -> SUBSET Names]
  /\ LookedUp \in [Queries -> SUBSET Names]
  /\ OutstandingResolutions \in [Queries -> Nat]
  /\ OutstandingFinalizations \in [Queries -> Nat]
  /\ Notified = [q \in Queries |-> Notified[q]]
  /\ Symbols = [q \in Queries |-> [n \in Names |-> Symbols[q][n]]]
  /\ Work \subseteq Jobs /\ Emitted \subseteq Jobs
  /\ \A d \in Discarded : d[2] \in Names

\* The union of an entry holds what the flags say, so far as it matters here.
Words ==
  \A n \in Names :
    /\ Stage[n] = "lazy" => Word[n] = PointerTo(Word[n].of) /\ Word[n].of \in Sources
    /\ Stage[n] = "materialized" => Word[n] # Unset

\* An entry has lists only while it is materialized: first the one, then the other.
Lists ==
  \A n \in Names :
    /\ Stage[n] # "materializing" =>
         PendingResolution[n] = {} /\ PendingFinalization[n] = {}
    /\ Address[n] # Unset => PendingResolution[n] = {}
    /\ Address[n] = Unset => PendingFinalization[n] = {}

\* An entry never goes back to being lazy, so its source is asked once.
Untouched(n) == Stage[n] \in {"absent", "lazy"}
JobsOnce ==
  /\ \A w \in Work \cup Emitted : ~Untouched(w.name)
  /\ \A d \in Discarded : ~Untouched(d[2])
  /\ \A v, w \in Work \cup Emitted : v.name = w.name => v = w
  /\ Work \cap Emitted = {}
  /\ \A w \in Work : Stage[w.name] = "materializing" => Address[w.name] = Unset
  /\ \A w \in Emitted : Stage[w.name] = "materializing" => Address[w.name] # Unset

\* Who is in the lists: queries that found the entry, all while it materializes.
Listed ==
  \A q \in Queries : 
    /\ LookedUp[q] \subseteq Wanted[q]
    /\ \A n \in Names :
         /\ q \in PendingResolution[n] \cup PendingFinalization[n] => n \in LookedUp[q]
         /\ n \in LookedUp[q] => ~Untouched(n)
         /\ n \in LookedUp[q] /\ Stage[n] = "materializing" =>
              q \in PendingResolution[n] \cup PendingFinalization[n]

\* The counters of a query that has not failed are exact.
New(q) == Wanted[q] = {} /\ Notified[q] = <<>>
Failed(q) == Notified[q] \in {<<"error">>, <<"resolved", "error">>}
NoneLeft(q) == OutstandingResolutions[q] = 0 /\ OutstandingFinalizations[q] = 0
Counted(q) ==
  /\ OutstandingResolutions[q] = Cardinality(Unresolved(q))
  /\ OutstandingFinalizations[q] = Cardinality(Unfinalized(q))
  /\ \A n \in Wanted[q] \ Unresolved(q) : Symbols[q][n] # Unset
  /\ \/ /\ OutstandingResolutions[q] # 0 /\ OutstandingFinalizations[q] # 0
        /\ Notified[q] = <<>>
     \/ /\ OutstandingResolutions[q] = 0 /\ OutstandingFinalizations[q] # 0
        /\ Notified[q] = <<"resolved">>
     \/ /\ OutstandingResolutions[q] = 0 /\ OutstandingFinalizations[q] = 0
        /\ Notified[q] = <<"resolved", "ready">>
QueryInv(q) ==
  /\ Wanted[q] = {} => Notified[q] = <<>>
  /\ New(q) \/ Failed(q) => NoneLeft(q)
  /\ New(q) \/ Failed(q) \/ Counted(q)
Queried == \A q \in Queries : QueryInv(q)

IInv == Shape /\ Words /\ Lists /\ JobsOnce /\ Listed /\ Queried

-----------------------------------------------------------------------------
(* Lemmas about the values. *)

\* An address or a source is not Unset.
LEMMA SomethingIsSet == \A x : AddressOf(x) # Unset /\ PointerTo(x) # Unset
<1>1. ASSUME NEW x PROVE AddressOf(x) # Unset
  <2>1. AddressOf(x).is = "address" BY DEF AddressOf
  <2>2. Unset.is = "unset" BY DEF Unset
  <2> QED BY <2>1, <2>2
<1>2. ASSUME NEW x PROVE PointerTo(x) # Unset
  <2>1. PointerTo(x).is = "source" BY DEF PointerTo
  <2>2. Unset.is = "unset" BY DEF Unset
  <2> QED BY <2>1, <2>2
<1> QED BY <1>1, <1>2

\* What the callbacks of one step append.
LEMMA Appending ==
  /\ <<>> \o (<<>> \o <<>>) = <<>>
  /\ <<>> \o (<<"resolved">> \o <<>>) = <<"resolved">>
  /\ <<>> \o (<<"resolved">> \o <<"ready">>) = <<"resolved", "ready">>
  /\ <<"resolved">> \o (<<>> \o <<>>) = <<"resolved">>
  /\ <<"resolved">> \o (<<>> \o <<"ready">>) = <<"resolved", "ready">>
  /\ <<"resolved", "ready">> \o (<<>> \o <<>>) = <<"resolved", "ready">>
  /\ <<"error">> \o (<<>> \o <<>>) = <<"error">>
  /\ <<"resolved", "error">> \o (<<>> \o <<>>) = <<"resolved", "error">>
<1>1. /\ <<>> \o <<>> = <<>>
      /\ <<"resolved">> \o <<>> = <<"resolved">>
      /\ <<>> \o <<"ready">> = <<"ready">>
  OBVIOUS
<1>2. <<"resolved">> \o <<"ready">> = <<"resolved", "ready">>
  <2> DEFINE S == {"resolved", "ready"}
             c == <<"resolved">> \o <<"ready">>
             d == <<"resolved", "ready">>
  <2>1. /\ <<"resolved">> \in Seq(S) /\ <<"ready">> \in Seq(S) /\ d \in Seq(S)
        /\ Len(<<"resolved">>) = 1 /\ Len(<<"ready">>) = 1 /\ Len(d) = 2
    OBVIOUS
  <2>2. /\ c \in Seq(S) /\ Len(c) = 2
        /\ \A i \in 1 .. 2 : c[i] = IF i <= 1 THEN <<"resolved">>[i] ELSE <<"ready">>[i - 1]
    BY <2>1, ConcatProperties
  <2>3. \A i \in 1 .. 2 : c[i] = d[i]
    BY <2>2
  <2> QED BY <2>1, <2>2, <2>3, SeqEqual
<1>3. <<>> \o <<"resolved">> = <<"resolved">>
  OBVIOUS
<1>4. <<>> \o <<"resolved", "ready">> = <<"resolved", "ready">>
  OBVIOUS
<1>5. <<"resolved", "ready">> \o <<>> = <<"resolved", "ready">>
  OBVIOUS
<1>6. <<"error">> \o <<>> = <<"error">>
  OBVIOUS
<1>7. <<"resolved", "error">> \o <<>> = <<"resolved", "error">>
  OBVIOUS
<1> QED BY <1>1, <1>2, <1>3, <1>4, <1>5, <1>6, <1>7

\* Every history is one of these, and they differ.
LEMMA Histories ==
  /\ <<>> # <<"resolved">> /\ <<>> # <<"resolved", "ready">>
  /\ <<>> # <<"error">> /\ <<>> # <<"resolved", "error">>
  /\ <<"resolved">> # <<"resolved", "ready">> /\ <<"resolved">> # <<"error">>
  /\ <<"resolved">> # <<"resolved", "error">>
  /\ <<"resolved", "ready">> # <<"error">>
  /\ <<"resolved", "ready">> # <<"resolved", "error">>
OBVIOUS

\* The sets of names are finite, and what waits for an address waits for the end.
LEMMA WaitsFinite ==
  ASSUME Shape, NEW q \in Queries
  PROVE  /\ IsFiniteSet(Unresolved(q)) /\ IsFiniteSet(Unfinalized(q))
         /\ Unresolved(q) \subseteq Unfinalized(q)
<1>1. Wanted[q] \subseteq Names BY DEF Shape
<1>2. /\ Unresolved(q) \subseteq Names /\ Unfinalized(q) \subseteq Names
      /\ Unresolved(q) \subseteq Unfinalized(q)
  BY <1>1 DEF Unresolved, Unfinalized
<1> QED BY <1>2, NamesAssumption, FS_Subset

\* The counters when the queries in Q and R hear about n.
LEMMA CountersStep ==
  ASSUME Shape, NEW q \in Queries, NEW n, NEW a,
         NEW Q \in SUBSET Queries, NEW R \in SUBSET Queries, Notify(Q, n, a, R)
  PROVE  /\ OutstandingResolutions'[q] =
              IF q \in Q /\ OutstandingResolutions[q] # 0
              THEN OutstandingResolutions[q] - 1 ELSE OutstandingResolutions[q]
         /\ OutstandingFinalizations'[q] =
              IF q \in R /\ OutstandingFinalizations[q] # 0
              THEN OutstandingFinalizations[q] - 1 ELSE OutstandingFinalizations[q]
         /\ Notified'[q] = Notified[q] \o (
              (IF q \in Q /\ OutstandingResolutions[q] = 1 THEN <<"resolved">> ELSE <<>>) \o
              (IF q \in R /\ OutstandingFinalizations[q] = 1 THEN <<"ready">> ELSE <<>>))
<1>1. OutstandingResolutions'[q] =
              IF q \in Q /\ OutstandingResolutions[q] # 0
              THEN OutstandingResolutions[q] - 1 ELSE OutstandingResolutions[q]
  BY DEF Notify, CountDown
<1>2. OutstandingFinalizations'[q] =
              IF q \in R /\ OutstandingFinalizations[q] # 0
              THEN OutstandingFinalizations[q] - 1 ELSE OutstandingFinalizations[q]
  BY DEF Notify, CountDown
<1>3. Notified'[q] = Notified[q] \o Callbacks(Q, R, q)
  BY DEF Notify
<1> QED BY <1>1, <1>2, <1>3, Zenon DEF Callbacks, Resolves, Finalizes

\* Notify keeps the types.
LEMMA NotifyTypes ==
  ASSUME Shape, NEW n, NEW a,
         NEW Q \in SUBSET Queries, NEW R \in SUBSET Queries, Notify(Q, n, a, R)
  PROVE  /\ OutstandingResolutions' \in [Queries -> Nat]
         /\ OutstandingFinalizations' \in [Queries -> Nat]
         /\ Notified' = [q \in Queries |-> Notified'[q]]
         /\ Symbols' = [q \in Queries |-> [m \in Names |-> Symbols'[q][m]]]
<1>1. OutstandingResolutions' \in [Queries -> Nat]
  BY DEF Shape, Notify, CountDown
<1>2. OutstandingFinalizations' \in [Queries -> Nat]
  BY DEF Shape, Notify, CountDown
<1>3. Notified' = [q \in Queries |-> Notified'[q]]
  BY DEF Notify
<1>4. ASSUME NEW q \in Queries PROVE Symbols'[q] = [m \in Names |-> Symbols'[q][m]]
  <2>1. Symbols[q] = [m \in Names |-> Symbols[q][m]] BY DEF Shape
  <2>2. Symbols'[q] = IF q \in Q /\ OutstandingResolutions[q] # 0
                      THEN [Symbols[q] EXCEPT ![n] = a] ELSE Symbols[q]
    BY DEF Notify
  <2> QED BY <2>1, <2>2
<1>5. Symbols' = [q \in Queries |-> Symbols'[q]] BY DEF Notify
<1>6. Symbols' = [q \in Queries |-> [m \in Names |-> Symbols'[q][m]]]
  BY <1>4, <1>5
<1> QED BY <1>1, <1>2, <1>3, <1>6

\* A step that notifies the queries in Q of the address and those in R of the
\* end of n keeps the counters exact, if n leaves the sets of just these.
LEMMA NotifyKeeps ==
  ASSUME Shape, Queried, NEW n \in Names, NEW a,
         NEW Q \in SUBSET Queries, NEW R \in SUBSET Queries, Notify(Q, n, a, R),
         Q # {} => a # Unset,
         Wanted' = Wanted,
         \A q \in Queries : Unresolved(q)' = Unresolved(q) \ (IF q \in Q THEN {n} ELSE {}),
         \A q \in Queries : Unfinalized(q)' = Unfinalized(q) \ (IF q \in R THEN {n} ELSE {}),
         \A q \in Q : n \in Unresolved(q),
         \A q \in R : n \in Unfinalized(q),
         \A q \in Queries : IsFiniteSet(Unresolved(q)') /\ IsFiniteSet(Unfinalized(q)')
                            /\ Unresolved(q)' \subseteq Unfinalized(q)'
  PROVE  Queried'
<1> SUFFICES ASSUME NEW q \in Queries PROVE QueryInv(q)'
  BY DEF Queried
<1>q. QueryInv(q) BY DEF Queried
<1>t. OutstandingResolutions[q] \in Nat /\ OutstandingFinalizations[q] \in Nat
  BY DEF Shape
<1>c. CASE Failed(q)
  <2>1. NoneLeft(q) BY <1>q, <1>c DEF QueryInv
  <2>2. Notified'[q] = Notified[q] \o (<<>> \o <<>>)
    <3>1. OutstandingResolutions[q] # 1 /\ OutstandingFinalizations[q] # 1
      BY <2>1 DEF NoneLeft
    <3>2. Notified'[q] = Notified[q] \o (
            (IF q \in Q /\ OutstandingResolutions[q] = 1 THEN <<"resolved">> ELSE <<>>) \o
            (IF q \in R /\ OutstandingFinalizations[q] = 1 THEN <<"ready">> ELSE <<>>))
      BY CountersStep
    <3> QED BY <3>1, <3>2, Zenon
  <2>3. Notified'[q] = Notified[q]
    BY <1>c, <2>2, Appending DEF Failed
  <2>4. Failed(q)' BY <1>c, <2>3 DEF Failed
  <2>5. NoneLeft(q)' BY <2>1, CountersStep DEF NoneLeft
  <2>6. Wanted'[q] = {} => Notified'[q] = <<>> BY <2>3, <1>q DEF QueryInv
  <2> QED BY <2>4, <2>5, <2>6 DEF QueryInv
<1>d. CASE New(q)
  <2>1. NoneLeft(q) BY <1>q, <1>d DEF QueryInv
  <2>2. Notified'[q] = <<>> \o (<<>> \o <<>>)
    <3>1. OutstandingResolutions[q] # 1 /\ OutstandingFinalizations[q] # 1
      BY <2>1 DEF NoneLeft
    <3>2. Notified'[q] = Notified[q] \o (
            (IF q \in Q /\ OutstandingResolutions[q] = 1 THEN <<"resolved">> ELSE <<>>) \o
            (IF q \in R /\ OutstandingFinalizations[q] = 1 THEN <<"ready">> ELSE <<>>))
      BY CountersStep
    <3> QED BY <3>1, <3>2, <1>d, Zenon DEF New
  <2>3. New(q)' BY <1>d, <2>2, Appending DEF New
  <2>4. NoneLeft(q)' BY <2>1, CountersStep DEF NoneLeft
  <2> QED BY <2>3, <2>4 DEF QueryInv, New
<1>e. CASE ~New(q) /\ ~Failed(q)
  <2> DEFINE r == OutstandingResolutions[q]
             f == OutstandingFinalizations[q]
  <2>1. Counted(q) BY <1>q, <1>e DEF QueryInv
  <2>2. r = Cardinality(Unresolved(q)) /\ f = Cardinality(Unfinalized(q))
    BY <2>1 DEF Counted
  <2>3. /\ IsFiniteSet(Unresolved(q)) /\ IsFiniteSet(Unfinalized(q))
        /\ Unresolved(q) \subseteq Unfinalized(q)
    BY WaitsFinite
  <2>4. q \in Q => r # 0 /\ Cardinality(Unresolved(q)') = r - 1
    <3>1. q \in Q => n \in Unresolved(q) /\ Unresolved(q)' = Unresolved(q) \ {n}
      OBVIOUS
    <3> QED BY <2>2, <2>3, <3>1, FS_RemoveElement, FS_EmptySet
  <2>5. q \in R => f # 0 /\ Cardinality(Unfinalized(q)') = f - 1
    <3>1. q \in R => n \in Unfinalized(q) /\ Unfinalized(q)' = Unfinalized(q) \ {n}
      OBVIOUS
    <3> QED BY <2>2, <2>3, <3>1, FS_RemoveElement, FS_EmptySet
  <2>6. q \notin Q => Unresolved(q)' = Unresolved(q)
    OBVIOUS
  <2>7. q \notin R => Unfinalized(q)' = Unfinalized(q)
    OBVIOUS
  <2> HIDE DEF r, f
  <2>8. /\ OutstandingResolutions'[q] = IF q \in Q THEN r - 1 ELSE r
        /\ OutstandingFinalizations'[q] = IF q \in R THEN f - 1 ELSE f
        /\ Notified'[q] = Notified[q] \o (
              (IF q \in Q /\ r = 1 THEN <<"resolved">> ELSE <<>>) \o
              (IF q \in R /\ f = 1 THEN <<"ready">> ELSE <<>>))
    BY <2>4, <2>5, CountersStep DEF r, f
  <2>9. /\ OutstandingResolutions'[q] = Cardinality(Unresolved(q)')
        /\ OutstandingFinalizations'[q] = Cardinality(Unfinalized(q)')
    BY <2>2, <2>4, <2>5, <2>6, <2>7, <2>8
  <2>10. OutstandingResolutions'[q] <= OutstandingFinalizations'[q]
    BY <2>9, FS_Subset
  <2>11. ASSUME NEW m \in Wanted'[q] \ Unresolved(q)' PROVE Symbols'[q][m] # Unset
    <3>1. Symbols'[q] = IF q \in Q /\ r # 0 THEN [Symbols[q] EXCEPT ![n] = a] ELSE Symbols[q]
      BY DEF Notify, r
    <3>2. Symbols[q] = [k \in Names |-> Symbols[q][k]] BY DEF Shape
    <3>3. m \in Wanted[q] \ Unresolved(q) => Symbols[q][m] # Unset BY <2>1 DEF Counted
    <3>4. m \in Wanted[q] BY <2>11
    <3>5. CASE q \in Q /\ m = n
      <4>1. Symbols'[q][m] = a BY <2>4, <3>1, <3>2, <3>5
      <4> QED BY <3>5, <4>1
    <3>6. CASE ~(q \in Q /\ m = n)
      <4>1. m \notin Unresolved(q) BY <3>6, <2>11
      <4>2. Symbols'[q][m] = Symbols[q][m] BY <3>1, <3>2, <3>6
      <4> QED BY <3>3, <3>4, <4>1, <4>2
    <3> QED BY <3>5, <3>6
  <2>12. \/ r # 0 /\ f # 0 /\ Notified[q] = <<>>
         \/ r = 0 /\ f # 0 /\ Notified[q] = <<"resolved">>
         \/ r = 0 /\ f = 0 /\ Notified[q] = <<"resolved", "ready">>
    BY <2>1 DEF Counted, r, f
  <2>13. r \in Nat /\ f \in Nat BY <1>t DEF r, f
  <2> DEFINE r1 == OutstandingResolutions'[q]
             f1 == OutstandingFinalizations'[q]
  <2>14. \/ r1 # 0 /\ f1 # 0 /\ Notified'[q] = <<>>
         \/ r1 = 0 /\ f1 # 0 /\ Notified'[q] = <<"resolved">>
         \/ r1 = 0 /\ f1 = 0 /\ Notified'[q] = <<"resolved", "ready">>
    <3>1. CASE r # 0 /\ f # 0 /\ Notified[q] = <<>>
      <4>1. CASE q \in Q /\ r = 1 /\ q \in R /\ f = 1
        <5>1. Notified'[q] = <<>> \o (<<"resolved">> \o <<"ready">>) BY <2>8, <3>1, <4>1
        <5> QED BY <5>1, Appending, <4>1, <2>8
      <4>2. CASE q \in Q /\ r = 1 /\ ~(q \in R /\ f = 1)
        <5>1. Notified'[q] = <<>> \o (<<"resolved">> \o <<>>) BY <2>8, <3>1, <4>2
        <5>2. r1 = 0 /\ f1 # 0 BY <2>8, <2>13, <3>1, <4>2
        <5> QED BY <5>1, <5>2, Appending
      <4>3. CASE ~(q \in Q /\ r = 1)
        <5>1. r1 # 0 BY <2>8, <2>13, <3>1, <4>3
        <5>2. r1 \in Nat /\ f1 \in Nat BY <2>4, <2>5, <2>8, <2>13
        <5>3. f1 # 0 BY <2>10, <5>1, <5>2
        <5>4. ~(q \in R /\ f = 1) BY <5>3, <2>8, <2>13
        <5>5. Notified'[q] = <<>> \o (<<>> \o <<>>) BY <2>8, <3>1, <4>3, <5>4
        <5> QED BY <5>1, <5>3, <5>5, Appending
      <4> QED BY <4>1, <4>2, <4>3
    <3>2. CASE r = 0 /\ f # 0 /\ Notified[q] = <<"resolved">>
      <4>1. q \notin Q /\ r1 = 0 BY <2>4, <2>8, <3>2
      <4>2. CASE q \in R /\ f = 1
        <5>1. Notified'[q] = <<"resolved">> \o (<<>> \o <<"ready">>) BY <2>8, <3>2, <4>1, <4>2
        <5>2. f1 = 0 BY <2>8, <4>2
        <5> QED BY <4>1, <5>1, <5>2, Appending
      <4>3. CASE ~(q \in R /\ f = 1)
        <5>1. Notified'[q] = <<"resolved">> \o (<<>> \o <<>>) BY <2>8, <3>2, <4>1, <4>3
        <5>2. f1 # 0 BY <2>8, <2>13, <3>2, <4>3
        <5> QED BY <4>1, <5>1, <5>2, Appending
      <4> QED BY <4>2, <4>3
    <3>3. CASE r = 0 /\ f = 0 /\ Notified[q] = <<"resolved", "ready">>
      <4>1. q \notin Q /\ q \notin R /\ r1 = 0 /\ f1 = 0 BY <2>4, <2>5, <2>8, <3>3
      <4>2. Notified'[q] = <<"resolved", "ready">> \o (<<>> \o <<>>) BY <2>8, <3>3, <4>1
      <4> QED BY <4>1, <4>2, Appending
    <3> QED BY <2>12, <3>1, <3>2, <3>3
  <2>15. Counted(q)' BY <2>9, <2>11, <2>14 DEF Counted
  <2>16. ~Failed(q)' BY <2>14, Histories DEF Failed
  <2>17. Notified'[q] = <<>> => Notified[q] = <<>>
    <3>1. Notified'[q] = <<>> => r1 # 0 BY <2>14, Histories
    <3>2. r1 # 0 => r # 0 BY <2>4, <2>8, <2>13
    <3> QED BY <3>1, <3>2, <2>12
  <2>18. ~New(q)' BY <2>17, <1>e DEF New
  <2>19. Wanted'[q] # {}
    BY <1>q, <1>e DEF QueryInv, New
  <2> QED BY <2>15, <2>16, <2>18, <2>19 DEF QueryInv
<1> QED BY <1>c, <1>d, <1>e

\* The invariant at the start.
LEMMA Begins == Init => IInv
<1> SUFFICES ASSUME Init PROVE IInv
  OBVIOUS
<1>1. Shape BY DEF Init, Shape
<1>2. Words BY DEF Init, Words
<1>3. Lists BY DEF Init, Lists
<1>4. JobsOnce BY DEF Init, JobsOnce, Untouched
<1>5. Listed BY DEF Init, Listed, Untouched
<1>6. Queried BY DEF Init, Queried, QueryInv, New, NoneLeft, Failed
<1> QED BY <1>1, <1>2, <1>3, <1>4, <1>5, <1>6 DEF IInv

\* A step that leaves the queries and what they wait for alone.
LEMMA QueriesSame ==
  ASSUME Queried, UNCHANGED <<queries, Wanted>>,
         \A q \in Queries : Unresolved(q)' = Unresolved(q) /\ Unfinalized(q)' = Unfinalized(q)
  PROVE  Queried'
<1> SUFFICES ASSUME NEW q \in Queries PROVE QueryInv(q)'
  BY DEF Queried
<1>1. QueryInv(q) BY DEF Queried
<1>2. /\ Notified'[q] = Notified[q] /\ Wanted'[q] = Wanted[q] /\ Symbols'[q] = Symbols[q]
      /\ OutstandingResolutions'[q] = OutstandingResolutions[q]
      /\ OutstandingFinalizations'[q] = OutstandingFinalizations[q]
      /\ Unresolved(q)' = Unresolved(q) /\ Unfinalized(q)' = Unfinalized(q)
  BY DEF queries
<1>3. NoneLeft(q) => NoneLeft(q)' BY <1>2 DEF NoneLeft
<1>4. (New(q)' <=> New(q)) /\ (Failed(q)' <=> Failed(q)) BY <1>2 DEF New, Failed
<1>5. Counted(q) => Counted(q)' BY <1>2 DEF Counted
<1> QED BY <1>1, <1>2, <1>3, <1>4, <1>5 DEF QueryInv

\* A query is made.
LEMMA NewQueryStep ==
  ASSUME IInv, NEW q \in Queries, NEW N \in SUBSET Names, NewQuery(q, N)
  PROVE  IInv'
<1> USE DEF NewQuery, entries, sources
<1>f. IsFiniteSet(N) BY NamesAssumption, FS_Subset
<1>c. Cardinality(N) \in Nat /\ Cardinality(N) # 0 BY <1>f, FS_CardinalityType, FS_EmptySet
<1>1. Shape' BY <1>c DEF IInv, Shape
<1>2. Words' /\ Lists' /\ JobsOnce'
  BY DEF IInv, Words, Lists, JobsOnce, Untouched
<1>3. Listed' BY DEF IInv, Listed, Shape, Untouched
<1>4. LookedUp[q] = {} BY DEF IInv, Listed
<1>5. ASSUME NEW p \in Queries PROVE QueryInv(p)'
  <2>1. QueryInv(p) BY DEF IInv, Queried
  <2>2. CASE p = q
    <3>1. Wanted'[q] = N BY DEF IInv, Shape
    <3>2. Unresolved(q)' = N /\ Unfinalized(q)' = N
      BY <1>4, <3>1 DEF Unresolved, Unfinalized
    <3>3. /\ OutstandingResolutions'[q] = Cardinality(N)
          /\ OutstandingFinalizations'[q] = Cardinality(N)
      BY DEF IInv, Shape
    <3>4. ~Failed(q) /\ Notified[q] = <<>>
      <4>1. QueryInv(q) BY DEF IInv, Queried
      <4> QED BY <4>1, Histories DEF QueryInv, Failed
    <3>5. Notified'[q] = <<>> BY <3>4
    <3>6. Counted(q)' BY <1>c, <3>1, <3>2, <3>3, <3>5 DEF Counted
    <3>7. ~Failed(q)' /\ ~New(q)' BY <3>1, <3>5, Histories DEF Failed, New
    <3> QED BY <2>2, <3>5, <3>6, <3>7 DEF QueryInv
  <2>3. CASE p # q
    <3>1. /\ Notified'[p] = Notified[p] /\ Wanted'[p] = Wanted[p] /\ Symbols'[p] = Symbols[p]
          /\ OutstandingResolutions'[p] = OutstandingResolutions[p]
          /\ OutstandingFinalizations'[p] = OutstandingFinalizations[p]
      BY <2>3 DEF IInv, Shape
    <3>2. Unresolved(p)' = Unresolved(p) /\ Unfinalized(p)' = Unfinalized(p)
      BY <3>1 DEF Unresolved, Unfinalized
    <3>3. NoneLeft(p) => NoneLeft(p)' BY <3>1 DEF NoneLeft
    <3>4. (New(p)' <=> New(p)) /\ (Failed(p)' <=> Failed(p)) BY <3>1 DEF New, Failed
    <3>5. Counted(p) => Counted(p)' BY <3>1, <3>2 DEF Counted
    <3> QED BY <2>1, <3>1, <3>3, <3>4, <3>5 DEF QueryInv
  <2> QED BY <2>2, <2>3
<1> QED BY <1>1, <1>2, <1>3, <1>5 DEF IInv, Queried

\* A query fails.
LEMMA setFailedStep ==
  ASSUME IInv, NEW q \in Queries, setFailed(q)
  PROVE  IInv'
<1> USE DEF setFailed, entries, sources
<1>1. Shape'
  <2>1. FailedFinalizations(q) \in Nat BY DEF FailedFinalizations
  <2> QED BY <2>1 DEF IInv, Shape
<1>2. Words' /\ Lists' /\ JobsOnce'
  BY DEF IInv, Words, Lists, JobsOnce, Untouched
<1>3. Listed' BY DEF IInv, Listed, Shape, Untouched
<1>5. ASSUME NEW p \in Queries PROVE QueryInv(p)'
  <2>1. QueryInv(p) BY DEF IInv, Queried
  <2>2. CASE p = q
    <3>1. Notified'[q] = Append(Notified[q], "error") BY DEF IInv, Shape
    <3>2. Notified'[q] \in {<<"error">>, <<"resolved", "error">>}
      <4>1. Append(<<>>, "error") = <<"error">> OBVIOUS
      <4>2. Append(<<"resolved">>, "error") = <<"resolved", "error">>
        <5> DEFINE S == {"resolved", "error"}
                   d == <<"resolved", "error">>
        <5>1. <<"resolved">> \in Seq(S) /\ Len(<<"resolved">>) = 1 /\ d \in Seq(S) /\ Len(d) = 2
          OBVIOUS
        <5>2. "error" \in S OBVIOUS
        <5> DEFINE c == Append(<<"resolved">>, "error")
        <5>3. c \in Seq(S) /\ Len(c) = 2 /\ c[1] = "resolved" /\ c[2] = "error"
          BY <5>1, <5>2, AppendProperties
        <5>4. \A i \in 1 .. 2 : c[i] = d[i] BY <5>3
        <5> QED BY <5>1, <5>3, <5>4, SeqEqual
      <4> QED BY <3>1, <4>1, <4>2
    <3>3. Failed(q)' BY <3>2 DEF Failed
    <3>4. NoneLeft(q)' BY DEF IInv, Shape, NoneLeft, FailedFinalizations
    <3> QED BY <2>2, <3>3, <3>4 DEF QueryInv
  <2>3. CASE p # q
    <3>1. /\ Notified'[p] = Notified[p] /\ Wanted'[p] = Wanted[p] /\ Symbols'[p] = Symbols[p]
          /\ OutstandingResolutions'[p] = OutstandingResolutions[p]
          /\ OutstandingFinalizations'[p] = OutstandingFinalizations[p]
      BY <2>3 DEF IInv, Shape
    <3>2. Unresolved(p)' = Unresolved(p) /\ Unfinalized(p)' = Unfinalized(p)
      BY <3>1 DEF Unresolved, Unfinalized
    <3>3. NoneLeft(p) => NoneLeft(p)' BY <3>1 DEF NoneLeft
    <3>4. (New(p)' <=> New(p)) /\ (Failed(p)' <=> Failed(p)) BY <3>1 DEF New, Failed
    <3>5. Counted(p) => Counted(p)' BY <3>1, <3>2 DEF Counted
    <3> QED BY <2>1, <3>1, <3>3, <3>4, <3>5 DEF QueryInv
  <2> QED BY <2>2, <2>3
<1> QED BY <1>1, <1>2, <1>3, <1>5 DEF IInv, Queried

\* An entry that becomes materialized drops its lists, so its queries do not
\* wait for it any more.
LEMMA MaterializedEntry ==
  ASSUME IInv, NEW n \in Names, NEW strong \in BOOLEAN, NEW d, d # Unset,
         Materialized(n, strong, d), UNCHANGED <<Wanted, LookedUp>>
  PROVE  /\ Words' /\ Lists' /\ Listed'
         /\ \A q \in Queries : Unresolved(q)' =
              Unresolved(q) \ (IF q \in PendingResolution[n] THEN {n} ELSE {})
         /\ \A q \in Queries : Unfinalized(q)' =
              Unfinalized(q) \ (IF q \in PendingResolution[n] \cup PendingFinalization[n]
                                THEN {n} ELSE {})
<1> USE DEF Materialized
<1>s. Shape BY DEF IInv
<1>0. /\ Stage'[n] = "materialized" /\ Word'[n] = d /\ Address'[n] = Unset
      /\ PendingResolution'[n] = {} /\ PendingFinalization'[n] = {}
      /\ \A m \in Names \ {n} :
           /\ Stage'[m] = Stage[m] /\ Word'[m] = Word[m] /\ Address'[m] = Address[m]
           /\ PendingResolution'[m] = PendingResolution[m]
           /\ PendingFinalization'[m] = PendingFinalization[m]
  BY <1>s DEF Shape
<1>1. Words' BY <1>0 DEF IInv, Words
<1>2. Lists' BY <1>0 DEF IInv, Lists
<1>3. Listed' BY <1>0 DEF IInv, Listed, Untouched
<1>4. \A q \in Queries : q \in PendingResolution[n] \cup PendingFinalization[n] => n \in LookedUp[q]
  BY DEF IInv, Listed
<1> DEFINE Q == PendingResolution[n]
           R == PendingResolution[n] \cup PendingFinalization[n]
<1>5. ASSUME NEW q \in Queries
      PROVE  /\ Unresolved(q)' = Unresolved(q) \ (IF q \in Q THEN {n} ELSE {})
             /\ Unfinalized(q)' = Unfinalized(q) \ (IF q \in R THEN {n} ELSE {})
  <2>1. Wanted[q] \subseteq Names BY <1>s DEF Shape
  <2>2. n \in Wanted[q] /\ n \notin LookedUp[q] => q \notin R BY <1>4
  <2>3. Unresolved(q)' = Unresolved(q) \ (IF q \in Q THEN {n} ELSE {})
    BY <1>0, <2>1, <2>2 DEF Unresolved
  <2>4. Unfinalized(q)' = Unfinalized(q) \ (IF q \in R THEN {n} ELSE {})
    BY <1>0, <2>1, <2>2 DEF Unfinalized
  <2> QED BY <2>3, <2>4
<1> QED BY <1>1, <1>2, <1>3, <1>5

\* NotifyKeeps for queries of the lists of n.
LEMMA NotifyLists ==
  ASSUME IInv, NEW n \in Names, NEW a,
         NEW Q \in SUBSET Queries, NEW R \in SUBSET Queries, Notify(Q, n, a, R),
         Q # {} => a # Unset, Wanted' = Wanted,
         \A q \in Q : n \in Unresolved(q),
         \A q \in R : n \in Unfinalized(q),
         \A q \in Queries : Unresolved(q)' = Unresolved(q) \ (IF q \in Q THEN {n} ELSE {}),
         \A q \in Queries : Unfinalized(q)' = Unfinalized(q) \ (IF q \in R THEN {n} ELSE {})
  PROVE  Queried'
<1>s. Shape /\ Queried BY DEF IInv
<1>1. ASSUME NEW q \in Queries
      PROVE  /\ IsFiniteSet(Unresolved(q)') /\ IsFiniteSet(Unfinalized(q)')
             /\ Unresolved(q)' \subseteq Unfinalized(q)'
  <2>1. /\ Unresolved(q)' \subseteq Unresolved(q) /\ Unfinalized(q)' \subseteq Unfinalized(q)
    OBVIOUS
  <2>2. Unresolved(q)' \subseteq Unfinalized(q)' BY DEF Unresolved, Unfinalized
  <2> QED BY <1>s, <2>1, <2>2, WaitsFinite, FS_Subset
<1> QED BY <1>s, <1>1, NotifyKeeps

\* Queries in a list wait for the name.
LEMMA ListsWait ==
  ASSUME IInv, NEW n \in Names
  PROVE  /\ PendingResolution[n] \in SUBSET Queries /\ PendingFinalization[n] \in SUBSET Queries
         /\ \A q \in PendingResolution[n] : n \in Unresolved(q)
         /\ \A q \in PendingResolution[n] \cup PendingFinalization[n] : n \in Unfinalized(q)
<1>1. PendingResolution[n] \in SUBSET Queries /\ PendingFinalization[n] \in SUBSET Queries
  BY DEF IInv, Shape
<1>2. \A q \in PendingResolution[n] \cup PendingFinalization[n] : n \in Wanted[q]
  BY <1>1 DEF IInv, Listed
<1> QED BY <1>1, <1>2 DEF Unresolved, Unfinalized

\* A call that changes nothing.
LEMMA NothingChanges ==
  ASSUME IInv, UNCHANGED <<entries, queries, sources, Wanted, LookedUp>>
  PROVE  IInv'
<1> USE DEF entries, sources
<1>1. Shape' BY DEF IInv, Shape, queries
<1>2. Words' /\ Lists' /\ JobsOnce' BY DEF IInv, Words, Lists, JobsOnce, Untouched
<1>3. Listed' BY DEF IInv, Listed, Untouched
<1>4. \A q \in Queries : Unresolved(q)' = Unresolved(q) /\ Unfinalized(q)' = Unfinalized(q)
  BY DEF Unresolved, Unfinalized
<1>5. Queried' BY <1>4, QueriesSame DEF IInv
<1> QED BY <1>1, <1>2, <1>3, <1>5 DEF IInv

\* define().
LEMMA defineStep ==
  ASSUME IInv, NEW n \in Names, NEW strong \in BOOLEAN, define(n, strong)
  PROVE  IInv'
<1>s. Shape BY DEF IInv
<1>1. CASE Stage[n] = "absent" \/ ~(DuplicateDefinition(n, strong)
                                    \/ ExistingDefinitionIsStronger(n, strong))
  <2> DEFINE d == AddressOf(Client)
             Q == PendingResolution[n]
             R == PendingResolution[n] \cup PendingFinalization[n]
  <2>1. /\ Materialized(n, strong, d) /\ Notify(Q, n, d, R)
        /\ Discarded' = Discarded \cup LazySource(n)
        /\ UNCHANGED <<Work, Emitted, Wanted, LookedUp>>
    BY <1>1 DEF define
  <2>2. d # Unset BY SomethingIsSet
  <2>3. Q \in SUBSET Queries /\ R \in SUBSET Queries
        /\ (\A q \in Q : n \in Unresolved(q)) /\ (\A q \in R : n \in Unfinalized(q))
    BY ListsWait
  <2> HIDE DEF d
  <2>4. /\ Words' /\ Lists' /\ Listed'
        /\ \A q \in Queries : Unresolved(q)' = Unresolved(q) \ (IF q \in Q THEN {n} ELSE {})
        /\ \A q \in Queries : Unfinalized(q)' = Unfinalized(q) \ (IF q \in R THEN {n} ELSE {})
    BY <2>1, <2>2, MaterializedEntry
  <2> HIDE DEF Q, R
  <2>5. Queried' BY <2>1, <2>2, <2>3, <2>4, NotifyLists
  <2>6. Shape'
    <3>1. /\ OutstandingResolutions' \in [Queries -> Nat]
          /\ OutstandingFinalizations' \in [Queries -> Nat]
          /\ Notified' = [q \in Queries |-> Notified'[q]]
          /\ Symbols' = [q \in Queries |-> [m \in Names |-> Symbols'[q][m]]]
      BY <1>s, <2>1, <2>3, NotifyTypes
    <3>2. \A e \in Discarded' : e[2] \in Names BY <1>s, <2>1 DEF LazySource, Shape
    <3> QED BY <1>s, <2>1, <3>1, <3>2 DEF Shape, Materialized
  <2>7. JobsOnce'
    <3>1. Stage'[n] = "materialized" /\ \A m \in Names \ {n} : Stage'[m] = Stage[m] /\ Address'[m] = Address[m]
      BY <1>s, <2>1 DEF Shape, Materialized
    <3>2. \A e \in Discarded' : e \in Discarded \/ e[2] = n BY <2>1 DEF LazySource
    <3>3. \A w \in Work \cup Emitted : w.name \in Names BY <1>s DEF Shape, Jobs
    <3>4. ASSUME NEW e \in Discarded' PROVE ~Untouched(e[2])'
      <4>1. CASE e[2] = n BY <4>1, <3>1 DEF Untouched
      <4>2. CASE e \in Discarded /\ e[2] # n
        <5>1. Stage'[e[2]] = Stage[e[2]]
          BY <4>2, <1>s, <2>1 DEF Shape, Materialized
        <5> QED BY <4>2, <5>1 DEF IInv, JobsOnce, Untouched
      <4> QED BY <3>2, <4>1, <4>2
    <3> QED BY <2>1, <3>1, <3>3, <3>4 DEF IInv, JobsOnce, Untouched
  <2> QED BY <2>4, <2>5, <2>6, <2>7 DEF IInv
<1>2. CASE ~(Stage[n] = "absent" \/ ~(DuplicateDefinition(n, strong)
                                      \/ ExistingDefinitionIsStronger(n, strong)))
  <2>1. UNCHANGED <<entries, queries, sources, Wanted, LookedUp>>
    BY <1>2 DEF define, sources
  <2> QED BY <2>1, NothingChanges
<1> QED BY <1>1, <1>2

\* defineLazy().
LEMMA defineLazyStep ==
  ASSUME IInv, NEW n \in Names, NEW strong \in BOOLEAN, NEW s \in Sources,
         defineLazyNew(n, strong, s) \/ replaceWithSource(n, strong, s)
  PROVE  IInv'
<1>s. Shape BY DEF IInv
<1>c. \/ Stage[n] = "absent" /\ Stage' = [Stage EXCEPT ![n] = "lazy"] /\ Discarded' = Discarded
      \/ /\ Stage[n] \in {"lazy", "materialized"}
         /\ Stage' = [Stage EXCEPT ![n] = "materialized"]
         /\ \A e \in Discarded' : e \in Discarded \/ e[2] = n
  <2>1. CASE defineLazyNew(n, strong, s) BY <2>1 DEF defineLazyNew, sources
  <2>2. CASE replaceWithSource(n, strong, s)
    BY <2>2 DEF replaceWithSource, LazySource
  <2> QED BY <2>1, <2>2
<1>d. /\ Strong' = [Strong EXCEPT ![n] = strong]
      /\ Word' = [Word EXCEPT ![n] = PointerTo(s)]
      /\ UNCHANGED <<Address, PendingResolution, PendingFinalization, queries, Work, Emitted,
                     Wanted, LookedUp>>
  BY DEF defineLazyNew, replaceWithSource, sources
<1>e. /\ Word' = [m \in Names |-> Word'[m]] /\ DOMAIN Word' = Names
      /\ Word'[n] = PointerTo(s)
      /\ \A m \in Names \ {n} : Word'[m] = Word[m]
  BY <1>s, <1>d DEF Shape
<1>0. /\ Stage[n] # "materializing"
      /\ Stage' \in [Names -> {"absent", "lazy", "materializing", "materialized"}]
      /\ Strong' \in [Names -> BOOLEAN]
      /\ \/ Stage[n] = "absent" /\ Stage'[n] = "lazy" /\ Discarded' = Discarded
         \/ /\ Stage[n] # "absent" /\ Stage'[n] = "materialized"
            /\ \A e \in Discarded' : e \in Discarded \/ e[2] = n
      /\ \A m \in Names \ {n} : Stage'[m] = Stage[m]
  BY <1>s, <1>c, <1>d DEF Shape
<1>1. Shape'
  <2>1. \A e \in Discarded' : e[2] \in Names BY <1>0, <1>d, <1>e, <1>s DEF Shape
  <2> QED BY <1>0, <1>d, <1>e, <1>s, <2>1 DEF Shape, queries
<1>2. Words'
  <2>1. Word'[n] # Unset /\ Word'[n].of = s
    BY <1>0, <1>d, <1>e, SomethingIsSet DEF PointerTo
  <2> QED BY <1>0, <1>d, <1>e, <2>1 DEF IInv, Words
<1>3. Lists' BY <1>0, <1>d, <1>e, <1>s DEF IInv, Lists, Shape
<1>4. JobsOnce'
  <2>1. \A m \in Names : ~Untouched(m) => ~Untouched(m)' BY <1>0, <1>d, <1>e DEF Untouched
  <2>2. \A m \in Names : Stage'[m] = "materializing" => Stage[m] = "materializing" BY <1>0, <1>d, <1>e
  <2>3. \A w \in Work \cup Emitted : w.name \in Names BY <1>s DEF Shape, Jobs
  <2>4. ASSUME NEW e \in Discarded' PROVE ~Untouched(e[2])'
    <3>1. CASE e \in Discarded
      <4>1. ~Untouched(e[2]) /\ e[2] \in Names BY <3>1, <1>s DEF IInv, JobsOnce, Shape
      <4> QED BY <4>1, <2>1
    <3>2. CASE e \notin Discarded
      <4>1. e[2] = n /\ Stage'[n] = "materialized" BY <1>0, <1>d, <1>e, <3>2
      <4> QED BY <4>1 DEF Untouched
    <3> QED BY <3>1, <3>2
  <2> QED BY <1>0, <1>d, <1>e, <2>1, <2>2, <2>3, <2>4 DEF IInv, JobsOnce
<1>5. Listed'
  <2>1. \A m \in Names : ~Untouched(m) => ~Untouched(m)' BY <1>0, <1>d, <1>e DEF Untouched
  <2>2. \A m \in Names : Stage'[m] = "materializing" => Stage[m] = "materializing" BY <1>0, <1>d, <1>e
  <2> QED BY <1>0, <1>d, <1>e, <2>1, <2>2 DEF IInv, Listed
<1>6. \A q \in Queries : Unresolved(q)' = Unresolved(q) /\ Unfinalized(q)' = Unfinalized(q)
  BY <1>0, <1>d, <1>e DEF Unresolved, Unfinalized
<1>7. Queried' BY <1>0, <1>d, <1>e, <1>6, QueriesSame DEF IInv
<1> QED BY <1>1, <1>2, <1>3, <1>4, <1>5, <1>7 DEF IInv

\* lookup() of a name with a definition.
LEMMA QueryMaterializedStep ==
  ASSUME IInv, NEW q \in Queries, NEW n \in Names, QueryMaterialized(q, n)
  PROVE  IInv'
<1>s. Shape BY DEF IInv
<1>0. /\ n \in Wanted[q] /\ n \notin LookedUp[q] /\ Stage[n] = "materialized"
      /\ LookedUp' = [LookedUp EXCEPT ![q] = @ \cup {n}]
      /\ Notify({q}, n, Word[n], {q})
      /\ UNCHANGED <<Emitted, Discarded, Wanted, entries, Work>>
  BY DEF QueryMaterialized, Lookup
<1>1. Shape'
  <2>1. /\ OutstandingResolutions' \in [Queries -> Nat]
        /\ OutstandingFinalizations' \in [Queries -> Nat]
        /\ Notified' = [p \in Queries |-> Notified'[p]]
        /\ Symbols' = [p \in Queries |-> [m \in Names |-> Symbols'[p][m]]]
    BY <1>s, <1>0, NotifyTypes
  <2>2. LookedUp' \in [Queries -> SUBSET Names] BY <1>s, <1>0 DEF Shape
  <2> QED BY <1>s, <1>0, <2>1, <2>2 DEF Shape, entries
<1>2. Words' /\ Lists' /\ JobsOnce'
  BY <1>0 DEF IInv, Words, Lists, JobsOnce, Untouched, entries
<1>3. Listed' BY <1>s, <1>0 DEF IInv, Shape, Listed, Untouched, entries
<1>4. PendingResolution[n] = {} /\ PendingFinalization[n] = {}
  BY <1>0 DEF IInv, Lists
<1>5. ASSUME NEW p \in Queries
      PROVE  /\ Unresolved(p)' = Unresolved(p) \ (IF p \in {q} THEN {n} ELSE {})
             /\ Unfinalized(p)' = Unfinalized(p) \ (IF p \in {q} THEN {n} ELSE {})
  <2>1. LookedUp'[p] = IF p = q THEN LookedUp[q] \cup {n} ELSE LookedUp[p]
    BY <1>s, <1>0 DEF Shape
  <2> QED BY <2>1, <1>0, <1>4 DEF Unresolved, Unfinalized, entries
<1>6. Word[n] # Unset BY <1>0 DEF IInv, Words
<1>7. n \in Unresolved(q) /\ n \in Unfinalized(q) BY <1>0 DEF Unresolved, Unfinalized
<1>8. Queried' BY <1>0, <1>5, <1>6, <1>7, NotifyLists
<1> QED BY <1>1, <1>2, <1>3, <1>8 DEF IInv

\* lookup() of a name that waits for its source already, or has come half way.
LEMMA QueryMaterializingStep ==
  ASSUME IInv, NEW q \in Queries, NEW n \in Names, QueryMaterializing(q, n)
  PROVE  IInv'
<1>s. Shape BY DEF IInv
<1>0. /\ n \in Wanted[q] /\ n \notin LookedUp[q] /\ Stage[n] = "materializing"
      /\ LookedUp' = [LookedUp EXCEPT ![q] = @ \cup {n}]
      /\ UNCHANGED <<Emitted, Discarded, Wanted, Strong, Stage, Word, Address, Work>>
  BY DEF QueryMaterializing, Lookup
<1>1. \A p \in Queries : LookedUp'[p] = IF p = q THEN LookedUp[q] \cup {n} ELSE LookedUp[p]
  BY <1>s, <1>0 DEF Shape
<1>2. LookedUp' \in [Queries -> SUBSET Names] BY <1>s, <1>0 DEF Shape
<1>3. Words' /\ JobsOnce' BY <1>0 DEF IInv, Words, JobsOnce, Untouched
<1>4. q \notin PendingResolution[n] \cup PendingFinalization[n] BY <1>0 DEF IInv, Listed
<1>5. CASE Address[n] # Unset
  <2>1. /\ Notify({q}, n, Address[n], {})
        /\ PendingFinalization' = [PendingFinalization EXCEPT ![n] = @ \cup {q}]
        /\ UNCHANGED PendingResolution
    <3>1. WhenResolved(q, n) = {q} BY <1>5 DEF WhenResolved
    <3>2. {q} \ WhenResolved(q, n) = {} BY <3>1
    <3> QED BY <1>5, <3>1, <3>2 DEF QueryMaterializing
  <2>2. /\ OutstandingResolutions' \in [Queries -> Nat]
        /\ OutstandingFinalizations' \in [Queries -> Nat]
        /\ Notified' = [p \in Queries |-> Notified'[p]]
        /\ Symbols' = [p \in Queries |-> [m \in Names |-> Symbols'[p][m]]]
    <3>1. {q} \in SUBSET Queries /\ {} \in SUBSET Queries OBVIOUS
    <3> QED BY <1>s, <2>1, <3>1, NotifyTypes
  <2>3. Shape' BY <1>s, <1>0, <1>2, <2>1, <2>2 DEF Shape
  <2>4. \A m \in Names : PendingFinalization'[m] =
          IF m = n THEN PendingFinalization[n] \cup {q} ELSE PendingFinalization[m]
    BY <1>s, <2>1 DEF Shape
  <2>5. Lists' BY <1>0, <1>5, <2>1, <2>4 DEF IInv, Lists
  <2>6. Listed' BY <1>0, <1>1, <2>1, <2>4 DEF IInv, Listed, Untouched
  <2>7. PendingResolution[n] = {} BY <1>5 DEF IInv, Lists
  <2>8. ASSUME NEW p \in Queries
        PROVE  /\ Unresolved(p)' = Unresolved(p) \ (IF p \in {q} THEN {n} ELSE {})
               /\ Unfinalized(p)' = Unfinalized(p) \ (IF p \in {} THEN {n} ELSE {})
    <3>1. Wanted[p] \subseteq Names BY <1>s DEF Shape
    <3>2. Unresolved(p)' = Unresolved(p) \ (IF p \in {q} THEN {n} ELSE {})
      BY <3>1, <1>0, <1>1, <2>1, <2>7 DEF Unresolved
    <3>3. Unfinalized(p)' = Unfinalized(p)
      BY <3>1, <1>0, <1>1, <2>1, <2>4 DEF Unfinalized
    <3> QED BY <3>2, <3>3
  <2>9. n \in Unresolved(q) BY <1>0 DEF Unresolved
  <2>10. Queried' BY <1>0, <1>5, <2>1, <2>8, <2>9, NotifyLists
  <2> QED BY <1>3, <2>3, <2>5, <2>6, <2>10 DEF IInv
<1>6. CASE Address[n] = Unset
  <2>1. /\ PendingResolution' = [PendingResolution EXCEPT ![n] = @ \cup {q}]
        /\ UNCHANGED <<queries, PendingFinalization>>
    BY <1>6 DEF QueryMaterializing
  <2>3. Shape' BY <1>s, <1>0, <1>2, <2>1 DEF Shape, queries
  <2>4. \A m \in Names : PendingResolution'[m] =
          IF m = n THEN PendingResolution[n] \cup {q} ELSE PendingResolution[m]
    BY <1>s, <2>1 DEF Shape
  <2>5. Lists' BY <1>0, <1>6, <2>1, <2>4 DEF IInv, Lists
  <2>6. Listed' BY <1>0, <1>1, <2>1, <2>4 DEF IInv, Listed, Untouched
  <2>7. ASSUME NEW p \in Queries
        PROVE  Unresolved(p)' = Unresolved(p) /\ Unfinalized(p)' = Unfinalized(p)
    <3>1. Wanted[p] \subseteq Names BY <1>s DEF Shape
    <3> QED BY <3>1, <1>0, <1>1, <2>1, <2>4 DEF Unresolved, Unfinalized
  <2>8. Queried' BY <1>0, <2>1, <2>7, QueriesSame DEF IInv
  <2> QED BY <1>3, <2>3, <2>5, <2>6, <2>8 DEF IInv
<1> QED BY <1>5, <1>6

\* The first lookup() of a lazy name.
LEMMA QueryLazyStep ==
  ASSUME IInv, NEW q \in Queries, NEW n \in Names, QueryLazy(q, n)
  PROVE  IInv'
<1>s. Shape BY DEF IInv
<1> DEFINE w0 == [source |-> Word[n].of, name |-> n, strong |-> Strong[n], by |-> q]
<1>0. /\ n \in Wanted[q] /\ n \notin LookedUp[q] /\ Stage[n] = "lazy"
      /\ LookedUp' = [LookedUp EXCEPT ![q] = @ \cup {n}]
      /\ Stage' = [Stage EXCEPT ![n] = "materializing"]
      /\ Address' = [Address EXCEPT ![n] = Unset]
      /\ PendingResolution' = [PendingResolution EXCEPT ![n] = @ \cup {q}]
      /\ Work' = Work \cup {w0}
      /\ UNCHANGED <<Emitted, Discarded, Wanted, Strong, Word, PendingFinalization, queries>>
  BY DEF QueryLazy, Lookup, Asked
<1>w. w0 \in Jobs /\ w0.name = n
  <2>1. Word[n].of \in Sources BY <1>0 DEF IInv, Words
  <2>2. Strong[n] \in BOOLEAN BY <1>s DEF Shape
  <2> QED BY <2>1, <2>2 DEF Jobs
<1> HIDE DEF w0
<1>1. Shape'
  <2>1. /\ Stage' \in [Names -> {"absent", "lazy", "materializing", "materialized"}]
        /\ DOMAIN Address' = Names /\ Address' = [m \in Names |-> Address'[m]]
    BY <1>s, <1>0 DEF Shape
  <2>2. PendingResolution' \in [Names -> SUBSET Queries] /\ LookedUp' \in [Queries -> SUBSET Names]
    BY <1>s, <1>0 DEF Shape
  <2>3. Work' \subseteq Jobs BY <1>s, <1>0, <1>w DEF Shape
  <2> QED BY <1>s, <1>0, <2>1, <2>2, <2>3 DEF Shape, queries
<1>2. /\ \A m \in Names : Stage'[m] = IF m = n THEN "materializing" ELSE Stage[m]
      /\ \A m \in Names : Address'[m] = IF m = n THEN Unset ELSE Address[m]
      /\ \A m \in Names : PendingResolution'[m] =
           IF m = n THEN PendingResolution[n] \cup {q} ELSE PendingResolution[m]
      /\ \A p \in Queries : LookedUp'[p] = IF p = q THEN LookedUp[q] \cup {n} ELSE LookedUp[p]
  BY <1>s, <1>0 DEF Shape
<1>3. Words' BY <1>0, <1>2 DEF IInv, Words
<1>4. PendingResolution[n] = {} /\ PendingFinalization[n] = {} BY <1>0 DEF IInv, Lists
<1>5. Lists' BY <1>0, <1>2, <1>4 DEF IInv, Lists
<1>6. Listed'
  <2>1. \A p \in Queries : n \notin LookedUp[p] BY <1>0 DEF IInv, Listed, Untouched
  <2> QED BY <1>0, <1>2, <1>4, <2>1 DEF IInv, Listed, Untouched
<1>7. JobsOnce'
  <2>1. /\ \A w \in Work \cup Emitted : w.name \in Names /\ w.name # n
        /\ \A d \in Discarded : d[2] \in Names
    BY <1>s, <1>0 DEF IInv, JobsOnce, Untouched, Shape, Jobs
  <2>2. \A m \in Names : ~Untouched(m) => ~Untouched(m)' BY <1>2 DEF Untouched
  <2>3. ~Untouched(n)' BY <1>2 DEF Untouched
  <2>4. \A w \in Work' \cup Emitted' : ~Untouched(w.name)'
    BY <1>0, <1>w, <2>1, <2>2, <2>3 DEF IInv, JobsOnce
  <2>5. \A d \in Discarded' : ~Untouched(d[2])' BY <1>0, <2>1, <2>2 DEF IInv, JobsOnce
  <2>6. \A v, w \in Work' \cup Emitted' : v.name = w.name => v = w
    BY <1>0, <1>w, <2>1 DEF IInv, JobsOnce
  <2>7. Work' \cap Emitted' = {} BY <1>0, <1>w, <2>1 DEF IInv, JobsOnce
  <2>8. \A w \in Work' : Stage'[w.name] = "materializing" => Address'[w.name] = Unset
    BY <1>0, <1>2, <1>w, <2>1 DEF IInv, JobsOnce
  <2>9. \A w \in Emitted' : Stage'[w.name] = "materializing" => Address'[w.name] # Unset
    BY <1>0, <1>2, <2>1 DEF IInv, JobsOnce
  <2> QED BY <2>4, <2>5, <2>6, <2>7, <2>8, <2>9 DEF JobsOnce
<1>8. ASSUME NEW p \in Queries
      PROVE  Unresolved(p)' = Unresolved(p) /\ Unfinalized(p)' = Unfinalized(p)
  <2>1. Wanted[p] \subseteq Names BY <1>s DEF Shape
  <2> QED BY <2>1, <1>0, <1>2 DEF Unresolved, Unfinalized
<1>9. Queried' BY <1>0, <1>8, QueriesSame DEF IInv
<1> QED BY <1>1, <1>3, <1>5, <1>6, <1>7, <1>9 DEF IInv

\* What an entry that becomes materialized does to the jobs.
LEMMA MaterializedJobs ==
  ASSUME IInv, NEW n \in Names, NEW strong \in BOOLEAN, NEW d, Materialized(n, strong, d),
         Work' \cap Emitted' = {}, Work' \cup Emitted' \subseteq Work \cup Emitted,
         \A w \in Work' : w \in Work \/ w.name = n,
         \A w \in Emitted' : w \in Emitted \/ w.name = n,
         Discarded' = Discarded
  PROVE  JobsOnce'
<1>s. Shape BY DEF IInv
<1>1. /\ \A m \in Names : Stage'[m] = IF m = n THEN "materialized" ELSE Stage[m]
      /\ \A m \in Names : Address'[m] = IF m = n THEN Unset ELSE Address[m]
  BY <1>s DEF Materialized, Shape
<1>2. /\ \A w \in Work \cup Emitted : w.name \in Names
      /\ \A e \in Discarded : e[2] \in Names
  BY <1>s DEF Shape, Jobs
<1>3. \A m \in Names : ~Untouched(m) => ~Untouched(m)' BY <1>1 DEF Untouched
<1>4. \A w \in Work' \cup Emitted' : ~Untouched(w.name)' BY <1>2, <1>3 DEF IInv, JobsOnce
<1>5. \A e \in Discarded' : ~Untouched(e[2])' BY <1>2, <1>3 DEF IInv, JobsOnce
<1>6. \A v, w \in Work' \cup Emitted' : v.name = w.name => v = w BY DEF IInv, JobsOnce
<1>7. \A w \in Work' : Stage'[w.name] = "materializing" => Address'[w.name] = Unset
  BY <1>1, <1>2 DEF IInv, JobsOnce
<1>8. \A w \in Emitted' : Stage'[w.name] = "materializing" => Address'[w.name] # Unset
  BY <1>1, <1>2 DEF IInv, JobsOnce
<1> QED BY <1>4, <1>5, <1>6, <1>7, <1>8 DEF JobsOnce

\* A source resolves what it was asked for.
LEMMA resolveStep ==
  ASSUME IInv, NEW w \in Work, resolve(w)
  PROVE  IInv'
<1> DEFINE n == w.name
           a == AddressOf(w.source)
<1>s. Shape BY DEF IInv
<1>w. n \in Names /\ w \in Jobs /\ w.strong \in BOOLEAN BY <1>s DEF Shape, Jobs
<1>a. a # Unset BY SomethingIsSet
<1>0. /\ Work' = Work \ {w} /\ Emitted' = Emitted \cup {w}
      /\ UNCHANGED <<Discarded, Wanted, LookedUp>>
  BY DEF resolve
<1>1. CASE Stage[n] = "materializing"
  <2> DEFINE Q == PendingResolution[n]
  <2>0. /\ Address' = [Address EXCEPT ![n] = a]
        /\ Notify(Q, n, a, {})
        /\ PendingFinalization' = [PendingFinalization EXCEPT ![n] = @ \cup PendingResolution[n]]
        /\ PendingResolution' = [PendingResolution EXCEPT ![n] = {}]
        /\ UNCHANGED <<Strong, Stage, Word>>
    BY <1>1 DEF resolve, MoveOn
  <2> HIDE DEF a
  <2>1. /\ \A m \in Names : Address'[m] = IF m = n THEN a ELSE Address[m]
        /\ \A m \in Names : PendingFinalization'[m] =
             IF m = n THEN PendingFinalization[n] \cup PendingResolution[n]
                      ELSE PendingFinalization[m]
        /\ \A m \in Names : PendingResolution'[m] = IF m = n THEN {} ELSE PendingResolution[m]
    BY <1>s, <1>w, <2>0 DEF Shape
  <2>2. /\ Q \in SUBSET Queries /\ {} \in SUBSET Queries
        /\ \A q \in Q : n \in Unresolved(q) /\ n \in LookedUp[q]
    <3>1. \A q \in Q : n \in Unresolved(q) BY <1>w, ListsWait
    <3>2. Q \in SUBSET Queries BY <1>w, ListsWait
    <3>3. \A q \in Q : n \in LookedUp[q] BY <1>w, <3>2 DEF IInv, Listed
    <3> QED BY <3>1, <3>2, <3>3
  <2>3. Shape'
    <3>1. /\ OutstandingResolutions' \in [Queries -> Nat]
          /\ OutstandingFinalizations' \in [Queries -> Nat]
          /\ Notified' = [p \in Queries |-> Notified'[p]]
          /\ Symbols' = [p \in Queries |-> [m \in Names |-> Symbols'[p][m]]]
      BY <1>s, <2>0, <2>2, NotifyTypes
    <3>2. PendingFinalization' \in [Names -> SUBSET Queries]
          /\ PendingResolution' \in [Names -> SUBSET Queries]
      BY <1>s, <1>w, <2>0 DEF Shape
    <3>3. Work' \subseteq Jobs /\ Emitted' \subseteq Jobs BY <1>s, <1>w, <1>0 DEF Shape
    <3>4. DOMAIN Address' = Names /\ Address' = [m \in Names |-> Address'[m]]
      BY <1>s, <2>0 DEF Shape
    <3> QED BY <1>s, <1>0, <2>0, <3>1, <3>2, <3>3, <3>4 DEF Shape
  <2>4. Words' BY <2>0 DEF IInv, Words
  <2>5. Lists' BY <1>1, <1>a, <2>0, <2>1 DEF IInv, Lists
  <2>6. Listed' BY <1>0, <2>0, <2>1 DEF IInv, Listed, Untouched
  <2>7. JobsOnce'
    <3>1. \A v \in Work \cup Emitted : v.name \in Names BY <1>s DEF Shape, Jobs
    <3>2. \A v \in Work \cup Emitted : v.name = n => v = w BY DEF IInv, JobsOnce
    <3>3. \A v \in Work' \cup Emitted' : v \in Work \cup Emitted BY <1>0
    <3>4. \A v \in Work' \cup Emitted' : ~Untouched(v.name)'
      BY <2>0, <3>3 DEF IInv, JobsOnce, Untouched
    <3>5. \A d \in Discarded' : ~Untouched(d[2])' BY <1>0, <2>0 DEF IInv, JobsOnce, Untouched
    <3>6. \A v, u \in Work' \cup Emitted' : v.name = u.name => v = u
      BY <3>3 DEF IInv, JobsOnce
    <3>7. Work' \cap Emitted' = {} BY <1>0 DEF IInv, JobsOnce
    <3>8. \A v \in Work' : Stage'[v.name] = "materializing" => Address'[v.name] = Unset
      BY <1>0, <2>0, <2>1, <3>1, <3>2 DEF IInv, JobsOnce
    <3>9. \A v \in Emitted' : Stage'[v.name] = "materializing" => Address'[v.name] # Unset
      BY <1>0, <1>a, <2>0, <2>1, <3>1, <3>2 DEF IInv, JobsOnce
    <3> QED BY <3>4, <3>5, <3>6, <3>7, <3>8, <3>9 DEF JobsOnce
  <2>8. ASSUME NEW p \in Queries
        PROVE  /\ Unresolved(p)' = Unresolved(p) \ (IF p \in Q THEN {n} ELSE {})
               /\ Unfinalized(p)' = Unfinalized(p) \ (IF p \in {} THEN {n} ELSE {})
    <3>1. Wanted[p] \subseteq Names BY <1>s DEF Shape
    <3>2. Unresolved(p)' = Unresolved(p) \ (IF p \in Q THEN {n} ELSE {})
      BY <3>1, <1>0, <2>1, <2>2 DEF Unresolved
    <3>3. Unfinalized(p)' = Unfinalized(p)
      BY <3>1, <1>0, <2>1 DEF Unfinalized
    <3> QED BY <3>2, <3>3
  <2> HIDE DEF Q, n
  <2>9. Queried' BY <1>0, <1>a, <1>w, <2>0, <2>2, <2>8, NotifyLists
  <2> QED BY <2>3, <2>4, <2>5, <2>6, <2>7, <2>9 DEF IInv
<1>2. CASE Stage[n] # "materializing"
  <2>0. Materialized(n, w.strong, a) /\ UNCHANGED queries
    BY <1>2 DEF resolve
  <2>1. PendingResolution[n] = {} /\ PendingFinalization[n] = {}
    BY <1>2, <1>w DEF IInv, Lists
  <2> HIDE DEF a
  <2>2. Shape'
    <3>1. Work' \subseteq Jobs /\ Emitted' \subseteq Jobs BY <1>s, <1>w, <1>0 DEF Shape
    <3> QED BY <1>s, <1>w, <1>0, <2>0, <3>1 DEF Shape, Materialized, queries
  <2>3. JobsOnce'
    <3>1. /\ Work' \cap Emitted' = {} /\ Work' \cup Emitted' \subseteq Work \cup Emitted
          /\ \A v \in Work' : v \in Work \/ v.name = n
          /\ \A v \in Emitted' : v \in Emitted \/ v.name = n
      BY <1>0 DEF IInv, JobsOnce
    <3> QED BY <1>0, <1>w, <2>0, <3>1, MaterializedJobs
  <2> HIDE DEF n
  <2>4. /\ Words' /\ Lists' /\ Listed'
        /\ \A q \in Queries : Unresolved(q)' = Unresolved(q) /\ Unfinalized(q)' = Unfinalized(q)
    BY <1>0, <1>w, <1>a, <2>0, <2>1, MaterializedEntry
  <2>5. Queried' BY <1>0, <2>0, <2>4, QueriesSame DEF IInv
  <2> QED BY <2>2, <2>3, <2>4, <2>5 DEF IInv
<1> QED BY <1>1, <1>2

\* A source finalizes what it resolved.
LEMMA finalizeStep ==
  ASSUME IInv, NEW w \in Emitted, finalize(w)
  PROVE  IInv'
<1> DEFINE n == w.name
<1>s. Shape BY DEF IInv
<1>w. n \in Names /\ w \in Jobs /\ w.strong \in BOOLEAN BY <1>s DEF Shape, Jobs
<1>0. Emitted' = Emitted \ {w} /\ UNCHANGED <<Work, Discarded, Wanted, LookedUp>>
  BY DEF finalize
<1>1. CASE Stage[n] = "materializing"
  <2> DEFINE d == Address[n]
             R == PendingFinalization[n]
  <2>0. Materialized(n, w.strong, d) /\ Notify({}, n, Unset, R)
    BY <1>1 DEF finalize
  <2>1. d # Unset BY <1>1 DEF IInv, JobsOnce
  <2>2. PendingResolution[n] = {} BY <1>w, <2>1 DEF IInv, Lists
  <2>3. {} \in SUBSET Queries /\ R \in SUBSET Queries /\ \A q \in R : n \in Unfinalized(q)
    BY <1>w, ListsWait
  <2>4. JobsOnce'
    <3>1. /\ Work' \cap Emitted' = {} /\ Work' \cup Emitted' \subseteq Work \cup Emitted
          /\ \A v \in Work' : v \in Work \/ v.name = n
          /\ \A v \in Emitted' : v \in Emitted \/ v.name = n
      BY <1>0 DEF IInv, JobsOnce
    <3> QED BY <1>0, <1>w, <2>0, <3>1, MaterializedJobs
  <2>5. Shape'
    <3>1. /\ OutstandingResolutions' \in [Queries -> Nat]
          /\ OutstandingFinalizations' \in [Queries -> Nat]
          /\ Notified' = [p \in Queries |-> Notified'[p]]
          /\ Symbols' = [p \in Queries |-> [m \in Names |-> Symbols'[p][m]]]
      BY <1>s, <2>0, <2>3, NotifyTypes
    <3> QED BY <1>s, <1>w, <1>0, <2>0, <3>1 DEF Shape, Materialized
  <2> HIDE DEF d, n
  <2>6. /\ Words' /\ Lists' /\ Listed'
        /\ \A q \in Queries : Unresolved(q)' = Unresolved(q) \ (IF q \in {} THEN {n} ELSE {})
        /\ \A q \in Queries : Unfinalized(q)' = Unfinalized(q) \ (IF q \in R THEN {n} ELSE {})
    BY <1>0, <1>w, <2>0, <2>1, <2>2, MaterializedEntry
  <2> HIDE DEF R
  <2>7. Queried' BY <1>0, <1>w, <2>0, <2>3, <2>6, NotifyLists
  <2> QED BY <2>4, <2>5, <2>6, <2>7 DEF IInv
<1>2. CASE Stage[n] # "materializing"
  <2>0. UNCHANGED <<entries, queries>> BY <1>2 DEF finalize
  <2> USE DEF entries
  <2>1. Shape' BY <1>s, <1>0, <2>0 DEF Shape, queries
  <2>2. Words' /\ Lists' BY <2>0 DEF IInv, Words, Lists
  <2>3. JobsOnce' BY <1>0, <2>0 DEF IInv, JobsOnce, Untouched
  <2>4. Listed' BY <1>0, <2>0 DEF IInv, Listed, Untouched
  <2>5. \A q \in Queries : Unresolved(q)' = Unresolved(q) /\ Unfinalized(q)' = Unfinalized(q)
    BY <1>0, <2>0 DEF Unresolved, Unfinalized
  <2>6. Queried' BY <1>0, <2>0, <2>5, QueriesSame DEF IInv
  <2> QED BY <2>1, <2>2, <2>3, <2>4, <2>6 DEF IInv
<1> QED BY <1>1, <1>2

\* A source resolves what it was not asked for.
LEMMA resolveAdditionalStep ==
  ASSUME IInv, NEW w \in Work, NEW n \in Names, resolveAdditional(w, n)
  PROVE  IInv'
<1> DEFINE a == AddressOf(w.source)
           w0 == [source |-> w.source, name |-> n, strong |-> Strong[n], by |-> w.by]
<1>s. Shape BY DEF IInv
<1>a. a # Unset BY SomethingIsSet
<1>0. /\ Stage[n] = "lazy" /\ Materialized(n, Strong[n], a)
      /\ Emitted' = Emitted \cup {w0} /\ Discarded' = Discarded \cup LazySource(n)
      /\ UNCHANGED <<Work, queries, Wanted, LookedUp>>
  BY DEF resolveAdditional
<1>w. w0 \in Jobs /\ w0.name = n /\ Strong[n] \in BOOLEAN
  <2>1. Strong[n] \in BOOLEAN /\ w \in Jobs BY <1>s DEF Shape
  <2> QED BY <2>1 DEF Jobs
<1> HIDE DEF a, w0
<1>1. PendingResolution[n] = {} /\ PendingFinalization[n] = {} BY <1>0 DEF IInv, Lists
<1>2. Shape'
  <2>1. Emitted' \subseteq Jobs BY <1>s, <1>w, <1>0 DEF Shape
  <2>2. \A e \in Discarded' : e[2] \in Names BY <1>s, <1>0 DEF LazySource, Shape
  <2> QED BY <1>s, <1>w, <1>0, <2>1, <2>2 DEF Shape, Materialized, queries
<1>3. JobsOnce'
  <2>1. /\ \A m \in Names : Stage'[m] = IF m = n THEN "materialized" ELSE Stage[m]
        /\ \A m \in Names : Address'[m] = IF m = n THEN Unset ELSE Address[m]
    BY <1>s, <1>0 DEF Materialized, Shape
  <2>2. /\ \A v \in Work \cup Emitted : v.name \in Names /\ v.name # n
        /\ \A e \in Discarded : e[2] \in Names
    BY <1>s, <1>0 DEF IInv, JobsOnce, Untouched, Shape, Jobs
  <2>3. \A m \in Names : ~Untouched(m) => ~Untouched(m)' BY <2>1 DEF Untouched
  <2>4. ~Untouched(n)' BY <2>1 DEF Untouched
  <2>5. \A v \in Work' \cup Emitted' : ~Untouched(v.name)'
    BY <1>0, <1>w, <2>2, <2>3, <2>4 DEF IInv, JobsOnce
  <2>6. ASSUME NEW e \in Discarded' PROVE ~Untouched(e[2])'
    <3>1. e \in Discarded \/ e[2] = n BY <1>0 DEF LazySource
    <3> QED BY <2>2, <2>3, <2>4, <3>1 DEF IInv, JobsOnce
  <2>7. \A v, u \in Work' \cup Emitted' : v.name = u.name => v = u
    BY <1>0, <1>w, <2>2 DEF IInv, JobsOnce
  <2>8. Work' \cap Emitted' = {} BY <1>0, <1>w, <2>2 DEF IInv, JobsOnce
  <2>9. \A v \in Work' : Stage'[v.name] = "materializing" => Address'[v.name] = Unset
    BY <1>0, <2>1, <2>2 DEF IInv, JobsOnce
  <2>10. \A v \in Emitted' : Stage'[v.name] = "materializing" => Address'[v.name] # Unset
    BY <1>0, <1>w, <2>1, <2>2 DEF IInv, JobsOnce
  <2> QED BY <2>5, <2>6, <2>7, <2>8, <2>9, <2>10 DEF JobsOnce
<1>4. /\ Words' /\ Lists' /\ Listed'
      /\ \A q \in Queries : Unresolved(q)' = Unresolved(q) /\ Unfinalized(q)' = Unfinalized(q)
  BY <1>0, <1>w, <1>a, <1>1, MaterializedEntry
<1>5. Queried' BY <1>0, <1>4, QueriesSame DEF IInv
<1> QED BY <1>2, <1>3, <1>4, <1>5 DEF IInv

-----------------------------------------------------------------------------
\* Every step keeps the invariant.
LEMMA StepKeepsIInv == IInv /\ [Next]_vars => IInv'
<1> SUFFICES ASSUME IInv, [Next]_vars PROVE IInv'
  OBVIOUS
<1>1. ASSUME NEW q \in Queries, NEW N \in SUBSET Names, NewQuery(q, N) PROVE IInv'
  BY <1>1, NewQueryStep
<1>2. ASSUME NEW q \in Queries, setFailed(q) PROVE IInv'
  BY <1>2, setFailedStep
<1>3. ASSUME NEW n \in Names, NEW strong \in BOOLEAN, define(n, strong) PROVE IInv'
  BY <1>3, defineStep
<1>4. ASSUME NEW n \in Names, NEW strong \in BOOLEAN, defineLazyDuplicate(n, strong) PROVE IInv'
  BY <1>4, NothingChanges DEF defineLazyDuplicate
<1>5. ASSUME NEW n \in Names, NEW strong \in BOOLEAN, NEW s \in Sources,
             defineLazyNew(n, strong, s) \/ replaceWithSource(n, strong, s)
      PROVE  IInv'
  BY <1>5, defineLazyStep
<1>6. ASSUME NEW q \in Queries, NEW n \in Names,
             QueryMaterialized(q, n) \/ QueryMaterializing(q, n) \/ QueryLazy(q, n)
      PROVE  IInv'
  BY <1>6, QueryMaterializedStep, QueryMaterializingStep, QueryLazyStep
<1>7. ASSUME NEW w \in Work, resolve(w) PROVE IInv'
  BY <1>7, resolveStep
<1>8. ASSUME NEW w \in Emitted, finalize(w) PROVE IInv'
  BY <1>8, finalizeStep
<1>9. ASSUME NEW w \in Work, NEW n \in Names, resolveAdditional(w, n) PROVE IInv'
  BY <1>9, resolveAdditionalStep
<1>10. CASE Stopped \/ UNCHANGED vars
  BY <1>10, NothingChanges DEF Stopped, vars
<1> QED BY <1>1, <1>2, <1>3, <1>4, <1>5, <1>6, <1>7, <1>8, <1>9, <1>10
        DEF Next, SourceStep, FinalizeStep

THEOREM Invariance == Spec => []IInv
<1>1. Init => IInv BY Begins
<1>2. IInv /\ [Next]_vars => IInv' BY StepKeepsIInv
<1> QED BY <1>1, <1>2, PTL DEF Spec

\* CallbackProtocol: however definitions, answers and failures interleave, the
\* owner of a query hears "resolved" and "ready" once, in this order, or "error"
\* and nothing more.
THEOREM Protocol == Spec => []CallbackProtocol
<1>1. IInv => CallbackProtocol
  <2> SUFFICES ASSUME IInv, NEW q \in Queries
               PROVE  Notified[q] \in {<<>>, <<"resolved">>, <<"resolved", "ready">>,
                                       <<"error">>, <<"resolved", "error">>}
    BY DEF CallbackProtocol
  <2>1. QueryInv(q) BY DEF IInv, Queried
  <2> QED BY <2>1 DEF QueryInv, New, Failed, Counted
<1> QED BY <1>1, Invariance, PTL

-------------------------------------------------------------------------------
(* What a query that is ready was told. *)

\* Queries are given an address for m, if anything.
HasAddress(m) ==
  /\ Stage[m] = "materialized" => Word[m] \in Addresses
  /\ Address[m] \in Addresses \cup {Unset}
  /\ \A q \in Queries : Symbols[q][m] \in Addresses \cup {Unset}

\* Queries that are told of n are told an address, if n is m.
LEMMA NotifyAddresses ==
  ASSUME Shape, NEW m \in Names, HasAddress(m), NEW n \in Names, NEW a,
         NEW Q \in SUBSET Queries, NEW R, Notify(Q, n, a, R),
         m = n /\ Q # {} => a \in Addresses
  PROVE  \A q \in Queries : Symbols'[q][m] \in Addresses \cup {Unset}
<1> SUFFICES ASSUME NEW q \in Queries
             PROVE  Symbols'[q][m] \in Addresses \cup {Unset}
  OBVIOUS
<1>1. Symbols[q][m] \in Addresses \cup {Unset} /\ Symbols[q] = [k \in Names |-> Symbols[q][k]]
  BY DEF HasAddress, Shape
<1>2. Symbols'[q] = IF q \in Q /\ OutstandingResolutions[q] # 0
                    THEN [Symbols[q] EXCEPT ![n] = a] ELSE Symbols[q]
  BY DEF Notify
<1> QED BY <1>1, <1>2

\* Only replaceWithSource puts something else into an entry.
LEMMA HasAddressStep ==
  ASSUME IInv, NEW m \in Names, HasAddress(m), [Next]_vars,
         ~\E strong \in BOOLEAN, s \in Sources : replaceWithSource(m, strong, s)
  PROVE  HasAddress(m)'
<1>s. Shape BY DEF IInv
<1>1. ASSUME UNCHANGED <<Stage, Word, Address, Symbols>> PROVE HasAddress(m)'
  BY <1>1 DEF HasAddress
<1>m. ASSUME NEW n \in Names, NEW strong, NEW d,
             Materialized(n, strong, d), n = m => d \in Addresses,
             \A q \in Queries : Symbols'[q][m] \in Addresses \cup {Unset}
      PROVE  HasAddress(m)'
  BY <1>s, <1>m DEF HasAddress, Materialized, Shape
<1>2. ASSUME NEW n \in Names, NEW strong \in BOOLEAN, define(n, strong) PROVE HasAddress(m)'
  <2>1. CASE UNCHANGED <<entries, queries>>
    BY <1>1, <2>1 DEF entries, queries
  <2>2. CASE /\ Materialized(n, strong, AddressOf(Client))
             /\ Notify(PendingResolution[n], n, AddressOf(Client),
                       PendingResolution[n] \cup PendingFinalization[n])
    <3>1. PendingResolution[n] \in SUBSET Queries /\ AddressOf(Client) \in Addresses
      BY <1>s DEF Shape, Addresses
    <3>2. \A q \in Queries : Symbols'[q][m] \in Addresses \cup {Unset}
      BY <1>s, <2>2, <3>1, NotifyAddresses
    <3> QED BY <1>m, <2>2, <3>1, <3>2
  <2> QED BY <1>2, <2>1, <2>2 DEF define
<1>3. ASSUME NEW n \in Names, NEW strong \in BOOLEAN, NEW s \in Sources,
             defineLazyNew(n, strong, s) \/ replaceWithSource(n, strong, s)
      PROVE  HasAddress(m)'
  <2>1. CASE n = m
    <3>1. defineLazyNew(n, strong, s) BY <1>3, <2>1
    <3>2. Stage'[m] = "lazy" /\ UNCHANGED <<Address, Symbols>>
      BY <1>s, <2>1, <3>1 DEF defineLazyNew, queries, Shape
    <3> QED BY <3>2 DEF HasAddress
  <2>2. CASE n # m
    <3>1. /\ Stage'[m] = Stage[m] /\ Word'[m] = Word[m]
          /\ UNCHANGED <<Address, Symbols>>
      BY <1>s, <1>3, <2>2 DEF defineLazyNew, replaceWithSource, queries, Shape
    <3> QED BY <3>1 DEF HasAddress
  <2> QED BY <2>1, <2>2
<1>4. ASSUME NEW q \in Queries, NEW n \in Names, QueryMaterialized(q, n) PROVE HasAddress(m)'
  <2>1. /\ n = m => Word[n] \in Addresses
        /\ Notify({q}, n, Word[n], {q}) /\ UNCHANGED <<Stage, Word, Address>>
    BY <1>4 DEF QueryMaterialized, HasAddress, entries
  <2>2. {q} \in SUBSET Queries OBVIOUS
  <2>3. \A p \in Queries : Symbols'[p][m] \in Addresses \cup {Unset}
    BY <1>s, <2>1, <2>2, NotifyAddresses
  <2> QED BY <2>1, <2>3 DEF HasAddress
<1>5. ASSUME NEW q \in Queries, NEW n \in Names, QueryMaterializing(q, n) PROVE HasAddress(m)'
  <2>1. UNCHANGED <<Stage, Word, Address>>
    BY <1>5 DEF QueryMaterializing
  <2>2. CASE UNCHANGED queries
    BY <1>1, <2>1, <2>2 DEF queries
  <2>3. CASE Address[n] # Unset /\ Notify({q}, n, Address[n], {q} \ WhenResolved(q, n))
    <3>1. n = m => Address[n] \in Addresses
      BY <2>3 DEF HasAddress
    <3>2. {q} \in SUBSET Queries OBVIOUS
    <3>3. \A p \in Queries : Symbols'[p][m] \in Addresses \cup {Unset}
      BY <1>s, <2>3, <3>1, <3>2, NotifyAddresses
    <3> QED BY <2>1, <3>3 DEF HasAddress
  <2> QED BY <1>5, <2>2, <2>3 DEF QueryMaterializing
<1>6. ASSUME NEW q \in Queries, NEW n \in Names, QueryLazy(q, n) PROVE HasAddress(m)'
  <2>1. /\ Stage' = [Stage EXCEPT ![n] = "materializing"] /\ Address' = [Address EXCEPT ![n] = Unset]
        /\ UNCHANGED <<Word, Symbols>>
    BY <1>6 DEF QueryLazy, Asked, queries
  <2> QED BY <1>s, <2>1 DEF HasAddress, Shape
<1>7. ASSUME NEW w \in Work, resolve(w) PROVE HasAddress(m)'
  <2> DEFINE n == w.name
             a == AddressOf(w.source)
  <2>1. n \in Names /\ a \in Addresses
    BY <1>s DEF Shape, Jobs, Addresses
  <2>2. CASE /\ Address' = [Address EXCEPT ![n] = a]
             /\ Notify(PendingResolution[n], n, a, {}) /\ UNCHANGED <<Stage, Word>>
    <3>1. PendingResolution[n] \in SUBSET Queries
      BY <1>s, <2>1 DEF Shape
    <3> HIDE DEF n, a
    <3>2. \A p \in Queries : Symbols'[p][m] \in Addresses \cup {Unset}
      BY <1>s, <2>1, <2>2, <3>1, NotifyAddresses
    <3> QED BY <1>s, <2>1, <2>2, <3>2 DEF HasAddress, Shape
  <2>3. CASE Materialized(n, w.strong, a) /\ UNCHANGED queries
    <3>1. \A q \in Queries : Symbols'[q][m] \in Addresses \cup {Unset}
      BY <2>3 DEF HasAddress, queries
    <3> HIDE DEF n, a
    <3> QED BY <1>m, <2>1, <2>3, <3>1
  <2> QED BY <1>7, <2>2, <2>3 DEF resolve
<1>8. ASSUME NEW w \in Emitted, finalize(w) PROVE HasAddress(m)'
  <2> DEFINE n == w.name
  <2>1. n \in Names
    BY <1>s DEF Shape, Jobs
  <2>2. CASE UNCHANGED <<entries, queries>>
    BY <1>1, <2>2 DEF entries, queries
  <2>3. CASE /\ Stage[n] = "materializing" /\ Materialized(n, w.strong, Address[n])
             /\ Notify({}, n, Unset, PendingFinalization[n])
    <3>1. n = m => Address[n] \in Addresses
      BY <2>1, <2>3 DEF IInv, JobsOnce, HasAddress
    <3> HIDE DEF n
    <3>2. \A p \in Queries : Symbols'[p][m] \in Addresses \cup {Unset}
      BY <1>s, <2>1, <2>3, NotifyAddresses
    <3> QED BY <1>m, <2>1, <2>3, <3>1, <3>2
  <2> QED BY <1>8, <2>2, <2>3 DEF finalize
<1>9. ASSUME NEW q \in Queries, (\E N \in SUBSET Names : NewQuery(q, N)) \/ setFailed(q)
      PROVE  UNCHANGED <<Stage, Word, Address, Symbols>>
  BY <1>9 DEF NewQuery, setFailed, entries
<1>10. ASSUME NEW n \in Names, NEW strong \in BOOLEAN, defineLazyDuplicate(n, strong)
       PROVE  UNCHANGED <<Stage, Word, Address, Symbols>>
  BY <1>10 DEF defineLazyDuplicate, entries, queries
<1>11. ASSUME NEW w \in Work, NEW n \in Names, resolveAdditional(w, n) PROVE HasAddress(m)'
  <2>1. /\ Materialized(n, Strong[n], AddressOf(w.source))
        /\ AddressOf(w.source) \in Addresses /\ UNCHANGED queries
    BY <1>s, <1>11 DEF resolveAdditional, Shape, Jobs, Addresses
  <2>2. \A q \in Queries : Symbols'[q][m] \in Addresses \cup {Unset}
    BY <2>1 DEF HasAddress, queries
  <2> QED BY <1>m, <2>1, <2>2
<1>12. Stopped \/ UNCHANGED vars => UNCHANGED <<Stage, Word, Address, Symbols>>
  BY DEF Stopped, vars, entries, queries
<1> QED
  BY <1>1, <1>2, <1>3, <1>4, <1>5, <1>6, <1>7, <1>8, <1>9, <1>10, <1>11, <1>12
     DEF Next, SourceStep, FinalizeStep

\* The entries that are not in Premature say the truth: what a source has still
\* to finalize is being materialized, and what is materialized has an address.
Truthful(m) ==
  m \notin Premature =>
    /\ HasAddress(m)
    /\ \A w \in Emitted : w.name = m => Stage[m] = "materializing"

LEMMA TruthfulStep ==
  ASSUME IInv, NEW m \in Names, Truthful(m), [Next]_vars
  PROVE  Truthful(m)'
<1>s. Shape BY DEF IInv
<1>p. Premature \subseteq Premature'
  BY DEF Next, vars, NewQuery, setFailed, define, defineLazyDuplicate, defineLazyNew,
         replaceWithSource, QueryMaterialized, QueryMaterializing, QueryLazy, Lookup,
         SourceStep, FinalizeStep, resolve, resolveAdditional, finalize, Stopped
<1> SUFFICES ASSUME m \notin Premature'
             PROVE  /\ HasAddress(m)'
                    /\ \A w \in Emitted' : w.name = m => Stage'[m] = "materializing"
  BY DEF Truthful
<1>0. HasAddress(m) /\ \A w \in Emitted : w.name = m => Stage[m] = "materializing"
  BY <1>p DEF Truthful
<1>1. HasAddress(m)'
  <2>1. ~\E strong \in BOOLEAN, s \in Sources : replaceWithSource(m, strong, s)
    BY DEF replaceWithSource
  <2> QED BY <1>0, <2>1, HasAddressStep
<1> SUFFICES \A w \in Emitted' : w.name = m => Stage'[m] = "materializing"
  BY <1>1
<1>2. ASSUME Emitted' = Emitted, Stage'[m] = Stage[m] \/ Stage[m] # "materializing"
      PROVE  \A w \in Emitted' : w.name = m => Stage'[m] = "materializing"
  BY <1>0, <1>2
<1>3. ASSUME NEW n \in Names, NEW strong \in BOOLEAN, define(n, strong)
      PROVE  \A w \in Emitted' : w.name = m => Stage'[m] = "materializing"
  <2>1. CASE n = m /\ m \in {k \in {n} : Address[k] = Unset}
    <3>1. \A w \in Emitted : w.name # m
      BY <1>0, <2>1 DEF IInv, JobsOnce
    <3> QED BY <1>3, <3>1 DEF define
  <2>2. CASE n = m /\ Address[m] # Unset
    BY <1>2, <1>3, <2>2 DEF define, entries
  <2>3. CASE n # m
    BY <1>s, <1>2, <1>3, <2>3 DEF define, Materialized, entries, Shape
  <2> QED BY <2>1, <2>2, <2>3
<1>4. ASSUME NEW n \in Names, NEW strong \in BOOLEAN, NEW s \in Sources,
             defineLazyNew(n, strong, s) \/ replaceWithSource(n, strong, s)
      PROVE  Emitted' = Emitted /\ (Stage'[m] = Stage[m] \/ Stage[m] # "materializing")
  BY <1>s, <1>4 DEF defineLazyNew, replaceWithSource, sources, Shape
<1>5. ASSUME NEW q \in Queries, NEW n \in Names,
             QueryMaterialized(q, n) \/ QueryMaterializing(q, n) \/ QueryLazy(q, n)
      PROVE  Emitted' = Emitted /\ (Stage'[m] = Stage[m] \/ Stage[m] # "materializing")
  BY <1>s, <1>5 DEF QueryMaterialized, QueryMaterializing, QueryLazy, Lookup, entries, Shape
<1>6. ASSUME NEW w \in Work, resolve(w)
      PROVE  \A v \in Emitted' : v.name = m => Stage'[m] = "materializing"
  <2>1. Emitted' = Emitted \cup {w}
    BY <1>6 DEF resolve
  <2>2. CASE w.name = m
    <3>1. Stage[m] = "materializing" /\ UNCHANGED Stage
      BY <1>6, <2>2 DEF resolve
    <3> QED BY <3>1
  <2>3. CASE w.name # m
    <3>1. Stage'[m] = Stage[m]
      BY <1>s, <1>6, <2>3 DEF resolve, Materialized, Shape
    <3> QED BY <1>0, <2>1, <2>3, <3>1
  <2> QED BY <2>2, <2>3
<1>7. ASSUME NEW w \in Emitted, finalize(w)
      PROVE  \A v \in Emitted' : v.name = m => Stage'[m] = "materializing"
  <2>1. Emitted' = Emitted \ {w}
    BY <1>7 DEF finalize
  <2>2. CASE w.name = m
    BY <2>1, <2>2 DEF IInv, JobsOnce
  <2>3. CASE w.name # m
    <3>1. Stage'[m] = Stage[m]
      BY <1>s, <1>7, <2>3 DEF finalize, Materialized, entries, Shape
    <3> QED BY <1>0, <2>1, <3>1
  <2> QED BY <2>2, <2>3
<1>8. ASSUME NEW w \in Work, NEW n \in Names, resolveAdditional(w, n)
      PROVE  \A v \in Emitted' : v.name = m => Stage'[m] = "materializing"
  <2>1. n # m
    BY <1>8 DEF resolveAdditional
  <2>2. Stage'[m] = Stage[m]
    BY <1>s, <1>8, <2>1 DEF resolveAdditional, Materialized, Shape
  <2>3. \A v \in Emitted' : v \in Emitted \/ v.name = n
    BY <1>8 DEF resolveAdditional
  <2> QED BY <1>0, <2>1, <2>2, <2>3
<1>9. ASSUME \/ \E q \in Queries, N \in SUBSET Names : NewQuery(q, N)
             \/ \E q \in Queries : setFailed(q)
             \/ \E n \in Names, strong \in BOOLEAN : defineLazyDuplicate(n, strong)
             \/ Stopped \/ UNCHANGED vars
      PROVE  UNCHANGED <<Emitted, Stage>>
  BY <1>9 DEF NewQuery, setFailed, defineLazyDuplicate, Stopped, vars, entries, sources
<1> QED
  BY <1>2, <1>3, <1>4, <1>5, <1>6, <1>7, <1>8, <1>9 DEF Next, SourceStep, FinalizeStep

\* ReadyIsFinal: a ready query is in no list and has addresses, which are final
\* unless the entry was marked as materialized too early: a late resolve(), one
\* of an additional symbol, a define() over what is only resolved and a
\* replaceWithSource() are the only causes of a query being ready too early.
THEOREM Finality == Spec => []ReadyIsFinal
<1> DEFINE All == \A m \in Names : Truthful(m)
<1>1. IInv /\ All => ReadyIsFinal
  <2> SUFFICES ASSUME IInv, All, NEW q \in Queries, Notified[q] = <<"resolved", "ready">>,
                      NEW n \in Wanted[q]
               PROVE  /\ q \notin PendingResolution[n] \cup PendingFinalization[n]
                      /\ Symbols[q][n] # Unset
                      /\ n \notin Premature =>
                           /\ Symbols[q][n] \in Addresses
                           /\ \A w \in Emitted : w.name = n => AddressOf(w.source) # Symbols[q][n]
    BY DEF ReadyIsFinal
  <2>1. QueryInv(q) BY DEF IInv, Queried
  <2>2. Counted(q) /\ OutstandingFinalizations[q] = 0 /\ OutstandingResolutions[q] = 0
    BY <2>1, Histories DEF QueryInv, New, Failed, Counted
  <2>3. Unresolved(q) = {} /\ Unfinalized(q) = {}
    <3>1. Cardinality(Unresolved(q)) = 0 /\ Cardinality(Unfinalized(q)) = 0
      BY <2>2 DEF Counted
    <3> QED BY <3>1, WaitsFinite, FS_EmptySet DEF IInv
  <2>4. n \in LookedUp[q] /\ q \notin PendingResolution[n] \cup PendingFinalization[n]
    BY <2>3 DEF Unfinalized
  <2>n. n \in Names BY DEF IInv, Shape
  <2>5. Stage[n] # "materializing"
    BY <2>n, <2>4 DEF IInv, Shape, Listed, Untouched
  <2>6. Symbols[q][n] # Unset BY <2>2, <2>3 DEF Counted
  <2>7. n \notin Premature => Symbols[q][n] \in Addresses /\ \A w \in Emitted : w.name # n
    BY <2>n, <2>5, <2>6 DEF Truthful, HasAddress
  <2> QED BY <2>4, <2>6, <2>7
<1>2. Init => All
  BY DEF Init, Truthful, HasAddress
<1>3. IInv /\ All /\ [Next]_vars => All'
  BY TruthfulStep
<1> HIDE DEF All
<1> QED BY <1>1, <1>2, <1>3, Invariance, PTL DEF Spec

\* SourcesAskedOnce: a symbol is materialized by one source, which still has it.
THEOREM AskedOnce == Spec => SourcesAskedOnce
<1> DEFINE Once == \A w \in Work' \ Work :
                     /\ <<w.source, w.name>> \notin Discarded
                     /\ \A v \in Work \cup Emitted : v.name # w.name
<1>1. IInv /\ [Next]_vars => Once
  <2> SUFFICES ASSUME IInv, [Next]_vars, NEW w \in Work', w \notin Work
               PROVE  /\ <<w.source, w.name>> \notin Discarded
                      /\ \A v \in Work \cup Emitted : v.name # w.name
    OBVIOUS
  <2>1. PICK q \in Queries, n \in Names : QueryLazy(q, n)
    BY DEF Next, vars, sources, NewQuery, setFailed, define, defineLazyDuplicate, defineLazyNew,
           replaceWithSource, QueryMaterialized, QueryMaterializing, SourceStep, FinalizeStep,
           resolve, resolveAdditional, finalize, Stopped
  <2>2. w.name = n /\ Untouched(n)
    BY <2>1 DEF QueryLazy, Untouched
  <2> QED BY <2>2 DEF IInv, JobsOnce
<1>2. IInv /\ [Next]_vars => [Once]_vars BY <1>1
<1> QED BY <1>2, Invariance, PTL DEF Spec, SourcesAskedOnce

-------------------------------------------------------------------------------
(* Nobody waits for nothing. *)

\* The source of an entry that is being materialized still has to resolve or to
\* finalize it.
JobsThere ==
  \A n \in Names : Stage[n] = "materializing" =>
    \E w \in IF Address[n] = Unset THEN Work ELSE Emitted : w.name = n

\* A query that has not called back waits for symbols that are still to be looked
\* up or that sources were asked for and have not resolved; one that has called
\* back once, for symbols that sources have resolved and not finalized.
QueriesAreServed ==
  \A q \in Queries : Wanted[q] # {} =>
    /\ Notified[q] = <<>> =>
         \E n \in Wanted[q] : \/ n \notin LookedUp[q]
                              \/ q \in PendingResolution[n] /\ \E w \in Work : w.name = n
    /\ Notified[q] = <<"resolved">> =>
         \E n \in Wanted[q] : q \in PendingFinalization[n] /\ \E w \in Emitted : w.name = n

LEMMA JobsThereStep ==
  ASSUME IInv, JobsThere, [Next]_vars
  PROVE  JobsThere'
<1>s. Shape BY DEF IInv
<1>1. ASSUME UNCHANGED <<Stage, Address, Work, Emitted>> PROVE JobsThere'
  BY <1>1 DEF JobsThere
<1>2. ASSUME NEW n \in Names, NEW strong \in BOOLEAN, define(n, strong) PROVE JobsThere'
  <2>1. /\ \A m \in Names \ {n} : Stage'[m] = Stage[m] /\ Address'[m] = Address[m]
        /\ UNCHANGED <<Work, Emitted>>
        /\ Stage'[n] = "materialized" \/ UNCHANGED <<Stage, Address>>
    BY <1>s, <1>2 DEF define, Materialized, Shape, Notify, entries
  <2> QED BY <2>1 DEF JobsThere
<1>3. ASSUME NEW n \in Names, NEW strong \in BOOLEAN, NEW s \in Sources,
             defineLazyNew(n, strong, s) \/ replaceWithSource(n, strong, s)
      PROVE  JobsThere'
  <2>1. /\ \A m \in Names \ {n} : Stage'[m] = Stage[m]
        /\ UNCHANGED <<Address, Work, Emitted>> /\ Stage'[n] # "materializing"
    BY <1>s, <1>3 DEF defineLazyNew, replaceWithSource, Shape, sources
  <2> QED BY <2>1 DEF JobsThere
<1>4. ASSUME NEW q \in Queries, NEW n \in Names, QueryLazy(q, n) PROVE JobsThere'
  <2>1. /\ \A m \in Names \ {n} : Stage'[m] = Stage[m] /\ Address'[m] = Address[m]
        /\ Work \subseteq Work' /\ Emitted' = Emitted /\ Address'[n] = Unset
    BY <1>s, <1>4 DEF QueryLazy, Lookup, Shape
  <2>2. \E w \in Work' : w.name = n
    <3>1. PICK w : w = [source |-> Word[n].of, name |-> n, strong |-> Strong[n], by |-> q]
      OBVIOUS
    <3>2. w \in Work' /\ w.name = n
      BY <1>4, <3>1 DEF QueryLazy
    <3> QED BY <3>2
  <2> QED BY <2>1, <2>2 DEF JobsThere
<1>5. ASSUME NEW w \in Work, resolve(w) PROVE JobsThere'
  <2>1. w.name \in Names /\ AddressOf(w.source) # Unset
    BY <1>s, SomethingIsSet DEF Shape, Jobs
  <2>2. /\ \A m \in Names \ {w.name} : Stage'[m] = Stage[m] /\ Address'[m] = Address[m]
        /\ Work' = Work \ {w} /\ Emitted' = Emitted \cup {w}
        /\ Stage'[w.name] = "materialized" \/ Address'[w.name] # Unset
    BY <1>s, <1>5, <2>1 DEF resolve, Materialized, Shape
  <2> QED BY <2>1, <2>2 DEF JobsThere
<1>6. ASSUME NEW w \in Emitted, finalize(w) PROVE JobsThere'
  <2>1. w.name \in Names
    BY <1>s DEF Shape, Jobs
  <2>2. /\ \A m \in Names \ {w.name} : Stage'[m] = Stage[m] /\ Address'[m] = Address[m]
        /\ Work' = Work /\ Emitted' = Emitted \ {w}
        /\ Stage'[w.name] # "materializing"
    BY <1>s, <1>6, <2>1 DEF finalize, Materialized, Shape, entries
  <2> QED BY <2>1, <2>2 DEF JobsThere
<1>7. ASSUME NEW q \in Queries, NEW n \in Names, QueryMaterialized(q, n) \/ QueryMaterializing(q, n)
      PROVE  UNCHANGED <<Stage, Address, Work, Emitted>>
  BY <1>7 DEF QueryMaterialized, QueryMaterializing, Lookup, entries
<1>8. ASSUME NEW q \in Queries, (\E N \in SUBSET Names : NewQuery(q, N)) \/ setFailed(q)
      PROVE  UNCHANGED <<Stage, Address, Work, Emitted>>
  BY <1>8 DEF NewQuery, setFailed, entries, sources
<1>9. ASSUME NEW n \in Names, NEW strong \in BOOLEAN, defineLazyDuplicate(n, strong)
      PROVE  UNCHANGED <<Stage, Address, Work, Emitted>>
  BY <1>9 DEF defineLazyDuplicate, entries, sources
<1>10. Stopped \/ UNCHANGED vars => UNCHANGED <<Stage, Address, Work, Emitted>>
  BY DEF Stopped, vars, entries, sources
<1>11. ASSUME NEW w \in Work, NEW n \in Names, resolveAdditional(w, n) PROVE JobsThere'
  <2>1. /\ \A m \in Names \ {n} : Stage'[m] = Stage[m] /\ Address'[m] = Address[m]
        /\ Work' = Work /\ Emitted \subseteq Emitted' /\ Stage'[n] # "materializing"
    BY <1>s, <1>11 DEF resolveAdditional, Materialized, Shape
  <2> QED BY <2>1 DEF JobsThere
<1> QED
  BY <1>1, <1>2, <1>3, <1>4, <1>5, <1>6, <1>7, <1>8, <1>9, <1>10, <1>11 DEF Next, SourceStep, FinalizeStep

LEMMA Served == IInv /\ JobsThere => QueriesAreServed
<1> SUFFICES ASSUME IInv, JobsThere, NEW q \in Queries, Wanted[q] # {}
             PROVE  /\ Notified[q] = <<>> =>
                         \E n \in Wanted[q] :
                           \/ n \notin LookedUp[q]
                           \/ q \in PendingResolution[n] /\ \E w \in Work : w.name = n
                    /\ Notified[q] = <<"resolved">> =>
                         \E n \in Wanted[q] :
                           q \in PendingFinalization[n] /\ \E w \in Emitted : w.name = n
  BY DEF QueriesAreServed
<1>1. /\ Wanted[q] \subseteq Names /\ IsFiniteSet(Unresolved(q)) /\ IsFiniteSet(Unfinalized(q))
  BY WaitsFinite DEF IInv, Shape
<1>2. Notified[q] \in {<<>>, <<"resolved">>} => Counted(q)
  BY Histories DEF IInv, Queried, QueryInv, New, Failed
<1>3. ASSUME Notified[q] = <<>>
      PROVE  \E n \in Wanted[q] : \/ n \notin LookedUp[q]
                                  \/ q \in PendingResolution[n] /\ \E w \in Work : w.name = n
  <2>1. Cardinality(Unresolved(q)) # 0
    BY <1>2, <1>3, Histories DEF Counted
  <2>2. PICK n \in Unresolved(q) : TRUE
    BY <2>1, FS_EmptySet
  <2>3. CASE q \in PendingResolution[n]
    <3>1. n \in Wanted[q] /\ n \in Names
      BY <1>1, <2>2 DEF Unresolved
    <3>2. Stage[n] = "materializing" /\ Address[n] = Unset
      BY <2>3, <3>1 DEF IInv, Lists
    <3> QED BY <2>3, <3>1, <3>2 DEF JobsThere
  <2> QED BY <2>2, <2>3 DEF Unresolved
<1>4. ASSUME Notified[q] = <<"resolved">>
      PROVE  \E n \in Wanted[q] : q \in PendingFinalization[n] /\ \E w \in Emitted : w.name = n
  <2>1. Cardinality(Unfinalized(q)) # 0 /\ Cardinality(Unresolved(q)) = 0
    BY <1>2, <1>4, Histories DEF Counted
  <2>2. Unresolved(q) = {}
    BY <1>1, <2>1, FS_EmptySet
  <2>3. PICK n \in Unfinalized(q) : TRUE
    BY <2>1, FS_EmptySet
  <2>4. n \in Wanted[q] /\ n \in Names /\ q \in PendingFinalization[n]
    BY <1>1, <2>2, <2>3 DEF Unresolved, Unfinalized
  <2>5. Stage[n] = "materializing" /\ Address[n] # Unset
    BY <2>4 DEF IInv, Lists
  <2> QED BY <2>4, <2>5 DEF JobsThere
<1> QED BY <1>3, <1>4

\* QueriesAreServed: no query is left in a list of an entry that nobody works on,
\* and none is dropped from the lists, whichever of define(), lookup(), resolve()
\* and finalize() came first.  What remains for QueriesComplete is that sources
\* do their jobs.
THEOREM NobodyForgotten == Spec => []QueriesAreServed
<1>1. Init => JobsThere
  BY DEF Init, JobsThere
<1> QED BY <1>1, JobsThereStep, Served, Invariance, PTL DEF Spec

-------------------------------------------------------------------------------
(* What AnswersAreAddresses, which does not hold, depends on. *)

Replaces == \E n \in Names, strong \in BOOLEAN, s \in Sources : replaceWithSource(n, strong, s)

\* Replacing an entry by a lazy definition is the only way to AnswersAreAddresses
\* being violated: as long as no defineLazy() meets an existing symbol, every
\* query is answered by addresses.
THEOREM AddressesUnlessReplaced == Init /\ [][Next /\ ~Replaces]_vars => []AnswersAreAddresses
<1> DEFINE All == \A n \in Names : HasAddress(n)
<1>1. Init => All
  BY DEF Init, HasAddress
<1>2. All => AnswersAreAddresses
  <2>1. \A d, s : AddressOf(d) # PointerTo(s) /\ Unset # PointerTo(s)
    <3>1. \A d : AddressOf(d).is = "address" /\ PointerTo(d).is = "source"
      BY DEF AddressOf, PointerTo
    <3> QED BY <3>1, SomethingIsSet
  <2> QED BY <2>1 DEF HasAddress, AnswersAreAddresses, Addresses
<1>3. [Next /\ ~Replaces]_vars => [Next]_vars
  OBVIOUS
<1>4. IInv /\ All /\ [Next /\ ~Replaces]_vars => All'
  <2> SUFFICES ASSUME IInv, All, [Next /\ ~Replaces]_vars, NEW m \in Names PROVE HasAddress(m)'
    OBVIOUS
  <2>1. [Next]_vars BY <1>3
  <2>2. CASE UNCHANGED vars
    BY <2>2 DEF HasAddress, vars, entries, queries
  <2>3. CASE ~Replaces
    BY <2>1, <2>3, HasAddressStep DEF Replaces
  <2> QED BY <2>2, <2>3
<1> HIDE DEF All
<1> QED BY <1>1, <1>2, <1>3, <1>4, Begins, StepKeepsIInv, PTL
=============================================================================
