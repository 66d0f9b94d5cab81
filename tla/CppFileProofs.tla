----------------------------- MODULE CppFileProofs -----------------------------
(***************************************************************************)
(* The safety properties of CppFile, and that each of its two futures      *)
(* implements FreshFuture, for any number of rebuild requests.  IInv       *)
(* (CppFile.tla) is inductive; one lemma per conjunct, one step per action.*)
(***************************************************************************)
EXTENDS CppFile, TLAPS

LEMMA Domains ==
  /\ \A n \in Requests : n \in Numbers /\ n # 0
  /\ \A n \in Numbers : n \in Nat /\ n # Unset /\ 0 <= n
  /\ \A n \in Numbers : n # 0 => n \in Requests
  /\ \A n \in Numbers : n + 1 \in Requests => \A m \in Numbers : m <= n => m + 1 \in Numbers
  /\ 0 \in Numbers /\ Kinds = {"Preamble", "AST"}
BY RequestsAssumption DEF Requests, Numbers, Unset, Kinds

\* The critical section of deferRebuild and deferCancelRebuild.
LEMMA RequestNumbering ==
  ASSUME IInv, NEW w, Request(w)
  PROVE  Numbering' /\ FreshResults'
<1> USE Domains DEF IInv, TypeOK, Numbering
<1> DEFINE N == RebuildCounter + 1
<1>1. /\ N \in Requests /\ RebuildCounter' = N /\ N \in Numbers
      /\ RebuildCounter \in Nat /\ N # RebuildCounter
  BY DEF Request
<1>2. \A k \in Kinds : Renew(k) \in Numbers /\ Renew(k) <= N /\ Future[k] <= Renew(k)
  <2> TAKE k \in Kinds
  <2>1. Future[k] \in Numbers /\ Future[k] \in Nat /\ Future[k] <= RebuildCounter
    OBVIOUS
  <2>2. RebuildCounter \in Numbers /\ Future[k] + 1 \in Numbers
    BY <1>1, <2>1
  <2> HIDE DEF IInv, TypeOK, Numbering
  <2>3. CASE futureIsReady(k)
    BY <1>1, <2>1, <2>2, <2>3 DEF Renew
  <2>4. CASE ~futureIsReady(k)
    BY <1>1, <2>1, <2>2, <2>4 DEF Renew
  <2> QED
    BY <2>3, <2>4
<1>3. Future' = [k \in Kinds |-> Renew(k)] /\ Value' = Value
  BY DEF Request
<1>4. \A n \in Requests : n <= N <=> pc'[n] # "none"
  <2> TAKE n \in Requests
  <2>1. n <= N <=> n <= RebuildCounter \/ n = N
    <3>1. n \in Nat
      OBVIOUS
    <3> QED
      BY <1>1, <3>1
  <2>2. pc' = [pc EXCEPT ![N] = "notify"]
    BY DEF Request, Goto
  <2> QED
    BY <1>1, <2>1, <2>2
<1>5. \A k \in Kinds : asked'[k] = [asked[k] EXCEPT ![Renew(k)] = N]
  BY DEF Request
<1>6. \A k \in Kinds : asked'[k][Renew(k)] = N
  BY <1>2, <1>5
<1>7. \A k \in Kinds, g \in Numbers : g > Renew(k) => Value[k][g] = Unset
  BY <1>2
<1>8. \A n \in RebuildCond : pc'[n] = "blocked"
  <2>1. pc' = [pc EXCEPT ![N] = "notify"] /\ pc[N] = "none"
    BY <1>1 DEF Request, Goto
  <2> QED
    BY <2>1
<1>9. ASSUME NEW k \in Kinds, NEW g \in Numbers
      PROVE  /\ Value[k][g] \in {asked'[k][g], Unset}
             /\ g < Renew(k) => Value[k][g] # Unset
  <2>1. CASE g = Renew(k)
    <3>1. Value[k][g] = Unset
      <4>1. CASE futureIsReady(k)
        <5>1. Future[k] \in Nat /\ g = Future[k] + 1
          BY <2>1, <4>1 DEF Renew
        <5>2. g > Future[k]
          BY <5>1
        <5> QED
          BY <5>2
      <4>2. CASE ~futureIsReady(k)
        BY <2>1, <4>2 DEF Renew, futureIsReady
      <4> QED
        BY <4>1, <4>2
    <3> QED
      BY <1>2, <2>1, <3>1
  <2>2. CASE g # Renew(k)
    <3>1. asked'[k][g] = asked[k][g]
      BY <1>2, <1>5, <2>2
    <3>2. g < Renew(k) => g <= Future[k] /\ (g = Future[k] => futureIsReady(k))
      BY <1>2 DEF Renew
    <3>3. g < Renew(k) => Value[k][g] # Unset
      <4>1. g \in Nat /\ Future[k] \in Nat
        OBVIOUS
      <4>2. g < Renew(k) => g < Future[k] \/ (g = Future[k] /\ futureIsReady(k))
        BY <3>2, <4>1
      <4> QED
        BY <4>2 DEF futureIsReady, FreshResults
    <3> QED
      BY <3>1, <3>3 DEF FreshResults
  <2> QED
    BY <2>1, <2>2
<1>10. Numbering'
  BY <1>1, <1>2, <1>3, <1>4, <1>6, <1>7, <1>8 DEF Request
<1>11. FreshResults'
  BY <1>3, <1>9 DEF FreshResults
<1> QED
  BY <1>10, <1>11

\* Every step keeps the types.
LEMMA TypeStep ==
  ASSUME IInv, [Next]_vars
  PROVE  TypeOK'
<1> USE Domains DEF IInv, TypeOK, Guarded, Pcs, Goto, futureIsReady, Numbering
<1>1. ASSUME deferRebuild PROVE TypeOK'
  BY <1>1 DEF deferRebuild, Request, Renew
<1>2. ASSUME deferCancelRebuild PROVE TypeOK'
  BY <1>2 DEF deferCancelRebuild, Request, Renew
<1>3. ASSUME NEW n \in Requests, DeferNotify(n) PROVE TypeOK'
  BY <1>3 DEF DeferNotify, WakeAll
<1>4. ASSUME NEW n \in Requests, Discard(n) PROVE TypeOK'
  BY <1>4 DEF Discard, Return
<1>5. ASSUME NEW n \in Requests, SpuriousWakeup(n) PROVE TypeOK'
  BY <1>5 DEF SpuriousWakeup
<1>6. ASSUME NEW n \in Requests, NEW w, WaitForRebuild(n, w) PROVE TypeOK'
  BY <1>6 DEF WaitForRebuild, MustWait
<1>7. ASSUME NEW n \in Requests, RebuildGuard(n) PROVE TypeOK'
  <2>1. CASE Cancelled(n)
    BY <1>7, <2>1 DEF RebuildGuard, Return
  <2>2. CASE ~Cancelled(n)
    BY <1>7, <2>2 DEF RebuildGuard
  <2> QED
    BY <2>1, <2>2
<1>8. ASSUME NEW n \in Requests, PublishPreamble(n) PROVE TypeOK'
  BY <1>8 DEF PublishPreamble, PublishPreambleIf, SetValue, Return
<1>9. ASSUME NEW n \in Requests, BuildAST(n) PROVE TypeOK'
  BY <1>9 DEF BuildAST
<1>10. ASSUME NEW n \in Requests, PublishAST(n) PROVE TypeOK'
  BY <1>10 DEF PublishAST, SetValue, Return
<1>11. ASSUME NEW n \in Requests, LeaveGuard(n) PROVE TypeOK'
  BY <1>11 DEF LeaveGuard
<1>12. ASSUME NEW n \in Requests, GuardNotify(n) PROVE TypeOK'
  BY <1>12 DEF GuardNotify, WakeAll
<1>13. ASSUME NEW n \in Requests, FinishCancel(n) PROVE TypeOK'
  BY <1>13 DEF FinishCancel, MustWait, Cancelled, SetValue
<1>14. CASE UNCHANGED vars
  BY <1>14 DEF vars
<1> QED
  BY <1>1, <1>2, <1>3, <1>4, <1>5, <1>6, <1>7, <1>8, <1>9, <1>10, <1>11, <1>12,
     <1>13, <1>14
  DEF Next, Step, Quiescent

\* Requests and generations are used in order.
LEMMA NumberingStep ==
  ASSUME IInv, [Next]_vars
  PROVE  Numbering'
<1> USE Domains DEF IInv, TypeOK, Guarded, Pcs, Goto, futureIsReady, Numbering
<1>1. ASSUME deferRebuild PROVE Numbering'
  BY <1>1, RequestNumbering DEF deferRebuild
<1>2. ASSUME deferCancelRebuild PROVE Numbering'
  BY <1>2, RequestNumbering DEF deferCancelRebuild
<1>3. ASSUME NEW n \in Requests, DeferNotify(n) PROVE Numbering'
  BY <1>3 DEF DeferNotify, WakeAll
<1>4. ASSUME NEW n \in Requests, Discard(n) PROVE Numbering'
  BY <1>4 DEF Discard, Return
<1>5. ASSUME NEW n \in Requests, SpuriousWakeup(n) PROVE Numbering'
  BY <1>5 DEF SpuriousWakeup
<1>6. ASSUME NEW n \in Requests, NEW w, WaitForRebuild(n, w) PROVE Numbering'
  BY <1>6 DEF WaitForRebuild, MustWait
<1>7. ASSUME NEW n \in Requests, RebuildGuard(n) PROVE Numbering'
  BY <1>7 DEF RebuildGuard, MustWait, Cancelled, Return
<1>8. ASSUME NEW n \in Requests, PublishPreamble(n) PROVE Numbering'
  BY <1>8 DEF PublishPreamble, PublishPreambleIf, SetValue, Return
<1>9. ASSUME NEW n \in Requests, BuildAST(n) PROVE Numbering'
  BY <1>9 DEF BuildAST
<1>10. ASSUME NEW n \in Requests, PublishAST(n) PROVE Numbering'
  BY <1>10 DEF PublishAST, SetValue, Return
<1>11. ASSUME NEW n \in Requests, LeaveGuard(n) PROVE Numbering'
  BY <1>11 DEF LeaveGuard
<1>12. ASSUME NEW n \in Requests, GuardNotify(n) PROVE Numbering'
  BY <1>12 DEF GuardNotify, WakeAll
<1>13. ASSUME NEW n \in Requests, FinishCancel(n) PROVE Numbering'
  BY <1>13 DEF FinishCancel, MustWait, Cancelled, SetValue
<1>14. CASE UNCHANGED vars
  BY <1>14 DEF vars
<1> QED
  BY <1>1, <1>2, <1>3, <1>4, <1>5, <1>6, <1>7, <1>8, <1>9, <1>10, <1>11, <1>12,
     <1>13, <1>14
  DEF Next, Step, Quiescent

\* RebuildGuard admits one rebuild at a time.
LEMMA ExclusiveStep ==
  ASSUME IInv, [Next]_vars
  PROVE  RebuildsExclusive'
<1> USE Domains DEF IInv, TypeOK, Guarded, Pcs, Goto, futureIsReady, RebuildsExclusive, Numbering
<1>1. ASSUME deferRebuild PROVE RebuildsExclusive'
  BY <1>1 DEF deferRebuild, Request, Renew
<1>2. ASSUME deferCancelRebuild PROVE RebuildsExclusive'
  BY <1>2 DEF deferCancelRebuild, Request, Renew
<1>3. ASSUME NEW n \in Requests, DeferNotify(n) PROVE RebuildsExclusive'
  BY <1>3 DEF DeferNotify, WakeAll
<1>4. ASSUME NEW n \in Requests, Discard(n) PROVE RebuildsExclusive'
  BY <1>4 DEF Discard, Return
<1>5. ASSUME NEW n \in Requests, SpuriousWakeup(n) PROVE RebuildsExclusive'
  BY <1>5 DEF SpuriousWakeup
<1>6. ASSUME NEW n \in Requests, NEW w, WaitForRebuild(n, w) PROVE RebuildsExclusive'
  BY <1>6 DEF WaitForRebuild, MustWait
<1>7. ASSUME NEW n \in Requests, RebuildGuard(n) PROVE RebuildsExclusive'
  BY <1>7 DEF RebuildGuard, MustWait, Cancelled, Return
<1>8. ASSUME NEW n \in Requests, PublishPreamble(n) PROVE RebuildsExclusive'
  BY <1>8 DEF PublishPreamble, PublishPreambleIf, SetValue, Return
<1>9. ASSUME NEW n \in Requests, BuildAST(n) PROVE RebuildsExclusive'
  BY <1>9 DEF BuildAST
<1>10. ASSUME NEW n \in Requests, PublishAST(n) PROVE RebuildsExclusive'
  BY <1>10 DEF PublishAST, SetValue, Return
<1>11. ASSUME NEW n \in Requests, LeaveGuard(n) PROVE RebuildsExclusive'
  BY <1>11 DEF LeaveGuard
<1>12. ASSUME NEW n \in Requests, GuardNotify(n) PROVE RebuildsExclusive'
  BY <1>12 DEF GuardNotify, WakeAll
<1>13. ASSUME NEW n \in Requests, FinishCancel(n) PROVE RebuildsExclusive'
  BY <1>13 DEF FinishCancel, MustWait, Cancelled, SetValue
<1>14. CASE UNCHANGED vars
  BY <1>14 DEF vars
<1> QED
  BY <1>1, <1>2, <1>3, <1>4, <1>5, <1>6, <1>7, <1>8, <1>9, <1>10, <1>11, <1>12,
     <1>13, <1>14
  DEF Next, Step, Quiescent

\* Only the newest request fulfils the futures.
LEMMA NewestStep ==
  ASSUME IInv, [Next]_vars
  PROVE  (NewestDecides /\ ReadyAtFirst)'
<1> USE Domains DEF IInv, TypeOK, Guarded, Pcs, Goto, futureIsReady, NewestDecides, ReadyAtFirst, Numbering
<1>1. ASSUME deferRebuild PROVE (NewestDecides /\ ReadyAtFirst)'
  BY <1>1 DEF deferRebuild, Request, Renew
<1>2. ASSUME deferCancelRebuild PROVE (NewestDecides /\ ReadyAtFirst)'
  BY <1>2 DEF deferCancelRebuild, Request, Renew
<1>3. ASSUME NEW n \in Requests, DeferNotify(n) PROVE (NewestDecides /\ ReadyAtFirst)'
  BY <1>3 DEF DeferNotify, WakeAll
<1>4. ASSUME NEW n \in Requests, Discard(n) PROVE (NewestDecides /\ ReadyAtFirst)'
  BY <1>4 DEF Discard, Return
<1>5. ASSUME NEW n \in Requests, SpuriousWakeup(n) PROVE (NewestDecides /\ ReadyAtFirst)'
  BY <1>5 DEF SpuriousWakeup
<1>6. ASSUME NEW n \in Requests, NEW w, WaitForRebuild(n, w) PROVE (NewestDecides /\ ReadyAtFirst)'
  BY <1>6 DEF WaitForRebuild, MustWait
<1>7. ASSUME NEW n \in Requests, RebuildGuard(n) PROVE (NewestDecides /\ ReadyAtFirst)'
  BY <1>7 DEF RebuildGuard, MustWait, Cancelled, Return
<1>8. ASSUME NEW n \in Requests, PublishPreamble(n) PROVE (NewestDecides /\ ReadyAtFirst)'
  BY <1>8 DEF PublishPreamble, PublishPreambleIf, SetValue, Return
<1>9. ASSUME NEW n \in Requests, BuildAST(n) PROVE (NewestDecides /\ ReadyAtFirst)'
  BY <1>9 DEF BuildAST
<1>10. ASSUME NEW n \in Requests, PublishAST(n) PROVE (NewestDecides /\ ReadyAtFirst)'
  BY <1>10 DEF PublishAST, SetValue, Return
<1>11. ASSUME NEW n \in Requests, LeaveGuard(n) PROVE (NewestDecides /\ ReadyAtFirst)'
  BY <1>11 DEF LeaveGuard
<1>12. ASSUME NEW n \in Requests, GuardNotify(n) PROVE (NewestDecides /\ ReadyAtFirst)'
  BY <1>12 DEF GuardNotify, WakeAll
<1>13. ASSUME NEW n \in Requests, FinishCancel(n) PROVE (NewestDecides /\ ReadyAtFirst)'
  BY <1>13 DEF FinishCancel, MustWait, Cancelled, SetValue
<1>14. CASE UNCHANGED vars
  BY <1>14 DEF vars
<1> QED
  BY <1>1, <1>2, <1>3, <1>4, <1>5, <1>6, <1>7, <1>8, <1>9, <1>10, <1>11, <1>12,
     <1>13, <1>14
  DEF Next, Step, Quiescent

\* The newest request waits for a cancelled rebuild to leave.
LEMMA NewestWaitsStep ==
  ASSUME IInv, [Next]_vars
  PROVE  NewestWaits'
<1> USE Domains DEF IInv, TypeOK, Guarded, Pcs, Goto, futureIsReady, NewestWaits, RebuildsExclusive, Numbering
<1>1. ASSUME deferRebuild PROVE NewestWaits'
  BY <1>1 DEF deferRebuild, Request, Renew
<1>2. ASSUME deferCancelRebuild PROVE NewestWaits'
  BY <1>2 DEF deferCancelRebuild, Request, Renew
<1>3. ASSUME NEW n \in Requests, DeferNotify(n) PROVE NewestWaits'
  BY <1>3 DEF DeferNotify, WakeAll
<1>4. ASSUME NEW n \in Requests, Discard(n) PROVE NewestWaits'
  BY <1>4 DEF Discard, Return
<1>5. ASSUME NEW n \in Requests, SpuriousWakeup(n) PROVE NewestWaits'
  BY <1>5 DEF SpuriousWakeup
<1>6. ASSUME NEW n \in Requests, NEW w, WaitForRebuild(n, w) PROVE NewestWaits'
  BY <1>6 DEF WaitForRebuild, MustWait
<1>7. ASSUME NEW n \in Requests, RebuildGuard(n) PROVE NewestWaits'
  BY <1>7 DEF RebuildGuard, MustWait, Cancelled, Return
<1>8. ASSUME NEW n \in Requests, PublishPreamble(n) PROVE NewestWaits'
  BY <1>8 DEF PublishPreamble, PublishPreambleIf, SetValue, Return
<1>9. ASSUME NEW n \in Requests, BuildAST(n) PROVE NewestWaits'
  BY <1>9 DEF BuildAST
<1>10. ASSUME NEW n \in Requests, PublishAST(n) PROVE NewestWaits'
  BY <1>10 DEF PublishAST, SetValue, Return
<1>11. ASSUME NEW n \in Requests, LeaveGuard(n) PROVE NewestWaits'
  BY <1>11 DEF LeaveGuard
<1>12. ASSUME NEW n \in Requests, GuardNotify(n) PROVE NewestWaits'
  BY <1>12 DEF GuardNotify, WakeAll
<1>13. ASSUME NEW n \in Requests, FinishCancel(n) PROVE NewestWaits'
  BY <1>13 DEF FinishCancel, MustWait, Cancelled, SetValue
<1>14. CASE UNCHANGED vars
  BY <1>14 DEF vars
<1> QED
  BY <1>1, <1>2, <1>3, <1>4, <1>5, <1>6, <1>7, <1>8, <1>9, <1>10, <1>11, <1>12,
     <1>13, <1>14
  DEF Next, Step, Quiescent

\* The last AST passed to ASTCallback is not newer than a running rebuild.
LEMMA CallbackStep ==
  ASSUME IInv, [Next]_vars
  PROVE  CallbackBounds'
<1> USE Domains DEF IInv, TypeOK, Guarded, Pcs, Goto, futureIsReady, CallbackBounds, RebuildsExclusive, Numbering
<1>1. ASSUME deferRebuild PROVE CallbackBounds'
  BY <1>1 DEF deferRebuild, Request, Renew
<1>2. ASSUME deferCancelRebuild PROVE CallbackBounds'
  BY <1>2 DEF deferCancelRebuild, Request, Renew
<1>3. ASSUME NEW n \in Requests, DeferNotify(n) PROVE CallbackBounds'
  BY <1>3 DEF DeferNotify, WakeAll
<1>4. ASSUME NEW n \in Requests, Discard(n) PROVE CallbackBounds'
  BY <1>4 DEF Discard, Return
<1>5. ASSUME NEW n \in Requests, SpuriousWakeup(n) PROVE CallbackBounds'
  BY <1>5 DEF SpuriousWakeup
<1>6. ASSUME NEW n \in Requests, NEW w, WaitForRebuild(n, w) PROVE CallbackBounds'
  BY <1>6 DEF WaitForRebuild, MustWait
<1>7. ASSUME NEW n \in Requests, RebuildGuard(n) PROVE CallbackBounds'
  BY <1>7 DEF RebuildGuard, MustWait, Cancelled, Return
<1>8. ASSUME NEW n \in Requests, PublishPreamble(n) PROVE CallbackBounds'
  BY <1>8 DEF PublishPreamble, PublishPreambleIf, SetValue, Return
<1>9. ASSUME NEW n \in Requests, BuildAST(n) PROVE CallbackBounds'
  BY <1>9 DEF BuildAST
<1>10. ASSUME NEW n \in Requests, PublishAST(n) PROVE CallbackBounds'
  BY <1>10 DEF PublishAST, SetValue, Return
<1>11. ASSUME NEW n \in Requests, LeaveGuard(n) PROVE CallbackBounds'
  BY <1>11 DEF LeaveGuard
<1>12. ASSUME NEW n \in Requests, GuardNotify(n) PROVE CallbackBounds'
  BY <1>12 DEF GuardNotify, WakeAll
<1>13. ASSUME NEW n \in Requests, FinishCancel(n) PROVE CallbackBounds'
  BY <1>13 DEF FinishCancel, MustWait, Cancelled, SetValue
<1>14. CASE UNCHANGED vars
  BY <1>14 DEF vars
<1> QED
  BY <1>1, <1>2, <1>3, <1>4, <1>5, <1>6, <1>7, <1>8, <1>9, <1>10, <1>11, <1>12,
     <1>13, <1>14
  DEF Next, Step, Quiescent

\* A future that was given up is ready, and every ready one is the freshest.
LEMMA FreshStep ==
  ASSUME IInv, [Next]_vars
  PROVE  FreshResults'
<1> USE Domains DEF IInv, TypeOK, Guarded, Pcs, Goto, futureIsReady, FreshResults, Numbering
<1>1. ASSUME deferRebuild PROVE FreshResults'
  BY <1>1, RequestNumbering DEF deferRebuild
<1>2. ASSUME deferCancelRebuild PROVE FreshResults'
  BY <1>2, RequestNumbering DEF deferCancelRebuild
<1>3. ASSUME NEW n \in Requests, DeferNotify(n) PROVE FreshResults'
  BY <1>3 DEF DeferNotify, WakeAll
<1>4. ASSUME NEW n \in Requests, Discard(n) PROVE FreshResults'
  BY <1>4 DEF Discard, Return
<1>5. ASSUME NEW n \in Requests, SpuriousWakeup(n) PROVE FreshResults'
  BY <1>5 DEF SpuriousWakeup
<1>6. ASSUME NEW n \in Requests, NEW w, WaitForRebuild(n, w) PROVE FreshResults'
  BY <1>6 DEF WaitForRebuild, MustWait
<1>7. ASSUME NEW n \in Requests, RebuildGuard(n) PROVE FreshResults'
  BY <1>7 DEF RebuildGuard, MustWait, Cancelled, Return
<1>8. ASSUME NEW n \in Requests, PublishPreamble(n) PROVE FreshResults'
  BY <1>8 DEF PublishPreamble, PublishPreambleIf, SetValue, Return
<1>9. ASSUME NEW n \in Requests, BuildAST(n) PROVE FreshResults'
  BY <1>9 DEF BuildAST
<1>10. ASSUME NEW n \in Requests, PublishAST(n) PROVE FreshResults'
  BY <1>10 DEF PublishAST, SetValue, Return
<1>11. ASSUME NEW n \in Requests, LeaveGuard(n) PROVE FreshResults'
  BY <1>11 DEF LeaveGuard
<1>12. ASSUME NEW n \in Requests, GuardNotify(n) PROVE FreshResults'
  BY <1>12 DEF GuardNotify, WakeAll
<1>13. ASSUME NEW n \in Requests, FinishCancel(n) PROVE FreshResults'
  BY <1>13 DEF FinishCancel, MustWait, Cancelled, SetValue
<1>14. CASE UNCHANGED vars
  BY <1>14 DEF vars
<1> QED
  BY <1>1, <1>2, <1>3, <1>4, <1>5, <1>6, <1>7, <1>8, <1>9, <1>10, <1>11, <1>12,
     <1>13, <1>14
  DEF Next, Step, Quiescent

LEMMA InitInvariant == Init => IInv
<1> SUFFICES ASSUME Init PROVE IInv
  OBVIOUS
<1> USE Domains DEF Init
<1>1. TypeOK
  BY DEF TypeOK, Pcs
<1>2. futureIsReady("Preamble") /\ futureIsReady("AST")
  BY DEF futureIsReady
<1>3. Numbering
  BY DEF Numbering
<1>4. RebuildsExclusive /\ NewestDecides /\ ReadyAtFirst /\ NewestWaits /\ CallbackBounds
  BY <1>2 DEF RebuildsExclusive, NewestDecides, ReadyAtFirst, NewestWaits, CallbackBounds, Guarded
<1>5. FreshResults
  BY DEF FreshResults
<1> QED
  BY <1>1, <1>3, <1>4, <1>5 DEF IInv

\* IInv is an invariant of CppFile.
THEOREM Invariance == Spec => []IInv
<1>1. IInv /\ [Next]_vars => IInv'
  BY TypeStep, NumberingStep, ExclusiveStep, NewestStep, NewestWaitsStep, CallbackStep,
     FreshStep DEF IInv
<1> QED
  BY InitInvariant, <1>1, PTL DEF Spec

\* CppFile keeps its types.
THEOREM TypeCorrect == Spec => []TypeOK
<1>1. IInv => TypeOK
  BY DEF IInv
<1> QED
  BY Invariance, <1>1, PTL

\* Two rebuilds of one file never overlap.
THEOREM Exclusive == Spec => []RebuildsExclusive
<1>1. IInv => RebuildsExclusive
  BY DEF IInv
<1> QED
  BY Invariance, <1>1, PTL

\* The assertions of ~RebuildGuard never fail.
THEOREM AssertionsHold == Spec => []GuardAssertions
<1>1. IInv => GuardAssertions
  <2> SUFFICES ASSUME IInv, NEW n \in Requests, pc[n] = "unguard", NEW k \in Kinds
               PROVE  RebuildInProgress /\ (futureIsReady(k) <=> RebuildCounter = n)
    BY DEF GuardAssertions, Kinds
  <2>1. RebuildInProgress
    BY DEF IInv, RebuildsExclusive, Guarded
  <2>2. RebuildCounter \in Requests
    BY Domains DEF IInv, TypeOK, Numbering
  <2>3. CASE RebuildCounter = n
    BY <2>1, <2>3 DEF IInv, NewestDecides, Kinds
  <2>4. CASE RebuildCounter # n
    <3>1. pc[RebuildCounter] \in {"notify", "deferred", "blocked"}
      BY <2>2, <2>4 DEF IInv, NewestWaits, Guarded
    <3> QED
      BY <2>1, <2>2, <2>4, <3>1 DEF IInv, NewestDecides, Kinds
  <2> QED
    BY <2>3, <2>4
<1> QED
  BY Invariance, <1>1, PTL

\* No promise is set twice.
THEOREM SetOnce == Spec => []PromisesSetOnce
<1>1. IInv => PromisesSetOnce
  BY DEF IInv, NewestDecides, PromisesSetOnce, PublishPreambleIf, MustWait, Cancelled, Kinds
<1> QED
  BY Invariance, <1>1, PTL

\* A reader gets the freshest result, and no promise is broken.
THEOREM Fresh == Spec => []FreshResults
<1>1. IInv => FreshResults
  BY DEF IInv
<1> QED
  BY Invariance, <1>1, PTL

\* ASTCallback sees the versions in order.
THEOREM CallbackOrder == Spec => CallbacksInOrder
<1>1. IInv /\ [Next]_vars => [indexed' >= indexed]_vars
  <2> SUFFICES ASSUME IInv, Next PROVE indexed' >= indexed
    OBVIOUS
  <2>1. ASSUME NEW n \in Requests, BuildAST(n) PROVE indexed' >= indexed
    BY <2>1, Domains DEF BuildAST, IInv, TypeOK, CallbackBounds, Guarded
  <2>2. (\A n \in Requests : ~BuildAST(n)) => indexed' = indexed
    BY DEF Next, Step, Quiescent, vars, deferRebuild, deferCancelRebuild, Request, DeferNotify,
           Discard, SpuriousWakeup, WaitForRebuild, RebuildGuard, PublishPreamble,
           PublishAST, LeaveGuard, GuardNotify, FinishCancel
  <2> QED
    BY <2>1, <2>2, Domains DEF IInv, TypeOK
<1> QED
  BY Invariance, <1>1, PTL DEF Spec, CallbacksInOrder

\* Every step of CppFile is a step of FreshFuture for the preamble future, or a stutter.
LEMMA PreambleSlotStep ==
  ASSUME IInv, [Next]_vars
  PROVE  [PreambleSlot!Next]_<<RebuildCounter, Value["Preamble"][Future["Preamble"]]>>
<1> USE Domains DEF IInv, TypeOK, Guarded, Pcs, Goto, futureIsReady, Numbering, NewestDecides, PreambleSlot!Next, PreambleSlot!Ask, PreambleSlot!Fulfil
<1>1. ASSUME deferRebuild PROVE [PreambleSlot!Next]_<<RebuildCounter, Value["Preamble"][Future["Preamble"]]>>
  BY <1>1 DEF deferRebuild, Request, Renew
<1>2. ASSUME deferCancelRebuild PROVE [PreambleSlot!Next]_<<RebuildCounter, Value["Preamble"][Future["Preamble"]]>>
  BY <1>2 DEF deferCancelRebuild, Request, Renew
<1>3. ASSUME NEW n \in Requests, DeferNotify(n) PROVE [PreambleSlot!Next]_<<RebuildCounter, Value["Preamble"][Future["Preamble"]]>>
  BY <1>3 DEF DeferNotify, WakeAll
<1>4. ASSUME NEW n \in Requests, Discard(n) PROVE [PreambleSlot!Next]_<<RebuildCounter, Value["Preamble"][Future["Preamble"]]>>
  BY <1>4 DEF Discard, Return
<1>5. ASSUME NEW n \in Requests, SpuriousWakeup(n) PROVE [PreambleSlot!Next]_<<RebuildCounter, Value["Preamble"][Future["Preamble"]]>>
  BY <1>5 DEF SpuriousWakeup
<1>6. ASSUME NEW n \in Requests, NEW w, WaitForRebuild(n, w) PROVE [PreambleSlot!Next]_<<RebuildCounter, Value["Preamble"][Future["Preamble"]]>>
  BY <1>6 DEF WaitForRebuild, MustWait
<1>7. ASSUME NEW n \in Requests, RebuildGuard(n) PROVE [PreambleSlot!Next]_<<RebuildCounter, Value["Preamble"][Future["Preamble"]]>>
  BY <1>7 DEF RebuildGuard, MustWait, Cancelled, Return
<1>8. ASSUME NEW n \in Requests, PublishPreamble(n) PROVE [PreambleSlot!Next]_<<RebuildCounter, Value["Preamble"][Future["Preamble"]]>>
  BY <1>8 DEF PublishPreamble, PublishPreambleIf, SetValue, Return
<1>9. ASSUME NEW n \in Requests, BuildAST(n) PROVE [PreambleSlot!Next]_<<RebuildCounter, Value["Preamble"][Future["Preamble"]]>>
  BY <1>9 DEF BuildAST
<1>10. ASSUME NEW n \in Requests, PublishAST(n) PROVE [PreambleSlot!Next]_<<RebuildCounter, Value["Preamble"][Future["Preamble"]]>>
  BY <1>10 DEF PublishAST, SetValue, Return
<1>11. ASSUME NEW n \in Requests, LeaveGuard(n) PROVE [PreambleSlot!Next]_<<RebuildCounter, Value["Preamble"][Future["Preamble"]]>>
  BY <1>11 DEF LeaveGuard
<1>12. ASSUME NEW n \in Requests, GuardNotify(n) PROVE [PreambleSlot!Next]_<<RebuildCounter, Value["Preamble"][Future["Preamble"]]>>
  BY <1>12 DEF GuardNotify, WakeAll
<1>13. ASSUME NEW n \in Requests, FinishCancel(n) PROVE [PreambleSlot!Next]_<<RebuildCounter, Value["Preamble"][Future["Preamble"]]>>
  BY <1>13 DEF FinishCancel, MustWait, Cancelled, SetValue
<1>14. CASE UNCHANGED vars
  BY <1>14 DEF vars
<1> QED
  BY <1>1, <1>2, <1>3, <1>4, <1>5, <1>6, <1>7, <1>8, <1>9, <1>10, <1>11, <1>12,
     <1>13, <1>14
  DEF Next, Step, Quiescent

\* The preamble future implements FreshFuture.
THEOREM PreambleRefines == Spec => PreambleIsFresh
<1>1. Init => PreambleSlot!Init
  BY Domains DEF Init, PreambleSlot!Init
<1>2. IInv /\ [Next]_vars => [PreambleSlot!Next]_<<RebuildCounter, Value["Preamble"][Future["Preamble"]]>>
  BY PreambleSlotStep
<1> QED
  BY Invariance, <1>1, <1>2, PTL DEF Spec, PreambleIsFresh, PreambleSlot!Spec

\* Every step of CppFile is a step of FreshFuture for the AST future, or a stutter.
LEMMA ASTSlotStep ==
  ASSUME IInv, [Next]_vars
  PROVE  [ASTSlot!Next]_<<RebuildCounter, Value["AST"][Future["AST"]]>>
<1> USE Domains DEF IInv, TypeOK, Guarded, Pcs, Goto, futureIsReady, Numbering, NewestDecides, ASTSlot!Next, ASTSlot!Ask, ASTSlot!Fulfil
<1>1. ASSUME deferRebuild PROVE [ASTSlot!Next]_<<RebuildCounter, Value["AST"][Future["AST"]]>>
  BY <1>1 DEF deferRebuild, Request, Renew
<1>2. ASSUME deferCancelRebuild PROVE [ASTSlot!Next]_<<RebuildCounter, Value["AST"][Future["AST"]]>>
  BY <1>2 DEF deferCancelRebuild, Request, Renew
<1>3. ASSUME NEW n \in Requests, DeferNotify(n) PROVE [ASTSlot!Next]_<<RebuildCounter, Value["AST"][Future["AST"]]>>
  BY <1>3 DEF DeferNotify, WakeAll
<1>4. ASSUME NEW n \in Requests, Discard(n) PROVE [ASTSlot!Next]_<<RebuildCounter, Value["AST"][Future["AST"]]>>
  BY <1>4 DEF Discard, Return
<1>5. ASSUME NEW n \in Requests, SpuriousWakeup(n) PROVE [ASTSlot!Next]_<<RebuildCounter, Value["AST"][Future["AST"]]>>
  BY <1>5 DEF SpuriousWakeup
<1>6. ASSUME NEW n \in Requests, NEW w, WaitForRebuild(n, w) PROVE [ASTSlot!Next]_<<RebuildCounter, Value["AST"][Future["AST"]]>>
  BY <1>6 DEF WaitForRebuild, MustWait
<1>7. ASSUME NEW n \in Requests, RebuildGuard(n) PROVE [ASTSlot!Next]_<<RebuildCounter, Value["AST"][Future["AST"]]>>
  BY <1>7 DEF RebuildGuard, MustWait, Cancelled, Return
<1>8. ASSUME NEW n \in Requests, PublishPreamble(n) PROVE [ASTSlot!Next]_<<RebuildCounter, Value["AST"][Future["AST"]]>>
  BY <1>8 DEF PublishPreamble, PublishPreambleIf, SetValue, Return
<1>9. ASSUME NEW n \in Requests, BuildAST(n) PROVE [ASTSlot!Next]_<<RebuildCounter, Value["AST"][Future["AST"]]>>
  BY <1>9 DEF BuildAST
<1>10. ASSUME NEW n \in Requests, PublishAST(n) PROVE [ASTSlot!Next]_<<RebuildCounter, Value["AST"][Future["AST"]]>>
  BY <1>10 DEF PublishAST, SetValue, Return
<1>11. ASSUME NEW n \in Requests, LeaveGuard(n) PROVE [ASTSlot!Next]_<<RebuildCounter, Value["AST"][Future["AST"]]>>
  BY <1>11 DEF LeaveGuard
<1>12. ASSUME NEW n \in Requests, GuardNotify(n) PROVE [ASTSlot!Next]_<<RebuildCounter, Value["AST"][Future["AST"]]>>
  BY <1>12 DEF GuardNotify, WakeAll
<1>13. ASSUME NEW n \in Requests, FinishCancel(n) PROVE [ASTSlot!Next]_<<RebuildCounter, Value["AST"][Future["AST"]]>>
  BY <1>13 DEF FinishCancel, MustWait, Cancelled, SetValue
<1>14. CASE UNCHANGED vars
  BY <1>14 DEF vars
<1> QED
  BY <1>1, <1>2, <1>3, <1>4, <1>5, <1>6, <1>7, <1>8, <1>9, <1>10, <1>11, <1>12,
     <1>13, <1>14
  DEF Next, Step, Quiescent

\* The AST future implements FreshFuture.
THEOREM ASTRefines == Spec => ASTIsFresh
<1>1. Init => ASTSlot!Init
  BY Domains DEF Init, ASTSlot!Init
<1>2. IInv /\ [Next]_vars => [ASTSlot!Next]_<<RebuildCounter, Value["AST"][Future["AST"]]>>
  BY ASTSlotStep
<1> QED
  BY Invariance, <1>1, <1>2, PTL DEF Spec, ASTIsFresh, ASTSlot!Spec
-----------------------------------------------------------------------------
(* Nobody sleeps on RebuildCond for ever: the safety core of               *)
(* ComputationsReturn.                                                     *)

\* A notification of RebuildCond is still to come: its critical section has ended.
NotificationAhead == \E m \in Requests : pc[m] \in {"notify", "guardnotify"}

\* Whoever sleeps still has to wait, for a rebuild that is going on and notifies
\* at its end; or what he waits for has changed and a notification is on its way.
SleepersAreWoken ==
  \A n \in RebuildCond :
    NotificationAhead \/ (MustWait(n) /\ \E m \in Requests : pc[m] \in Guarded)

\* RebuildInProgress is only set while somebody is there to reset it.
SomebodyRebuilds == RebuildInProgress => \E m \in Requests : pc[m] \in Guarded

LEMMA SomebodyStep ==
  ASSUME IInv, SomebodyRebuilds, [Next]_vars
  PROVE  SomebodyRebuilds'
<1> USE Domains DEF IInv, TypeOK, Numbering, SomebodyRebuilds, Guarded, Goto
<1>1. ASSUME deferRebuild \/ deferCancelRebuild PROVE SomebodyRebuilds'
  <2>1. /\ RebuildCounter + 1 \in Requests /\ pc[RebuildCounter + 1] = "none"
        /\ pc' = [pc EXCEPT ![RebuildCounter + 1] = "notify"]
        /\ RebuildInProgress' = RebuildInProgress
    <3>1. RebuildCounter + 1 \in Requests /\ ~(RebuildCounter + 1 <= RebuildCounter)
      BY <1>1 DEF deferRebuild, deferCancelRebuild, Request
    <3> QED BY <1>1, <3>1 DEF deferRebuild, deferCancelRebuild, Request
  <2> QED BY <2>1
<1>2. ASSUME NEW n \in Requests, DeferNotify(n) PROVE SomebodyRebuilds'
  BY <1>2 DEF DeferNotify, WakeAll
<1>3. ASSUME NEW n \in Requests, GuardNotify(n) PROVE SomebodyRebuilds'
  BY <1>3 DEF GuardNotify, WakeAll
<1>4. ASSUME NEW n \in Requests, NEW w, Discard(n) \/ SpuriousWakeup(n) \/ WaitForRebuild(n, w)
      PROVE  SomebodyRebuilds'
  <2>1. /\ pc[n] \in {"deferred", "blocked"} /\ RebuildInProgress' = RebuildInProgress
        /\ \A m \in Requests \ {n} : pc'[m] = pc[m]
    BY <1>4 DEF Discard, SpuriousWakeup, WaitForRebuild
  <2> QED BY <2>1
<1>5. ASSUME NEW n \in Requests, RebuildGuard(n) \/ FinishCancel(n) PROVE SomebodyRebuilds'
  <2>1. /\ pc[n] = "deferred" /\ \A m \in Requests \ {n} : pc'[m] = pc[m]
        /\ RebuildInProgress' = RebuildInProgress \/ pc'[n] = "preamble"
    BY <1>5 DEF RebuildGuard, FinishCancel
  <2> QED BY <2>1
<1>6. ASSUME NEW n \in Requests, PublishPreamble(n) \/ BuildAST(n) \/ PublishAST(n)
      PROVE  SomebodyRebuilds'
  <2>1. pc'[n] \in Guarded
    BY <1>6 DEF PublishPreamble, BuildAST, PublishAST
  <2> QED BY <2>1
<1>7. ASSUME NEW n \in Requests, LeaveGuard(n) PROVE SomebodyRebuilds'
  BY <1>7 DEF LeaveGuard
<1>8. ASSUME UNCHANGED vars PROVE SomebodyRebuilds'
  BY <1>8 DEF vars
<1> QED
  BY <1>1, <1>2, <1>3, <1>4, <1>5, <1>6, <1>7, <1>8 DEF Next, Step, Quiescent

LEMMA SleepersStep ==
  ASSUME IInv, SomebodyRebuilds', SomebodyRebuilds, SleepersAreWoken, [Next]_vars
  PROVE  SleepersAreWoken'
<1> USE Domains DEF IInv, TypeOK, Numbering, Goto
<1>1. ASSUME deferRebuild \/ deferCancelRebuild PROVE NotificationAhead'
  BY <1>1 DEF deferRebuild, deferCancelRebuild, Request, NotificationAhead
<1>2. ASSUME NEW n \in Requests, DeferNotify(n) \/ GuardNotify(n) PROVE RebuildCond' = {}
  BY <1>2 DEF DeferNotify, GuardNotify, WakeAll
<1>3. ASSUME NEW n \in Requests, LeaveGuard(n) PROVE NotificationAhead'
  BY <1>3 DEF LeaveGuard, NotificationAhead
\* Whoever goes to sleep has to wait.
<1>4. ASSUME NEW n \in Requests, NEW w, WaitForRebuild(n, w) PROVE SleepersAreWoken'
  <2>1. NotificationAhead => NotificationAhead'
    BY <1>4 DEF WaitForRebuild, NotificationAhead
  <2>2. /\ RebuildInProgress' /\ \A m \in Requests : MustWait(m)' <=> MustWait(m)
        /\ RebuildCond' = RebuildCond \cup {n} /\ MustWait(n)
    BY <1>4 DEF WaitForRebuild, MustWait
  <2> QED BY <2>1, <2>2 DEF SleepersAreWoken, SomebodyRebuilds
\* The others neither take a notification away nor end a rebuild.
<1>5. ASSUME NEW n \in Requests,
             Discard(n) \/ SpuriousWakeup(n) \/ RebuildGuard(n) \/ FinishCancel(n)
             \/ PublishPreamble(n) \/ BuildAST(n) \/ PublishAST(n)
      PROVE  SleepersAreWoken'
  <2>1. /\ pc[n] \notin {"notify", "guardnotify"}
        /\ \A m \in Requests \ {n} : pc'[m] = pc[m]
        /\ RebuildCond' \subseteq RebuildCond /\ RebuildCounter' = RebuildCounter
        /\ RebuildInProgress => RebuildInProgress'
    BY <1>5 DEF Discard, SpuriousWakeup, RebuildGuard, FinishCancel, PublishPreamble,
                BuildAST, PublishAST
  <2>2. NotificationAhead => NotificationAhead'
    BY <2>1 DEF NotificationAhead
  <2>3. \A m \in RebuildCond : MustWait(m) => MustWait(m)' /\ RebuildInProgress'
    BY <2>1 DEF MustWait
  <2> QED BY <2>1, <2>2, <2>3 DEF SleepersAreWoken, SomebodyRebuilds
<1>6. ASSUME UNCHANGED vars PROVE SleepersAreWoken'
  BY <1>6 DEF vars, SleepersAreWoken, NotificationAhead, MustWait
<1>7. NotificationAhead' \/ RebuildCond' = {} => SleepersAreWoken'
  BY DEF SleepersAreWoken
<1> QED
  BY <1>1, <1>2, <1>3, <1>4, <1>5, <1>6, <1>7 DEF Next, Step, Quiescent

\* SleepersAreWoken: both critical sections that change what RebuildCond.wait looks
\* at are followed by a notify_all after the unlock, and in between no computation
\* can begin to wait in vain.
THEOREM SleepersWake == Spec => []SleepersAreWoken
<1>1. Init => SomebodyRebuilds /\ SleepersAreWoken
  BY DEF Init, SomebodyRebuilds, SleepersAreWoken
<1> QED
  BY <1>1, Invariance, SomebodyStep, SleepersStep, PTL DEF Spec
===============================================================================
