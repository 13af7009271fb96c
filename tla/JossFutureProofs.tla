---------------------------- MODULE JossFutureProofs ----------------------------
(***************************************************************************)
(* For any number of tasks and roots: JossFuture is type correct, a done   *)
(* Future is completely published and final, no descendant of an ended     *)
(* task runs with a live context, and no body is cancelled without cause.  *)
(***************************************************************************)
EXTENDS JossFuture, TLAPS

--------------------------------------------------------------------------------
(* The inductive invariant.                                                *)

\* The deferred cancel has run exactly in the tasks that are past it.
Cancelling == {"settling", "freeing", "closing", "done"}

\* What each step of the deferred function leaves behind.
Published ==
    \A t \in Tasks :
       /\ t \in released <=> pc[t] \in Cancelling
       /\ pc[t] \in Ending \cup {"done"} => panic[t] # "none" \/ outcome[t] # "none"
       /\ pc[t] \in {"freeing", "closing", "done"} => outcome[t] # "none"
       /\ pc[t] \in {"closing", "done"} => t \in freed

\* Contexts are derived along the tree of creators.
Derived ==
    /\ \A t \in Tasks : IF pc[t] = "unused" THEN anc[t] = {} /\ creator[t] = Nobody
                                            ELSE t \in anc[t]
    /\ \A t, u \in Tasks : creator[u] = t => t \in anc[u]

Inv == TypeOK /\ Published /\ Derived /\ CancelHasCause

--------------------------------------------------------------------------------

\* Every step keeps the types.
LEMMA TypeStep == TypeOK /\ [Next]_vars => TypeOK'
<1> SUFFICES ASSUME TypeOK, [Next]_vars PROVE TypeOK'
  OBVIOUS
<1> USE DEF TypeOK, Locations, Ending, Outcomes, treeVars, futureVars, cancelVars
<1>1. ASSUME NEW a \in Actors, NEW t \in Tasks, Async(a, t) PROVE TypeOK'
  BY <1>1 DEF Async, Derive, Contexts
<1>2. ASSUME NEW a \in Actors, NEW t \in Tasks, Await(a, t) PROVE TypeOK'
  BY <1>2 DEF Await
<1>3. ASSUME NEW a \in Actors, Return(a) PROVE TypeOK'
  BY <1>3 DEF Return
<1>4. ASSUME NEW a \in Actors, Throw(a) PROVE TypeOK'
  BY <1>4 DEF Throw, Unwind
<1>5. ASSUME NEW a \in Actors, Interrupt(a) PROVE TypeOK'
  BY <1>5 DEF Interrupt, Unwind
<1>6. ASSUME NEW a \in Actors, AwaitEnds(a) PROVE TypeOK'
  <2>1. CASE AwaitValue(a)
    BY <2>1 DEF AwaitValue
  <2>2. CASE AwaitError(a)
    BY <2>2 DEF AwaitError, AwaitPanics, Unwind
  <2>3. CASE AwaitCancelled(a)
    BY <2>3 DEF AwaitCancelled, AwaitPanics, Unwind
  <2>4. QED BY <1>6, <2>1, <2>2, <2>3 DEF AwaitEnds
<1>7. ASSUME NEW t \in Tasks, DeferredSteps(t) PROVE TypeOK'
  BY <1>7 DEF DeferredSteps, DeferCancel, Settle, FreeRuntime, CloseDone, Actors, Contexts
<1>8. ASSUME NEW t \in Tasks, Cancel(t) PROVE TypeOK'
  BY <1>8 DEF Cancel, Contexts
<1>9. ASSUME NEW g \in Governed, Deadline(g) \/ HostReturns(g) PROVE TypeOK'
  BY <1>9 DEF Deadline, HostReturns, Contexts
<1>10. CASE UNCHANGED vars
  BY <1>10 DEF vars
<1>11. QED BY <1>1, <1>2, <1>3, <1>4, <1>5, <1>6, <1>7, <1>8, <1>9, <1>10 DEF Next

\* The deferred function keeps its order.
LEMMA PublishedStep == TypeOK /\ Published /\ [Next]_vars => Published'
<1> SUFFICES ASSUME TypeOK, Published, [Next]_vars PROVE Published'
  OBVIOUS
<1> USE FutureAssumption
       DEF Published, Cancelling, Outcomes, TypeOK, Actors, Contexts, Locations, Ending,
           treeVars, futureVars, cancelVars
<1>1. ASSUME NEW a \in Actors, NEW t \in Tasks, Async(a, t) PROVE Published'
  BY <1>1 DEF Async, Derive
<1>2. ASSUME NEW a \in Actors, NEW t \in Tasks, Await(a, t) PROVE Published'
  BY <1>2 DEF Await
<1>3. ASSUME NEW a \in Actors, Return(a) PROVE Published'
  BY <1>3 DEF Return
<1>4. ASSUME NEW a \in Actors, Throw(a) PROVE Published'
  BY <1>4 DEF Throw, Unwind
<1>5. ASSUME NEW a \in Actors, Interrupt(a) PROVE Published'
  BY <1>5 DEF Interrupt, Unwind
<1>6. ASSUME NEW a \in Actors, AwaitValue(a) PROVE Published'
  BY <1>6 DEF AwaitValue
<1>7. ASSUME NEW a \in Actors, AwaitError(a) PROVE Published'
  BY <1>7 DEF AwaitError, AwaitPanics, Unwind
<1>8. ASSUME NEW a \in Actors, AwaitCancelled(a) PROVE Published'
  BY <1>8 DEF AwaitCancelled, AwaitPanics, Unwind
<1>9. ASSUME NEW t \in Tasks, DeferCancel(t) PROVE Published'
  BY <1>9 DEF DeferCancel
<1>10. ASSUME NEW t \in Tasks, Settle(t) PROVE Published'
  BY <1>10 DEF Settle
<1>11. ASSUME NEW t \in Tasks, FreeRuntime(t) PROVE Published'
  BY <1>11 DEF FreeRuntime
<1>12. ASSUME NEW t \in Tasks, CloseDone(t) PROVE Published'
  BY <1>12 DEF CloseDone
<1>13. ASSUME NEW t \in Tasks, Cancel(t) PROVE Published'
  BY <1>13 DEF Cancel
<1>14. ASSUME NEW g \in Governed, Deadline(g) PROVE Published'
  BY <1>14 DEF Deadline
<1>15. ASSUME NEW g \in Governed, HostReturns(g) PROVE Published'
  BY <1>15 DEF HostReturns
<1>16. CASE UNCHANGED vars
  BY <1>16 DEF vars
<1>17. QED BY <1>1, <1>2, <1>3, <1>4, <1>5, <1>6, <1>7, <1>8, <1>9, <1>10,
           <1>11, <1>12, <1>13, <1>14, <1>15, <1>16
     DEF Next, AwaitEnds, DeferredSteps

\* Contexts stay derived along the tree.
LEMMA DerivedStep == TypeOK /\ Derived /\ [Next]_vars => Derived'
<1> SUFFICES ASSUME TypeOK, Derived, [Next]_vars PROVE Derived'
  OBVIOUS
<1> USE FutureAssumption
       DEF Derived, Created, TypeOK, Actors, Contexts, Locations, Ending, treeVars, futureVars, cancelVars
<1>1. ASSUME NEW a \in Actors, NEW t \in Tasks, Async(a, t) PROVE Derived'
  BY <1>1 DEF Async, Derive
<1>2. ASSUME NEW a \in Actors, NEW t \in Tasks, Await(a, t) PROVE Derived'
  BY <1>2 DEF Await
<1>3. ASSUME NEW a \in Actors, Return(a) PROVE Derived'
  BY <1>3 DEF Return
<1>4. ASSUME NEW a \in Actors, Throw(a) PROVE Derived'
  BY <1>4 DEF Throw, Unwind
<1>5. ASSUME NEW a \in Actors, Interrupt(a) PROVE Derived'
  BY <1>5 DEF Interrupt, Unwind
<1>6. ASSUME NEW a \in Actors, AwaitValue(a) PROVE Derived'
  BY <1>6 DEF AwaitValue
<1>7. ASSUME NEW a \in Actors, AwaitError(a) PROVE Derived'
  BY <1>7 DEF AwaitError, AwaitPanics, Unwind
<1>8. ASSUME NEW a \in Actors, AwaitCancelled(a) PROVE Derived'
  BY <1>8 DEF AwaitCancelled, AwaitPanics, Unwind
<1>9. ASSUME NEW t \in Tasks, DeferCancel(t) PROVE Derived'
  BY <1>9 DEF DeferCancel
<1>10. ASSUME NEW t \in Tasks, Settle(t) PROVE Derived'
  BY <1>10 DEF Settle
<1>11. ASSUME NEW t \in Tasks, FreeRuntime(t) PROVE Derived'
  BY <1>11 DEF FreeRuntime
<1>12. ASSUME NEW t \in Tasks, CloseDone(t) PROVE Derived'
  BY <1>12 DEF CloseDone
<1>13. ASSUME NEW t \in Tasks, Cancel(t) PROVE Derived'
  BY <1>13 DEF Cancel
<1>14. ASSUME NEW g \in Governed, Deadline(g) PROVE Derived'
  BY <1>14 DEF Deadline
<1>15. ASSUME NEW g \in Governed, HostReturns(g) PROVE Derived'
  BY <1>15 DEF HostReturns
<1>16. CASE UNCHANGED vars
  BY <1>16 DEF vars
<1>17. QED BY <1>1, <1>2, <1>3, <1>4, <1>5, <1>6, <1>7, <1>8, <1>9, <1>10,
           <1>11, <1>12, <1>13, <1>14, <1>15, <1>16
     DEF Next, AwaitEnds, DeferredSteps

\* A cause never goes away: the contexts of a created task stay the same, and
\* cancelled contexts stay cancelled.
LEMMA CauseStays == TypeOK /\ Derived /\ Cause /\ [Next]_vars => Cause'
<1> SUFFICES ASSUME TypeOK, Derived, Cause, [Next]_vars PROVE Cause'
  OBVIOUS
<1>1. requested \subseteq requested' /\ released \subseteq released'
  <2> USE DEF cancelVars
  <2>1. CASE UNCHANGED vars
    BY <2>1 DEF vars
  <2>2. CASE Next
    BY <2>2 DEF Next, AwaitEnds, DeferredSteps, Async, Await, Return, Throw, Interrupt,
       AwaitValue, AwaitError, AwaitCancelled, AwaitPanics, DeferCancel, Settle,
       FreeRuntime, CloseDone, Cancel, Deadline, HostReturns
  <2>3. QED BY <2>1, <2>2
<1>2. \A u \in Tasks : anc[u] # {} => anc'[u] = anc[u]
  <2> USE DEF treeVars
  <2>1. CASE UNCHANGED vars
    BY <2>1 DEF vars
  <2>2. ASSUME NEW a \in Actors, NEW t \in Tasks, Async(a, t)
        PROVE  \A u \in Tasks : anc[u] # {} => anc'[u] = anc[u]
    <3>1. anc[t] = {}
      BY <2>2 DEF Async, Derived
    <3>2. QED BY <2>2, <3>1 DEF Async, TypeOK
  <2>3. CASE anc' = anc
    BY <2>3
  <2>4. QED
    BY <2>1, <2>2, <2>3 DEF Next, AwaitEnds, DeferredSteps, Await, Return, Throw, Interrupt,
       AwaitValue, AwaitError, AwaitCancelled, AwaitPanics, DeferCancel, Settle,
       FreeRuntime, CloseDone, Cancel, Deadline, HostReturns
<1>3. QED BY <1>1, <1>2 DEF Cause

\* A running or waiting task whose context is done was not cancelled by itself.
LEMMA OutsideCause ==
    ASSUME Published, NEW t \in Tasks, pc[t] \in {"running", "awaiting"}, ContextDone(t)
    PROVE  Cause
  BY DEF Published, Cancelling, ContextDone, CancelledIn, Cause

\* Only a cancelled body, or the await of a cancelled Future, ends cancelled.
LEMMA CauseStep ==
    TypeOK /\ Published /\ Derived /\ CancelHasCause /\ [Next]_vars => CancelHasCause'
<1> SUFFICES ASSUME TypeOK, Published, Derived, CancelHasCause, [Next]_vars,
                    NEW t \in Tasks, "cancelled" \in {panic'[t], outcome'[t]}
             PROVE  Cause'
  BY DEF CancelHasCause
<1>1. CASE "cancelled" \in {panic[t], outcome[t]}
  BY <1>1, CauseStays DEF CancelHasCause
<1>2. CASE "cancelled" \notin {panic[t], outcome[t]}
  <2> USE <1>2 DEF treeVars, futureVars, cancelVars, TypeOK, Actors
  <2>1. Cause
    <3>1. ASSUME NEW a \in Actors, Interrupt(a) PROVE Cause
      BY <3>1, OutsideCause DEF Interrupt, Unwind
    <3>2. ASSUME NEW a \in Actors, AwaitError(a) PROVE Cause
      BY <3>2 DEF AwaitError, AwaitPanics, Unwind, CancelHasCause
    <3>3. ASSUME NEW a \in Actors, AwaitCancelled(a) PROVE Cause
      BY <3>3, OutsideCause DEF AwaitCancelled, AwaitPanics, Unwind
    <3>4. ASSUME NEW a \in Actors, Return(a) PROVE FALSE
      BY <3>4 DEF Return
    <3>5. ASSUME NEW a \in Actors, Throw(a) PROVE FALSE
      BY <3>5 DEF Throw, Unwind
    <3>6. ASSUME NEW u \in Tasks, Settle(u) PROVE FALSE
      BY <3>6 DEF Settle
    <3>7. CASE UNCHANGED <<panic, outcome>>
      BY <3>7
    <3>8. CASE UNCHANGED vars
      BY <3>8 DEF vars
    <3>9. QED
      BY <3>1, <3>2, <3>3, <3>4, <3>5, <3>6, <3>7, <3>8
         DEF Next, AwaitEnds, DeferredSteps, Async, Await, AwaitValue, DeferCancel,
             FreeRuntime, CloseDone, Cancel, Deadline, HostReturns
  <2>2. QED BY <2>1, CauseStays
<1>3. QED BY <1>1, <1>2

--------------------------------------------------------------------------------
(* The theorems.                                                           *)

\* The inductive invariant holds in every reachable state.
THEOREM Inductive == Spec => []Inv
<1>1. Init => Inv
  BY FutureAssumption DEF Init, Inv, TypeOK, Published, Cancelling, Derived,
     CancelHasCause, Actors, Contexts, Locations, Ending, Outcomes
<1>2. Inv /\ [Next]_vars => Inv'
  BY TypeStep, PublishedStep, DerivedStep, CauseStep DEF Inv
<1>3. QED BY <1>1, <1>2, PTL DEF Spec

\* The types hold.
THEOREM TypeCorrect == Spec => []TypeOK
<1>1. Inv => TypeOK
  BY DEF Inv
<1>2. QED BY <1>1, Inductive, PTL

\* A done Future has its outcome, its runtime is freed, its context cancelled.
THEOREM PublishedWhenDone == Spec => []DonePublishes
<1>1. Inv => DonePublishes
  BY DEF Inv, Published, DonePublishes, Cancelling
<1>2. QED BY <1>1, Inductive, PTL

\* No task created by an ended task has a live context.
THEOREM DescendantsCancelled == Spec => []NoFreeDescendants
<1>1. Inv => NoFreeDescendants
  BY DEF Inv, Published, Derived, NoFreeDescendants, CancelledIn, Cancelling
<1>2. QED BY <1>1, Inductive, PTL

\* Every cancelled outcome has a cause outside the body it ended.
THEOREM CancelledForACause == Spec => []CancelHasCause
<1>1. Inv => CancelHasCause
  BY DEF Inv
<1>2. QED BY <1>1, Inductive, PTL

\* An await not ended by its context returns the final outcome of its task.
THEOREM AwaitsDeliver == Spec => AwaitDelivers
<1>1. Inv /\ [Next]_vars => Delivers
  <2> SUFFICES ASSUME Inv, [Next]_vars PROVE Delivers
    OBVIOUS
  <2> USE DEF Delivers, Inv, TypeOK, Actors, treeVars, futureVars, cancelVars
  <2>1. CASE UNCHANGED vars
    BY <2>1 DEF vars
  <2>2. ASSUME NEW a \in Actors, NEW t \in Tasks, Async(a, t) \/ Await(a, t) PROVE Delivers
    BY <2>2 DEF Async, Await
  <2>3. ASSUME NEW a \in Actors, Return(a) \/ Throw(a) \/ Interrupt(a) PROVE Delivers
    BY <2>3 DEF Return, Throw, Interrupt, Unwind
  <2>4. ASSUME NEW a \in Actors, AwaitEnds(a) PROVE Delivers
    BY <2>4 DEF AwaitEnds, AwaitValue, AwaitError, AwaitCancelled, AwaitPanics, Unwind,
       IsDone, ContextDone
  <2>5. ASSUME NEW t \in Tasks, DeferredSteps(t) PROVE Delivers
    BY <2>5 DEF DeferredSteps, DeferCancel, Settle, FreeRuntime, CloseDone
  <2>6. ASSUME NEW t \in Tasks, Cancel(t) PROVE Delivers
    BY <2>6 DEF Cancel
  <2>7. ASSUME NEW g \in Governed, Deadline(g) \/ HostReturns(g) PROVE Delivers
    BY <2>7 DEF Deadline, HostReturns
  <2>8. QED BY <2>1, <2>2, <2>3, <2>4, <2>5, <2>6, <2>7 DEF Next
<1>2. QED BY <1>1, Inductive, PTL DEF AwaitDelivers, Spec

\* Cancellation reaches every descendant of an ended task, and a cancelled
\* outcome always comes from above (async, await, Future.Cancel).
THEOREM CancellationIsInherited == Spec => []CancelIsInherited
<1>1. NoFreeDescendants /\ CancelHasCause => CancelIsInherited
  BY DEF CancelIsInherited
<1>2. QED BY <1>1, DescendantsCancelled, CancelledForACause, PTL

================================================================================
