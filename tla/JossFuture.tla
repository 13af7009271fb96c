------------------------------- MODULE JossFuture -------------------------------
(***************************************************************************)
(* async, await and Future of the Joss language: the async and await       *)
(* builtins of pkg/core/builtins_async.go, Future.Wait and Future.Cancel   *)
(* of types.go, and the cancellation checks of execution_context.go.       *)
(*                                                                         *)
(* A root is a program's first goroutine.  A server request or a CLI run   *)
(* has no execution context; the mobile host runs its root under a         *)
(* context with a deadline and cancels it when the run is over.  Every     *)
(* task has a context of its own, derived from its creator's: it is done   *)
(* when its own cancel function or one of an ancestor was called.  What a  *)
(* task computes is left open; what is kept is how it ends and in which    *)
(* order its end is published.                                             *)
(***************************************************************************)
EXTENDS FiniteSets

CONSTANTS Tasks,     \* the Futures that may be created
          Roots,     \* goroutines no async call started
          Governed,  \* the roots that run under a host context
          Nobody     \* not an actor

ASSUME FutureAssumption ==
    /\ Tasks \cap Roots = {}
    /\ Governed \subseteq Roots
    /\ Nobody \notin Tasks \cup Roots

Actors == Tasks \cup Roots
Contexts == Tasks \cup Governed

VARIABLES
    pc,        \* [Actors -> Locations]
    anc,       \* [Actors -> SUBSET Contexts]  the contexts it is cancelled with
    creator,   \* [Tasks -> Actors \cup {Nobody}]  whose runtime was forked
    on,        \* [Actors -> Tasks \cup {Nobody}]  the Future it awaits
    panic,     \* [Tasks -> Outcomes]  the panic that leaves the body
    outcome,   \* [Tasks -> Outcomes]  Future.result and Future.err
    freed,     \* tasks whose forked runtime is back in the pool
    requested, \* contexts cancelled from outside: Future.Cancel, the host
    released   \* contexts cancelled by the deferred cancel() of their task

vars == <<pc, anc, creator, on, panic, outcome, freed, requested, released>>
cancelVars == <<requested, released>>
treeVars == <<anc, creator>>
futureVars == <<panic, outcome, freed>>

\* "ending" to "closing" are the steps of the task's deferred function.
Ending == {"ending", "settling", "freeing", "closing"}
Locations == {"unused", "running", "awaiting", "done"} \cup Ending
Outcomes == {"none", "value", "error", "cancelled"}

CancelledIn(x) == anc[x] \cap (requested \cup released) # {}
Created(t) == pc[t] # "unused"

Init ==
    /\ pc = [x \in Actors |-> IF x \in Roots THEN "running" ELSE "unused"]
    /\ anc = [x \in Actors |-> {x} \cap Governed]
    /\ creator = [t \in Tasks |-> Nobody]
    /\ on = [x \in Actors |-> Nobody]
    /\ panic = [t \in Tasks |-> "none"]
    /\ outcome = [t \in Tasks |-> "none"]
    /\ freed = {}
    /\ requested = {}
    /\ released = {}

-----------------------------------------------------------------------------
(* async and the end of the body.                                          *)

\* MUTANT: the child context hangs off context.Background().
DeriveFromBackground(a, t) == {t}
\* context.WithCancel(r.executionContext): done with the creator's contexts.
Derive(a, t) == anc[a] \cup {t}

\* async { ... }: fork the runtime, give it the derived context, start it.
Async(a, t) ==
    /\ pc[a] = "running"
    /\ pc[t] = "unused"
    /\ pc' = [pc EXCEPT ![t] = "running"]
    /\ anc' = [anc EXCEPT ![t] = Derive(a, t)]
    /\ creator' = [creator EXCEPT ![t] = a]
    /\ UNCHANGED <<on, futureVars, cancelVars>>

\* The body of a returns: future.result is assigned before the defer runs.
\* A root just stops.
Return(a) ==
    /\ pc[a] = "running"
    /\ pc' = [pc EXCEPT ![a] = IF a \in Tasks THEN "ending" ELSE "done"]
    /\ outcome' = [t \in Tasks |-> IF t = a THEN "value" ELSE outcome[t]]
    /\ UNCHANGED <<treeVars, on, panic, freed, cancelVars>>

\* A panic leaves the body of a.
Unwind(a, kind) ==
    /\ pc' = [pc EXCEPT ![a] = IF a \in Tasks THEN "ending" ELSE "done"]
    /\ panic' = [t \in Tasks |-> IF t = a THEN kind ELSE panic[t]]

\* throw, or a runtime error, that no try block of the body catches.
Throw(a) ==
    /\ pc[a] = "running"
    /\ Unwind(a, "error")
    /\ UNCHANGED <<treeVars, on, outcome, freed, cancelVars>>

\* The test of checkExecutionCancelled.
ContextDone(a) == CancelledIn(a)

\* checkExecutionCancelled at a block, statement or expression.  A catch
\* that swallows the panic only delays it: the next statement checks again.
Interrupt(a) ==
    /\ pc[a] = "running"
    /\ ContextDone(a)
    /\ Unwind(a, "cancelled")
    /\ UNCHANGED <<treeVars, on, outcome, freed, cancelVars>>

-----------------------------------------------------------------------------
(* await.                                                                  *)

\* Any Future can reach a: as a variable, a captured value or through a
\* channel, its own included.
Await(a, t) ==
    /\ pc[a] = "running"
    /\ Created(t)
    /\ pc' = [pc EXCEPT ![a] = "awaiting"]
    /\ on' = [on EXCEPT ![a] = t]
    /\ UNCHANGED <<treeVars, futureVars, cancelVars>>

\* MUTANT: await looks at the Future's fields instead of its done channel.
ResultWritten(t) == outcome[t] # "none"
\* <-future.done
IsDone(t) == pc[t] = "done"

\* future.Wait() returns the result.
AwaitValue(a) ==
    /\ pc[a] = "awaiting"
    /\ IsDone(on[a])
    /\ outcome[on[a]] = "value"
    /\ pc' = [pc EXCEPT ![a] = "running"]
    /\ on' = [on EXCEPT ![a] = Nobody]
    /\ UNCHANGED <<treeVars, futureVars, cancelVars>>

\* The await of a panics: a try block of the body catches it, or it unwinds.
AwaitPanics(a, kind) ==
    /\ \/ pc' = [pc EXCEPT ![a] = "running"] /\ UNCHANGED panic
       \/ Unwind(a, kind)
    /\ on' = [on EXCEPT ![a] = Nobody]
    /\ UNCHANGED <<treeVars, outcome, freed, cancelVars>>

\* future.Wait() panics with the error of the task.
AwaitError(a) ==
    /\ pc[a] = "awaiting"
    /\ IsDone(on[a])
    /\ outcome[on[a]] \in {"error", "cancelled"}
    /\ AwaitPanics(a, outcome[on[a]])

\* MUTANT: the await of a task is not released by its execution context.
AwaitIgnoresContext(a) == FALSE
\* The execution context ends the await, whatever it waits for.
AwaitCancelled(a) ==
    /\ pc[a] = "awaiting"
    /\ ContextDone(a)
    /\ AwaitPanics(a, "cancelled")

-----------------------------------------------------------------------------
(* The deferred function of a task, in its order.                          *)

\* cancel()
DeferCancel(t) ==
    /\ pc[t] = "ending"
    /\ pc' = [pc EXCEPT ![t] = "settling"]
    /\ released' = released \cup {t}
    /\ UNCHANGED <<treeVars, on, futureVars, requested>>

\* recover(): a panic becomes the error of the Future.
Settle(t) ==
    /\ pc[t] = "settling"
    /\ outcome' = [outcome EXCEPT ![t] = IF panic[t] = "none" THEN @ ELSE panic[t]]
    /\ pc' = [pc EXCEPT ![t] = "freeing"]
    /\ UNCHANGED <<treeVars, on, panic, freed, cancelVars>>

\* newR.Free()
FreeRuntime(t) ==
    /\ pc[t] = "freeing"
    /\ freed' = freed \cup {t}
    /\ pc' = [pc EXCEPT ![t] = "closing"]
    /\ UNCHANGED <<treeVars, on, panic, outcome, cancelVars>>

\* close(future.done)
CloseDone(t) ==
    /\ pc[t] = "closing"
    /\ pc' = [pc EXCEPT ![t] = "done"]
    /\ UNCHANGED <<treeVars, on, futureVars, cancelVars>>

-----------------------------------------------------------------------------
(* Cancellation from outside.                                              *)

\* Future.Cancel, called by the host program, at any time.
Cancel(t) ==
    /\ Created(t)
    /\ requested' = requested \cup {t}
    /\ UNCHANGED <<pc, treeVars, on, futureVars, released>>

\* The deadline of the host context passes.
Deadline(g) ==
    /\ pc[g] # "done"
    /\ requested' = requested \cup {g}
    /\ UNCHANGED <<pc, treeVars, on, futureVars, released>>

\* The host's deferred cancel(), once the run is over.
HostReturns(g) ==
    /\ pc[g] = "done"
    /\ released' = released \cup {g}
    /\ UNCHANGED <<pc, treeVars, on, futureVars, requested>>

-----------------------------------------------------------------------------

DeferredSteps(t) == DeferCancel(t) \/ Settle(t) \/ FreeRuntime(t) \/ CloseDone(t)
AwaitEnds(a) == AwaitValue(a) \/ AwaitError(a) \/ AwaitCancelled(a)

Next ==
    \/ \E a \in Actors :
          \/ \E t \in Tasks : Async(a, t) \/ Await(a, t)
          \/ Return(a) \/ Throw(a) \/ Interrupt(a) \/ AwaitEnds(a)
    \/ \E t \in Tasks : DeferredSteps(t) \/ Cancel(t)
    \/ \E g \in Governed : Deadline(g) \/ HostReturns(g)

\* Goroutines are scheduled fairly and the host's deferred cancel runs.  Every
\* block, statement and expression begins with the check, so a body that goes
\* on executing, awaits included, meets it: strong fairness of Interrupt.
\* That a body ends by itself, or that somebody calls Cancel, is not assumed.
Fairness ==
    /\ \A a \in Actors : SF_vars(Interrupt(a)) /\ WF_vars(AwaitEnds(a))
    /\ \A t \in Tasks : WF_vars(DeferredSteps(t))
    /\ \A g \in Governed : WF_vars(HostReturns(g))

Spec == Init /\ [][Next]_vars
LiveSpec == Spec /\ Fairness

-----------------------------------------------------------------------------
(* Properties.                                                             *)

\* Every variable keeps its type, and who awaits awaits a Future.
TypeOK ==
    /\ pc \in [Actors -> Locations]
    /\ anc \in [Actors -> SUBSET Contexts]
    /\ creator \in [Tasks -> Actors \cup {Nobody}]
    /\ on \in [Actors -> Tasks \cup {Nobody}]
    /\ panic \in [Tasks -> Outcomes]
    /\ outcome \in [Tasks -> Outcomes]
    /\ freed \subseteq Tasks
    /\ requested \subseteq Contexts
    /\ released \subseteq Contexts
    /\ \A a \in Actors : pc[a] = "awaiting" => on[a] \in Tasks

\* Whoever is released by future.done finds the result or the error written,
\* the forked runtime back in the pool and the context cancelled: the close
\* is the last thing the deferred function of builtins_async.go does.
DonePublishes ==
    \A t \in Tasks : pc[t] = "done" =>
        outcome[t] # "none" /\ t \in freed /\ t \in released

\* A task that has run its deferred cancel leaves no descendant running free:
\* every task created from its runtime, or from one of theirs, is cancelled,
\* also one created by a descendant after that.
NoFreeDescendants ==
    \A t, u \in Tasks :
        pc[t] \in {"settling", "freeing", "closing", "done"} /\ creator[u] = t
            => CancelledIn(u)

\* A body is cancelled only for a reason outside it: some task was cancelled
\* by the host or lost an ancestor that ended.  A task's own deferred cancel
\* never shows up as its outcome.
Cause == \E u \in Tasks : \/ anc[u] \cap requested # {}
                          \/ (anc[u] \ {u}) \cap released # {}
CancelHasCause ==
    \A t \in Tasks : "cancelled" \in {panic[t], outcome[t]} => Cause

\* Cancellation goes down the tree of tasks and nowhere else: it reaches every
\* descendant of a task that ended, and nobody whom it does not come from above.
CancelIsInherited == NoFreeDescendants /\ CancelHasCause

\* An await that its context does not end returns only after the task is
\* completely over, and every await of that Future finds the same outcome.
Delivers ==
    /\ \A a \in Actors : pc[a] = "awaiting" /\ pc'[a] # "awaiting" =>
          CancelledIn(a) \/ pc[on[a]] = "done"
    /\ \A t \in Tasks : pc[t] = "done" =>
          pc'[t] = "done" /\ outcome'[t] = outcome[t]
AwaitDelivers == [][Delivers]_vars

\* A cancelled task ends, wherever it stands: looping, awaiting a task that
\* never ends, or in a cycle of tasks that await one another.
CancelEndsTask ==
    \A t \in Tasks : (Created(t) /\ CancelledIn(t)) ~> (pc[t] = "done")

\* When the root of a mobile run ends, everything it started ends.
RunLeavesNothing ==
    \A g \in Governed : (pc[g] = "done") ~>
        (\A t \in Tasks : g \in anc[t] => pc[t] = "done")

\* An await returns when its Future is done.
AwaitReturns ==
    \A a \in Actors, t \in Tasks :
        (pc[a] = "awaiting" /\ on[a] = t /\ pc[t] = "done") ~> (pc[a] # "awaiting")

\* Nothing outlives what it belongs to: a cancelled task ends, a finished run
\* leaves no task behind, and no await outlasts the task it waits for.
TasksEnd == CancelEndsTask /\ RunLeavesNothing /\ AwaitReturns
================================================================================
