------------------------------ MODULE JossGenerator ------------------------------
(***************************************************************************)
(* Generator functions of the Joss language: pkg/core/generator.go, the    *)
(* goroutine that call_method.go starts for a function with a yield, and   *)
(* the foreach over a generator in executor.go.                            *)
(*                                                                         *)
(* The body runs in a goroutine and a forked runtime of its own and hands  *)
(* its items over an unbuffered channel.  One Generator may be used by     *)
(* several goroutines: a forked runtime copies the variable, not the       *)
(* object.  A segment is what the body executes between two yields.        *)
(***************************************************************************)
EXTENDS Naturals

CONSTANTS Consumers,   \* goroutines that hold the Generator
          MaxYields,   \* bound: yields of the body
          MaxRequests  \* bound: next() calls and foreach steps

ASSUME GeneratorAssumption ==
    /\ MaxYields \in Nat
    /\ MaxRequests \in Nat

VARIABLES
    body,       \* where the body's goroutine stands
    yields,     \* items the body has offered so far
    delivered,  \* items a consumer has taken
    itemsClosed,\* close(generator.items)
    doneClosed, \* close(generator.done)
    freed,      \* the forked runtime went back to the pool
    at,         \* [Consumers -> Locations]
    requests,   \* receives consumers have begun
    valid,      \* Generator.valid
    looped      \* history: consumers that have run a foreach over it

bodyVars == <<body, yields, freed>>
chanVars == <<itemsClosed, doneClosed>>
userVars == <<at, requests, valid, looped>>
generatorVars == <<bodyVars, chanVars, delivered, userVars>>

BodyLocations == {"uncalled", "running", "yielding", "unwound", "freed", "ended"}
Locations == {"idle", "next", "select", "iterating", "check", "close", "panicked"}

GeneratorInit ==
    /\ body = "uncalled"
    /\ yields = 0
    /\ delivered = 0
    /\ itemsClosed = FALSE
    /\ doneClosed = FALSE
    /\ freed = FALSE
    /\ at = [c \in Consumers |-> "idle"]
    /\ requests = 0
    /\ valid = FALSE
    /\ looped = {}

Moves(c, l) == at' = [at EXCEPT ![c] = l]
RequestItem == /\ requests < MaxRequests
               /\ requests' = requests + 1

-----------------------------------------------------------------------------
(* The body's goroutine.                                                   *)

\* Calling the generator function starts the goroutine and returns.
Called ==
    /\ body = "uncalled"
    /\ body' = "running"
    /\ UNCHANGED <<yields, freed, chanVars, delivered, userVars>>

\* evaluateYield computes the item and enters its select.
Yield ==
    /\ body = "running"
    /\ yields < MaxYields
    /\ body' = "yielding"
    /\ yields' = yields + 1
    /\ UNCHANGED <<freed, chanVars, delivered, userVars>>

\* The body returns, or a panic leaves it, a throw or the cancellation of the
\* context the fork inherited: the deferred recover() drops it.
BodyEnds ==
    /\ body = "running"
    /\ body' = "unwound"
    /\ UNCHANGED <<yields, freed, chanVars, delivered, userVars>>

\* MUTANT: the yield has a default: the item is dropped when nobody waits.
YieldDrops ==
    /\ body = "yielding"
    /\ body' = "running"
    /\ UNCHANGED <<yields, freed, chanVars, delivered, userVars>>
\* The select of evaluateYield takes done: BreakPanic unwinds the body.
Stop ==
    /\ body = "yielding"
    /\ doneClosed
    /\ body' = "unwound"
    /\ UNCHANGED <<yields, freed, chanVars, delivered, userVars>>

\* forked.Free()
Free ==
    /\ body = "unwound"
    /\ body' = "freed"
    /\ freed' = TRUE
    /\ UNCHANGED <<yields, chanVars, delivered, userVars>>

\* MUTANT: only a body that returned closes items.
CloseItemsUnlessStopped ==
    /\ body = "freed"
    /\ body' = "ended"
    /\ itemsClosed' = ~doneClosed
    /\ UNCHANGED <<yields, freed, doneClosed, delivered, userVars>>
\* close(generator.items)
CloseItems ==
    /\ body = "freed"
    /\ body' = "ended"
    /\ itemsClosed' = TRUE
    /\ UNCHANGED <<yields, freed, doneClosed, delivered, userVars>>

-----------------------------------------------------------------------------
(* The consumers.                                                          *)

\* The item goes from the yielding body to a consumer in <-items, and the
\* body runs on without waiting for the next request.
HandOver(c) ==
    /\ body = "yielding"
    /\ at[c] \in {"next", "select"}
    /\ body' = "running"
    /\ delivered' = delivered + 1
    /\ Moves(c, IF at[c] = "next" THEN "idle" ELSE "iterating")
    /\ valid' = (valid \/ at[c] = "next")
    /\ UNCHANGED <<yields, freed, chanVars, requests, looped>>

\* $gen->next(): a plain receive; it watches neither done nor the context.
GenNext(c) ==
    /\ body # "uncalled"
    /\ at[c] = "idle"
    /\ RequestItem
    /\ Moves(c, "next")
    /\ UNCHANGED <<bodyVars, chanVars, delivered, valid, looped>>

\* The receive of next() finds items closed.
NextEnded(c) ==
    /\ at[c] = "next"
    /\ itemsClosed
    /\ Moves(c, "idle")
    /\ valid' = FALSE
    /\ UNCHANGED <<bodyVars, chanVars, delivered, requests, looped>>

\* foreach enters its select, for the first item or the next one.
Foreach(c) ==
    /\ body # "uncalled"
    /\ at[c] \in {"idle", "iterating"}
    /\ RequestItem
    /\ Moves(c, "select")
    /\ looped' = looped \cup {c}
    /\ UNCHANGED <<bodyVars, chanVars, delivered, valid>>

\* items or done is closed, or the iteration breaks, returns or panics: the
\* deferred gen.Close() runs.
Leave(c) ==
    /\ \/ at[c] = "select" /\ (itemsClosed \/ doneClosed)
       \/ at[c] = "iterating"
    /\ Moves(c, "check")
    /\ UNCHANGED <<bodyVars, chanVars, delivered, requests, valid, looped>>

\* MUTANT: Close does not look at done first.
CloseUnchecked(c) ==
    /\ at[c] = "check"
    /\ Moves(c, "close")
    /\ UNCHANGED <<bodyVars, chanVars, delivered, requests, valid, looped>>
\* Close: the select finds done closed, or takes the default.
CheckDone(c) ==
    /\ at[c] = "check"
    /\ Moves(c, IF doneClosed THEN "idle" ELSE "close")
    /\ UNCHANGED <<bodyVars, chanVars, delivered, requests, valid, looped>>

\* close(g.done); Go panics when another goroutine closed it in between.
CloseDone(c) ==
    /\ at[c] = "close"
    /\ doneClosed' = TRUE
    /\ Moves(c, IF doneClosed THEN "panicked" ELSE "idle")
    /\ UNCHANGED <<bodyVars, itemsClosed, delivered, requests, valid, looped>>

-----------------------------------------------------------------------------

BodySteps == Yield \/ BodyEnds \/ Stop \/ Free \/ CloseItems
LoopExit(c) == (at[c] = "select" /\ Leave(c)) \/ CheckDone(c) \/ CloseDone(c)
Handed == \E c \in Consumers : HandOver(c)

GeneratorNext ==
    \/ Called \/ BodySteps
    \/ \E c \in Consumers : \/ HandOver(c) \/ GenNext(c) \/ NextEnded(c)
                            \/ Foreach(c) \/ Leave(c) \/ CheckDone(c) \/ CloseDone(c)

\* The goroutine of the body is scheduled fairly and its segments end; so are
\* the consumers inside next(), Close() and the select of a foreach.
GeneratorFairness ==
    /\ WF_generatorVars(BodySteps)
    /\ WF_generatorVars(Handed)
    /\ \A c \in Consumers : WF_generatorVars(NextEnded(c)) /\ WF_generatorVars(LoopExit(c))

GeneratorSpec == GeneratorInit /\ [][GeneratorNext]_generatorVars
GeneratorLiveSpec == GeneratorSpec /\ GeneratorFairness

-----------------------------------------------------------------------------
(* Properties.                                                             *)

\* Every variable keeps its type and its bound.
GeneratorTypeOK ==
    /\ body \in BodyLocations
    /\ yields \in 0..MaxYields
    /\ delivered \in 0..yields
    /\ itemsClosed \in BOOLEAN /\ doneClosed \in BOOLEAN
    /\ freed \in BOOLEAN /\ valid \in BOOLEAN
    /\ at \in [Consumers -> Locations]
    /\ requests \in 0..MaxRequests
    /\ looped \subseteq Consumers

\* A consumer learns that the generator is over (items closed) only after its
\* runtime was freed: the order of the deferred function in call_method.go.
FreedBeforeEnd == itemsClosed => freed

\* The items arrive once each and in order, so counting them is enough: while
\* nobody closed the generator no item is lost, and then at most the one the
\* body was offering.
NothingLost ==
    /\ body \in {"unwound", "freed", "ended"} /\ ~doneClosed => delivered = yields
    /\ yields - delivered <= 1

\* The end that a consumer sees is the end: nothing is missing and the fork is
\* back in the pool.
EndIsFinal == NothingLost /\ FreedBeforeEnd

\* The check and the close of Generator.Close are two steps.  done is closed
\* twice only when two goroutines have looped over the generator: one that
\* loops alone never does, however often it loops and whoever calls next().
ClosesOnce ==
    \A c \in Consumers : at[c] = "panicked" => \E d \in looped : d # c

\* Leaving a foreach early ends the body and gives its runtime back.
StoppedBodyEnds == doneClosed ~> freed

\* next() does not watch done; it is released all the same, because the body
\* that finds done closed closes items.
NextReleased ==
    \A c \in Consumers : (at[c] = "next" /\ doneClosed) ~> (at[c] # "next")

\* A foreach ends when the generator does.
LoopsEnd ==
    \A c \in Consumers :
        (at[c] = "select" /\ body = "ended") ~> (at[c] \in {"idle", "panicked"})

\* A generator that is left or that ends takes everybody with it: its goroutine
\* and fork, the callers of next() and the loops.
GeneratorEnds == StoppedBodyEnds /\ NextReleased /\ LoopsEnd
================================================================================
