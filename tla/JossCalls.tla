-------------------------------- MODULE JossCalls --------------------------------
(***************************************************************************)
(* Calls, returns, exceptions, deferred blocks and cancellation in the     *)
(* interpreter: callMethodEvaluatedWithPlan of core/call_method.go, and    *)
(* Execute, executeBlock, executeDefer, executeReturn, executeTryCatch and *)
(* executeThrow of core/executor.go.                                       *)
(*                                                                         *)
(* stack is the Go stack of the interpreter: one entry for each block      *)
(* under execution and for each deferred closure of callMethod.  A program *)
(* is any sequence of statements; only deferred blocks have a length.      *)
(***************************************************************************)
EXTENDS Naturals, Sequences, FiniteSets

CONSTANTS Frames,      \* the executionFrame objects of the pool
          File,        \* stands for the frame of top-level code (currentFrame = nil)
          MaxCallDepth,\* Runtime.MaxCallDepth
          Sizes,       \* statements a deferred block may have
          MaxDefers,   \* bound: deferred blocks registered at a time
          MaxTries,    \* bound: try and catch blocks under execution
          HasContext   \* the execution has a context that can be cancelled

ASSUME CallsAssumption ==
    /\ File \notin Frames
    /\ MaxCallDepth \in Nat /\ MaxDefers \in Nat /\ MaxTries \in Nat
    /\ Sizes \subseteq Nat \ {0}
    /\ HasContext \in BOOLEAN

VARIABLES
    stack,    \* sequence of entries
    current,  \* Runtime.currentFrame
    depth,    \* Runtime.callDepth
    returned, \* [Scopes -> BOOLEAN]  executionFrame.hasReturn, topHasReturn
    defers,   \* [Scopes -> Seq(Sizes)]  executionFrame.defers, topDefers
    panic,    \* the panic that unwinds the stack, or "none"
    done,     \* the execution context is done
    begun,    \* history: [Scopes -> Nat] deferred blocks of the frame begun
    cut       \* history: why deferred blocks were left out or left early

frames == <<returned, defers, begun>>
vars == <<stack, current, depth, frames, panic, done, cut>>

Scopes == Frames \cup {File}
Panics == {"none", "error", "cancelled"}

\* kind "body": a call or the file; "closing": its deferred closure.
Blocks == {"body", "try", "catch", "deferred"}
Entries == [kind : Blocks \cup {"closing"},
            frame : Scopes,    \* the frame the block belongs to
            seen : Scopes,     \* executeBlock's local: r.currentFrame on entry
            parent : Scopes,   \* callMethod's parentFrame
            began : BOOLEAN,   \* a statement of the block was executed
            left : Nat,        \* statements of a deferred block, blocks to close
            cause : Panics]    \* the panic the closure runs under

Entry(k, f, s) == [kind |-> k, frame |-> f, seen |-> s, parent |-> File,
                   began |-> FALSE, left |-> 0, cause |-> "none"]

Init ==
    /\ stack = <<Entry("body", File, File)>>
    /\ current = File
    /\ depth = 0
    /\ returned = [f \in Scopes |-> FALSE]
    /\ defers = [f \in Scopes |-> <<>>]
    /\ panic = "none"
    /\ done = FALSE
    /\ begun = [f \in Scopes |-> 0]
    /\ cut = {}

Top == stack[Len(stack)]
Below == SubSeq(stack, 1, Len(stack) - 1)
WithTop(e) == [stack EXCEPT ![Len(stack)] = e]

InBlock == Len(stack) > 0 /\ panic = "none" /\ Top.kind \in Blocks

\* executeBlock goes on to a further statement only while the frame it saw on
\* entry has not returned; the first one it always executes.
MayGoOn(e) ==
    /\ e.began => ~returned[e.seen]
    /\ e.kind = "deferred" => e.left > 0

\* MUTANT: only executeBlock checks the context, executeStatement does not.
StartsUnchecked == InBlock /\ MayGoOn(Top)
\* A statement starts: the execution is not cancelled.
Starts == InBlock /\ ~done /\ MayGoOn(Top)
AfterStatement ==
    WithTop([Top EXCEPT !.began = TRUE, !.left = IF Top.kind = "deferred" THEN @ - 1 ELSE @])

-----------------------------------------------------------------------------
(* Statements.                                                             *)

\* A statement without effect on the control.
Plain ==
    /\ Starts
    /\ stack' = AfterStatement
    /\ UNCHANGED <<current, depth, frames, panic, done, cut>>

Registered == UNION {{f} \X DOMAIN defers[f] : f \in Scopes}

\* defer: the block is registered in the current frame.  A closure that runs
\* already does not come back to it.
Defer(n) ==
    /\ Starts
    /\ Cardinality(Registered) < MaxDefers
    /\ defers' = [defers EXCEPT ![current] = Append(@, n)]
    /\ cut' = IF \E i \in 1..Len(stack) : stack[i].kind = "closing" /\ stack[i].frame = current
              THEN cut \cup {"nested"} ELSE cut
    /\ stack' = AfterStatement
    /\ UNCHANGED <<current, depth, returned, begun, panic, done>>

Return ==
    /\ Starts
    /\ returned' = [returned EXCEPT ![current] = TRUE]
    /\ stack' = AfterStatement
    /\ UNCHANGED <<current, depth, defers, begun, panic, done, cut>>

Throw ==
    /\ Starts
    /\ panic' = "error"
    /\ stack' = AfterStatement
    /\ UNCHANGED <<current, depth, frames, done, cut>>

\* try { ... }
Try ==
    /\ Starts
    /\ Len(SelectSeq(stack, LAMBDA e : e.kind \in {"try", "catch"})) < MaxTries
    /\ stack' = Append(AfterStatement, Entry("try", Top.frame, current))
    /\ UNCHANGED <<current, depth, frames, panic, done, cut>>

\* A frame of the pool: nothing refers to it.
Pooled(f) ==
    /\ f # current
    /\ \A i \in 1..Len(stack) : f \notin {stack[i].frame, stack[i].seen, stack[i].parent}

\* A call installs a frame and executes the body.
Call(f) ==
    /\ Starts
    /\ depth < MaxCallDepth
    /\ f \in Frames /\ Pooled(f)
    /\ depth' = depth + 1
    /\ current' = f
    /\ returned' = [returned EXCEPT ![f] = FALSE]
    /\ defers' = [defers EXCEPT ![f] = <<>>]
    /\ begun' = [begun EXCEPT ![f] = 0]
    /\ stack' = Append(AfterStatement, [Entry("body", f, f) EXCEPT !.parent = current])
    /\ UNCHANGED <<panic, done, cut>>

\* The call is refused: RecursionLimit.
CallRefused ==
    /\ Starts
    /\ depth >= MaxCallDepth
    /\ panic' = "error"
    /\ stack' = AfterStatement
    /\ UNCHANGED <<current, depth, frames, done, cut>>

\* The context is cancelled, at any time.
Cancel ==
    /\ HasContext
    /\ ~done
    /\ done' = TRUE
    /\ UNCHANGED <<stack, current, depth, frames, panic, cut>>

\* checkExecutionCancelled at the start of a block or of a statement.
Interrupt ==
    /\ InBlock
    /\ done
    /\ MayGoOn(Top)
    /\ panic' = "cancelled"
    /\ UNCHANGED <<stack, current, depth, frames, done, cut>>

-----------------------------------------------------------------------------
(* The end of a block.                                                     *)

\* A try or catch block ends: its last statement, or a return.
EndBlock ==
    /\ InBlock
    /\ Top.kind \in {"try", "catch"}
    /\ stack' = Below
    /\ UNCHANGED <<current, depth, frames, panic, done, cut>>

\* A body ends, or a panic leaves it: its deferred closure starts.
Closure(cause) ==
    [Top EXCEPT !.kind = "closing", !.left = Len(defers[Top.frame]), !.cause = cause]

\* MUTANT: only a body that ends runs its deferred blocks.
CloseWithoutDefers ==
    /\ Len(stack) > 0 /\ Top.kind = "body"
    /\ stack' = WithTop([Closure(panic) EXCEPT !.left = IF panic = "none" THEN @ ELSE 0])
    /\ panic' = "none"
    /\ UNCHANGED <<current, depth, frames, done, cut>>
\* The deferred closure of callMethod, or of Execute, begins.
Close ==
    /\ Len(stack) > 0 /\ Top.kind = "body"
    /\ stack' = WithTop(Closure(panic))
    /\ panic' = "none"
    /\ UNCHANGED <<current, depth, frames, done, cut>>

\* The next deferred block, the last registered first.
RunDeferred ==
    /\ Len(stack) > 0 /\ Top.kind = "closing"
    /\ Top.left > 0
    /\ stack' = Append(WithTop([Top EXCEPT !.left = @ - 1]),
                       [Entry("deferred", Top.frame, current) EXCEPT
                            !.left = defers[Top.frame][Top.left]])
    /\ begun' = [begun EXCEPT ![Top.frame] = @ + 1]
    /\ UNCHANGED <<current, depth, returned, defers, panic, done, cut>>

\* A deferred block ends; early when its frame has returned.
EndDeferred ==
    /\ InBlock
    /\ Top.kind = "deferred"
    /\ ~MayGoOn(Top)
    /\ stack' = Below
    /\ cut' = IF Top.left > 0 THEN cut \cup {"return"} ELSE cut
    /\ UNCHANGED <<current, depth, frames, panic, done>>

\* The frame goes back to the pool, cleared; topDefers is cleared, but
\* topHasReturn is not.
Release(f) ==
    /\ returned' = [returned EXCEPT ![f] = f = File /\ @]
    /\ defers' = [defers EXCEPT ![f] = <<>>]
    /\ begun' = [begun EXCEPT ![f] = 0]

\* How the closure of the call ends: its panic goes on, or a return value that
\* does not fit the return type raises one.
Outcome ==
    \/ panic' = Top.cause
    \/ Top.cause = "none" /\ Top.frame # File /\ panic' = "error"

\* MUTANT: frame and depth are given back only when the body returned.
PanicKeepsFrame ==
    /\ Len(stack) > 0 /\ Top.kind = "closing"
    /\ Top.left = 0
    /\ Outcome
    /\ IF Top.frame = File \/ Top.cause # "none"
       THEN UNCHANGED <<current, depth>>
       ELSE current' = Top.parent /\ depth' = depth - 1
    /\ Release(Top.frame)
    /\ stack' = Below
    /\ UNCHANGED <<done, cut>>
\* The deferred closure is through with its blocks: it gives frame and depth
\* back and the call ends.
EndClosure ==
    /\ Len(stack) > 0 /\ Top.kind = "closing"
    /\ Top.left = 0
    /\ Outcome
    /\ IF Top.frame = File
       THEN UNCHANGED <<current, depth>>
       ELSE current' = Top.parent /\ depth' = depth - 1
    /\ Release(Top.frame)
    /\ stack' = Below
    /\ UNCHANGED <<done, cut>>

-----------------------------------------------------------------------------
(* A panic.                                                                *)

\* executeTryCatch recovers it, ExecutionCancelled too, and executes the
\* catch block.
Catch ==
    /\ Len(stack) > 0 /\ panic # "none"
    /\ Top.kind = "try"
    /\ panic' = "none"
    /\ stack' = WithTop(Entry("catch", Top.frame, current))
    /\ UNCHANGED <<current, depth, frames, done, cut>>

LeaveCatch ==
    /\ Len(stack) > 0 /\ panic # "none"
    /\ Top.kind = "catch"
    /\ stack' = Below
    /\ UNCHANGED <<current, depth, frames, panic, done, cut>>

\* A panic leaves a deferred block: the closure ends there.  The blocks still
\* to be run, the frame and the depth are left as they are.
BreakClosure ==
    /\ Len(stack) > 1 /\ panic # "none"
    /\ Top.kind = "deferred"
    /\ cut' = cut \cup {"panic"}
    /\ stack' = SubSeq(stack, 1, Len(stack) - 2)
    /\ UNCHANGED <<current, depth, frames, panic, done>>

-----------------------------------------------------------------------------

Statement ==
    \/ Plain \/ Return \/ Throw \/ Try \/ CallRefused
    \/ (\E n \in Sizes : Defer(n)) \/ (\E f \in Frames : Call(f))
Unwinding == Catch \/ LeaveCatch \/ BreakClosure
Ending == EndBlock \/ Close \/ RunDeferred \/ EndDeferred \/ EndClosure

Next == Statement \/ Cancel \/ Interrupt \/ Ending \/ Unwinding

Spec == Init /\ [][Next]_vars
\* The goroutine of the interpreter is scheduled.
LiveSpec == Spec /\ WF_vars(Interrupt \/ Ending \/ Unwinding)

-----------------------------------------------------------------------------
(* Properties.                                                             *)

\* Every variable keeps its type.
TypeOK ==
    /\ stack \in Seq(Entries)
    /\ current \in Scopes
    /\ depth \in Nat
    /\ returned \in [Scopes -> BOOLEAN]
    /\ defers \in [Scopes -> Seq(Sizes)]
    /\ panic \in Panics
    /\ done \in BOOLEAN
    /\ begun \in [Scopes -> Nat]
    /\ cut \subseteq {"return", "panic", "nested"}

\* As long as no panic left a deferred block, what the interpreter keeps
\* besides the Go stack agrees with it: every block saw the frame of the call
\* it belongs to, the current frame is that of the innermost call, and a call
\* returns to the frame that called.
Exact ==
    /\ \A i \in 1..Len(stack) :
          /\ stack[i].seen = stack[i].frame
          /\ stack[i].kind = "body" /\ i > 1 => stack[i].parent = stack[i-1].frame
    /\ Len(stack) > 0 => current = Top.frame
FramesExact == "panic" \notin cut => Exact

\* The depth counts the calls in progress: the recursion limit refuses a call
\* only when so many calls are active.
Calls == {i \in DOMAIN stack : stack[i].kind \in {"body", "closing"} /\ stack[i].frame # File}
DepthExact == "panic" \notin cut => depth = Cardinality(Calls)

\* What the interpreter keeps beside the Go stack agrees with it, however the
\* calls before ended, unless a panic left a deferred block.
StackExact == FramesExact /\ DepthExact

\* The frames in use by calls in progress.
Active == {stack[i].frame : i \in 1..Len(stack)}

\* A call ends, returned or left by a panic, only after each of its deferred
\* blocks was begun.
DefersBegin ==
    [][cut' \cap {"panic", "nested"} = {} =>
          \A f \in Active \ Active' : begun[f] = Len(defers[f])]_vars

\* A cancelled execution ends, whatever its catch and deferred blocks do.
CancelStops == done ~> (stack = <<>>)

================================================================================
