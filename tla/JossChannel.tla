------------------------------ MODULE JossChannel ------------------------------
(***************************************************************************)
(* Channels of the Joss language: pkg/core/channel.go, the send, recv and  *)
(* close builtins of pkg/core/builtins_async.go and the select statement   *)
(* of pkg/core/evaluator_select.go, at the granularity of the atomic       *)
(* operations the goroutines execute.                                      *)
(*                                                                         *)
(* send($c, v) and recv($c) have the shape of a select with one case       *)
(* (TrySendContext and executeSelect run the same beginSend / select /     *)
(* endSend protocol), so a statement is a sequence of cases evaluated in   *)
(* order and an optional default.  foreach over a channel is a recv that   *)
(* does not watch the execution context.  A sent value is named by its     *)
(* sender.                                                                 *)
(*                                                                         *)
(* The channel and the value of a case are arbitrary expressions: they may *)
(* throw, close a channel or block.  A channel operation they perform is   *)
(* that of another goroutine of Procs which the evaluating one waits for.  *)
(***************************************************************************)
EXTENDS Integers, Sequences, FiniteSets

CONSTANTS Procs,       \* goroutines: the main program and async tasks
          Channels,    \* *Channel values they share
          Capacity,    \* [Channels -> Nat], from make_chan
          Statements,  \* the channel statements goroutines execute
          Cancellable, \* goroutines that have an executionContext
          NestedCloser,\* goroutines whose case expressions may call close()
          NestedWaiter,\* goroutines whose case expressions may never end
          NoChannel    \* not a channel

Cases == [dir : {"send", "recv"}, ch : Channels]
NoStatement == [cases |-> <<>>, hasDefault |-> FALSE, watchesCtx |-> FALSE]

ASSUME ChannelAssumption ==
    /\ Capacity \in [Channels -> Nat]
    /\ NoChannel \notin Channels
    /\ Cancellable \subseteq Procs
    /\ NestedCloser \subseteq Procs
    /\ NestedWaiter \subseteq Procs
    /\ NoStatement \notin Statements
    /\ \A s \in Statements : /\ s.cases \in Seq(Cases)
                             /\ s.hasDefault \in BOOLEAN
                             /\ s.watchesCtx \in BOOLEAN

VARIABLES
    buf,       \* [Channels -> Seq(Procs)]   contents of Channel.Ch
    chClosed,  \* [Channels -> BOOLEAN]      close(c.Ch) was executed
    closing,   \* [Channels -> BOOLEAN]      close(c.closing) was executed
    closed,    \* [Channels -> BOOLEAN]      the atomic Channel.closed
    senders,   \* [Channels -> Nat]          the atomic Channel.senders
    reserved,  \* <<p, i, c>>: case i of p owes c one endSend
    pc,        \* [Procs -> Locations]
    stmt,      \* [Procs -> Statements \cup {NoStatement}]
    idx,       \* [Procs -> Nat \ {0}]       case being evaluated
    target,    \* argument of the close in progress, or NoChannel
    out,       \* [Procs -> Outcomes]        what the last statement returned
    cancelled  \* subset of Cancellable      executionContext.Done() is closed

chanVars  == <<buf, chClosed, closing, closed>>
sendVars  == <<senders, reserved>>
vars == <<buf, chClosed, closing, closed, senders, reserved,
          pc, stmt, idx, target, out, cancelled>>

Locations == {"idle", "eval", "expr", "reserve", "recheck", "unreserve", "select",
              "release", "signal", "drain", "goclose"}

Outcomes == {<<"none">>, <<"sent">>, <<"nil">>, <<"refused">>, <<"cancelled">>,
             <<"thrown">>, <<"default">>, <<"closed">>} \cup ({"received"} \X Procs)

NCases(p)     == Len(stmt[p].cases)
CaseAt(p, i)  == stmt[p].cases[i]
IsSend(p, i)  == CaseAt(p, i).dir = "send"
Holders(c)    == {r \in reserved : r[3] = c}
OwedBy(p)     == {r \in reserved : r[1] = p}

Goto(p, l)    == pc' = [pc EXCEPT ![p] = l]
Returns(p, o) == out' = [out EXCEPT ![p] = o]

Init == /\ buf = [c \in Channels |-> <<>>]
        /\ chClosed = [c \in Channels |-> FALSE]
        /\ closing = [c \in Channels |-> FALSE]
        /\ closed = [c \in Channels |-> FALSE]
        /\ senders = [c \in Channels |-> 0]
        /\ reserved = {}
        /\ pc = [p \in Procs |-> "idle"]
        /\ stmt = [p \in Procs |-> NoStatement]
        /\ idx = [p \in Procs |-> 1]
        /\ target = [p \in Procs |-> NoChannel]
        /\ out = [p \in Procs |-> <<"none">>]
        /\ cancelled = {}

--------------------------------------------------------------------------------
(* Evaluating the cases, in order.                                         *)

Begin(p, s) ==
    /\ pc[p] = "idle"
    /\ p \notin cancelled
    /\ stmt' = [stmt EXCEPT ![p] = s]
    /\ idx' = [idx EXCEPT ![p] = 1]
    /\ Goto(p, "eval")
    /\ Returns(p, <<"none">>)
    /\ UNCHANGED <<chanVars, sendVars, target, cancelled>>

AtExpression(p, l) ==
    /\ pc[p] = l
    /\ idx[p] <= NCases(p)

\* evaluateExpression checks the context before it evaluates anything.
EvalCancelled(p) ==
    /\ AtExpression(p, "eval")
    /\ p \in cancelled
    /\ Goto(p, "release")
    /\ Returns(p, <<"cancelled">>)
    /\ UNCHANGED <<chanVars, sendVars, stmt, idx, target, cancelled>>

\* The expressions of the case are under evaluation, for as long as they take,
\* while the reservations of the earlier cases are held.
Expression(p) ==
    /\ AtExpression(p, "eval")
    /\ p \notin cancelled
    /\ Goto(p, "expr")
    /\ UNCHANGED <<chanVars, sendVars, stmt, idx, target, out, cancelled>>

\* An expression throws, fails to be a channel, or notices the cancellation.
EvalThrows(p) ==
    /\ AtExpression(p, "expr")
    /\ Goto(p, "release")
    /\ Returns(p, IF p \in cancelled THEN <<"cancelled">> ELSE <<"thrown">>)
    /\ UNCHANGED <<chanVars, sendVars, stmt, idx, target, cancelled>>

EvalRecv(p) ==
    /\ AtExpression(p, "expr")
    /\ ~IsSend(p, idx[p])
    /\ Goto(p, "eval")
    /\ idx' = [idx EXCEPT ![p] = @ + 1]
    /\ UNCHANGED <<chanVars, sendVars, stmt, target, out, cancelled>>

\* beginSend: the first test of closed.
EvalSend(p) ==
    /\ AtExpression(p, "expr")
    /\ IsSend(p, idx[p])
    /\ \/ /\ closed[CaseAt(p, idx[p]).ch]
          /\ Returns(p, <<"refused">>)
          /\ Goto(p, "release")
       \/ /\ ~closed[CaseAt(p, idx[p]).ch]
          /\ Goto(p, "reserve")
          /\ UNCHANGED out
    /\ UNCHANGED <<chanVars, sendVars, stmt, idx, target, cancelled>>

\* beginSend: c.senders.Add(1).
Reserve(p) ==
    LET c == CaseAt(p, idx[p]).ch IN
    /\ pc[p] = "reserve"
    /\ senders' = [senders EXCEPT ![c] = @ + 1]
    /\ reserved' = reserved \cup {<<p, idx[p], c>>}
    /\ Goto(p, "recheck")
    /\ UNCHANGED <<chanVars, stmt, idx, target, out, cancelled>>

\* Mutant: beginSend without the second test of closed.
RecheckDropped(p) ==
    /\ pc[p] = "recheck"
    /\ Goto(p, "eval")
    /\ idx' = [idx EXCEPT ![p] = @ + 1]
    /\ UNCHANGED <<chanVars, sendVars, stmt, target, out, cancelled>>

\* beginSend: the second test of closed.
Recheck(p) ==
    /\ pc[p] = "recheck"
    /\ \/ /\ closed[CaseAt(p, idx[p]).ch]
          /\ Goto(p, "unreserve")
          /\ UNCHANGED idx
       \/ /\ ~closed[CaseAt(p, idx[p]).ch]
          /\ Goto(p, "eval")
          /\ idx' = [idx EXCEPT ![p] = @ + 1]
    /\ UNCHANGED <<chanVars, sendVars, stmt, target, out, cancelled>>

\* beginSend gives the reservation back and returns closedChannelError.
Unreserve(p) ==
    LET c == CaseAt(p, idx[p]).ch IN
    /\ pc[p] = "unreserve"
    /\ senders' = [senders EXCEPT ![c] = @ - 1]
    /\ reserved' = reserved \ {<<p, idx[p], c>>}
    /\ Returns(p, <<"refused">>)
    /\ Goto(p, "release")
    /\ UNCHANGED <<chanVars, stmt, idx, target, cancelled>>

EnterSelect(p) ==
    /\ pc[p] = "eval"
    /\ idx[p] = NCases(p) + 1
    /\ Goto(p, "select")
    /\ UNCHANGED <<chanVars, sendVars, stmt, idx, target, out, cancelled>>

--------------------------------------------------------------------------------
(* The Go select: one ready case, chosen at random.                        *)

AtCase(p, dir, c) ==
    /\ pc[p] = "select"
    /\ \E i \in 1..NCases(p) : CaseAt(p, i) = [dir |-> dir, ch |-> c]

Chosen(p, o) ==
    /\ Goto(p, "release")
    /\ Returns(p, o)
    /\ UNCHANGED <<chClosed, closing, closed, sendVars, stmt, idx, target, cancelled>>

ChooseSend(p, c) ==
    /\ AtCase(p, "send", c)
    /\ ~chClosed[c]
    /\ Len(buf[c]) < Capacity[c]
    /\ buf' = [buf EXCEPT ![c] = Append(@, p)]
    /\ Chosen(p, <<"sent">>)

ChooseRecv(q, c) ==
    /\ AtCase(q, "recv", c)
    /\ buf[c] # <<>>
    /\ buf' = [buf EXCEPT ![c] = Tail(@)]
    /\ Chosen(q, <<"received", Head(buf[c])>>)

\* A sender and a receiver meet.  A select with a default never parks, so two
\* of them cannot be waiting for each other.
HandOff(p, q, c) ==
    /\ p # q
    /\ AtCase(p, "send", c)
    /\ AtCase(q, "recv", c)
    /\ ~(stmt[p].hasDefault /\ stmt[q].hasDefault)
    /\ ~chClosed[c]
    /\ buf[c] = <<>>
    /\ pc' = [pc EXCEPT ![p] = "release", ![q] = "release"]
    /\ out' = [out EXCEPT ![p] = <<"sent">>, ![q] = <<"received", p>>]
    /\ UNCHANGED <<chanVars, sendVars, stmt, idx, target, cancelled>>

\* Mutant: a receive that watches closing instead of the closure of Ch.
ClosedRecvWatchesClosing(q, c) ==
    /\ AtCase(q, "recv", c)
    /\ closing[c]
    /\ buf[c] = <<>>
    /\ Chosen(q, <<"nil">>)
    /\ UNCHANGED buf

\* Receiving from a closed, drained Go channel yields nil.
ChooseClosedRecv(q, c) ==
    /\ AtCase(q, "recv", c)
    /\ chClosed[c]
    /\ buf[c] = <<>>
    /\ Chosen(q, <<"nil">>)
    /\ UNCHANGED buf

\* <-closing: the send case of a channel that is being closed fails.
ChooseClosing(p, c) ==
    /\ AtCase(p, "send", c)
    /\ closing[c]
    /\ Chosen(p, <<"refused">>)
    /\ UNCHANGED buf

ChooseCancelled(p) ==
    /\ pc[p] = "select"
    /\ stmt[p].watchesCtx
    /\ p \in cancelled
    /\ Chosen(p, <<"cancelled">>)
    /\ UNCHANGED buf

\* default runs when nothing is ready.  A partner that is about to park is not
\* ready yet, so a possible hand-off does not disable it.
ChooseDefault(p) ==
    /\ pc[p] = "select"
    /\ stmt[p].hasDefault
    /\ p \notin cancelled
    /\ \A c \in Channels :
          /\ AtCase(p, "send", c) => ~closing[c] /\ Len(buf[c]) >= Capacity[c]
          /\ AtCase(p, "recv", c) => ~chClosed[c] /\ buf[c] = <<>>
    /\ Chosen(p, <<"default">>)
    /\ UNCHANGED buf

\* releaseSenders / the deferred endSend: one decrement at a time.
EndSend(p) ==
    /\ pc[p] = "release"
    /\ \E r \in OwedBy(p) :
          /\ senders' = [senders EXCEPT ![r[3]] = @ - 1]
          /\ reserved' = reserved \ {r}
    /\ UNCHANGED <<chanVars, pc, stmt, idx, target, out, cancelled>>

Finish(p) ==
    /\ pc[p] = "release"
    /\ OwedBy(p) = {}
    /\ Goto(p, "idle")
    /\ stmt' = [stmt EXCEPT ![p] = NoStatement]
    /\ idx' = [idx EXCEPT ![p] = 1]
    /\ UNCHANGED <<chanVars, sendVars, target, out, cancelled>>

--------------------------------------------------------------------------------
(* TryClose, as a statement (from = "idle") or evaluated inside a case of  *)
(* a select that already holds reservations (from = "expr").               *)

CallsClose(p, from) ==
    /\ pc[p] = from
    /\ p \notin cancelled
    /\ from = "expr" => p \in NestedCloser /\ AtExpression(p, "expr")

\* The CompareAndSwap fails: the error leaves the statement, if there is one.
CloseRefused(p, c, from) ==
    /\ CallsClose(p, from)
    /\ closed[c]
    /\ Returns(p, <<"refused">>)
    /\ IF from = "expr" THEN Goto(p, "release") ELSE UNCHANGED pc
    /\ UNCHANGED <<chanVars, sendVars, stmt, idx, target, cancelled>>

\* The CompareAndSwap succeeds.
Swap(p, c, from) ==
    /\ CallsClose(p, from)
    /\ ~closed[c]
    /\ closed' = [closed EXCEPT ![c] = TRUE]
    /\ target' = [target EXCEPT ![p] = c]
    /\ Goto(p, "signal")
    /\ Returns(p, <<"none">>)
    /\ UNCHANGED <<buf, chClosed, closing, sendVars, stmt, idx, cancelled>>

\* Mutant: close(closing) is missing.
SignalForgotten(p) ==
    /\ pc[p] = "signal"
    /\ Goto(p, "drain")
    /\ UNCHANGED <<chanVars, sendVars, stmt, idx, target, out, cancelled>>

Signal(p) ==
    /\ pc[p] = "signal"
    /\ closing' = [closing EXCEPT ![target[p]] = TRUE]
    /\ Goto(p, "drain")
    /\ UNCHANGED <<buf, chClosed, closed, sendVars, stmt, idx, target, out, cancelled>>

\* The spin ends when it reads a counter that is not positive.
Drained(p) ==
    /\ pc[p] = "drain"
    /\ senders[target[p]] <= 0
    /\ Goto(p, "goclose")
    /\ UNCHANGED <<chanVars, sendVars, stmt, idx, target, out, cancelled>>

GoClose(p) ==
    /\ pc[p] = "goclose"
    /\ chClosed' = [chClosed EXCEPT ![target[p]] = TRUE]
    /\ target' = [target EXCEPT ![p] = NoChannel]
    /\ \/ /\ stmt[p] = NoStatement
          /\ Goto(p, "idle")
          /\ Returns(p, <<"closed">>)
       \/ /\ stmt[p] # NoStatement
          /\ Goto(p, "expr")
          /\ UNCHANGED out
    /\ UNCHANGED <<buf, closing, closed, sendVars, stmt, idx, cancelled>>

\* Future.cancel(), the end of a request or of the parent task.
Cancel(p) ==
    /\ p \in Cancellable \ cancelled
    /\ cancelled' = cancelled \cup {p}
    /\ UNCHANGED <<chanVars, sendVars, pc, stmt, idx, target, out>>

--------------------------------------------------------------------------------
SelectStep(p) ==
    \/ \E c \in Channels : \/ ChooseSend(p, c) \/ ChooseRecv(p, c)
                           \/ ChooseClosedRecv(p, c) \/ ChooseClosing(p, c)
    \/ ChooseCancelled(p) \/ ChooseDefault(p)

Step(p) == \/ EvalCancelled(p) \/ Expression(p) \/ Reserve(p) \/ Recheck(p) \/ Unreserve(p)
           \/ EnterSelect(p) \/ SelectStep(p) \/ EndSend(p) \/ Finish(p)
           \/ Signal(p) \/ Drained(p) \/ GoClose(p)

EndOfExpression(p) == EvalThrows(p) \/ EvalRecv(p) \/ EvalSend(p)

Next == \/ \E p \in Procs : Step(p) \/ EndOfExpression(p) \/ Cancel(p)
        \/ \E p \in Procs, s \in Statements : Begin(p, s)
        \/ \E p \in Procs, c \in Channels, from \in {"idle", "expr"} :
              CloseRefused(p, c, from) \/ Swap(p, c, from)
        \/ \E p, q \in Procs, c \in Channels : HandOff(p, q, c)

Spec == Init /\ [][Next]_vars

\* A goroutine that can run does run (the Go scheduler).  Nothing obliges a
\* program to start a statement, to close a channel or to cancel a task, and
\* an expression that waits for another goroutine, or loops, may never end.
FairSpec ==
    /\ Spec
    /\ \A p \in Procs : WF_vars(Step(p))
    /\ \A p \in Procs \ NestedWaiter : WF_vars(EndOfExpression(p))

--------------------------------------------------------------------------------
(* Correctness.                                                            *)

\* Every variable keeps its type.
TypeOK ==
    /\ buf \in [Channels -> Seq(Procs)]
    /\ chClosed \in [Channels -> BOOLEAN]
    /\ closing \in [Channels -> BOOLEAN]
    /\ closed \in [Channels -> BOOLEAN]
    /\ senders \in [Channels -> Nat]
    /\ reserved \subseteq Procs \X (Nat \ {0}) \X Channels
    /\ pc \in [Procs -> Locations]
    /\ stmt \in [Procs -> Statements \cup {NoStatement}]
    /\ idx \in [Procs -> Nat \ {0}]
    /\ target \in [Procs -> Channels \cup {NoChannel}]
    /\ out \in [Procs -> Outcomes]
    /\ cancelled \subseteq Cancellable

\* The counter Channel.senders is the number of reservations that are still
\* owed an endSend, whatever path (success, refusal, cancellation, a failing
\* case of a select) each statement takes.
SendersExact == \A c \in Channels : senders[c] = Cardinality(Holders(c))

\* No goroutine waits in a Go send on a channel whose Ch is closed: Go's "send
\* on closed channel" panic is unreachable, so the recover in TrySendContext
\* and in executeSelect never has anything to recover.
NoSendOnClosedChannel ==
    \A p \in Procs, c \in Channels : AtCase(p, "send", c) => ~chClosed[c]

\* At most one goroutine is inside TryClose past the CompareAndSwap, and none
\* once Ch is closed: neither close(closing) nor close(c.Ch) can panic.
ClosingIn(q, c) == pc[q] \in {"signal", "drain", "goclose"} /\ target[q] = c
NoDoubleClose ==
    \A q \in Procs, c \in Channels :
       ClosingIn(q, c) => /\ ~chClosed[c]
                          /\ \A r \in Procs \ {q} : ~ClosingIn(r, c)

\* No Go channel operation of the reservation protocol can panic: nothing is
\* closed twice, and nobody sends on what is closed.
ChannelNeverPanics == NoDoubleClose /\ NoSendOnClosedChannel

\* close() returns, provided that no goroutine stays for ever in a case
\* expression of a select, or in a close evaluated there, while it holds a
\* reservation of a channel being closed: the closer waits for its endSend.
StaysInExpression(q) == /\ pc[q] \in {"expr", "drain"}
                        /\ \E r \in OwedBy(q) : closed[r[3]]
CloseCompletes ==
    (\A q \in Procs : []<>~StaysInExpression(q))
       => \A p \in Procs : pc[p] = "drain" ~> pc[p] # "drain"

\* Once a close has begun, every goroutine blocked in a send is released.
ClosingReleasesSenders ==
    \A p \in Procs, c \in Channels :
       AtCase(p, "send", c) /\ closed[c] ~> pc[p] # "select"

\* Once TryClose has returned, every goroutine blocked in a receive is released.
ClosedReleasesReceivers ==
    \A p \in Procs, c \in Channels :
       AtCase(p, "recv", c) /\ closed[c] /\ (\A q \in Procs : ~ClosingIn(q, c))
          ~> pc[p] # "select"

\* Cancellation releases a goroutine from send, recv and select.
CancelReleases ==
    \A p \in Procs :
       pc[p] = "select" /\ stmt[p].watchesCtx /\ p \in cancelled ~> pc[p] # "select"

\* Whoever waits gets out: the closer once every expression evaluated under a
\* reservation of its channel has ended,
\* senders when a close begins, receivers when it has returned, and everybody
\* who watches the context when it is cancelled.
EverybodyIsReleased ==
    /\ CloseCompletes
    /\ ClosingReleasesSenders
    /\ ClosedReleasesReceivers
    /\ CancelReleases

\* The implementation provides the contract of a channel.
Contract == INSTANCE ChannelContract
    WITH phase <- [c \in Channels |-> IF chClosed[c] THEN "closed"
                                      ELSE IF closed[c] THEN "closing" ELSE "open"]
ImplementsContract == Contract!CSpec
================================================================================
