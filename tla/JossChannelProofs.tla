--------------------------- MODULE JossChannelProofs ---------------------------
(***************************************************************************)
(* For every number of goroutines, channels, capacities and statements:    *)
(* JossChannel is type correct, the sender counter is exact, Go's "send on *)
(* closed channel" and "close of closed channel" panics are unreachable,   *)
(* and the channel implements ChannelContract.                             *)
(***************************************************************************)
EXTENDS JossChannel, FiniteSetTheorems, TLAPS

--------------------------------------------------------------------------------
(* The inductive invariant.                                                *)

\* Type correctness; that the counter is not negative follows from Counted.
Typed ==
    /\ buf \in [Channels -> Seq(Procs)]
    /\ chClosed \in [Channels -> BOOLEAN]
    /\ closing \in [Channels -> BOOLEAN]
    /\ closed \in [Channels -> BOOLEAN]
    /\ senders \in [Channels -> Int]
    /\ reserved \subseteq Procs \X (Nat \ {0}) \X Channels
    /\ pc \in [Procs -> Locations]
    /\ stmt \in [Procs -> Statements \cup {NoStatement}]
    /\ idx \in [Procs -> Nat \ {0}]
    /\ target \in [Procs -> Channels \cup {NoChannel}]
    /\ out \in [Procs -> Outcomes]
    /\ cancelled \subseteq Cancellable

Counted == /\ IsFiniteSet(reserved)
           /\ SendersExact

\* Where a goroutine stands in its statement.
InBeginSend(p) == pc[p] \in {"reserve", "recheck", "unreserve"}
Positioned ==
    \A p \in Procs :
       /\ stmt[p] = NoStatement => idx[p] = 1
       /\ pc[p] = "idle" => stmt[p] = NoStatement
       /\ InBeginSend(p) => idx[p] <= NCases(p) /\ IsSend(p, idx[p])
       /\ pc[p] = "select" => idx[p] = NCases(p) + 1

\* A reservation belongs to a case already evaluated, or to the case whose
\* beginSend has counted itself and has not yet passed its second test.
Pending(r) == /\ pc[r[1]] \in {"recheck", "unreserve"}
              /\ r[2] = idx[r[1]]
Placed ==
    \A r \in reserved : /\ r[3] = CaseAt(r[1], r[2]).ch
                        /\ \/ pc[r[1]] = "release"
                           \/ r[2] < idx[r[1]]
                           \/ Pending(r)

\* Every send case evaluated so far holds its reservation.
Held ==
    \A p \in Procs : pc[p] # "release" =>
       /\ \A i \in 1..NCases(p) :
             i < idx[p] /\ IsSend(p, i) => <<p, i, CaseAt(p, i).ch>> \in reserved
       /\ pc[p] \in {"recheck", "unreserve"} =>
             <<p, idx[p], CaseAt(p, idx[p]).ch>> \in reserved

\* TryClose past the CompareAndSwap: one goroutine, and the flag is set.
Closers ==
    /\ \A q \in Procs : pc[q] \in {"signal", "drain", "goclose"} =>
          target[q] \in Channels /\ closed[target[q]]
    /\ \A c \in Channels : chClosed[c] => closed[c]
    /\ NoDoubleClose

\* From the moment the closer has read a zero counter, the only reservations
\* left on the channel are those that the second test will refuse.
Sealed(c) == \/ chClosed[c]
             \/ \E q \in Procs : pc[q] = "goclose" /\ target[q] = c
OnlyRefusedAfterSeal ==
    \A r \in reserved : Sealed(r[3]) => Pending(r)

IndInv == /\ Typed /\ Counted /\ Positioned /\ Placed /\ Held /\ Closers
          /\ OnlyRefusedAfterSeal

--------------------------------------------------------------------------------
\* The cases of every statement are cases: the facts about stmt[p] that the
\* steps of beginSend and of select rely on.
LEMMA StatementShape ==
    ASSUME Typed, NEW p \in Procs
    PROVE  /\ NCases(p) \in Nat
           /\ \A i \in 1..NCases(p) : CaseAt(p, i) \in Cases
           /\ \A i \in 1..NCases(p) : CaseAt(p, i).ch \in Channels
<1>1. stmt[p].cases \in Seq(Cases)
  <2>1. CASE stmt[p] = NoStatement
    BY <2>1 DEF NoStatement
  <2>2. CASE stmt[p] \in Statements
    BY <2>2, ChannelAssumption
  <2>3. QED BY <2>1, <2>2 DEF Typed
<1>2. /\ NCases(p) \in Nat
      /\ \A i \in 1..NCases(p) : CaseAt(p, i) \in Cases
  BY <1>1 DEF NCases, CaseAt
<1>3. \A x \in Cases : x.ch \in Channels
  BY DEF Cases
<1>4. QED BY <1>2, <1>3

\* Every action keeps the types of all variables.
LEMMA TypedInit == Init => Typed
<1>1. NoStatement \in Statements \cup {NoStatement}
  OBVIOUS
<1>2. QED BY <1>1, ChannelAssumption DEF Init, Typed, Locations, Outcomes

LEMMA TypedStep ==
    ASSUME Typed, Positioned, [Next]_vars
    PROVE  Typed'
<1> USE DEF Typed, Goto, Returns, chanVars, sendVars, Locations, Outcomes
<1>1. ASSUME NEW p \in Procs, NEW s \in Statements, Begin(p, s)
      PROVE  Typed'
  BY <1>1 DEF Begin, NoStatement
<1>2. ASSUME NEW p \in Procs, EvalCancelled(p)
      PROVE  Typed'
  BY <1>2 DEF EvalCancelled
<1>3. ASSUME NEW p \in Procs, EvalRecv(p)
      PROVE  Typed'
  BY <1>3 DEF EvalRecv
<1>4. ASSUME NEW p \in Procs, EvalSend(p)
      PROVE  Typed'
  <2>1. pc' \in [Procs -> Locations]
    BY <1>4 DEF EvalSend
  <2>2. out' \in [Procs -> Outcomes]
    BY <1>4 DEF EvalSend
  <2>3. UNCHANGED <<buf, chClosed, closing, closed, senders, reserved, stmt, idx, target, cancelled>>
    BY <1>4 DEF EvalSend
  <2>4. QED BY <2>1, <2>2, <2>3
<1>28. ASSUME NEW p \in Procs, Expression(p)
      PROVE  Typed'
  BY <1>28 DEF Expression
<1>29. ASSUME NEW p \in Procs, EvalThrows(p)
      PROVE  Typed'
  BY <1>29 DEF EvalThrows
<1>5. ASSUME NEW p \in Procs, Reserve(p)
      PROVE  Typed'
  BY <1>5, StatementShape DEF Reserve, Positioned, InBeginSend
<1>6. ASSUME NEW p \in Procs, Recheck(p)
      PROVE  Typed'
  <2>1. CASE closed[CaseAt(p, idx[p]).ch]
    BY <1>6, <2>1 DEF Recheck
  <2>2. CASE ~closed[CaseAt(p, idx[p]).ch]
    <3>1. idx' = [idx EXCEPT ![p] = idx[p] + 1] /\ pc' = [pc EXCEPT ![p] = "eval"]
      BY <1>6, <2>2 DEF Recheck
    <3>2. idx[p] + 1 \in Nat \ {0}
      OBVIOUS
    <3>3. QED BY <1>6, <3>1, <3>2 DEF Recheck
  <2>3. QED BY <2>1, <2>2
<1>7. ASSUME NEW p \in Procs, Unreserve(p)
      PROVE  Typed'
  <2> DEFINE c == CaseAt(p, idx[p]).ch
  <2>1. c \in Channels
    BY <1>7, StatementShape DEF Unreserve, Positioned, InBeginSend
  <2>2. senders' = [senders EXCEPT ![c] = senders[c] - 1]
    BY <1>7 DEF Unreserve
  <2>3. senders' \in [Channels -> Int]
    BY <2>1, <2>2
  <2>4. reserved' \subseteq reserved
    BY <1>7 DEF Unreserve
  <2>5. QED BY <1>7, <2>3, <2>4 DEF Unreserve
<1>8. ASSUME NEW p \in Procs, EnterSelect(p)
      PROVE  Typed'
  BY <1>8 DEF EnterSelect
<1>9. ASSUME NEW p \in Procs, NEW c \in Channels, ChooseSend(p, c)
      PROVE  Typed'
  BY <1>9 DEF ChooseSend, Chosen, AtCase
<1>10. ASSUME NEW p \in Procs, NEW c \in Channels, ChooseRecv(p, c)
      PROVE  Typed'
  <2>1. buf[c] \in Seq(Procs) /\ buf[c] # <<>>
    BY <1>10 DEF ChooseRecv
  <2>2. Head(buf[c]) \in Procs /\ Tail(buf[c]) \in Seq(Procs)
    BY <2>1
  <2>3. buf' \in [Channels -> Seq(Procs)]
    BY <1>10, <2>2 DEF ChooseRecv
  <2>4. out' \in [Procs -> Outcomes]
    BY <1>10, <2>2 DEF ChooseRecv, Chosen
  <2>5. pc' \in [Procs -> Locations]
    BY <1>10 DEF ChooseRecv, Chosen
  <2>6. UNCHANGED <<chClosed, closing, closed, senders, reserved, stmt, idx, target, cancelled>>
    BY <1>10 DEF ChooseRecv, Chosen
  <2>7. QED BY <2>3, <2>4, <2>5, <2>6
<1>11. ASSUME NEW p \in Procs, NEW c \in Channels, ChooseClosedRecv(p, c)
      PROVE  Typed'
  BY <1>11 DEF ChooseClosedRecv, Chosen, AtCase
<1>12. ASSUME NEW p \in Procs, NEW c \in Channels, ChooseClosing(p, c)
      PROVE  Typed'
  BY <1>12 DEF ChooseClosing, Chosen, AtCase
<1>13. ASSUME NEW p \in Procs, ChooseCancelled(p)
      PROVE  Typed'
  BY <1>13 DEF ChooseCancelled, Chosen
<1>14. ASSUME NEW p \in Procs, ChooseDefault(p)
      PROVE  Typed'
  BY <1>14 DEF ChooseDefault, Chosen
<1>15. ASSUME NEW p \in Procs, EndSend(p)
      PROVE  Typed'
  <2>1. PICK r \in OwedBy(p) : /\ senders' = [senders EXCEPT ![r[3]] = senders[r[3]] - 1]
                               /\ reserved' = reserved \ {r}
    BY <1>15 DEF EndSend
  <2>2. r[3] \in Channels
    BY DEF OwedBy
  <2>3. /\ senders' \in [Channels -> Int]
        /\ reserved' \subseteq reserved
    BY <2>1, <2>2
  <2>4. QED BY <1>15, <2>3 DEF EndSend
<1>16. ASSUME NEW p \in Procs, Finish(p)
      PROVE  Typed'
  BY <1>16 DEF Finish
<1>17. ASSUME NEW p \in Procs, NEW c \in Channels, NEW from \in {"idle", "expr"},
             CloseRefused(p, c, from)
      PROVE  Typed'
  BY <1>17 DEF CloseRefused
<1>27. ASSUME NEW p \in Procs, NEW c \in Channels, NEW from \in {"idle", "expr"},
             Swap(p, c, from)
      PROVE  Typed'
  BY <1>27 DEF Swap
<1>18. ASSUME NEW p \in Procs, Signal(p)
      PROVE  Typed'
  BY <1>18 DEF Signal
<1>19. ASSUME NEW p \in Procs, Drained(p)
      PROVE  Typed'
  BY <1>19 DEF Drained
<1>20. ASSUME NEW p \in Procs, GoClose(p)
      PROVE  Typed'
  BY <1>20 DEF GoClose
<1>21. ASSUME NEW p \in Procs, Cancel(p)
      PROVE  Typed'
  BY <1>21 DEF Cancel
<1>22. ASSUME NEW p \in Procs, NEW q \in Procs, NEW c \in Channels, HandOff(p, q, c)
      PROVE  Typed'
  BY <1>22 DEF HandOff, AtCase
<1>23. CASE UNCHANGED vars
  BY <1>23 DEF vars
<1>24. ASSUME NEW p \in Procs, SelectStep(p)
       PROVE  Typed'
  BY <1>9, <1>10, <1>11, <1>12, <1>13, <1>14, <1>24 DEF SelectStep
<1>25. ASSUME NEW p \in Procs, Step(p)
       PROVE  Typed'
  BY <1>2, <1>28, <1>5, <1>6, <1>7, <1>8, <1>15, <1>16, <1>18, <1>19, <1>20, <1>24, <1>25 DEF Step
<1> HIDE DEF Typed, Goto, Returns, chanVars, sendVars, Locations, Outcomes
<1>26. QED
  BY <1>1, <1>3, <1>4, <1>29, <1>17, <1>27, <1>21, <1>22, <1>23, <1>25 DEF Next, EndOfExpression

\* Adding a reservation while incrementing the counter of its channel, and
\* removing one while decrementing it, keep the counter exact.
LEMMA AddReservation ==
    ASSUME Typed, Counted,
           NEW r \in Procs \X (Nat \ {0}) \X Channels, r \notin reserved,
           reserved' = reserved \cup {r},
           senders' = [senders EXCEPT ![r[3]] = senders[r[3]] + 1]
    PROVE  Counted'
<1>1. r[3] \in Channels
  OBVIOUS
<1>2. ASSUME NEW c \in Channels PROVE senders'[c] = Cardinality(Holders(c)')
  <2>1. IsFiniteSet(Holders(c))
    BY FS_Subset DEF Counted, Holders
  <2>2. CASE c = r[3]
    <3>1. Holders(c)' = Holders(c) \cup {r}
      BY <2>2 DEF Holders
    <3>2. r \notin Holders(c)
      BY DEF Holders
    <3>3. Cardinality(Holders(c)') = Cardinality(Holders(c)) + 1
      BY <2>1, <3>1, <3>2, FS_AddElement
    <3>4. QED BY <2>2, <3>3, <1>1 DEF Counted, SendersExact, Typed
  <2>3. CASE c # r[3]
    <3>1. Holders(c)' = Holders(c)
      BY <2>3 DEF Holders
    <3>2. QED BY <2>3, <3>1, <1>1 DEF Counted, SendersExact, Typed
  <2>4. QED BY <2>2, <2>3
<1>3. IsFiniteSet(reserved')
  BY FS_AddElement DEF Counted
<1>4. QED BY <1>2, <1>3 DEF Counted, SendersExact

LEMMA DropReservation ==
    ASSUME Typed, Counted, NEW r \in reserved,
           reserved' = reserved \ {r},
           senders' = [senders EXCEPT ![r[3]] = senders[r[3]] - 1]
    PROVE  Counted'
<1>1. r[3] \in Channels
  BY DEF Typed
<1>2. ASSUME NEW c \in Channels PROVE senders'[c] = Cardinality(Holders(c)')
  <2>1. IsFiniteSet(Holders(c))
    BY FS_Subset DEF Counted, Holders
  <2>2. CASE c = r[3]
    <3>1. Holders(c)' = Holders(c) \ {r}
      BY <2>2 DEF Holders
    <3>2. r \in Holders(c)
      BY <2>2 DEF Holders
    <3>3. Cardinality(Holders(c)') = Cardinality(Holders(c)) - 1
      BY <2>1, <3>1, <3>2, FS_RemoveElement
    <3>4. QED BY <2>2, <3>3, <1>1 DEF Counted, SendersExact, Typed
  <2>3. CASE c # r[3]
    <3>1. Holders(c)' = Holders(c)
      BY <2>3 DEF Holders
    <3>2. QED BY <2>3, <3>1, <1>1 DEF Counted, SendersExact, Typed
  <2>4. QED BY <2>2, <2>3
<1>3. IsFiniteSet(reserved')
  BY FS_RemoveElement DEF Counted
<1>4. QED BY <1>2, <1>3 DEF Counted, SendersExact

\* A statement that ends, in the evaluation of its cases or in the select,
\* keeps its reservations and goes to release them.
LEMMA LeaveStep ==
    ASSUME IndInv, NEW p \in Procs, pc[p] \in {"eval", "expr", "select"},
           pc' = [pc EXCEPT ![p] = "release"],
           UNCHANGED <<chClosed, closed, senders, reserved, stmt, idx, target>>
    PROVE  (Counted /\ Positioned /\ Placed /\ Held /\ Closers /\ OnlyRefusedAfterSeal)'
<1> USE DEF IndInv, Typed
<1>1. Counted'
  BY DEF Counted, SendersExact, Holders
<1>2. Positioned'
  BY DEF Positioned, InBeginSend, NCases, CaseAt, IsSend
<1>3. Placed'
  BY DEF Placed, Pending, CaseAt
<1>4. Held'
  BY DEF Held, NCases, CaseAt, IsSend
<1>5. Closers'
  BY DEF Closers, NoDoubleClose, ClosingIn
<1>6. OnlyRefusedAfterSeal'
  BY DEF OnlyRefusedAfterSeal, Sealed, Pending
<1>7. QED BY <1>1, <1>2, <1>3, <1>4, <1>5, <1>6

\* Every step keeps the inductive invariant: one step per action, one leaf per
\* conjunct.
LEMMA OtherStep ==
    ASSUME IndInv, [Next]_vars
    PROVE  (Counted /\ Positioned /\ Placed /\ Held /\ Closers /\ OnlyRefusedAfterSeal)'
<1> USE DEF IndInv, Typed, Goto, Returns, chanVars, sendVars
<1>1. ASSUME NEW p \in Procs, NEW s \in Statements, Begin(p, s)
      PROVE  (Counted /\ Positioned /\ Placed /\ Held /\ Closers /\ OnlyRefusedAfterSeal)'
  <2>1. Counted'
    BY <1>1 DEF Begin, Counted, SendersExact, Holders
  <2>2. Positioned'
    BY <1>1 DEF Begin, Positioned, InBeginSend, NCases, CaseAt, IsSend
  <2>3. Placed'
    <3>1. pc[p] = "idle" /\ idx[p] = 1
      BY <1>1 DEF Begin, Positioned
    <3>2. ASSUME NEW r \in reserved PROVE r[1] # p
      <4>1. r[2] \in Nat \ {0}
        OBVIOUS
      <4>2. \/ pc[r[1]] = "release" \/ r[2] < idx[r[1]] \/ Pending(r)
        BY DEF Placed
      <4>3. QED BY <3>1, <4>1, <4>2 DEF Pending
    <3>3. QED BY <1>1, <3>2 DEF Begin, Placed, Pending, CaseAt
  <2>4. Held'
    <3>1. /\ idx' = [idx EXCEPT ![p] = 1] /\ pc' = [pc EXCEPT ![p] = "eval"]
          /\ stmt' = [stmt EXCEPT ![p] = s] /\ UNCHANGED reserved
      BY <1>1 DEF Begin
    <3>2. ASSUME NEW x \in Procs, x # p, pc'[x] # "release" PROVE Held!(x)'
      BY <3>1, <3>2 DEF Held, NCases, CaseAt, IsSend
    <3>3. Held!(p)'
      BY <3>1 DEF Held, NCases, CaseAt, IsSend
    <3>4. QED BY <3>2, <3>3 DEF Held
  <2>5. Closers'
    BY <1>1 DEF Begin, Closers, NoDoubleClose, ClosingIn
  <2>6. OnlyRefusedAfterSeal'
    BY <1>1 DEF Begin, OnlyRefusedAfterSeal, Sealed, Pending
  <2>7. QED BY <2>1, <2>2, <2>3, <2>4, <2>5, <2>6
<1>2. ASSUME NEW p \in Procs, EvalRecv(p)
      PROVE  (Counted /\ Positioned /\ Placed /\ Held /\ Closers /\ OnlyRefusedAfterSeal)'
  <2>1. Counted'
    BY <1>2 DEF EvalRecv, AtExpression, Counted, SendersExact, Holders
  <2>2. Positioned'
    <3>1. stmt[p] # NoStatement
      BY <1>2 DEF EvalRecv, AtExpression, NCases, NoStatement
    <3>2. QED BY <1>2, <3>1 DEF EvalRecv, AtExpression, Positioned, InBeginSend, NCases, CaseAt, IsSend
  <2>3. Placed'
    BY <1>2 DEF EvalRecv, AtExpression, Placed, Pending, CaseAt
  <2>4. Held'
    <3>1. idx' = [idx EXCEPT ![p] = idx[p] + 1]
      BY <1>2 DEF EvalRecv
    <3>2. /\ pc[p] = "expr" /\ ~IsSend(p, idx[p])
          /\ pc' = [pc EXCEPT ![p] = "eval"]
          /\ UNCHANGED <<stmt, reserved>>
      BY <1>2 DEF EvalRecv, AtExpression
    <3>3. \A i \in 1..NCases(p) : i < idx[p] + 1 => i < idx[p] \/ i = idx[p]
      BY StatementShape
    <3>4. QED BY <3>1, <3>2, <3>3 DEF Held, NCases, CaseAt, IsSend
  <2>5. Closers'
    BY <1>2 DEF EvalRecv, AtExpression, Closers, NoDoubleClose, ClosingIn
  <2>6. OnlyRefusedAfterSeal'
    BY <1>2 DEF EvalRecv, AtExpression, OnlyRefusedAfterSeal, Sealed, Pending
  <2>7. QED BY <2>1, <2>2, <2>3, <2>4, <2>5, <2>6
<1>3. ASSUME NEW p \in Procs, EvalSend(p)
      PROVE  (Counted /\ Positioned /\ Placed /\ Held /\ Closers /\ OnlyRefusedAfterSeal)'
  <2> DEFINE c == CaseAt(p, idx[p]).ch
  <2>1. CASE closed[c]
    BY <1>3, <2>1, LeaveStep DEF EvalSend, AtExpression
  <2>2. CASE ~closed[c]
    <3>1. /\ pc[p] = "expr" /\ pc' = [pc EXCEPT ![p] = "reserve"]
          /\ UNCHANGED <<chClosed, closed, senders, reserved, stmt, idx, target>>
          /\ idx[p] <= NCases(p) /\ IsSend(p, idx[p])
      BY <1>3, <2>2 DEF EvalSend, AtExpression
    <3>2. Counted'
      BY <3>1 DEF Counted, SendersExact, Holders
    <3>3. Positioned'
      BY <3>1 DEF Positioned, InBeginSend, NCases, CaseAt, IsSend
    <3>4. Placed'
      BY <3>1 DEF Placed, Pending, CaseAt
    <3>5. Held'
      BY <3>1 DEF Held, NCases, CaseAt, IsSend
    <3>6. Closers'
      BY <3>1 DEF Closers, NoDoubleClose, ClosingIn
    <3>7. OnlyRefusedAfterSeal'
      BY <3>1 DEF OnlyRefusedAfterSeal, Sealed, Pending
    <3>8. QED BY <3>2, <3>3, <3>4, <3>5, <3>6, <3>7
  <2>3. QED BY <2>1, <2>2
<1>4. ASSUME NEW p \in Procs, Reserve(p)
      PROVE  (Counted /\ Positioned /\ Placed /\ Held /\ Closers /\ OnlyRefusedAfterSeal)'
  <2>1. Counted'
    <3> DEFINE r == <<p, idx[p], CaseAt(p, idx[p]).ch>>
    <3>1. /\ pc[p] = "reserve" /\ reserved' = reserved \cup {r}
          /\ senders' = [senders EXCEPT ![r[3]] = senders[r[3]] + 1]
      BY <1>4 DEF Reserve
    <3>2. r \in Procs \X (Nat \ {0}) \X Channels
      BY <3>1, StatementShape DEF Positioned, InBeginSend
    <3>3. ASSUME r \in reserved PROVE FALSE
      <4>1. \/ pc[r[1]] = "release" \/ r[2] < idx[r[1]] \/ Pending(r)
        BY <3>3 DEF Placed
      <4>2. QED BY <3>1, <4>1 DEF Pending
    <3>4. QED BY <3>1, <3>2, <3>3, AddReservation
  <2>2. Positioned'
    BY <1>4 DEF Reserve, Positioned, InBeginSend, NCases, CaseAt, IsSend
  <2>3. Placed'
    BY <1>4 DEF Reserve, Placed, Pending, CaseAt
  <2>4. Held'
    BY <1>4 DEF Reserve, Held, NCases, CaseAt, IsSend
  <2>5. Closers'
    BY <1>4 DEF Reserve, Closers, NoDoubleClose, ClosingIn
  <2>6. OnlyRefusedAfterSeal'
    BY <1>4 DEF Reserve, OnlyRefusedAfterSeal, Sealed, Pending
  <2>7. QED BY <2>1, <2>2, <2>3, <2>4, <2>5, <2>6
<1>5. ASSUME NEW p \in Procs, Recheck(p)
      PROVE  (Counted /\ Positioned /\ Placed /\ Held /\ Closers /\ OnlyRefusedAfterSeal)'
  <2> DEFINE c == CaseAt(p, idx[p]).ch
  <2>1. /\ pc[p] = "recheck"
        /\ UNCHANGED <<chClosed, closed, senders, reserved, stmt, target>>
    BY <1>5 DEF Recheck
  <2>2. Counted'
    BY <2>1 DEF Counted, SendersExact, Holders
  <2>3. CASE closed[c]
    <3>1. pc' = [pc EXCEPT ![p] = "unreserve"] /\ idx' = idx
      BY <1>5, <2>3 DEF Recheck
    <3>2. Positioned'
      BY <2>1, <3>1 DEF Positioned, InBeginSend, NCases, CaseAt, IsSend
    <3>3. Placed'
      BY <2>1, <3>1 DEF Placed, Pending, CaseAt
    <3>4. Held'
      BY <2>1, <3>1 DEF Held, NCases, CaseAt, IsSend
    <3>5. Closers'
      BY <2>1, <3>1 DEF Closers, NoDoubleClose, ClosingIn
    <3>6. OnlyRefusedAfterSeal'
      BY <2>1, <3>1 DEF OnlyRefusedAfterSeal, Sealed, Pending
    <3>7. QED BY <2>2, <3>2, <3>3, <3>4, <3>5, <3>6
  <2>4. CASE ~closed[c]
    <3>1. pc' = [pc EXCEPT ![p] = "eval"] /\ idx' = [idx EXCEPT ![p] = idx[p] + 1]
      BY <1>5, <2>4 DEF Recheck
    <3>2. /\ idx[p] <= NCases(p) /\ IsSend(p, idx[p]) /\ <<p, idx[p], c>> \in reserved
      BY <2>1 DEF Positioned, InBeginSend, Held
    <3>3. stmt[p] # NoStatement
      BY <3>2 DEF NCases, NoStatement
    <3>4. Positioned'
      BY <2>1, <3>1, <3>3 DEF Positioned, InBeginSend, NCases, CaseAt, IsSend
    <3>5. Placed'
      BY <2>1, <3>1 DEF Placed, Pending, CaseAt
    <3>6. Held'
      <4>1. \A i \in 1..NCases(p) : i < idx[p] + 1 => i < idx[p] \/ i = idx[p]
        BY StatementShape
      <4>2. QED BY <2>1, <3>1, <3>2, <4>1 DEF Held, NCases, CaseAt, IsSend
    <3>7. Closers'
      BY <2>1, <3>1 DEF Closers, NoDoubleClose, ClosingIn
    <3>8. \A r \in reserved : Sealed(r[3]) => r[1] # p
      <4>1. SUFFICES ASSUME NEW r \in reserved, Sealed(r[3]), r[1] = p PROVE FALSE
        OBVIOUS
      <4>2. closed[r[3]]
        BY <4>1 DEF Sealed, Closers
      <4>3. r[2] = idx[p]
        BY <4>1 DEF OnlyRefusedAfterSeal, Pending
      <4>4. r[3] = c
        BY <4>1, <4>3 DEF Placed
      <4>5. QED BY <4>2, <4>4, <2>4
    <3>9. OnlyRefusedAfterSeal'
      BY <2>1, <3>1, <3>8 DEF OnlyRefusedAfterSeal, Sealed, Pending
    <3>10. QED BY <2>2, <3>4, <3>5, <3>6, <3>7, <3>9
  <2>5. QED BY <2>3, <2>4
<1>6. ASSUME NEW p \in Procs, Unreserve(p)
      PROVE  (Counted /\ Positioned /\ Placed /\ Held /\ Closers /\ OnlyRefusedAfterSeal)'
  <2>1. Counted'
    <3> DEFINE r == <<p, idx[p], CaseAt(p, idx[p]).ch>>
    <3>1. /\ pc[p] = "unreserve" /\ reserved' = reserved \ {r}
          /\ senders' = [senders EXCEPT ![r[3]] = senders[r[3]] - 1]
      BY <1>6 DEF Unreserve
    <3>2. r \in reserved
      BY <3>1 DEF Held
    <3>3. QED BY <3>1, <3>2, DropReservation
  <2>2. Positioned'
    BY <1>6 DEF Unreserve, Positioned, InBeginSend, NCases, CaseAt, IsSend
  <2>3. Placed'
    BY <1>6 DEF Unreserve, Placed, Pending, CaseAt
  <2>4. Held'
    BY <1>6 DEF Unreserve, Held, NCases, CaseAt, IsSend
  <2>5. Closers'
    BY <1>6 DEF Unreserve, Closers, NoDoubleClose, ClosingIn
  <2>6. OnlyRefusedAfterSeal'
    <3>1. /\ pc[p] = "unreserve" /\ pc' = [pc EXCEPT ![p] = "release"]
          /\ reserved' = reserved \ {<<p, idx[p], CaseAt(p, idx[p]).ch>>}
          /\ UNCHANGED <<chClosed, idx, target>>
      BY <1>6 DEF Unreserve
    <3>2. \A r \in reserved' : Sealed(r[3]) => r[1] # p
      <4>1. SUFFICES ASSUME NEW r \in reserved', Sealed(r[3]), r[1] = p PROVE FALSE
        OBVIOUS
      <4>2. r[2] = idx[p]
        BY <3>1, <4>1 DEF OnlyRefusedAfterSeal, Pending
      <4>3. r[3] = CaseAt(p, idx[p]).ch
        BY <3>1, <4>1, <4>2 DEF Placed
      <4>4. r = <<p, idx[p], CaseAt(p, idx[p]).ch>>
        BY <3>1, <4>1, <4>2, <4>3
      <4>5. QED BY <3>1, <4>4
    <3>3. \A r \in reserved' : Sealed(r[3])' => Sealed(r[3])
      BY <3>1 DEF Sealed
    <3>4. QED BY <3>1, <3>2, <3>3 DEF OnlyRefusedAfterSeal, Pending
  <2>7. QED BY <2>1, <2>2, <2>3, <2>4, <2>5, <2>6
<1>7. ASSUME NEW p \in Procs, EnterSelect(p)
      PROVE  (Counted /\ Positioned /\ Placed /\ Held /\ Closers /\ OnlyRefusedAfterSeal)'
  <2>1. Counted'
    BY <1>7 DEF EnterSelect, Counted, SendersExact, Holders
  <2>2. Positioned'
    BY <1>7 DEF EnterSelect, Positioned, InBeginSend, NCases, CaseAt, IsSend
  <2>3. Placed'
    BY <1>7 DEF EnterSelect, Placed, Pending, CaseAt
  <2>4. Held'
    BY <1>7 DEF EnterSelect, Held, NCases, CaseAt, IsSend
  <2>5. Closers'
    BY <1>7 DEF EnterSelect, Closers, NoDoubleClose, ClosingIn
  <2>6. OnlyRefusedAfterSeal'
    BY <1>7 DEF EnterSelect, OnlyRefusedAfterSeal, Sealed, Pending
  <2>7. QED BY <2>1, <2>2, <2>3, <2>4, <2>5, <2>6
<1>8. ASSUME NEW p \in Procs, NEW q \in Procs, NEW c \in Channels, HandOff(p, q, c)
      PROVE  (Counted /\ Positioned /\ Placed /\ Held /\ Closers /\ OnlyRefusedAfterSeal)'
  <2>1. Counted'
    BY <1>8 DEF HandOff, AtCase, Counted, SendersExact, Holders
  <2>2. Positioned'
    BY <1>8 DEF HandOff, AtCase, Positioned, InBeginSend, NCases, CaseAt, IsSend
  <2>3. Placed'
    BY <1>8 DEF HandOff, AtCase, Placed, Pending, CaseAt
  <2>4. Held'
    BY <1>8 DEF HandOff, AtCase, Held, NCases, CaseAt, IsSend
  <2>5. Closers'
    <3>1. /\ pc[p] = "select" /\ pc[q] = "select"
          /\ UNCHANGED <<chClosed, closed, target>>
          /\ \A x \in Procs : pc'[x] = pc[x] \/ pc'[x] = "release"
      BY <1>8 DEF HandOff, AtCase
    <3>2. \A x \in Procs : pc'[x] \in {"signal", "drain", "goclose"} =>
                           pc[x] \in {"signal", "drain", "goclose"}
      BY <3>1
    <3>3. Closers!1' /\ Closers!2'
      BY <3>1, <3>2 DEF Closers
    <3>4. NoDoubleClose'
      BY <3>1, <3>2 DEF Closers, NoDoubleClose, ClosingIn
    <3>5. QED BY <3>3, <3>4 DEF Closers
  <2>6. OnlyRefusedAfterSeal'
    BY <1>8 DEF HandOff, AtCase, OnlyRefusedAfterSeal, Sealed, Pending
  <2>7. QED BY <2>1, <2>2, <2>3, <2>4, <2>5, <2>6
<1>9. ASSUME NEW p \in Procs, EndSend(p)
      PROVE  (Counted /\ Positioned /\ Placed /\ Held /\ Closers /\ OnlyRefusedAfterSeal)'
  <2>1. Counted'
    <3>1. PICK r \in OwedBy(p) : /\ senders' = [senders EXCEPT ![r[3]] = senders[r[3]] - 1]
                                 /\ reserved' = reserved \ {r}
      BY <1>9 DEF EndSend
    <3>2. QED BY <3>1, DropReservation DEF OwedBy
  <2>2. Positioned'
    BY <1>9 DEF EndSend, OwedBy, Positioned, InBeginSend, NCases, CaseAt, IsSend
  <2>3. Placed'
    BY <1>9 DEF EndSend, OwedBy, Placed, Pending, CaseAt
  <2>4. Held'
    BY <1>9 DEF EndSend, OwedBy, Held, NCases, CaseAt, IsSend
  <2>5. Closers'
    BY <1>9 DEF EndSend, OwedBy, Closers, NoDoubleClose, ClosingIn
  <2>6. OnlyRefusedAfterSeal'
    BY <1>9 DEF EndSend, OwedBy, OnlyRefusedAfterSeal, Sealed, Pending
  <2>7. QED BY <2>1, <2>2, <2>3, <2>4, <2>5, <2>6
<1>10. ASSUME NEW p \in Procs, Finish(p)
      PROVE  (Counted /\ Positioned /\ Placed /\ Held /\ Closers /\ OnlyRefusedAfterSeal)'
  <2>1. Counted'
    BY <1>10 DEF Finish, OwedBy, Counted, SendersExact, Holders
  <2>2. Positioned'
    BY <1>10 DEF Finish, OwedBy, Positioned, InBeginSend, NCases, CaseAt, IsSend
  <2>3. Placed'
    BY <1>10 DEF Finish, OwedBy, Placed, Pending, CaseAt
  <2>4. Held'
    BY <1>10 DEF Finish, OwedBy, Held, NCases, CaseAt, IsSend
  <2>5. Closers'
    BY <1>10 DEF Finish, OwedBy, Closers, NoDoubleClose, ClosingIn
  <2>6. OnlyRefusedAfterSeal'
    BY <1>10 DEF Finish, OwedBy, OnlyRefusedAfterSeal, Sealed, Pending
  <2>7. QED BY <2>1, <2>2, <2>3, <2>4, <2>5, <2>6
<1>11. ASSUME NEW p \in Procs, NEW c \in Channels, NEW from \in {"idle", "expr"},
             CloseRefused(p, c, from)
      PROVE  (Counted /\ Positioned /\ Placed /\ Held /\ Closers /\ OnlyRefusedAfterSeal)'
  <2>1. CASE from = "expr"
    BY <1>11, <2>1, LeaveStep DEF CloseRefused, CallsClose
  <2>2. CASE from # "expr"
    <3>1. UNCHANGED <<chClosed, closed, senders, reserved, pc, stmt, idx, target>>
      BY <1>11, <2>2 DEF CloseRefused
    <3>2. Counted' /\ Positioned'
      BY <3>1 DEF Counted, SendersExact, Holders, Positioned, InBeginSend, NCases, CaseAt, IsSend
    <3>3. Placed' /\ Held'
      BY <3>1 DEF Placed, Pending, CaseAt, Held, NCases, IsSend
    <3>4. Closers'
      BY <3>1 DEF Closers, NoDoubleClose, ClosingIn
    <3>5. OnlyRefusedAfterSeal'
      BY <3>1 DEF OnlyRefusedAfterSeal, Sealed, Pending
    <3>6. QED BY <3>2, <3>3, <3>4, <3>5
  <2>3. QED BY <2>1, <2>2
<1>12. ASSUME NEW p \in Procs, NEW c \in Channels, NEW from \in {"idle", "expr"},
             Swap(p, c, from)
      PROVE  (Counted /\ Positioned /\ Placed /\ Held /\ Closers /\ OnlyRefusedAfterSeal)'
  <2>1. Counted'
    BY <1>12 DEF Swap, CallsClose, AtExpression, Counted, SendersExact, Holders
  <2>2. Positioned'
    BY <1>12 DEF Swap, CallsClose, AtExpression, Positioned, InBeginSend, NCases, CaseAt, IsSend
  <2>3. Placed'
    BY <1>12 DEF Swap, CallsClose, AtExpression, Placed, Pending, CaseAt
  <2>4. Held'
    BY <1>12 DEF Swap, CallsClose, AtExpression, Held, NCases, CaseAt, IsSend
  <2>5. Closers'
    BY <1>12 DEF Swap, CallsClose, AtExpression, Closers, NoDoubleClose, ClosingIn
  <2>6. OnlyRefusedAfterSeal'
    BY <1>12 DEF Swap, CallsClose, AtExpression, OnlyRefusedAfterSeal, Sealed, Pending
  <2>7. QED BY <2>1, <2>2, <2>3, <2>4, <2>5, <2>6
<1>13. ASSUME NEW p \in Procs, Signal(p)
      PROVE  (Counted /\ Positioned /\ Placed /\ Held /\ Closers /\ OnlyRefusedAfterSeal)'
  <2>1. Counted'
    BY <1>13 DEF Signal, Counted, SendersExact, Holders
  <2>2. Positioned'
    BY <1>13 DEF Signal, Positioned, InBeginSend, NCases, CaseAt, IsSend
  <2>3. Placed'
    BY <1>13 DEF Signal, Placed, Pending, CaseAt
  <2>4. Held'
    BY <1>13 DEF Signal, Held, NCases, CaseAt, IsSend
  <2>5. Closers'
    BY <1>13 DEF Signal, Closers, NoDoubleClose, ClosingIn
  <2>6. OnlyRefusedAfterSeal'
    BY <1>13 DEF Signal, OnlyRefusedAfterSeal, Sealed, Pending
  <2>7. QED BY <2>1, <2>2, <2>3, <2>4, <2>5, <2>6
<1>14. ASSUME NEW p \in Procs, Drained(p)
      PROVE  (Counted /\ Positioned /\ Placed /\ Held /\ Closers /\ OnlyRefusedAfterSeal)'
  <2>1. Counted'
    BY <1>14 DEF Drained, Counted, SendersExact, Holders
  <2>2. Positioned'
    BY <1>14 DEF Drained, Positioned, InBeginSend, NCases, CaseAt, IsSend
  <2>3. Placed'
    BY <1>14 DEF Drained, Placed, Pending, CaseAt
  <2>4. Held'
    BY <1>14 DEF Drained, Held, NCases, CaseAt, IsSend
  <2>5. Closers'
    BY <1>14 DEF Drained, Closers, NoDoubleClose, ClosingIn
  <2>6. OnlyRefusedAfterSeal'
    <3>1. /\ pc[p] = "drain" /\ senders[target[p]] <= 0 /\ target[p] \in Channels
          /\ pc' = [pc EXCEPT ![p] = "goclose"]
          /\ UNCHANGED <<chClosed, reserved, idx, target>>
      BY <1>14 DEF Drained, Closers
    <3>2. Holders(target[p]) = {}
      <4>1. IsFiniteSet(Holders(target[p]))
        BY FS_Subset DEF Counted, Holders
      <4>2. Cardinality(Holders(target[p])) = 0
        BY <3>1, <4>1, FS_CardinalityType DEF Counted, SendersExact
      <4>3. QED BY <4>1, <4>2, FS_EmptySet
    <3>3. \A r \in reserved : r[3] # target[p]
      BY <3>2 DEF Holders
    <3>4. QED BY <3>1, <3>3 DEF OnlyRefusedAfterSeal, Sealed, Pending
  <2>7. QED BY <2>1, <2>2, <2>3, <2>4, <2>5, <2>6
<1>15. ASSUME NEW p \in Procs, GoClose(p)
      PROVE  (Counted /\ Positioned /\ Placed /\ Held /\ Closers /\ OnlyRefusedAfterSeal)'
  <2>1. Counted'
    BY <1>15 DEF GoClose, Counted, SendersExact, Holders
  <2>2. Positioned'
    BY <1>15 DEF GoClose, Positioned, InBeginSend, NCases, CaseAt, IsSend
  <2>3. Placed'
    BY <1>15 DEF GoClose, Placed, Pending, CaseAt
  <2>4. Held'
    <3>1. UNCHANGED <<stmt, idx, reserved>> /\ pc[p] = "goclose"
      BY <1>15 DEF GoClose
    <3>2. \A q \in Procs : pc'[q] = pc[q] \/ (q = p /\ pc'[q] \in {"idle", "expr"})
      BY <1>15 DEF GoClose
    <3>3. QED BY <3>1, <3>2 DEF Held, NCases, CaseAt, IsSend
  <2>5. Closers'
    BY <1>15 DEF GoClose, Closers, NoDoubleClose, ClosingIn
  <2>6. OnlyRefusedAfterSeal'
    <3>1. /\ pc[p] = "goclose" /\ target[p] \in Channels
          /\ chClosed' = [chClosed EXCEPT ![target[p]] = TRUE]
          /\ target' = [target EXCEPT ![p] = NoChannel]
          /\ pc' = [pc EXCEPT ![p] = pc'[p]] /\ pc'[p] \in {"idle", "expr"}
          /\ UNCHANGED <<reserved, idx>>
      BY <1>15 DEF GoClose, Closers
    <3>2. \A c \in Channels : Sealed(c)' => Sealed(c)
      BY <3>1 DEF Sealed
    <3>3. \A r \in reserved : Pending(r) => Pending(r)'
      BY <3>1 DEF Pending
    <3>4. QED BY <3>1, <3>2, <3>3 DEF OnlyRefusedAfterSeal
  <2>7. QED BY <2>1, <2>2, <2>3, <2>4, <2>5, <2>6
<1>16. ASSUME NEW p \in Procs, Cancel(p)
      PROVE  (Counted /\ Positioned /\ Placed /\ Held /\ Closers /\ OnlyRefusedAfterSeal)'
  <2>1. Counted'
    BY <1>16 DEF Cancel, Counted, SendersExact, Holders
  <2>2. Positioned'
    BY <1>16 DEF Cancel, Positioned, InBeginSend, NCases, CaseAt, IsSend
  <2>3. Placed'
    BY <1>16 DEF Cancel, Placed, Pending, CaseAt
  <2>4. Held'
    BY <1>16 DEF Cancel, Held, NCases, CaseAt, IsSend
  <2>5. Closers'
    BY <1>16 DEF Cancel, Closers, NoDoubleClose, ClosingIn
  <2>6. OnlyRefusedAfterSeal'
    BY <1>16 DEF Cancel, OnlyRefusedAfterSeal, Sealed, Pending
  <2>7. QED BY <2>1, <2>2, <2>3, <2>4, <2>5, <2>6
<1>17. ASSUME NEW p \in Procs, EvalCancelled(p)
      PROVE  (Counted /\ Positioned /\ Placed /\ Held /\ Closers /\ OnlyRefusedAfterSeal)'
  BY <1>17, LeaveStep DEF EvalCancelled, AtExpression
<1>28. ASSUME NEW p \in Procs, EvalThrows(p)
      PROVE  (Counted /\ Positioned /\ Placed /\ Held /\ Closers /\ OnlyRefusedAfterSeal)'
  BY <1>28, LeaveStep DEF EvalThrows, AtExpression
<1>29. ASSUME NEW p \in Procs, Expression(p)
      PROVE  (Counted /\ Positioned /\ Placed /\ Held /\ Closers /\ OnlyRefusedAfterSeal)'
  <2>1. Counted'
    BY <1>29 DEF Expression, Counted, SendersExact, Holders
  <2>2. Positioned'
    BY <1>29 DEF Expression, AtExpression, Positioned, InBeginSend, NCases, CaseAt, IsSend
  <2>3. Placed'
    BY <1>29 DEF Expression, AtExpression, Placed, Pending, CaseAt
  <2>4. Held'
    BY <1>29 DEF Expression, AtExpression, Held, NCases, CaseAt, IsSend
  <2>5. Closers'
    BY <1>29 DEF Expression, AtExpression, Closers, NoDoubleClose, ClosingIn
  <2>6. OnlyRefusedAfterSeal'
    BY <1>29 DEF Expression, AtExpression, OnlyRefusedAfterSeal, Sealed, Pending
  <2>7. QED BY <2>1, <2>2, <2>3, <2>4, <2>5, <2>6
<1>18. ASSUME NEW p \in Procs, ChooseCancelled(p)
      PROVE  (Counted /\ Positioned /\ Placed /\ Held /\ Closers /\ OnlyRefusedAfterSeal)'
  BY <1>18, LeaveStep DEF ChooseCancelled, Chosen
<1>19. ASSUME NEW p \in Procs, ChooseDefault(p)
      PROVE  (Counted /\ Positioned /\ Placed /\ Held /\ Closers /\ OnlyRefusedAfterSeal)'
  BY <1>19, LeaveStep DEF ChooseDefault, Chosen
<1>20. ASSUME NEW p \in Procs, NEW c \in Channels, ChooseSend(p, c)
      PROVE  (Counted /\ Positioned /\ Placed /\ Held /\ Closers /\ OnlyRefusedAfterSeal)'
  BY <1>20, LeaveStep DEF ChooseSend, Chosen, AtCase
<1>21. ASSUME NEW p \in Procs, NEW c \in Channels, ChooseRecv(p, c)
      PROVE  (Counted /\ Positioned /\ Placed /\ Held /\ Closers /\ OnlyRefusedAfterSeal)'
  BY <1>21, LeaveStep DEF ChooseRecv, Chosen, AtCase
<1>22. ASSUME NEW p \in Procs, NEW c \in Channels, ChooseClosedRecv(p, c)
      PROVE  (Counted /\ Positioned /\ Placed /\ Held /\ Closers /\ OnlyRefusedAfterSeal)'
  BY <1>22, LeaveStep DEF ChooseClosedRecv, Chosen, AtCase
<1>23. ASSUME NEW p \in Procs, NEW c \in Channels, ChooseClosing(p, c)
      PROVE  (Counted /\ Positioned /\ Placed /\ Held /\ Closers /\ OnlyRefusedAfterSeal)'
  BY <1>23, LeaveStep DEF ChooseClosing, Chosen, AtCase
<1>24. CASE UNCHANGED vars
  <2>1. Counted'
    BY <1>24 DEF vars, Counted, SendersExact, Holders
  <2>2. Positioned'
    BY <1>24 DEF vars, Positioned, InBeginSend, NCases, CaseAt, IsSend
  <2>3. Placed'
    BY <1>24 DEF vars, Placed, Pending, CaseAt
  <2>4. Held'
    BY <1>24 DEF vars, Held, NCases, CaseAt, IsSend
  <2>5. Closers'
    BY <1>24 DEF vars, Closers, NoDoubleClose, ClosingIn
  <2>6. OnlyRefusedAfterSeal'
    BY <1>24 DEF vars, OnlyRefusedAfterSeal, Sealed, Pending
  <2>7. QED BY <2>1, <2>2, <2>3, <2>4, <2>5, <2>6
<1> HIDE DEF IndInv, Typed, Goto, Returns, chanVars, sendVars
<1>25. ASSUME NEW p \in Procs, SelectStep(p)
      PROVE  (Counted /\ Positioned /\ Placed /\ Held /\ Closers /\ OnlyRefusedAfterSeal)'
  BY <1>25, <1>20, <1>21, <1>22, <1>23, <1>18, <1>19 DEF SelectStep
<1>26. ASSUME NEW p \in Procs, Step(p)
      PROVE  (Counted /\ Positioned /\ Placed /\ Held /\ Closers /\ OnlyRefusedAfterSeal)'
  BY <1>26, <1>25, <1>17, <1>29, <1>4, <1>5, <1>6, <1>7,
     <1>9, <1>10, <1>13, <1>14, <1>15 DEF Step
<1>27. QED BY <1>26, <1>2, <1>3, <1>28, <1>24, <1>1, <1>16, <1>11, <1>12, <1>8 DEF Next, EndOfExpression

--------------------------------------------------------------------------------
(* The theorems.                                                           *)

\* The inductive invariant holds in every reachable state.
THEOREM Inductive == Spec => []IndInv
<1>1. Init => IndInv
  <2> SUFFICES ASSUME Init PROVE IndInv
    OBVIOUS
  <2>1. Typed
    BY TypedInit
  <2>2. Counted
    BY FS_EmptySet DEF Init, Counted, SendersExact, Holders
  <2>3. Positioned /\ Placed /\ Held
    BY DEF Init, Positioned, InBeginSend, Placed, Pending, Held, NoStatement, NCases
  <2>4. Closers /\ OnlyRefusedAfterSeal
    BY DEF Init, Closers, NoDoubleClose, ClosingIn, OnlyRefusedAfterSeal
  <2>5. QED BY <2>1, <2>2, <2>3, <2>4 DEF IndInv
<1>2. IndInv /\ [Next]_vars => IndInv'
  BY TypedStep, OtherStep DEF IndInv
<1>3. QED BY <1>1, <1>2, PTL DEF Spec

\* The types hold, and the sender counter never goes below zero.
THEOREM TypeCorrect == Spec => []TypeOK
<1>1. IndInv => TypeOK
  <2> SUFFICES ASSUME IndInv PROVE TypeOK
    OBVIOUS
  <2>1. ASSUME NEW c \in Channels PROVE senders[c] \in Nat
    BY FS_Subset, FS_CardinalityType DEF IndInv, Counted, SendersExact, Holders
  <2>2. senders \in [Channels -> Nat]
    BY <2>1 DEF IndInv, Typed
  <2>3. QED BY <2>2 DEF IndInv, Typed, TypeOK
<1>2. QED BY <1>1, Inductive, PTL

\* The counter equals the number of reservations in every reachable state.
THEOREM CounterExact == Spec => []SendersExact
<1>1. IndInv => SendersExact
  BY DEF IndInv, Counted
<1>2. QED BY <1>1, Inductive, PTL

\* Neither close(closing) nor close(c.Ch) runs twice.
THEOREM ClosedOnce == Spec => []NoDoubleClose
<1>1. IndInv => NoDoubleClose
  BY DEF IndInv, Closers
<1>2. QED BY <1>1, Inductive, PTL

\* No goroutine is ever in a Go send on a closed channel: the send case of a
\* goroutine in its select holds a confirmed reservation, and the closer saw
\* none when it read the counter.
THEOREM NeverSendsOnClosed == Spec => []NoSendOnClosedChannel
<1>1. IndInv => NoSendOnClosedChannel
  <2> SUFFICES ASSUME IndInv, NEW p \in Procs, NEW c \in Channels,
                      AtCase(p, "send", c), chClosed[c]
               PROVE  FALSE
    BY DEF NoSendOnClosedChannel
  <2>1. PICK i \in 1..NCases(p) : CaseAt(p, i) = [dir |-> "send", ch |-> c]
    BY DEF AtCase
  <2>2. pc[p] = "select" /\ i < idx[p]
    BY StatementShape DEF AtCase, IndInv, Positioned
  <2>3. <<p, i, c>> \in reserved
    <3>1. IsSend(p, i) /\ CaseAt(p, i).ch = c
      BY <2>1 DEF IsSend
    <3>2. QED BY <2>2, <3>1 DEF IndInv, Held
  <2>4. QED BY <2>2, <2>3 DEF IndInv, OnlyRefusedAfterSeal, Sealed, Pending
<1>2. QED BY <1>1, Inductive, PTL

\* No operation on a Go channel panics, for any number of goroutines, channels
\* and statements (TryClose, TrySendContext, executeSelect).
THEOREM NeverPanics == Spec => []ChannelNeverPanics
<1>1. NoDoubleClose /\ NoSendOnClosedChannel => ChannelNeverPanics
  BY DEF ChannelNeverPanics
<1>2. QED BY <1>1, ClosedOnce, NeverSendsOnClosed, PTL

--------------------------------------------------------------------------------
(* The channel implements its contract.                                    *)

\* What the contract's guards need beyond the inductive invariant: a statement
\* has no outcome before it is over, and a flag that a sender has seen set is
\* the flag of a close that has begun.
Observed ==
    /\ \A p \in Procs : pc[p] \notin {"idle", "release"} => out[p] = <<"none">>
    /\ \A c \in Channels : closing[c] => closed[c]
    /\ \A p \in Procs : pc[p] = "unreserve" => closed[CaseAt(p, idx[p]).ch]

\* The phase of each channel in the contract.
Phase == [c \in Channels |-> IF chClosed[c] THEN "closed" ELSE IF closed[c] THEN "closing" ELSE "open"]

LEMMA ObservedStep ==
    ASSUME IndInv, Observed, [Next]_vars
    PROVE  Observed'
<1> USE DEF IndInv, Typed, Observed, Goto, Returns, chanVars, sendVars
<1>1. ASSUME NEW p \in Procs, NEW s \in Statements, Begin(p, s) PROVE Observed'
  BY <1>1 DEF Begin, CaseAt
<1>2. ASSUME NEW p \in Procs, EvalCancelled(p) PROVE Observed'
  BY <1>2 DEF EvalCancelled, CaseAt
<1>3. ASSUME NEW p \in Procs, EvalRecv(p) PROVE Observed'
  BY <1>3 DEF EvalRecv, AtExpression, CaseAt
<1>4. ASSUME NEW p \in Procs, EvalSend(p) PROVE Observed'
  BY <1>4 DEF EvalSend, AtExpression, CaseAt
<1>5. ASSUME NEW p \in Procs, Reserve(p) PROVE Observed'
  BY <1>5 DEF Reserve, CaseAt
<1>6. ASSUME NEW p \in Procs, Recheck(p) PROVE Observed'
  BY <1>6 DEF Recheck, CaseAt
<1>7. ASSUME NEW p \in Procs, Unreserve(p) PROVE Observed'
  BY <1>7 DEF Unreserve, CaseAt
<1>8. ASSUME NEW p \in Procs, EnterSelect(p) PROVE Observed'
  BY <1>8 DEF EnterSelect, CaseAt
<1>9. ASSUME NEW p \in Procs, NEW o, Chosen(p, o), pc[p] = "select" PROVE Observed'
  BY <1>9 DEF Chosen, CaseAt
<1>10. ASSUME NEW p \in Procs, SelectStep(p) PROVE Observed'
  BY <1>9, <1>10 DEF SelectStep, ChooseSend, ChooseRecv, ChooseClosedRecv, ChooseClosing, ChooseCancelled,
                     ChooseDefault, AtCase
<1>11. ASSUME NEW p \in Procs, NEW q \in Procs, NEW c \in Channels, HandOff(p, q, c) PROVE Observed'
  BY <1>11 DEF HandOff, CaseAt
<1>12. ASSUME NEW p \in Procs, EndSend(p) PROVE Observed'
  BY <1>12 DEF EndSend, CaseAt
<1>13. ASSUME NEW p \in Procs, Finish(p) PROVE Observed'
  BY <1>13 DEF Finish, CaseAt
<1>14. ASSUME NEW p \in Procs, NEW c \in Channels, NEW from \in {"idle", "expr"}, CloseRefused(p, c, from)
       PROVE  Observed'
  BY <1>14 DEF CloseRefused, CallsClose, CaseAt
<1>15. ASSUME NEW p \in Procs, NEW c \in Channels, NEW from \in {"idle", "expr"}, Swap(p, c, from)
       PROVE  Observed'
  BY <1>15 DEF Swap, CallsClose, CaseAt
<1>16. ASSUME NEW p \in Procs, Signal(p) PROVE Observed'
  BY <1>16 DEF Signal, Closers, CaseAt
<1>17. ASSUME NEW p \in Procs, Drained(p) PROVE Observed'
  BY <1>17 DEF Drained, CaseAt
<1>18. ASSUME NEW p \in Procs, GoClose(p) PROVE Observed'
  BY <1>18 DEF GoClose, CaseAt
<1>19. ASSUME NEW p \in Procs, Cancel(p) PROVE Observed'
  BY <1>19 DEF Cancel, CaseAt
<1>20. CASE UNCHANGED vars
  BY <1>20 DEF vars, CaseAt
<1>23. ASSUME NEW p \in Procs, Expression(p) PROVE Observed'
  BY <1>23 DEF Expression, AtExpression, CaseAt
<1>24. ASSUME NEW p \in Procs, EvalThrows(p) PROVE Observed'
  BY <1>24 DEF EvalThrows, CaseAt
<1> HIDE DEF IndInv, Typed, Observed, Goto, Returns, chanVars, sendVars
<1>21. ASSUME NEW p \in Procs, Step(p) PROVE Observed'
  BY <1>2, <1>23, <1>5, <1>6, <1>7, <1>8, <1>10, <1>12, <1>13, <1>16, <1>17, <1>18, <1>21 DEF Step
<1>22. QED
  BY <1>1, <1>3, <1>4, <1>24, <1>11, <1>14, <1>15, <1>19, <1>20, <1>21 DEF Next, EndOfExpression

\* Every step of a goroutine is a step of the contract or leaves what the
\* contract speaks of as it was.
LEMMA ContractStep ==
    ASSUME IndInv, Observed, [Next]_vars
    PROVE  [Contract!CNext]_(Contract!cvars)
<1> DEFINE Implements == [Contract!CNext]_(Contract!cvars)
<1>a. ASSUME UNCHANGED <<buf, chClosed, closed, out>> PROVE Implements
  BY <1>a DEF Contract!cvars
<1>b. \A p \in Procs : pc[p] \notin {"idle", "release"} => out[p] = <<"none">>
  BY DEF Observed
<1>c. \A c \in Channels : closed[c] => Phase[c] # "open"
  BY DEF Phase
<1>d. \A c \in Channels : ~chClosed[c] => Phase[c] # "closed"
  BY DEF Phase
<1>1. ASSUME NEW p \in Procs, NEW s \in Statements, Begin(p, s) PROVE Implements
  <2>1. Contract!CStart(p)
    BY <1>1 DEF Begin, Returns, chanVars, Contract!CStart
  <2>2. QED
    BY <2>1 DEF Contract!CNext
<1>2. ASSUME NEW p \in Procs, EvalCancelled(p) PROVE Implements
  <2>1. Contract!CGiveUp(p)
    BY <1>2, <1>b DEF EvalCancelled, AtExpression, Returns, chanVars, Contract!CGiveUp
  <2>2. QED
    BY <2>1 DEF Contract!CNext
<1>20. ASSUME NEW p \in Procs, EvalThrows(p) PROVE Implements
  <2>1. Contract!CGiveUp(p)
    BY <1>20, <1>b DEF EvalThrows, AtExpression, Returns, chanVars, Contract!CGiveUp
  <2>2. QED
    BY <2>1 DEF Contract!CNext
\* A send that is refused.
<1>3. ASSUME NEW p \in Procs, NEW c \in Channels, pc[p] \notin {"idle", "release"}, closed[c], Returns(p, <<"refused">>),
             UNCHANGED <<buf, chClosed, closed>>
      PROVE  Implements
  <2>1. Contract!CRefuse(p, c)
    BY <1>3, <1>b, <1>c DEF Phase, Returns, Contract!CRefuse
  <2>2. QED
    BY <2>1 DEF Contract!CNext
<1>4. ASSUME NEW p \in Procs, EvalSend(p) PROVE Implements
  <2>1. CaseAt(p, idx[p]).ch \in Channels
    BY <1>4, StatementShape DEF EvalSend, AtExpression, IndInv, Typed
  <2>2. QED
    BY <1>3, <1>4, <1>a, <2>1 DEF EvalSend, AtExpression, chanVars
<1>5. ASSUME NEW p \in Procs, Unreserve(p) PROVE Implements
  <2>1. CaseAt(p, idx[p]).ch \in Channels /\ closed[CaseAt(p, idx[p]).ch]
    BY <1>5, StatementShape DEF Unreserve, IndInv, Typed, Positioned, InBeginSend, Observed
  <2>2. QED
    BY <1>3, <1>5, <2>1 DEF Unreserve, chanVars
<1>6. ASSUME NEW p \in Procs, NEW c \in Channels, ChooseSend(p, c) PROVE Implements
  <2>1. Contract!CSend(p, c)
    BY <1>6, <1>b, <1>d DEF ChooseSend, AtCase, Chosen, Returns, Phase, Contract!CSend
  <2>2. QED
    BY <2>1 DEF Contract!CNext
<1>7. ASSUME NEW p \in Procs, NEW c \in Channels, ChooseRecv(p, c) PROVE Implements
  <2>1. Contract!CRecv(p, c)
    BY <1>7, <1>b DEF ChooseRecv, AtCase, Chosen, Returns, Contract!CRecv
  <2>2. QED
    BY <2>1 DEF Contract!CNext
<1>8. ASSUME NEW p \in Procs, NEW c \in Channels, ChooseClosedRecv(p, c) PROVE Implements
  <2>1. Contract!CNil(p, c)
    BY <1>8, <1>b DEF ChooseClosedRecv, AtCase, Chosen, Returns, Contract!CNil
  <2>2. QED
    BY <2>1 DEF Contract!CNext
<1>9. ASSUME NEW p \in Procs, NEW c \in Channels, ChooseClosing(p, c) PROVE Implements
  BY <1>3, <1>9 DEF ChooseClosing, AtCase, Chosen, Observed
<1>10. ASSUME NEW p \in Procs, ChooseCancelled(p) \/ ChooseDefault(p) PROVE Implements
  <2>1. Contract!CGiveUp(p)
    BY <1>10, <1>b DEF ChooseCancelled, ChooseDefault, Chosen, Returns, Contract!CGiveUp
  <2>2. QED
    BY <2>1 DEF Contract!CNext
<1>11. ASSUME NEW p \in Procs, NEW q \in Procs, NEW c \in Channels, HandOff(p, q, c) PROVE Implements
  <2>1. Contract!CHandOff(p, q, c)
    BY <1>11, <1>b, <1>d DEF HandOff, AtCase, chanVars, Phase, Contract!CHandOff
  <2>2. QED
    BY <2>1 DEF Contract!CNext
<1>12. ASSUME NEW p \in Procs, NEW c \in Channels, NEW from \in {"idle", "expr"}, CloseRefused(p, c, from)
       PROVE  Implements
  <2>1. Contract!CRefuseClose(p, c)
    BY <1>12, <1>c DEF CloseRefused, Returns, chanVars, Phase, Contract!CRefuseClose
  <2>2. QED
    BY <2>1 DEF Contract!CNext
<1>13. ASSUME NEW p \in Procs, NEW c \in Channels, NEW from \in {"idle", "expr"}, Swap(p, c, from)
       PROVE  Implements
  <2>1. ~closed[c] /\ ~chClosed[c]
    BY <1>13 DEF Swap, IndInv, Closers
  <2>2. Phase[c] = "open"
    BY <2>1 DEF Phase
  <2>3. Phase' = [Phase EXCEPT ![c] = "closing"]
    BY <1>13, <2>1 DEF Swap, Phase, IndInv, Typed
  <2>4. Contract!CBeginClose(p, c)
    BY <1>13, <2>2, <2>3 DEF Swap, Returns, Phase, Contract!CBeginClose
  <2>5. QED
    BY <2>4 DEF Contract!CNext
<1>14. ASSUME NEW p \in Procs, GoClose(p) PROVE Implements
  <2>1. PICK c \in Channels : c = target[p] /\ closed[c] /\ ~chClosed[c]
    BY <1>14 DEF GoClose, IndInv, Closers, NoDoubleClose, ClosingIn
  <2>2. Phase[c] = "closing"
    BY <2>1 DEF Phase
  <2>3. Phase' = [Phase EXCEPT ![c] = "closed"]
    BY <1>14, <2>1 DEF GoClose, Phase, IndInv, Typed
  <2>4. CASE stmt[p] = NoStatement
    <3>1. Contract!CEndClose(p, c)
      BY <1>14, <1>b, <2>1, <2>2, <2>3, <2>4 DEF GoClose, Returns, Phase, Contract!CEndClose
    <3>2. QED
      BY <2>1, <3>1 DEF Contract!CNext
  <2>5. CASE stmt[p] # NoStatement
    <3>1. Contract!CEndNestedClose(c)
      BY <1>14, <2>1, <2>2, <2>3, <2>5 DEF GoClose, Phase, Contract!CEndNestedClose
    <3>2. QED
      BY <2>1, <3>1 DEF Contract!CNext
  <2>6. QED
    BY <2>4, <2>5
\* The steps inside beginSend, TryClose and the deferred endSend.
<1>15. ASSUME NEW p \in Procs,
              \/ EvalRecv(p) \/ Expression(p) \/ Reserve(p) \/ Recheck(p) \/ EnterSelect(p) \/ EndSend(p) \/ Finish(p)
              \/ Signal(p) \/ Drained(p) \/ Cancel(p)
       PROVE  Implements
  <2>1. UNCHANGED <<buf, chClosed, closed, out>>
    BY <1>15 DEF EvalRecv, Expression, Reserve, Recheck, EnterSelect, EndSend, Finish, Signal, Drained, Cancel, chanVars
  <2>2. QED
    BY <1>a, <2>1
<1>16. ASSUME UNCHANGED vars PROVE Implements
  BY <1>16, <1>a DEF vars
<1> HIDE DEF Implements
<1>17. ASSUME NEW p \in Procs, Step(p) PROVE Implements
  BY <1>2, <1>5, <1>6, <1>7, <1>8, <1>9, <1>10, <1>14, <1>15, <1>17 DEF Step, SelectStep
<1>18. Implements
  <2>1. CASE \E p \in Procs : Step(p) \/ EndOfExpression(p) \/ Cancel(p)
    BY <1>4, <1>15, <1>17, <1>20, <2>1 DEF EndOfExpression
  <2>2. CASE \E p \in Procs, s \in Statements : Begin(p, s)
    BY <1>1, <2>2
  <2>3. CASE \E p \in Procs, c \in Channels, from \in {"idle", "expr"} : CloseRefused(p, c, from) \/ Swap(p, c, from)
    BY <1>12, <1>13, <2>3
  <2>4. CASE \E p, q \in Procs, c \in Channels : HandOff(p, q, c)
    BY <1>11, <2>4
  <2>5. CASE Next
    BY <2>1, <2>2, <2>3, <2>4, <2>5, Zenon DEF Next
  <2>6. QED
    BY <1>16, <2>5
<1>19. QED
  BY <1>18 DEF Implements

\* The reservations, flags and signals of channel.go implement a bounded FIFO
\* that opens, begins to close and is closed, for any number of goroutines,
\* channels, capacities and statements: what send, recv, close and select
\* answer is what the contract allows.
THEOREM ImplementsTheContract == Spec => ImplementsContract
<1>1. Init => Contract!CInit
  BY DEF Init, Contract!CInit
<1>2. Init => Observed
  BY DEF Init, Observed
<1>3. IndInv /\ Observed /\ [Next]_vars => Observed' /\ [Contract!CNext]_(Contract!cvars)
  BY ObservedStep, ContractStep
<1>4. QED
  BY <1>1, <1>2, <1>3, Inductive, PTL DEF Spec, ImplementsContract, Contract!CSpec
================================================================================
