------------------------------ MODULE JossCallsProofs ------------------------------
(***************************************************************************)
(* What holds of the calls of the interpreter for any number of frames, of *)
(* calls and of deferred blocks, and of generators for any number of       *)
(* consumers: an invariant of JossGenerator counts the items, and another  *)
(* one says who can close done.                                            *)
(***************************************************************************)
EXTENDS JossCalls, JossGenerator, FiniteSetTheorems, TLAPS

\* The entries that own their frame: a call, or its deferred closure.
Owner == {"body", "closing"}

\* The file is the lowest entry, and no two calls have the same frame.
Own ==
    /\ Len(stack) > 0 => stack[1].frame = File /\ stack[1].kind \in Owner
    /\ \A i, j \in 1..Len(stack) :
          stack[i].kind \in Owner /\ stack[j].kind \in Owner /\ stack[i].frame = stack[j].frame
          => i = j

\* Every deferred block of a call is either begun or left to its closure.
Shared ==
    \A i \in 1..Len(stack) : LET f == stack[i].frame IN
        /\ stack[i].kind = "body" => begun[f] = 0
        /\ stack[i].kind = "closing" =>
              /\ begun[f] + stack[i].left <= Len(defers[f])
              /\ "nested" \notin cut => begun[f] + stack[i].left = Len(defers[f])

\* The depth counts at least the calls on the stack.
Counted ==
    /\ IsFiniteSet(Calls)
    /\ depth >= Cardinality(Calls)
    /\ "panic" \notin cut => depth = Cardinality(Calls)

\* The chain of frames: a call is made from the frame below, every other
\* block belongs to it, and the top of the chain is the current frame.
Chain ==
    "panic" \notin cut =>
        /\ \A i \in 1..Len(stack) : stack[i].seen = stack[i].frame
        /\ \A i \in 2..Len(stack) :
              IF stack[i].kind \in Owner THEN stack[i].parent = stack[i-1].frame
              ELSE stack[i].frame = stack[i-1].frame
        /\ Len(stack) > 0 => current = stack[Len(stack)].frame

Inv == TypeOK /\ Own /\ Shared /\ Counted /\ Chain

-----------------------------------------------------------------------------
(* The stack after a push, a change of its top, a pop.                     *)

LEMMA Changed ==
    ASSUME NEW S, NEW s \in Seq(S), NEW t \in S, Len(s) > 0,
           NEW u, u = [s EXCEPT ![Len(s)] = t]
    PROVE  /\ u \in Seq(S)
           /\ Len(u) = Len(s)
           /\ u[Len(s)] = t
           /\ \A i \in 1..(Len(s)-1) : u[i] = s[i]
    OBVIOUS

LEMMA Pushed ==
    ASSUME NEW S, NEW s \in Seq(S), NEW t \in S, NEW e \in S, Len(s) > 0,
           NEW u, u = Append([s EXCEPT ![Len(s)] = t], e)
    PROVE  /\ u \in Seq(S)
           /\ Len(u) = Len(s) + 1
           /\ u[Len(s) + 1] = e
           /\ u[Len(s)] = t
           /\ \A i \in 1..(Len(s)-1) : u[i] = s[i]
  <1> DEFINE w == [s EXCEPT ![Len(s)] = t]
  <1>1. /\ w \in Seq(S) /\ Len(w) = Len(s) /\ w[Len(s)] = t
        /\ \A i \in 1..(Len(s)-1) : w[i] = s[i]
    BY Changed
  <1>2. u = Append(w, e)
    OBVIOUS
  <1> HIDE DEF w
  <1> QED BY <1>1, <1>2

LEMMA Popped ==
    ASSUME NEW S, NEW s \in Seq(S), NEW n \in 0..Len(s),
           NEW u, u = SubSeq(s, 1, n)
    PROVE  /\ u \in Seq(S)
           /\ Len(u) = n
           /\ \A i \in 1..n : u[i] = s[i]
    OBVIOUS

\* The step changes the top to t.
Turns(t) ==
    /\ stack' \in Seq(Entries)
    /\ Len(stack') = Len(stack)
    /\ stack'[Len(stack)] = t
    /\ \A i \in 1..(Len(stack)-1) : stack'[i] = stack[i]

\* The step puts e on the top t.
Grows(t, e) ==
    /\ stack' \in Seq(Entries)
    /\ Len(stack') = Len(stack) + 1
    /\ stack'[Len(stack) + 1] = e
    /\ stack'[Len(stack)] = t
    /\ \A i \in 1..(Len(stack)-1) : stack'[i] = stack[i]

\* The step takes entries away and leaves the lowest n.
Shrinks(n) ==
    /\ stack' \in Seq(Entries)
    /\ Len(stack') = n
    /\ \A i \in 1..n : stack'[i] = stack[i]

LEMMA Growth ==
    ASSUME TypeOK, Len(stack) > 0, NEW t \in Entries, NEW e \in Entries,
           stack' = Append([stack EXCEPT ![Len(stack)] = t], e)
    PROVE  Grows(t, e)
  <1>1. stack \in Seq(Entries)
    BY DEF TypeOK
  <1> QED BY <1>1, Pushed DEF Grows

LEMMA Turn ==
    ASSUME TypeOK, Len(stack) > 0, NEW t \in Entries,
           stack' = [stack EXCEPT ![Len(stack)] = t]
    PROVE  Turns(t)
  <1>1. stack \in Seq(Entries)
    BY DEF TypeOK
  <1> QED BY <1>1, Changed DEF Turns

LEMMA Shrink ==
    ASSUME TypeOK, NEW n \in 0..Len(stack), stack' = SubSeq(stack, 1, n)
    PROVE  Shrinks(n)
  <1>1. stack \in Seq(Entries)
    BY DEF TypeOK
  <1> QED BY <1>1, Popped DEF Shrinks

-----------------------------------------------------------------------------
(* A statement changes nothing of its block that the invariant looks at.   *)

Alike ==
    /\ stack' \in Seq(Entries)
    /\ Len(stack') = Len(stack)
    /\ \A i \in 1..Len(stack) :
          /\ stack'[i].kind = stack[i].kind /\ stack'[i].frame = stack[i].frame
          /\ stack'[i].seen = stack[i].seen /\ stack'[i].parent = stack[i].parent
          /\ stack[i].kind = "closing" => stack'[i].left = stack[i].left

LEMMA AfterType ==
    ASSUME TypeOK, Starts
    PROVE  /\ Len(stack) > 0 /\ Top \in Entries
           /\ [Top EXCEPT !.began = TRUE,
                          !.left = IF Top.kind = "deferred" THEN @ - 1 ELSE @] \in Entries
  <1>1. /\ Len(stack) > 0 /\ stack \in Seq(Entries) /\ Top \in Entries
        /\ Top.kind = "deferred" => Top.left > 0
    BY DEF TypeOK, Starts, InBlock, Top, MayGoOn
  <1> DEFINE e == Top
  <1> HIDE DEF e
  <1>2. e \in Entries /\ (e.kind = "deferred" => e.left > 0)
    BY <1>1 DEF e
  <1>3. [e EXCEPT !.began = TRUE, !.left = IF e.kind = "deferred" THEN @ - 1 ELSE @] \in Entries
    <2> DEFINE l == IF e.kind = "deferred" THEN e.left - 1 ELSE e.left
    <2>1. l \in Nat
      BY <1>2 DEF Entries
    <2>2. [e EXCEPT !.began = TRUE, !.left = IF e.kind = "deferred" THEN @ - 1 ELSE @]
            = [e EXCEPT !.began = TRUE, !.left = l]
      BY <1>2 DEF Entries
    <2> HIDE DEF l
    <2>3. [e EXCEPT !.began = TRUE, !.left = l] \in Entries
      BY <1>2, <2>1 DEF Entries
    <2> QED BY <2>2, <2>3
  <1> QED BY <1>1, <1>3 DEF e

LEMMA After ==
    ASSUME TypeOK, Starts, stack' = AfterStatement
    PROVE  Alike
  <1> DEFINE t == [Top EXCEPT !.began = TRUE,
                              !.left = IF Top.kind = "deferred" THEN @ - 1 ELSE @]
  <1>1. Len(stack) > 0 /\ t \in Entries /\ stack \in Seq(Entries) /\ Top.kind # "closing"
    BY AfterType DEF TypeOK, Starts, InBlock, Blocks
  <1>2. stack' = [stack EXCEPT ![Len(stack)] = t]
    BY DEF AfterStatement, WithTop
  <1>3. /\ t.kind = Top.kind /\ t.frame = Top.frame
        /\ t.seen = Top.seen /\ t.parent = Top.parent
    BY <1>1, AfterType DEF Entries
  <1> HIDE DEF t
  <1>4. /\ stack' \in Seq(Entries) /\ Len(stack') = Len(stack)
        /\ stack'[Len(stack)] = t
        /\ \A i \in 1..(Len(stack)-1) : stack'[i] = stack[i]
    BY <1>1, <1>2, Changed
  <1> QED BY <1>1, <1>3, <1>4 DEF Alike, Top

LEMMA Steady ==
    ASSUME Inv, Alike, UNCHANGED <<current, depth>>,
           "panic" \in cut' <=> "panic" \in cut
    PROVE  Own' /\ Counted' /\ Chain'
  <1> USE DEF Alike
  <1>1. Own'
    BY DEF Inv, Own
  <1>2. Calls' = Calls
    <2>1. DOMAIN stack = 1..Len(stack) /\ DOMAIN stack' = 1..Len(stack')
      BY DEF Inv, TypeOK
    <2> QED BY <2>1 DEF Calls
  <1>3. Counted'
    BY <1>2 DEF Inv, Counted
  <1>4. Chain'
    <2> SUFFICES ASSUME "panic" \notin cut
                 PROVE  /\ \A i \in 1..Len(stack') : stack'[i].seen = stack'[i].frame
                        /\ \A i \in 2..Len(stack') :
                              IF stack'[i].kind \in Owner
                              THEN stack'[i].parent = stack'[i-1].frame
                              ELSE stack'[i].frame = stack'[i-1].frame
                        /\ Len(stack') > 0 => current' = stack'[Len(stack')].frame
      BY DEF Chain
    <2>1. \A i \in 2..Len(stack) : i \in 1..Len(stack) /\ i-1 \in 1..Len(stack)
      BY DEF Inv, TypeOK
    <2>2. Len(stack) \in Nat /\ (Len(stack) > 0 => Len(stack) \in 1..Len(stack))
      BY DEF Inv, TypeOK
    <2> QED BY <2>1, <2>2 DEF Inv, Chain
  <1> QED BY <1>1, <1>3, <1>4

LEMMA SteadyShared ==
    ASSUME Inv, Alike, UNCHANGED <<defers, begun, cut>>
    PROVE  Shared'
  BY DEF Inv, Alike, Shared

-----------------------------------------------------------------------------
(* Typing.                                                                 *)

LEMMA EntryType ==
    ASSUME NEW k \in Blocks, NEW f \in Scopes, NEW s \in Scopes
    PROVE  Entry(k, f, s) \in Entries
  BY DEF Entry, Entries, Panics, Blocks, Scopes

LEMMA TopType ==
    ASSUME TypeOK, Len(stack) > 0
    PROVE  /\ Top \in Entries /\ Top = stack[Len(stack)]
           /\ Len(stack) \in 1..Len(stack)
           /\ stack \in Seq(Entries)
  BY DEF TypeOK, Top

LEMMA BelowShrinks ==
    ASSUME TypeOK, Len(stack) > 0, stack' = Below
    PROVE  Shrinks(Len(stack) - 1)
  <1>1. Len(stack) - 1 \in 0..Len(stack)
    BY DEF TypeOK
  <1> QED BY <1>1, Shrink DEF Below

\* The block under execution, a statement further.
Further ==
    [Top EXCEPT !.began = TRUE, !.left = IF Top.kind = "deferred" THEN @ - 1 ELSE @]

\* It is the same block still.
LEMMA FurtherSame ==
    ASSUME TypeOK, Starts
    PROVE  /\ Len(stack) > 0
           /\ Further \in Entries /\ Top \in Entries /\ Top.kind # "closing"
           /\ Further.kind = Top.kind /\ Further.frame = Top.frame
           /\ Further.seen = Top.seen /\ Further.parent = Top.parent
  BY AfterType DEF Further, Entries, Starts, InBlock, Blocks

\* A call puts the entry of its body on the stack.
LEMMA CallGrows ==
    ASSUME TypeOK, NEW f \in Frames, Call(f)
    PROVE  Grows(Further, [Entry("body", f, f) EXCEPT !.parent = current])
  <1>1. Starts
    BY DEF Call
  <1>2. [Entry("body", f, f) EXCEPT !.parent = current] \in Entries
    BY DEF Entry, Entries, TypeOK, Blocks, Panics, Scopes
  <1> HIDE DEF Entry
  <1>3. stack' = Append([stack EXCEPT ![Len(stack)] = Further],
                        [Entry("body", f, f) EXCEPT !.parent = current])
    BY DEF Call, AfterStatement, WithTop, Further
  <1> QED BY <1>1, <1>2, <1>3, FurtherSame, Growth

LEMMA TryGrows ==
    ASSUME TypeOK, Try
    PROVE  Grows(Further, Entry("try", Top.frame, current))
  <1>1. Starts
    BY DEF Try
  <1>2. Top.frame \in Scopes /\ current \in Scopes
    BY <1>1, FurtherSame DEF Entries, TypeOK
  <1>3. Entry("try", Top.frame, current) \in Entries
    BY <1>2, EntryType DEF Blocks
  <1>4. stack' = Append([stack EXCEPT ![Len(stack)] = Further],
                        Entry("try", Top.frame, current))
    BY DEF Try, AfterStatement, WithTop, Further
  <1> QED BY <1>1, <1>3, <1>4, FurtherSame, Growth

\* The closure with one block fewer to begin, and the block it begins.
Fewer == [Top EXCEPT !.left = @ - 1]
Begins == [Entry("deferred", Top.frame, current) EXCEPT !.left = defers[Top.frame][Top.left]]

LEMMA RunGrows ==
    ASSUME TypeOK, Shared, RunDeferred
    PROVE  /\ Grows(Fewer, Begins)
           /\ Fewer.kind = "closing" /\ Fewer.frame = Top.frame
           /\ Fewer.seen = Top.seen /\ Fewer.parent = Top.parent
           /\ Fewer.left = Top.left - 1
           /\ Begins.kind = "deferred" /\ Begins.frame = Top.frame /\ Begins.seen = current
  <1>1. Len(stack) > 0 /\ Top \in Entries /\ Len(stack) \in 1..Len(stack)
    BY TopType DEF RunDeferred
  <1>2. Top.frame \in Scopes /\ current \in Scopes /\ Top.left \in Nat /\ Top.left > 0
    BY <1>1 DEF Entries, TypeOK, RunDeferred
  <1>3. begun[Top.frame] + Top.left <= Len(defers[Top.frame])
    BY <1>1 DEF Shared, RunDeferred, Top
  <1>4. begun[Top.frame] \in Nat /\ defers[Top.frame] \in Seq(Sizes)
    BY <1>2 DEF TypeOK
  <1>5. Top.left \in 1..Len(defers[Top.frame])
    BY <1>2, <1>3, <1>4
  <1>6. defers[Top.frame][Top.left] \in Nat
    <2> DEFINE d == defers[Top.frame]
    <2> HIDE DEF d
    <2>1. d \in Seq(Sizes) /\ Top.left \in 1..Len(d)
      BY <1>4, <1>5 DEF d
    <2>2. d[Top.left] \in Sizes
      BY <2>1
    <2> QED BY <2>2, CallsAssumption DEF d
  <1>7. /\ Begins \in Entries
        /\ Begins.kind = "deferred" /\ Begins.frame = Top.frame /\ Begins.seen = current
    BY <1>2, <1>6 DEF Begins, Entry, Entries, Blocks, Panics, Scopes
  <1>8. /\ Fewer \in Entries
        /\ Fewer.kind = "closing" /\ Fewer.frame = Top.frame
        /\ Fewer.seen = Top.seen /\ Fewer.parent = Top.parent
        /\ Fewer.left = Top.left - 1
    <2>1. Top.left - 1 \in Nat
      BY <1>2
    <2>2. Fewer = [Top EXCEPT !.left = Top.left - 1]
      BY <1>1 DEF Fewer, Entries
    <2>3. Top.kind = "closing"
      BY DEF RunDeferred
    <2> QED BY <1>1, <2>1, <2>2, <2>3 DEF Entries
  <1>9. stack' = Append([stack EXCEPT ![Len(stack)] = Fewer], Begins)
    BY DEF RunDeferred, WithTop, Fewer, Begins
  <1>10. Grows(Fewer, Begins)
    BY <1>1, <1>7, <1>8, <1>9, Growth
  <1> QED BY <1>7, <1>8, <1>10

LEMMA CloseTurns ==
    ASSUME TypeOK, Close
    PROVE  /\ Turns(Closure(panic))
           /\ Closure(panic).kind = "closing" /\ Closure(panic).frame = Top.frame
           /\ Closure(panic).seen = Top.seen /\ Closure(panic).parent = Top.parent
           /\ Closure(panic).left = Len(defers[Top.frame])
  <1>1. Len(stack) > 0 /\ Top \in Entries
    BY TopType DEF Close
  <1>2. Top.frame \in Scopes /\ panic \in Panics
    BY <1>1 DEF Entries, TypeOK
  <1>3. Len(defers[Top.frame]) \in Nat
    BY <1>2 DEF TypeOK
  <1>4. /\ Closure(panic) \in Entries
        /\ Closure(panic).kind = "closing" /\ Closure(panic).frame = Top.frame
        /\ Closure(panic).seen = Top.seen /\ Closure(panic).parent = Top.parent
        /\ Closure(panic).left = Len(defers[Top.frame])
    BY <1>1, <1>2, <1>3 DEF Closure, Entries
  <1>5. stack' = [stack EXCEPT ![Len(stack)] = Closure(panic)]
    BY DEF Close, WithTop
  <1> QED BY <1>1, <1>4, <1>5, Turn

LEMMA CatchTurns ==
    ASSUME TypeOK, Catch
    PROVE  Turns(Entry("catch", Top.frame, current))
  <1>1. Len(stack) > 0 /\ Top \in Entries
    BY TopType DEF Catch
  <1>2. Top.frame \in Scopes /\ current \in Scopes
    BY <1>1 DEF Entries, TypeOK
  <1>3. Entry("catch", Top.frame, current) \in Entries
    BY <1>2, EntryType DEF Blocks
  <1>4. stack' = [stack EXCEPT ![Len(stack)] = Entry("catch", Top.frame, current)]
    BY DEF Catch, WithTop
  <1> QED BY <1>1, <1>3, <1>4, Turn

LEMMA TypeStep ==
    ASSUME Inv, Next
    PROVE  TypeOK'
  <1> USE CallsAssumption
  <1>0. TypeOK /\ Shared
    BY DEF Inv
  <1>1. ASSUME Plain PROVE TypeOK'
    <2>1. stack' \in Seq(Entries)
      BY <1>0, <1>1, After DEF Plain, Alike
    <2> QED BY <1>0, <1>1, <2>1 DEF Plain, TypeOK, frames
  <1>2. ASSUME Return PROVE TypeOK'
    <2>1. stack' \in Seq(Entries)
      BY <1>0, <1>2, After DEF Return, Alike
    <2> QED BY <1>0, <1>2, <2>1 DEF Return, TypeOK
  <1>3. ASSUME Throw PROVE TypeOK'
    <2>1. stack' \in Seq(Entries)
      BY <1>0, <1>3, After DEF Throw, Alike
    <2> QED BY <1>0, <1>3, <2>1 DEF Throw, TypeOK, frames, Panics
  <1>4. ASSUME CallRefused PROVE TypeOK'
    <2>1. stack' \in Seq(Entries)
      BY <1>0, <1>4, After DEF CallRefused, Alike
    <2> QED BY <1>0, <1>4, <2>1 DEF CallRefused, TypeOK, frames, Panics
  <1>5. ASSUME NEW n \in Sizes, Defer(n) PROVE TypeOK'
    <2>1. stack' \in Seq(Entries)
      BY <1>0, <1>5, After DEF Defer, Alike
    <2>2. defers' \in [Scopes -> Seq(Sizes)]
      BY <1>0, <1>5 DEF Defer, TypeOK
    <2>3. cut' \subseteq {"return", "panic", "nested"}
      BY <1>0, <1>5 DEF Defer, TypeOK
    <2> QED BY <1>0, <1>5, <2>1, <2>2, <2>3 DEF Defer, TypeOK
  <1>6. ASSUME Try PROVE TypeOK'
    <2>1. stack' \in Seq(Entries)
      BY <1>0, <1>6, TryGrows DEF Grows
    <2> QED BY <1>0, <1>6, <2>1 DEF Try, TypeOK, frames
  <1>7. ASSUME NEW f \in Frames, Call(f) PROVE TypeOK'
    <2>1. stack' \in Seq(Entries)
      BY <1>0, <1>7, CallGrows DEF Grows
    <2>2. f \in Scopes
      BY <1>7 DEF Scopes
    <2>3. defers' \in [Scopes -> Seq(Sizes)] /\ begun' \in [Scopes -> Nat]
          /\ returned' \in [Scopes -> BOOLEAN] /\ depth' \in Nat
      BY <1>0, <1>7, <2>2 DEF Call, TypeOK
    <2> QED BY <1>0, <1>7, <2>1, <2>2, <2>3 DEF Call, TypeOK
  <1>8. ASSUME Cancel PROVE TypeOK'
    BY <1>0, <1>8 DEF Cancel, TypeOK, frames
  <1>9. ASSUME Interrupt PROVE TypeOK'
    BY <1>0, <1>9 DEF Interrupt, TypeOK, frames, Panics
  <1>10. ASSUME EndBlock PROVE TypeOK'
    <2>1. stack' \in Seq(Entries)
      BY <1>0, <1>10, BelowShrinks DEF EndBlock, InBlock, Shrinks
    <2> QED BY <1>0, <1>10, <2>1 DEF EndBlock, TypeOK, frames
  <1>11. ASSUME Close PROVE TypeOK'
    <2>1. stack' \in Seq(Entries)
      BY <1>0, <1>11, CloseTurns DEF Turns
    <2> QED BY <1>0, <1>11, <2>1 DEF Close, TypeOK, frames, Panics
  <1>12. ASSUME RunDeferred PROVE TypeOK'
    <2>1. stack' \in Seq(Entries)
      BY <1>0, <1>12, RunGrows DEF Grows
    <2>2. Top.frame \in Scopes
      BY <1>0, <1>12, TopType DEF RunDeferred, Entries
    <2>3. begun' = [begun EXCEPT ![Top.frame] = @ + 1]
      BY <1>12 DEF RunDeferred
    <2>4. begun' \in [Scopes -> Nat]
      BY <1>0, <2>2, <2>3 DEF TypeOK
    <2> QED BY <1>0, <1>12, <2>1, <2>4 DEF RunDeferred, TypeOK
  <1>13. ASSUME EndDeferred PROVE TypeOK'
    <2>1. stack' \in Seq(Entries)
      BY <1>0, <1>13, BelowShrinks DEF EndDeferred, InBlock, Shrinks
    <2>2. cut' \subseteq {"return", "panic", "nested"}
      BY <1>0, <1>13 DEF EndDeferred, TypeOK
    <2> QED BY <1>0, <1>13, <2>1, <2>2 DEF EndDeferred, TypeOK, frames
  <1>14. ASSUME EndClosure PROVE TypeOK'
    <2>1. Len(stack) > 0 /\ Top \in Entries /\ Top.kind = "closing"
      BY <1>0, <1>14, TopType DEF EndClosure
    <2>2. stack' \in Seq(Entries)
      BY <1>0, <1>14, BelowShrinks DEF EndClosure, Shrinks
    <2>3. Top.frame \in Scopes /\ Top.parent \in Scopes /\ Top.cause \in Panics
      BY <2>1 DEF Entries
    <2>4. panic' \in Panics
      BY <1>14, <2>3 DEF EndClosure, Outcome, Panics
    <2>5. /\ returned' \in [Scopes -> BOOLEAN] /\ defers' \in [Scopes -> Seq(Sizes)]
          /\ begun' \in [Scopes -> Nat]
      <3>1. <<>> \in Seq(Sizes)
        OBVIOUS
      <3> QED BY <1>0, <1>14, <2>3, <3>1 DEF EndClosure, Release, TypeOK
    <2>6. depth' \in Nat /\ current' \in Scopes
      <3>1. CASE Top.frame = File
        BY <1>0, <1>14, <3>1 DEF EndClosure, TypeOK
      <3>2. CASE Top.frame # File
        <4>1. Len(stack) \in Calls
          BY <1>0, <2>1, <3>2, TopType DEF Calls, TypeOK
        <4>2. Cardinality(Calls) # 0 /\ Cardinality(Calls) \in Nat
          BY <4>1, FS_EmptySet, FS_CardinalityType DEF Inv, Counted
        <4>3. depth \in Nat /\ depth >= Cardinality(Calls)
          BY <1>0 DEF Inv, Counted, TypeOK
        <4>4. depth - 1 \in Nat
          BY <4>2, <4>3
        <4> QED BY <1>14, <2>3, <3>2, <4>4 DEF EndClosure
      <3> QED BY <3>1, <3>2
    <2> QED BY <1>0, <1>14, <2>2, <2>4, <2>5, <2>6 DEF EndClosure, TypeOK
  <1>15. ASSUME Catch PROVE TypeOK'
    <2>1. stack' \in Seq(Entries)
      BY <1>0, <1>15, CatchTurns DEF Turns
    <2> QED BY <1>0, <1>15, <2>1 DEF Catch, TypeOK, frames, Panics
  <1>16. ASSUME LeaveCatch PROVE TypeOK'
    <2>1. stack' \in Seq(Entries)
      BY <1>0, <1>16, BelowShrinks DEF LeaveCatch, Shrinks
    <2> QED BY <1>0, <1>16, <2>1 DEF LeaveCatch, TypeOK, frames
  <1>17. ASSUME BreakClosure PROVE TypeOK'
    <2>1. Len(stack) - 2 \in 0..Len(stack)
      BY <1>0, <1>17 DEF BreakClosure, TypeOK
    <2>2. stack' \in Seq(Entries)
      BY <1>0, <1>17, <2>1, Shrink DEF BreakClosure, Shrinks
    <2> QED BY <1>0, <1>17, <2>2 DEF BreakClosure, TypeOK, frames
  <1> QED BY <1>1, <1>2, <1>3, <1>4, <1>5, <1>6, <1>7, <1>8, <1>9, <1>10, <1>11, <1>12,
             <1>13, <1>14, <1>15, <1>16, <1>17 DEF Next, Statement, Ending, Unwinding

-----------------------------------------------------------------------------
(* What each shape of step does to the parts of the invariant.             *)

LEMMA OwnGrows ==
    ASSUME Inv, NEW t, NEW e, Grows(t, e), Len(stack) > 0,
           t.kind = Top.kind, t.frame = Top.frame,
           e.kind \in Owner => \A i \in 1..Len(stack) : stack[i].frame # e.frame
    PROVE  Own'
  <1>1. Len(stack) \in Nat /\ Len(stack) \in 1..Len(stack)
    BY DEF Inv, TypeOK
  <1>2. \A i \in 1..Len(stack) :
            stack'[i].kind = stack[i].kind /\ stack'[i].frame = stack[i].frame
    BY <1>1 DEF Grows, Top
  <1>3. Len(stack') > 0 => stack'[1].frame = File /\ stack'[1].kind \in Owner
    BY <1>1, <1>2 DEF Inv, Own
  <1>4. ASSUME NEW i \in 1..Len(stack'), NEW j \in 1..Len(stack'),
               stack'[i].kind \in Owner, stack'[j].kind \in Owner,
               stack'[i].frame = stack'[j].frame
        PROVE  i = j
    <2>1. CASE i \in 1..Len(stack) /\ j \in 1..Len(stack)
      BY <1>2, <1>4, <2>1 DEF Inv, Own
    <2>2. CASE i = Len(stack) + 1 \/ j = Len(stack) + 1
      BY <1>1, <1>2, <1>4, <2>2 DEF Grows
    <2> QED BY <1>1, <2>1, <2>2 DEF Grows
  <1> QED BY <1>3, <1>4 DEF Own

LEMMA OwnTurns ==
    ASSUME Inv, NEW t, Turns(t), Len(stack) > 0,
           t.kind \in Owner <=> Top.kind \in Owner, t.frame = Top.frame
    PROVE  Own'
  <1>1. Len(stack) \in Nat /\ Len(stack) \in 1..Len(stack)
    BY DEF Inv, TypeOK
  <1>2. \A i \in 1..Len(stack) :
            /\ stack'[i].kind \in Owner <=> stack[i].kind \in Owner
            /\ stack'[i].frame = stack[i].frame
    BY <1>1 DEF Turns, Top
  <1> QED BY <1>1, <1>2 DEF Inv, Own, Turns

LEMMA OwnShrinks ==
    ASSUME Inv, NEW n \in 0..Len(stack), Shrinks(n)
    PROVE  Own'
  <1>1. Len(stack) \in Nat /\ Len(stack') = n
        /\ \A i \in 1..n : stack'[i] = stack[i] /\ i \in 1..Len(stack)
    BY DEF Inv, TypeOK, Shrinks
  <1>2. n > 0 => Len(stack) > 0 /\ 1 \in 1..n
    BY <1>1
  <1> QED BY <1>1, <1>2 DEF Inv, Own

LEMMA Domains ==
    ASSUME TypeOK
    PROVE  DOMAIN stack = 1..Len(stack) /\ Len(stack) \in Nat
  BY DEF TypeOK

LEMMA CallsGrows ==
    ASSUME Inv, NEW t, NEW e, Grows(t, e), Len(stack) > 0,
           t.kind = Top.kind, t.frame = Top.frame
    PROVE  Calls' = IF e.kind \in Owner /\ e.frame # File
                    THEN Calls \cup {Len(stack) + 1} ELSE Calls
  <1>1. /\ DOMAIN stack = 1..Len(stack) /\ Len(stack) \in 1..Len(stack)
        /\ DOMAIN stack' = 1..(Len(stack) + 1) /\ Len(stack) \in Nat
    BY Domains DEF Inv, Grows
  <1>2. \A i \in 1..Len(stack) :
            stack'[i].kind = stack[i].kind /\ stack'[i].frame = stack[i].frame
    BY <1>1 DEF Grows, Top
  <1>3. \A i : i \in 1..(Len(stack) + 1) <=> i \in 1..Len(stack) \/ i = Len(stack) + 1
    BY <1>1
  <1>4. stack'[Len(stack) + 1] = e
    BY DEF Grows
  <1>5. \A i : i \in Calls' <=> (i \in Calls \/ (i = Len(stack) + 1 /\ e.kind \in Owner /\ e.frame # File))
    BY <1>1, <1>2, <1>3, <1>4 DEF Calls, Owner
  <1> QED BY <1>5

LEMMA CallsTurns ==
    ASSUME Inv, NEW t, Turns(t), Len(stack) > 0,
           t.kind \in Owner <=> Top.kind \in Owner, t.frame = Top.frame
    PROVE  Calls' = Calls
  <1>1. /\ DOMAIN stack = 1..Len(stack) /\ Len(stack) \in 1..Len(stack)
        /\ DOMAIN stack' = 1..Len(stack) /\ Len(stack) \in Nat
    BY Domains DEF Inv, Turns
  <1>2. \A i \in 1..Len(stack) :
            /\ stack'[i].kind \in Owner <=> stack[i].kind \in Owner
            /\ stack'[i].frame = stack[i].frame
    BY <1>1 DEF Turns, Top
  <1> QED BY <1>1, <1>2 DEF Calls, Owner

LEMMA CallsShrinks ==
    ASSUME Inv, NEW n \in 0..Len(stack), Shrinks(n)
    PROVE  Calls' = Calls \cap (1..n)
  <1>1. /\ DOMAIN stack = 1..Len(stack) /\ DOMAIN stack' = 1..n /\ Len(stack) \in Nat
    BY Domains DEF Inv, Shrinks
  <1>2. \A i \in 1..n : stack'[i] = stack[i] /\ i \in 1..Len(stack)
    BY <1>1 DEF Shrinks
  <1> QED BY <1>1, <1>2 DEF Calls

LEMMA ChainGrows ==
    ASSUME Inv, NEW t, NEW e, Grows(t, e), Len(stack) > 0,
           t.kind = Top.kind, t.frame = Top.frame, t.seen = Top.seen, t.parent = Top.parent,
           "panic" \in cut' <=> "panic" \in cut,
           "panic" \notin cut =>
               /\ e.seen = e.frame /\ current' = e.frame
               /\ IF e.kind \in Owner THEN e.parent = Top.frame ELSE e.frame = Top.frame
    PROVE  Chain'
  <1> SUFFICES ASSUME "panic" \notin cut
               PROVE  /\ \A i \in 1..Len(stack') : stack'[i].seen = stack'[i].frame
                      /\ \A i \in 2..Len(stack') :
                            IF stack'[i].kind \in Owner
                            THEN stack'[i].parent = stack'[i-1].frame
                            ELSE stack'[i].frame = stack'[i-1].frame
                      /\ Len(stack') > 0 => current' = stack'[Len(stack')].frame
    BY DEF Chain
  <1>1. Len(stack) \in Nat /\ Len(stack) \in 1..Len(stack)
    BY DEF Inv, TypeOK
  <1>2. \A i \in 1..Len(stack) :
            /\ stack'[i].kind = stack[i].kind /\ stack'[i].frame = stack[i].frame
            /\ stack'[i].seen = stack[i].seen /\ stack'[i].parent = stack[i].parent
    BY <1>1 DEF Grows, Top
  <1>3. stack'[Len(stack) + 1] = e /\ Len(stack') = Len(stack) + 1
    BY DEF Grows
  <1>4. ASSUME NEW i \in 1..Len(stack') PROVE stack'[i].seen = stack'[i].frame
    BY <1>1, <1>2, <1>3 DEF Inv, Chain
  <1>5. ASSUME NEW i \in 2..Len(stack')
        PROVE  IF stack'[i].kind \in Owner THEN stack'[i].parent = stack'[i-1].frame
               ELSE stack'[i].frame = stack'[i-1].frame
    <2>1. CASE i = Len(stack) + 1
      BY <1>1, <1>2, <1>3, <2>1 DEF Top
    <2>2. CASE i \in 2..Len(stack)
      <3>1. i \in 1..Len(stack) /\ i - 1 \in 1..Len(stack)
        BY <1>1, <2>2
      <3> QED BY <1>2, <2>2, <3>1 DEF Inv, Chain
    <2> QED BY <1>1, <1>3, <2>1, <2>2
  <1> QED BY <1>3, <1>4, <1>5

LEMMA ChainTurns ==
    ASSUME Inv, NEW t, Turns(t), Len(stack) > 0,
           t.kind \in Owner <=> Top.kind \in Owner, t.frame = Top.frame,
           t.kind \in Owner => t.parent = Top.parent,
           "panic" \in cut' <=> "panic" \in cut, current' = current,
           "panic" \notin cut => t.seen = t.frame
    PROVE  Chain'
  <1> SUFFICES ASSUME "panic" \notin cut
               PROVE  /\ \A i \in 1..Len(stack') : stack'[i].seen = stack'[i].frame
                      /\ \A i \in 2..Len(stack') :
                            IF stack'[i].kind \in Owner
                            THEN stack'[i].parent = stack'[i-1].frame
                            ELSE stack'[i].frame = stack'[i-1].frame
                      /\ Len(stack') > 0 => current' = stack'[Len(stack')].frame
    BY DEF Chain
  <1>1. Len(stack) \in Nat /\ Len(stack) \in 1..Len(stack) /\ Len(stack') = Len(stack)
    BY DEF Inv, TypeOK, Turns
  <1>2. \A i \in 1..Len(stack) :
            /\ stack'[i].kind \in Owner <=> stack[i].kind \in Owner
            /\ stack'[i].frame = stack[i].frame
            /\ stack'[i].seen = stack'[i].frame
            /\ stack[i].kind \in Owner => stack'[i].parent = stack[i].parent
    BY <1>1 DEF Turns, Top, Inv, Chain
  <1>3. \A i \in 2..Len(stack) : i \in 1..Len(stack) /\ i - 1 \in 1..Len(stack)
    BY <1>1
  <1> QED BY <1>1, <1>2, <1>3 DEF Inv, Chain

LEMMA ChainShrinks ==
    ASSUME Inv, NEW n \in 0..Len(stack), Shrinks(n),
           "panic" \in cut => "panic" \in cut',
           "panic" \notin cut' /\ n > 0 => current' = stack[n].frame
    PROVE  Chain'
  <1>1. Len(stack) \in Nat /\ Len(stack') = n
        /\ \A i \in 1..n : stack'[i] = stack[i] /\ i \in 1..Len(stack)
    BY DEF Inv, TypeOK, Shrinks
  <1>2. \A i \in 2..n : i \in 1..n /\ i - 1 \in 1..n /\ i \in 2..Len(stack)
    BY <1>1
  <1>3. n > 0 => n \in 1..n
    BY <1>1
  <1> QED BY <1>1, <1>2, <1>3 DEF Inv, Chain

LEMMA CountedGrows ==
    ASSUME Inv, NEW t, NEW e, Grows(t, e), Len(stack) > 0,
           t.kind = Top.kind, t.frame = Top.frame,
           "panic" \in cut' <=> "panic" \in cut,
           depth' = IF e.kind \in Owner /\ e.frame # File THEN depth + 1 ELSE depth
    PROVE  Counted'
  <1>1. IsFiniteSet(Calls) /\ Cardinality(Calls) \in Nat /\ depth \in Nat
    BY FS_CardinalityType DEF Inv, Counted, TypeOK
  <1>2. Len(stack) + 1 \notin Calls
    BY Domains DEF Inv, Calls
  <1>3. CASE e.kind \in Owner /\ e.frame # File
    <2>1. Calls' = Calls \cup {Len(stack) + 1}
      BY <1>3, CallsGrows
    <2>2. IsFiniteSet(Calls') /\ Cardinality(Calls') = Cardinality(Calls) + 1
      BY <1>1, <1>2, <2>1, FS_AddElement
    <2> QED BY <1>1, <1>3, <2>2 DEF Inv, Counted
  <1>4. CASE ~(e.kind \in Owner /\ e.frame # File)
    <2>1. Calls' = Calls
      BY <1>4, CallsGrows
    <2> QED BY <1>4, <2>1 DEF Inv, Counted
  <1> QED BY <1>3, <1>4

\* Entries go that count no call.
LEMMA CountedShrinks ==
    ASSUME Inv, NEW n \in 0..Len(stack), Shrinks(n), depth' = depth,
           "panic" \in cut => "panic" \in cut',
           "panic" \notin cut' => \A i \in (n+1)..Len(stack) : i \notin Calls
    PROVE  Counted'
  <1>1. IsFiniteSet(Calls) /\ Cardinality(Calls) \in Nat /\ depth \in Nat
    BY FS_CardinalityType DEF Inv, Counted, TypeOK
  <1>2. Calls' = Calls \cap (1..n)
    BY CallsShrinks
  <1>3. /\ IsFiniteSet(Calls') /\ Cardinality(Calls') <= Cardinality(Calls)
        /\ Cardinality(Calls') \in Nat
    BY <1>1, <1>2, FS_Subset, FS_CardinalityType
  <1>4. ASSUME "panic" \notin cut' PROVE Calls' = Calls
    <2>1. \A i \in Calls : i \in 1..Len(stack)
      BY Domains DEF Inv, Calls
    <2>2. \A i \in Calls : i \in 1..n
      BY <1>4, <2>1, Domains DEF Inv
    <2> QED BY <1>2, <2>2
  <1>5. depth >= Cardinality(Calls)
    BY DEF Inv, Counted
  <1>6. depth' >= Cardinality(Calls')
    BY <1>1, <1>3, <1>5
  <1>7. "panic" \notin cut' => depth' = Cardinality(Calls')
    BY <1>4 DEF Inv, Counted
  <1> QED BY <1>3, <1>6, <1>7 DEF Counted

-----------------------------------------------------------------------------
(* What the stack, the depth and the current frame have to do with each    *)
(* other is kept by every step.                                            *)

LEMMA StackStep ==
    ASSUME Inv, Next
    PROVE  Own' /\ Counted' /\ Chain'
  <1>0. TypeOK /\ Shared
    BY DEF Inv
  <1>1. ASSUME Plain \/ Return \/ Throw \/ CallRefused PROVE Own' /\ Counted' /\ Chain'
    <2>1. Alike
      BY <1>0, <1>1, After DEF Plain, Return, Throw, CallRefused
    <2>2. UNCHANGED <<current, depth, cut>>
      BY <1>1 DEF Plain, Return, Throw, CallRefused
    <2> QED BY <2>1, <2>2, Steady
  <1>2. ASSUME NEW n \in Sizes, Defer(n) PROVE Own' /\ Counted' /\ Chain'
    <2>1. Alike
      BY <1>0, <1>2, After DEF Defer
    <2>2. UNCHANGED <<current, depth>> /\ ("panic" \in cut' <=> "panic" \in cut)
      BY <1>2 DEF Defer
    <2> QED BY <2>1, <2>2, Steady
  <1>3. ASSUME Cancel \/ Interrupt PROVE Own' /\ Counted' /\ Chain'
    <2>1. UNCHANGED <<stack, current, depth, cut>>
      BY <1>3 DEF Cancel, Interrupt
    <2>2. Alike
      BY <1>0, <2>1 DEF Alike, TypeOK
    <2> QED BY <2>1, <2>2, Steady
  <1>4. ASSUME Try PROVE Own' /\ Counted' /\ Chain'
    <2> DEFINE e == Entry("try", Top.frame, current)
    <2>1. Grows(Further, e)
      BY <1>0, <1>4, TryGrows
    <2>2. /\ Len(stack) > 0 /\ Further.kind = Top.kind /\ Further.frame = Top.frame
          /\ Further.seen = Top.seen /\ Further.parent = Top.parent
      BY <1>0, <1>4, FurtherSame DEF Try
    <2>3. e.kind \notin Owner /\ e.frame = Top.frame /\ e.seen = current
      BY DEF Entry, Owner
    <2>4. UNCHANGED <<current, depth, cut>>
      BY <1>4 DEF Try
    <2>5. "panic" \notin cut => current = Top.frame
      BY <2>2 DEF Inv, Chain, Top
    <2> HIDE DEF e
    <2>6. Own'
      BY <2>1, <2>2, <2>3, OwnGrows
    <2>7. Counted'
      BY <2>1, <2>2, <2>3, <2>4, CountedGrows
    <2>8. Chain'
      BY <2>1, <2>2, <2>3, <2>4, <2>5, ChainGrows
    <2> QED BY <2>6, <2>7, <2>8
  <1>5. ASSUME NEW f \in Frames, Call(f) PROVE Own' /\ Counted' /\ Chain'
    <2> DEFINE e == [Entry("body", f, f) EXCEPT !.parent = current]
    <2>1. Grows(Further, e)
      BY <1>0, <1>5, CallGrows
    <2>2. /\ Len(stack) > 0 /\ Further.kind = Top.kind /\ Further.frame = Top.frame
          /\ Further.seen = Top.seen /\ Further.parent = Top.parent
      BY <1>0, <1>5, FurtherSame DEF Call
    <2>3. e.kind \in Owner /\ e.frame = f /\ e.seen = f /\ e.parent = current
      BY DEF Entry, Owner
    <2>4. current' = f /\ depth' = depth + 1 /\ cut' = cut
      BY <1>5 DEF Call
    <2>5. "panic" \notin cut => current = Top.frame
      BY <2>2 DEF Inv, Chain, Top
    <2>6. f # File /\ \A i \in 1..Len(stack) : stack[i].frame # f
      BY <1>5, CallsAssumption DEF Call, Pooled
    <2> HIDE DEF e
    <2>7. Own'
      BY <2>1, <2>2, <2>3, <2>6, OwnGrows
    <2>8. Counted'
      BY <2>1, <2>2, <2>3, <2>4, <2>6, CountedGrows
    <2>9. Chain'
      BY <2>1, <2>2, <2>3, <2>4, <2>5, ChainGrows
    <2> QED BY <2>7, <2>8, <2>9
  <1>6. ASSUME RunDeferred PROVE Own' /\ Counted' /\ Chain'
    <2>1. /\ Grows(Fewer, Begins)
          /\ Fewer.kind = Top.kind /\ Fewer.frame = Top.frame
          /\ Fewer.seen = Top.seen /\ Fewer.parent = Top.parent
          /\ Begins.kind \notin Owner /\ Begins.frame = Top.frame /\ Begins.seen = current
      BY <1>0, <1>6, RunGrows DEF Owner, RunDeferred
    <2>2. Len(stack) > 0 /\ UNCHANGED <<current, depth, cut>>
      BY <1>6 DEF RunDeferred
    <2>3. "panic" \notin cut => current = Top.frame
      BY <2>2 DEF Inv, Chain, Top
    <2>4. Own'
      BY <2>1, <2>2, OwnGrows
    <2>5. Counted'
      BY <2>1, <2>2, CountedGrows
    <2>6. Chain'
      BY <2>1, <2>2, <2>3, ChainGrows
    <2> QED BY <2>4, <2>5, <2>6
  <1>7. ASSUME Close PROVE Own' /\ Counted' /\ Chain'
    <2> DEFINE t == Closure(panic)
    <2>1. /\ Turns(t) /\ (t.kind \in Owner <=> Top.kind \in Owner)
          /\ t.frame = Top.frame /\ t.seen = Top.seen /\ t.parent = Top.parent
      BY <1>0, <1>7, CloseTurns DEF Owner, Close
    <2>2. Len(stack) > 0 /\ UNCHANGED <<current, depth, cut>>
      BY <1>7 DEF Close
    <2>3. "panic" \notin cut => t.seen = t.frame
      BY <1>0, <2>1, <2>2, TopType DEF Inv, Chain
    <2> HIDE DEF t
    <2>4. Own'
      BY <2>1, <2>2, OwnTurns
    <2>5. Counted'
      BY <2>1, <2>2, CallsTurns DEF Inv, Counted
    <2>6. Chain'
      BY <2>1, <2>2, <2>3, ChainTurns
    <2> QED BY <2>4, <2>5, <2>6
  <1>8. ASSUME Catch PROVE Own' /\ Counted' /\ Chain'
    <2> DEFINE t == Entry("catch", Top.frame, current)
    <2>1. Turns(t)
      BY <1>0, <1>8, CatchTurns
    <2>2. /\ t.kind \notin Owner /\ Top.kind \notin Owner
          /\ t.frame = Top.frame /\ t.seen = current
      BY <1>8 DEF Catch, Owner, Entry
    <2>3. Len(stack) > 0 /\ UNCHANGED <<current, depth, cut>>
      BY <1>8 DEF Catch
    <2>4. "panic" \notin cut => t.seen = t.frame
      BY <2>2, <2>3 DEF Inv, Chain, Top
    <2> HIDE DEF t
    <2>5. Own'
      BY <2>1, <2>2, <2>3, OwnTurns
    <2>6. Counted'
      BY <2>1, <2>2, <2>3, CallsTurns DEF Inv, Counted
    <2>7. Chain'
      BY <2>1, <2>2, <2>3, <2>4, ChainTurns
    <2> QED BY <2>5, <2>6, <2>7
  <1>9. ASSUME EndBlock \/ EndDeferred \/ LeaveCatch PROVE Own' /\ Counted' /\ Chain'
    <2> DEFINE n == Len(stack) - 1
    <2>1. Len(stack) > 0 /\ Top.kind \notin Owner /\ stack' = Below
      BY <1>9 DEF EndBlock, EndDeferred, LeaveCatch, InBlock, Owner
    <2>2. /\ UNCHANGED <<current, depth>> /\ ("panic" \in cut' <=> "panic" \in cut)
      BY <1>9 DEF EndBlock, EndDeferred, LeaveCatch
    <2>3. n \in 0..Len(stack) /\ Shrinks(n) /\ Len(stack) \in Nat
      BY <1>0, <2>1, BelowShrinks DEF TypeOK
    <2>4. \A i \in (n+1)..Len(stack) : i \notin Calls
      BY <2>1, <2>3 DEF Calls, Top, Owner
    <2>5. "panic" \notin cut /\ n > 0 => current = stack[n].frame
      <3>1. n > 0 => Len(stack) \in 2..Len(stack)
        BY <2>3
      <3> QED BY <2>1, <3>1 DEF Inv, Chain, Top
    <2> HIDE DEF n
    <2>6. Own'
      BY <2>3, OwnShrinks
    <2>7. Counted'
      BY <2>2, <2>3, <2>4, CountedShrinks
    <2>8. Chain'
      BY <2>2, <2>3, <2>5, ChainShrinks
    <2> QED BY <2>6, <2>7, <2>8
  <1>10. ASSUME EndClosure PROVE Own' /\ Counted' /\ Chain'
    <2> DEFINE n == Len(stack) - 1
    <2>1. Len(stack) > 0 /\ Top.kind \in Owner /\ stack' = Below /\ cut' = cut
      BY <1>10 DEF EndClosure, Owner
    <2>2. n \in 0..Len(stack) /\ Shrinks(n) /\ Len(stack) \in Nat
      BY <1>0, <2>1, BelowShrinks DEF TypeOK
    <2>3. n > 0 => Top.frame # File
      <3>1. n > 0 => Len(stack) > 1
        BY <2>2
      <3>2. Len(stack) > 1 => 1 \in 1..Len(stack) /\ Len(stack) \in 1..Len(stack)
        BY <2>2
      <3> QED BY <2>1, <3>1, <3>2 DEF Inv, Own, Top
    <2>4. n = 0 => Top.frame = File
      <3>1. n = 0 => Len(stack) = 1
        BY <2>2
      <3> QED BY <2>1, <3>1 DEF Inv, Own, Top
    <2>5. "panic" \notin cut' /\ n > 0 => current' = stack[n].frame
      <3>1. n > 0 => Len(stack) \in 2..Len(stack)
        BY <2>2
      <3> QED BY <1>10, <2>1, <2>3, <3>1 DEF Inv, Chain, Top, EndClosure
    <2>6. Own'
      BY <2>2, OwnShrinks
    <2>7. Chain'
      BY <2>1, <2>2, <2>5, ChainShrinks
    <2>8. Counted'
      <3>1. CASE Top.frame = File
        <4>1. depth' = depth
          BY <1>10, <3>1 DEF EndClosure
        <4>2. \A i \in (n+1)..Len(stack) : i \notin Calls
          BY <2>2, <3>1 DEF Calls, Top
        <4> QED BY <2>1, <2>2, <4>1, <4>2, CountedShrinks
      <3>2. CASE Top.frame # File
        <4>1. depth' = depth - 1
          BY <1>10, <3>2 DEF EndClosure
        <4>2. Len(stack) \in Calls
          BY <1>0, <2>1, <3>2, Domains, TopType DEF Calls, Owner
        <4>3. Calls' = Calls \cap (1..n)
          BY <2>2, CallsShrinks
        <4>4. Calls' = Calls \ {Len(stack)}
          <5>1. \A i \in Calls : i \in 1..Len(stack)
            BY <1>0, Domains DEF Calls
          <5>2. \A i \in 1..Len(stack) : i \in 1..n <=> i # Len(stack)
            BY <2>2
          <5> QED BY <4>3, <5>1, <5>2
        <4>5. /\ IsFiniteSet(Calls) /\ Cardinality(Calls) \in Nat /\ depth \in Nat
              /\ depth >= Cardinality(Calls)
              /\ "panic" \notin cut => depth = Cardinality(Calls)
          BY <1>0, FS_CardinalityType DEF Inv, Counted, TypeOK
        <4>6. IsFiniteSet(Calls') /\ Cardinality(Calls') = Cardinality(Calls) - 1
          BY <4>2, <4>4, <4>5, FS_RemoveElement
        <4> QED BY <2>1, <4>1, <4>5, <4>6 DEF Counted
      <3> QED BY <3>1, <3>2
    <2> QED BY <2>6, <2>7, <2>8
  <1>11. ASSUME BreakClosure PROVE Own' /\ Counted' /\ Chain'
    <2> DEFINE n == Len(stack) - 2
    <2>1. n \in 0..Len(stack) /\ Shrinks(n)
      <3>1. n \in 0..Len(stack)
        BY <1>0, <1>11 DEF BreakClosure, TypeOK
      <3>2. stack' = SubSeq(stack, 1, n)
        BY <1>11 DEF BreakClosure
      <3> HIDE DEF n
      <3> QED BY <1>0, <3>1, <3>2, Shrink
    <2>2. "panic" \in cut' /\ depth' = depth
      BY <1>11 DEF BreakClosure
    <2> HIDE DEF n
    <2>3. Own'
      BY <2>1, OwnShrinks
    <2>4. Counted'
      BY <2>1, <2>2, CountedShrinks
    <2>5. Chain'
      BY <2>1, <2>2, ChainShrinks
    <2> QED BY <2>3, <2>4, <2>5
  <1> QED BY <1>1, <1>2, <1>3, <1>4, <1>5, <1>6, <1>7, <1>8, <1>9, <1>10, <1>11
          DEF Next, Statement, Ending, Unwinding

-----------------------------------------------------------------------------
(* Deferred blocks.                                                        *)

\* What is left on the stack keeps its deferred blocks when nothing of theirs
\* changes.
LEMMA SharedShrinks ==
    ASSUME Inv, NEW n \in 0..Len(stack), Shrinks(n), "nested" \in cut => "nested" \in cut',
           \A i \in 1..n : stack[i].kind \in Owner =>
               /\ begun'[stack[i].frame] = begun[stack[i].frame]
               /\ defers'[stack[i].frame] = defers[stack[i].frame]
    PROVE  Shared'
  <1>1. \A i \in 1..n : stack'[i] = stack[i] /\ i \in 1..Len(stack)
    BY DEF Inv, TypeOK, Shrinks
  <1> QED BY <1>1 DEF Inv, Shared, Shrinks, Owner

LEMMA EntriesTyped ==
    ASSUME TypeOK
    PROVE  \A i \in 1..Len(stack) :
              /\ stack[i] \in Entries
              /\ stack[i].frame \in Scopes /\ stack[i].left \in Nat
              /\ begun[stack[i].frame] \in Nat
              /\ defers[stack[i].frame] \in Seq(Sizes)
              /\ Len(defers[stack[i].frame]) \in Nat
  <1>1. \A i \in 1..Len(stack) : stack[i] \in Entries
    BY DEF TypeOK
  <1>2. \A i \in 1..Len(stack) : stack[i].frame \in Scopes /\ stack[i].left \in Nat
    BY <1>1 DEF Entries
  <1>3. \A f \in Scopes : begun[f] \in Nat /\ defers[f] \in Seq(Sizes) /\ Len(defers[f]) \in Nat
    BY DEF TypeOK
  <1> QED BY <1>1, <1>2, <1>3

LEMMA SharedStep ==
    ASSUME Inv, Next
    PROVE  Shared'
  <1>0. TypeOK /\ Own /\ Shared /\ Len(stack) \in Nat
    BY DEF Inv, TypeOK
  <1>1. ASSUME Plain \/ Return \/ Throw \/ CallRefused PROVE Shared'
    <2>1. Alike
      BY <1>0, <1>1, After DEF Plain, Return, Throw, CallRefused
    <2>2. UNCHANGED <<defers, begun, cut>>
      BY <1>1 DEF Plain, Return, Throw, CallRefused, frames
    <2> QED BY <2>1, <2>2, SteadyShared
  <1>2. ASSUME NEW n \in Sizes, Defer(n) PROVE Shared'
    <2>1. Alike /\ UNCHANGED begun
      BY <1>0, <1>2, After DEF Defer
    <2>2. ASSUME NEW f \in Scopes PROVE Len(defers'[f]) >= Len(defers[f])
      BY <1>0, <1>2 DEF Defer, TypeOK
    <2>3. ASSUME NEW i \in 1..Len(stack), stack[i].kind = "closing", "nested" \notin cut'
          PROVE  defers'[stack[i].frame] = defers[stack[i].frame] /\ "nested" \notin cut
      <3>1. stack[i].frame # current /\ stack[i].frame \in Scopes
        BY <1>0, <1>2, <2>3, EntriesTyped DEF Defer
      <3> QED BY <1>0, <1>2, <2>3, <3>1 DEF Defer, TypeOK
    <2>4. \A i \in 1..Len(stack) :
              /\ stack[i].frame \in Scopes /\ stack[i].left \in Nat
              /\ begun[stack[i].frame] \in Nat /\ Len(defers[stack[i].frame]) \in Nat
              /\ Len(defers'[stack[i].frame]) \in Nat
      <3>1. \A f \in Scopes : Len(defers'[f]) \in Nat
        BY <1>0, <1>2 DEF Defer, TypeOK
      <3> QED BY <1>0, <3>1, EntriesTyped
    <2>5. ASSUME NEW i \in 1..Len(stack'), stack'[i].kind = "closing"
          PROVE  /\ begun'[stack'[i].frame] + stack'[i].left <= Len(defers'[stack'[i].frame])
                 /\ "nested" \notin cut' =>
                       begun'[stack'[i].frame] + stack'[i].left = Len(defers'[stack'[i].frame])
      <3>1. i \in 1..Len(stack) /\ stack[i].kind = "closing" /\ stack'[i].left = stack[i].left
            /\ stack'[i].frame = stack[i].frame
        BY <2>1, <2>5 DEF Alike
      <3>2. begun[stack[i].frame] + stack[i].left <= Len(defers[stack[i].frame])
        BY <1>0, <3>1 DEF Shared
      <3>3. begun[stack[i].frame] + stack[i].left <= Len(defers'[stack[i].frame])
        BY <2>2, <2>4, <3>1, <3>2
      <3> QED BY <1>0, <2>1, <2>3, <3>1, <3>3 DEF Shared
    <2> QED BY <1>0, <2>1, <2>5 DEF Alike, Shared
  <1>3. ASSUME Cancel \/ Interrupt PROVE Shared'
    BY <1>0, <1>3 DEF Cancel, Interrupt, Shared, frames
  <1>4. ASSUME Try PROVE Shared'
    <2>1. Grows(Further, Entry("try", Top.frame, current)) /\ UNCHANGED <<defers, begun, cut>>
      BY <1>0, <1>4, TryGrows DEF Try, frames
    <2>2. /\ Len(stack) > 0 /\ Further.kind = Top.kind /\ Further.frame = Top.frame
          /\ Top.kind # "closing"
      BY <1>0, <1>4, FurtherSame DEF Try
    <2>3. Entry("try", Top.frame, current).kind = "try"
      BY DEF Entry
    <2>4. ASSUME NEW i \in 1..Len(stack'), stack'[i].kind \in Owner
          PROVE  /\ i \in 1..Len(stack) /\ stack'[i].kind = stack[i].kind
                 /\ stack'[i].frame = stack[i].frame
                 /\ stack'[i].kind = "closing" => stack'[i].left = stack[i].left
      BY <1>0, <2>1, <2>2, <2>3, <2>4 DEF Grows, Owner, Top
    <2> QED BY <1>0, <2>1, <2>4 DEF Shared, Owner
  <1>5. ASSUME NEW f \in Frames, Call(f) PROVE Shared'
    <2> DEFINE e == [Entry("body", f, f) EXCEPT !.parent = current]
    <2>1. Grows(Further, e) /\ cut' = cut
      BY <1>0, <1>5, CallGrows DEF Call
    <2>2. /\ Len(stack) > 0 /\ Further.kind = Top.kind /\ Further.frame = Top.frame
          /\ Top.kind # "closing"
      BY <1>0, <1>5, FurtherSame DEF Call
    <2>3. e.kind = "body" /\ e.frame = f
      BY DEF Entry
    <2>4. begun'[f] = 0
      BY <1>0, <1>5 DEF Call, TypeOK, Scopes
    <2>5. \A i \in 1..Len(stack) :
              /\ begun'[stack[i].frame] = begun[stack[i].frame]
              /\ defers'[stack[i].frame] = defers[stack[i].frame]
      <3>1. \A i \in 1..Len(stack) : stack[i].frame # f /\ stack[i].frame \in Scopes
        BY <1>0, <1>5, EntriesTyped DEF Call, Pooled
      <3> QED BY <1>0, <1>5, <3>1 DEF Call, TypeOK
    <2> HIDE DEF e
    <2>6. ASSUME NEW i \in 1..Len(stack'), i # Len(stack) + 1
          PROVE  /\ i \in 1..Len(stack) /\ stack'[i].kind = stack[i].kind
                 /\ stack'[i].frame = stack[i].frame
                 /\ stack'[i].kind = "closing" => stack'[i].left = stack[i].left
      BY <1>0, <2>1, <2>2, <2>6 DEF Grows, Top
    <2>7. stack'[Len(stack) + 1] = e
      BY <2>1 DEF Grows
    <2> QED BY <1>0, <2>1, <2>3, <2>4, <2>5, <2>6, <2>7 DEF Shared
  <1>6. ASSUME RunDeferred PROVE Shared'
    <2>1. /\ Grows(Fewer, Begins) /\ Fewer.kind = "closing" /\ Fewer.frame = Top.frame
          /\ Fewer.left = Top.left - 1 /\ Begins.kind = "deferred"
      BY <1>0, <1>6, RunGrows
    <2>2. /\ Len(stack) > 0 /\ Top.kind = "closing" /\ Top.left > 0
          /\ UNCHANGED <<defers, cut>>
      BY <1>6 DEF RunDeferred
    <2>3. /\ Len(stack) \in 1..Len(stack) /\ Top = stack[Len(stack)]
          /\ Top.frame \in Scopes /\ Top.left \in Nat
      BY <1>0, <2>2, TopType DEF Entries
    <2>4. ASSUME NEW i \in 1..(Len(stack)-1), stack[i].kind \in Owner
          PROVE  begun'[stack[i].frame] = begun[stack[i].frame]
      <3>1. stack[i].frame # Top.frame /\ stack[i].frame \in Scopes
        <4>1. i \in 1..Len(stack) /\ i # Len(stack)
          BY <1>0
        <4>2. Top.kind \in Owner
          BY <2>2 DEF Owner
        <4> QED BY <1>0, <2>3, <2>4, <4>1, <4>2, EntriesTyped DEF Own
      <3> QED BY <1>0, <1>6, <3>1 DEF RunDeferred, TypeOK
    <2>5. begun'[Top.frame] = begun[Top.frame] + 1 /\ begun[Top.frame] \in Nat
          /\ Len(defers[Top.frame]) \in Nat
      BY <1>0, <1>6, <2>3 DEF RunDeferred, TypeOK
    <2>6. /\ begun[Top.frame] + Top.left <= Len(defers[Top.frame])
          /\ "nested" \notin cut => begun[Top.frame] + Top.left = Len(defers[Top.frame])
      BY <1>0, <2>2, <2>3 DEF Shared
    <2>7. /\ begun'[Top.frame] + Fewer.left <= Len(defers[Top.frame])
          /\ "nested" \notin cut => begun'[Top.frame] + Fewer.left = Len(defers[Top.frame])
      BY <2>1, <2>3, <2>5, <2>6
    <2>8. ASSUME NEW i \in 1..Len(stack'), stack'[i].kind \in Owner
          PROVE  \/ i = Len(stack) /\ stack'[i] = Fewer
                 \/ i \in 1..(Len(stack)-1) /\ stack'[i] = stack[i] /\ i \in 1..Len(stack)
      BY <1>0, <2>1, <2>8 DEF Grows, Owner
    <2>9. ASSUME NEW i \in 1..Len(stack'), stack'[i].kind \in Owner
          PROVE  LET f == stack'[i].frame IN
                 /\ stack'[i].kind = "body" => begun'[f] = 0
                 /\ stack'[i].kind = "closing" =>
                       /\ begun'[f] + stack'[i].left <= Len(defers'[f])
                       /\ "nested" \notin cut' => begun'[f] + stack'[i].left = Len(defers'[f])
      <3>1. CASE stack'[i] = Fewer
        BY <2>1, <2>2, <2>7, <3>1
      <3>2. CASE i \in 1..(Len(stack)-1) /\ stack'[i] = stack[i] /\ i \in 1..Len(stack)
        BY <1>0, <2>2, <2>4, <2>9, <3>2 DEF Shared
      <3> QED BY <2>8, <2>9, <3>1, <3>2
    <2> QED BY <2>9 DEF Shared, Owner
  <1>7. ASSUME Close PROVE Shared'
    <2> DEFINE t == Closure(panic)
    <2>1. /\ Turns(t) /\ t.kind = "closing" /\ t.frame = Top.frame
          /\ t.left = Len(defers[Top.frame])
      BY <1>0, <1>7, CloseTurns
    <2>2. Len(stack) > 0 /\ Top.kind = "body" /\ UNCHANGED <<defers, begun, cut>>
      BY <1>7 DEF Close, frames
    <2>3. /\ Len(stack) \in 1..Len(stack) /\ Top = stack[Len(stack)]
          /\ Len(defers[Top.frame]) \in Nat
      <3>1. Len(stack) \in 1..Len(stack) /\ Top = stack[Len(stack)]
        BY <1>0, <2>2, TopType
      <3> QED BY <1>0, <3>1, EntriesTyped
    <2>4. begun[Top.frame] = 0
      BY <1>0, <2>2, <2>3 DEF Shared
    <2> HIDE DEF t
    <2>5. \A i \in 1..Len(stack') : i # Len(stack) => i \in 1..Len(stack) /\ stack'[i] = stack[i]
      BY <1>0, <2>1 DEF Turns
    <2>6. stack'[Len(stack)] = t
      BY <2>1 DEF Turns
    <2> QED BY <1>0, <2>1, <2>2, <2>3, <2>4, <2>5, <2>6 DEF Shared
  <1>8. ASSUME Catch PROVE Shared'
    <2> DEFINE t == Entry("catch", Top.frame, current)
    <2>1. Turns(t) /\ t.kind = "catch" /\ UNCHANGED <<defers, begun, cut>>
      BY <1>0, <1>8, CatchTurns DEF Catch, frames, Entry
    <2> HIDE DEF t
    <2>2. \A i \in 1..Len(stack') : i # Len(stack) => i \in 1..Len(stack) /\ stack'[i] = stack[i]
      BY <1>0, <2>1 DEF Turns
    <2>3. stack'[Len(stack)] = t
      BY <2>1 DEF Turns
    <2> QED BY <1>0, <2>1, <2>2, <2>3 DEF Shared
  <1>9. ASSUME EndBlock \/ EndDeferred \/ LeaveCatch PROVE Shared'
    <2>1. Len(stack) > 0 /\ stack' = Below /\ UNCHANGED <<defers, begun>>
          /\ ("nested" \in cut => "nested" \in cut')
      BY <1>9 DEF EndBlock, EndDeferred, LeaveCatch, InBlock, frames
    <2>2. Len(stack) - 1 \in 0..Len(stack) /\ Shrinks(Len(stack) - 1)
      BY <1>0, <2>1, BelowShrinks
    <2> QED BY <2>1, <2>2, SharedShrinks
  <1>10. ASSUME EndClosure PROVE Shared'
    <2>1. Len(stack) > 0 /\ Top.kind \in Owner /\ stack' = Below /\ cut' = cut
      BY <1>10 DEF EndClosure, Owner
    <2>2. Len(stack) - 1 \in 0..Len(stack) /\ Shrinks(Len(stack) - 1)
      BY <1>0, <2>1, BelowShrinks
    <2>3. ASSUME NEW i \in 1..(Len(stack)-1), stack[i].kind \in Owner
          PROVE  /\ begun'[stack[i].frame] = begun[stack[i].frame]
                 /\ defers'[stack[i].frame] = defers[stack[i].frame]
      <3>1. Len(stack) \in 1..Len(stack) /\ i \in 1..Len(stack) /\ i # Len(stack)
        BY <1>0
      <3>2. stack[i].frame # Top.frame /\ stack[i].frame \in Scopes
        BY <1>0, <2>1, <2>3, <3>1, EntriesTyped DEF Own, Top
      <3> QED BY <1>0, <1>10, <3>2 DEF EndClosure, Release, TypeOK
    <2> QED BY <2>1, <2>2, <2>3, SharedShrinks
  <1>11. ASSUME BreakClosure PROVE Shared'
    <2> DEFINE n == Len(stack) - 2
    <2>1. n \in 0..Len(stack) /\ stack' = SubSeq(stack, 1, n) /\ UNCHANGED <<defers, begun>>
          /\ ("nested" \in cut => "nested" \in cut')
      BY <1>0, <1>11 DEF BreakClosure, frames
    <2> HIDE DEF n
    <2>2. Shrinks(n)
      BY <1>0, <2>1, Shrink
    <2> QED BY <2>1, <2>2, SharedShrinks
  <1> QED BY <1>1, <1>2, <1>3, <1>4, <1>5, <1>6, <1>7, <1>8, <1>9, <1>10, <1>11
          DEF Next, Statement, Ending, Unwinding

-----------------------------------------------------------------------------
(* The theorems.                                                           *)

LEMMA InitInv == Init => Inv
  <1> SUFFICES ASSUME Init PROVE Inv
    OBVIOUS
  <1>1. Entry("body", File, File) \in Entries
    BY EntryType DEF Blocks, Scopes
  <1>2. stack \in Seq(Entries) /\ Len(stack) = 1 /\ stack[1] = Entry("body", File, File)
    BY <1>1 DEF Init
  <1>3. <<>> \in Seq(Sizes) /\ Len(<<>>) = 0
    OBVIOUS
  <1>4. TypeOK
    <2>1. current \in Scopes /\ depth \in Nat /\ panic \in Panics /\ done \in BOOLEAN
          /\ cut \subseteq {"return", "panic", "nested"}
      BY DEF Init, Scopes, Panics
    <2>2. /\ returned \in [Scopes -> BOOLEAN] /\ defers \in [Scopes -> Seq(Sizes)]
          /\ begun \in [Scopes -> Nat]
      BY <1>3 DEF Init
    <2> QED BY <1>2, <2>1, <2>2 DEF TypeOK
  <1>5. stack[1].kind = "body" /\ stack[1].frame = File /\ stack[1].seen = File
    BY <1>2 DEF Entry
  <1>6. Own /\ Chain
    BY <1>2, <1>5 DEF Own, Chain, Owner, Init
  <1>7. Shared
    BY <1>2, <1>5 DEF Shared, Init, Scopes
  <1>8. Calls = {}
    BY <1>2, <1>5 DEF Calls
  <1>9. Counted
    BY <1>8, FS_EmptySet DEF Counted, Init
  <1> QED BY <1>4, <1>6, <1>7, <1>9 DEF Inv

\* The invariant the theorems on the interpreter follow from is inductive.
THEOREM Inductive == Spec => []Inv
  <1>1. Init => Inv
    BY InitInv
  <1>2. Inv /\ [Next]_vars => Inv'
    <2> SUFFICES ASSUME Inv, [Next]_vars PROVE Inv'
      OBVIOUS
    <2>1. CASE Next
      BY <2>1, TypeStep, StackStep, SharedStep DEF Inv
    <2>2. CASE UNCHANGED vars
      BY <2>2 DEF vars, frames, Inv, TypeOK, Own, Shared, Counted, Chain, Calls
    <2> QED BY <2>1, <2>2
  <1> QED BY <1>1, <1>2, PTL DEF Spec

\* Every reachable state is type correct: the depth never goes below zero and
\* a closure never reads a deferred block that is not there.
THEOREM TypeCorrect == Spec => []TypeOK
  <1>1. Inv => TypeOK
    BY DEF Inv
  <1> QED BY <1>1, Inductive, PTL

\* Unless a panic left a deferred block, the current frame and those of all
\* calls in progress are what the Go stack says, for any number of frames.
THEOREM FramesFollowCalls == Spec => []FramesExact
  <1>1. Inv => FramesExact
    <2> SUFFICES ASSUME Inv, "panic" \notin cut PROVE Exact
      BY DEF FramesExact
    <2>1. \A i \in 1..Len(stack) : i > 1 => i \in 2..Len(stack)
      BY DEF Inv, TypeOK
    <2> QED BY <2>1 DEF Inv, Chain, Exact, Top, Owner
  <1> QED BY <1>1, Inductive, PTL

\* Unless a panic left a deferred block, the depth that the recursion limit
\* looks at is the number of calls in progress.
THEOREM DepthCountsCalls == Spec => []DepthExact
  <1>1. Inv => DepthExact
    BY DEF Inv, Counted, DepthExact
  <1> QED BY <1>1, Inductive, PTL

\* A frame that loses none of its entries stays in use.
LEMMA StaysActive ==
    ASSUME TypeOK, stack' \in Seq(Entries), NEW n \in 0..Len(stack), n <= Len(stack'),
           \A j \in 1..n : stack'[j].frame = stack[j].frame,
           NEW i \in 1..n
    PROVE  stack[i].frame \in Active'
  <1>1. i \in 1..Len(stack')
    <2>1. Len(stack') \in Nat /\ Len(stack) \in Nat
      BY DEF TypeOK
    <2> QED BY <2>1
  <1>2. stack[i].frame = stack'[i].frame
    OBVIOUS
  <1> QED BY <1>1, <1>2 DEF Active

\* A call ends only after each of its deferred blocks was begun, unless one of
\* them panicked or registered another.
THEOREM DeferredBlocksBegin == Spec => DefersBegin
  <1>1. ASSUME Inv, [Next]_vars, cut' \cap {"panic", "nested"} = {},
               NEW f \in Active \ Active'
        PROVE  begun[f] = Len(defers[f])
    <2>0. TypeOK /\ Own /\ Shared /\ Chain /\ Len(stack) \in Nat
      BY <1>1 DEF Inv, TypeOK
    <2>1. PICK i \in 1..Len(stack) : f = stack[i].frame
      BY DEF Active
    <2>2. Len(stack) > 0 /\ Len(stack) \in 1..Len(stack) /\ Len(stack) \in 0..Len(stack)
      BY <2>0
    \* Only a step that takes the top away can end the use of a frame.
    <2>3. ASSUME stack' \in Seq(Entries), Len(stack') >= Len(stack),
                 \A j \in 1..Len(stack) : stack'[j].frame = stack[j].frame
          PROVE  FALSE
      BY <1>1, <2>0, <2>1, <2>2, <2>3, StaysActive
    <2>4. CASE Plain \/ Return \/ Throw \/ CallRefused \/ (\E n \in Sizes : Defer(n))
      <3>1. Alike
        BY <2>0, <2>4, After DEF Plain, Return, Throw, CallRefused, Defer
      <3> QED BY <2>0, <2>3, <3>1 DEF Alike
    <2>5. CASE Cancel \/ Interrupt \/ UNCHANGED vars
      <3>1. stack' = stack
        BY <2>5 DEF Cancel, Interrupt, vars
      <3> QED BY <2>0, <2>3, <3>1 DEF TypeOK
    <2>6. ASSUME NEW t, NEW e, Grows(t, e), t.frame = Top.frame PROVE FALSE
      <3>1. \A j \in 1..Len(stack) : stack'[j].frame = stack[j].frame
        BY <2>0, <2>6 DEF Grows, Top
      <3> QED BY <2>0, <2>3, <2>6, <3>1 DEF Grows
    <2>7. ASSUME NEW t, Turns(t), t.frame = Top.frame PROVE FALSE
      <3>1. \A j \in 1..Len(stack) : stack'[j].frame = stack[j].frame
        BY <2>0, <2>7 DEF Turns, Top
      <3> QED BY <2>0, <2>3, <2>7, <3>1 DEF Turns
    <2>8. CASE Try
      <3>1. Further.frame = Top.frame
        BY <2>0, <2>8, FurtherSame DEF Try
      <3> QED BY <2>0, <2>6, <2>8, <3>1, TryGrows
    <2>9. ASSUME NEW g \in Frames, Call(g) PROVE FALSE
      <3>1. Further.frame = Top.frame
        BY <2>0, <2>9, FurtherSame DEF Call
      <3> QED BY <2>0, <2>6, <2>9, <3>1, CallGrows
    <2>10. CASE RunDeferred
      BY <2>0, <2>6, <2>10, RunGrows
    <2>11. CASE Close
      BY <2>0, <2>7, <2>11, CloseTurns
    <2>12. CASE Catch
      <3>1. Entry("catch", Top.frame, current).frame = Top.frame
        BY DEF Entry
      <3> QED BY <2>0, <2>7, <2>12, <3>1, CatchTurns
    <2>13. CASE BreakClosure
      BY <1>1, <2>13 DEF BreakClosure
    \* The top goes alone: the frame in question is its frame.
    <2>14. ASSUME Shrinks(Len(stack) - 1) PROVE f = Top.frame
      <3> DEFINE n == Len(stack) - 1
      <3>1. n \in 0..Len(stack) /\ n <= Len(stack') /\ stack' \in Seq(Entries)
            /\ \A j \in 1..n : stack'[j].frame = stack[j].frame
        BY <2>0, <2>2, <2>14 DEF Shrinks
      <3>2. i \in 1..n \/ i = Len(stack)
        BY <2>0
      <3> HIDE DEF n
      <3>3. i \notin 1..n
        BY <1>1, <2>0, <2>1, <3>1, StaysActive
      <3> QED BY <2>1, <3>2, <3>3 DEF Top
    <2>15. CASE EndBlock \/ EndDeferred \/ LeaveCatch
      <3> DEFINE n == Len(stack) - 1
      <3>1. Top.kind \notin Owner /\ stack' = Below /\ cut \subseteq cut'
        BY <2>15 DEF EndBlock, EndDeferred, LeaveCatch, Owner
      <3>2. Shrinks(n)
        BY <2>0, <2>2, <3>1, BelowShrinks
      <3>3. Len(stack) > 1
        BY <2>0, <2>2, <3>1 DEF Own, Top
      <3>4. Len(stack) \in 2..Len(stack) /\ n \in 1..n /\ n \in 0..Len(stack)
        BY <2>0, <3>3
      <3>5. stack[n].frame = Top.frame
        BY <1>1, <2>0, <3>1, <3>4 DEF Chain, Top
      <3>6. f = stack[n].frame
        BY <2>14, <3>2, <3>5
      <3> HIDE DEF n
      <3>7. stack[n].frame \in Active'
        BY <2>0, <3>2, <3>4, StaysActive DEF Shrinks
      <3> QED BY <1>1, <3>6, <3>7
    <2>16. CASE EndClosure
      <3>1. Top.kind = "closing" /\ Top.left = 0 /\ stack' = Below /\ cut' = cut
        BY <2>16 DEF EndClosure
      <3>2. f = Top.frame
        BY <2>0, <2>2, <2>14, <3>1, BelowShrinks
      <3>3. begun[Top.frame] + Top.left = Len(defers[Top.frame])
        BY <1>1, <2>0, <2>2, <3>1 DEF Shared, Top
      <3>4. begun[Top.frame] \in Nat
        BY <2>0, <2>2, EntriesTyped DEF Top
      <3> QED BY <3>1, <3>2, <3>3, <3>4
    <2> QED BY <1>1, <2>4, <2>5, <2>8, <2>9, <2>10, <2>11, <2>12, <2>13, <2>15, <2>16
            DEF Next, Statement, Ending, Unwinding
  <1>2. Inv /\ [Next]_vars =>
            [cut' \cap {"panic", "nested"} = {} =>
                 \A f \in Active \ Active' : begun[f] = Len(defers[f])]_vars
    BY <1>1
  <1> QED BY <1>2, Inductive, PTL DEF DefersBegin, Spec

\* Frames and depth follow the Go stack, for any number of frames and calls
\* (callMethodEvaluatedWithPlan, executeTryCatch).
THEOREM StackFollowsCalls == Spec => []StackExact
  <1>1. FramesExact /\ DepthExact => StackExact
    BY DEF StackExact
  <1> QED BY <1>1, FramesFollowCalls, DepthCountsCalls, PTL

--------------------------------------------------------------------------------
(* Generators: their inductive invariant.                                  *)

\* How many of the offered items have been taken, at each place of the body.
ItemsCounted ==
    /\ body \in {"uncalled", "running"} => delivered = yields
    /\ body = "yielding" => delivered + 1 = yields
    /\ body \in {"unwound", "freed", "ended"} =>
          delivered = yields \/ (doneClosed /\ delivered + 1 = yields)

\* What the deferred function has done.
Unwinds == /\ body \in {"freed", "ended"} => freed
           /\ itemsClosed => body = "ended"

GeneratorInv == GeneratorTypeOK /\ ItemsCounted /\ Unwinds

\* Who is in a loop or in its Close has looped, and finds done closed between
\* its check and its close only through another one.
Loops ==
    \A c \in Consumers :
       /\ at[c] \in {"select", "iterating", "check", "close"} => c \in looped
       /\ at[c] = "close" /\ doneClosed => \E d \in looped : d # c
       /\ at[c] = "panicked" => \E d \in looped : d # c

--------------------------------------------------------------------------------

\* Every step keeps types, counts and the order of the deferred function.
LEMMA GeneratorInvStep == GeneratorInv /\ [GeneratorNext]_generatorVars => GeneratorInv'
<1> SUFFICES ASSUME GeneratorInv, [GeneratorNext]_generatorVars PROVE GeneratorInv'
  OBVIOUS
<1> USE GeneratorAssumption
       DEF GeneratorInv, GeneratorTypeOK, ItemsCounted, Unwinds, BodyLocations, Locations, bodyVars, chanVars,
           userVars, Moves, RequestItem
<1>1. CASE Called
  BY <1>1 DEF Called
<1>2. CASE Yield
  BY <1>2 DEF Yield
<1>3. CASE BodyEnds
  BY <1>3 DEF BodyEnds
<1>4. CASE Stop
  BY <1>4 DEF Stop
<1>5. CASE Free
  BY <1>5 DEF Free
<1>6. CASE CloseItems
  BY <1>6 DEF CloseItems
<1>7. ASSUME NEW c \in Consumers, HandOver(c) PROVE GeneratorInv'
  BY <1>7 DEF HandOver
<1>8. ASSUME NEW c \in Consumers, GenNext(c) \/ NextEnded(c) PROVE GeneratorInv'
  <2>1. CASE GenNext(c)
    BY <2>1 DEF GenNext
  <2>2. CASE NextEnded(c)
    <3>1. GeneratorTypeOK'
      BY <2>2 DEF NextEnded
    <3>2. (ItemsCounted /\ Unwinds)'
      BY <2>2 DEF NextEnded
    <3>3. QED BY <3>1, <3>2
  <2>3. QED BY <1>8, <2>1, <2>2
<1>9. ASSUME NEW c \in Consumers, Foreach(c) \/ Leave(c) PROVE GeneratorInv'
  BY <1>9 DEF Foreach, Leave
<1>10. ASSUME NEW c \in Consumers, CheckDone(c) \/ CloseDone(c) PROVE GeneratorInv'
  <2>1. CASE CheckDone(c)
    BY <2>1 DEF CheckDone
  <2>2. CASE CloseDone(c)
    <3>1. GeneratorTypeOK'
      BY <2>2 DEF CloseDone
    <3>2. (ItemsCounted /\ Unwinds)'
      BY <2>2 DEF CloseDone
    <3>3. QED BY <3>1, <3>2
  <2>3. QED BY <1>10, <2>1, <2>2
<1>11. CASE UNCHANGED generatorVars
  BY <1>11 DEF generatorVars
<1>12. QED
  BY <1>1, <1>2, <1>3, <1>4, <1>5, <1>6, <1>7, <1>8, <1>9, <1>10, <1>11 DEF GeneratorNext, BodySteps

\* Only another looping goroutine gets between the check and the close.
LEMMA LoopsStep == GeneratorTypeOK /\ Loops /\ [GeneratorNext]_generatorVars => Loops'
<1> SUFFICES ASSUME GeneratorTypeOK, Loops, [GeneratorNext]_generatorVars PROVE Loops'
  OBVIOUS
<1> USE DEF GeneratorTypeOK, Loops, bodyVars, chanVars, userVars, Moves
<1>1. CASE Called \/ BodySteps
  BY <1>1 DEF Called, BodySteps, Yield, BodyEnds, Stop, Free, CloseItems
<1>2. ASSUME NEW c \in Consumers, HandOver(c) \/ GenNext(c) \/ NextEnded(c) PROVE Loops'
  BY <1>2 DEF HandOver, GenNext, NextEnded
<1>3. ASSUME NEW c \in Consumers, Foreach(c) \/ Leave(c) PROVE Loops'
  BY <1>3 DEF Foreach, Leave
<1>4. ASSUME NEW c \in Consumers, CheckDone(c) PROVE Loops'
  BY <1>4 DEF CheckDone
<1>5. ASSUME NEW c \in Consumers, CloseDone(c) PROVE Loops'
  BY <1>5 DEF CloseDone
<1>6. CASE UNCHANGED generatorVars
  BY <1>6 DEF generatorVars
<1>7. QED BY <1>1, <1>2, <1>3, <1>4, <1>5, <1>6 DEF GeneratorNext

--------------------------------------------------------------------------------
(* Generators: the theorems.                                               *)

\* The inductive invariant holds in every reachable state.
THEOREM GeneratorInductive == GeneratorSpec => []GeneratorInv
<1>1. GeneratorInit => GeneratorInv
  <2> SUFFICES ASSUME GeneratorInit PROVE GeneratorInv
    OBVIOUS
  <2>1. GeneratorTypeOK
    <3>1. yields \in 0..MaxYields /\ delivered \in 0..yields /\ requests \in 0..MaxRequests
      BY GeneratorAssumption DEF GeneratorInit
    <3>2. /\ itemsClosed \in BOOLEAN /\ doneClosed \in BOOLEAN
          /\ freed \in BOOLEAN /\ valid \in BOOLEAN
      BY DEF GeneratorInit
    <3>3. body \in BodyLocations /\ looped \subseteq Consumers
      BY DEF GeneratorInit, BodyLocations
    <3>4. at \in [Consumers -> Locations]
      BY DEF GeneratorInit, Locations
    <3>5. QED BY <3>1, <3>2, <3>3, <3>4 DEF GeneratorTypeOK
  <2>2. ItemsCounted /\ Unwinds
    BY DEF GeneratorInit, ItemsCounted, Unwinds
  <2>3. QED BY <2>1, <2>2 DEF GeneratorInv
<1>2. QED BY <1>1, GeneratorInvStep, PTL DEF GeneratorSpec

\* The types hold.
THEOREM GeneratorIsTyped == GeneratorSpec => []GeneratorTypeOK
<1>1. GeneratorInv => GeneratorTypeOK
  BY DEF GeneratorInv
<1>2. QED BY <1>1, GeneratorInductive, PTL

\* The fork is freed before the consumers learn that the generator is over.
THEOREM FreedFirst == GeneratorSpec => []FreedBeforeEnd
<1>1. GeneratorInv => FreedBeforeEnd
  BY DEF GeneratorInv, Unwinds, FreedBeforeEnd
<1>2. QED BY <1>1, GeneratorInductive, PTL

\* No item is lost before a Close, and at most one after it.
THEOREM ItemsArrive == GeneratorSpec => []NothingLost
<1>1. GeneratorInv => NothingLost
  BY GeneratorAssumption DEF GeneratorInv, GeneratorTypeOK, BodyLocations, ItemsCounted, NothingLost
<1>2. QED BY <1>1, GeneratorInductive, PTL

\* done is closed twice only when two goroutines have looped (Generator.Close).
THEOREM OneLoopCloses == GeneratorSpec => []ClosesOnce
<1>1. GeneratorInit => Loops
  BY DEF GeneratorInit, Loops
<1>2. GeneratorTypeOK /\ Loops /\ [GeneratorNext]_generatorVars => Loops'
  BY LoopsStep
<1>3. Loops => ClosesOnce
  BY DEF Loops, ClosesOnce
<1>4. QED BY <1>1, <1>2, <1>3, GeneratorIsTyped, PTL DEF GeneratorSpec

\* Who sees the end of a generator has seen all its items, and its fork is
\* free, for any number of consumers (evaluateYield, call_method.go).
THEOREM EndsAreFinal == GeneratorSpec => []EndIsFinal
<1>1. NothingLost /\ FreedBeforeEnd => EndIsFinal
  BY DEF EndIsFinal
<1>2. QED BY <1>1, ItemsArrive, FreedFirst, PTL

================================================================================
