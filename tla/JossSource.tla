----------------------------- MODULE JossSource -----------------------------
(***************************************************************************)
(* The language that the compiler receives, cut down to integers, local    *)
(* variables and functions of one parameter, and what the interpreter      *)
(* (`joss run`, pkg/core) makes of it: a program's meaning is what it      *)
(* prints and whether an exception escapes from it.                        *)
(*                                                                         *)
(* Nodes are records, `e' naming the kind of an expression and `s' the     *)
(* kind of a statement, as the node types of pkg/parser do.                *)
(***************************************************************************)
EXTENDS Integers, Sequences, SequencesExt, TLC

CONSTANTS
    Names,      \* the names of variables
    Methods     \* the functions of the project: name -> [par, body]

Lit(n)              == [e |-> "lit", v |-> n]
Var(x)              == [e |-> "var", x |-> x]
Infix(op, l, r)     == [e |-> op, l |-> l, r |-> r]     \* "add", "less", "and"
Assign(x, r)        == [e |-> "assign", x |-> x, r |-> r]
Postfix(x)          == [e |-> "inc", x |-> x]           \* $x++
Call(f, a)          == [e |-> "call", f |-> f, a |-> a]
Ternary(c, l, r)    == [e |-> "ternary", c |-> c, l |-> l, r |-> r]
BlockExpression(b)  == [e |-> "block", body |-> b]
Nil                 == [e |-> "nil"]                    \* the missing branch

Let(x, r)           == [s |-> "let", x |-> x, r |-> r]
ExprStmt(r)         == [s |-> "expr", r |-> r]
Return(r)           == [s |-> "return", r |-> r]
Guard(c, b)         == [s |-> "guard", c |-> c, body |-> b]
While(c, b)         == [s |-> "while", c |-> c, body |-> b]
DoWhile(b, c)       == [s |-> "dowhile", c |-> c, body |-> b]
Break               == [s |-> "break"]
Continue            == [s |-> "continue"]
Echo(r)             == [s |-> "echo", r |-> r]
Throw(r)            == [s |-> "throw", r |-> r]
TryCatch(b, x, h)   == [s |-> "try", body |-> b, x |-> x, handler |-> h]

\* The same function, tabulated: TLC would evaluate it again at every use.
Table(f) == f @@ <<>>

\* Runtime: the variables, the output, the value of the last expression, and
\* what ended the statement before its end: hasBreak, hasContinue, the frame's
\* hasReturn, or a panic.
Runtime(env) == [env |-> Table(env), out |-> <<>>, v |-> 0, signal |-> "none"]
Ended(r)     == r.signal # "none"
Truth(b)     == IF b THEN 1 ELSE 0
isTruthy(v)  == v # 0

RECURSIVE evaluateExpression(_, _), executeStatement(_, _)

executeBlock(r, block) ==
    FoldLeft(LAMBDA a, s : IF Ended(a) THEN a ELSE executeStatement(a, s), r, block)

updateVariable(r, x) == IF Ended(r) THEN r ELSE [r EXCEPT !.env[x] = r.v]

\* && gives its right side only to a left side that holds.
evaluateInfix(r, e) ==
    LET left  == evaluateExpression(r, e.l)
        right == evaluateExpression(left, e.r)
    IN  IF Ended(left) \/ (e.e = "and" /\ ~isTruthy(left.v)) THEN left
        ELSE IF Ended(right) THEN right
        ELSE [right EXCEPT !.v = IF e.e = "add" THEN left.v + right.v
                                 ELSE IF e.e = "less" THEN Truth(left.v < right.v)
                                 ELSE Truth(isTruthy(right.v))]

evaluateTernary(r, e) ==
    LET c == evaluateExpression(r, e.c)
    IN  IF Ended(c) THEN c
        ELSE evaluateExpression(c, IF isTruthy(c.v) THEN e.l ELSE e.r)

\* A call runs the body in a frame of its own; what it prints is kept.
executeCall(r, e) ==
    LET a  == evaluateExpression(r, e.a)
        m  == Methods[e.f]
        b  == executeBlock([Runtime([x \in Names |-> IF x = m.par THEN a.v ELSE 0])
                              EXCEPT !.out = a.out], m.body)
    IN  IF Ended(a) THEN a
        ELSE [a EXCEPT !.out = b.out, !.v = IF b.signal = "return" THEN b.v ELSE 0,
                       !.signal = IF b.signal = "throw" THEN "throw" ELSE "none"]

evaluateExpression(r, e) ==
    CASE e.e = "lit"     -> [r EXCEPT !.v = e.v]
      [] e.e = "nil"     -> [r EXCEPT !.v = 0]
      [] e.e = "var"     -> [r EXCEPT !.v = r.env[e.x]]
      [] e.e = "inc"     -> [r EXCEPT !.v = r.env[e.x], !.env[e.x] = @ + 1]
      [] e.e = "assign"  -> updateVariable(evaluateExpression(r, e.r), e.x)
      [] e.e = "call"    -> executeCall(r, e)
      [] e.e = "ternary" -> evaluateTernary(r, e)
      [] e.e = "block"   -> executeBlock(r, e.body)
      [] OTHER           -> evaluateInfix(r, e)

\* A loop forgets the break or continue of its body; anything else leaves it.
RECURSIVE executeLoop(_, _, _)
executeLoop(r, s, checked) ==
    LET c == IF checked THEN evaluateExpression(r, s.c) ELSE r
        b == executeBlock(c, s.body)
    IN  IF Ended(c) \/ (checked /\ ~isTruthy(c.v)) THEN c
        ELSE CASE b.signal = "break"               -> [b EXCEPT !.signal = "none"]
               [] b.signal \in {"none", "continue"} ->
                      executeLoop([b EXCEPT !.signal = "none"], s, TRUE)
               [] OTHER                            -> b

executeGuard(r, s) ==
    LET c == evaluateExpression(r, s.c)
    IN  IF Ended(c) \/ isTruthy(c.v) THEN c ELSE executeBlock(c, s.body)

\* Only an exception reaches the handler: the signals of return, break and
\* continue pass through.
executeTryCatch(r, s) ==
    LET b == executeBlock(r, s.body)
    IN  IF b.signal # "throw" THEN b
        ELSE executeBlock([b EXCEPT !.signal = "none", !.env[s.x] = b.v], s.handler)

Leave(r, signal) == IF Ended(r) THEN r ELSE [r EXCEPT !.signal = signal]

executeStatement(r, s) ==
    CASE s.s = "let"      -> updateVariable(evaluateExpression(r, s.r), s.x)
      [] s.s = "expr"     -> evaluateExpression(r, s.r)
      [] s.s = "return"   -> Leave(evaluateExpression(r, s.r), "return")
      [] s.s = "guard"    -> executeGuard(r, s)
      [] s.s = "while"    -> executeLoop(r, s, TRUE)
      [] s.s = "dowhile"  -> executeLoop(r, s, FALSE)
      [] s.s = "break"    -> Leave(r, "break")
      [] s.s = "continue" -> Leave(r, "continue")
      [] s.s = "throw"    -> Leave(evaluateExpression(r, s.r), "throw")
      [] s.s = "try"      -> executeTryCatch(r, s)
      [] OTHER            -> LET v == evaluateExpression(r, s.r)
                             IN  IF Ended(v) THEN v ELSE [v EXCEPT !.out = Append(@, v.v)]

\* What a program means: its output, and whether an exception escaped.
Meaning(program) ==
    LET r == executeBlock(Runtime([x \in Names |-> 0]), program)
    IN  [out |-> r.out, failed |-> r.signal = "throw"]
=============================================================================
