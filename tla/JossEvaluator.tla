---------------------------- MODULE JossEvaluator ----------------------------
(***************************************************************************)
(* How the tree-walking evaluator runs a function (src/pkg/core/           *)
(* evaluator*.go, executor.go, frame_runtime.go, call_method.go).  In      *)
(* front of the general evaluation stand fast paths for integers and       *)
(* floats; with fast = FALSE a machine runs without them.                  *)
(*                                                                         *)
(* A machine has the functions of the program, the slots of the frame that *)
(* runs, what was printed as <<id, value>>, the value of the last step, ok *)
(* (whether a fast path took it), the pending break or continue, the value *)
(* returned, the error that unwinds it, and again: a fast path has given   *)
(* up after an effect, which is had again when another path starts over    *)
(* (history).                                                              *)
(***************************************************************************)
EXTENDS JossValues

Machine(fns, fast) ==
    [fns |-> fns, fast |-> fast, slots |-> <<>>, out |-> <<>>, v |-> NullV, ok |-> TRUE,
     brk |-> "", ret |-> <<>>, err |-> <<>>, again |-> FALSE]

Give(m, v)      == [m EXCEPT !.v = v, !.ok = TRUE]
Refuse(m)       == [m EXCEPT !.ok = FALSE]
\* The path that led from m to n is not taken after all.
GiveUp(m, n)    == [Refuse(n) EXCEPT !.again = @ \/ <<n.slots, n.out>> # <<m.slots, m.out>>]
Raise(m, error) == [m EXCEPT !.err = <<"joss", error>>]
RaiseText(m, t) == [m EXCEPT !.err = <<"text", t>>]
Result(m, r)    == IF r[1] = "fault" THEN Raise(m, r[2]) ELSE Give(m, r)
Then(m, F(_))   == IF m.err # <<>> THEN m ELSE F(m)

\* One step for every kind of tree, so that every recursion comes back here.
RECURSIVE Do(_, _, _)

(***************************************************************************)
(* Slots.                                                                  *)
(***************************************************************************)
HasSlot(m, x) == x \in DOMAIN m.slots
Put(m, x, v)  == Give([m EXCEPT !.slots[x].value = v, !.slots[x].init = TRUE], v)
PutTyped(m, x, v) ==        \* SetInt, SetFloat, SetString: the first value fixes the type
    LET s == m.slots[x] IN
    Put(IF s.init THEN m ELSE [m EXCEPT !.slots[x].type = Of(v[1]), !.slots[x].typed = TRUE], x, v)

assignSlot(m, x, v, initializing) ==
    LET s == m.slots[x]
        c == coerceToParsedType(v, s.type)
        t == runtimeTypeOf(v)
    IN CASE s.const /\ s.init /\ ~initializing -> Raise(m, "ConstantAssignment")
         [] /\ ~(s.const /\ s.init /\ ~initializing)
            /\ v[1] \in {"int", "float", "string"}
            /\ s.value[1] = v[1] \/ s.type.k = v[1] \/ (s.inferred /\ ~s.init) -> PutTyped(m, x, v)
         [] OTHER ->
              IF s.typed /\ s.type.k \notin {"mixed", "unknown"}
              THEN IF checkParsedType(c, s.type) THEN Put(m, x, c) ELSE Raise(m, "TypeError")
              ELSE Put(IF s.inferred /\ initializing /\ IsKnown(t)
                       THEN [m EXCEPT !.slots[x].type = t, !.slots[x].typed = TRUE] ELSE m, x, v)

Identifier(x, m) ==
    IF HasSlot(m, x[2]) /\ m.slots[x[2]].init
    THEN Give(m, m.slots[x[2]].value) ELSE Raise(m, "UndefinedVariable")

(***************************************************************************)
(* The fast paths (evaluator_numeric.go).  Both operands are evaluated     *)
(* before the operator is looked at.                                       *)
(***************************************************************************)
SlotNumber(x, m, kinds) ==
    LET v == IF x[1] = "lit" THEN x[2]
             ELSE IF HasSlot(m, x[2]) THEN m.slots[x[2]].value ELSE Nil
    IN IF v[1] \in kinds THEN Give(m, v) ELSE Refuse(m)

ElementOperand(x, m) ==
    Then(Do("eval", x[2], m), LAMBDA n :
        IF n.v[1] # "array" THEN Refuse(n)
        ELSE Then(Do("int", x[3], n), LAMBDA o :
             Then(IF o.ok THEN o ELSE Do("eval", x[3], o), LAMBDA p :
                 IF /\ p.v[1] = "int" /\ p.v[2] \in 0 .. Len(n.v[2]) - 1
                    /\ n.v[2][p.v[2] + 1][1] = "int"
                 THEN Give(p, n.v[2][p.v[2] + 1]) ELSE Refuse(p))))

slotIntegerOperand(x, m) ==
    CASE x[1] \in {"lit", "id"} -> SlotNumber(x, m, {"int"})
      [] x[1] = "infix" -> Then(Do("intinfix", x, m), LAMBDA n :
             IF n.ok /\ n.v[1] = "int" THEN n ELSE Refuse(n))
      [] x[1] = "index" -> ElementOperand(x, m)
      [] OTHER -> Refuse(m)


evaluateSlotIntegerInfix(x, m) ==
    Then(Do("int", x[3], m), LAMBDA a : Then(Do("int", x[4], a), LAMBDA b :
        LET r == IF x[2] \in {"===", "!=="} THEN Related(x[2], a.v[2], b.v[2])
                 ELSE OnIntegers(x[2], a.v[2], b.v[2])
        IN IF a.ok /\ b.ok THEN (IF r = Unhandled THEN Refuse(b) ELSE Result(b, r)) ELSE Refuse(b)))

slotFloatOperand(x, m) ==
    LET Exact(n) == IF n.ok /\ Inexact(n.v) THEN Refuse(n) ELSE n IN
    CASE x[1] \in {"lit", "id"} -> Exact(SlotNumber(x, m, {"int", "float"}))
      [] x[1] = "infix" -> Then(Do("floatinfix", x, m), LAMBDA n :
             IF n.ok /\ n.v[1] = "float" THEN n
             ELSE Then(Do("intinfix", x, GiveUp(m, n)), LAMBDA o :
                 IF o.ok /\ o.v[1] \in {"int", "float"} THEN Exact(o) ELSE Refuse(o)))
      [] OTHER -> Refuse(m)

OnSlotFloats(op, l, r) ==
    CASE op \in {"+", "-", "*", "/", "<", ">", "<=", ">="} -> OnFloats(op, l, r)
      [] op \in {"==", "==="} -> BoolV(l = r)
      [] op \in {"!=", "!=="} -> BoolV(l # r)
      [] OTHER -> Unhandled
evaluateSlotFloatInfix(x, m) ==
    Then(Do("float", x[3], m), LAMBDA a : Then(Do("float", x[4], a), LAMBDA b :
        LET r == OnSlotFloats(x[2], a.v, b.v)
        IN IF a.ok /\ b.ok /\ "float" \in {a.v[1], b.v[1]}
           THEN (IF r = Unhandled THEN Refuse(b) ELSE Result(b, r)) ELSE Refuse(b)))

\* The fast paths in their order; Fits decides whether a result is used.
Fast(x, m, Fits(_)) ==
    IF ~m.fast THEN Refuse(m)
    ELSE Then(Do("intinfix", x, m), LAMBDA n : IF n.ok /\ Fits(n.v) THEN n
         ELSE Then(Do("floatinfix", x, GiveUp(m, n)), LAMBDA o : IF o.ok /\ Fits(o.v) THEN o ELSE GiveUp(n, o)))

(***************************************************************************)
(* Expressions.                                                            *)
(***************************************************************************)
NullCoalescing(x, m) ==
    Then(Do("eval", x[3], m), LAMBDA n : IF n.v # NullV THEN n ELSE Do("eval", x[4], n))

InGeneral(x, m) ==
    Then(Do("eval", x[3], m), LAMBDA a :
        IF x[2] \in {"&&", "||"} /\ isTruthy(a.v) = (x[2] = "||") THEN Give(a, BoolV(x[2] = "||"))
        ELSE Then(Do("eval", x[4], a), LAMBDA b :
            IF x[2] \in {"&&", "||"} THEN Give(b, BoolV(isTruthy(b.v)))
            ELSE Result(b, General(x[2], a.v, b.v))))

evaluateInfix(x, m) ==
    IF x[2] = "??" THEN NullCoalescing(x, m)
    ELSE Then(Fast(x, m, LAMBDA v : TRUE), LAMBDA n : IF n.ok THEN n ELSE InGeneral(x, n))

evaluateCondition(c, m) ==
    Then(IF c[1] = "infix" THEN Fast(c, m, LAMBDA v : v[1] = "bool") ELSE Refuse(m), LAMBDA n :
        IF n.ok THEN n
        ELSE Then(Do("eval", c, n), LAMBDA o : Give(o, BoolV(isTruthy(o.v)))))

RunBlock(ss, m) == Do("block", ss, Give(m, NullV))
\* A branch of a ternary, the value of an arm: a block is executed.
Branch(x, m) == IF x[1] = "block" THEN RunBlock(x[2], m) ELSE Do("eval", x, m)

evaluateTernary(x, m) ==
    IF x[3] = Nil
    THEN Then(Do("eval", x[2], m), LAMBDA n : IF isTruthy(n.v) THEN n ELSE Do("eval", x[4], n))
    ELSE Then(evaluateCondition(x[2], m), LAMBDA n : Branch(IF n.v[2] THEN x[3] ELSE x[4], n))

\* The keys of the arms in their order; the default stands aside until the end.
evaluateMatch(x, m) ==
    LET defaults == SelectSeq(x[3], LAMBDA arm : arm[1] = <<>>)
        keyed    == FlattenSeq([i \in DOMAIN x[3] |->
                        [j \in DOMAIN x[3][i][1] |-> <<x[3][i][1][j], x[3][i][2]>>]])
    IN Then(Do("eval", x[2], m), LAMBDA n :
           Do("arms", <<keyed, n.v, IF defaults = <<>> THEN <<"lit", NullV>> ELSE Last(defaults)[2]>>, n))
MatchArms(x, m) ==
    IF x[1] = <<>> THEN Branch(x[3], m)
    ELSE Then(Do("eval", x[1][1][1], m), LAMBDA n :
             IF strictCompare(x[2], n.v) THEN Branch(x[1][1][2], n)
             ELSE Do("arms", <<Tail(x[1]), x[2], x[3]>>, n))

evaluatePrefix(x, m) ==
    Then(Do("eval", x[3], m), LAMBDA n :
        CASE x[2] = "!" -> Give(n, BoolV(isFalsy(n.v)))
          [] x[2] = "-" /\ n.v[1] = "int" -> Result(n, CheckedIntNegate(n.v[2]))
          [] x[2] = "-" /\ n.v[1] \in {"float", "decimal"} -> Give(n, <<n.v[1], -n.v[2]>>)
          [] OTHER -> Give(n, NullV))

\* ++ and --: in the slot of an integer or a float, or by an assignment.
Stepped(op, v) ==
    LET d == IF op = "++" THEN 1 ELSE -1 IN
    CASE v[1] = "int" -> CheckedIntBinary("+", v[2], d)
      [] v[1] \in {"float", "decimal"} -> <<v[1], v[2] + 4 * d>>
      [] OTHER -> Unhandled
updatePostfixSlot(x, m) ==
    LET s == m.slots[x[3][2]]
        r == Stepped(x[2], s.value)
    IN IF ~(m.fast /\ x[3][1] = "id" /\ HasSlot(m, x[3][2]) /\ s.init) THEN Refuse(m)
       ELSE IF s.const THEN Raise(m, "ConstantAssignment")
       ELSE IF s.value[1] \notin {"int", "float"} THEN Refuse(m)
       ELSE IF r[1] = "fault" THEN Raise(m, r[2])
       ELSE Give(Put(m, x[3][2], r), s.value)
evaluatePostfix(x, m) ==
    Then(updatePostfixSlot(x, m), LAMBDA n : IF n.ok THEN n
        ELSE Then(Do("eval", x[3], n), LAMBDA o :
            LET r == Stepped(x[2], o.v) IN
            CASE r = Unhandled -> Give(o, NullV)
              [] r[1] = "fault" -> Raise(o, r[2])
              [] OTHER -> Then(assignSlot(o, x[3][2], r, FALSE), LAMBDA p : Give(p, o.v))))

evaluateIndex(x, m) ==
    Then(Do("eval", x[2], m), LAMBDA a : Then(Do("eval", x[3], a), LAMBDA b :
        CASE a.v[1] \notin {"array", "string"} \/ b.v[1] # "int" -> Raise(b, "TypeError")
          [] a.v[1] \in {"array", "string"} /\ b.v[1] = "int" ->
                 IF b.v[2] \notin 0 .. Len(a.v[2]) - 1 THEN Raise(b, "IndexError")
                 ELSE Give(b, IF a.v[1] = "array" THEN a.v[2][b.v[2] + 1]
                              ELSE StrV(SubSeq(a.v[2], b.v[2] + 1, b.v[2] + 1)))))

\* Values of several expressions, from left to right.
EvaluateAll(x, m) ==
    IF x[1] = <<>> THEN Give(m, <<"array", x[2]>>)
    ELSE Then(Do("eval", x[1][1], m), LAMBDA n : Do("all", <<Tail(x[1]), Append(x[2], n.v)>>, n))

FastAssign(x, e, m, Wanted(_)) ==
    IF ~m.fast THEN Refuse(m)
    ELSE Then(Do("int", e, m), LAMBDA a :
        IF a.ok /\ Wanted("int") THEN PutTyped(a, x, a.v)
        ELSE Then(Do("float", e, GiveUp(m, a)), LAMBDA b :
            IF b.ok /\ b.v[1] = "float" /\ Wanted("float") THEN PutTyped(b, x, b.v) ELSE GiveUp(a, b)))
evaluateAssign(x, m) ==
    LET s == m.slots[x[2]] IN
    IF s.const /\ s.init THEN Raise(m, "ConstantAssignment")
    ELSE Then(FastAssign(x[2], x[3], m, LAMBDA k :
                 s.value[1] = k \/ s.type.k = k \/ (s.inferred /\ ~s.init)), LAMBDA n :
        IF n.ok THEN n
        ELSE Then(Do("eval", x[3], n), LAMBDA o : assignSlot(o, x[2], o.v, FALSE)))

(***************************************************************************)
(* Calls.  Defaults are literals; by-reference parameters, names of        *)
(* arguments and the bound on the depth are left out (JossCalls).          *)
(***************************************************************************)
Arguments(fun, args) ==
    [i \in DOMAIN fun.params |->
        LET p == fun.params[i] v == IF i <= Len(args) THEN args[i] ELSE p[3][2]
        IN IF p[2].k = "mixed" THEN v ELSE coerceToParsedType(v, p[2])]
Bound(slots, fun, values) ==
    [x \in DOMAIN slots |->
        LET i == {j \in DOMAIN fun.params : fun.params[j][1] = x}
        IN IF i = {} THEN slots[x]
           ELSE [slots[x] EXCEPT !.init = TRUE, !.value = values[CHOOSE j \in i : TRUE]]]
Returned(fun, v, m) ==
    IF fun.ret # Unknown /\ ~checkParsedType(v, fun.ret) THEN Raise(m, "ReturnTypeError") ELSE Give(m, v)
Leave(fun, n, m) ==
    Then([n EXCEPT !.slots = m.slots, !.ret = m.ret], LAMBDA o :
        Returned(fun, coerceToParsedType(IF fun.ret = Void THEN NullV
                                         ELSE IF n.ret # <<>> THEN n.ret[1] ELSE n.v, fun.ret), o))
Enter(fun, values, m) ==
    IF \E i \in DOMAIN values : ~checkParsedType(values[i], fun.params[i][2])
    THEN RaiseText(m, "TypeError")
    ELSE Leave(fun, RunBlock(fun.body, [m EXCEPT !.slots = Bound(Plan(fun), fun, values), !.ret = <<>>]), m)
callMethod(fun, args, m) ==
    IF \/ Len(args) > Len(fun.params)
       \/ \E i \in DOMAIN fun.params : i > Len(args) /\ fun.params[i][3] = Nil
    THEN RaiseText(m, "ArityError")
    ELSE Enter(fun, Arguments(fun, args), m)
executeCall(x, m) ==
    Then(Do("all", <<x[3], <<>>>>, m), LAMBDA n :
        IF x[2] \in DOMAIN n.fns THEN callMethod(n.fns[x[2]], n.v[2], n) ELSE Raise(n, "UndefinedFunction"))

(***************************************************************************)
(* Statements (executor.go).                                               *)
(***************************************************************************)
Let(x, m) ==
    LET s == m.slots[x[3]] IN
    Then(IF x[4] = Nil THEN Refuse(m)
         ELSE FastAssign(x[3], x[4], m, LAMBDA k : s.type.k = k \/ s.inferred), LAMBDA n :
        IF n.ok THEN Give(n, NullV)
        ELSE Then(IF x[4] = Nil THEN Give(n, getZeroValue(x[2])) ELSE Do("eval", x[4], n), LAMBDA o :
             Then(assignSlot(o, x[3], o.v, TRUE), LAMBDA p : Give(p, NullV))))
MultiLet(x, m) ==
    IF x[3] = <<>> THEN Give(m, NullV)
    ELSE LET d == x[3][1] IN
         Then(IF d[2] = Nil THEN Give(m, getZeroValue(x[2])) ELSE Do("eval", d[2], m), LAMBDA n :
         Then(assignSlot(n, d[1], IF x[2] = Unknown THEN n.v ELSE coerceToParsedType(n.v, x[2]), TRUE),
              LAMBDA o : Do("exec", <<"lets", x[2], Tail(x[3])>>, o)))

Destructure(x, m) ==
    Then(Do("eval", x[3], m), LAMBDA n :
        LET items == IF n.v[1] = "array" THEN n.v[2] ELSE <<n.v>> IN
        Give(FoldLeftDomain(LAMBDA o, i : Then(o, LAMBDA p :
                 assignSlot(p, x[2][i], IF i <= Len(items) THEN items[i] ELSE NullV, FALSE)), n, x[2]), NullV))

executeBlock(ss, m) ==
    IF ss = <<>> THEN m
    ELSE Then(Do("exec", ss[1], m), LAMBDA n :
        IF n.ret # <<>> THEN Give(n, n.ret[1])
        ELSE IF n.brk # "" THEN n ELSE Do("block", Tail(ss), n))

\* After the body of a loop: whether there is another round.
Round(n, Next(_)) ==
    Then(n, LAMBDA o :
        IF o.brk = "break" \/ o.ret # <<>> THEN Give([o EXCEPT !.brk = ""], NullV)
        ELSE Next([o EXCEPT !.brk = ""]))
executeWhile(x, m) ==
    Then(evaluateCondition(x[2], m), LAMBDA n :
        IF ~n.v[2] THEN Give(n, NullV)
        ELSE Round(RunBlock(x[3], n), LAMBDA o : Do("exec", x, o)))
executeDoWhile(x, m) ==
    Round(RunBlock(x[2], m), LAMBDA o : Then(evaluateCondition(x[3], o), LAMBDA n :
        IF n.v[2] THEN Do("exec", x, n) ELSE Give(n, NullV)))
executeForeach(x, m) ==
    Then(Do("eval", x[4], m), LAMBDA n :
        IF n.v[1] = "array" THEN Do("rounds", <<x, n.v[2], 1>>, n) ELSE Give(n, NullV))
Rounds(x, m) ==
    LET f == x[1] IN
    IF x[3] > Len(x[2]) THEN Give(m, NullV)
    ELSE Round(RunBlock(f[5], Put(IF f[2] = "" THEN m ELSE Put(m, f[2], IntV(x[3] - 1)), f[3], x[2][x[3]])),
               LAMBDA o : Do("rounds", <<f, x[2], x[3] + 1>>, o))

executeGuard(x, m) ==
    Then(evaluateCondition(x[2], m), LAMBDA n :
        IF n.v[2] THEN Give(n, NullV) ELSE RunBlock(x[3], n))

Caught(error) ==
    CASE error[1] = "joss" -> <<"map">>
      [] error[1] = "text" -> StrV(error[2])
      [] OTHER -> error[2]
executeTryCatch(x, m) ==
    LET n == RunBlock(x[2], m) IN
    IF n.err = <<>> THEN n
    ELSE RunBlock(x[4], Put([n EXCEPT !.err = <<>>], x[3], Caught(n.err)))

executeReturn(x, m) ==
    Then(IF x[2] = Nil THEN Give(m, NullV) ELSE Do("eval", x[2], m), LAMBDA n : [n EXCEPT !.ret = <<n.v>>])

ExpressionStatement(x, m) ==
    IF x[2][1] = "postfix"
    THEN Then(updatePostfixSlot(x[2], m), LAMBDA n :
             IF n.ok THEN Give(n, NullV) ELSE evaluatePostfix(x[2], n))
    ELSE Do("eval", x[2], m)

executeStatement(x, m) ==
    CASE x[1] = "let" -> Let(x, m)
      [] x[1] = "lets" -> MultiLet(x, m)
      [] x[1] = "destructure" -> Destructure(x, m)
      [] x[1] = "expr" -> ExpressionStatement(x, m)
      [] x[1] = "echo" -> Then(Do("eval", x[3], m), LAMBDA n :
             Give([n EXCEPT !.out = Append(@, <<x[2], n.v>>)], NullV))
      [] x[1] = "while" -> executeWhile(x, m)
      [] x[1] = "dowhile" -> executeDoWhile(x, m)
      [] x[1] = "foreach" -> executeForeach(x, m)
      [] x[1] = "guard" -> executeGuard(x, m)
      [] x[1] = "try" -> executeTryCatch(x, m)
      [] x[1] = "throw" -> Then(Do("eval", x[2], m), LAMBDA n : [n EXCEPT !.err = <<"thrown", n.v>>])
      [] x[1] = "return" -> executeReturn(x, m)
      [] x[1] \in {"break", "continue"} -> Give([m EXCEPT !.brk = x[1]], NullV)

evaluateExpression(x, m) ==
    CASE x = Nil -> Give(m, NullV)
      [] x[1] = "lit" -> Give(m, x[2])
      [] x[1] = "id" -> Identifier(x, m)
      [] x[1] = "assign" -> evaluateAssign(x, m)
      [] x[1] = "infix" -> evaluateInfix(x, m)
      [] x[1] = "prefix" -> evaluatePrefix(x, m)
      [] x[1] = "postfix" -> evaluatePostfix(x, m)
      [] x[1] = "ternary" -> evaluateTernary(x, m)
      [] x[1] = "match" -> evaluateMatch(x, m)
      [] x[1] = "is" -> Then(Do("eval", x[2], m), LAMBDA n : Give(n, BoolV(checkParsedType(n.v, x[3]))))
      [] x[1] = "array" -> Do("all", <<x[2], <<>>>>, m)
      [] x[1] = "index" -> evaluateIndex(x, m)
      [] x[1] = "call" -> executeCall(x, m)

Tried(what, x, m) ==
    LET n == CASE what = "int"        -> slotIntegerOperand(x, m)
               [] what = "float"      -> slotFloatOperand(x, m)
               [] what = "intinfix"   -> evaluateSlotIntegerInfix(x, m)
               [] what = "floatinfix" -> evaluateSlotFloatInfix(x, m)
    IN IF n.ok THEN n ELSE GiveUp(m, n)

Do(what, x, m) ==
    IF m.err # <<>> THEN m
    ELSE CASE what = "eval"       -> evaluateExpression(x, m)
           [] what = "exec"       -> executeStatement(x, m)
           [] what = "block"      -> executeBlock(x, m)
           [] what \in {"int", "float", "intinfix", "floatinfix"} -> Tried(what, x, m)
           [] what = "all"        -> EvaluateAll(x, m)
           [] what = "arms"       -> MatchArms(x, m)
           [] what = "rounds"     -> Rounds(x, m)

\* A program is functions, one of them "main" without parameters.
Run(fns, fast) == callMethod(fns["main"], <<>>, Machine(fns, fast))
=============================================================================
