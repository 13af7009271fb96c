----------------------------- MODULE JossValues -----------------------------
(***************************************************************************)
(* What the tree-walking evaluator computes with: trees, the slots a       *)
(* callable is planned to have (src/pkg/runtime/plan/callable.go), values  *)
(* and the operators on them (src/pkg/core/evaluator_*.go).                *)
(*                                                                         *)
(* A tree is a tuple that starts with its kind.  Expressions:              *)
(*   lit v, id x, assign x e, infix op e e, prefix op e, postfix op e,     *)
(*   ternary c t f, block ss, match e arms, is e T, array es, index e e,   *)
(*   call f es                                                             *)
(* Statements:                                                             *)
(*   let T x e const, lets T <<x, e>>s, destructure xs e, expr e,          *)
(*   echo id e, while c ss, dowhile ss c, foreach k x e ss, guard c ss,    *)
(*   try ss x ss, throw e, return e, break, continue, block ss             *)
(* An arm of a match is <<keys, e>>, the default has no keys.  An absent   *)
(* part is Nil.  var is the type Unknown.                                  *)
(***************************************************************************)
EXTENDS JossTypes, Functions, TLC

Nil == <<"nil">>

(***************************************************************************)
(* The plan of a callable (runtime/plan): one slot for each name, as its   *)
(* first mention in the order of collection makes it.                      *)
(***************************************************************************)
SlotOf(type, inferred, const) ==
    [value |-> Nil, type |-> type, typed |-> type.k # "unknown", inferred |-> inferred,
     init |-> FALSE, const |-> const]
Assigned == SlotOf(Unknown, TRUE, FALSE)

RECURSIVE Collect(_)
CollectAll(trees) == FlattenSeq([i \in DOMAIN trees |-> Collect(trees[i])])
Collect(x) ==
    CASE x[1] = "let" ->
             <<<<x[3], SlotOf(x[2], x[2] = Unknown, x[5])>>>> \o Collect(x[4])
      [] x[1] = "lets" ->
             FlattenSeq([i \in DOMAIN x[3] |->
                 <<<<x[3][i][1], SlotOf(x[2], x[2] = Unknown, FALSE)>>>> \o Collect(x[3][i][2])])
      [] x[1] = "destructure" ->
             [i \in DOMAIN x[2] |-> <<x[2][i], SlotOf(Mixed, TRUE, FALSE)>>] \o Collect(x[3])
      [] x[1] = "assign" -> <<<<x[2], Assigned>>>> \o Collect(x[3])
      [] x[1] = "foreach" ->
             Collect(x[4]) \o (IF x[2] = "" THEN <<>> ELSE <<<<x[2], Assigned>>>>)
                 \o <<<<x[3], Assigned>>>> \o CollectAll(x[5])
      [] x[1] = "try" ->
             CollectAll(x[2]) \o <<<<x[3], SlotOf(Object, FALSE, FALSE)>>>> \o CollectAll(x[4])
      [] x[1] \in {"while", "guard"} -> Collect(x[2]) \o CollectAll(x[3])
      [] x[1] = "dowhile" -> CollectAll(x[2]) \o Collect(x[3])
      [] x[1] \in {"infix", "index"} -> Collect(x[Len(x) - 1]) \o Collect(x[Len(x)])
      [] x[1] = "ternary" -> Collect(x[2]) \o Collect(x[3]) \o Collect(x[4])
      [] x[1] = "match" ->
             Collect(x[2]) \o FlattenSeq([i \in DOMAIN x[3] |->
                 CollectAll(x[3][i][1]) \o Collect(x[3][i][2])])
      [] x[1] \in {"block", "array"} -> CollectAll(x[2])
      [] x[1] = "call" -> CollectAll(x[3])
      [] x[1] \in {"prefix", "postfix", "echo"} -> Collect(x[3])
      [] x[1] \in {"is", "expr", "throw", "return"} -> Collect(x[2])
      [] OTHER -> <<>>

FirstOfEach(all) ==
    [x \in {all[i][1] : i \in DOMAIN all} |->
        all[CHOOSE i \in DOMAIN all : all[i][1] = x /\ \A j \in 1 .. i - 1 : all[j][1] # x][2]]
Plan(fun) ==
    FirstOfEach([i \in DOMAIN fun.params |-> <<fun.params[i][1], SlotOf(fun.params[i][2], FALSE, FALSE)>>]
                    \o CollectAll(fun.body))

(***************************************************************************)
(* Values: their run-time types, conversion, truth, text.                  *)
(***************************************************************************)
runtimeTypeOf(v) == IF v[1] = "null" THEN Null ELSE Of(v[1])

RECURSIVE checkParsedType(_, _)
checkParsedType(v, d) ==
    CASE d.k = "void" -> v = NullV
      [] d.k = "array" /\ d.of # <<>> ->
             v[1] = "array" /\ \A i \in DOMAIN v[2] : checkParsedType(v[2][i], d.of[1])
      [] OTHER -> Assignable(d, runtimeTypeOf(v))

coerceToParsedType(v, d) ==
    CASE d.k = "decimal" /\ v[1] = "int" -> <<"decimal", 4 * v[2]>>
      [] d.k = "decimal" /\ v[1] = "string" ->
             IF v[2] \in DOMAIN Numerals THEN <<"decimal", Numerals[v[2]]>> ELSE v
      [] d.k # "decimal" /\ v[1] = "string" ->
             LET c == CoerceString(d, v[2]) IN IF c = NoValue THEN v ELSE c
      [] OTHER -> v

getZeroValue(t) ==
    LET first == Members(t)[1] IN
    CASE t.k = "union" /\ Null \in ToSet(t.of) -> NullV
      [] first.k = "int" -> IntV(0)
      [] first.k \in {"float", "decimal"} -> <<first.k, 0>>
      [] first.k = "string" -> StrV("")
      [] first.k = "bool" -> BoolV(FALSE)
      [] first.k = "array" -> <<"array", <<>>>>
      [] OTHER -> NullV

isFalsy(v) ==
    \/ v = NullV
    \/ v[1] = "bool" /\ ~v[2]
    \/ v[1] = "string" /\ v[2] = ""
    \/ v[1] \in {"int", "float", "decimal"} /\ v[2] = 0
    \/ v[1] = "array" /\ v[2] = <<>>
isTruthy(v) == ~isFalsy(v)

\* What fmt prints: a number has the same text whatever its type.
RECURSIVE Text(_)
Text(v) ==
    CASE v[1] = "string" -> v[2]
      [] v[1] = "int" -> ToString(v[2])
      [] v[1] \in {"float", "decimal"} ->
             IF v[2] % 4 = 0 THEN ToString(v[2] \div 4) ELSE ToString(v[2]) \o "/4"
      [] v[1] = "bool" -> IF v[2] THEN "true" ELSE "false"
      [] v[1] = "array" ->
             "[" \o FoldLeft(LAMBDA s, w : s \o (IF w = NullV THEN "<nil>" ELSE Text(w)) \o " ", "", v[2]) \o "]"
      [] OTHER -> v[1]
TextOf(v) == IF v = NullV THEN "" ELSE Text(v)

(***************************************************************************)
(* Arithmetic on values.  A result is a value, a fault or Unhandled.       *)
(***************************************************************************)
Unhandled     == <<"unhandled">>
PrecisionLoss == <<"fault", "precision">>
Quarters(v)   == IF v[1] = "int" THEN 4 * v[2] ELSE v[2]
Inexact(v)    == v[1] = "int" /\ ~IntExactlyRepresentableAsFloat64(v[2])
Relations     == {"<", ">", "<=", ">=", "==", "!="}
Related(op, a, b) ==
    BoolV(CASE op = "<" -> a < b
            [] op = ">" -> a > b
            [] op = "<=" -> a <= b
            [] op = ">=" -> a >= b
            [] op \in {"==", "==="} -> a = b
            [] op \in {"!=", "!=="} -> a # b)
\* On numbers in quarters, as kind "float" or "decimal".
Arithmetic(kind, op, a, b) ==
    <<kind, CASE op = "+" -> a + b
              [] op = "-" -> a - b
              [] op = "*" -> (a * b) \div 4
              [] op = "/" -> Quo(4 * a, b)
              [] op = "%" -> a - b * Quo(a, b)>>

OnIntegers(op, a, b) ==       \* both integers
    CASE op \in {"+", "-", "*", "%"} -> CheckedIntBinary(op, a, b)
      [] op = "/" /\ b = 0 -> DivisionByZero
      [] op = "/" /\ b # 0 ->
             IF Inexact(IntV(a)) \/ Inexact(IntV(b)) THEN PrecisionLoss
             ELSE <<"float", Quo(4 * a, b)>>
      [] op \in Relations -> Related(op, a, b)
      [] OTHER -> Unhandled
OnDecimals(op, a, b) ==
    CASE op \in {"/", "%"} /\ b = 0 -> DivisionByZero
      [] op \in {"+", "-", "*"} \/ (op \in {"/", "%"} /\ b # 0) -> Arithmetic("decimal", op, a, b)
      [] op \in Relations -> Related(op, a, b)
      [] OTHER -> Unhandled
OnFloats(op, l, r) ==         \* at least one float
    LET a == Quarters(l) b == Quarters(r) IN
    CASE op = "/" -> IF b = 0 THEN DivisionByZero ELSE Arithmetic("float", op, a, b)
      [] op = "%" -> CheckedIntBinary("%", Quo(a, 4), Quo(b, 4))
      [] op \notin {"/", "%"} /\ (Inexact(l) \/ Inexact(r)) -> PrecisionLoss
      [] op \in {"+", "-", "*"} /\ ~Inexact(l) /\ ~Inexact(r) -> Arithmetic("float", op, a, b)
      [] op \in Relations /\ ~Inexact(l) /\ ~Inexact(r) -> Related(op, a, b)
      [] OTHER -> Unhandled
evaluateNumericInfix(op, l, r) ==
    LET kinds == {l[1], r[1]} IN
    CASE kinds = {"int"} -> OnIntegers(op, l[2], r[2])
      [] kinds = {"decimal", "float"} -> PrecisionLoss
      [] "decimal" \in kinds /\ kinds \subseteq {"decimal", "int"} ->
             OnDecimals(op, Quarters(l), Quarters(r))
      [] "float" \in kinds /\ kinds \subseteq {"float", "int"} -> OnFloats(op, l, r)
      [] OTHER -> Unhandled

toInt64Safe(v) ==
    CASE v[1] = "int" -> v
      [] v[1] = "float" -> IntV(Quo(v[2], 4))
      [] v[1] = "string" /\ v[2] \in DOMAIN Numerals -> IntV(Quo(Numerals[v[2]], 4))
      [] OTHER -> NoValue
\* A range that ends at the last integer wraps around and never ends.
evaluateRange(l, r) ==
    LET a == toInt64Safe(l) b == toInt64Safe(r) IN
    CASE a = NoValue \/ b = NoValue -> <<"array", <<>>>>
      [] a # NoValue /\ b # NoValue ->
           IF b[2] = IF a[2] <= b[2] THEN MaxInt ELSE MinInt THEN <<"fault", "endless">>
           ELSE <<"array", [i \in 1 .. Abs(b[2] - a[2]) + 1 |-> IntV(a[2] + Sign(b[2] - a[2]) * (i - 1))]>>
\* Of two different texts the first counts as the greater: their order is left out.
spaceshipCompare(l, r) ==
    LET numbers == {l[1], r[1]} \subseteq {"int", "float", "decimal"}
        d == IF numbers THEN Quarters(l) - Quarters(r) ELSE IF Text(l) = Text(r) THEN 0 ELSE 1
    IN CASE l = NullV \/ r = NullV -> IntV((IF r = NullV THEN 1 ELSE 0) - (IF l = NullV THEN 1 ELSE 0))
         [] OTHER -> IntV(IF d = 0 THEN 0 ELSE Sign(d))
strictCompare(l, r) == l = r

OnTexts(op, l, r) ==
    CASE op = "." -> StrV(TextOf(l) \o TextOf(r))
      [] op = "==" -> BoolV(TextOf(l) = TextOf(r))
      [] op = "!=" -> BoolV(TextOf(l) # TextOf(r))
      [] OTHER -> NullV                     \* `+' prints a message
IfHandled(r, otherwise) == IF r = Unhandled THEN otherwise ELSE r
General(op, l, r) ==
    CASE op = "===" -> BoolV(strictCompare(l, r))
      [] op = "!==" -> BoolV(~strictCompare(l, r))
      [] op = "<=>" -> spaceshipCompare(l, r)
      [] op = ".." -> evaluateRange(l, r)
      [] OTHER -> IfHandled(evaluateNumericInfix(op, l, r), OnTexts(op, l, r))
=============================================================================
