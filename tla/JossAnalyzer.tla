----------------------------- MODULE JossAnalyzer -----------------------------
(***************************************************************************)
(* The analyzer of types (src/pkg/analyzer), which decides which programs  *)
(* may run: scopes and symbols, inference, narrowing by a condition,       *)
(* definite assignment and calls of functions.  Classes, closures, maps    *)
(* and references are left out, and so is every warning.                   *)
(*                                                                         *)
(* An analysis holds its symbols and scopes (both named by their place),   *)
(* the declared result of the function, whether an error was reported, the *)
(* type of the last expression, whether the last statement ends its block, *)
(* and two things the code does not keep: the type inferred for each echo, *)
(* and whether a judgement was `guessed': made over a type that was not    *)
(* known, as the code does on purpose ("unknown is non-accusatory").       *)
(***************************************************************************)
EXTENDS JossValues

Analysis(fns) ==
    [fns |-> fns, syms |-> <<>>, scopes |-> <<>>, result |-> Unknown, failed |-> FALSE,
     guessed |-> FALSE, log |-> <<>>, v |-> Unknown, ends |-> FALSE]

Typed(a, t)   == [a EXCEPT !.v = t]
Fail(a, bad)  == [a EXCEPT !.failed = @ \/ bad]
Guess(a, say) == [a EXCEPT !.guessed = @ \/ say]
Goes(a)       == [a EXCEPT !.ends = FALSE]
Ends(a, b)    == [a EXCEPT !.ends = b]

(***************************************************************************)
(* Symbols and scopes (scope.go).                                          *)
(***************************************************************************)
Symbol(type, kind, init) ==
    [type |-> type, kind |-> kind, dynamic |-> type.k = "mixed", inferred |-> FALSE,
     const |-> FALSE, synthetic |-> FALSE, init |-> init, origin |-> 0]
InferredSymbol(type, kind, init) == [Symbol(type, kind, init) EXCEPT !.inferred = TRUE]

newScope(a, parent) ==
    [a EXCEPT !.scopes = Append(@, [parent |-> parent, names |-> <<>>, init |-> {}])]
Newest(a)      == Len(a.scopes)
local(a, s, x) == x \in DOMAIN a.scopes[s].names
RECURSIVE resolve(_, _, _)
resolve(a, s, x) ==
    CASE s = 0 -> 0
      [] s # 0 /\ local(a, s, x) -> a.scopes[s].names[x]
      [] OTHER -> resolve(a, a.scopes[s].parent, x)
RECURSIVE isInitialized(_, _, _)
isInitialized(a, s, x) ==
    s # 0 /\ (x \in a.scopes[s].init \/ isInitialized(a, a.scopes[s].parent, x))
markInitialized(a, s, x) == [a EXCEPT !.scopes[s].init = @ \cup {x}]
put(a, s, x, symbol) ==
    LET n == [a EXCEPT !.syms = Append(@, symbol),
                       !.scopes[s].names = (x :> Len(a.syms) + 1) @@ @]
    IN IF symbol.init THEN markInitialized(n, s, x) ELSE n

\* The variables of s that both branches give a value to have one after them.
InitializedByBoth(a, s, one, oneEnds, other, otherEnds) ==
    LET now == {x \in DOMAIN a.scopes[s].names :
                  /\ ~isInitialized(a, s, x) /\ a.syms[a.scopes[s].names[x]].kind = "variable"
                  /\ oneEnds \/ isInitialized(a, one, x)
                  /\ otherEnds \/ isInitialized(a, other, x)}
        fresh == {a.scopes[s].names[x] : x \in now}
    IN [a EXCEPT !.scopes[s].init = @ \cup now,
                 !.syms = [i \in DOMAIN @ |-> IF i \in fresh THEN [@[i] EXCEPT !.init = TRUE] ELSE @[i]]]

(***************************************************************************)
(* What ends a callable (flow.go).                                         *)
(***************************************************************************)
RECURSIVE Terminates(_)
blockTerminatesCallable(ss) == \E i \in DOMAIN ss : Terminates(ss[i])
Terminates(x) ==
    CASE x[1] \in {"return", "throw"} -> TRUE
      [] x[1] = "expr" -> Terminates(x[2])
      [] x[1] = "try" -> blockTerminatesCallable(x[2]) /\ blockTerminatesCallable(x[4])
      [] x[1] = "block" -> blockTerminatesCallable(x[2])
      [] x[1] = "ternary" -> Terminates(x[3]) /\ Terminates(x[4])
      [] x[1] = "match" -> /\ \A i \in DOMAIN x[3] : Terminates(x[3][i][2])
                           /\ \E i \in DOMAIN x[3] : x[3][i][1] = <<>>
      [] OTHER -> FALSE

(***************************************************************************)
(* Narrowing (infer_narrowing.go): a scope for each outcome.               *)
(***************************************************************************)
narrowedSymbol(a, i, type) ==
    [a.syms[i] EXCEPT !.type = type, !.synthetic = TRUE, !.origin = IF @ = 0 THEN i ELSE @]
isNullLiteral(x) == x = <<"lit", NullV>>
nullComparedIdentifier(c) ==
    CASE c[1] = "infix" /\ c[3][1] = "id" /\ isNullLiteral(c[4]) -> c[3][2]
      [] c[1] = "infix" /\ c[4][1] = "id" /\ isNullLiteral(c[3]) -> c[4][2]
      [] OTHER -> ""

\* The scope for true is the last but one, the scope for false the last.
NarrowOne(a, x, i, type) ==
    put(a, Newest(a) - 1, x, narrowedSymbol(a, i, type))
\* MUTANT: each branch gets the type of the other.
NarrowSwapped(a, x, i, yes, no) ==
    put(NarrowOne(a, x, i, no), Newest(a), x, narrowedSymbol(a, i, yes))
NarrowBoth(a, x, i, yes, no) ==
    put(NarrowOne(a, x, i, yes), Newest(a), x, narrowedSymbol(a, i, no))
NarrowName(a, c, x, i) ==
    CASE i = 0 -> a
      [] i # 0 /\ c[1] = "is" -> NarrowOne(a, x, i, c[3])
      [] i # 0 /\ c[1] = "infix" /\ a.syms[i].type.k = "union" /\ c[2] \in {"!=", "!==", "==", "==="} ->
             LET nonNull == Without(a.syms[i].type, "null")
                 other   == c[2] \in {"!=", "!=="}
             IN NarrowBoth(a, x, i, IF other THEN nonNull ELSE Null, IF other THEN Null ELSE nonNull)
      [] OTHER -> a
NarrowNamed(a, c, s, x) == NarrowName(newScope(newScope(a, s), s), c, x, IF x = "" THEN 0 ELSE resolve(a, s, x))
narrowScopeFromCondition(c, s, a) ==
    NarrowNamed(a, c, s, IF c[1] = "is" /\ c[2][1] = "id" THEN c[2][2] ELSE nullComparedIdentifier(c))

\* The types of the names of a narrowed scope become those of the symbols.
applyNarrowedScope(a, s, narrowed) ==
    FoldSet(LAMBDA x, b : IF b.syms[b.scopes[narrowed].names[x]].synthetic /\ resolve(b, s, x) # 0
                          THEN [b EXCEPT !.syms[resolve(b, s, x)].type = b.syms[b.scopes[narrowed].names[x]].type]
                          ELSE b,
            a, DOMAIN a.scopes[narrowed].names)

(***************************************************************************)
(* Judgements.  Sure is the part of Assignable that needs no benefit of    *)
(* the doubt.                                                              *)
(***************************************************************************)
Literal(e, kind) == e[1] = "lit" /\ e[2][1] = kind
assignableExpression(d, s, e) ==
    Assignable(d, s) \/ (Literal(e, "string") /\ CoerceString(d, e[2][2]) # NoValue)
RECURSIVE Sure(_, _)
Sure(d, s) ==
    \/ d.k = "mixed"
    \/ s.k = "union" /\ \A m \in ToSet(s.of) : Sure(d, m)
    \/ d.k = "union" /\ s.k # "union" /\ \E m \in ToSet(d.of) : Sure(m, s)
    \/ d.k = s.k /\ d.k \notin {"union", "unknown"} /\ (d.of # <<>> => s.of = d.of)
    \/ d.k = "decimal" /\ s.k = "int"
Judge(a, d, s, e) ==
    Guess(Fail(a, ~assignableExpression(d, s, e)),
          ~Sure(d, s) /\ ~(Literal(e, "string") /\ ~Assignable(d, s)))

unsafeImplicitNumericMix(l, r) ==
    /\ IsKnown(l) /\ IsKnown(r) /\ IsNumeric(l) /\ IsNumeric(r)
    /\ l.k # r.k /\ "float" \in {l.k, r.k}

\* What the two sides of ?: and ?? have in common.
commonType(l, r) ==
    CASE l = r -> l
      [] l # r /\ Mixed \in {l, r} -> Mixed
      [] l # r /\ l = Unknown /\ r # Mixed -> r
      [] l # r /\ r = Unknown /\ l # Mixed -> l
      [] OTHER ->
           IF Null \notin {l, r} /\ IsNumeric(l) /\ IsNumeric(r)
           THEN (IF "decimal" \in {l.k, r.k} THEN Decimal ELSE Float)
           ELSE UnionOf(<<l, r>>)
Common(a, l, r) == Guess(Typed(a, commonType(l, r)), Unknown \in {l, r} /\ l # r)

RECURSIVE constantInteger(_)
constantInteger(e) ==
    CASE Literal(e, "int") -> e[2]
      [] e[1] = "prefix" /\ e[2] = "-" ->
             LET n == constantInteger(e[3]) IN
             IF n = NoValue \/ CheckedIntNegate(n[2])[1] = "fault" THEN NoValue ELSE CheckedIntNegate(n[2])
      [] OTHER -> NoValue
\* Whether an operation on two literals is refused.
checkConstantIntegerOperation(op, l, r) ==
    /\ l # NoValue /\ r # NoValue
    /\ IF op = "/" THEN OnIntegers("/", l[2], r[2])[1] = "fault"
       ELSE CheckedIntBinary(op, l[2], r[2])[1] = "fault"

\* One step for every kind of tree, so that every recursion comes back here.
RECURSIVE Look(_, _, _, _)
Infer(e, s, a) == Look("infer", e, s, a)

(***************************************************************************)
(* Expressions (infer.go).                                                 *)
(***************************************************************************)
\* Several expressions: the analysis after them, and their types.
InferAll(es, s, a) ==
    FoldLeft(LAMBDA r, e : LET n == Infer(e, s, r[1]) IN <<n, Append(r[2], n.v)>>, <<a, <<>>>>, es)

inferIdentifier(x, s, a) ==
    LET i == resolve(a, s, x) IN
    IF i = 0 THEN Fail(Typed(a, Unknown), TRUE)
    ELSE Fail(Typed(a, a.syms[i].type),
              ~isInitialized(a, s, x) /\ ~a.syms[i].synthetic /\ a.syms[i].kind = "variable")

\* Arrays of typed arrays are left out: the code compares their pointers.
inferArray(es, s, a) ==
    LET r == InferAll(es, s, a)
        known == SelectSeq(r[2], IsKnown)
    IN IF known = <<>> \/ \E i \in DOMAIN known : known[i] # known[1] THEN Typed(r[1], Array)
       ELSE Guess(Typed(r[1], ArrayOf(known[1])), Len(known) < Len(es))

\* An assignment to the symbol i: its own type, or the one it was narrowed from.
Origin(a, i) == IF a.syms[i].origin = 0 THEN i ELSE a.syms[i].origin
Target(a, i) == IF a.syms[i].synthetic THEN a.syms[Origin(a, i)].type ELSE a.syms[i].type
MergeTarget(a, i) ==
    IF ~a.syms[i].inferred \/ IsKnown(Target(a, i)) THEN Typed(a, Target(a, i))
    ELSE LET t == MergeInference(Target(a, i), a.v)
         IN Guess(Typed([a EXCEPT !.syms[Origin(a, i)].type = t, !.syms[i].type = t], t), TRUE)
JudgeAssignment(a, i, t, e) == IF a.syms[i].dynamic THEN a ELSE Judge(a, a.v, t, e)
MarkAssigned(a, s, x, i, t) ==
    [a EXCEPT !.scopes[s].init = @ \cup {x},
              !.syms = [j \in DOMAIN @ |->
                  [@[j] EXCEPT !.type = IF j = i /\ a.syms[i].synthetic THEN t ELSE @,
                               !.init = @ \/ (local(a, s, x) /\ j \in {i, Origin(a, i)})]]]
OfSymbol(a, i) == Typed(a, a.syms[i].type)
AssignTo(a, s, x, i, e) ==
    CASE i = 0 -> Fail(put(a, s, x, InferredSymbol(a.v, "variable", TRUE)), TRUE)
      [] i # 0 /\ a.syms[i].const -> Fail(OfSymbol(a, i), TRUE)
      [] OTHER -> OfSymbol(MarkAssigned(JudgeAssignment(MergeTarget(a, i), i, a.v, e), s, x, i, a.v), i)
inferAssignment(x, e, s, a) ==
    LET n == Infer(e, s, a) IN AssignTo(n, s, x, resolve(n, s, x), e)

OfInfix(op, l, r, c) ==
    CASE op = "." -> Typed(c, String)
      [] op \in Relations ->
           Guess(Fail(Typed(c, Bool), unsafeImplicitNumericMix(l, r)), ~IsKnown(l) \/ ~IsKnown(r))
      [] op \in {"===", "!==", "&&", "||"} -> Typed(c, Bool)
      [] op = "<=>" -> Typed(c, Integer)
      [] op = "??" -> Common(c, l, r)
      [] op \in {"+", "-", "*", "/", "%"} ->
           IF unsafeImplicitNumericMix(l, r) \/ \E t \in {l, r} : IsKnown(t) /\ ~IsNumeric(t)
           THEN Fail(Typed(c, Unknown), TRUE)
           ELSE Guess(Typed(c, IF Decimal \in {l, r} THEN Decimal
                               ELSE IF op = "/" \/ Float \in {l, r} THEN Float
                               ELSE IF {l, r} = {Integer} THEN Integer ELSE Unknown),
                      ~IsKnown(l) \/ ~IsKnown(r))
      [] OTHER -> Typed(c, Unknown)
RightOf(x, s, n) ==
    LET m == Infer(x[4], s, n) IN
    OfInfix(x[2], n.v, m.v,
            Fail(m, checkConstantIntegerOperation(x[2], constantInteger(x[3]), constantInteger(x[4]))))
inferInfix(x, s, a) == RightOf(x, s, Infer(x[3], s, a))

\* c has the scopes of the two branches.
Branches(x, s, c, yes, no) ==
    LET n == Infer(IF x[3] = Nil THEN x[2] ELSE x[3], yes, c)
        m == Infer(x[4], no, n)
    IN Common(InitializedByBoth(m, s, yes, x[3] # Nil /\ Terminates(x[3]), no, Terminates(x[4])), n.v, m.v)
InBranches(x, s, c) == Branches(x, s, c, Newest(c) - 1, Newest(c))
inferTernary(x, s, a) == InBranches(x, s, narrowScopeFromCondition(x[2], s, Infer(x[2], s, a)))

\* The arms are analysed in the scope of the match.
inferMatch(x, s, a) ==
    FoldLeft(LAMBDA n, arm :
                 LET m == Infer(arm[2], s, InferAll(arm[1], s, n)[1])
                 IN Guess(Typed(m, commonType(n.v, m.v)), m.v = Unknown),
             Typed(Infer(x[2], s, a), Unknown), x[3])

inferIndex(x, s, a) ==
    LET n == Infer(x[2], s, a)
        m == Infer(x[3], s, n)
        fits == IsKnown(m.v) => m.v = Integer
    IN CASE n.v.k = "array" -> Fail(Typed(m, IF n.v.of = <<>> THEN Unknown ELSE n.v.of[1]), ~fits)
         [] n.v.k = "string" -> Fail(Typed(m, String), ~fits)
         [] OTHER -> Fail(Typed(m, Unknown), IsKnown(n.v))

(***************************************************************************)
(* Calls of functions (call_resolution.go).                                *)
(***************************************************************************)
validateCallArgument(p, e, s, a) ==
    LET n == Infer(e, s, a) IN Judge(n, p[2], n.v, e)
checkCall(fun, args, s, a) ==
    LET extra == InferAll(SubSeq(args, Len(fun.params) + 1, Len(args)), s, a)[1]
        missing == {i \in DOMAIN fun.params : i > Len(args) /\ fun.params[i][3] = Nil}
    IN FoldLeftDomain(LAMBDA n, i : IF i > Len(args) THEN n
                                    ELSE validateCallArgument(fun.params[i], args[i], s, n),
                      Fail(extra, Len(args) > Len(fun.params) \/ missing # {}), fun.params)
inferCall(x, s, a) ==
    IF x[2] \in DOMAIN a.fns
    THEN Typed(checkCall(a.fns[x[2]], x[3], s, a), a.fns[x[2]].ret)
    ELSE Fail(Typed(InferAll(x[3], s, a)[1], Unknown), TRUE)

inferExpression(x, s, a) ==
    CASE x[1] = "lit" -> Typed(a, runtimeTypeOf(x[2]))
      [] x[1] = "id" -> inferIdentifier(x[2], s, a)
      [] x[1] = "assign" -> inferAssignment(x[2], x[3], s, a)
      [] x[1] = "infix" -> inferInfix(x, s, a)
      [] x[1] = "prefix" /\ x[2] = "!" -> Typed(Infer(x[3], s, a), Bool)
      [] x[1] = "postfix" \/ (x[1] = "prefix" /\ x[2] = "-") ->
             LET n == Infer(x[3], s, a) IN Fail(n, IsKnown(n.v) /\ ~IsNumeric(n.v))
      [] x[1] = "ternary" -> inferTernary(x, s, a)
      [] x[1] = "match" -> inferMatch(x, s, a)
      [] x[1] = "is" -> Typed(Infer(x[2], s, a), Bool)
      [] x[1] = "array" -> inferArray(x[2], s, a)
      [] x[1] = "index" -> inferIndex(x, s, a)
      [] x[1] = "call" -> inferCall(x, s, a)
      [] x[1] = "block" -> Typed(Look("block", x[2], s, a), Unknown)

(***************************************************************************)
(* Statements (body_analysis.go).                                          *)
(***************************************************************************)
analyzeDeclaration(type, x, e, const, s, a) ==
    LET n == IF e = Nil THEN Typed(a, Unknown) ELSE Infer(e, s, a)
        inferred == type = Unknown
        judged == IF inferred THEN Guess(n, e # Nil /\ n.v.k \in {"unknown", "mixed"})
                  ELSE IF e = Nil THEN n ELSE Judge(n, type, n.v, e)
    IN IF local(a, s, x) THEN Fail(a, TRUE)
       ELSE put(judged, s, x, [Symbol(IF inferred THEN MergeInference(type, n.v) ELSE type, "variable", e # Nil)
                                 EXCEPT !.inferred = inferred, !.const = const])
analyzeMultiDeclaration(x, s, a) ==
    FoldLeft(LAMBDA n, d : analyzeDeclaration(x[2], d[1], d[2], FALSE, s, n), a, x[3])
analyzeDestructure(x, s, a) ==
    FoldLeft(LAMBDA n, name : IF local(n, s, name) THEN Fail(n, TRUE)
                              ELSE put(n, s, name, Symbol(Mixed, "variable", TRUE)),
             Infer(x[3], s, a), x[2])

\* A ternary that leaves on one side: the rest is on the other.
ApplyOutcome(outcome, s, c) == applyNarrowedScope(c, s, IF outcome THEN Newest(c) - 1 ELSE Newest(c))
ExpressionStatementType(x, s, n) ==
    IF x[1] = "ternary" /\ ((x[3] # Nil /\ Terminates(x[3])) \/ Terminates(x[4]))
    THEN ApplyOutcome(~(x[3] # Nil /\ Terminates(x[3])), s, narrowScopeFromCondition(x[2], s, n))
    ELSE n

analyzeReturn(e, s, a) ==
    LET n == IF e = Nil THEN Typed(a, Void) ELSE Infer(e, s, a)
    IN IF a.result = Unknown THEN n ELSE Judge(n, a.result, n.v, e)

GuardBody(ss, c) == Fail(Look("block", ss, Newest(c), c), ~blockTerminatesCallable(ss))
analyzeGuard(x, s, a) ==
    ApplyOutcome(TRUE, s, narrowScopeFromCondition(x[2], s,
        GuardBody(x[3], narrowScopeFromCondition(x[2], s, Infer(x[2], s, a)))))

\* A body in a scope of its own, with the symbols it starts with.
Body(ss, s, bound, a) ==
    LET n == newScope(a, s)
    IN Look("block", ss, Newest(n), FoldLeft(LAMBDA m, b : put(m, Newest(n), b[1], b[2]), n, bound))
Iteration(x) == IF x = "" THEN <<>> ELSE <<<<x, InferredSymbol(Unknown, "iteration", TRUE)>>>>

analyzeTry(x, s, a) ==
    LET t == Body(x[2], s, <<>>, a)
        c == Body(x[4], s, <<<<x[3], Symbol(Object, "catch", TRUE)>>>>, t)
    IN Ends(InitializedByBoth(c, s, Newest(a) + 1, t.ends, Newest(t) + 1, c.ends), t.ends /\ c.ends)

analyzeStatement(x, s, a) ==
    CASE x[1] = "let" -> Goes(analyzeDeclaration(x[2], x[3], x[4], x[5], s, a))
      [] x[1] = "lets" -> Goes(analyzeMultiDeclaration(x, s, a))
      [] x[1] = "destructure" -> Goes(analyzeDestructure(x, s, a))
      [] x[1] = "expr" -> Ends(ExpressionStatementType(x[2], s, Infer(x[2], s, a)), Terminates(x[2]))
      [] x[1] = "echo" -> LET n == Infer(x[3], s, a) IN Goes([n EXCEPT !.log = Append(@, <<x[2], n.v>>)])
      [] x[1] = "return" -> Ends(analyzeReturn(x[2], s, a), TRUE)
      [] x[1] = "throw" -> Ends(Infer(x[2], s, a), TRUE)
      [] x[1] = "guard" -> Goes(analyzeGuard(x, s, a))
      [] x[1] = "while" -> Goes(Body(x[3], s, <<>>, Infer(x[2], s, a)))
      [] x[1] = "dowhile" -> Goes(Infer(x[3], s, Look("block", x[2], s, a)))
      [] x[1] = "foreach" ->
             Goes(Body(x[5], s, Iteration(x[2]) \o Iteration(x[3]), Infer(x[4], s, a)))
      [] x[1] = "try" -> analyzeTry(x, s, a)
      [] x[1] \in {"break", "continue"} -> Ends(a, TRUE)

\* What follows a statement that ends its block is not looked at.
analyzeBlock(ss, s, a) ==
    FoldLeft(LAMBDA n, x : IF n.ends THEN n ELSE Look("statement", x, s, n), Goes(a), ss)

WithParameters(fun, s, a) ==
    FoldLeft(LAMBDA o, p :
                 LET q == put(o, s, p[1], Symbol(p[2], "parameter", TRUE))
                 IN IF p[3] = Nil THEN q ELSE LET d == Infer(p[3], s, q) IN Judge(d, p[2], d.v, p[3]),
             a, fun.params)
InScope(fun, n) == analyzeBlock(fun.body, Newest(n), WithParameters(fun, Newest(n), n))
analyzeCallable(fun, a) ==
    Fail(InScope(fun, newScope([a EXCEPT !.result = fun.ret], 0)),
         fun.ret \notin {Unknown, Void} /\ ~blockTerminatesCallable(fun.body))

Look(what, x, s, a) ==
    CASE what = "infer"     -> inferExpression(x, s, a)
      [] what = "statement" -> analyzeStatement(x, s, a)
      [] what = "block"     -> analyzeBlock(x, s, a)
      [] what = "callable"  -> analyzeCallable(x, a)
AnalyzeProject(fns) ==
    FoldSet(LAMBDA f, a : Look("callable", fns[f], 0, a), Analysis(fns), DOMAIN fns)
=============================================================================
