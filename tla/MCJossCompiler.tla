---- MODULE MCJossCompiler ----
\* Programs over two variables, for TLC: every pair of statements of a pool, by
\* itself and as the body of a loop, and the same around a few larger shapes.
EXTENDS JossCompiler

MCNames == {"a", "b", "i", "t", "n", "x"}

n == Var("n")
MCMethods == [
    twice |-> [par |-> "n", body |-> <<Return(Infix("add", n, n))>>],
    bump  |-> [par |-> "n", body |-> <<ExprStmt(Assign("n", Infix("add", n, Lit(1))))>>],
    risky |-> [par |-> "n", body |-> <<Guard(Infix("less", n, Lit(3)), <<Throw(Lit(9))>>), Return(n)>>],
    safe  |-> [par |-> "n", body |-> <<TryCatch(<<Echo(n), Return(Call("risky", n))>>, "x",
                                               <<Return(Ternary(Infix("less", n, Lit(4)), Lit(3), Lit(0)))>>)>>]]

a == Var("a")
b == Var("b")
less == Infix("less", a, b)
Set(x, r)  == ExprStmt(Assign(x, r))
If(c, l)   == ExprStmt(Ternary(c, BlockExpression(l), Nil))
IfElse(c, l, r) == ExprStmt(Ternary(c, BlockExpression(l), BlockExpression(r)))

Pool == {
    Set("a", b),
    Set("b", Infix("add", a, Lit(1))),
    ExprStmt(Postfix("a")),
    Echo(a),
    IfElse(less, <<Set("b", Lit(0))>>, <<Set("a", Lit(5))>>),
    If(Infix("and", less, Infix("less", b, Lit(3))), <<Echo(b)>>),
    Set("b", Call("twice", a)),
    ExprStmt(Call("bump", a)),
    Set("b", Ternary(a, Infix("add", Lit(2), Lit(3)), a)),
    TryCatch(<<Echo(Call("risky", b))>>, "x", <<Echo(Lit(8))>>),
    Set("b", Call("safe", b))}

\* Statements that only a loop may hold.
Exits == {
    Guard(Infix("less", a, Lit(3)), <<Break>>),
    If(less, <<Continue>>)}

Begin == <<Let("a", Lit(1)), Let("b", Lit(2)), Let("i", Lit(0))>>
End   == <<Echo(a), Echo(b)>>
i == Var("i")
Count == Set("i", Infix("add", i, Lit(1)))
Twice(body) == While(Infix("less", i, Lit(2)), <<Count>> \o body)
Once(body)  == DoWhile(<<Count>> \o body, Infix("less", i, Lit(2)))

\* A loop whose body exchanges two variables.
Swap == <<Let("t", a), Set("a", b), Set("b", Var("t"))>>

MCPrograms ==
    {Begin \o <<s, u>> \o End : s \in Pool, u \in Pool}
    \cup {Begin \o <<Twice(<<s, u>>)>> \o End : s \in Pool \cup Exits, u \in Pool}
    \cup {Begin \o <<Once(<<s>>), u>> \o End : s \in Pool \cup Exits, u \in Pool}
    \cup {Begin \o <<Twice(Swap \o <<s>>)>> \o End : s \in Pool}

MCSwap == {Begin \o <<Twice(Swap)>> \o End}
====
