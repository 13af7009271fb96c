----------------------------- MODULE MCJossRuns -----------------------------
(***************************************************************************)
(* What runs: small programs that are analysed and run to their end, and   *)
(* two tasks under a root with a context.  What a root without a context   *)
(* does, a root whose context never ends does as well.  The two share      *)
(* nothing: a behaviour is one of the one or of the other.                 *)
(***************************************************************************)
EXTENDS JossTyping, JossFuture

(***************************************************************************)
(* Small programs, enumerated: declarations and expressions over them,     *)
(* statements, functions and their calls.                                  *)
(***************************************************************************)
Least == -8
TheNumerals == "2" :> 8 @@ "2.5" :> 10

I(n) == <<"lit", IntV(n)>>
F(q) == <<"lit", <<"float", q>>>>
S(s) == <<"lit", StrV(s)>>
B(b) == <<"lit", BoolV(b)>>
None == <<"lit", NullV>>
D(q) == <<"lit", <<"decimal", q>>>>
X(x) == <<"id", x>>
Op(op, l, r) == <<"infix", op, l, r>>
If(c, t, f)  == <<"ternary", c, t, f>>
Block(ss)    == <<"block", ss>>
To(x, e)     == <<"assign", x, e>>
Stmt(e)      == <<"expr", e>>
Set(x, e)    == Stmt(To(x, e))
Declare(T, x, e) == <<"let", T, x, e, FALSE>>
Show(id, e)  == <<"echo", id, e>>
Call(es)     == <<"call", "f", es>>
List(es)     == <<"array", es>>
IntOrNull    == Nullable(Integer)

Fun(params, ret, body) == [params |-> params, ret |-> ret, body |-> body]
Main(body) == Fun(<<>>, Unknown, body)
Twice == Fun(<<<<"p", Integer, Nil>>>>, Integer, <<<<"return", Op("*", X("p"), I(2))>>>>)
Alone(body) == [f \in {"main", "f"} |-> IF f = "main" THEN Main(body) ELSE Twice]

(***************************************************************************)
(* A declaration, and an expression over the variable.  Order is asked of  *)
(* numbers only, and no expression is an integer here and a float there:   *)
(* what the code does with those is told in the README.                    *)
(***************************************************************************)
Types  == {Unknown, Integer, Float, Decimal, String, Bool, Mixed, IntOrNull, ArrayOf(Integer), Array}
Numbers == {I(0), I(3), I(7), F(10), D(6)}
Others  == {S("2"), S("x"), B(TRUE), None, List(<<I(1), I(3)>>), List(<<I(1), S("x")>>), List(<<>>), Nil}
Ordered(a) ==
    {Op("<", a, I(1)), Op(">=", a, I(1)), Op("<", F(6), a), Op("<=", a, a)}
Over(a) ==
    {Op(op, a, I(1)) : op \in {"+", "-", "/", "%", "==", "!=", "===", "<=>", "."}}
    \cup {Op(op, a, F(6)) : op \in {"+", "*", "/"}}
    \cup {Op("*", a, a), Op("/", I(6), a), Op("??", a, I(3)), Op("+", D(4), a), Op("&&", a, B(TRUE)),
          Op("+", Op("*", a, I(2)), a), Op("..", a, I(2)),
          <<"prefix", "-", a>>, <<"prefix", "!", a>>, <<"postfix", "++", a>>,
          If(a, I(1), S("s")), If(a, Nil, I(2)), If(<<"is", a, Integer>>, a, I(0)),
          If(Op("!=", a, None), a, I(0)), If(Op("===", None, a), I(1), a),
          <<"match", a, <<<<<<I(3), I(0)>>, a>>, <<<<>>, S("s")>>>>>>,
          <<"index", a, I(0)>>, Call(<<a>>), List(<<a, I(1)>>), To("a", I(2)), To("a", S("2"))}
Results == {Unknown, Integer, Float}
Pairs(T, e, R, o) ==
    Alone(<<Declare(T, "a", e), Declare(R, "b", o), Show("a", X("a")), Show("b", X("b"))>>)
Expressions ==
    {Pairs(T, e, R, o) : T \in Types, e \in Numbers \cup Others, R \in Results, o \in Over(X("a"))}
Comparisons ==
    {Pairs(T, e, R, o) : T \in Types, e \in Numbers, R \in Results, o \in Ordered(X("a"))}

(***************************************************************************)
(* Statements after two declarations: branches, loops, narrowing, and      *)
(* variables that get a value on some paths.  k tells the echoes apart.     *)
(***************************************************************************)
Starts ==
    {<<Integer, I(1)>>, <<IntOrNull, None>>, <<IntOrNull, I(2)>>, <<Mixed, S("x")>>, <<Float, F(10)>>,
     <<ArrayOf(Integer), List(<<I(1), I(3)>>)>>, <<String, S("x")>>, <<Unknown, None>>, <<Integer, Nil>>}
Down == Set("n", Op("-", X("n"), I(1)))
Quits == Block(<<<<"return", I(9)>>>>)
Divides == <<"expr", Op("/", I(1), Op("-", X("n"), X("n")))>>
Bodies(k, a) ==
    {<<Set("a", e)>> : e \in {I(4), F(6), S("2"), S("x"), None, Op("+", a, I(1)), X("n")}}
    \cup {<<<<"while", Op(">", X("n"), I(0)), <<Down, s>>>>>> :
            s \in {Set("a", I(5)), Set("a", Op("+", a, X("n"))), Stmt(If(Op("==", X("n"), I(1)), Block(<<<<"break">>>>), Block(<<>>))),
                   <<"continue">>, Declare(Integer, "c", X("n")), Show(k \o "w", a)}}
    \cup {<<<<"dowhile", <<Down, Set("a", I(6))>>, Op(">", X("n"), I(1))>>>>}
    \cup {<<<<"foreach", i, "v", it, <<Show(k \o "v", X("v")), Set("n", I(0))>>>>>> :
            i \in {"", "k"}, it \in {a, List(<<I(1), I(2)>>), Op("..", I(1), I(3))}}
    \cup {<<Stmt(If(c, Block(<<Set("a", I(4)), Show(k \o "t", a)>>), Block(<<Show(k \o "f", a)>>)))>> :
            c \in {Op("!=", a, None), Op("===", a, None), <<"is", a, Integer>>, Op(">", X("n"), I(1))}}
    \cup {<<Stmt(If(Op("===", a, None), Quits, Block(<<>>))), Show(k \o "after", a), Set("a", I(7))>>}
    \cup {<<<<"guard", c, <<<<"return", I(0)>>>>>>, Show(k \o "g", a)>> :
            c \in {Op("!=", a, None), Op("!==", None, a), <<"is", a, Integer>>, Op(">", X("n"), I(5))}}
    \cup {<<<<"guard", Op(">", X("n"), I(5)), <<>>>>>>}
    \cup {<<<<"try", t, "e", c>>>> :
            t \in {<<Set("a", I(4))>>, <<Divides, Set("a", I(4))>>, <<<<"return", a>>>>},
            c \in {<<Set("a", I(5))>>, <<Show(k \o "c", a)>>, <<<<"throw", X("e")>>>>}}
    \cup {<<Declare(Integer, "u", Nil), Stmt(If(Op(">", X("n"), I(1)), Block(t), Block(f))), Show(k \o "u", X("u"))>> :
            t \in {<<>>, <<Set("u", I(1))>>, <<<<"return", Nil>>>>}, f \in {<<>>, <<Set("u", I(2))>>}}
    \cup {<<<<"destructure", <<"p", "q">>, it>>, Show(k \o "p", X("p")), Show(k \o "q", X("q"))>> :
            it \in {a, List(<<I(1), S("s")>>)}}
    \cup {<<<<"lets", Integer, <<<<"i", I(1)>>, <<"j", e>>>>>>, Show(k \o "j", X("j"))>> :
            e \in {a, Nil, Op("+", X("i"), I(1)), F(4), S("2")}}
    \cup {<<<<"let", T, "k", a, TRUE>>, Set("k", I(2))>> : T \in {Unknown, Integer}}
    \cup {<<Declare(Integer, "a", I(1))>>, <<Stmt(X("none"))>>, <<Set("none", I(1))>>,
          <<Stmt(<<"postfix", "--", a>>)>>, <<<<"throw", I(1)>>, Set("a", S("never"))>>,
          <<Stmt(Call(<<>>))>>, <<Stmt(Call(<<a, a>>))>>, <<Stmt(<<"call", "g", <<a>>>>)>>}

\* An effect in the base or in the index of an element: of an integer the fast
\* paths have it once; of a string, or where the integer is not wanted, twice.
Before == <<"postfix", "--", X("n")>>
Effects ==
    {<<"index", es, Before>> : es \in {List(<<I(0), I(1), I(2), I(3)>>), List(<<S("x"), S("y"), S("x"), S("2")>>)}}
    \cup {<<"index", List(<<To("n", Op("-", X("n"), I(1))), S("x")>>), I(i)>> : i \in {0, 1}}
Indexed(a) ==
    {<<Declare(T, "c", x), Show("c", X("c"))>> : T \in {Unknown, Integer, Float, String}, x \in Effects}
    \cup {<<Show("o", o)>> : o \in {Op(op, x, y) : op \in {"+", ".", "==", "&&"}, x \in Effects, y \in {I(1), F(6), S("x")} \cup Effects}}
    \cup {<<Set("a", x)>> : x \in Effects}
    \cup {<<Show("t", If(Op(">", x, I(2)), I(1), x))>> : x \in Effects}
    \cup {<<<<"while", Op(">", x, I(0)), <<Show("w", a)>>>>>> : x \in Effects}
    \cup {<<Show("f", Op("+", Call(<<x>>), x))>> : x \in Effects}
Statements ==
    {Alone(<<Declare(s[1], "a", s[2]), Declare(Integer, "n", I(3))>> \o b \o <<Show("a", X("a")), Show("n", X("n"))>>) :
        s \in Starts, b \in Bodies("", X("a")) \cup Indexed(X("a"))}

Sequences ==
    {Alone(<<Declare(s[1], "a", s[2]), Declare(Integer, "n", I(3))>> \o b \o c \o <<Show("a", X("a")), Show("n", X("n"))>>) :
        s \in {<<Integer, I(1)>>, <<IntOrNull, None>>, <<IntOrNull, I(2)>>, <<String, S("x")>>},
        b \in Bodies("", X("a")), c \in Bodies("_", X("a"))}

(***************************************************************************)
(* Functions: parameters, defaults, declared results.                      *)
(***************************************************************************)
Parameters ==
    {<<<<"p", T, Nil>>>> : T \in {Integer, IntOrNull, Decimal, Mixed, String, ArrayOf(Integer)}}
    \cup {<<<<"p", Integer, I(1)>>>>, <<<<"p", Float, F(4)>>>>, <<<<"p", Integer, S("x")>>>>}
FunctionBodies ==
    {<<<<"return", e>>>> : e \in {X("p"), I(1), None, Op("+", X("p"), I(1)), Nil, Op(".", X("p"), S("x"))}}
    \cup {<<>>, <<Stmt(If(Op("===", X("p"), None), Quits, Block(<<>>))), <<"return", X("p")>>>>,
          <<Stmt(If(Op("===", X("p"), None), Quits, Quits))>>, <<<<"while", B(FALSE), <<<<"return", I(1)>>>>>>>>}
Calls == {<<>>} \cup {<<e>> : e \in {I(2), S("2"), S("x"), None, F(6), D(4), List(<<I(1)>>), List(<<None>>)}}
Functions_ ==
    {[f \in {"main", "f"} |-> IF f = "f" THEN Fun(p, r, b)
                              ELSE Main(<<Declare(Unknown, "b", Call(es)), Show("b", X("b"))>>)] :
        p \in Parameters, r \in {Unknown, Void, Integer, IntOrNull, String, Mixed}, b \in FunctionBodies, es \in Calls}
AllPrograms == {Expressions, Comparisons, Statements, Functions_, Sequences}

(***************************************************************************)
(* The two sides.                                                          *)
(***************************************************************************)
CONSTANTS t1, t2, mobile

VARIABLE side

Shortest == Pairs(Integer, I(0), Integer, Op("<", X("a"), I(1)))
RunsInit ==
    /\ Init /\ TypingInit
    \* programs stay as they are while tasks run: one of them is enough
    /\ side \in {"program"} \cup (IF program = Shortest THEN {"tasks"} ELSE {})
RunsNext ==
    \/ side = "program" /\ TypingNext /\ UNCHANGED <<side, vars>>
    \/ side = "tasks" /\ Next /\ UNCHANGED <<side, typingVars>>

\* The fairness is that of tasks.
RunsSpec == RunsInit /\ [][RunsNext]_<<side, vars, typingVars>> /\ Fairness
=============================================================================
