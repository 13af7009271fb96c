--------------------------- MODULE MCJossLanguage ---------------------------
(***************************************************************************)
(* Texts for the parser and consumers for a generator, for TLC.  The texts   *)
(* are every form of the language with every form in every place of it,    *)
(* every grouping of three operators, and the declarations.                *)
(***************************************************************************)
EXTENDS JossLanguage, JossGenerator

CONSTANTS c1, c2, c3

MCIdents  == {"a", "b", "T", "f", "mixed"}
MCInts    == {"1"}
MCStrings == {"text"}

a == <<"id", "a">>
b == <<"id", "b">>
one == <<"literal", "1">>
int == <<<<"T", None>>>>
Infix(o, l, r) == <<"infix", o, l, r>>
CallOf(f, args) == <<"call", f, args>>
Let(e) == <<<<"let", mixed, "a", e, {}>>>>

\* Every form with one expression in each of its places, and a in the others.
Around(e) ==
    {Infix(o, e, a) : o \in Infixes} \cup {Infix(o, a, e) : o \in Infixes}
    \cup {<<"assign", a, e>>, <<"assign", e, a>>,
          <<"ternary", e, a, b>>, <<"ternary", a, e, b>>, <<"ternary", a, b, e>>,
          <<"ternary", a, Nil, e>>, <<"ternary", a, e, Nil>>,
          <<"is", e, int>>, <<"prefix", "!", e>>, <<"prefix", "-", e>>, <<"ref", e>>, <<"spread", e>>,
          CallOf(<<"id", "await">>, <<e>>), CallOf(<<"id", "async">>, <<e>>),
          CallOf(a, <<e>>), CallOf(a, <<e, b>>), CallOf(a, <<b, e>>), CallOf(a, <<<<"named", "b", e>>>>),
          CallOf(e, None), CallOf(e, <<a>>),
          <<"index", e, a>>, <<"index", a, e>>, <<"index", e, Nil>>, <<"member", e, "f">>, <<"postfix", e>>,
          <<"array", <<e>>>>, <<"array", <<a, e>>>>, <<"array", <<e, a>>>>,
          <<"map", {<<a, e>>}>>, <<"map", {<<e, a>>, <<b, one>>}>>, <<"new", "T", None, <<e>>>>,
          <<"match", e, <<<<"arm", <<a, b>>, one>>>>>>, <<"match", a, <<<<"arm", <<e>>, a>>, <<"arm", <<<<"default">>>>, b>>>>>>,
          <<"match", a, <<<<"arm", <<a>>, e>>, <<"arm", <<b>>, a>>>>>>,
          <<"func", <<<<"param", {}, None, "a", e>>>>, int, <<<<"return", e>>>>>>,
          <<"yield", Nil, e>>, <<"yield", e, a>>, <<"yield", a, e>>,
          <<"isset", <<e>>>>, <<"empty", e>>}

\* What the documents and the parser disagree on: what a spread binds to, and
\* the type after `is' before `<' and `?'.
isCall(e)   == e[1] = "call" /\ ~isCallOf(e, "await") /\ ~isCallOf(e, "async")
Disputed(e) == \/ e[1] = "spread" /\ isCall(e[2])
               \/ e[1] = "infix" /\ e[2] = "<" /\ e[3][1] = "is"
               \/ e[1] = "ternary" /\ e[2][1] = "is"

Once    == Around(b)
Nested  == UNION {Around(e) : e \in Once}

\* One operator of every row, and two of the rows of the arithmetic.
Rows == {"??", "|>", "||", "&&", "==", "<", ">>", "..", "+", "-", "*", "%"}
Chains == UNION {{Infix(o, Infix(n, Infix(m, a, b), one), a), Infix(o, Infix(n, a, Infix(m, b, one)), a),
                  Infix(o, Infix(n, a, b), Infix(m, one, a)),
                  Infix(o, a, Infix(n, Infix(m, b, one), a)), Infix(o, a, Infix(n, b, Infix(m, one, a)))} :
                 o \in Rows, n \in Rows, m \in Rows}

Spread  == <<"map", {<<<<"spread", a>>, Nil>>, <<b, one>>}>>
SpreadKey(e) == e[1] = "map" /\ \E kv \in e[2] : kv[1][1] = "spread" /\ kv[2] # Nil
MCPrograms == {Let(e) : e \in {Spread} \cup {x \in Nested \cup Chains : ~Disputed(x) /\ ~SpreadKey(x)}}

-----------------------------------------------------------------------------
Expr(e) == <<"expr", e>>
set     == Expr(<<"assign", a, one>>)
sum     == Infix("+", a, b)
generic == <<<<"T", <<<<<<"T", <<int>>>>>>, <<<<"f", None>>, <<"null", None>>>>>>>>>>
Param(type, name, value) == <<"param", {}, type, name, value>>
Method(name, params, code, mods) == <<"method", name, None, params, int, code, mods>>

Bodies == {None, <<set>>, <<set, <<"echo", b>>>>}
Simple == {
    set, Expr(CallOf(<<"member", a, "f">>, <<b>>)), Expr(<<"postfix", a>>), Expr(CallOf(<<"id", "async">>, <<<<"func", None, None, <<set>>>>>>)),
    <<"let", generic, "b", sum, {}>>, <<"let", int, "b", Nil, {}>>, <<"let", int, "b", one, {"const"}>>,
    <<"lets", int, <<<<"a", one>>, <<"b", Nil>>>>, {}>>, <<"destructure", <<"a", "b">>, <<"array", <<one, a>>>>>>,
    <<"return", sum>>, <<"return", Nil>>, <<"throw", a>>, <<"echo", sum>>, <<"break">>, <<"continue">>}
Compound == UNION {{
    <<"while", sum, l>>, <<"dowhile", l, sum>>, <<"guard", sum, l>>, <<"foreach", a, "", "b", l>>, <<"foreach", a, "f", "b", l>>,
    <<"try", l, "a", l>>, <<"defer", l>>, <<"select", <<<<"case", set, l>>, <<"default", Nil, l>>>>>>,
    Method("f", <<Param(int, "a", Nil), <<"param", {"ref"}, None, "b", Nil>>>>, l, {"public"})} : l \in Bodies}
Members1 == <<
    <<"let", int, "a", one, {"private", "static"}>>, <<"let", generic, "b", Nil, {"protected"}>>, <<"let", int, "f", one, {"public", "const"}>>,
    <<"init", "Init", <<<<"param", {"public", "const"}, int, "a", one>>>>, <<set>>>>, Method("f", None, <<set>>, {"public"}),
    Method("b", None, Nil, {"protected", "abstract"})>>
Fields1 == <<Param(int, "a", Nil), Param(generic, "b", one)>>
Declared == {
    <<"class", "T", <<"a", "b">>, "f", <<"a", "b">>, Members1, {"public", "abstract"}>>,
    <<"class", "T", None, "", None, None, {"private"}>>,
    <<"record", "T", None, "", None, Fields(Fields1) \o <<Method("f", None, <<set>>, {"public"}), InitOf(Fields1)>>, {"public"}>>,
    <<"interface", "T", <<"a", "b">>, <<Method("a", None, Nil, {"public"}), Method("b", Fields1, Nil, {"public"})>>, {"public"}>>,
    <<"enum", "T", "f", <<<<"a", one>>, <<"b", Nil>>>>, {"private"}>>,
    <<"extern", "text", "text", <<Method("a", Fields1, Nil, {"public"}), Method("b", None, Nil, {"private"})>>>>}

MCEdited == {<<s>> : s \in Simple \cup Compound \cup Declared}
            \cup {<<s, u>> : s \in Simple \cup Declared, u \in {set}}
            \cup {<<<<"while", sum, <<s, set>>>>>> : s \in Compound}
MCTyped == {"$", "a", "1", "->", "(", ")", "[", "]", "{", "}", "?", ":", "=>", NL, ";", "func", "+", ","}
MCReplacing == {"->", "(", "]", "}", NL}

-----------------------------------------------------------------------------
\* The two components share nothing: a behaviour is one of the one or of the other.
VARIABLE side

HostedInit == side \in {"parser", "generator"} /\ LanguageInit /\ GeneratorInit
HostedNext ==
    \/ side = "parser" /\ LanguageNext /\ UNCHANGED <<side, generatorVars>>
    \/ side = "generator" /\ GeneratorNext /\ UNCHANGED <<side, langVars>>
HostedSpec == HostedInit /\ [][HostedNext]_<<side, langVars, generatorVars>> /\ GeneratorFairness
=============================================================================
