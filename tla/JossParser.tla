----------------------------- MODULE JossParser -----------------------------
(***************************************************************************)
(* The parser of Joss (pkg/parser): the tokens that the lexer makes of a   *)
(* text go through a Pratt parser of two tokens, curToken and peekToken,   *)
(* which builds a tree.  A line break is a token: it ends a statement,     *)
(* unless the next token continues an expression.                          *)
(*                                                                         *)
(* A node is a tuple that begins with its kind.  A parser p is a record:   *)
(* its tokens, the index of curToken, the depth of expressions, whether an *)
(* issue was added, whether it never comes back, whether the last Expect   *)
(* succeeded, and the tree its last function returned.                     *)
(***************************************************************************)
EXTENDS Integers, Sequences, SequencesExt, FiniteSets

CONSTANTS
    Idents, Ints, Strings,  \* the tokens IDENT, INT and STRING of the instance
    MaxParseDepth           \* expressions in expressions

NL   == "newline"
Nil  == <<"nil">>
None == <<>>                \* no type, no list
Visibilities == {"public", "protected", "private"}
Rejected     == {"if", "else", "switch", "for"}
Modifiers    == Visibilities \cup {"static", "abstract"}

\* The type of a token; keywords and symbols are their own.
Kind(token) == IF token \in Idents THEN "IDENT"
               ELSE IF token \in Ints THEN "INT"
               ELSE IF token \in Strings THEN "STRING" ELSE token

Level == [k \in {"=", "+=", "??=", "?", "??", "|>", "||", "&&", "==", "<", "is", "<<",
                 ">", ">>", "..", "+", "-", ".", "*", "%", "(", "[", "->", "::", "++"} |->
    CASE k \in {"=", "+=", "??="} -> 2  [] k = "?"  -> 3   [] k = "??" -> 4   [] k = "|>" -> 5
      [] k = "||" -> 6                  [] k = "&&" -> 7   [] k = "==" -> 8
      [] k \in {"<", ">", "is"} -> 9    [] k \in {"<<", ">>"} -> 10       [] k = ".." -> 11
      [] k \in {"+", "-", "."} -> 12    [] k \in {"*", "%"} -> 13
      [] k = "(" -> 15                  [] OTHER -> 16]
LOWEST == 1
PREFIX == 14
CALL   == 15
precedence(kind) == IF kind \in DOMAIN Level THEN Level[kind] ELSE LOWEST

Infixes == {"??", "|>", "||", "&&", "==", "<", ">", "<<", ">>", "..", "+", "-", ".", "*", "%"}
\* Tokens that go on with the expression of the line before.
Continuations == {"->", "::", "[", "?"} \cup (Infixes \ {".."})

\* Names of members: these keywords are allowed too.
Keywords ==
    {"func", "$", "true", "false", "return", "print", "echo", "class", "Init", "new", "foreach",
     "as", "this", "isset", "empty", "break", "continue", "while", "do", "try", "catch", "throw",
     "extends", "if", "else", "match", "default", "async", "await", "record", "interface",
     "implements", "abstract", "enum", "case", "is", "instanceof", "select", "yield"}
isName(kind) == kind = "IDENT" \/ kind \in Keywords

-----------------------------------------------------------------------------
NewParser(text) == [text |-> text, at |-> 1, depth |-> 0, bad |-> FALSE, hung |-> FALSE,
                    ok |-> TRUE, tree |-> Nil]

Token(p, n)  == IF p.at + n \in DOMAIN p.text THEN p.text[p.at + n] ELSE "EOF"
Cur(p)       == Kind(Token(p, 0))
Peek(p)      == Kind(Token(p, 1))
nextToken(p) == IF p.at \in DOMAIN p.text THEN [p EXCEPT !.at = @ + 1] ELSE p
Skip(p)      == nextToken(nextToken(p))
addError(p)  == [p EXCEPT !.bad = TRUE]
Give(p, t)   == [p EXCEPT !.tree = t]
Fail(p)      == Give(addError(p), Nil)
\* A loop that goes round without a step: what is left of the text is not read.
Hang(p)      == [p EXCEPT !.hung = TRUE, !.bad = TRUE, !.at = Len(p.text) + 1]

RECURSIVE Expect(_, _)
\* expectPeek, for tokens that have to follow each other.
Expect(p, kinds) ==
    IF kinds = <<>> THEN [p EXCEPT !.ok = TRUE]
    ELSE IF Peek(p) = Head(kinds) THEN Expect(nextToken(p), Tail(kinds))
    ELSE [addError(p) EXCEPT !.ok = FALSE]

RECURSIVE peekPast(_, _)
\* Goes on while the next token is one of kinds.
peekPast(p, kinds) == IF Peek(p) \in kinds THEN peekPast(nextToken(p), kinds) ELSE p

RECURSIVE curPast(_, _)
curPast(p, kinds) == IF Cur(p) \in kinds THEN curPast(nextToken(p), kinds) ELSE p

RECURSIVE curToEnd(_)
curToEnd(p) == IF Cur(p) \in {";", NL, "EOF"} THEN p ELSE curToEnd(nextToken(p))

\* A statement takes the separator that follows it.
Separated(p, kinds) == IF Peek(p) \in kinds THEN nextToken(p) ELSE p
Ends == {";", NL}

RECURSIVE Rule(_, _, _)
\* What the functions of the parser come back to; Rule, the last definition,
\* says how each of these is parsed.
parseExpression(p, prec)   == Rule("expression", prec, p)
parseStatement(p)          == Rule("statement", LOWEST, p)
parseTypeReference(p)      == Rule("type", LOWEST, p)
parseBlockStatement(p)     == Rule("block", LOWEST, p)
parseClassBody(p)          == Rule("members", LOWEST, p)
parseCallArguments(p)      == Rule("arguments", LOWEST, p)
parseFunctionParameters(p) == Rule("parameters", LOWEST, p)
Parse(p)                   == parseExpression(p, LOWEST)
ParseNext(p)               == Parse(nextToken(p))

-----------------------------------------------------------------------------
(* Types: a union of names, each with the types in its angle brackets.       *)

isTypeStart(kind)        == kind \in {"IDENT", "null"}
isTypeContinuation(kind) == kind \in {"|", "?", "<"}


\* `>>' closes two lists: it is cut in two where the first one ends.
CloseAngle(p) ==
    CASE Peek(p) = ">"  -> nextToken(p)
      [] Peek(p) = ">>" -> [p EXCEPT !.text = SubSeq(@, 1, p.at) \o <<">", ">">>
                                              \o SubSeq(@, p.at + 2, Len(@)),
                                     !.at = @ + 1]
      [] OTHER          -> p

RECURSIVE TypeArguments(_, _)
TypeArguments(p, list) ==
    IF Peek(p) \in {">", ">>", "EOF"} THEN Give(p, list)
    ELSE LET q == nextToken(p)
             r == parseTypeReference(q)
         IN  IF isTypeStart(Cur(q)) THEN TypeArguments(Separated(r, {","}), Append(list, r.tree))
             ELSE TypeArguments(Separated(q, {","}), list)

parseSingleType(p) ==
    IF Peek(p) # "<" THEN Give(p, <<Token(p, 0), None>>)
    ELSE LET q == TypeArguments(nextToken(p), None)
         IN  Give(IF Peek(q) = "EOF" THEN addError(q) ELSE CloseAngle(q), <<Token(p, 0), q.tree>>)

RECURSIVE Union(_, _)
Union(p, parts) ==
    IF Peek(p) = "|"
    THEN LET q == nextToken(p)
         IN  IF ~isTypeStart(Peek(q)) THEN Give(addError(q), parts)
             ELSE LET r == parseSingleType(nextToken(q)) IN Union(r, Append(parts, r.tree))
    ELSE IF Peek(p) = "?" THEN Give(nextToken(p), Append(parts, <<"null", None>>))
    ELSE Give(p, parts)

typeReference(p) == LET q == parseSingleType(p) IN Union(q, <<q.tree>>)

parseOptionalReturnType(p) ==
    IF Peek(p) # ":" THEN Give(p, None)
    ELSE LET q == Skip(p)
         IN  IF isTypeStart(Cur(q)) THEN parseTypeReference(q) ELSE Give(addError(q), None)

-----------------------------------------------------------------------------
(* Expressions.                                                              *)


RECURSIVE Statements(_, _, _, _)
\* Statements up to a token of ends; the separators between them are passed over.
Statements(p, list, ends, seps) ==
    CASE Cur(p) \in ends \cup {"EOF"} -> Give(p, list)
      [] Cur(p) \in seps              -> Statements(nextToken(p), list, ends, seps)
      [] OTHER -> LET q == parseStatement(p)
                  IN  Statements(nextToken(q), IF q.tree = Nil THEN list ELSE Append(list, q.tree),
                                 ends, seps)
blockStatement(p) == Statements(nextToken(p), None, {"}"}, {NL})

\* "= value", where there is one.
parseInitial(p) == IF Peek(p) = "=" THEN ParseNext(nextToken(p)) ELSE Give(p, Nil)

parseArgumentExpression(p) ==
    IF Cur(p) \in {"IDENT", "$"} /\ Peek(p) = ":"
    THEN LET q == Parse(Skip(p)) IN Give(q, <<"named", Token(p, 0), q.tree>>)
    ELSE Parse(p)

\* [type] $name [= value], with the modifiers that were read.
parseTypedName(p, mods) ==
    LET t == IF isTypeStart(Cur(p)) /\ (Peek(p) = "$" \/ isTypeContinuation(Peek(p)))
             THEN Expect(parseTypeReference(p), <<"$">>) ELSE [Give(p, None) EXCEPT !.ok = TRUE]
        n == Expect(t, <<"IDENT">>)
        d == parseInitial(n)
    IN  IF ~t.ok \/ Cur(t) # "$" THEN Give(t, Nil)
        ELSE IF ~n.ok THEN Give(n, Nil)
        ELSE Give(d, <<"param", mods, t.tree, Token(n, 0), d.tree>>)

\* [visibility] [const] [ref]; a constant is public where nothing is said.
parseParameter(p) ==
    LET v == IF Cur(p) \in Visibilities THEN nextToken(p) ELSE p
        c == IF Cur(v) = "const" THEN nextToken(v) ELSE v
        r == IF Cur(c) = "ref" THEN nextToken(c) ELSE c
        shown == IF c # v /\ v = p THEN {"public"} ELSE {Cur(p)} \cap Visibilities
    IN  parseTypedName(r, shown \cup ({Cur(v)} \cap {"const"}) \cup ({Cur(c)} \cap {"ref"}))

Item(p, kind) == IF kind = "argument" THEN parseArgumentExpression(p) ELSE parseParameter(p)

RECURSIVE Items(_, _, _)
\* What follows the first item of a list in parentheses: a line may break at
\* every comma, and a comma may end the list.
Items(p, kind, list) ==
    LET got == IF kind = "parameter" /\ p.tree = Nil THEN list ELSE Append(list, p.tree)
        q   == peekPast(p, {NL})
        r   == peekPast(nextToken(q), {NL})
    IN  CASE Peek(q) = "," /\ Peek(r) # ")" -> Items(Item(nextToken(r), kind), kind, got)
          [] Peek(q) = "," /\ Peek(r) = ")" -> Give(nextToken(r), got)
          [] Peek(q) = ")"                  -> Give(nextToken(q), got)
          [] OTHER                          -> Give(addError(q), None)

parseList(p, kind) ==
    LET q == peekPast(p, {NL})
    IN  IF Peek(q) = ")" THEN Give(nextToken(q), None)
        ELSE Items(Item(nextToken(q), kind), kind, None)

\* func (parameters) [: type] { ... }
parseFunctionLiteral(p) ==
    LET q == Expect(p, <<"(">>)
        a == parseFunctionParameters(q)
        t == parseOptionalReturnType(a)
        o == Expect(t, <<"{">>)
        b == parseBlockStatement(o)
    IN  IF ~q.ok THEN Give(q, Nil)
        ELSE IF ~o.ok THEN Give(o, Nil)
        ELSE Give(b, <<"func", a.tree, t.tree, b.tree>>)

parseVarExpression(p) ==
    LET q == Expect(p, <<"IDENT">>)
    IN  IF Peek(p) = "this" THEN Give(nextToken(p), <<"id", "this">>)
        ELSE IF ~q.ok THEN Give(q, Nil)
        ELSE Give(q, <<"id", Token(q, 0)>>)

parseGroupedExpression(p) ==
    LET q == ParseNext(p)
        r == Expect(q, <<")">>)
    IN  IF r.ok THEN r ELSE Give(r, Nil)

Closed(p, kind, node) ==
    LET q == Expect(peekPast(p, {NL}), <<kind>>)
    IN  Give(q, IF q.ok THEN node ELSE Nil)

RECURSIVE Pairs(_, _, _)
\* The pairs of a map in brackets after the first one; a spread may stand for
\* a pair where spreads is set.
Pairs(p, pairs, spreads) ==
    LET r == peekPast(nextToken(p), {NL})
        k == ParseNext(r)
        a == Expect(k, <<"=>">>)
        v == ParseNext(a)
    IN  CASE Peek(p) = NL                     -> Pairs(nextToken(p), pairs, spreads)
          [] Peek(p) = "," /\ Peek(r) = "]"   -> Closed(r, "]", <<"map", pairs>>)
          [] Peek(p) = "," /\ Peek(r) # "]"   ->
                 IF k.tree = Nil THEN k
                 ELSE IF spreads /\ k.tree[1] = "spread" THEN Pairs(k, pairs \cup {<<k.tree, Nil>>}, spreads)
                 ELSE IF ~a.ok THEN Give(a, Nil)
                 ELSE IF v.tree = Nil THEN v
                 ELSE Pairs(v, pairs \cup {<<k.tree, v.tree>>}, spreads)
          [] OTHER                            -> Closed(p, "]", <<"map", pairs>>)

\* A map is told by the "=>" after a key; of what came before it only the
\* spreads are kept.
FirstPair(p, before) ==
    LET v == ParseNext(nextToken(p))
    IN  IF v.tree = Nil THEN v
        ELSE Pairs(v, {<<e, Nil>> : e \in {x \in before : x[1] = "spread"}} \cup {<<p.tree, v.tree>>},
                   before # {})

RECURSIVE Elements(_, _)
Elements(p, list) ==
    LET q == IF Peek(p) = NL THEN nextToken(p) ELSE p
        r == peekPast(nextToken(q), {NL})
        e == ParseNext(r)
    IN  CASE Peek(q) \notin {",", NL}     -> Closed(q, "]", <<"array", list>>)
          [] Peek(q) = NL                   -> Elements(q, list)
          [] Peek(q) = "," /\ Peek(r) = "]" -> Closed(r, "]", <<"array", list>>)
          [] OTHER -> IF e.tree = Nil THEN Elements(e, list)
                      ELSE IF Peek(e) = "=>" THEN FirstPair(e, Range(list))
                      ELSE Elements(e, Append(list, e.tree))

parseArrayLiteral(p) ==
    LET q == peekPast(p, {NL})
        e == ParseNext(q)
    IN  IF Peek(q) = "]" THEN Give(nextToken(q), <<"array", None>>)
        ELSE IF e.tree = Nil THEN e
        ELSE IF Peek(e) = "=>" THEN FirstPair(e, {})
        ELSE Elements(e, <<e.tree>>)

RECURSIVE BracePairs(_, _)
\* The pairs of a map in braces after the first one.
BracePairs(p, pairs) ==
    LET One(q, kind) == IF Peek(q) = kind THEN nextToken(q) ELSE q
        q == One(One(One(p, NL), ","), NL)
        k == One(ParseNext(q), NL)
        c == Expect(k, <<":">>)
        v == ParseNext(c)
        e == Expect(q, <<"}">>)
    IN  IF Peek(p) = "}" THEN Give(nextToken(p), <<"map", pairs>>)
        ELSE IF e.ok THEN Give(e, <<"map", pairs>>)
        ELSE IF ~c.ok THEN Give(c, Nil)
        ELSE BracePairs(v, pairs \cup {<<k.tree, v.tree>>})

\* { ... } as an expression: nothing, or an expression before a colon, makes it
\* a map, and anything else a block.
parseBraceExpression(p) ==
    LET q == curPast(nextToken(p), {NL})
        s == parseStatement(q)
        v == Parse(Skip(s))
        b == Statements(nextToken(s), IF s.tree = Nil THEN None ELSE <<s.tree>>, {"}"}, {NL})
    IN  IF Cur(q) = "}" THEN Give(q, <<"map", {}>>)
        ELSE IF /\ s.tree[1] = "expr"
                /\ Cur(s) # "}" /\ Peek(s) = ":"
                /\ s.tree[2][1] # "assign"
             THEN BracePairs(v, {<<s.tree[2], v.tree>>})
        ELSE Give(b, <<"block", b.tree>>)

parsePrefixExpression(p) ==
    LET q == parseExpression(nextToken(p), PREFIX) IN Give(q, <<"prefix", Token(p, 0), q.tree>>)

parseReferenceExpression(p) ==
    LET q == parseExpression(nextToken(p), PREFIX) IN Give(q, <<"ref", q.tree>>)

parseSpreadExpression(p) ==
    LET q == parseExpression(nextToken(p), CALL) IN Give(q, <<"spread", q.tree>>)

parseNewExpression(p) ==
    LET c == Expect(p, <<"IDENT">>)
        t == IF Peek(c) = "<" THEN CloseAngle(TypeArguments(nextToken(c), None)) ELSE Give(c, None)
        o == Expect(t, <<"(">>)
        a == parseCallArguments(o)
    IN  IF ~c.ok THEN Give(c, Nil)
        ELSE IF ~o.ok THEN Give(o, Nil)
        ELSE Give(a, <<"new", Token(c, 0), t.tree, a.tree>>)

parseIssetExpression(p) ==
    LET o == Expect(p, <<"(">>)
        a == parseCallArguments(o)
    IN  IF o.ok THEN Give(a, <<"isset", a.tree>>) ELSE Give(o, Nil)

parseEmptyExpression(p) ==
    LET o == Expect(p, <<"(">>)
        a == ParseNext(o)
        c == Expect(a, <<")">>)
    IN  IF ~o.ok THEN Give(o, Nil) ELSE Give(c, IF c.ok THEN <<"empty", a.tree>> ELSE Nil)

RECURSIVE MatchKeys(_, _)
\* The keys of an arm of a match, separated by commas.
MatchKeys(p, keys) ==
    LET q    == curPast(p, {NL})
        k    == IF Cur(q) = "default" THEN Give(q, <<"default">>) ELSE Parse(q)
        list == Append(keys, k.tree)
    IN  IF k.tree = Nil THEN Give(k, None)
        ELSE IF Peek(k) = "," THEN MatchKeys(Skip(k), list)
        ELSE Give(k, list)

RECURSIVE MatchArms(_, _)
MatchArms(p, arms) ==
    LET q == curPast(p, {NL})
        k == MatchKeys(q, None)
        a == Expect(k, <<"=>">>)
        v == ParseNext(a)
    IN  IF Cur(q) \in {"}", "EOF"} THEN [Give(q, arms) EXCEPT !.ok = Cur(q) = "}"]
        ELSE IF k.tree = None THEN [k EXCEPT !.ok = FALSE]
        ELSE IF ~a.ok THEN a
        ELSE IF v.tree = Nil THEN [v EXCEPT !.ok = FALSE]
        ELSE MatchArms(nextToken(Separated(v, {","})), Append(arms, <<"arm", k.tree, v.tree>>))

parseMatchExpression(p) ==
    LET o == Expect(p, <<"(">>)
        e == ParseNext(o)
        b == Expect(e, <<")", "{">>)
        a == MatchArms(nextToken(b), None)
    IN  IF ~o.ok THEN Give(o, Nil)
        ELSE IF ~b.ok THEN Give(b, Nil)
        ELSE Give(a, IF a.ok THEN <<"match", e.tree, a.tree>> ELSE Nil)

async(argument) == <<"call", <<"id", "async">>, <<argument>>>>

\* async { ... } becomes a call with a closure; async(...) is gone.
parseAsyncExpression(p) ==
    LET b == parseBlockStatement(nextToken(p))
        e == ParseNext(p)
    IN  CASE Peek(p) = "{" -> Give(b, async(<<"func", None, None, b.tree>>))
          [] Peek(p) = "(" -> Fail(p)
          [] OTHER         -> Give(e, async(e.tree))

parseAwaitExpression(p) ==
    LET a == parseCallArguments(nextToken(p))
        e == parseExpression(nextToken(p), PREFIX)
    IN  IF Peek(p) = "(" THEN Give(a, <<"call", <<"id", "await">>, a.tree>>)
        ELSE Give(e, <<"call", <<"id", "await">>, <<e.tree>>>>)

parseYieldExpression(p) ==
    LET k == ParseNext(p)
        v == ParseNext(nextToken(k))
    IN  IF Peek(p) \in {";", NL, "}", "EOF"} THEN Give(p, <<"yield", Nil, Nil>>)
        ELSE IF Peek(k) = "=>" THEN Give(v, <<"yield", k.tree, v.tree>>)
        ELSE Give(k, <<"yield", Nil, k.tree>>)

PrefixTokens == {"IDENT", "this", "INT", "STRING", "true", "null", "$", "(", "[", "{", "new", "isset",
             "empty", "!", "-", "func", "match", "async", "await", "ref", "...", "yield"}

parsePrefix(p) ==
    CASE Cur(p) \in {"IDENT", "this"}  -> Give(p, <<"id", Token(p, 0)>>)
      [] Cur(p) \in {"INT", "STRING", "true", "null"} -> Give(p, <<"literal", Token(p, 0)>>)
      [] Cur(p) = "$"                  -> parseVarExpression(p)
      [] Cur(p) = "("                  -> parseGroupedExpression(p)
      [] Cur(p) = "["                  -> parseArrayLiteral(p)
      [] Cur(p) = "{"                  -> parseBraceExpression(p)
      [] Cur(p) = "new"                -> parseNewExpression(p)
      [] Cur(p) = "isset"              -> parseIssetExpression(p)
      [] Cur(p) = "empty"              -> parseEmptyExpression(p)
      [] Cur(p) \in {"!", "-"}         -> parsePrefixExpression(p)
      [] Cur(p) = "func"               -> parseFunctionLiteral(p)
      [] Cur(p) = "match"              -> parseMatchExpression(p)
      [] Cur(p) = "async"              -> parseAsyncExpression(p)
      [] Cur(p) = "await"              -> parseAwaitExpression(p)
      [] Cur(p) = "ref"                -> parseReferenceExpression(p)
      [] Cur(p) = "..."                -> parseSpreadExpression(p)
      [] OTHER                         -> parseYieldExpression(p)

\* MUTANT: the right operand takes operators of the same level.
InfixToTheRight(p) ==
    LET q == parseExpression(nextToken(p), precedence(Cur(p)) - 1)
    IN  Give(q, <<"infix", Cur(p), p.tree, q.tree>>)

\* The operators, with the expression on their left in p.tree.
parseInfixExpression(p) ==
    LET q == parseExpression(nextToken(p), precedence(Cur(p)))
    IN  Give(q, <<"infix", Cur(p), p.tree, q.tree>>)

parseTernaryExpression(p) ==
    LET q == nextToken(p)
        t == Parse(q)
        f == Parse(Skip(t))
        e == ParseNext(q)
    IN  IF Cur(q) = ":" THEN Give(e, <<"ternary", p.tree, Nil, e.tree>>)
        ELSE IF Peek(t) = ":" THEN Give(f, <<"ternary", p.tree, t.tree, f.tree>>)
        ELSE Give(t, <<"ternary", p.tree, t.tree, Nil>>)

parseCallExpression(p) ==
    LET a == parseCallArguments(p) IN Give(a, <<"call", p.tree, a.tree>>)

parseIndexExpression(p) ==
    LET i == ParseNext(p)
        c == Expect(i, <<"]">>)
    IN  IF Peek(p) = "]" THEN Give(nextToken(p), <<"index", p.tree, Nil>>)
        ELSE Give(c, IF c.ok THEN <<"index", p.tree, i.tree>> ELSE Nil)

parseMemberExpression(p) ==
    IF isName(Peek(p)) THEN Give(nextToken(p), <<"member", p.tree, Token(p, 1)>>)
    ELSE Fail(p)

parseAssignExpression(p) ==
    LET v == ParseNext(p) IN Give(v, <<"assign", p.tree, v.tree>>)

\* The target is evaluated in the assignment and in the operation.
parseCompoundAssignExpression(p) ==
    LET v == ParseNext(p)
        o == IF Cur(p) = "+=" THEN "+" ELSE "??"
    IN  Give(v, <<"assign", p.tree, <<"infix", o, p.tree, v.tree>>>>)

parsePostfixExpression(p) == Give(p, <<"postfix", p.tree>>)

parseIsExpression(p) ==
    IF ~isTypeStart(Peek(p)) THEN Give(addError(p), <<"is", p.tree, None>>)
    ELSE LET t == parseTypeReference(nextToken(p)) IN Give(t, <<"is", p.tree, t.tree>>)

parseInfix(p) ==
    CASE Cur(p) \in Infixes       -> parseInfixExpression(p)
      [] Cur(p) = "?"             -> parseTernaryExpression(p)
      [] Cur(p) = "("             -> parseCallExpression(p)
      [] Cur(p) = "["             -> parseIndexExpression(p)
      [] Cur(p) \in {"->", "::"}  -> parseMemberExpression(p)
      [] Cur(p) = "="             -> parseAssignExpression(p)
      [] Cur(p) \in {"+=", "??="} -> parseCompoundAssignExpression(p)
      [] Cur(p) = "is"            -> parseIsExpression(p)
      [] OTHER                    -> parsePostfixExpression(p)

RECURSIVE Climb(_, _)
\* The loop of parseExpression.  An operator that curToken stands on is taken
\* whatever its precedence: it is the one after a line break.
Climb(p, prec) ==
    LET q == parseInfix(p) IN
    CASE Peek(p) \in {";", "EOF"} -> p
      [] Peek(p) \notin {";", "EOF"} /\ Cur(p) \in Continuations ->
             IF q.at = p.at THEN Hang(q) ELSE Climb(q, prec)
      [] Peek(p) = NL /\ Cur(p) \notin Continuations ->
             IF Peek(nextToken(p)) \in Continuations THEN Climb(nextToken(p), prec) ELSE nextToken(p)
      [] Cur(p) = NL /\ Peek(p) \notin {NL, ";", "EOF"} ->
             IF Peek(p) \in Continuations THEN Climb(nextToken(p), prec) ELSE p
      [] OTHER -> IF prec >= precedence(Peek(p)) THEN p ELSE Climb(parseInfix(nextToken(p)), prec)

expression(p, prec) ==
    IF p.depth >= MaxParseDepth THEN Fail(p)
    ELSE IF Cur(p) \notin PrefixTokens THEN Fail(p)
    ELSE [Climb(parsePrefix([p EXCEPT !.depth = @ + 1]), prec) EXCEPT !.depth = p.depth]

-----------------------------------------------------------------------------
(* Statements.                                                               *)

\* [value], with what an expression statement or a declaration takes after it.
parseConstStatement(p, mods) ==
    LET t == IF Peek(p) = "IDENT" THEN parseTypeReference(nextToken(p)) ELSE Give(p, None)
        n == Expect(t, <<"$", "IDENT">>)
        a == Expect(n, <<"=">>)
        v == ParseNext(a)
    IN  IF ~n.ok THEN Give(n, Nil)
        ELSE IF ~a.ok THEN Give(a, Nil)
        ELSE Give(Separated(v, Ends), <<"let", t.tree, Token(n, 0), v.tree, mods \cup {"const"}>>)

RECURSIVE MoreLets(_, _)
\* The declarations after the first comma.
MoreLets(p, lets) ==
    LET n == Expect(nextToken(p), <<"$", "IDENT">>)
        v == parseInitial(n)
    IN  IF Peek(p) # "," THEN Give(p, lets)
        ELSE IF ~n.ok THEN Give(n, lets)
        ELSE MoreLets(v, Append(lets, <<Token(n, 0), v.tree>>))

\* type $name [= value] {, $name [= value]}
parseLetStatement(p, mods) ==
    LET t == parseTypeReference(p)
        n == Expect(t, <<"$", "IDENT">>)
        v == parseInitial(n)
        m == MoreLets(v, <<<<Token(n, 0), v.tree>>>>)
    IN  IF ~n.ok THEN Give(n, Nil)
        ELSE IF Peek(v) = "," THEN Give(Separated(m, Ends), <<"lets", t.tree, m.tree, mods>>)
        ELSE Give(Separated(v, Ends), <<"let", t.tree, Token(n, 0), v.tree, mods>>)

mixed == <<<<"mixed", None>>>>

\* let $name [= value]
parseUntypedLet(p) ==
    LET n == Expect(nextToken(p), <<"IDENT">>)
        v == parseInitial(n)
    IN  IF ~n.ok THEN Give(n, Nil)
        ELSE Give(Separated(v, Ends), <<"let", mixed, Token(n, 0), v.tree, {}>>)

\* A property without a type: its name is taken from the "$", and what follows
\* is left where it is.
parseUntypedProperty(p, mods) ==
    LET v == parseInitial(p) IN Give(Separated(v, Ends), <<"let", mixed, "$", v.tree, mods>>)

parseReturnStatement(p) ==
    LET q == nextToken(p)
        v == Parse(q)
    IN  IF Cur(q) = ";" THEN Give(q, <<"return", Nil>>)
        ELSE Give(Separated(v, {";"}), <<"return", v.tree>>)

parseThrowStatement(p) ==
    LET v == ParseNext(p) IN Give(Separated(v, {";"}), <<"throw", v.tree>>)

parseJump(p) == Give(Separated(p, {";"}), <<Cur(p)>>)       \* break, continue

parseExpressionStatement(p) ==
    LET e == Parse(p) IN Give(Separated(e, Ends), <<"expr", e.tree>>)

parseEchoStatement(p) ==
    LET q == nextToken(p)
        v == IF Cur(q) = "(" THEN Separated(ParseNext(q), {")"}) ELSE Parse(q)
    IN  Give(Separated(v, Ends), <<"echo", v.tree>>)

parseDeferStatement(p) ==
    LET q == nextToken(p)
        b == parseBlockStatement(q)
        e == Parse(q)
    IN  IF Cur(q) = "{" THEN Give(b, <<"defer", b.tree>>)
        ELSE Give(Separated(e, {";"}),
                  <<"defer", IF e.tree = Nil THEN None ELSE <<<<"expr", e.tree>>>>>>)

parseAsyncStatement(p) ==
    LET e == parseAsyncExpression(p)
    IN  IF Peek(p) = "(" THEN e ELSE Give(e, <<"expr", e.tree>>)

\* (condition) { ... }
parseWhileStatement(p) ==
    LET o == Expect(p, <<"(">>)
        c == ParseNext(o)
        k == Expect(c, <<")", "{">>)
        b == parseBlockStatement(k)
    IN  IF ~o.ok THEN Give(o, Nil)
        ELSE IF ~k.ok THEN Give(k, Nil)
        ELSE Give(b, <<"while", c.tree, b.tree>>)

parseDoWhileStatement(p) ==
    LET o == Expect(p, <<"{">>)
        b == parseBlockStatement(o)
        w == Expect(b, <<"while", "(">>)
        c == ParseNext(w)
        k == Expect(c, <<")">>)
    IN  IF ~o.ok THEN Give(o, Nil)
        ELSE IF ~w.ok THEN Give(w, Nil)
        ELSE IF ~k.ok THEN Give(k, Nil)
        ELSE Give(Separated(k, {";"}), <<"dowhile", b.tree, c.tree>>)

parseGuardStatement(p) ==
    LET o == Expect(peekPast(p, {NL}), <<"(">>)
        c == ParseNext(o)
        k == Expect(c, <<")">>)
        s == peekPast(k, {NL})
        e == Expect(peekPast(nextToken(s), {NL}), <<"{">>)
        b == parseBlockStatement(e)
    IN  IF ~o.ok THEN Give(o, Nil)
        ELSE IF ~k.ok THEN Give(k, Nil)
        ELSE IF Peek(s) \notin {":", "else"} THEN Fail(s)
        ELSE IF ~e.ok THEN Give(e, Nil)
        ELSE Give(b, <<"guard", c.tree, b.tree>>)

\* foreach (iterable as [$key =>] $value) { ... }
parseForeachStatement(p) ==
    LET o == Expect(p, <<"(">>)
        i == ParseNext(o)
        f == Expect(i, <<"as", "$", "IDENT">>)
        s == IF Peek(f) = "=>" THEN Expect(f, <<"=>", "$", "IDENT">>) ELSE f
        k == Expect(s, <<")", "{">>)
        b == parseBlockStatement(k)
    IN  IF ~o.ok THEN Give(o, Nil)
        ELSE IF ~f.ok THEN Give(f, Nil)
        ELSE IF ~s.ok THEN Give(s, Nil)
        ELSE IF ~k.ok THEN Give(k, Nil)
        ELSE Give(b, <<"foreach", i.tree, IF Peek(f) = "=>" THEN Token(f, 0) ELSE "",
                       Token(s, 0), b.tree>>)

parseTryCatchStatement(p) ==
    LET o == Expect(p, <<"{">>)
        b == parseBlockStatement(o)
        v == Expect(b, <<"catch", "(", "$", "IDENT">>)
        k == Expect(v, <<")", "{">>)
        h == parseBlockStatement(k)
    IN  IF ~o.ok THEN Give(o, Nil)
        ELSE IF ~v.ok THEN Give(v, Nil)
        ELSE IF ~k.ok THEN Give(k, Nil)
        ELSE Give(h, <<"try", b.tree, Token(v, 0), h.tree>>)

RECURSIVE DestructuredNames(_, _)
\* From "(", or a name: the names up to ")".
DestructuredNames(p, names) ==
    LET n    == Expect(p, <<"$", "IDENT">>)
        m    == Expect(p, <<"IDENT">>)
        got  == IF Peek(p) = "$" THEN n ELSE IF Peek(p) = "IDENT" THEN m ELSE [p EXCEPT !.ok = FALSE]
        list == IF got.ok THEN Append(names, Token(got, 0)) ELSE names
    IN  IF Cur(p) \in {")", "EOF"} THEN Give(p, names)
        ELSE IF Peek(got) = "," THEN DestructuredNames(nextToken(got), list)
        ELSE Give(nextToken(got), list)

parseDestructureStatement(p) ==
    LET l == DestructuredNames(nextToken(p), None)
        a == Expect(l, <<"=">>)
        v == ParseNext(a)
    IN  IF ~a.ok THEN Give(a, Nil)
        ELSE Give(Separated(v, Ends), <<"destructure", l.tree, v.tree>>)

-----------------------------------------------------------------------------
(* Declarations.                                                             *)


RECURSIVE TypeParameters(_, _)
\* <T, U>
TypeParameters(p, list) ==
    LET q == nextToken(p)
    IN  IF Peek(p) \in {">", ">>", "EOF"} THEN Give(CloseAngle(p), list)
        ELSE TypeParameters(Separated(q, {","}), IF Cur(q) = "IDENT" THEN Append(list, Token(q, 0)) ELSE list)
parseTypeParameterList(p) ==
    IF Peek(p) = "<" THEN TypeParameters(nextToken(p), None) ELSE Give(p, None)

RECURSIVE Names(_, _)
\* A, B, C
Names(p, list) ==
    LET n == Expect(p, <<"IDENT">>)
        l == Append(list, Token(n, 0))
    IN  IF ~n.ok THEN n
        ELSE IF Peek(n) = "," THEN Names(nextToken(n), l) ELSE Give(n, l)
parseNames(p, keyword) ==
    IF Peek(p) = keyword THEN Names(nextToken(p), None) ELSE [Give(p, None) EXCEPT !.ok = TRUE]

RECURSIVE Modified(_, _)
\* The modifiers from curToken on; of several visibilities the last one counts.
Modified(p, mods) ==
    LET got == IF Cur(p) \in Visibilities THEN (mods \ Visibilities) \cup {Cur(p)} ELSE mods \cup {Cur(p)}
    IN  IF Peek(p) \in Modifiers THEN Modified(nextToken(p), got)
        ELSE Give(IF "static" \in got /\ got \cap Visibilities = {} THEN addError(p) ELSE p, got)

Given(mods, kept) == mods \cap kept

\* func name [<T>] (parameters) [: type] and a body, but of an abstract method.
\* declared is what the modifiers in front of it say, if any were read.
parseMethodEnd(p, head, abstract, declared) ==
    LET k == Expect(p, <<"{">>)
        b == parseBlockStatement(k)
        Method(q, code) == Give(q, <<"method">> \o head \o <<code, declared>>)
    IN  CASE abstract /\ Peek(p) = "{"   -> Method(parseBlockStatement(nextToken(addError(p))), Nil)
          [] abstract /\ Peek(p) # "{"   -> Method(Separated(p, Ends), Nil)
          [] ~abstract /\ Peek(p) = ";"  -> Method(nextToken(p), Nil)
          [] ~abstract /\ Peek(p) # ";"  -> IF k.ok THEN Method(b, b.tree) ELSE Give(k, Nil)

parseMethodHead(p, name, types, abstract, declared) ==
    LET o == Expect(p, <<"(">>)
        a == parseFunctionParameters(o)
        r == parseOptionalReturnType(a)
    IN  IF o.ok THEN parseMethodEnd(r, <<name, types, a.tree, r.tree>>, abstract, declared)
        ELSE Give(o, Nil)

parseMethodStatement(p, abstract, declared) ==
    LET n == IF isName(Peek(p)) THEN [nextToken(p) EXCEPT !.ok = TRUE] ELSE Expect(p, <<"IDENT">>)
        t == parseTypeParameterList(n)
    IN  IF n.ok THEN parseMethodHead(t, Token(n, 0), t.tree, abstract, declared) ELSE Give(n, Nil)

parseInitStatement(p) ==
    LET n == IF Peek(p) = "IDENT" THEN nextToken(p) ELSE p
        o == Expect(n, <<"(">>)
        a == parseFunctionParameters(o)
        k == Expect(a, <<"{">>)
        b == parseBlockStatement(k)
    IN  IF ~o.ok THEN Give(o, Nil)
        ELSE IF ~k.ok THEN Give(k, Nil)
        ELSE Give(b, <<"init", IF n = p THEN "Init" ELSE Token(n, 0), a.tree, b.tree>>)

\* A declaration with modifiers, from the last of them: methods, constants and
\* properties, in a class and outside.
parseMember(p, mods) ==
    LET q == nextToken(p) IN
    CASE Peek(p) = "func"  -> parseMethodStatement(q, "abstract" \in mods, mods)
      [] Peek(p) = "const" -> parseConstStatement(q, Given(mods, Visibilities \cup {"static"}))
      [] Peek(p) = "$"     -> parseUntypedProperty(q, Given(mods, Visibilities \cup {"static"}))
      [] OTHER             -> parseLetStatement(q, Given(mods, Visibilities \cup {"static"}))
Members == {"func", "const", "$", "IDENT"}


\* A member of a class: what has no visibility is read and refused.
parseClassMember(p) ==
    LET m == Modified(p, {})
        typed == isTypeStart(Cur(p)) /\ (Peek(p) = "$" \/ isTypeContinuation(Peek(p)))
    IN  CASE Cur(p) \in Modifiers -> IF Peek(m) \in Members THEN parseMember(m, m.tree) ELSE Give(m, Nil)
          [] Cur(p) = "func"      -> parseMethodStatement(addError(p), FALSE, {})
          [] Cur(p) = "Init"      -> parseInitStatement(p)
          [] Cur(p) = "const"     -> parseConstStatement(addError(p), {})
          [] Cur(p) = "let" /\ Peek(p) = "IDENT" -> parseLetStatement(nextToken(addError(p)), {})
          [] Cur(p) = "let" /\ Peek(p) = "$"     -> parseUntypedProperty(nextToken(addError(p)), {})
          [] typed                -> parseLetStatement(addError(p), {})
          [] Cur(p) = "$"         -> parseUntypedProperty(addError(p), {})
          [] OTHER                -> Give(p, Nil)

RECURSIVE ClassMembers(_, _), NextMember(_, _)
ClassMembers(p, list) ==
    CASE Cur(p) \in {"}", "EOF"} -> Give(p, list)
      [] Cur(p) = NL             -> ClassMembers(nextToken(p), list)
      [] OTHER                   -> NextMember(parseClassMember(p), list)
NextMember(m, list) ==
    ClassMembers(nextToken(m), IF m.tree = Nil THEN list ELSE Append(list, m.tree))

\* record Name(fields): a public constant for each, and a method Init that
\* assigns them unless the body has one.
Fields(params) == [i \in DOMAIN params |->
    <<"let", params[i][3], params[i][4], Nil, {"public", "const"}>>]
InitOf(params) ==
    <<"method", "Init", None, params, None,
      [i \in DOMAIN params |->
          <<"expr", <<"assign", <<"member", <<"id", "$this">>, params[i][4]>>, <<"id", params[i][4]>>>>>>],
      {"public"}>>

RecordOf(b, params, name, types) ==
    LET own == \E i \in DOMAIN b.tree : b.tree[i][1] = "method" /\ b.tree[i][2] = "Init"
    IN  Give(b, <<"record", name, types, "", None,
                  Fields(params) \o b.tree \o (IF own THEN None ELSE <<InitOf(params)>>)>>)

parseRecord(a, name, types) ==
    RecordOf(IF Peek(a) = "{" THEN parseClassBody(nextToken(a)) ELSE Give(Separated(a, Ends), None),
             a.tree, name, types)

parseClassEnd(p, head) ==
    LET i == parseNames(p, "implements")
        k == Expect(i, <<"{">>)
        b == parseClassBody(k)
    IN  IF ~i.ok THEN Give(i, Nil)
        ELSE IF ~k.ok THEN Give(k, Nil)
        ELSE Give(b, head \o <<i.tree, b.tree>>)

\* class Name [<T>] [extends Name] [implements Names] { ... }
parseClassStatement(p) ==
    LET n == Expect(p, <<"IDENT">>)
        t == parseTypeParameterList(n)
        e == IF Peek(t) = "extends" THEN Skip(t) ELSE t
    IN  IF ~n.ok THEN Give(n, Nil)
        ELSE IF Cur(p) = "record" /\ Peek(t) = "("
             THEN parseRecord(parseFunctionParameters(nextToken(t)), Token(n, 0), t.tree)
        ELSE parseClassEnd(e, <<Cur(p), Token(n, 0), t.tree, IF e = t THEN "" ELSE Token(e, 0)>>)

RECURSIVE InterfaceMethods(_, _)
\* interface Name [extends Names] { [visibility] func name(parameters) [: type]; ... }
InterfaceMethods(p, list) ==
    LET v == IF Cur(p) \in Visibilities
             THEN nextToken(IF Cur(p) = "public" THEN p ELSE addError(p)) ELSE p
        n == IF isName(Peek(v)) THEN [nextToken(v) EXCEPT !.ok = TRUE] ELSE Expect(v, <<"IDENT">>)
        o == Expect(n, <<"(">>)
        a == parseFunctionParameters(o)
        r == parseOptionalReturnType(a)
        e == IF Peek(r) = "{" THEN parseBlockStatement(nextToken(addError(r))) ELSE Separated(r, {";"})
    IN  CASE Cur(p) \in {"}", "EOF"} -> Give(p, list)
          [] Cur(p) \in Ends         -> InterfaceMethods(nextToken(p), list)
          [] OTHER ->
                 IF Cur(v) # "func" THEN InterfaceMethods(nextToken(addError(v)), list)
                 ELSE IF ~n.ok THEN Give(n, list)
                 ELSE IF ~o.ok THEN Give(o, list)
                 ELSE InterfaceMethods(nextToken(e), Append(list,
                          <<"method", Token(n, 0), None, a.tree, r.tree, Nil,
                            {IF v = p THEN "public" ELSE Cur(p)}>>))

parseInterfaceStatement(p) ==
    LET n == Expect(p, <<"IDENT">>)
        x == parseNames(n, "extends")
        o == Expect(x, <<"{">>)
        b == InterfaceMethods(nextToken(o), None)
    IN  IF ~n.ok THEN Give(n, Nil)
        ELSE IF ~x.ok THEN Give(x, Nil)
        ELSE IF ~o.ok THEN Give(o, Nil)
        ELSE Give(b, <<"interface", Token(n, 0), x.tree, b.tree>>)

RECURSIVE EnumCases(_, _)
\* enum Name [: type] { case Name [= value]; ... }
EnumCases(p, list) ==
    LET n == Expect(p, <<"IDENT">>)
        v == parseInitial(n)
    IN  CASE Cur(p) \in {"}", "EOF"} -> Give(p, list)
          [] Cur(p) \in Ends         -> EnumCases(nextToken(p), list)
          [] OTHER ->
                 IF Cur(p) # "case" THEN EnumCases(nextToken(addError(p)), list)
                 ELSE IF ~n.ok THEN EnumCases(nextToken(n), list)
                 ELSE EnumCases(nextToken(Separated(v, {";"})), Append(list, <<Token(n, 0), v.tree>>))

parseEnumStatement(p) ==
    LET n == Expect(p, <<"IDENT">>)
        t == IF Peek(n) = ":" THEN Expect(n, <<":", "IDENT">>) ELSE n
        o == Expect(t, <<"{">>)
        b == EnumCases(nextToken(o), None)
    IN  IF ~n.ok THEN Give(n, Nil)
        ELSE IF ~t.ok THEN Give(t, Nil)
        ELSE IF ~o.ok THEN Give(o, Nil)
        ELSE Give(b, <<"enum", Token(n, 0), IF t = n THEN "" ELSE Token(t, 0), b.tree>>)

RECURSIVE SelectCases(_, _)
\* select { case statement: statements ... default: statements }
SelectCases(p, list) ==
    LET c    == IF Cur(p) = "case" THEN parseStatement(nextToken(p)) ELSE Give(p, Nil)
        q    == nextToken(Separated(c, {":"}))
        seps == IF Cur(p) = "case" THEN {NL, ";", ":"} ELSE {NL, ";"}
        b    == Statements(q, None, {"case", "default", "}"}, seps)
    IN  CASE Cur(p) \in {"}", "EOF"}        -> Give(p, list)
          [] Cur(p) \in Ends                -> SelectCases(nextToken(p), list)
          [] Cur(p) \in {"case", "default"} -> SelectCases(b, Append(list, <<Cur(p), c.tree, b.tree>>))
          [] OTHER                          -> SelectCases(nextToken(addError(p)), list)

parseSelectStatement(p) ==
    LET o == Expect(p, <<"{">>)
        b == SelectCases(nextToken(o), None)
    IN  IF o.ok THEN Give(b, <<"select", b.tree>>) ELSE Give(o, Nil)

RECURSIVE Externs(_, _), NextExtern(_, _, _)
\* extern "abi" library "path" { [visibility] func name(parameters) [: type]; ... }
\* A method that fails on its first token is tried again and again.
Externs(p, list) ==
    LET v == IF Cur(p) \in {"public", "private"} THEN nextToken(p) ELSE p
    IN  CASE Cur(p) \in {"}", "EOF"} -> Give(p, list)
          [] Cur(p) \in Ends         -> Externs(nextToken(p), list)
          [] OTHER ->
                 IF Cur(v) # "func" THEN Externs(nextToken(addError(v)), list)
                 ELSE NextExtern(parseMethodStatement(v, FALSE, {IF v = p THEN "public" ELSE Cur(p)}),
                                 v.at, list)
NextExtern(m, from, list) ==
    IF m.at = from THEN Hang(m)
    ELSE Externs(m, IF m.tree = Nil THEN list ELSE Append(list, m.tree))

parseExternLibraryStatement(p) ==
    LET s == Expect(p, <<"STRING">>)
        l == nextToken(s)
        f == Expect(l, <<"STRING">>)
        o == Expect(f, <<"{">>)
        b == Externs(nextToken(o), None)
    IN  IF ~s.ok THEN Give(s, Nil)
        ELSE IF Cur(l) # "library" THEN Fail(l)
        ELSE IF ~f.ok THEN Give(f, Nil)
        ELSE IF ~o.ok THEN Give(o, Nil)
        ELSE Give(b, <<"extern", Token(s, 0), Token(f, 0), b.tree>>)

-----------------------------------------------------------------------------
(* The statement at curToken.                                                *)

With(p, mods) == IF p.tree = Nil THEN p ELSE Give(p, Append(p.tree, mods))

\* Without modifiers; declarations that need a visibility are read and refused.
parsePlainStatement(p) ==
    LET kind  == Cur(p)
        typed == isTypeStart(kind) /\ (Peek(p) = "$" \/ isTypeContinuation(Peek(p)))
    IN  CASE kind \in {"class", "record"}      -> With(parseClassStatement(addError(p)), {})
          [] kind = "enum"                     -> With(parseEnumStatement(addError(p)), {})
          [] kind = "interface"                -> With(parseInterfaceStatement(addError(p)), {})
          [] kind = "func"                     -> parseMethodStatement(addError(p), FALSE, {})
          [] kind = "Init"                     -> parseInitStatement(p)
          [] kind = "foreach"                  -> parseForeachStatement(p)
          [] kind = "echo"                     -> parseEchoStatement(p)
          [] kind = "while"                    -> parseWhileStatement(p)
          [] kind = "guard"                    -> parseGuardStatement(p)
          [] kind = "do"                       -> parseDoWhileStatement(p)
          [] kind = "try"                      -> parseTryCatchStatement(p)
          [] kind = "throw"                    -> parseThrowStatement(p)
          [] kind = "return"                   -> parseReturnStatement(p)
          [] kind \in {"break", "continue"}    -> parseJump(p)
          [] kind = "defer"                    -> parseDeferStatement(p)
          [] kind = "async"                    -> parseAsyncStatement(p)
          [] kind = "select"                   -> parseSelectStatement(p)
          [] kind = "const"                    -> parseConstStatement(p, {})
          [] kind = "extern"                   -> parseExternLibraryStatement(p)
          [] kind = "let" /\ Peek(p) = "("     -> parseDestructureStatement(p)
          [] kind = "let" /\ Peek(p) = "IDENT" -> parseLetStatement(nextToken(p), {})
          [] kind = "let" /\ Peek(p) = "$"     -> parseUntypedLet(p)
          [] typed                             -> parseLetStatement(p, {})
          [] OTHER                             -> parseExpressionStatement(p)

\* Of the declarations with modifiers only members may be protected.
parseModifiedStatement(p) ==
    LET m == Modified(p, {})
        g == IF "protected" \in m.tree /\ Peek(m) \in {"class", "record", "enum", "interface", "func"}
             THEN addError(m) ELSE m
        q == nextToken(g)
        kept == m.tree \cap (Visibilities \cup {"abstract"})
    IN  CASE Peek(m) \in {"class", "record"} -> With(parseClassStatement(q), kept)
          [] Peek(m) = "enum"                -> With(parseEnumStatement(q), kept \ {"abstract"})
          [] Peek(m) = "interface"           -> With(parseInterfaceStatement(q), kept \ {"abstract"})
          [] Peek(m) \in Members             -> parseMember(g, m.tree)
          [] OTHER                           -> parsePlainStatement(m)

\* Words of other languages are refused; a word this language had takes its
\* line with it.
statement(p) ==
    CASE Cur(p) = "removed"        -> Fail(curToEnd(p))
      [] Cur(p) \in Rejected       -> Fail(p)
      [] Cur(p) \in Modifiers      -> parseModifiedStatement(p)
      [] OTHER                     -> parsePlainStatement(p)

Rule(name, prec, p) ==
    CASE name = "expression" -> expression(p, prec)
      [] name = "statement"  -> statement(p)
      [] name = "type"       -> typeReference(p)
      [] name = "block"      -> blockStatement(p)
      [] name = "members"    -> ClassMembers(nextToken(p), None)
      [] name = "arguments"  -> parseList(p, "argument")
      [] name = "parameters" -> parseList(p, "parameter")

ParseProgram(text) == Statements(NewParser(text), None, {}, {NL})
=============================================================================
