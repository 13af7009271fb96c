---------------------------- MODULE JossGrammar ----------------------------
(***************************************************************************)
(* How a tree is written in Joss: the reference for the parser.  It follows *)
(* the table of precedences and the forms of docs/SINTAXIS.md, not the     *)
(* parser: an operand stands in parentheses exactly where the table asks    *)
(* for them, and in the layout "lines" every list and every chain of        *)
(* operators is broken at each place where a line may be.                   *)
(***************************************************************************)
EXTENDS Integers, Sequences, SequencesExt, FiniteSets

break == "newline"

\* The table, one step above its numbers; what is not in it needs no parentheses.
Operators == <<{"="}, {"?"}, {"??"}, {"|>"}, {"||"}, {"&&"}, {"=="}, {"<", ">", "is"},
               {"<<", ">>"}, {".."}, {"+", "-", "."}, {"*", "%"}>>
Row(op)   == CHOOSE i \in DOMAIN Operators : op \in Operators[i]
PrefixRow == 13
CallRow   == 14
IndexRow  == 15

isCallOf(e, name) == e[1] = "call" /\ e[2] = <<"id", name>>
isClosure(e)      == e[1] = "func" /\ e[2] = <<>> /\ e[3] = <<>>
RowOf(e) ==
    CASE e[1] = "infix"                        -> Row(e[2])
      [] e[1] = "assign"                       -> Row("=")
      [] e[1] = "ternary"                      -> Row("?")
      [] e[1] = "is"                           -> Row("is")
      [] e[1] \in {"prefix", "ref", "spread"}  -> PrefixRow
      [] e[1] \in {"yield", "named"}           -> 0
      [] isCallOf(e, "async")                  -> 0
      [] isCallOf(e, "await")                  -> PrefixRow
      [] e[1] = "call" /\ ~isCallOf(e, "async") /\ ~isCallOf(e, "await") -> CallRow
      [] e[1] \in {"index", "member", "postfix"} -> IndexRow
      [] OTHER                                 -> IndexRow + 1

Joined(parts, separator) ==
    IF parts = <<>> THEN <<>>
    ELSE FoldLeft(LAMBDA text, part : text \o separator \o part, Head(parts), Tail(parts))

\* A list, with a line for each of its parts in the layout "lines".
Listed(open, parts, close, lines) ==
    LET nl == IF lines THEN <<break>> ELSE <<>>
    IN  IF parts = <<>> THEN <<open, close>>
        ELSE <<open>> \o nl \o Joined(parts, <<",">> \o nl) \o nl \o <<close>>

\* Two brackets that close together are one token.
Angles(parts) ==
    LET inner == Joined(parts, <<",">>)
    IN  <<"<">> \o (IF Last(inner) = ">" THEN Front(inner) \o <<">>">> ELSE inner \o <<">">>)

RECURSIVE Type(_)
Type(union) ==
    Joined([i \in DOMAIN union |->
               <<union[i][1]>> \o (IF union[i][2] = <<>> THEN <<>>
                                   ELSE Angles([j \in DOMAIN union[i][2] |-> Type(union[i][2][j])]))],
           <<"|">>)
ReturnType(union) == IF union = <<>> THEN <<>> ELSE <<":">> \o Type(union)

RECURSIVE Written(_, _, _, _)
\* e where the table asks for at least the row `row'; a statement; a block.
Expression(e, row, lines) == Written("expression", e, row, lines)
Statement(s, lines)       == Written("statement", s, 0, lines)
Block(statements, lines)  ==
    <<"{">> \o (IF lines THEN <<break>> ELSE <<>>)
    \o FlattenSeq([i \in DOMAIN statements |-> Statement(statements[i], lines)]) \o <<"}">>

\* [visibility] [static] [abstract] [const] [ref], of what mods has.
Marked(mods) == SelectSeq(<<"public", "protected", "private", "static", "abstract", "const", "ref">>,
                          LAMBDA m : m \in mods)
Valued(value, lines) == IF value = <<"nil">> THEN <<>> ELSE <<"=">> \o Expression(value, 0, lines)

Parameter(param, lines) ==
    Marked(param[2]) \o Type(param[3]) \o <<"$", param[4]>> \o Valued(param[5], lines)
Parameters(list, lines) == Listed("(", [i \in DOMAIN list |-> Parameter(list[i], lines)], ")", lines)

WrittenExpression(e, row, lines) ==
    LET nl        == IF lines THEN <<break>> ELSE <<>>
        X(x)      == Expression(x, 0, lines)
        At(x, r)  == Expression(x, r, lines)
        \* The next line begins with the operator that follows a closed operand.
        Then(x)   == IF RowOf(x) >= CallRow THEN nl ELSE <<>>
        Args(xs)  == Listed("(", [i \in DOMAIN xs |-> X(xs[i])], ")", lines)
        Arm(a)    == Joined([i \in DOMAIN a[2] |-> At(a[2][i], 1)], <<",">>) \o <<"=>">> \o X(a[3])
        \* A ternary in a ternary stands in parentheses.
        Branch(x) == IF x[1] = "ternary" THEN <<"(">> \o X(x) \o <<")">> ELSE X(x)
        Pair(kv)  == IF kv[1][1] = "spread" THEN X(kv[1]) ELSE At(kv[1], 1) \o <<"=>">> \o X(kv[2])
        \* What is spread into a map comes first.
        Pairs     == LET spread == {kv \in e[2] : kv[1][1] = "spread"}
                         all    == SetToSeq(spread) \o SetToSeq(e[2] \ spread)
                     IN  [i \in DOMAIN all |-> Pair(all[i])]
        text ==
            CASE e[1] = "id"      -> <<"$", e[2]>>
              [] e[1] = "literal" -> <<e[2]>>
              [] e[1] = "default" -> <<"default">>
              [] e[1] = "infix"   -> At(e[3], Row(e[2])) \o (IF e[2] = ".." THEN <<>> ELSE Then(e[3]))
                                     \o <<e[2]>> \o At(e[4], Row(e[2]) + 1)
              [] e[1] = "assign"  -> At(e[2], Row("?") + 1) \o <<"=">> \o At(e[3], Row("="))
              [] e[1] = "ternary" -> At(e[2], Row("?") + 1) \o Then(e[2]) \o <<"?">>
                                     \o (IF e[3] = <<"nil">> THEN <<>> ELSE Branch(e[3]))
                                     \o (IF e[4] = <<"nil">> THEN <<>> ELSE <<":">> \o Branch(e[4]))
              [] e[1] = "is"      -> At(e[2], Row("is")) \o <<"is">> \o Type(e[3])
              [] e[1] = "prefix"  -> <<e[2]>> \o At(e[3], PrefixRow)
              [] e[1] = "ref"     -> <<"ref">> \o At(e[2], PrefixRow)
              [] e[1] = "spread"  -> <<"...">> \o At(e[2], PrefixRow)
              [] isCallOf(e, "await") -> <<"await">> \o At(e[3][1], PrefixRow)
              [] isCallOf(e, "async") -> <<"async">> \o (IF isClosure(e[3][1]) THEN Block(e[3][1][4], lines)
                                                        ELSE X(e[3][1]))
              [] e[1] = "call" /\ ~isCallOf(e, "await") /\ ~isCallOf(e, "async")
                                  -> At(e[2], CallRow) \o Args(e[3])
              [] e[1] = "index"   -> At(e[2], CallRow) \o Then(e[2]) \o <<"[">>
                                     \o (IF e[3] = <<"nil">> THEN <<>> ELSE X(e[3])) \o <<"]">>
              [] e[1] = "member"  -> At(e[2], CallRow) \o Then(e[2]) \o <<"->", e[3]>>
              [] e[1] = "postfix" -> At(e[2], CallRow) \o <<"++">>
              [] e[1] = "named"   -> <<e[2], ":">> \o X(e[3])
              [] e[1] = "yield"   -> <<"yield">> \o (IF e[2] = <<"nil">> THEN <<>> ELSE At(e[2], 1) \o <<"=>">>)
                                     \o (IF e[3] = <<"nil">> THEN <<>> ELSE X(e[3]))
              [] e[1] = "array"   -> Listed("[", [i \in DOMAIN e[2] |-> X(e[2][i])], "]", lines)
              [] e[1] = "map"     -> IF e[2] = {} THEN <<"{", "}">> ELSE Listed("[", Pairs, "]", lines)
              [] e[1] = "match"   -> <<"match", "(">> \o X(e[2]) \o <<")">>
                                     \o Listed("{", [i \in DOMAIN e[3] |-> Arm(e[3][i])], "}", lines)
              [] e[1] = "func"    -> <<"func">> \o Parameters(e[2], lines) \o ReturnType(e[3]) \o Block(e[4], lines)
              [] e[1] = "new"     -> <<"new", e[2]>>
                                     \o (IF e[3] = <<>> THEN <<>>
                                         ELSE Angles([i \in DOMAIN e[3] |-> Type(e[3][i])]))
                                     \o Args(e[4])
              [] e[1] = "isset"   -> <<"isset">> \o Args(e[2])
              [] e[1] = "empty"   -> <<"empty", "(">> \o X(e[2]) \o <<")">>
    IN  IF RowOf(e) < row THEN <<"(">> \o text \o <<")">> ELSE text

TypeList(names)      == IF names = <<>> THEN <<>> ELSE <<"<">> \o Joined([i \in DOMAIN names |-> <<names[i]>>], <<",">>) \o <<">">>
NameList(word, names) == IF names = <<>> THEN <<>>
                         ELSE <<word>> \o Joined([i \in DOMAIN names |-> <<names[i]>>], <<",">>)
Optional(word, name) == IF name = "" THEN <<>> ELSE <<word, name>>

WrittenStatement(s, lines) ==
    LET nl      == IF lines THEN <<break>> ELSE <<>>
        end     == IF lines THEN <<break>> ELSE <<";">>
        X(e)    == Expression(e, 0, lines)
        B(b)    == Block(b, lines)
        All(ss) == FlattenSeq([i \in DOMAIN ss |-> Statement(ss[i], lines)])
        Declared(names) == Joined([i \in DOMAIN names |->
                                      <<"$", names[i][1]>> \o Valued(names[i][2], lines)], <<",">>)
        Method(m) == Marked(m[7]) \o <<"func", m[2]>> \o TypeList(m[3]) \o Parameters(m[4], lines)
                     \o ReturnType(m[5]) \o (IF m[6] = <<"nil">> THEN <<";">> \o nl ELSE B(m[6]) \o nl)
        Case(c)   == <<"case", c[1]>> \o Valued(c[2], lines) \o <<";">> \o nl
        Choice(c) == (IF c[1] = "case" THEN <<"case">> \o X(c[2][2]) ELSE <<"default">>)
                     \o <<":">> \o nl \o All(c[3])
        Braced(text) == <<"{">> \o nl \o text \o <<"}">> \o nl
    IN  CASE s[1] = "expr"    -> X(s[2]) \o (IF isCallOf(s[2], "async") THEN nl ELSE end)
          [] s[1] = "let"     -> Marked(s[5]) \o Type(s[2]) \o <<"$", s[3]>> \o Valued(s[4], lines) \o end
          [] s[1] = "lets"    -> Marked(s[4]) \o Type(s[2]) \o Declared(s[3]) \o end
          [] s[1] = "echo"    -> <<"echo">> \o X(s[2]) \o end
          [] s[1] = "throw"   -> <<"throw">> \o X(s[2]) \o end
          [] s[1] = "return"  -> <<"return">> \o (IF s[2] = <<"nil">> THEN <<";">> \o nl ELSE X(s[2]) \o end)
          [] s[1] \in {"break", "continue"} -> <<s[1]>> \o end
          [] s[1] = "defer"   -> <<"defer">> \o B(s[2]) \o nl
          [] s[1] = "while"   -> <<"while", "(">> \o X(s[2]) \o <<")">> \o B(s[3]) \o nl
          [] s[1] = "dowhile" -> <<"do">> \o B(s[2]) \o <<"while", "(">> \o X(s[3]) \o <<")">> \o end
          [] s[1] = "guard"   -> <<"guard">> \o nl \o <<"(">> \o X(s[2]) \o <<")">> \o nl \o <<"else">> \o nl
                                 \o B(s[3]) \o nl
          [] s[1] = "foreach" -> <<"foreach", "(">> \o X(s[2]) \o <<"as">>
                                 \o (IF s[3] = "" THEN <<>> ELSE <<"$", s[3], "=>">>) \o <<"$", s[4], ")">>
                                 \o B(s[5]) \o nl
          [] s[1] = "try"     -> <<"try">> \o B(s[2]) \o <<"catch", "(", "$", s[3], ")">> \o B(s[4]) \o nl
          [] s[1] = "destructure" -> <<"let", "(">> \o Joined([i \in DOMAIN s[2] |-> <<"$", s[2][i]>>], <<",">>)
                                 \o <<")", "=">> \o X(s[3]) \o end
          [] s[1] = "select"  -> <<"select">> \o Braced(FlattenSeq([i \in DOMAIN s[2] |-> Choice(s[2][i])]))
          [] s[1] = "extern"  -> <<"extern", s[2], "library", s[3]>> \o Braced(All(s[4]))
          [] s[1] = "method"  -> Method(s)
          [] s[1] = "init"    -> <<"Init">> \o (IF s[2] = "Init" THEN <<>> ELSE <<s[2]>>)
                                 \o Parameters(s[3], lines) \o B(s[4]) \o nl
          [] s[1] = "interface" -> Marked(s[5]) \o <<"interface", s[2]>> \o NameList("extends", s[3]) \o Braced(All(s[4]))
          [] s[1] = "enum"    -> Marked(s[5]) \o <<"enum", s[2]>> \o Optional(":", s[3])
                                 \o Braced(FlattenSeq([i \in DOMAIN s[4] |-> Case(s[4][i])]))
          [] s[1] = "class"   -> Marked(s[7]) \o <<"class", s[2]>> \o TypeList(s[3]) \o Optional("extends", s[4])
                                 \o NameList("implements", s[5]) \o Braced(All(s[6]))
          \* The constants and the initialiser of a record stand for its fields.
          [] s[1] = "record"  -> LET fields == Last(s[6])[4] IN
                                 Marked(s[7]) \o <<"record", s[2]>> \o TypeList(s[3]) \o Parameters(fields, lines)
                                 \o Braced(All(SubSeq(s[6], Len(fields) + 1, Len(s[6]) - 1)))

Written(kind, node, row, lines) ==
    IF kind = "expression" THEN WrittenExpression(node, row, lines) ELSE WrittenStatement(node, lines)

Text(program, lines) == FlattenSeq([i \in DOMAIN program |-> Statement(program[i], lines)])
=============================================================================
