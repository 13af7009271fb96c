---------------------------- MODULE JossLanguage ----------------------------
(***************************************************************************)
(* Texts for the parser: a program written after the documented grammar, in *)
(* one of two layouts, or tokens typed one after the other.  The parser     *)
(* reads whatever the text is at any moment, as the editor's server does    *)
(* while somebody types.                                                    *)
(***************************************************************************)
EXTENDS JossParser, JossGrammar

CONSTANTS
    Programs,       \* the programs of the instance, each a list of statements
    Edited,         \* those that are also edited after they were written
    Typed,          \* the tokens that are typed
    MaxTyped,       \* the length of a typed text
    Replacing       \* the tokens that replace one of a written text

VARIABLES
    program,        \* the program the text was written for, <<>> for a typed text
    text
langVars == <<program, text>>

LanguageInit == program = <<>> /\ text = <<>>

Write ==
    /\ text = <<>>
    /\ \E p \in Programs \cup Edited, lines \in BOOLEAN : program' = p /\ text' = Text(p, lines)

Append1 ==
    /\ program = <<>>
    /\ Len(text) < MaxTyped
    /\ \E token \in Typed : text' = Append(text, token)
    /\ UNCHANGED program

\* A text whose end is missing, or one token of it, or that has another one there.
Edit ==
    /\ program \in Edited
    /\ program' = <<>>
    /\ \E i \in DOMAIN text :
          \/ text' = SubSeq(text, 1, i - 1)
          \/ text' = RemoveAt(text, i)
          \/ \E token \in Replacing : text' = ReplaceAt(text, i, token)

LanguageNext == Write \/ Append1 \/ Edit
LanguageSpec == LanguageInit /\ [][LanguageNext]_langVars

-----------------------------------------------------------------------------
\* What a text means does not depend on parentheses the table does not ask for,
\* nor on where its lines are broken: of a text written for a program the
\* parser makes that program, without an issue (parser.go:30, the precedences;
\* parser_expressions.go:29, the line breaks).
WrittenIsRead(p) == program # <<>> => ~p.bad /\ ~p.hung /\ p.tree = program

\* The parser comes to the end of any text, however broken, but for the two
\* loops it does not leave: a member operator without a name after it
\* (parser_expressions.go:36) and a function without a name in an extern block
\* (parser_statements.go:1421).
Unnamed(i) ==
    \/ text[i] \in {"->", "::"} /\ i < Len(text) /\ ~isName(Kind(text[i + 1]))
    \/ /\ text[i] = "func" /\ (i = Len(text) \/ ~isName(Kind(text[i + 1])))
       /\ \E j \in 1 .. i : text[j] = "extern"
ParserEnds(p) == p.hung => \E i \in DOMAIN text : Unnamed(i)

\* Both, of every text: written programs are read as they were meant, and
\* broken ones are refused or repaired in finite time.
TextsAreRead == LET Judged(p) == WrittenIsRead(p) /\ ParserEnds(p) IN Judged(ParseProgram(text))
=============================================================================
