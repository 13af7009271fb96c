------------------------------ MODULE JossTyping ------------------------------
(***************************************************************************)
(* A program from its source to its end, as `joss run' takes it            *)
(* (src/cmd/joss/main.go): analysed, refused when the analysis reports an  *)
(* error, run otherwise.  It is run twice, with the fast paths of the      *)
(* evaluator and without them, to compare the two.                         *)
(***************************************************************************)
EXTENDS JossEvaluator, JossAnalyzer

CONSTANT Programs            \* families of programs: functions by name, "main" among them

VARIABLES
    program,
    stage,                   \* "written", "analyzed", "ran", "compared"
    verdict,                 \* what the analyzer says
    quick, plain             \* what the run printed, gave and raised
typingVars == <<program, stage, verdict, quick, plain>>

NotRun == [out |-> <<>>, v |-> NullV, err |-> <<>>, again |-> FALSE]
Seen(m) == [out |-> m.out, v |-> IF m.err = <<>> THEN m.v ELSE NullV, err |-> m.err,
            again |-> m.again]
Judgement(a) == [failed |-> a.failed, guessed |-> a.guessed, log |-> a.log]

TypingInit ==
    /\ \E family \in Programs : program \in family
    /\ stage = "written"
    /\ verdict = Judgement(Analysis(<<>>))
    /\ quick = NotRun /\ plain = NotRun

Analyze ==
    /\ stage = "written"
    /\ stage' = "analyzed"
    /\ verdict' = Judgement(AnalyzeProject(program))
    /\ UNCHANGED <<program, quick, plain>>

\* An analysis with an error ends the command.
RunProgram ==
    /\ stage = "analyzed" /\ ~verdict.failed
    /\ stage' = "ran"
    /\ quick' = Seen(Run(program, TRUE))
    /\ UNCHANGED <<program, verdict, plain>>

RunGenerally ==
    /\ stage = "ran"
    /\ stage' = "compared"
    /\ plain' = Seen(Run(program, FALSE))
    /\ UNCHANGED <<program, verdict, quick>>

TypingNext == Analyze \/ RunProgram \/ RunGenerally
TypingSpec == TypingInit /\ [][TypingNext]_typingVars


TypeErrors == {"TypeError", "ReturnTypeError", "UndefinedVariable", "UndefinedFunction",
               "ArityError", "ConstantAssignment"}
RaisedType(run) == run.err # <<>> /\ run.err[1] \in {"joss", "text"} /\ run.err[2] \in TypeErrors

\* A program the analyzer accepts without the benefit of the doubt never
\* raises an error of types, and every value it prints is of the type that was
\* inferred for it.
AcceptedRunsWell ==
    stage = "compared" /\ ~verdict.guessed =>
        /\ ~RaisedType(quick)
        /\ \A i \in DOMAIN quick.out, j \in DOMAIN verdict.log :
               quick.out[i][1] = verdict.log[j][1] => checkParsedType(quick.out[i][2], verdict.log[j][2])
=============================================================================
