----------------------------- MODULE JossCompiler -----------------------------
(***************************************************************************)
(* joss build: a program is lowered, goes through the passes of the        *)
(* optimizer in their order, and is laid out as machine code.  What it     *)
(* means must not change on the way.                                       *)
(***************************************************************************)
EXTENDS JossMachine

CONSTANT Programs       \* the programs that may be compiled

VARIABLES
    source,     \* the program
    stage,      \* the pass it last went through
    ir          \* Program.Functions: what that pass left

vars == <<source, stage, ir>>

Init ==
    /\ source \in Programs
    /\ stage = "source"
    /\ ir = NoMap

Pass(from, to, functions) ==
    /\ stage = from
    /\ stage' = to
    /\ ir' = functions
    /\ UNCHANGED source

LowerProgram == Pass("source", "lowered", Lower(source))

InlineLeafFunctions ==
    Pass("lowered", "inlined",
         [f \in DOMAIN ir |-> InlineInFunction(ir, ir[f])])

ForwardLocalLoads == Pass("inlined", "forwarded", [f \in DOMAIN ir |-> Forward(ir[f])])

\* The blocks of a loop are walked in any of the rotations of their order.
HoistLoopInvariantLoads ==
    /\ stage = "forwarded"
    /\ \E n \in DOMAIN ir["main"].list :
        Pass("forwarded", "hoisted", [f \in DOMAIN ir |-> Hoist(ir[f], Rotation(ir[f], n))])

EliminateDeadAllocasAndStores ==
    Pass("hoisted", "pruned", [f \in DOMAIN ir |-> EliminateDead(ir[f])])

FoldConstants == Pass("pruned", "folded", [f \in DOMAIN ir |-> Fold(ir[f])])

Next ==
    \/ LowerProgram
    \/ InlineLeafFunctions
    \/ ForwardLocalLoads
    \/ HoistLoopInvariantLoads
    \/ EliminateDeadAllocasAndStores
    \/ FoldConstants

Spec == Init /\ [][Next]_vars

-----------------------------------------------------------------------------
\* What lowering builds and every pass keeps: blocks that the verifier accepts,
\* the entry first, each block listed or kept by one try, every temporary that
\* is used among those that were made and defined by at most one instruction.
Nested(F)  == UNION {{i.try, i.catch} : i \in UNION {{j \in ToSet(Insts(F, b)) : j.op = "try"} : b \in DOMAIN F.blk}}
Defined(F) == FlattenSeq([b \in DOMAIN F.blk |-> [k \in DOMAIN Insts(F, b) |-> Insts(F, b)[k].d]])

WellFormed(F) ==
    /\ verifyFunction(F)
    /\ Head(F.list) = Entry
    /\ DOMAIN F.blk = ToSet(F.list) \cup UNION {ToSet(list) : list \in Nested(F)}
    /\ \A t \in ToSet(Defined(F)) \ {0} : t \in 1..F.temps /\ Occurs(Defined(F), t) = 1

\* A run of the machine prints what the interpreter prints, ends as it ends, and
\* leaves no handler behind.
Means(run) ==
    LET m == Meaning(source)
    IN  /\ run.ended
        /\ run.out = m.out
        /\ run.failed = m.failed
        /\ run.handlers = 0

\* Every pass keeps the meaning of the program, in whatever order it walks the
\* blocks of a loop: the code it leaves, run with a slot for every temporary,
\* does what the interpreter does, and the code stays well formed.
PassesPreserve ==
    stage # "source" => Means(Execute(ir, OwnSlots)) /\ \A f \in DOMAIN ir : WellFormed(ir[f])

\* A temporary that was loaded is not looked at after its slot was stored to
\* again, going by the order of the code.
AliasSafe(F) ==
    LET code == FlattenSeq([k \in DOMAIN F.list |->
                    Insts(F, F.list[k]) \o <<Inst("end", 0, <<F.blk[F.list[k]].term.v>>)>>])
    IN  \A k, j, n \in DOMAIN code :
            (k < j /\ j < n /\ code[k].op = "load" /\ code[j].op = "store" /\ code[j].a[2] = code[k].a[1])
            => Occurs(code[n].a, Temp(code[k].d)) = 0

\* Where that holds, the slots that the back end lets temporaries share do not
\* change what the program does.
SlotsPreserve ==
    (stage # "source" /\ \A f \in DOMAIN ir : AliasSafe(ir[f]))
        => Means(Execute(ir, NativeSlots))

\* The executable does what the interpreter does with the same program.
NativeIsInterpreter == stage = "folded" => Means(Execute(ir, NativeSlots))
=============================================================================
