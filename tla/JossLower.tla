------------------------------ MODULE JossLower ------------------------------
(***************************************************************************)
(* Lowering (pkg/ir/lower.go): a function of the source becomes basic      *)
(* blocks of instructions over numbered temporaries, every variable a slot *)
(* of its own that is stored to and loaded from.                           *)
(*                                                                         *)
(* A block is known by its number; `list' is fn.Blocks, the blocks of the  *)
(* function in the order they were made, from which the blocks of a try    *)
(* are cut out again to be kept by its instruction.                        *)
(***************************************************************************)
EXTENDS JossSource, FiniteSets

\* Operands: a constant, a temporary, the parameter.
Const(n) == <<"int", n>>
Temp(t)  == <<"temp", t>>
Param    == <<"param", 0>>

\* Instructions: an operation, the temporary it defines (0: none), operands.
Inst(op, d, a) == [op |-> op, d |-> d, a |-> a]
Load(d, ptr)   == Inst("load", d, <<Temp(ptr)>>)
Store(v, ptr)  == Inst("store", 0, <<v, Temp(ptr)>>)
Move(d, v)     == Inst("move", d, <<v>>)

\* Terminators: a kind, the operand it looks at, the blocks it may go to.
NoTerm         == [k |-> "none", v |-> Const(0), to |-> <<>>]
Jump(b)        == [NoTerm EXCEPT !.k = "jump", !.to = <<b>>]
Branch(v, t, f) == [k |-> "branch", v |-> v, to |-> <<t, f>>]
Ret(v)         == [NoTerm EXCEPT !.k = "return", !.v = v]
Unreachable    == [NoTerm EXCEPT !.k = "unreachable"]

Entry == 1
EmptyBlock == [insts |-> <<>>, term |-> NoTerm]

\* Lowerer: the function being built, the block that is open, the slot of every
\* variable (0: none yet) and the enclosing loops.
NewFunction == [blk |-> <<EmptyBlock>>, list |-> <<Entry>>, temps |-> 0, tries |-> 0,
                cur |-> Entry, locals |-> [x \in Names |-> 0], loops |-> <<>>]

NewBlock(c)     == [c EXCEPT !.blk = Append(@, EmptyBlock), !.list = Append(@, Len(c.blk) + 1)]
NextBlock(c)    == Len(c.blk) + 1
NewBlocks(c, n) == FoldLeft(LAMBDA a, k : NewBlock(a), c, [k \in 1..n |-> k])
NewTemp(c)      == [c EXCEPT !.temps = @ + 1]
AddTo(c, b, i)  == [c EXCEPT !.blk[b].insts = Append(@, i)]
Add(c, i)       == AddTo(c, c.cur, i)
Open(c, b)      == [c EXCEPT !.cur = b]
SetTerminator(c, b, t) == [c EXCEPT !.blk[b].term = t]
\* End the open block with t, unless something else already ended it.
Close(c, t)     == IF c.blk[c.cur].term.k = "none" THEN SetTerminator(c, c.cur, t) ELSE c
\* Go on in a block nothing leads to, for the dead code that may follow.
Dead(c)         == LET n == NewBlock(c) IN Open(n, Len(n.blk))
Leaving(c, t)   == Dead(SetTerminator(c, c.cur, t))

\* A lowered expression: the lowerer, the operand that holds the value, and
\* whether its type is bool.
Val(c, v, bool) == [c |-> c, v |-> v, bool |-> bool]
Fresh(c, op, a, bool) ==
    LET n == NewTemp(c) IN Val(Add(n, Inst(op, n.temps, a)), Temp(n.temps), bool)

ensureBoolCond(r) == IF r.bool THEN r ELSE Fresh(r.c, "is_truthy", <<r.v>>, TRUE)

\* A new slot, in block b: AllocaInst, then StoreInst in the open block.
Declare(c, b, x, v) ==
    LET n == NewTemp(c)
    IN  [Add(AddTo(n, b, Inst("alloca", n.temps, <<>>)), Store(v, n.temps))
           EXCEPT !.locals[x] = n.temps]

RECURSIVE lowerExpression(_, _), lowerStatement(_, _)

lowerBlock(c, block) == FoldLeft(LAMBDA a, s : lowerStatement(a, s), c, block)

lowerCondition(c, e) == ensureBoolCond(lowerExpression(c, e))

\* Both sides are evaluated, in order, whatever the operator.
lowerInfix(c, e) ==
    LET l == lowerExpression(c, e.l)
        r == lowerExpression(l.c, e.r)
    IN  Fresh(r.c, e.e, <<l.v, r.v>>, e.e # "add")

lowerPostfix(c, e) ==
    LET old == Fresh(c, "load", <<Temp(c.locals[e.x])>>, FALSE)
        new == Fresh(old.c, "add", <<old.v, Const(1)>>, FALSE)
    IN  Val(Add(new.c, Store(new.v, c.locals[e.x])), old.v, FALSE)

lowerAssign(c, e) ==
    LET r == lowerExpression(c, e.r)
    IN  Val(IF r.c.locals[e.x] # 0 THEN Add(r.c, Store(r.v, r.c.locals[e.x]))
            ELSE Declare(r.c, Entry, e.x, r.v), r.v, r.bool)

\* n blocks are made and the open one goes to the first or the second of them.
Split(cond, n) ==
    LET b == NewBlocks(cond.c, n)
    IN  SetTerminator(b, b.cur, Branch(cond.v, NextBlock(cond.c), NextBlock(cond.c) + 1))

\* A ternary that is used for its value: both branches store to one slot that
\* the entry block allocates, and the block where they meet loads it.
TernaryJoin(t, e, true) ==
    LET res == t.c.temps + 1     ptr == res + 1     merge == true + 2
        s1  == AddTo([t.c EXCEPT !.temps = ptr], Entry, Inst("alloca", ptr, <<>>))
        f   == lowerExpression(Open(Close(Add(s1, Store(t.v, ptr)), Jump(merge)), true + 1), e.r)
        s2  == Close(Add(f.c, Store(f.v, ptr)), Jump(merge))
    IN  Val(Add(Open(s2, merge), Load(res, ptr)), Temp(res), t.bool)

TernaryValue(cond, e) ==
    LET true == NextBlock(cond.c)
    IN  TernaryJoin(lowerExpression(Open(Split(cond, 3), true), e.l), e, true)

lowerTernary(c, e) == TernaryValue(lowerCondition(c, e.c), e)

lowerExpression(c, e) ==
    CASE e.e \in {"lit", "nil"} -> Val(c, Const(IF e.e = "lit" THEN e.v ELSE 0), FALSE)
      [] e.e = "var"     -> Fresh(c, "load", <<Temp(c.locals[e.x])>>, FALSE)
      [] e.e = "inc"     -> lowerPostfix(c, e)
      [] e.e = "assign"  -> lowerAssign(c, e)
      [] e.e = "call"    -> LET a == lowerExpression(c, e.a)
                            IN  Val(Add(NewTemp(a.c), Inst("call", a.c.temps + 1, <<a.v>>) @@ [f |-> e.f]),
                                    Temp(a.c.temps + 1), FALSE)
      [] e.e = "ternary" -> lowerTernary(c, e)
      [] e.e = "block"   -> Val(lowerBlock(c, e.body), Const(0), FALSE)
      [] OTHER           -> lowerInfix(c, e)

\* A ternary whose value is not used; a missing branch leads straight to where
\* the branches meet, which is made before the block of the second branch.
TernaryBranches(cond, e) ==
    LET true  == NextBlock(cond.c)   merge == true + 1
        other == IF e.r = Nil THEN merge ELSE true + 2
        n     == NewBlocks(cond.c, IF e.r = Nil THEN 2 ELSE 3)
        t     == lowerExpression(Open(SetTerminator(n, n.cur, Branch(cond.v, true, other)), true), e.l).c
        f     == Open(Close(t, Jump(merge)), other)
    IN  IF e.r = Nil THEN f ELSE Open(Close(lowerExpression(f, e.r).c, Jump(merge)), merge)

lowerTernaryStatement(c, e) == TernaryBranches(lowerCondition(c, e.c), e)

ReturnSecond(t, e, other) ==
    LET f == lowerExpression(Open(Close(t.c, Ret(t.v)), other), e.r) IN Dead(Close(f.c, Ret(f.v)))

ReturnBranches(cond, e) ==
    LET true == NextBlock(cond.c)
    IN  ReturnSecond(lowerExpression(Open(Split(cond, 2), true), e.l), e, true + 1)

lowerReturnTernary(c, e) == ReturnBranches(lowerCondition(c, e.c), e)

lowerReturn(c, e) ==
    IF e.e = "ternary" THEN lowerReturnTernary(c, e)
    ELSE LET r == lowerExpression(c, e) IN Leaving(r.c, Ret(r.v))

\* The block of the failure ends where it ends; a guard goes on in the other.
GuardBlocks(cond, s) ==
    LET pass == NextBlock(cond.c)
    IN  Open(Close(lowerBlock(Open(Split(cond, 2), pass + 1), s.body), Unreachable), pass)

lowerGuard(c, s) == GuardBlocks(lowerCondition(c, s.c), s)

\* The branch of a loop's condition is set on the block where the condition
\* starts.
LoopTest(r, cond, body, after) == SetTerminator(r.c, cond, Branch(r.v, body, after))
LoopBody(b, cond)     == [Close(b, Jump(cond)) EXCEPT !.loops = Front(@)]

lowerLoop(c, s) ==
    LET first == NextBlock(c)
        cond  == IF s.s = "while" THEN first ELSE first + 1
        body  == IF s.s = "while" THEN first + 1 ELSE first
        after == first + 2
        n     == SetTerminator(NewBlocks(c, 3), c.cur, Jump(first))
        Test(a) == LoopTest(lowerCondition(Open(a, cond), s.c), cond, body, after)
        Body(a) == LoopBody(lowerBlock([Open(a, body) EXCEPT
                               !.loops = Append(@, [cont |-> cond, brk |-> after])], s.body), cond)
    IN  Open(IF s.s = "while" THEN Body(Test(n)) ELSE Test(Body(n)), after)

\* The blocks of the body and of the handler are cut out of the function and
\* kept by the instruction, which the block that was open receives.
TryInst(c, s, b, h, start, ptr) ==
    LET try   == SubSeq(b.list, start + 1, Len(b.list))
        catch == SubSeq(h.list, start + 1, Len(h.list))
        done  == Add([h EXCEPT !.list = SubSeq(@, 1, start), !.cur = c.cur],
                     Inst("try", 0, <<>>) @@ [id |-> c.tries, ptr |-> ptr, try |-> try, catch |-> catch])
    IN  IF done.blk[Last(try)].term.k = "return" /\ done.blk[Last(catch)].term.k = "return"
        THEN Leaving(done, Unreachable) ELSE done

CatchBody(c, s, b, start) ==
    LET cut == NewTemp([b EXCEPT !.list = SubSeq(@, 1, start)])
        ptr == cut.temps
        m   == NewBlock([AddTo(cut, Entry, Inst("alloca", ptr, <<>>)) EXCEPT !.locals[s.x] = ptr])
    IN  TryInst(c, s, b, lowerBlock(Open(m, Len(m.blk)), s.handler), start, ptr)

lowerTryCatch(c, s) ==
    LET n == NewBlock([c EXCEPT !.tries = @ + 1])
    IN  CatchBody(c, s, lowerBlock(Open(n, Len(n.blk)), s.body), Len(c.list))

lowerStatement(c, s) ==
    CASE s.s = "let"      -> LET r == lowerExpression(c, s.r) IN Declare(r.c, r.c.cur, s.x, r.v)
      [] s.s = "expr"     -> IF s.r.e = "ternary" THEN lowerTernaryStatement(c, s.r)
                             ELSE lowerExpression(c, s.r).c
      [] s.s = "return"   -> lowerReturn(c, s.r)
      [] s.s = "guard"    -> lowerGuard(c, s)
      [] s.s \in {"while", "dowhile"} -> lowerLoop(c, s)
      [] s.s = "break"    -> Leaving(c, Jump(Last(c.loops).brk))
      [] s.s = "continue" -> Leaving(c, Jump(Last(c.loops).cont))
      [] s.s = "throw"    -> LET r == lowerExpression(c, s.r)
                             IN  Leaving(Add(r.c, Inst("throw", 0, <<r.v>>)), Unreachable)
      [] s.s = "try"      -> lowerTryCatch(c, s)
      [] OTHER            -> LET r == lowerExpression(c, s.r) IN Add(r.c, Inst("print", 0, <<r.v>>))

\* The part of the lowerer that is the function: what the passes work on.
Function(c) == [blk |-> c.blk, list |-> c.list, temps |-> c.temps]

\* A function stores its parameter to a slot first, and returns 0 where its
\* body ends.
lowerMethod(m) ==
    Function(Close(lowerBlock(Declare(NewFunction, Entry, m.par, Param), m.body), Ret(Const(0))))

synthesizeMainFunction(program) ==
    Function(Close(lowerBlock(NewFunction, program), Ret(Const(0))))

Lower(program) ==
    [f \in DOMAIN Methods \cup {"main"} |->
        IF f = "main" THEN synthesizeMainFunction(program) ELSE lowerMethod(Methods[f])]

(***************************************************************************)
(* The verifier (pkg/ir/verifier.go), as far as a function of integers can *)
(* fail it: every block of the list ends in something, and goes to blocks  *)
(* that exist.                                                             *)
(***************************************************************************)
verifyFunction(F) ==
    \A k \in 1..Len(F.list) :
        LET t == F.blk[F.list[k]].term
        IN  /\ t.k # "none"
            /\ ToSet(t.to) \subseteq DOMAIN F.blk
=============================================================================
