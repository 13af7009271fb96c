----------------------------- MODULE JossMachine -----------------------------
(***************************************************************************)
(* The native back end (pkg/backend/native/machine_code_x86_64.go): how    *)
(* the blocks of a function become one line of code, which slot of the     *)
(* frame a temporary gets, and what the machine then does.  The registers  *)
(* between two instructions are left out.                                  *)
(***************************************************************************)
EXTENDS JossOptimizer

CONSTANT Fuel           \* steps after which a run is given up

Garbage == 77           \* what a slot of a new frame holds

(***************************************************************************)
(* Layout: the blocks follow each other as they are listed, those of a try *)
(* where the try stands; a block that ends in nothing, or in Unreachable,  *)
(* goes on in what comes after it.                                         *)
(***************************************************************************)
Item(op)      == Inst(op, 0, <<>>)
Label(l)      == Item("label") @@ [l |-> l]
Jmp(l)        == Item("jmp") @@ [l |-> l]

EmitTerminator(t, depth) ==
    CASE t.k = "return" -> <<Inst("ret", 0, <<t.v>>) @@ [n |-> depth]>>
      [] t.k = "jump"   -> <<Jmp(<<"block", t.to[1]>>)>>
      [] t.k = "branch" -> <<Inst("jne", 0, <<t.v>>) @@ [l |-> <<"block", t.to[1]>>],
                             Jmp(<<"block", t.to[2]>>)>>
      [] OTHER          -> <<>>

RECURSIVE EmitBlocks(_, _, _)

\* The address of the handler is pushed before the body and popped after it;
\* one that is taken has been popped by the throw.
EmitTryCatch(F, i, depth) ==
    <<Item("push") @@ [l |-> <<"catch", i.id>>]>>
      \o EmitBlocks(F, i.try, depth + 1)
      \o <<Item("pop"), Jmp(<<"end", i.id>>),
           Label(<<"catch", i.id>>), Inst("caught", 0, <<Temp(i.ptr)>>)>>
      \o EmitBlocks(F, i.catch, depth)
      \o <<Label(<<"end", i.id>>)>>

EmitBlocks(F, list, depth) ==
    FlattenSeq([k \in DOMAIN list |->
        <<Label(<<"block", list[k]>>)>>
          \o FlattenSeq([j \in DOMAIN Insts(F, list[k]) |->
                LET i == Insts(F, list[k])[j]
                IN  IF i.op = "try" THEN EmitTryCatch(F, i, depth) ELSE <<i>>])
          \o EmitTerminator(F.blk[list[k]].term, depth)])

\* The default epilogue follows the last block.
Code(F) == Append(EmitBlocks(F, F.list, 0), Inst("ret", 0, <<Const(0)>>) @@ [n |-> 0])

(***************************************************************************)
(* Slots.  Every temporary has one; the result of a load shares the slot   *)
(* it was loaded from, and a temporary whose one use is a store right      *)
(* after it is made shares the slot it is stored to.                       *)
(***************************************************************************)
AliasLoads(F, slots) ==
    LET Alias(s, i)  == IF i.op = "load" THEN [s EXCEPT ![i.d] = s[i.a[1][2]]] ELSE s
        Block(s, b)  == FoldLeft(Alias, s, Insts(F, b))
    IN  FoldLeft(Block, slots, F.list)

Occurs(seq, x) == Cardinality({k \in DOMAIN seq : seq[k] = x})

\* MUTANT: a temporary that is stored and used elsewhere counts as used once.
UseCountStores(F, t) == 1

UseCount(F, t) ==
    LET InInsts(insts) == FoldLeft(LAMBDA n, i : n + Occurs(i.a, Temp(t)), 0, insts)
        InTerm(term)   == IF term.k \in {"branch", "return"} /\ term.v = Temp(t) THEN 1 ELSE 0
    IN  FoldLeft(LAMBDA n, b : n + InInsts(Insts(F, b)) + InTerm(F.blk[b].term), 0, F.list)

AliasStores(F, slots) ==
    LET Alias(s, b) ==
          FoldLeft(LAMBDA u, k :
              LET insts == Insts(F, b)
                  i     == insts[k]
                  next  == insts[k + 1]
              IN  IF i.d # 0 /\ next.op = "store" /\ next.a[1] = Temp(i.d) /\ UseCount(F, i.d) = 1
                  THEN [u EXCEPT ![i.d] = u[next.a[2][2]]] ELSE u,
              s, [k \in 1..(Len(Insts(F, b)) - 1) |-> k])
    IN  FoldLeft(Alias, slots, F.list)

OwnSlots(F)    == Table([t \in 1..F.temps |-> t])
NativeSlots(F) == AliasStores(F, AliasLoads(F, OwnSlots(F)))

(***************************************************************************)
(* The machine: a stack of frames and the stack of handlers that is global *)
(* to the process.  A frame stays at the call it waits for.                *)
(***************************************************************************)
Frame(x, f, arg) ==
    [f |-> f, pc |-> 1, arg |-> arg, mem |-> Table([t \in DOMAIN x[f].slot |-> Garbage])]

Top(m)        == Last(m.stack)
SetTop(m, f)  == [m EXCEPT !.stack = Append(Front(@), f)]
Advance(m)    == SetTop(m, [Top(m) EXCEPT !.pc = @ + 1])
Target(x, f, l) == CHOOSE k \in DOMAIN x[f].code : x[f].code[k].op = "label" /\ x[f].code[k].l = l
Goto(x, m, l) == SetTop(m, [Top(m) EXCEPT !.pc = Target(x, Top(m).f, l)])

ValueOf(x, m, o) ==
    CASE o[1] = "int"   -> o[2]
      [] o[1] = "param" -> Top(m).arg
      [] OTHER          -> Top(m).mem[x[Top(m).f].slot[o[2]]]

\* Write a value to the slot of a temporary, and go on.
Put(x, m, t, v) == Advance(SetTop(m, [Top(m) EXCEPT !.mem[x[Top(m).f].slot[t]] = v]))

\* __joss_rt_throw: back to the frame and the address of the last handler.
ThrowTo(x, m, v) ==
    IF m.handlers = <<>> THEN [m EXCEPT !.status = "panic"]
    ELSE LET h == Last(m.handlers)
         IN  Goto(x, [m EXCEPT !.handlers = Front(@), !.exc = v,
                               !.stack = SubSeq(@, 1, h.height)], h.l)

\* A return takes the handlers of the tries it leaves with it.
ReturnFrom(x, m, i) ==
    LET v == ValueOf(x, m, i.a[1])
        r == [m EXCEPT !.stack = Front(@), !.handlers = SubSeq(@, 1, Len(@) - i.n)]
    IN  IF r.stack = <<>> THEN [r EXCEPT !.status = "exit"]
        ELSE Put(x, r, x[Top(r).f].code[Top(r).pc].d, v)

Step(x, m) ==
    LET i      == x[Top(m).f].code[Top(m).pc]
        arg(k) == ValueOf(x, m, i.a[k])
    IN  CASE i.op = "alloca" -> Put(x, m, i.d, 0)
          [] i.op \in {"load", "move"} -> Put(x, m, i.d, arg(1))
          [] i.op = "store"  -> Put(x, m, i.a[2][2], arg(1))
          [] i.op = "add"    -> Put(x, m, i.d, arg(1) + arg(2))
          [] i.op = "less"   -> Put(x, m, i.d, Truth(arg(1) < arg(2)))
          [] i.op = "and"    -> Put(x, m, i.d, Truth(arg(1) = 1 /\ arg(2) = 1))
          [] i.op = "is_truthy" -> Put(x, m, i.d, Truth(isTruthy(arg(1))))
          [] i.op = "print"  -> Advance([m EXCEPT !.out = Append(@, arg(1))])
          [] i.op = "call"   -> [m EXCEPT !.stack = Append(@, Frame(x, i.f, arg(1)))]
          [] i.op = "ret"    -> ReturnFrom(x, m, i)
          [] i.op = "throw"  -> ThrowTo(x, m, arg(1))
          [] i.op = "caught" -> Put(x, m, i.a[1][2], m.exc)
          [] i.op = "push"   -> Advance([m EXCEPT !.handlers = Append(@, [height |-> Len(m.stack), l |-> i.l])])
          [] i.op = "pop"    -> Advance([m EXCEPT !.handlers = Front(@)])
          [] i.op = "jmp"    -> Goto(x, m, i.l)
          [] i.op = "jne"    -> IF arg(1) # 0 THEN Goto(x, m, i.l) ELSE Advance(m)
          [] OTHER           -> Advance(m)

RECURSIVE RunFrom(_, _, _)
RunFrom(x, m, n) == IF n = 0 \/ m.status # "running" THEN m ELSE RunFrom(x, Step(x, m), n - 1)

\* What the machine makes of a program, when Slots gives the temporaries their
\* slots: its output, and whether it ends in the panic of an uncaught exception.
Execute(ir, Slots(_)) ==
    LET x == Table([f \in DOMAIN ir |-> [code |-> Code(ir[f]), slot |-> Slots(ir[f])]])
        m == RunFrom(x, [stack |-> <<Frame(x, "main", 0)>>, handlers |-> <<>>, exc |-> 0,
                         out |-> <<>>, status |-> "running"], Fuel)
    IN  [out |-> m.out, failed |-> m.status = "panic", ended |-> m.status # "running",
         handlers |-> Len(m.handlers)]
=============================================================================
