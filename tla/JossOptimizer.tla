---------------------------- MODULE JossOptimizer ----------------------------
(***************************************************************************)
(* The passes of the optimizer (pkg/ir/optimizer.go), each a function from *)
(* what lowering builds to what the next pass receives.  They walk         *)
(* fn.Blocks: except for EliminateDead they do not look into the blocks of *)
(* a try.                                                                  *)
(***************************************************************************)
EXTENDS JossLower

NoMap == <<>>       \* the function with an empty domain

Insts(F, b)    == F.blk[b].insts
Succ(F, b)     == F.blk[b].term.to
\* The value of a map at an operand, which stays itself where it has none.
Remap(map, o)  == IF o \in DOMAIN map THEN map[o] ELSE o
WithInsts(F, b, insts) == [F EXCEPT !.blk[b].insts = insts]
\* Every listed block's instructions rewritten, one instruction for one.
Rewrite(F, R(_)) ==
    [F EXCEPT !.blk = [b \in DOMAIN @ |->
        IF b \in ToSet(F.list)
        THEN [@[b] EXCEPT !.insts = [k \in DOMAIN @ |-> R(@[k])]] ELSE @[b]]]

(***************************************************************************)
(* Pass 1: a call of a function of one block of plain instructions becomes *)
(* a copy of them, over temporaries of the caller.                         *)
(***************************************************************************)
MaxInlined == 30
Inlinable  == {"alloca", "store", "load", "move", "add", "less", "and"}

IsLeaf(F) ==
    /\ Len(F.list) = 1
    /\ F.blk[Entry].term.k = "return"
    /\ Len(Insts(F, Entry)) <= MaxInlined
    /\ \A k \in DOMAIN Insts(F, Entry) : Insts(F, Entry)[k].op \in Inlinable

\* One instruction copied: its operands mapped, what it defines made fresh.
CloneInstructionWithRemap(a, i) ==
    LET args == [k \in DOMAIN i.a |-> Remap(a.map, i.a[k])]
        t    == a.temps + 1
    IN  IF i.d = 0 THEN [a EXCEPT !.out = Append(@, [i EXCEPT !.a = args])]
        ELSE [out   |-> Append(a.out, [i EXCEPT !.d = t, !.a = args]),
              temps |-> t,
              map   |-> (Temp(i.d) :> Temp(t)) @@ a.map]

InlineCall(a, call, G) ==
    LET body == FoldLeft(CloneInstructionWithRemap,
                         [out |-> a.out, temps |-> a.temps, map |-> Param :> call.a[1]],
                         Insts(G, Entry))
    IN  [body EXCEPT !.out = Append(@, Move(call.d, Remap(body.map, G.blk[Entry].term.v)))]

InlineInFunction(ir, F) ==
    LET Inst1(a, i) == IF i.op = "call" /\ IsLeaf(ir[i.f]) THEN InlineCall(a, i, ir[i.f])
                       ELSE [a EXCEPT !.out = Append(@, i)]
        Block(G, b) == LET r == FoldLeft(Inst1, [out |-> <<>>, temps |-> G.temps, map |-> NoMap],
                                         Insts(G, b))
                       IN  [WithInsts(G, b, r.out) EXCEPT !.temps = r.temps]
    IN  FoldLeft(Block, F, F.list)

(***************************************************************************)
(* Pass 2: a load of a slot whose value is at hand becomes a move of it.   *)
(* A block starts with what its only predecessor ends with, if that one    *)
(* was walked before.  A try and a call leave what is at hand as it is.    *)
(***************************************************************************)
\* The edges into a block: <<from, which of its successors>>.
EdgesInto(F, b) ==
    {<<p, n>> \in ToSet(F.list) \X {1, 2} : n \in DOMAIN Succ(F, p) /\ Succ(F, p)[n] = b}

\* MUTANT: the value that was at hand stays when the slot is stored to.
ForwardStale(a, i) ==
    CASE i.op = "store" -> [avail |-> a.avail @@ (i.a[2] :> i.a[1]), out |-> Append(a.out, i)]
      [] i.op = "load" /\ i.a[1] \in DOMAIN a.avail ->
             [a EXCEPT !.out = Append(@, Move(i.d, a.avail[i.a[1]]))]
      [] i.op = "load" -> [avail |-> (i.a[1] :> Temp(i.d)) @@ a.avail, out |-> Append(a.out, i)]
      [] OTHER -> [a EXCEPT !.out = Append(@, i)]

ForwardInst(a, i) ==
    CASE i.op = "store" -> [avail |-> (i.a[2] :> i.a[1]) @@ a.avail, out |-> Append(a.out, i)]
      [] i.op = "load" /\ i.a[1] \in DOMAIN a.avail ->
             [a EXCEPT !.out = Append(@, Move(i.d, a.avail[i.a[1]]))]
      [] i.op = "load" -> [avail |-> (i.a[1] :> Temp(i.d)) @@ a.avail, out |-> Append(a.out, i)]
      [] OTHER -> [a EXCEPT !.out = Append(@, i)]

Forward(F) ==
    LET Block(a, b) ==
          LET from  == {e[1] : e \in EdgesInto(F, b)}
              start == IF Cardinality(EdgesInto(F, b)) = 1 /\ from \subseteq DOMAIN a.outs
                       THEN a.outs[CHOOSE p \in from : TRUE] ELSE NoMap
              r     == FoldLeft(ForwardInst, [avail |-> start, out |-> <<>>], Insts(F, b))
          IN  [F |-> WithInsts(a.F, b, r.out), outs |-> (b :> r.avail) @@ a.outs]
    IN  FoldLeft(Block, [F |-> F, outs |-> NoMap], F.list).F

(***************************************************************************)
(* Pass 3: a load, in a loop, of a slot that the blocks of the loop do not *)
(* store to moves to the end of the block the loop is entered from.        *)
(***************************************************************************)
\* Whether `from' reaches `to' without going through `avoid' (0: nothing).
CanReachWithout(F, from, to, avoid) ==
    LET grow[n \in 0..Len(F.blk)] ==
          IF n = 0 THEN {from}
          ELSE grow[n-1] \cup (UNION {ToSet(Succ(F, p)) : p \in grow[n-1]} \ {avoid})
    IN  \E p \in grow[Len(F.blk)] : to \in ToSet(Succ(F, p))

IsBackEdge(F, b, hdr) == b # Entry /\ ~CanReachWithout(F, Entry, b, hdr)

NaturalLoop(F, hdr, back, pre) ==
    {hdr} \cup back \cup
    {b \in ToSet(F.list) \ {pre} : CanReachWithout(F, hdr, b, pre) /\ CanReachWithout(F, b, hdr, pre)}

StoredPtrs(F, blocks) ==
    UNION {{i.a[2] : i \in {j \in ToSet(Insts(F, b)) : j.op = "store"}} : b \in blocks}

\* The blocks of the loop are a Go map: `order' is the order it gives them in.
\* The first load of a slot moves, later ones become moves of its result.
HoistFrom(F, hdr, order) ==
    LET preds == SelectSeq(F.list, LAMBDA b : hdr \in ToSet(Succ(F, b)))
        back  == {b \in ToSet(preds) : IsBackEdge(F, b, hdr)}
        outer == SelectSeq(preds, LAMBDA b : b \notin back)
        pre   == Head(outer)
        loop  == NaturalLoop(F, hdr, back, pre)
        kept  == StoredPtrs(F, loop)
        Inst1(a, i) ==
          CASE i.op # "load" \/ i.a[1] \in kept -> [a EXCEPT !.out = Append(@, i)]
            [] i.a[1] \in DOMAIN a.hoisted -> [a EXCEPT !.out = Append(@, Move(i.d, a.hoisted[i.a[1]]))]
            [] OTHER -> [a EXCEPT !.hoisted = (i.a[1] :> Temp(i.d)) @@ @, !.moved = Append(@, i)]
        Block(a, b) ==
          LET r == FoldLeft(Inst1, [a EXCEPT !.out = <<>>], Insts(F, b))
          IN  [r EXCEPT !.F = WithInsts(@, b, r.out)]
        done  == FoldLeft(Block, [F |-> F, hoisted |-> NoMap, moved |-> <<>>, out |-> <<>>],
                          SelectSeq(order, LAMBDA b : b \in loop))
    IN  IF back = {} \/ outer = <<>> THEN F
        ELSE [done.F EXCEPT !.blk[pre].insts = @ \o done.moved]

Hoist(F, order) == FoldLeft(LAMBDA G, hdr : HoistFrom(G, hdr, order), F, F.list)

\* Some of the orders a map of blocks may be walked in: the n-th block first, the
\* others after it as they were made.
Rotation(F, n) == [k \in DOMAIN F.list |-> F.list[1 + ((k + n) % Len(F.list))]]

(***************************************************************************)
(* Pass 4: slots that nothing loads go, with the stores to them; here the  *)
(* blocks of a try count, all blocks being listed or in one.               *)
(***************************************************************************)
LoadedPtrs(F) ==
    UNION {UNION {CASE i.op = "load" -> {i.a[1]}
                    [] i.op = "try"  -> {Temp(i.ptr)}
                    [] OTHER         -> {} : i \in ToSet(Insts(F, b))} : b \in DOMAIN F.blk}

EliminateDead(F) ==
    LET live    == LoadedPtrs(F)
        Kept(i) == CASE i.op = "alloca" -> Temp(i.d) \in live
                     [] i.op = "store"  -> i.a[2] \in live
                     [] OTHER           -> TRUE
    IN  [F EXCEPT !.blk = [b \in DOMAIN @ |-> [@[b] EXCEPT !.insts = SelectSeq(@, Kept)]]]

(***************************************************************************)
(* Pass 5: operations on two constants.                                    *)
(***************************************************************************)
FoldInst(i) ==
    IF i.op \in {"add", "less"} /\ \A k \in {1, 2} : i.a[k][1] = "int"
    THEN Move(i.d, Const(IF i.op = "add" THEN i.a[1][2] + i.a[2][2]
                         ELSE Truth(i.a[1][2] < i.a[2][2])))
    ELSE i

Fold(F) == Rewrite(F, FoldInst)
=============================================================================
