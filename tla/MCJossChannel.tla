----------------------------- MODULE MCJossChannel -----------------------------
(***************************************************************************)
(* An instance of JossChannel for TLC: two goroutines on an unbuffered and *)
(* a buffered channel.                                                     *)
(***************************************************************************)
EXTENDS JossChannel

CONSTANTS p1, p2, c1, c2

Send(c) == [dir |-> "send", ch |-> c]
Recv(c) == [dir |-> "recv", ch |-> c]
Stmt(cs, d, w) == [cases |-> cs, hasDefault |-> d, watchesCtx |-> w]

\* A recv, a foreach (it ignores the context) and selects over both channels.
TwoChannelStatements ==
    {Stmt(<<Send(c1), Send(c2)>>, FALSE, TRUE), Stmt(<<Recv(c2), Send(c1)>>, TRUE, TRUE),
     Stmt(<<Recv(c1)>>, FALSE, TRUE), Stmt(<<Recv(c2)>>, FALSE, FALSE),
     Stmt(<<Send(c1), Send(c1)>>, FALSE, TRUE)}

TwoCapacities == [c \in {c1, c2} |-> IF c = c1 THEN 0 ELSE 1]
================================================================================
