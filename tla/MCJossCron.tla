----------------------------- MODULE MCJossCron -----------------------------
(* The instance of JossCron that TLC checks.                                 *)
EXTENDS JossCron

\* A minute that is the start of an hour.
MCTimes == {<<0, 10, 1, 1, 0>>}

\* Always due, and never.
MCExprs == {<<"hourly">>, <<[kind |-> "step", n |-> 2], [kind |-> "list", of |-> {8, 20}], Any, Any, Any>>}
=============================================================================
