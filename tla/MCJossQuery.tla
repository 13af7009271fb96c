---------------------------- MODULE MCJossQuery ----------------------------
EXTENDS JossQuery, TLC

MCTable == [i \in 1 .. MaxId |->
              CASE i = 1 -> [a |-> 0, gone |-> FALSE, there |-> TRUE]
                [] i = 2 -> [a |-> 1, gone |-> TRUE, there |-> TRUE]
                [] i = 3 -> [a |-> 1, gone |-> FALSE, there |-> TRUE]
                [] OTHER -> NoRow]

MCConditions == {Cond(FALSE, "eq", <<0>>), Cond(FALSE, "eq", <<1>>), Cond(TRUE, "eq", <<1>>),
                 Cond(FALSE, "ne", <<0>>), In(FALSE, << >>), In(FALSE, <<0, 1>>)}

MCCallbacks == {[conds |-> <<Cond(FALSE, "eq", <<0>>), Cond(TRUE, "eq", <<1>>)>>, having |-> << >>],
                [conds |-> <<Cond(FALSE, "eq", <<1>>)>>, having |-> <<0>>]}
=============================================================================
