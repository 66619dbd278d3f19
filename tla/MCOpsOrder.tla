------------------------------- MODULE MCOpsOrder -------------------------------
(* Graphs over four names to add, of at most one require for the first two  *)
(* and two for the others: chains, diamonds, cycles of two to four          *)
(* packages, two cycles at once, packages that wait for a cycle.  The plan  *)
(* also removes a fifth name, which the first one may require.              *)
EXTENDS OpsOrder

Others(p) == (1 .. 4) \ {p}
One(p) == {<<>>} \cup {<<r>> : r \in Others(p)}
Two(p) == One(p) \cup {s \in Others(p) \X Others(p) : s[1] # s[2]}

MCGraphs == {<<a, b, c, d, <<>>>> :
               a \in One(1) \cup {<<5>>}, b \in One(2), c \in Two(3), d \in Two(4)}

MCPlans == {<<"U", "N", "U", "N", "D">>}
=================================================================================
