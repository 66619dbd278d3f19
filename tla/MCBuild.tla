--------------------------------- MODULE MCBuild ---------------------------------
(* 1 is an application that requires 2 and copies from 3; 2 requires 3 or 4.  *)
(* The trees differ in cycles, versions, refusals and special packages.       *)
EXTENDS BuildManager

Tree(pkgs, requires, copies) ==
  [pkgs |-> pkgs, requires |-> [p \in pkgs |-> requires[p[1]]],
   copies |-> [p \in pkgs |-> copies[p[1]]], refuses |-> {}, conflicts |-> {},
   broken |-> {}, imageCopy |-> {}, flat |-> {}]

None == [n \in 1 .. N |-> <<>>]
One == {<<n, 1>> : n \in 1 .. 3}
Chain == Tree(One, [None EXCEPT ![1] = <<2>>, ![2] = <<3>>], [None EXCEPT ![1] = <<3>>])
Ring == Tree(One, [None EXCEPT ![1] = <<2>>, ![2] = <<3>>, ![3] = <<2>>], None)
Back == Tree(One, [None EXCEPT ![1] = <<2>>, ![2] = <<3, 1>>], None)
Deep == Tree({<<n, 1>> : n \in 1 .. 5},
             [None EXCEPT ![1] = <<2>>, ![2] = <<3, 4>>, ![3] = <<4, 5>>], None)
Missing == Tree({<<1, 1>>}, [None EXCEPT ![1] = <<2>>], None)
Lost == Tree(One, [None EXCEPT ![1] = <<2>>, ![2] = <<3, 4>>, ![3] = <<2>>], None)
Versions == Tree(One \cup {<<2, 2>>, <<3, 2>>},
                 [None EXCEPT ![1] = <<2, 3>>, ![2] = <<3>>], None)

Apart == [Tree(One \cup {<<4, 1>>, <<3, 2>>},
               [None EXCEPT ![1] = <<2>>, ![2] = <<3>>, ![4] = <<2, 3>>], None)
          EXCEPT !.refuses = {<<<<2, 1>>, <<3, 1>>>>}]

MCForests ==
  {[Chain EXCEPT !.flat = {<<3, 1>>}],
   [Chain EXCEPT !.broken = {<<3, 1>>}, !.imageCopy = {<<2, 1>>}],
   [Chain EXCEPT !.refuses = {<<<<1, 1>>, <<3, 1>>>>}],
   [Chain EXCEPT !.conflicts = {<<<<2, 1>>, <<3, 1>>>>}],
   Ring, Back, Deep, Missing, Lost, Versions, Apart,
   [Versions EXCEPT !.refuses = {<<<<1, 1>>, <<3, 1>>>>}]}

A == <<1, 1>>
B == <<2, 1>>
C == <<3, 1>>
MCRequests == {<<>>, <<A>>, <<A, <<4, 1>>>>, <<C, A, B>>, <<C, <<3, 2>>>>}
MCOptions == {[pull |-> FALSE, push |-> FALSE, onlyTarget |-> TRUE],
              [pull |-> TRUE, push |-> TRUE, onlyTarget |-> FALSE]}
MCModes == {"build", "pretend", "runtime", "nodeps"}
================================================================================
