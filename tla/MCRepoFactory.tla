----------------------------- MODULE MCRepoFactory ------------------------------
(* Two versions of a package, both built, the first one in the tree.  In    *)
(* some scenarios create-repo runs several times, two of them together, in  *)
(* one the tree changes too; in the others it runs once while the tree and  *)
(* its index change, from both versions built or only the second.           *)
EXTENDS RepoFactory, TLC

MCOptions == {[reset |-> FALSE, compiler |-> TRUE], [reset |-> TRUE, compiler |-> FALSE]}

Often(file, separate) ==
  [layout |-> [file |-> file, separate |-> separate], built |-> Versions,
   left |-> [creates |-> IF separate THEN 2 ELSE 3, edits |-> 0, indexes |-> 0, kills |-> 1, ticks |-> 1]]
Twice(file, separate) ==
  [layout |-> [file |-> file, separate |-> separate], built |-> Versions,
   left |-> [creates |-> 2, edits |-> 1, indexes |-> 0, kills |-> 1, ticks |-> 0]]
Changing(file, separate) ==
  [layout |-> [file |-> file, separate |-> separate], built |-> Versions,
   left |-> [creates |-> 1, edits |-> 2, indexes |-> 2, kills |-> 1, ticks |-> 0]]

MCScenarios == {Often("definition", s) : s \in BOOLEAN}
                 \cup {Twice("definition", FALSE)}
                 \cup {Changing(f, FALSE) : f \in {"definition", "collection"}}
                 \cup {[Changing("definition", FALSE) EXCEPT !.built = {2}]}
MCIndexes == {[Changing("definition", FALSE) EXCEPT !.left.kills = 0]}

\* Two create-repo commands and a change of the tree, in one second: the next
\* revision each time, no kill.
MCBump == {[reset |-> FALSE, compiler |-> FALSE]}
MCTogether == {[Twice("definition", FALSE) EXCEPT !.left.kills = 0]}

Symmetry == Permutations(Creators)
================================================================================
