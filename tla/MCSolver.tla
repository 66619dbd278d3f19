---------------------------- MODULE MCSolver ------------------------------------
(***************************************************************************)
(* a2 needs c and b2, b2 needs a2 (a cycle), b1 needs the virtual v, c     *)
(* needs the v of q2.  q1, q2 and d1 provide v; d1 conflicts with b2 and   *)
(* with c; d0 is an installed version of d that provides nothing.  Every   *)
(* subset of the other versions is a repository, next to some systems.     *)
(* For upgrades: u1 and u2 need o, u1 refuses o3 and u2 needs the new w,   *)
(* which needs n; k1 refuses o2; n2 provides o and p, n3 no longer does;   *)
(* k2 needs v, which q3 does not provide; w2 needs o and refuses o1; n1    *)
(* provides o too, needs the new w and k, and refuses k1.                  *)
(***************************************************************************)
EXTENDS SolverUpgrade

MCNames == {"a", "b", "c", "d", "q", "v", "o", "n", "p", "u", "w", "k"}
MCUps == {"o0", "o1", "o2", "o3", "n1", "n2", "n3", "p1", "u1", "u2", "w1", "w2", "k1",
          "k2", "q3"}
MCPkgs == {"a1", "a2", "b1", "b2", "c1", "d0", "d1", "q1", "q2"} \cup MCUps
MCNameOf == [a1 |-> "a", a2 |-> "a", b1 |-> "b", b2 |-> "b", c1 |-> "c",
             d0 |-> "d", d1 |-> "d", q1 |-> "q", q2 |-> "q",
             o0 |-> "o", o1 |-> "o", o2 |-> "o", o3 |-> "o", n1 |-> "n", n2 |-> "n", n3 |-> "n", p1 |-> "p",
             u1 |-> "u", u2 |-> "u", w1 |-> "w", w2 |-> "w", k1 |-> "k", k2 |-> "k", q3 |-> "q"]
\* n comes before o and after p.
MCNameOrder == [a |-> 1, b |-> 2, c |-> 3, d |-> 4, q |-> 5, v |-> 6, o |-> 7, n |-> 8,
                p |-> 9, u |-> 10, w |-> 11, k |-> 12]
MCRank == [p \in MCPkgs |->
  CASE p \in {"a2", "b2", "q2", "o2", "n2", "u2", "w2", "k2"} -> 2
    [] p \in {"o3", "n3", "q3"} -> 3 [] p = "o0" -> 0 [] OTHER -> 1]
MCProvideRank == [p \in MCPkgs |-> IF p \in {"n1", "n2"} THEN 3 ELSE 1]
MCRequires == [p \in MCPkgs |-> CASE p = "a2" -> <<"c", "b">>
                                  [] p = "b2" -> <<"a">>
                                  [] p \in {"b1", "c1", "k2"} -> <<"v">>
                                  [] p \in {"u1", "w2"} -> <<"o">>
                                  [] p = "w1" -> <<"o", "n">>
                                  [] p = "u2" -> <<"o", "w">>
                                  [] p = "n1" -> <<"w", "k">>
                                  [] OTHER -> <<>>]
MCConflicts == [p \in MCPkgs |-> CASE p = "d1" -> {"b", "c"} [] p = "k1" -> {"o"} [] OTHER -> {}]
MCProvides == [p \in MCPkgs |->
  CASE p \in {"d1", "q1", "q2"} -> {"v"} [] p = "n2" -> {"o", "p"}
    [] p = "n1" -> {"o"} [] OTHER -> {}]
MCRefuses == {<<"a2", "b1", "b">>, <<"b2", "a1", "a">>, <<"c1", "q1", "v">>,
              <<"d1", "b2", "b">>, <<"d1", "c1", "c">>,
              <<"u1", "o3", "o">>, <<"k1", "o2", "o">>, <<"w2", "o1", "o">>,
              <<"n1", "k1", "k">>}

MCRepos == SUBSET (MCPkgs \ ({"d0"} \cup MCUps))
MCWorlds == {{}, {"a1"}, {"b1", "q1"}, {"q1"}, {"q2"}, {"c1", "q2"}, {"d0"}, {"d1"},
             {"a1", "d1"}, {"a2", "b2", "c1", "d0"}}
MCWants == {{m, n} : m, n \in {"a", "b", "c", "d", "q", "v"}}

Problem(repos, worlds, wants, flags) ==
  [kind : {"install"}, repo : repos, world : worlds, want : wants,
   force : flags, noConflicts : flags, deep : {FALSE}, nodeps : {FALSE}]

\* Without flags; --force and --ignore-conflicts with fewer repositories.
MCInstalls ==
  Problem(MCRepos, MCWorlds, MCWants, {FALSE})
    \cup Problem({MCPkgs \ (S \cup MCUps) : S \in {{"d0"}, {"d0", "c1"}, {"d0", "q2", "d1"}}}, MCWorlds, MCWants, BOOLEAN)

Upgrades(repos, worlds) ==
  [kind : {"upgrade"}, repo : repos, world : worlds, want : {{}}, force : {FALSE},
   noConflicts : {FALSE}, deep : BOOLEAN, nodeps : BOOLEAN]
MCUpgrades ==
  Upgrades({S \cup {"w1"} : S \in SUBSET {"o1", "o2", "o3", "n2", "n3", "u2"}}
             \cup {{"o0", "o2"}, {"o0", "o2", "o3"}, {"o0", "o3"}, {"u2", "o1"}, {"u2", "n2"}},
           {{"o1"}, {"o1", "p1"}, {"o1", "k1"}, {"o1", "u1"}, {"o1", "u1", "k1"}, {"o2", "u1"},
            {"o1", "p1", "u1", "k1"}, {"o2", "n2"}, {"n2", "u1"}})
    \cup Upgrades(MCRepos, {{"a1", "b1", "q1"}, {"c1", "q2", "d0"}, {"q1", "d1"}})

\* n1 is given up after the new w1, which needs n, has been settled with it.
MCGivenUp == Upgrades({{"n1", "w1"}}, {{"o1", "k1"}})

\* k2 needs v, which q2 provides and the installed q3 does not; w2 refuses o1.
MCBackwards ==
  Upgrades({{"k2", "q2"}, {"k2", "q1", "q2"}}, {{"k1", "q3"}})
    \cup Upgrades({{"u2", "w2", "o0", "o2"}}, {{"o1", "u1", "k1"}})

MCProblems == MCInstalls \cup MCUpgrades \cup MCGivenUp \cup MCBackwards
MCPlainProblems == Problem(MCRepos, {{}, {"d1"}}, {{"a"}}, {FALSE})
================================================================================
