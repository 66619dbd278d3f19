----------------------------- MODULE MCSystemDB -----------------------------
(* An instance of SystemDB: a and b1 are installed, b1 requires a; b2 is    *)
(* the version of the repositories; c provides v and requires nothing.      *)
EXTENDS SystemDB, TLC

CONSTANTS p1, p2, a, b1, b2, c

MCPkgs == {a, b1, b2, c}
MCNameOf == a :> "a" @@ b1 :> "b" @@ b2 :> "b" @@ c :> "c"
MCRequires == a :> {} @@ b1 :> {"a"} @@ b2 :> {"a"} @@ c :> {}
MCProvides == a :> {} @@ b1 :> {} @@ b2 :> {} @@ c :> {"b"}
MCWorlds == {{a}, {a, b1}, {a, c}}

Cmd(op, args, with, force, nodeps) ==
  [op |-> op, args |-> args, with |-> with, force |-> force, nodeps |-> nodeps]

MCCommands ==
  {Cmd("uninstall", <<"a">>, <<>>, f, FALSE) : f \in BOOLEAN}
  \cup {Cmd("install", <<"b">>, <<>>, f, FALSE) : f \in BOOLEAN}
  \cup {Cmd("miner remove", <<"b">>, <<>>, f, FALSE) : f \in BOOLEAN}
  \cup {Cmd("remove", <<b1>>, <<>>, f, FALSE) : f \in BOOLEAN}
  \cup {Cmd("uninstall", <<"c", "a">>, <<>>, TRUE, TRUE),
        Cmd("create", <<c, b1>>, <<>>, FALSE, FALSE),
        Cmd("create", <<b1>>, <<>>, FALSE, FALSE),
        Cmd("miner replace", <<"b">>, <<"c">>, FALSE, TRUE),
        Cmd("orphans", <<>>, <<>>, FALSE, FALSE),
        Cmd("get", <<"a", "b">>, <<>>, FALSE, FALSE)}
=============================================================================
