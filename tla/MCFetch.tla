--------------------------------- MODULE MCFetch ---------------------------------
(* Two repositories of two categories; a search asks for some kinds of        *)
(* option, in OR or in AND.  The miner downloads the packages of one.         *)
EXTENDS Fetch

Art(f, sat) == [file |-> f, sat |-> sat, masked |-> FALSE, hidden |-> FALSE, listed |-> 0]
A == Art("f", {"names", "packages", "matches", "categories", "labels"})
B == [Art("g", {"names", "packages", "annotations", "labels", "atoms"}) EXCEPT !.listed = 1]
C == [Art("f", {"categories", "annotations", "files", "rlabels", "matches"}) EXCEPT !.masked = TRUE]
E == [Art("f", {"packages", "atoms", "names"}) EXCEPT !.listed = 2]
F == Art("g", {"names", "annotations"})
D == [Art("g", {"packages", "matches", "names"}) EXCEPT !.hidden = TRUE]

Cat(arts, asked) == [ok |-> TRUE, arts |-> arts, asked |-> asked, matched |-> TRUE]
Unread == [Cat({E}, TRUE) EXCEPT !.ok = FALSE]
Repo(cats) == [enable |-> TRUE, cached |-> TRUE, identity |-> TRUE, tree |-> TRUE,
               provides |-> TRUE, cats |-> cats]
Plain == Repo(<<Cat({A}, TRUE), Cat({B}, FALSE)>>)
Other == Repo(<<Cat({C, D}, TRUE), Unread, Cat({}, FALSE)>>)
Off == [Plain EXCEPT !.enable = FALSE]

Ask(kinds, and) == [kinds |-> kinds, and |-> and, only |-> FALSE, hidden |-> FALSE,
                    ignoreMasks |-> FALSE]
Search(repos, opts) ==
  [repos |-> repos, opts |-> opts, installed |-> {}, miner |-> FALSE, args |-> 0]
Only(kinds) == [Ask(kinds, FALSE) EXCEPT !.only = TRUE, !.hidden = TRUE]
Miner(cats, n) ==
  [Search(<<Repo(cats)>>, [Ask({"packages"}, FALSE) EXCEPT !.hidden = TRUE])
     EXCEPT !.miner = TRUE, !.args = n]

MCSearches ==
  {Search(rs, Ask(k, and)) :
     rs \in {<<Plain, Other>>, <<Off, Other>>},
     k \in {{"matches"}, {"names", "labels"}, {"categories", "annotations"},
            {"matches", "files"}, {"matches", "rlabels"}},
     and \in BOOLEAN}
  \cup {Search(<<Plain, [Other EXCEPT !.cached = FALSE]>>, Ask({"matches"}, FALSE)),
        Search(<<[Other EXCEPT !.tree = FALSE], Plain>>, Ask({"labels"}, TRUE)),
        Search(<<[Other EXCEPT !.identity = FALSE], Plain, Repo(<<>>)>>, Ask({"names"}, TRUE)),
        Search(<<Plain, [Other EXCEPT !.provides = FALSE]>>, Only({"packages"})),
        Search(<<Plain, Repo(<<Cat({D}, TRUE), Cat({E, F}, FALSE)>>)>>,
               Only({"packages", "annotations"})),
        Search(<<Plain>>, Only({"packages", "atoms"})),
        [Search(<<>>, Ask({"atoms", "annotations"}, FALSE)) EXCEPT !.installed = {A, B, D}],
        Miner(<<Cat({A}, TRUE), Cat({B}, FALSE)>>, 2), Miner(<<Unread>>, 1),
        [Miner(<<>>, 1) EXCEPT !.repos[1].tree = FALSE],
        [Miner(<<Unread>>, 1) EXCEPT !.repos[1].identity = FALSE]}

MCWanted == {<<"f">>}
================================================================================
