------------------------------- MODULE BuildSolver -------------------------------
(***************************************************************************)
(* The solver of anise-build (anise-build/pkg/v2/solver): BuildSolver for   *)
(* the packages to build, RuntimeSolver for the validation of a tree.  A    *)
(* package is a name and a version.  For each package requested the solver  *)
(* loads every version its requires and copies can reach, keeps one version *)
(* of each name, and sorts these by their requires (RequiresSort).          *)
(***************************************************************************)
EXTENDS RequiresSort

CONSTANTS
  Forests,   \* trees of package specifications explored
  Requests,  \* sequences of packages that the selectors of a command match
  Modes      \* kinds of command explored

ASSUME BuildSolverAssumption ==
  /\ \A f \in Forests :
       /\ f.pkgs \subseteq Names \X Nat
       /\ f.requires \in [f.pkgs -> Seq(Names)] /\ f.copies \in [f.pkgs -> Seq(Names)]
  /\ Requests \subseteq Seq(Names \X Nat)
  /\ Modes \subseteq {"build", "pretend", "runtime", "nodeps"}

VARIABLES
  forest,     \* the tree: pkgs, requires and copies (names), refuses and
              \* conflicts (pairs), broken, imageCopy and flat (packages)
  mode,       \* build, pretend (BuildPretend), runtime or nodeps (RuntimeSolver)
  todo,       \* packages still to resolve
  chosen,     \* candidatesDepsMap of the package being resolved
  solutions,  \* a solution for each package resolved, dependencies first
  status      \* none, ok, error, panic

solverVars == <<forest, mode, todo, chosen, solutions, status, sortVars>>

NameOf(p) == p[1]
Version(p) == p[2]
Target == Head(todo)

-----------------------------------------------------------------------------
(* The tree.                                                               *)

Runtime == mode \in {"runtime", "nodeps"}

Copies(p) == IF Runtime THEN <<>> ELSE forest.copies[p]

\* GetPackage: the packages to copy files from count as requires.
Requires(p) == forest.requires[p] \o Copies(p)

\* ForestGuard.SearchPackage with the selector that p has for a name.
Search(p, n) ==
  {q \in forest.pkgs : NameOf(q) = n /\ <<p, q>> \notin forest.refuses}

\* DefaultPackage.Admit: neither a require nor a conflict of p excludes q.
Admits(p, q) == <<p, q>> \notin forest.refuses \cup forest.conflicts

Deps(p) == UNION {Search(p, n) : n \in Range(Requires(p))}

\* recursiveLoadDep: every version met, but none of a name on the stack.
Load[names \in SUBSET Names] ==
  [p \in forest.pkgs |->
     IF NameOf(p) \in names THEN {}
     ELSE {p} \cup UNION {Load[names \cup {NameOf(p)}][q] : q \in Deps(p)}]

Available(t) ==
  IF mode = "nodeps" THEN {} ELSE UNION {Load[{NameOf(t)}][q] : q \in Deps(t)}

-----------------------------------------------------------------------------
(* prepareCandidates.                                                      *)

\* The package to build and the candidates so far admit q.
Valid(t, cands, q) == \A p \in {t} \cup cands : Admits(p, q)

Oldest(S) == CHOOSE p \in S : \A q \in S : Version(p) <= Version(q)

\* Names in order; the scan of the versions, newest first, has no break: the
\* candidate is the last one scanned, whichever was valid.
Prepare(t, available) ==
  LET versions(n) == {p \in available : NameOf(p) = n}
      prep[n \in 0 .. N] ==
        IF n = 0 THEN [cands |-> {}, ok |-> TRUE]
        ELSE LET acc == prep[n - 1]
             IN IF versions(n) = {} THEN acc
                ELSE IF \E q \in versions(n) : Valid(t, acc.cands, q)
                  THEN [acc EXCEPT !.cands = @ \cup {Oldest(versions(n))}]
                  ELSE [acc EXCEPT !.ok = FALSE]
  IN prep[N]

Candidate(n) == CHOOSE p \in chosen : NameOf(p) = n

-----------------------------------------------------------------------------
End(s) == status' = s /\ todo' = <<>> /\ UNCHANGED <<chosen, sortVars>>

\* One candidate for each name, and the sort of the candidates is to start.
ToSort(t, prep) ==
  LET requires(n) == LET c == {p \in prep.cands : NameOf(p) = n}
                     IN IF c = {} THEN <<>> ELSE Requires(CHOOSE p \in c : TRUE)
  IN IF prep.ok
       THEN /\ chosen' = prep.cands
            /\ StartSort({NameOf(p) : p \in prep.cands}, [n \in Names |-> requires(n)])
            /\ UNCHANGED <<todo, status>>
       ELSE End("error")

\* Loading stops at a specification that cannot be rendered; a copy from an
\* image has no package, whose version is read all the same.
Resolve ==
  /\ status = "none" /\ todo # <<>> /\ pc = "idle"
  /\ LET known  == Target \in forest.pkgs
         all    == IF known THEN Available(Target) ELSE {}
         loaded == all \cup {Target}
         broken == loaded \cap forest.broken # {}
         image  == ~Runtime /\ loaded \cap forest.imageCopy # {}
     IN \/ (broken \/ ~known) /\ End("error")
        \/ image /\ End("panic")
        \/ ~broken /\ ~image /\ known /\ ToSort(Target, Prepare(Target, all))
  /\ UNCHANGED <<forest, mode, solutions>>

SortCandidates == SortStep /\ UNCHANGED <<forest, mode, todo, chosen, solutions, status>>

SortFails ==
  /\ pc = "error" /\ status = "none"
  /\ End("error")
  /\ UNCHANGED <<forest, mode, solutions>>

\* The package itself is the last one of its solution.
Solved ==
  /\ pc = "sorted"
  /\ solutions' = Append(solutions,
       Append([i \in DOMAIN ans |-> Candidate(ans[i])], Target))
  /\ todo' = Tail(todo)
  /\ chosen' = {}
  /\ pc' = "idle"
  /\ ans' = <<>> /\ reqs' = [n \in Names |-> <<>>]
  /\ UNCHANGED <<forest, mode, status, elems, queue, left, loop, dfs>>

\* Pretend and runtime answer the packages of all the solutions; without a
\* selector there is nothing to build.
Answer ==
  /\ status = "none" /\ todo = <<>> /\ pc = "idle"
  /\ mode # "build" \/ solutions = <<>>
  /\ status' = "ok"
  /\ UNCHANGED <<forest, mode, todo, chosen, solutions, sortVars>>

Idle ==
  /\ chosen = {} /\ solutions = <<>> /\ status = "none"
  /\ reqs = [n \in Names |-> <<>>] /\ elems = <<>> /\ queue = {} /\ ans = <<>>
  /\ left = {} /\ lastSize = 0 /\ counter = 0 /\ detected = FALSE
  /\ agenda = <<>> /\ stack = {} /\ pc = "idle"

SolverInit == forest \in Forests /\ mode \in Modes /\ todo \in Requests /\ Idle

SolverNext == Resolve \/ SortCandidates \/ SortFails \/ Solved \/ Answer

-----------------------------------------------------------------------------
(* Properties of the solutions.                                            *)

Position(s, n) == CHOOSE i \in DOMAIN s : NameOf(s[i]) = n

\* The names that p requires, directly or not, among those of a solution.
Below(s, p) ==
  LET requires(n) == Range(Requires(CHOOSE q \in Range(s) : NameOf(q) = n))
      names == {NameOf(q) : q \in Range(s)}
      reach[k \in 0 .. N] ==
        IF k = 0 THEN Range(Requires(p)) \cap names
        ELSE LET R == reach[k - 1]
             IN R \cup ((UNION {requires(n) : n \in R}) \cap names)
  IN reach[N]

Acyclic(s) == \A i \in DOMAIN s : NameOf(s[i]) \notin Below(s, s[i])

\* The package at position i and a package of s that it requires, require each
\* other: the sort breaks this cycle.
Paired(s, i) ==
  \E j \in 1 .. Len(s) - 1 : /\ NameOf(s[j]) \in Range(Requires(s[i]))
                            /\ NameOf(s[i]) \in Range(Requires(s[j]))

\* A solution holds one version of each name and, for each dependency in it,
\* all that it requires or copies from, unless a cycle of two was broken there;
\* without a cycle what a package requires comes before it.
SolutionsClosed ==
  \A k \in DOMAIN solutions :
    LET s == solutions[k]
        names == [i \in DOMAIN s |-> NameOf(s[i])]
    IN /\ IsInjective(names)
       /\ \A i \in 1 .. Len(s) - 1 :
            Range(Requires(s[i])) \subseteq Range(names) \/ Paired(s, i)
       /\ Acyclic(s) =>
            \A i \in DOMAIN s : \A n \in Range(Requires(s[i])) \cap Range(names) :
              Position(s, n) < i

\* (violated) "Check that all dependencies are availables": what a dependency
\* in a solution requires is in the solution too.
RequiresResolved ==
  \A k \in DOMAIN solutions :
    LET s == solutions[k]
    IN \A i \in 1 .. Len(s) - 1 : Range(Requires(s[i])) \subseteq {NameOf(q) : q \in Range(s)}

\* (violated) "Check if the artefact is admitted from the package to build":
\* the package to build admits each dependency of its solution.
TargetAdmits ==
  \A k \in DOMAIN solutions :
    LET s == solutions[k]
    IN \A j \in 1 .. Len(s) - 1 : Admits(s[Len(s)], s[j])
=================================================================================
