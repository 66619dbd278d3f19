----------------------------- MODULE SolverInstall -----------------------------
(***************************************************************************)
(* What an install puts on the system (pkg/v2/solver/solver.go: Install,   *)
(* resolvePackage, processArtefactDeps; _install_s1 of the installer).     *)
(* The solver walks the requested names, in the arbitrary order of a Go    *)
(* map, and resolves each one depth first: it tries the versions from the  *)
(* highest, and for each one resolves the requires in turn.  The mutually  *)
(* recursive calls are frames of an explicit stack.  Version strings are   *)
(* abstracted to a rank and to the relation Refuses.                       *)
(***************************************************************************)
EXTENDS Naturals, FiniteSets, SequencesExt

CONSTANTS
  Names,      \* package names, virtual ones included
  Pkgs,       \* package versions
  NoPkg,      \* no package version
  NameOf,     \* [Pkgs -> Names]
  Rank,       \* [Pkgs -> Nat]: the version, in the order of the versions of a name
  NameOrder,  \* [Names -> Nat]: the order of the names
  Requires,   \* [Pkgs -> Seq(Names)]
  Conflicts,  \* [Pkgs -> SUBSET Names]
  Provides,   \* [Pkgs -> SUBSET Names]
  Refuses,    \* <<p, a, n>>: a require or conflict of p on the name n excludes
              \* a, which is named n or provides n
  Problems    \* the problems explored: [kind (install, upgrade), repo, world, want,
              \* force, noConflicts, deep, nodeps]

ASSUME SolverAssumption ==
  /\ NoPkg \notin Pkgs /\ IsFiniteSet(Names)
  /\ NameOf \in [Pkgs -> Names] /\ Rank \in [Pkgs -> Nat]
  /\ NameOrder \in [Names -> Nat] /\ \A m, n \in Names : NameOrder[m] = NameOrder[n] => m = n
  /\ Requires \in [Pkgs -> Seq(Names)]
  /\ Conflicts \in [Pkgs -> SUBSET Names] /\ Provides \in [Pkgs -> SUBSET Names]
  /\ Refuses \subseteq Pkgs \X Pkgs \X Names
  /\ Problems \subseteq
       [kind : {"install", "upgrade"}, repo : SUBSET Pkgs, world : SUBSET Pkgs,
        want : SUBSET Names, force : BOOLEAN, noConflicts : BOOLEAN,
        deep : BOOLEAN, nodeps : BOOLEAN]
  \* Of the copies of a version in several repositories only the first counts.
  /\ \A P \in Problems :
       /\ IsFiniteSet(P.repo)
       /\ \A a, b \in P.repo : NameOf[a] = NameOf[b] /\ Rank[a] = Rank[b] => a = b

VARIABLES
  problem,  \* repositories, installed packages, requested names, options
  avail,    \* availableArtsMap: for each key, the versions found so far
  merge,    \* provided names whose providers are still to be reduced to one
  pList,    \* names still to resolve
  cand,     \* candidatesMap: the first version kept for each resolved name
  prov,     \* providesMap: the packages whose provides are known
  frames,   \* the pending calls of resolvePackage, the innermost first
  pc        \* merge (install) or analyse (upgrade), solve, done, failed

vars == <<problem, avail, merge, pList, cand, prov, frames, pc>>

Repo  == problem.repo
World == problem.world

-----------------------------------------------------------------------------
(* Packages, as the code compares them.                                    *)

OfName(S, n) == {a \in S : NameOf[a] = n}

NamesIn(S) == {NameOf[a] : a \in S}

Providers(S, n) == {a \in S : n \in Provides[a]}

\* The sorts put packages of different names in the order of the names.
Precedes(a, b) ==
  \/ NameOrder[NameOf[b]] < NameOrder[NameOf[a]]
  \/ NameOf[a] = NameOf[b] /\ Rank[b] < Rank[a]

\* The first of the sorted list.
Best(S) == CHOOSE a \in S : \A b \in S : a = b \/ Precedes(a, b)

\* Every require and conflict of p accepts a and what a provides.
Admit(p, a) == \A n \in {NameOf[a]} \cup Provides[a] : <<p, a, n>> \notin Refuses

\* Looks for the names in the requires of every package too.
BugSearch(n, p) == {a \in Repo : n = NameOf[a] \/ n \in Provides[a] \cup Range(Requires[a])}

\* SearchArtifacts for a require of p: the selector applies to the packages
\* of that name, not to those that provide it.
Search(n, p) ==
  {a \in Repo : \/ NameOf[a] = n /\ <<p, a, n>> \notin Refuses
                \/ n \in Provides[a]}

\* Leaves out what is provided but not what is installed.
BugRequested == {n \in problem.want : Providers(World, n) = {}}

\* _install_s1: what is installed or provided already is not requested.
Requested ==
  {n \in problem.want : OfName(World, n) = {} /\ Providers(World, n) = {}}

\* The search of the requested names.
Found == LET wanted == Requested
         IN {a \in Repo : NameOf[a] \in wanted \/ Provides[a] \cap wanted # {}}

\* artefactIsInConflict: an installed package refuses a, or a refuses an
\* installed package that it does not provide and that has no better version.
InConflict(a) ==
  \/ \E c \in World : NameOf[a] \in Conflicts[c] /\ ~Admit(c, a)
  \/ \E n \in Conflicts[a] : \E v \in OfName(World, n) :
       /\ ~Admit(a, v)
       /\ n \notin Provides[a]
       /\ \A d \in OfName(Repo, n) \cup Providers(Repo, n) : ~Admit(a, d)

Candidates == {cand[n] : n \in Names} \ {NoPkg}

\* artefactAdmitByQueue: the packages chosen before accept a.
AdmitByQueue(a) == \A c \in Candidates : Admit(c, a)

-----------------------------------------------------------------------------
(* The packages that provide the same name are reduced to one.             *)

\* The providers of n that have more than one name: all are dropped when one
\* of these names is installed, otherwise the first one in the order of the
\* repositories and requires (any of them, here) is kept.
MergeProvides(n) ==
  /\ pc = "merge" /\ n \in merge
  /\ merge' = merge \ {n}
  /\ LET names == NamesIn(Providers(Found, n))
     IN \/ /\ \E m \in names : OfName(World, m) # {}
           /\ avail' = [m \in Names |-> IF m \in names THEN {} ELSE avail[m]]
        \/ /\ \A m \in names : OfName(World, m) = {}
           /\ \E keep \in names :
                avail' = [m \in Names |-> IF m \in names \ {keep} THEN {} ELSE avail[m]]
  /\ UNCHANGED <<problem, pList, cand, prov, frames, pc>>

Merged ==
  /\ pc = "merge" /\ merge = {}
  /\ pList' = {n \in Names : avail[n] # {}}
  /\ pc' = "solve"
  /\ UNCHANGED <<problem, avail, merge, cand, prov, frames>>

-----------------------------------------------------------------------------
(* Calls of resolvePackage.                                                *)

\* An upgrade is at the bottom of the calls, not a resolvePackage.
Outer == IF problem.kind = "upgrade" THEN 1 ELSE 0

Resolving == pc = "solve" /\ Len(frames) > Outer

\* The stack argument: the packages whose requires are being processed.
OnStack == {NameOf[f.art] : f \in {g \in Range(frames) : g.art # NoPkg}}

Frame(n, S) == [name |-> n, all |-> S[n], todo |-> S[n], banned |-> {}, equal |-> FALSE,
                art |-> NoPkg, deps |-> <<>>]

\* S with the packages found, under their names.
Added(S, found) == [n \in Names |-> S[n] \cup OfName(found, n)]

\* An error that no caller handles: the whole solve ends, unless --force.
GiveUp == /\ frames' = <<>>
          /\ pc' = IF problem.force THEN pc ELSE "failed"

\* The require at the head of the innermost call is settled.
DepDone ==
  /\ frames' = IF frames = <<>> THEN <<>>
               ELSE <<[Head(frames) EXCEPT !.deps = Tail(@)]>> \o Tail(frames)
  /\ UNCHANGED pc

\* Takes a name found nowhere for an installed one.
BugCall(n, S) ==
  IF n \in OnStack \/ cand[n] # NoPkg \/ S[n] = {} THEN DepDone
  ELSE frames' = <<Frame(n, S)>> \o frames /\ UNCHANGED pc

\* Starts a call, or settles it at once when the name is under analysis or
\* resolved; a name that was found nowhere is an error.
Call(n, S) ==
  IF n \in OnStack \/ cand[n] # NoPkg THEN DepDone
  ELSE IF S[n] = {} THEN GiveUp
  ELSE frames' = <<Frame(n, S)>> \o frames /\ UNCHANGED pc

\* Go over the requested names.
Pick ==
  /\ pc = "solve" /\ frames = <<>> /\ Outer = 0
  /\ \E n \in pList :
       /\ pList' = pList \ {n}
       /\ Call(n, avail)
  /\ UNCHANGED <<problem, avail, merge, cand, prov>>

Top == Head(frames)
SetTop(f) == frames' = <<f>> \o Tail(frames)

\* Forgets that the version was tried.
BugRest(a) == Top

\* The innermost call without the version that is tried.
Rest(a) == [Top EXCEPT !.todo = @ \ {a}]

\* The next version of the innermost call: banned when it is in conflict with
\* the system, skipped when the queue refuses it, else its requires are next.
TryVersion ==
  /\ Resolving
  /\ Top.art = NoPkg /\ Top.todo # {}
  /\ LET a == Best(Top.todo)
     IN SetTop(IF Rank[a] \in Top.banned THEN Rest(a)
               ELSE IF ~problem.noConflicts /\ InConflict(a)
                 THEN [Rest(a) EXCEPT !.banned = @ \cup {Rank[a]}]
               ELSE IF AdmitByQueue(a)
                 THEN [Rest(a) EXCEPT !.art = a, !.deps = Requires[a]]
               ELSE Rest(a))
  /\ UNCHANGED <<problem, avail, merge, pList, cand, prov, pc>>

\* "No valid": a resolvePackage that called goes on with its next version;
\* the solve ends without one, unless --force.
NoVersion ==
  /\ Resolving
  /\ Top.art = NoPkg /\ Top.todo = {}
  /\ IF Len(frames) = Outer + 1 THEN GiveUp
     ELSE /\ frames' = <<[frames[2] EXCEPT !.art = NoPkg]>> \o SubSeq(frames, 3, Len(frames))
          /\ UNCHANGED pc
  /\ UNCHANGED <<problem, avail, merge, pList, cand, prov>>

Depend == Resolving /\ Top.art # NoPkg /\ Top.deps # <<>>

\* The installed version of the require is admitted.
OnSystem(n) == \E v \in OfName(World, n) : Admit(Top.art, v)

\* An installed version that is not admitted and that nothing may replace.
Stuck(n) == OfName(World, n) # {} /\ ~OnSystem(n) /\ avail[n] = {}

\* A known package provides the require, and one of its provides (any of
\* them: the loop does not look at the name) is not refused.
IsProvided(n) ==
  \E q \in Providers(prov, n) : \E m \in Provides[q] : <<Top.art, q, m>> \notin Refuses

\* The require is settled without a search.
DepSettled ==
  /\ Depend
  /\ LET n == Head(Top.deps)
     IN /\ \/ OnSystem(n)
           \/ ~Stuck(n) /\ (IsProvided(n) \/ cand[n] # NoPkg \/ n \in OnStack)
        /\ DepDone
  /\ UNCHANGED <<problem, avail, merge, pList, cand, prov>>

\* The version is given up and the next one is tried.
DepStuck ==
  /\ Depend /\ Stuck(Head(Top.deps))
  /\ SetTop([Top EXCEPT !.art = NoPkg])
  /\ UNCHANGED <<problem, avail, merge, pList, cand, prov, pc>>

\* The require is resolved, after a search of the repositories when no version
\* of it is known yet; a package that provides it is then taken in its place.
DepResolve ==
  /\ Depend
  /\ LET n     == Head(Top.deps)
         found == IF avail[n] # {} THEN {} ELSE Search(n, Top.art)
         other == NamesIn(found) \ {n}
     IN /\ ~OnSystem(n) /\ ~Stuck(n) /\ ~IsProvided(n)
        /\ cand[n] = NoPkg /\ n \notin OnStack
        /\ avail' = Added(avail, found)
        /\ \E m \in IF other = {} THEN {n} ELSE other : Call(m, avail')
  /\ UNCHANGED <<problem, merge, pList, cand, prov>>

\* Keeps the banned versions too.
BugValid(f) == f.all

\* The versions kept for a name: those that were not banned.
Valid(f) == {a \in f.all : Rank[a] \notin f.banned}

\* Every require is settled: the first version kept is the candidate.
Resolved ==
  /\ Resolving
  /\ Top.art # NoPkg /\ Top.deps = <<>>
  /\ LET first == Best(Valid(Top))
     IN /\ cand' = [cand EXCEPT ![Top.name] = first]
        /\ prov' = IF Provides[first] # {} THEN prov \cup {first} ELSE prov
  /\ frames' = IF Len(frames) = 1 THEN <<>>
               ELSE <<[frames[2] EXCEPT !.deps = Tail(@)]>> \o SubSeq(frames, 3, Len(frames))
  /\ UNCHANGED <<problem, avail, merge, pList, pc>>

Done ==
  /\ pc = "solve" /\ frames = <<>> /\ pList = {} /\ Outer = 0
  /\ pc' = "done"
  /\ UNCHANGED <<problem, avail, merge, pList, cand, prov, frames>>

-----------------------------------------------------------------------------
\* The first search, the maps of the system and the provided names that
\* packages of several names offer.
Init ==
  /\ problem \in Problems
  /\ LET found == Found
     IN /\ avail = Added([n \in Names |-> {}], found)
        /\ merge = {n \in Names : Cardinality(NamesIn(Providers(found, n))) > 1}
  /\ pList = {} /\ frames = <<>>
  /\ cand = [n \in Names |-> NoPkg]
  /\ prov = {p \in World : Provides[p] # {}}
  /\ pc = IF problem.kind = "install" THEN "merge" ELSE "analyse"

Next ==
  \/ \E n \in Names : MergeProvides(n)
  \/ Merged \/ Pick \/ TryVersion \/ NoVersion \/ DepSettled \/ DepStuck
  \/ DepResolve \/ Resolved \/ Done

Spec == Init /\ [][Next]_vars

\* One goroutine solves.
FairSpec == Spec /\ WF_vars(Next)

-----------------------------------------------------------------------------
(* Properties.                                                             *)

\* An install has been answered.
Installs == pc = "done" /\ problem.kind = "install"

\* Each require of p has an installed, chosen or providing package.
HasRequires(p) ==
  \A n \in Range(Requires[p]) :
    \E w \in World \cup Candidates : n = NameOf[w] \/ n \in Provides[w]

OneVersionEach == \A a, b \in Repo : NameOf[a] = NameOf[b] => a = b

\* When the repositories hold one version of each name, a solve that succeeds
\* without --force has found every package its answer requires, whatever the
\* order of the names and the cycles: nothing stays from a failed attempt.
ClosedWhenSingle ==
  Installs /\ ~problem.force /\ OneVersionEach =>
    \A p \in Candidates : HasRequires(p)

\* The answer holds no package that an installed one refuses by a conflict,
\* although the version kept is not always the one that was tried last.
HonoursConflicts ==
  Installs /\ ~problem.noConflicts =>
    \A p \in Candidates : ~InConflict(p)

\* The names that the requested ones may need, through any version.
Needed[k \in 0 .. Cardinality(Names)] ==
  IF k = 0 THEN NamesIn(Found)
  ELSE LET N   == Needed[k - 1]
           req == UNION {Range(Requires[a]) : a \in {b \in Repo : NameOf[b] \in N}}
       IN N \cup req \cup NamesIn({a \in Repo : Provides[a] \cap req # {}})

\* Nothing is installed that no requested name needs.
NothingUnneeded ==
  Installs => NamesIn(Candidates) \subseteq Needed[Cardinality(Names)]

\* Installer's contract, and its limit: a name that is installed already is
\* answered only as a provider, for a provide that is new or was refused.
InstalledOnlyAsProvider ==
  Installs => \A p \in Candidates : OfName(World, NameOf[p]) # {} =>
    \E b \in OfName(Repo, NameOf[p]) : \E n \in Provides[b] :
      \/ Providers(World, n) = {}
      \/ \E a \in Repo, q \in Providers(World, n) : <<a, q, n>> \in Refuses

\* The solve ends, cycles of requires included.
SolveEnds == <>(pc \in {"done", "failed"})

\* (violated) A solve that succeeds without --force has found every package
\* its answer requires.
AnswerClosed ==
  Installs /\ ~problem.force => \A p \in Candidates : HasRequires(p)
================================================================================
