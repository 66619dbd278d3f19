----------------------------- MODULE SolverUpgrade -----------------------------
(***************************************************************************)
(* What an upgrade changes (pkg/v2/solver/solver_upgrade.go).  A goroutine *)
(* for each installed package looks for its new versions; the packages     *)
(* that have some are then taken in an order that the requires and the     *)
(* repositories only sometimes decide, and the versions of each are tried  *)
(* from the highest.  New requires are resolved as in SolverInstall.  A    *)
(* package that provides an installed name is one of its versions.         *)
(***************************************************************************)
EXTENDS SolverInstall

CONSTANT ProvideRank  \* [Pkgs -> Nat]: the version that a package provides

\* An upgrade requests no names.
ASSUME UpgradeAssumption ==
  /\ ProvideRank \in [Pkgs -> Nat]
  /\ \A P \in Problems : P.kind = "upgrade" => P.want = {}

VARIABLES
  checked,  \* the installed names whose goroutine has ended, then the names that
            \* have been looked at
  answer    \* remove: names; update: packages; install: how many times each

upgradeVars == <<vars, checked, answer>>

Installed == NamesIn(World)
Old(n) == CHOOSE w \in World : NameOf[w] = n

-----------------------------------------------------------------------------
(* Versions of an installed name.                                          *)

Versions(n) == {a \in Repo : NameOf[a] = n \/ n \in Provides[a]}

\* The version of a as n.
RankAs(a, n) == IF NameOf[a] = n THEN Rank[a] ELSE ProvideRank[a]

AdmitAs(p, a, n) == IF NameOf[a] = n THEN Admit(p, a) ELSE <<p, a, n>> \notin Refuses

\* checkInstalledPackage: of the packages of one version the first counts.
News(n) ==
  LET all      == Versions(n)
      firsts   == {a \in all : a = Best({b \in all : RankAs(b, n) = RankAs(a, n)})}
      older(a) == RankAs(a, n) < Rank[Old(n)]
  IN \/ \E a \in firsts : RankAs(a, n) > Rank[Old(n)]
     \/ \E a \in firsts : RankAs(a, n) = Rank[Old(n)] /\ a # Old(n)
     \/ problem.deep /\ all # {} /\ older(Best(all))

\* A goroutine ends and stores, under a mutex, what it found.
Analyse(n) ==
  /\ pc = "analyse" /\ n \in Installed \ checked
  /\ checked' = checked \cup {n}
  /\ avail' = IF News(n) THEN [avail EXCEPT ![n] = Versions(n)] ELSE avail
  /\ UNCHANGED <<problem, merge, pList, cand, prov, frames, pc, answer>>

\* The names to look at: a version that is not named as its key is looked at
\* under its own name when that is a key too.
Analysed ==
  /\ pc = "analyse" /\ checked = Installed
  /\ LET keys == {n \in Names : avail[n] # {}}
     IN pList' = UNION {{IF NameOf[a] \in keys THEN NameOf[a] ELSE n : a \in avail[n]} :
                          n \in keys}
  /\ pc' = "solve" /\ checked' = {}
  /\ UNCHANGED <<problem, avail, merge, cand, prov, frames, answer>>

-----------------------------------------------------------------------------
(* checkCandidate2Upgrade: the outer call.                                 *)

Check ==
  /\ pc = "solve" /\ frames = <<>> /\ Outer = 1
  /\ \E n \in pList \ checked :
       /\ checked' = checked \cup {n}
       /\ frames' = IF cand[n] = NoPkg THEN <<Frame(n, avail)>> ELSE <<>>
  /\ UNCHANGED <<problem, avail, merge, pList, cand, prov, pc, answer>>

Upgrading == pc = "solve" /\ Outer = 1 /\ Len(frames) = 1

\* Each installed package that requires n admits a, or some version of it that
\* may come does.
UsersAdmit(a, n) ==
  \A u \in World : n \in Range(Requires[u]) =>
    AdmitAs(u, a, n) \/ \E v \in avail[NameOf[u]] : AdmitAs(v, a, n)

Ban(a)  == [Rest(a) EXCEPT !.banned = @ \cup {RankAs(a, Top.name)}]
Take(a) == [Rest(a) EXCEPT !.art = a, !.deps = Requires[a]]

\* In conflict with the system.
Blocked(a) == ~problem.noConflicts /\ InConflict(a)

\* A version that the users or the queue refuse is passed over, not banned.
TryNewer(a) ==
  IF ~UsersAdmit(a, Top.name) THEN Rest(a)
  ELSE IF Blocked(a) THEN Ban(a)
  ELSE IF AdmitByQueue(a) THEN Take(a) ELSE Rest(a)

\* The installed version with the same hash ends the search.
TrySame(a) ==
  IF a # Old(Top.name) THEN [Take(a) EXCEPT !.equal = TRUE]
  ELSE [Ban(a) EXCEPT !.todo = {}, !.equal = TRUE]

\* Goes back to an older version without --deep.
BugTryOlder(a) == IF Blocked(a) \/ ~AdmitByQueue(a) THEN Ban(a) ELSE Take(a)

TryOlder(a) ==
  IF ~problem.deep \/ Top.equal \/ Blocked(a) \/ ~AdmitByQueue(a) THEN Ban(a) ELSE Take(a)

TryUpgrade ==
  /\ Upgrading /\ Top.art = NoPkg /\ Top.todo # {}
  /\ LET a == Best(Top.todo)
         r == RankAs(a, Top.name)
         i == Rank[Old(Top.name)]
     IN SetTop(IF r \in Top.banned THEN Rest(a)
               ELSE IF r > i THEN TryNewer(a)
               ELSE IF r = i THEN TrySame(a) ELSE TryOlder(a))
  /\ UNCHANGED <<problem, avail, merge, pList, cand, prov, pc, checked, answer>>

\* No version is good: the package stays as it is.
Stay ==
  /\ Upgrading /\ Top.art = NoPkg /\ Top.todo = {}
  /\ frames' = <<>>
  /\ UNCHANGED <<problem, avail, merge, pList, cand, prov, pc, checked, answer>>

UpDepend == Upgrading /\ Top.art # NoPkg /\ Top.deps # <<>>

\* An installed require that is not admitted, unless a version of it that may
\* come admits the package: the question is asked the wrong way round.
UpStuck(n) ==
  /\ OfName(World, n) # {} /\ ~OnSystem(n)
  /\ \A v \in avail[n] : ~Admit(v, Top.art)

UpSettled ==
  /\ UpDepend
  /\ LET n == Head(Top.deps)
     IN /\ ~UpStuck(n)
        /\ \/ OfName(World, n) # {} \/ IsProvided(n)
           \/ cand[n] # NoPkg \/ n \in OnStack
        /\ DepDone
  /\ UNCHANGED <<problem, avail, merge, pList, cand, prov, checked, answer>>

\* The version is given up, and banned if it is not a newer one.
UpGiveUp ==
  /\ UpDepend /\ UpStuck(Head(Top.deps))
  /\ LET a == Top.art
         f == IF RankAs(a, Top.name) > Rank[Old(Top.name)] THEN Top ELSE Ban(a)
     IN SetTop([f EXCEPT !.art = NoPkg, !.deps = <<>>])
  /\ UNCHANGED <<problem, avail, merge, pList, cand, prov, pc, checked, answer>>

\* A new require is searched and resolved; a failure ends the upgrade.
UpResolve ==
  /\ UpDepend
  /\ LET n     == Head(Top.deps)
         found == Search(n, Top.art)
         other == NamesIn(found) \ {n}
     IN /\ ~UpStuck(n) /\ OfName(World, n) = {} /\ ~IsProvided(n)
        /\ cand[n] = NoPkg /\ n \notin OnStack
        /\ avail' = Added(avail, found)
        /\ \E m \in IF other = {} THEN {n} ELSE other : Call(m, avail')
  /\ UNCHANGED <<problem, merge, pList, cand, prov, checked, answer>>

\* The versions that stay: those that were only passed over too.  A provider
\* is banned by the version it provides and looked for by its own: with none
\* left the first of an empty list is taken, and the process ends.
Kept(f) == Valid(f)

Upgraded ==
  /\ Upgrading /\ Top.art # NoPkg /\ Top.deps = <<>>
  /\ \/ /\ Kept(Top) # {}
        /\ LET first == Best(Kept(Top))
           IN /\ cand' = [cand EXCEPT ![Top.name] = first]
              /\ prov' = IF Provides[first] # {} THEN prov \cup {first} ELSE prov
        /\ UNCHANGED pc
     \/ Kept(Top) = {} /\ pc' = "failed" /\ UNCHANGED <<cand, prov>>
  /\ frames' = <<>>
  /\ UNCHANGED <<problem, avail, merge, pList, checked, answer>>

-----------------------------------------------------------------------------
(* The three packs of the answer.                                          *)

Chosen == {n \in Names : cand[n] # NoPkg}

\* What is upgraded or replaced, and what the candidates provide.
Removals(ns) ==
  (ns \cap Installed) \cup (Installed \cap UNION {Provides[cand[n]] : n \in ns})

Updates(ns) == {cand[n] : n \in {m \in ns \cap Installed : NameOf[cand[m]] = m}}

\* Leaves out the packages that replace another name.
BugInstallsOf(a, ns) == {n \in ns \ Installed : cand[n] = a}

\* A candidate that replaces another name is left to its own name when it is
\* a candidate under it too.
InstallsOf(a, ns) ==
  {n \in ns : cand[n] = a /\ (n \notin Installed \/ {NameOf[a]} \cap ({n} \cup Chosen) = {})}

Packs(remove, ns) ==
  [remove |-> remove, update |-> Updates(ns),
   install |-> [a \in Pkgs |-> Cardinality(InstallsOf(a, ns))]]

\* With --nodeps only the names that were looked at are answered, and one
\* without a candidate is an index out of range; nothing is removed for what a
\* candidate provides.
UpgradeDone ==
  /\ pc = "solve" /\ frames = <<>> /\ checked = pList /\ Outer = 1
  /\ \/ ~problem.nodeps /\ answer' = Packs(Removals(Chosen), Chosen) /\ pc' = "done"
     \/ /\ problem.nodeps /\ pList \subseteq Chosen
        /\ answer' = Packs(pList \cap Installed, pList) /\ pc' = "done"
     \/ problem.nodeps /\ ~(pList \subseteq Chosen) /\ pc' = "failed" /\ UNCHANGED answer
  /\ UNCHANGED <<problem, avail, merge, pList, cand, prov, frames, checked>>

-----------------------------------------------------------------------------
NoAnswer == [remove |-> {}, update |-> {}, install |-> [a \in Pkgs |-> 0]]

UpgradeInit ==
  /\ Init /\ checked = {} /\ answer = NoAnswer

UpgradeNext ==
  \/ Next /\ UNCHANGED <<checked, answer>>
  \/ \E n \in Names : Analyse(n)
  \/ Analysed \/ Check \/ TryUpgrade \/ Stay \/ UpSettled \/ UpGiveUp
  \/ UpResolve \/ Upgraded \/ UpgradeDone

\* One goroutine solves, after the goroutines of the installed packages.
UpgradeSpec == UpgradeInit /\ [][UpgradeNext]_upgradeVars /\ WF_upgradeVars(UpgradeNext)

-----------------------------------------------------------------------------
(* Properties.                                                             *)

Answered == pc = "done" /\ problem.kind = "upgrade"
New == answer.update \cup {a \in Pkgs : answer.install[a] > 0}
Stays == {w \in World : NameOf[w] \notin answer.remove}

\* The package that replaces n is left out for a version of its own that is a
\* candidate too, and that may not provide n any more.
ReplacedInVain(n) ==
  \E m \in Chosen :
    /\ n \in {m} \cup Provides[cand[m]]
    /\ NameOf[cand[m]] # m /\ NameOf[cand[m]] \in Chosen

\* Nothing is removed without a package of the answer that has its name or
\* provides it, with that one exception.
RemovedIsReplaced ==
  Answered => \A n \in answer.remove :
    \/ \E p \in New : n = NameOf[p] \/ n \in Provides[p]
    \/ ReplacedInVain(n)

\* A package is in the pack to install once, unless it replaces several
\* installed names; never in the pack to update as well.
InstalledOnce ==
  Answered => \A a \in Pkgs : answer.install[a] > 0 =>
    /\ a \notin answer.update
    /\ answer.install[a] = 1 \/ Cardinality(Provides[a] \cap Installed) > 1

\* The candidates that replace an installed name by what they provide and are
\* no candidates under their own name, which may be installed too.
Replacers == {cand[m] : m \in {n \in Installed \cap Chosen :
                                 NameOf[cand[n]] # n /\ NameOf[cand[n]] \notin Chosen}}

\* Only installed names are removed, those of the pack to update among them.
UpdatesRemoved ==
  Answered => answer.remove \subseteq Installed /\ NamesIn(answer.update) \subseteq answer.remove

\* Two versions of one name never come together, and a name of the pack to
\* install is not installed, but for replacers: nothing compares the names that
\* two of them have, nor asks whether theirs is installed.
NamesApart ==
  Answered =>
    /\ \A a, b \in New : NameOf[a] = NameOf[b] /\ a # b => {a, b} \subseteq Replacers
    /\ \A a \in Pkgs : answer.install[a] > 0 /\ NameOf[a] \in Installed => a \in Replacers

\* What Installer's Upgrade assumes of a plan (old \subseteq Installed, the
\* names of upd among those of old, DistinctNames and NamesFree), that a removed
\* package is replaced, and that a package comes once, with the three cases in
\* which the solver does not give it.
PlanForInstaller == UpdatesRemoved /\ NamesApart /\ RemovedIsReplaced /\ InstalledOnce

\* No package provides n, and no version of n provides anything.
Plain(n) == \A a \in Versions(n) : NameOf[a] = n /\ Provides[a] = {}

\* A package of the repositories requires n and does not admit the old version.
RefusesOld(n) == \E x \in Repo : n \in Range(Requires[x]) /\ ~Admit(x, Old(n))

\* Without --deep no installed name goes back to an older version, although
\* the version that is kept is not the one that was tried last.  Where a
\* provides is involved, or a new package refuses the old version of what it
\* requires, resolvePackage chooses, which does not look at what is installed.
NoDowngrade ==
  Answered /\ ~problem.deep =>
    \A n \in Installed \cap Chosen :
      Plain(n) /\ ~RefusesOld(n) => Rank[cand[n]] >= Rank[Old(n)]

\* (violated) "Deep analyzing with downgrade" (--deep, cmd/upgrade.go): without
\* it no package is updated to an older version.
DowngradeOnlyDeep ==
  Answered /\ ~problem.deep => \A a \in answer.update : Rank[a] >= Rank[Old(NameOf[a])]

\* One version may come for each installed name, by that name or as a provider,
\* and it provides what the installed one does: the users of an installed
\* package are only asked about its name.
OneUpgradeEach ==
  \A w \in World : \A a, b \in Versions(NameOf[w]) :
    a = b /\ Provides[w] \subseteq {NameOf[a]} \cup Provides[a]

\* A version of an installed name serves n, which is not installed.  It may be
\* given up after a new package that requires n has been settled with it, and
\* that package stays in the answer.
Abandonable(n) ==
  /\ n \notin Installed
  /\ \E a \in OfName(Repo, n) \cup Providers(Repo, n) : \E m \in Installed : a \in Versions(m)

\* Each require of p, but those, has a package on the system after the upgrade.
StillRequires(p) ==
  \A n \in Range(Requires[p]) :
    Abandonable(n) \/ \E w \in Stays \cup New : n = NameOf[w] \/ n \in Provides[w]

\* When the repositories hold one version of each name an upgrade without
\* --nodeps and --force leaves no package without one that it requires.
UpgradeCloses ==
  Answered /\ ~problem.nodeps /\ ~problem.force /\ OneVersionEach /\ OneUpgradeEach
    /\ (\A w \in World : \A n \in Range(Requires[w]) :
          \E x \in World : n = NameOf[x] \/ n \in Provides[x])
    => \A p \in Stays \cup New : StillRequires(p)

\* (violated) "Retrieve the version with the major version that is admitted by
\* all installed packages".
UsersAdmitUpdates ==
  Answered => \A a \in answer.update : \A u \in Stays : Admit(u, a)
================================================================================
