------------------------------ MODULE SystemDB ------------------------------
(***************************************************************************)
(* The system database shared by the commands of anise                     *)
(* (pkg/package/database_boltdb.go).  The first access of a process locks  *)
(* the file and keeps it until the process closes it or ends; the first    *)
(* access of another waits 30 s and then fails, and what a failed read     *)
(* answers is the business of its caller: World() answers no packages.     *)
(* Only install, upgrade and uninstall take anise.lock besides.            *)
(*                                                                         *)
(* Once a process has the file no other can write, so the accesses that    *)
(* follow in one operation are one step; the crashes between them are in   *)
(* Installer.  The answer of the solver is any plan within its contract    *)
(* (SolverInstall), the repositories do not change.                        *)
(***************************************************************************)
EXTENDS Naturals, FiniteSets, Sequences

CONSTANTS
  Procs,        \* processes, each runs one command
  NoProc,       \* nobody has the file
  Commands,     \* commands explored: [op, args, with, force, nodeps]
  Pkgs, NameOf, \* versions and the name of each
  Requires,     \* [Pkgs -> set of names]
  Provides,     \* [Pkgs -> set of names]
  Scripted,     \* versions with a finalizer
  Repo,         \* versions the enabled repositories have and no mask hides
  Worlds,       \* sets of packages stored at the start
  Concurrency,  \* general.concurrency
  SearchFails,  \* a search of the repositories may fail
  MaxKills      \* bound: processes killed

Ops == {"install", "uninstall", "create", "remove", "miner remove",
        "miner replace", "orphans", "get"}
Names == {NameOf[k] : k \in Pkgs}

ASSUME SystemDBAssumption ==
  /\ NoProc \notin Procs
  /\ \A c \in Commands : c.op \in Ops
  /\ Repo \cup Scripted \cup UNION Worlds \subseteq Pkgs
  /\ IsFiniteSet(Pkgs)
  /\ Concurrency \in Nat \ {0} /\ MaxKills \in Nat
  /\ \A W \in Worlds : \A j, k \in W : NameOf[j] = NameOf[k] => j = k

VARIABLES
  recs,    \* how many records of each version are stored
  files,   \* versions with a PackageFile record, at most one of each
  fins,    \* versions with a PackageFinalizer record, at most one of each
  holder,  \* the process that has the file open
  blind,   \* processes an access of which has timed out
  made,    \* [Procs -> versions it created], the provides it knows
  cmd,     \* [Procs -> Commands]
  proc,    \* [Procs -> its program counter and locals]
  kills

db == <<recs, files, fins>>
vars == <<recs, files, fins, holder, blind, made, cmd, proc, kills>>

Stored == {k \in Pkgs : recs[k] > 0}
NamesIn(S) == {NameOf[k] : k \in S}
Provided(S) == UNION {Provides[k] : k \in S}
DistinctNames(S) == \A j, k \in S : NameOf[j] = NameOf[k] => j = k

\* args and with are sequences of names, of versions for create and remove.
Range1(s) == {s[i] : i \in DOMAIN s}
Args(p) == Range1(cmd[p].args)
Forced(p) == cmd[p].force

-----------------------------------------------------------------------------
(* The file.                                                               *)

\* Every access closes the file again.
BugKept(p) == NoProc

\* open() keeps the handle.
Kept(p) == p

Reach(p) == holder \in {p, NoProc} /\ holder' = Kept(p) /\ UNCHANGED blind

\* The time is up; a process that has the file never waits.
Blocked(p) ==
  /\ holder \notin {p, NoProc}
  /\ blind' = blind \cup {p}
  /\ UNCHANGED holder

NoAccess == UNCHANGED <<holder, blind>>

\* World(), as p reads it: what is stored, or nothing after 30 s.
Views(p) == Reach(p) \/ Blocked(p)

\* Goes on without what the database says.
BugView(p) == {}

View(p) == IF holder \in {p, NoProc} THEN Stored ELSE {}

\* The fields of r change in the state of p.
Set(p, r) ==
  proc' = [proc EXCEPT ![p] = [f \in DOMAIN proc[p] |->
                                 IF f \in DOMAIN r THEN r[f] ELSE proc[p][f]]]
Goto(p, to) == Set(p, [pc |-> to])
Ends(p, exit) == Set(p, [pc |-> "end", exit |-> exit])

Pc(p, at) == proc[p].pc = at
At(p) == cmd[p].args[proc[p].at]
More(p) == proc[p].at <= Len(cmd[p].args)
\* The package at work, when some of its accesses were already tried.
Current(p, k) == k \in proc[p].list /\ proc[p].cur \in {{}, {k}}
NextArg(p) == [pc |-> proc[p].pc, seen |-> proc[p].seen, at |-> proc[p].at + 1, stage |-> 1]

Busy(p) == proc[p].pc \notin {"start", "done"}
Locked == {"install", "uninstall"}

Entry(op) ==
  CASE op = "install" -> "world"
    [] op = "uninstall" -> "find"
    [] op = "create" -> "present"
    [] op = "remove" -> "erase"
    [] op \in {"miner remove", "miner replace"} -> "search"
    [] op \in {"orphans", "get"} -> "read"

\* The pre-run hook: anise.lock is taken or the command refused.
Start(p) ==
  /\ Pc(p, "start")
  /\ IF \E q \in Procs \ {p} : Busy(q) /\ {cmd[p].op, cmd[q].op} \subseteq Locked
       THEN Ends(p, "refused") ELSE Goto(p, Entry(cmd[p].op))
  /\ NoAccess /\ UNCHANGED <<db, made, cmd, kills>>

\* The process closes the database and ends.
Exit(p) ==
  /\ Pc(p, "end")
  /\ Goto(p, "done")
  /\ holder' = IF holder = p THEN NoProc ELSE holder
  /\ UNCHANGED <<db, blind, made, cmd, kills>>

\* A kill: the system frees the file.
Kill(p) ==
  /\ kills < MaxKills /\ Busy(p)
  /\ kills' = kills + 1
  /\ Set(p, [pc |-> "done", exit |-> "killed"])
  /\ holder' = IF holder = p THEN NoProc ELSE holder
  /\ UNCHANGED <<db, blind, made, cmd>>

-----------------------------------------------------------------------------
(* uninstall                                                               *)

Missing(p) == IF Forced(p) THEN Set(p, NextArg(p)) ELSE Ends(p, "error")

\* FindPackages of an argument; the first of several versions is taken.
Find(p) ==
  /\ Pc(p, "find") /\ More(p)
  /\ \/ /\ Reach(p)
        /\ LET found == {k \in Stored : NameOf[k] = At(p)}
           IN \/ found = {} /\ Missing(p)
              \/ \E k \in found : Set(p, [NextArg(p) EXCEPT !.seen = @ \cup {k}])
     \/ Blocked(p) /\ Missing(p)
  /\ UNCHANGED <<db, made, cmd, kills>>

\* Looks at what provides the name only.
BugLinked(k, names) == Provides[k] \cap names # {}

\* AddRdep2Map: under a name are the packages that require or provide it.
Linked(k, names) == (Requires[k] \cup Provides[k]) \cap names # {}

\* recursiveResolveRdep: a name that is resolved is not looked at again.
Closure(S, W) ==
  LET Grow[n \in 0..Cardinality(Names)] ==
        IF n = 0 THEN S
        ELSE LET R == Grow[n - 1]
                 new == {k \in W : NameOf[k] \notin NamesIn(R) /\ Linked(k, NamesIn(R))}
             IN R \cup {CHOOSE k \in new : NameOf[k] = m : m \in NamesIn(new)}
  IN Grow[Cardinality(Names)]

\* The world is read again for the closure; with nothing found the command
\* is done, and reports success.
Resolve(p) ==
  /\ Pc(p, "find") /\ ~More(p)
  /\ \/ proc[p].seen = {} /\ NoAccess /\ Ends(p, "ok")
     \/ /\ proc[p].seen # {}
        /\ \/ cmd[p].nodeps /\ NoAccess
              /\ Set(p, [pc |-> "drop", list |-> proc[p].seen, gone |-> proc[p].seen])
           \/ /\ ~cmd[p].nodeps /\ Views(p)
              /\ LET S == Closure(proc[p].seen, View(p))
                 IN Set(p, [pc |-> "drop", list |-> S, gone |-> S])
  /\ UNCHANGED <<db, made, cmd, kills>>

-----------------------------------------------------------------------------
(* miner remove-package and replace-package                                *)

\* SearchInstalled with a database of its own; only the name is compared.
Search(p) ==
  /\ Pc(p, "search")
  /\ \/ /\ Reach(p)
        /\ Set(p, [pc |-> "close", list |-> {k \in Stored : NameOf[k] \in Args(p)}])
     \/ Blocked(p) /\ Set(p, [pc |-> "close", list |-> {}])
  /\ UNCHANGED <<db, made, cmd, kills>>

\* searcher.Close(): from here to the first removal others can write.
Close(p) ==
  /\ Pc(p, "close")
  /\ holder' = IF holder = p THEN NoProc ELSE holder
  /\ LET few == Cardinality(proc[p].list) # Len(cmd[p].args)
     IN IF few /\ cmd[p].op = "miner replace" THEN Ends(p, "error")
        ELSE Set(p, [pc |-> "drop", fail |-> few])
  /\ UNCHANGED <<db, blind, made, cmd, kills>>

-----------------------------------------------------------------------------
(* RemovePackage, for the three commands that remove.                      *)

\* k is done.  Without --force uninstall stops at the first error, and the
\* replacement stops at any.
Dropped(p, k, ok) ==
  LET list == proc[p].list \ {k}
      fail == proc[p].fail \/ ~ok
  IN IF ~ok /\ cmd[p].op # "miner remove" THEN Ends(p, "error")
     ELSE Set(p, [list |-> list, fail |-> fail, stage |-> 1, cur |-> {}])

\* The accesses of RemovePackage in order: 1 the file list, 2 its removal,
\* 3 the finalizer, 4 the record.  --force passes over each that fails.
Drop(p, k) ==
  /\ Pc(p, "drop") /\ Current(p, k)
  /\ LET s == proc[p].stage
         listed == s > 2 \/ k \in files
     IN \/ /\ Blocked(p) /\ UNCHANGED db
           /\ IF ~Forced(p) THEN Dropped(p, k, FALSE)
              ELSE IF s = 4 THEN Dropped(p, k, TRUE)
              ELSE Set(p, [stage |-> s + 1, cur |-> {k}])
        \/ /\ Reach(p)
           /\ IF ~listed /\ ~Forced(p) THEN UNCHANGED db /\ Dropped(p, k, FALSE)
              ELSE /\ files' = IF s <= 2 THEN files \ {k} ELSE files
                   /\ fins' = IF s <= 3 THEN fins \ {k} ELSE fins
                   /\ recs' = IF k \in Stored THEN [recs EXCEPT ![k] = @ - 1] ELSE recs
                   /\ Dropped(p, k, Forced(p) \/ k \in Stored)
  /\ UNCHANGED <<made, cmd, kills>>

DropEnds(p) ==
  /\ Pc(p, "drop") /\ proc[p].list = {}
  /\ IF cmd[p].op = "miner replace" THEN Goto(p, "world")
     ELSE Ends(p, IF proc[p].fail THEN "error" ELSE "ok")
  /\ NoAccess /\ UNCHANGED <<db, made, cmd, kills>>

-----------------------------------------------------------------------------
(* install, and the second half of miner replace-package.                  *)

Asked(p) == IF cmd[p].op = "install" THEN Args(p) ELSE Range1(cmd[p].with)

\* _install_s1 leaves out the names that are installed or provided.
World(p) ==
  /\ Pc(p, "world") /\ Views(p)
  /\ LET V == View(p)
         want == Asked(p) \ (NamesIn(V) \cup Provided(V))
     IN IF want = {} THEN Ends(p, "ok") ELSE Set(p, [pc |-> "solve", want |-> want])
  /\ UNCHANGED <<db, made, cmd, kills>>

\* What the solver may answer for the names want over the world V.
Plans(want, V, nodeps) ==
  {S \in SUBSET Repo :
     /\ DistinctNames(S)
     /\ want \subseteq NamesIn(S) /\ NamesIn(S) \cap NamesIn(V) = {}
     /\ NamesIn(S) \subseteq want \cup (IF nodeps THEN {} ELSE UNION {Requires[k] : k \in S})
     /\ nodeps \/ \A k \in S : Requires[k] \subseteq NamesIn(V \cup S) \cup Provided(V \cup S)}

\* The solver reads the world a second time and leaves out what it finds.
Solve(p) ==
  /\ Pc(p, "solve") /\ Views(p)
  /\ LET V == View(p)
         want == proc[p].want \ NamesIn(V)
         plans == Plans(want, V, cmd[p].nodeps)
     IN IF want = {} THEN Ends(p, "ok")
        ELSE IF plans = {} THEN Ends(p, "error")
        ELSE \E S \in plans : Set(p, [pc |-> "check", list |-> S])
  /\ UNCHANGED <<db, made, cmd, kills>>

\* CheckFileConflicts reads the world when a path exists, and may refuse.
Check(p) ==
  /\ Pc(p, "check")
  /\ \/ NoAccess /\ Goto(p, "store")
     \/ Views(p) /\ Goto(p, "store")
     \/ ~Forced(p) /\ Reach(p) /\ Ends(p, "error")
  /\ UNCHANGED <<db, made, cmd, kills>>

\* k is done; without --force the command stops at an error.
Registered(p, k, ok) ==
  IF ~ok /\ ~Forced(p) THEN Ends(p, "error")
  ELSE Set(p, [list |-> proc[p].list \ {k}, fail |-> proc[p].fail \/ ~ok,
               stage |-> 1, cur |-> {}])

\* RegisterPackage in order: 1 the file list, 2 the finalizer, 3 the record.
\* A list or a finalizer is unique, a record is not.
Register(p, k) ==
  /\ Pc(p, "store") /\ Current(p, k)
  /\ LET s == proc[p].stage
         listed == s = 1 /\ k \in files /\ ~Forced(p)
         scripted == s <= 2 /\ k \in Scripted /\ k \in fins /\ ~Forced(p)
     IN \/ /\ Blocked(p) /\ UNCHANGED <<db, made>>
           /\ IF s = 3 \/ ~Forced(p) THEN Registered(p, k, FALSE)
              ELSE Set(p, [stage |-> IF k \in Scripted THEN s + 1 ELSE 3, cur |-> {k}])
        \/ /\ Reach(p)
           /\ files' = IF s = 1 THEN files \cup {k} ELSE files
           /\ fins' = IF s <= 2 /\ ~listed THEN fins \cup ({k} \cap Scripted) ELSE fins
           /\ IF listed \/ scripted THEN UNCHANGED <<recs, made>> /\ Registered(p, k, FALSE)
              ELSE /\ recs' = [recs EXCEPT ![k] = @ + 1]
                   /\ made' = [made EXCEPT ![p] = @ \cup {k}]
                   /\ Registered(p, k, TRUE)
  /\ UNCHANGED <<cmd, kills>>

StoreEnds(p) ==
  /\ Pc(p, "store") /\ proc[p].list = {}
  /\ Ends(p, IF proc[p].fail THEN "error" ELSE "ok")
  /\ NoAccess /\ UNCHANGED <<db, made, cmd, kills>>

-----------------------------------------------------------------------------
(* database create and database remove                                     *)

\* FindPackage: this version, or one created by this process that provides it.
PresentIn(W, p, k) == k \in W \/ NameOf[k] \in Provided(made[p])

\* An error of FindPackage, a time out among them, means not present.
Present(p) ==
  /\ Pc(p, "present") /\ More(p) /\ Views(p)
  /\ IF PresentIn(View(p), p, At(p)) THEN Ends(p, "error") ELSE Goto(p, "insert")
  /\ UNCHANGED <<db, made, cmd, kills>>

\* CreatePackage, then SetPackageFiles, which fails on a second list.
Insert(p) ==
  /\ Pc(p, "insert")
  /\ \/ Blocked(p) /\ Ends(p, "error") /\ UNCHANGED <<db, made>>
     \/ /\ Reach(p)
        /\ recs' = [recs EXCEPT ![At(p)] = @ + 1]
        /\ made' = [made EXCEPT ![p] = @ \cup {At(p)}]
        /\ files' = files \cup {At(p)} /\ UNCHANGED fins
        /\ IF At(p) \in files THEN Ends(p, "error")
           ELSE Set(p, [NextArg(p) EXCEPT !.pc = "present"])
  /\ UNCHANGED <<cmd, kills>>

\* Accesses of an argument: 1 the record, 2 the file list, 3 the finalizer,
\* whose error is a warning.
Erase(p) ==
  /\ Pc(p, "erase") /\ More(p)
  /\ LET s == proc[p].stage
         k == At(p)
         stop1 == s = 1 /\ k \notin Stored /\ ~Forced(p)
         stop2 == s <= 2 /\ k \notin files /\ ~Forced(p)
     IN \/ /\ Blocked(p) /\ UNCHANGED db
           /\ IF s = 3 THEN Set(p, NextArg(p))
              ELSE IF Forced(p) THEN Set(p, [stage |-> s + 1]) ELSE Ends(p, "error")
        \/ /\ Reach(p)
           /\ recs' = IF s = 1 /\ k \in Stored THEN [recs EXCEPT ![k] = @ - 1] ELSE recs
           /\ IF stop1 \/ stop2 THEN UNCHANGED <<files, fins>> /\ Ends(p, "error")
              ELSE /\ files' = IF s <= 2 THEN files \ {k} ELSE files
                   /\ fins' = fins \ {k}
                   /\ Set(p, NextArg(p))
  /\ UNCHANGED <<made, cmd, kills>>

ArgsEnd(p) ==
  /\ proc[p].pc \in {"present", "erase"} /\ ~More(p)
  /\ Ends(p, "ok")
  /\ NoAccess /\ UNCHANGED <<db, made, cmd, kills>>

-----------------------------------------------------------------------------
(* query orphans, and database get.                                        *)

\* One package for each name.
OneOfEach(W) == {CHOOSE k \in W : NameOf[k] = n : n \in NamesIn(W)}

Read(p) ==
  /\ Pc(p, "read") /\ Views(p)
  /\ IF cmd[p].op = "get"
       THEN Set(p, [pc |-> "end", exit |-> "ok",
                    answer |-> {k \in View(p) : NameOf[k] \in Args(p)}])
       ELSE Set(p, [pc |-> "orphans", list |-> OneOfEach(View(p))])
  /\ UNCHANGED <<db, made, cmd, kills>>

\* The search finds this version or a package that provides its name.
Orphan(k) == k \notin Repo /\ NameOf[k] \notin Provided(Repo)

\* A goroutine for each package waits for a place.
Acquire(p, k) ==
  /\ Pc(p, "orphans") /\ k \in proc[p].list
  /\ Cardinality(proc[p].work) < Concurrency
  /\ Set(p, [list |-> proc[p].list \ {k}, work |-> proc[p].work \cup {k}])
  /\ NoAccess /\ UNCHANGED <<db, made, cmd, kills>>

\* It sends its result while it has the place; the channel has room for as many.
Send(p, k) ==
  /\ Pc(p, "orphans") /\ k \in proc[p].work
  /\ Len(proc[p].ch) < Concurrency
  /\ \E bad \in {FALSE, SearchFails} :
       Set(p, [work |-> proc[p].work \ {k},
               ch |-> Append(proc[p].ch, [pkg |-> k, bad |-> bad])])
  /\ NoAccess /\ UNCHANGED <<db, made, cmd, kills>>

\* A result without error and without package is not kept; neither is one
\* whose search failed.
Receive(p) ==
  /\ Pc(p, "orphans") /\ proc[p].ch # <<>>
  /\ LET m == Head(proc[p].ch)
     IN Set(p, [ch |-> Tail(proc[p].ch), fail |-> proc[p].fail \/ m.bad,
                answer |-> IF Orphan(m.pkg) THEN proc[p].answer \cup {m.pkg}
                           ELSE proc[p].answer])
  /\ NoAccess /\ UNCHANGED <<db, made, cmd, kills>>

OrphansEnd(p) ==
  /\ Pc(p, "orphans")
  /\ proc[p].list = {} /\ proc[p].work = {} /\ proc[p].ch = <<>>
  /\ Ends(p, IF proc[p].fail THEN "error" ELSE "ok")
  /\ NoAccess /\ UNCHANGED <<db, made, cmd, kills>>

-----------------------------------------------------------------------------
Idle == [pc |-> "start", at |-> 1, stage |-> 1, cur |-> {}, seen |-> {}, list |-> {}, gone |-> {},
         want |-> {}, work |-> {}, ch |-> <<>>, answer |-> {}, fail |-> FALSE,
         exit |-> "none"]

Init ==
  /\ \E W \in Worlds : recs = [k \in Pkgs |-> IF k \in W THEN 1 ELSE 0]
                       /\ files = W /\ fins = W \cap Scripted
  /\ holder = NoProc /\ blind = {} /\ kills = 0
  /\ made = [p \in Procs |-> {}]
  /\ cmd \in [Procs -> Commands]
  /\ proc = [p \in Procs |-> Idle]

Step(p) ==
  \/ Start(p) \/ Exit(p)
  \/ Find(p) \/ Resolve(p) \/ Search(p) \/ Close(p) \/ DropEnds(p)
  \/ World(p) \/ Solve(p) \/ Check(p) \/ StoreEnds(p)
  \/ Present(p) \/ Insert(p) \/ Erase(p) \/ ArgsEnd(p)
  \/ Read(p) \/ Receive(p) \/ OrphansEnd(p)
  \/ \E k \in Pkgs : Drop(p, k) \/ Register(p, k) \/ Acquire(p, k) \/ Send(p, k)

Finished == (\A p \in Procs : Pc(p, "done")) /\ UNCHANGED vars

Next == Finished \/ \E p \in Procs : Step(p) \/ Kill(p)

Spec == Init /\ [][Next]_vars

-----------------------------------------------------------------------------
(* Properties.                                                             *)

\* What uninstall removed nobody left needs: when it reports success, no
\* package that stays requires a removed name, unless another version of that
\* name is still stored or the one that stays is itself a second version of a
\* removed name (recursiveResolveRdep resolves names).  Another process may
\* have tried to store a user of it in between.
UsersGone ==
  [][\A p \in Procs :
       /\ Pc(p, "drop") /\ cmd[p].op = "uninstall" /\ ~cmd[p].nodeps
       /\ proc'[p].pc = "end" /\ proc'[p].exit = "ok"
       => LET names == NamesIn(proc[p].gone)
          IN \A k \in Stored :
               NameOf[k] \notin names => Requires[k] \cap (names \ NamesIn(Stored)) = {}]_vars

\* A query that reports success and never timed out answers what is stored at
\* that moment: every orphan among one version of each name, every version asked.
AnswersComplete ==
  \A p \in Procs :
    /\ Pc(p, "end") /\ proc[p].exit = "ok" /\ p \notin blind
    /\ cmd[p].op \in {"orphans", "get"}
    => proc[p].answer = IF cmd[p].op = "get" THEN {k \in Stored : NameOf[k] \in Args(p)}
                        ELSE {k \in OneOfEach(Stored) : Orphan(k)}

\* Install never adds a second version of a name to a world it could read: two
\* versions of one name need an access that timed out, or database create,
\* which compares versions and not names.
SecondVersionExplained ==
  \A j, k \in Stored :
    j # k /\ NameOf[j] = NameOf[k] =>
      \/ blind # {}
      \/ \E p \in Procs : cmd[p].op = "create" /\ made[p] \cap {j, k} # {}

\* (violated) What "Check if the package is already present" (cmd/database/create.go)
\* says: no version is stored twice.
StoredOnce == \A k \in Pkgs : recs[k] <= 1
=============================================================================
