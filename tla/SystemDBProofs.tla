----------------------------- MODULE SystemDBProofs -----------------------------
(***************************************************************************)
(* Who has the file of the database is alone with it: what a process has   *)
(* read stays true until it closes the file.  Proved for all packages,     *)
(* commands, processes and kills: a second version of a name needs an      *)
(* access that timed out or database create, a query that never timed out  *)
(* answers what is stored when it ends, and an uninstall that succeeds     *)
(* leaves nobody who requires what it removed.                             *)
(***************************************************************************)
EXTENDS SystemDB, FiniteSetTheorems, WellFoundedInduction, TLAPS

Fields == {"pc", "at", "stage", "cur", "seen", "list", "gone", "want", "work", "ch",
           "answer", "fail", "exit"}

Results == [pkg : Pkgs, bad : {FALSE, SearchFails}]

\* The types the argument needs.
ProcTypes == DOMAIN proc = Procs /\ \A p \in Procs : DOMAIN proc[p] = Fields
                                   /\ proc[p].ch \in Seq(Results)

DBTypes ==
  /\ recs \in [Pkgs -> Nat]
  /\ ProcTypes
  /\ DOMAIN made = Procs
  /\ cmd \in [Procs -> Commands]

-----------------------------------------------------------------------------
(* Changes of a process.                                                   *)

\* A change of a process; its channel stays.
Changes(p) ==
  /\ DOMAIN proc' = Procs /\ DOMAIN proc'[p] = Fields /\ proc'[p].ch = proc[p].ch
  /\ \A q \in Procs \ {p} : proc'[q] = proc[q]

LEMMA SetGoto ==
  ASSUME ProcTypes, NEW p \in Procs, NEW to, Goto(p, to)
  PROVE  /\ Changes(p)
         /\ proc'[p].pc = to /\ proc'[p].exit = proc[p].exit /\ proc'[p].list = proc[p].list
         /\ proc'[p].work = proc[p].work /\ proc'[p].answer = proc[p].answer
BY DEF Goto, Set, ProcTypes, Fields, Changes

LEMMA SetEnds ==
  ASSUME ProcTypes, NEW p \in Procs, NEW e, Ends(p, e)
  PROVE  /\ Changes(p)
         /\ proc'[p].pc = "end" /\ proc'[p].exit = e /\ proc'[p].list = proc[p].list
         /\ proc'[p].work = proc[p].work /\ proc'[p].answer = proc[p].answer
BY DEF Ends, Set, ProcTypes, Fields, Changes

LEMMA SetNextArg ==
  ASSUME ProcTypes, NEW p \in Procs, Set(p, NextArg(p))
  PROVE  /\ Changes(p)
         /\ proc'[p].pc = proc[p].pc /\ proc'[p].exit = proc[p].exit /\ proc'[p].list = proc[p].list
         /\ proc'[p].work = proc[p].work /\ proc'[p].answer = proc[p].answer
BY DEF NextArg, Set, ProcTypes, Fields, Changes

LEMMA SetSeen ==
  ASSUME ProcTypes, NEW p \in Procs, NEW S, Set(p, [NextArg(p) EXCEPT !.seen = S])
  PROVE  /\ Changes(p)
         /\ proc'[p].pc = proc[p].pc /\ proc'[p].exit = proc[p].exit /\ proc'[p].list = proc[p].list
         /\ proc'[p].work = proc[p].work /\ proc'[p].answer = proc[p].answer
BY DEF NextArg, Set, ProcTypes, Fields, Changes

LEMMA SetGone ==
  ASSUME ProcTypes, NEW p \in Procs, NEW to, NEW S, Set(p, [pc |-> to, list |-> S, gone |-> S])
  PROVE  /\ Changes(p)
         /\ proc'[p].pc = to /\ proc'[p].exit = proc[p].exit /\ proc'[p].list = S
         /\ proc'[p].work = proc[p].work /\ proc'[p].answer = proc[p].answer
BY DEF Set, ProcTypes, Fields, Changes

LEMMA SetList ==
  ASSUME ProcTypes, NEW p \in Procs, NEW to, NEW S, Set(p, [pc |-> to, list |-> S])
  PROVE  /\ Changes(p)
         /\ proc'[p].pc = to /\ proc'[p].exit = proc[p].exit /\ proc'[p].list = S
         /\ proc'[p].work = proc[p].work /\ proc'[p].answer = proc[p].answer
BY DEF Set, ProcTypes, Fields, Changes

LEMMA SetFail ==
  ASSUME ProcTypes, NEW p \in Procs, NEW to, NEW b, Set(p, [pc |-> to, fail |-> b])
  PROVE  /\ Changes(p)
         /\ proc'[p].pc = to /\ proc'[p].exit = proc[p].exit /\ proc'[p].list = proc[p].list
         /\ proc'[p].work = proc[p].work /\ proc'[p].answer = proc[p].answer
BY DEF Set, ProcTypes, Fields, Changes

LEMMA SetPackage ==
  ASSUME ProcTypes, NEW p \in Procs, NEW S, NEW b, NEW n, NEW c, Set(p, [list |-> S, fail |-> b, stage |-> n, cur |-> c])
  PROVE  /\ Changes(p)
         /\ proc'[p].pc = proc[p].pc /\ proc'[p].exit = proc[p].exit /\ proc'[p].list = S
         /\ proc'[p].work = proc[p].work /\ proc'[p].answer = proc[p].answer
BY DEF Set, ProcTypes, Fields, Changes

LEMMA SetStage ==
  ASSUME ProcTypes, NEW p \in Procs, NEW n, NEW c, Set(p, [stage |-> n, cur |-> c])
  PROVE  /\ Changes(p)
         /\ proc'[p].pc = proc[p].pc /\ proc'[p].exit = proc[p].exit /\ proc'[p].list = proc[p].list
         /\ proc'[p].work = proc[p].work /\ proc'[p].answer = proc[p].answer
BY DEF Set, ProcTypes, Fields, Changes

LEMMA SetWant ==
  ASSUME ProcTypes, NEW p \in Procs, NEW to, NEW S, Set(p, [pc |-> to, want |-> S])
  PROVE  /\ Changes(p)
         /\ proc'[p].pc = to /\ proc'[p].exit = proc[p].exit /\ proc'[p].list = proc[p].list
         /\ proc'[p].work = proc[p].work /\ proc'[p].answer = proc[p].answer
BY DEF Set, ProcTypes, Fields, Changes

LEMMA SetAgain ==
  ASSUME ProcTypes, NEW p \in Procs, NEW to, Set(p, [NextArg(p) EXCEPT !.pc = to])
  PROVE  /\ Changes(p)
         /\ proc'[p].pc = to /\ proc'[p].exit = proc[p].exit /\ proc'[p].list = proc[p].list
         /\ proc'[p].work = proc[p].work /\ proc'[p].answer = proc[p].answer
BY DEF NextArg, Set, ProcTypes, Fields, Changes

LEMMA SetAccess ==
  ASSUME ProcTypes, NEW p \in Procs, NEW n, Set(p, [stage |-> n])
  PROVE  /\ Changes(p)
         /\ proc'[p].pc = proc[p].pc /\ proc'[p].exit = proc[p].exit /\ proc'[p].list = proc[p].list
         /\ proc'[p].work = proc[p].work /\ proc'[p].answer = proc[p].answer
BY DEF Set, ProcTypes, Fields, Changes

LEMMA SetAnswer ==
  ASSUME ProcTypes, NEW p \in Procs, NEW to, NEW e, NEW S, Set(p, [pc |-> to, exit |-> e, answer |-> S])
  PROVE  /\ Changes(p)
         /\ proc'[p].pc = to /\ proc'[p].exit = e /\ proc'[p].list = proc[p].list
         /\ proc'[p].work = proc[p].work /\ proc'[p].answer = S
BY DEF Set, ProcTypes, Fields, Changes

LEMMA SetAcquire ==
  ASSUME ProcTypes, NEW p \in Procs, NEW S, NEW W, Set(p, [list |-> S, work |-> W])
  PROVE  /\ Changes(p)
         /\ proc'[p].pc = proc[p].pc /\ proc'[p].exit = proc[p].exit /\ proc'[p].list = S
         /\ proc'[p].work = W /\ proc'[p].answer = proc[p].answer
BY DEF Set, ProcTypes, Fields, Changes

LEMMA SetExit ==
  ASSUME ProcTypes, NEW p \in Procs, NEW to, NEW e, Set(p, [pc |-> to, exit |-> e])
  PROVE  /\ Changes(p)
         /\ proc'[p].pc = to /\ proc'[p].exit = e /\ proc'[p].list = proc[p].list
         /\ proc'[p].work = proc[p].work /\ proc'[p].answer = proc[p].answer
BY DEF Set, ProcTypes, Fields, Changes

LEMMA SetWork ==
  ASSUME ProcTypes, NEW p \in Procs, NEW W, NEW s \in Seq(Results),
         Set(p, [work |-> W, ch |-> s])
  PROVE  /\ DOMAIN proc' = Procs /\ DOMAIN proc'[p] = Fields
         /\ \A q \in Procs \ {p} : proc'[q] = proc[q]
         /\ proc'[p].pc = proc[p].pc /\ proc'[p].exit = proc[p].exit /\ proc'[p].list = proc[p].list
         /\ proc'[p].work = W /\ proc'[p].ch = s /\ proc'[p].answer = proc[p].answer
BY DEF Set, ProcTypes, Fields

LEMMA SetResult ==
  ASSUME ProcTypes, NEW p \in Procs, NEW s \in Seq(Results), NEW b, NEW S,
         Set(p, [ch |-> s, fail |-> b, answer |-> S])
  PROVE  /\ DOMAIN proc' = Procs /\ DOMAIN proc'[p] = Fields
         /\ \A q \in Procs \ {p} : proc'[q] = proc[q]
         /\ proc'[p].pc = proc[p].pc /\ proc'[p].exit = proc[p].exit /\ proc'[p].list = proc[p].list
         /\ proc'[p].work = proc[p].work /\ proc'[p].ch = s /\ proc'[p].answer = S
BY DEF Set, ProcTypes, Fields

-----------------------------------------------------------------------------
(* The invariant.                                                          *)

Sent(p) == {proc[p].ch[i].pkg : i \in DOMAIN proc[p].ch}

\* What the query of p answers when it is complete.
Whole(p) == IF cmd[p].op = "get" THEN {k \in Stored : NameOf[k] \in Args(p)}
            ELSE {k \in OneOfEach(Stored) : Orphan(k)}

\* The packages of the query that are not judged yet.
Open(p) == {k \in proc[p].list \cup proc[p].work \cup Sent(p) : Orphan(k)}

\* Only database create compares versions and not names.
Creates(p) == proc[p].pc \in {"present", "insert"} => cmd[p].op = "create"

\* A plan that goes to the database has no name twice and none that is stored,
\* and nobody else writes meanwhile.
Plan(p) ==
  /\ DistinctNames(proc[p].list)
  /\ NamesIn(proc[p].list) \cap NamesIn(Stored) = {}

Installs(p) ==
  blind = {} /\ proc[p].pc \in {"check", "store"} => holder = p /\ Plan(p)

\* A query holds the file from its read to its end; what it has answered and
\* what is on the way make the whole answer.
Queries(p) ==
  /\ proc[p].pc \in {"start", "read"} =>
       proc[p].answer = {} /\ proc[p].work = {} /\ proc[p].ch = <<>>
  /\ cmd[p].op \in {"orphans", "get"} =>
       proc[p].pc \in {"start", "read", "orphans", "end", "done"}
  /\ proc[p].pc \in {"read", "orphans"} => cmd[p].op \in {"orphans", "get"}
  /\ proc[p].pc = "orphans" => cmd[p].op = "orphans"
  /\ p \notin blind /\ proc[p].pc = "orphans" =>
       holder = p /\ proc[p].answer \cup Open(p) = Whole(p)
  /\ /\ p \notin blind /\ cmd[p].op \in {"orphans", "get"}
     /\ proc[p].pc = "end" /\ proc[p].exit = "ok"
     => holder = p /\ proc[p].answer = Whole(p)

\* One version of each name, but for what create stored or a time out explains.
Pairs ==
  \A j, k \in Stored :
    j # k /\ NameOf[j] = NameOf[k] =>
      \/ blind # {}
      \/ \E p \in Procs : cmd[p].op = "create" /\ made[p] \cap {j, k} # {}

Own(p) == Creates(p) /\ Installs(p) /\ Queries(p)

DBInv == DBTypes /\ Pairs /\ \A p \in Procs : Own(p)

-----------------------------------------------------------------------------
(* What a step leaves alone.                                               *)

\* A step of p changes nothing of another process, and nothing that the holder
\* of the file relies on.
Frame(p) ==
  /\ \A q \in Procs \ {p} : proc'[q] = proc[q] /\ made'[q] = made[q]
  /\ DOMAIN proc' = Procs /\ DOMAIN made' = Procs
  /\ made[p] \subseteq made'[p]
  /\ cmd' = cmd /\ blind \subseteq blind'
  /\ \A q \in Procs \ {p} : q \in blind' => q \in blind
  /\ \A q \in Procs \ {p} : holder = q => holder' = q /\ recs' = recs

\* A step that stores nothing.
Settles(p) ==
  /\ DBTypes' /\ Frame(p) /\ Own(p)'
  /\ Stored' \subseteq Stored

LEMMA WholeStays ==
  ASSUME NEW p \in Procs, recs' = recs, cmd' = cmd
  PROVE  Whole(p)' = Whole(p) /\ Stored' = Stored
BY DEF Whole, Stored, OneOfEach, NamesIn, Args, Range1, Orphan, Provided

LEMMA OthersOwn ==
  ASSUME SystemDBAssumption, DBTypes, NEW p \in Procs, NEW q \in Procs \ {p}, Own(q), Frame(p)
  PROVE  Own(q)'
<1>1. /\ proc'[q] = proc[q] /\ cmd' = cmd /\ blind \subseteq blind' /\ (q \in blind' => q \in blind)
      /\ (holder = q => holder' = q /\ recs' = recs)
  BY DEF Frame
<1>2. Open(q)' = Open(q)
  BY <1>1 DEF Open, Sent, Orphan, Provided
<1>3. holder = q => Whole(q)' = Whole(q) /\ Stored' = Stored
  BY <1>1, WholeStays
<1>4. Creates(q)'
  BY <1>1 DEF Own, Creates
<1>5. Installs(q)'
  BY <1>1, <1>3 DEF Own, Installs, Plan, DistinctNames, NamesIn
<1>6. Queries(q)'
  BY <1>1, <1>2, <1>3 DEF Own, Queries
<1> QED BY <1>4, <1>5, <1>6 DEF Own

LEMMA PairsStay ==
  ASSUME DBTypes, Pairs, NEW p \in Procs, Frame(p), Stored' \subseteq Stored
  PROVE  Pairs'
<1>1. \A q \in Procs : made[q] \subseteq made'[q] /\ cmd'[q] = cmd[q]
  BY DEF Frame
<1>2. blind \subseteq blind'
  BY DEF Frame
<1> QED BY <1>1, <1>2 DEF Pairs

\* The whole invariant after a step, from what the step does to its process.
LEMMA Together ==
  ASSUME SystemDBAssumption, DBInv, NEW p \in Procs,
         DBTypes', Frame(p), Own(p)', Pairs'
  PROVE  DBInv'
<1>1. ASSUME NEW q \in Procs PROVE Own(q)'
  <2>1. CASE q = p
    BY <2>1
  <2>2. CASE q # p
    BY <2>2, OthersOwn DEF DBInv
  <2> QED BY <2>1, <2>2
<1> QED BY <1>1 DEF DBInv

LEMMA TogetherSettled ==
  ASSUME SystemDBAssumption, DBInv, NEW p \in Procs, Settles(p)
  PROVE  DBInv'
BY Together, PairsStay DEF Settles, DBInv

-----------------------------------------------------------------------------
(* The file.                                                               *)

\* What an access does to the file.
Accesses(p) == Reach(p) \/ Blocked(p) \/ NoAccess

\* The file after an access, or when p gives it back.
LEMMA FileOfOthers ==
  ASSUME SystemDBAssumption, NEW p \in Procs,
         \/ Accesses(p)
         \/ UNCHANGED blind /\ holder' = IF holder = p THEN NoProc ELSE holder
  PROVE  /\ blind \subseteq blind'
         /\ \A q \in Procs \ {p} : q \in blind' => q \in blind
         /\ \A q \in Procs \ {p} : holder = q => holder' = q
BY DEF Accesses, Reach, Blocked, NoAccess, Kept, SystemDBAssumption

\* A step that changes the process and leaves the records alone.
LEMMA StepFrame ==
  ASSUME SystemDBAssumption, DBTypes, NEW p \in Procs, Changes(p),
         UNCHANGED <<recs, made, cmd>>,
         \/ Accesses(p)
         \/ UNCHANGED blind /\ holder' = IF holder = p THEN NoProc ELSE holder
  PROVE  DBTypes' /\ Frame(p) /\ Stored' = Stored /\ Whole(p)' = Whole(p)
<1>1. DBTypes'
  BY DEF DBTypes, ProcTypes, Changes
<1>2. Frame(p)
  BY FileOfOthers DEF DBTypes, Changes, Frame
<1> QED BY <1>1, <1>2, WholeStays

\* A process that is nowhere near a plan or a query keeps its part.
Elsewhere == {"find", "search", "close", "drop", "world", "solve", "erase", "done"}

LEMMA OwnElsewhere ==
  ASSUME NEW p \in Procs, cmd' = cmd, proc'[p].pc \in Elsewhere,
         cmd[p].op \in {"orphans", "get"} => proc'[p].pc = "done"
  PROVE  Own(p)'
BY DEF Own, Creates, Installs, Queries, Elsewhere

LEMMA OwnEnds ==
  ASSUME NEW p \in Procs, cmd' = cmd, proc'[p].pc = "end",
         cmd[p].op \in {"orphans", "get"} => proc'[p].exit # "ok"
  PROVE  Own(p)'
BY DEF Own, Creates, Installs, Queries

LEMMA NoQuery ==
  ASSUME NEW p \in Procs, Own(p), proc[p].pc \notin {"start", "read", "orphans", "end", "done"}
  PROVE  cmd[p].op \notin {"orphans", "get"}
BY DEF Own, Queries

\* A step of a process that installs nothing and asks nothing.
LEMMA Plain ==
  ASSUME SystemDBAssumption, DBTypes, NEW p \in Procs, Own(p), Changes(p),
         UNCHANGED <<recs, made, cmd>>,
         \/ Accesses(p)
         \/ UNCHANGED blind /\ holder' = IF holder = p THEN NoProc ELSE holder,
         proc[p].pc \notin {"start", "read", "orphans", "end", "done"},
         proc'[p].pc \in Elsewhere \cup {"end"}
  PROVE  Settles(p)
<1>1. DBTypes' /\ Frame(p) /\ Stored' \subseteq Stored
  BY StepFrame
<1>2. cmd[p].op \notin {"orphans", "get"}
  BY NoQuery
<1>3. Own(p)'
  BY <1>2, OwnElsewhere, OwnEnds
<1> QED BY <1>1, <1>3 DEF Settles

-----------------------------------------------------------------------------
(* The actions.                                                            *)

LEMMA StartStep ==
  ASSUME SystemDBAssumption, DBInv, NEW p \in Procs, Start(p)
  PROVE  Settles(p)
<1>1. DBTypes /\ ProcTypes /\ Own(p)
  BY DEF DBInv, DBTypes
<1>2. UNCHANGED <<recs, made, cmd>> /\ Accesses(p) /\ proc[p].pc = "start"
  BY DEF Start, db, Accesses, Pc
<1>3. CASE Ends(p, "refused")
  <2>1. Changes(p) /\ proc'[p].pc = "end" /\ proc'[p].exit = "refused"
    BY <1>1, <1>3, SetEnds
  <2>2. Own(p)'
    BY <1>2, <2>1, OwnEnds
  <2> QED BY <1>1, <1>2, <2>1, <2>2, StepFrame DEF Settles
<1>4. CASE Goto(p, Entry(cmd[p].op))
  <2>1. Changes(p) /\ proc'[p].pc = Entry(cmd[p].op) /\ proc'[p].work = proc[p].work
        /\ proc'[p].answer = proc[p].answer
    BY <1>1, <1>4, SetGoto
  <2>2. cmd[p].op \in Ops
    BY <1>1 DEF DBTypes, SystemDBAssumption
  <2>3. /\ proc'[p].pc \in {"world", "find", "present", "erase", "search", "read"}
        /\ proc'[p].pc = "present" => cmd[p].op = "create"
        /\ proc'[p].pc = "read" <=> cmd[p].op \in {"orphans", "get"}
    BY <2>1, <2>2 DEF Entry, Ops
  <2>4. proc[p].answer = {} /\ proc[p].work = {} /\ proc[p].ch = <<>>
    BY <1>1, <1>2 DEF Own, Queries
  <2>5. Own(p)'
    BY <1>2, <2>1, <2>3, <2>4 DEF Own, Creates, Installs, Queries, Changes
  <2> QED BY <1>1, <1>2, <2>1, <2>5, StepFrame DEF Settles
<1> QED BY <1>3, <1>4 DEF Start

LEMMA ExitStep ==
  ASSUME SystemDBAssumption, DBInv, NEW p \in Procs, Exit(p)
  PROVE  Settles(p)
<1>1. DBTypes /\ ProcTypes /\ Own(p)
  BY DEF DBInv, DBTypes
<1>2. Changes(p) /\ proc'[p].pc = "done"
  BY <1>1, SetGoto DEF Exit
<1>3. Own(p)'
  BY <1>2, OwnElsewhere DEF Exit, Elsewhere
<1> QED BY <1>1, <1>2, <1>3, StepFrame DEF Settles, Exit, db

LEMMA KillStep ==
  ASSUME SystemDBAssumption, DBInv, NEW p \in Procs, Kill(p)
  PROVE  Settles(p)
<1>1. DBTypes /\ ProcTypes /\ Own(p)
  BY DEF DBInv, DBTypes
<1>2. Changes(p) /\ proc'[p].pc = "done"
  BY <1>1, SetExit DEF Kill
<1>3. Own(p)'
  BY <1>2, OwnElsewhere DEF Kill, Elsewhere
<1> QED BY <1>1, <1>2, <1>3, StepFrame DEF Settles, Kill, db

LEMMA FindStep ==
  ASSUME SystemDBAssumption, DBInv, NEW p \in Procs, Find(p)
  PROVE  Settles(p)
<1>1. DBTypes /\ ProcTypes /\ Own(p)
  BY DEF DBInv, DBTypes
<1>2. UNCHANGED <<recs, made, cmd>> /\ Accesses(p) /\ proc[p].pc = "find"
  BY DEF Find, db, Accesses, Pc
<1>3. Changes(p) /\ proc'[p].pc \in {"find", "end"}
  <2>1. CASE Missing(p)
    BY <1>1, <1>2, <2>1, SetNextArg, SetEnds DEF Missing
  <2>2. CASE \E S : Set(p, [NextArg(p) EXCEPT !.seen = S])
    BY <1>1, <1>2, <2>2, SetSeen
  <2>3. Missing(p) \/ \E S : Set(p, [NextArg(p) EXCEPT !.seen = S])
    BY DEF Find, NextArg
  <2> QED BY <2>1, <2>2, <2>3
<1> QED BY <1>1, <1>2, <1>3, Plain DEF Elsewhere

LEMMA ResolveStep ==
  ASSUME SystemDBAssumption, DBInv, NEW p \in Procs, Resolve(p)
  PROVE  Settles(p)
<1>1. DBTypes /\ ProcTypes /\ Own(p)
  BY DEF DBInv, DBTypes
<1>2. UNCHANGED <<recs, made, cmd>> /\ Accesses(p) /\ proc[p].pc = "find"
  BY DEF Resolve, db, Accesses, Pc, Views
<1>3. Changes(p) /\ proc'[p].pc \in {"drop", "end"}
  BY <1>1, SetEnds, SetGone DEF Resolve
<1> QED BY <1>1, <1>2, <1>3, Plain DEF Elsewhere

LEMMA SearchStep ==
  ASSUME SystemDBAssumption, DBInv, NEW p \in Procs, Search(p)
  PROVE  Settles(p)
<1>1. DBTypes /\ ProcTypes /\ Own(p)
  BY DEF DBInv, DBTypes
<1>2. UNCHANGED <<recs, made, cmd>> /\ Accesses(p) /\ proc[p].pc = "search"
  BY DEF Search, db, Accesses, Pc
<1>3. Changes(p) /\ proc'[p].pc = "close"
  BY <1>1, SetList DEF Search
<1> QED BY <1>1, <1>2, <1>3, Plain DEF Elsewhere

LEMMA CloseStep ==
  ASSUME SystemDBAssumption, DBInv, NEW p \in Procs, Close(p)
  PROVE  Settles(p)
<1>1. DBTypes /\ ProcTypes /\ Own(p)
  BY DEF DBInv, DBTypes
<1>2. UNCHANGED <<recs, made, cmd, blind>> /\ proc[p].pc = "close"
      /\ holder' = IF holder = p THEN NoProc ELSE holder
  BY DEF Close, db, Pc
<1>3. Changes(p) /\ proc'[p].pc \in {"drop", "end"}
  BY <1>1, SetEnds, SetFail DEF Close
<1> QED BY <1>1, <1>2, <1>3, Plain DEF Elsewhere

LEMMA DropEndsStep ==
  ASSUME SystemDBAssumption, DBInv, NEW p \in Procs, DropEnds(p)
  PROVE  Settles(p)
<1>1. DBTypes /\ ProcTypes /\ Own(p)
  BY DEF DBInv, DBTypes
<1>2. UNCHANGED <<recs, made, cmd>> /\ Accesses(p) /\ proc[p].pc = "drop"
  BY DEF DropEnds, db, Accesses, Pc
<1>3. Changes(p) /\ proc'[p].pc \in {"world", "end"}
  BY <1>1, SetEnds, SetGoto DEF DropEnds
<1> QED BY <1>1, <1>2, <1>3, Plain DEF Elsewhere

LEMMA WorldStep ==
  ASSUME SystemDBAssumption, DBInv, NEW p \in Procs, World(p)
  PROVE  Settles(p)
<1>1. DBTypes /\ ProcTypes /\ Own(p)
  BY DEF DBInv, DBTypes
<1>2. UNCHANGED <<recs, made, cmd>> /\ Accesses(p) /\ proc[p].pc = "world"
  BY DEF World, db, Accesses, Pc, Views
<1>3. Changes(p) /\ proc'[p].pc \in {"solve", "end"}
  BY <1>1, SetEnds, SetWant DEF World
<1> QED BY <1>1, <1>2, <1>3, Plain DEF Elsewhere

LEMMA ArgsEndStep ==
  ASSUME SystemDBAssumption, DBInv, NEW p \in Procs, ArgsEnd(p)
  PROVE  Settles(p)
<1>1. DBTypes /\ ProcTypes /\ Own(p)
  BY DEF DBInv, DBTypes
<1>2. UNCHANGED <<recs, made, cmd>> /\ Accesses(p) /\ proc[p].pc \in {"present", "erase"}
  BY DEF ArgsEnd, db, Accesses, Pc
<1>3. Changes(p) /\ proc'[p].pc = "end"
  BY <1>1, SetEnds DEF ArgsEnd
<1> QED BY <1>1, <1>2, <1>3, Plain

LEMMA StoreEndsStep ==
  ASSUME SystemDBAssumption, DBInv, NEW p \in Procs, StoreEnds(p)
  PROVE  Settles(p)
<1>1. DBTypes /\ ProcTypes /\ Own(p)
  BY DEF DBInv, DBTypes
<1>2. UNCHANGED <<recs, made, cmd>> /\ Accesses(p) /\ proc[p].pc = "store"
  BY DEF StoreEnds, db, Accesses, Pc
<1>3. Changes(p) /\ proc'[p].pc = "end"
  BY <1>1, SetEnds DEF StoreEnds
<1> QED BY <1>1, <1>2, <1>3, Plain

LEMMA PresentStep ==
  ASSUME SystemDBAssumption, DBInv, NEW p \in Procs, Present(p)
  PROVE  Settles(p)
<1>1. DBTypes /\ ProcTypes /\ Own(p)
  BY DEF DBInv, DBTypes
<1>2. UNCHANGED <<recs, made, cmd>> /\ Accesses(p) /\ proc[p].pc = "present"
  BY DEF Present, db, Accesses, Pc, Views
<1>3. Changes(p) /\ proc'[p].pc \in {"insert", "end"}
  BY <1>1, SetEnds, SetGoto DEF Present
<1>4. cmd[p].op = "create"
  BY <1>1, <1>2 DEF Own, Creates
<1>5. Own(p)'
  BY <1>2, <1>3, <1>4 DEF Own, Creates, Installs, Queries
<1> QED BY <1>1, <1>2, <1>3, <1>5, StepFrame DEF Settles

\* A step that writes has the file, and nobody else relies on it.
LEMMA WriteFrame ==
  ASSUME SystemDBAssumption, DBTypes, NEW p \in Procs, Changes(p), cmd' = cmd,
         Accesses(p), Reach(p) \/ recs' = recs,
         recs' \in [Pkgs -> Nat], DOMAIN made' = Procs,
         made[p] \subseteq made'[p], \A q \in Procs \ {p} : made'[q] = made[q]
  PROVE  DBTypes' /\ Frame(p)
<1>1. DBTypes'
  BY DEF DBTypes, ProcTypes, Changes
<1>2. \A q \in Procs \ {p} : holder = q => holder' = q /\ recs' = recs
  BY FileOfOthers DEF Reach, SystemDBAssumption
<1>3. Frame(p)
  BY <1>2, FileOfOthers DEF DBTypes, Changes, Frame
<1> QED BY <1>1, <1>3

\* A step that takes a record away, of a process that plans and asks nothing.
LEMMA Takes ==
  ASSUME SystemDBAssumption, DBTypes, NEW p \in Procs, Own(p), Changes(p),
         UNCHANGED <<made, cmd>>, Accesses(p),
         \/ recs' = recs
         \/ Reach(p) /\ \E k \in Stored : recs' = [recs EXCEPT ![k] = recs[k] - 1],
         proc[p].pc \in {"drop", "erase"},
         proc'[p].pc \in Elsewhere \cup {"end"}
  PROVE  Settles(p)
<1>1. recs' \in [Pkgs -> Nat] /\ Stored' \subseteq Stored
  BY DEF DBTypes, Stored
<1>2. DBTypes' /\ Frame(p)
  BY <1>1, WriteFrame DEF DBTypes
<1>3. cmd[p].op \notin {"orphans", "get"}
  BY NoQuery
<1>4. Own(p)'
  BY <1>3, OwnElsewhere, OwnEnds
<1> QED BY <1>1, <1>2, <1>4 DEF Settles

LEMMA DroppedStep ==
  ASSUME ProcTypes, NEW p \in Procs, NEW k, NEW ok, Dropped(p, k, ok)
  PROVE  Changes(p) /\ proc'[p].pc \in {proc[p].pc, "end"}
<1>1. CASE Ends(p, "error")
  BY <1>1, SetEnds
<1>2. CASE \E S, b : Set(p, [list |-> S, fail |-> b, stage |-> 1, cur |-> {}])
  BY <1>2, SetPackage
<1> QED BY <1>1, <1>2 DEF Dropped

LEMMA DropStep ==
  ASSUME SystemDBAssumption, DBInv, NEW p \in Procs, NEW k \in Pkgs, Drop(p, k)
  PROVE  Settles(p)
<1>1. DBTypes /\ ProcTypes /\ Own(p)
  BY DEF DBInv, DBTypes
<1>2. UNCHANGED <<made, cmd>> /\ Accesses(p) /\ proc[p].pc = "drop"
  BY DEF Drop, Accesses, Pc
<1>3. \/ recs' = recs
      \/ Reach(p) /\ \E j \in Stored : recs' = [recs EXCEPT ![j] = recs[j] - 1]
  BY DEF Drop, db
<1>4. (\E ok : Dropped(p, k, ok)) \/ \E n, c : Set(p, [stage |-> n, cur |-> c])
  BY DEF Drop
<1>5. Changes(p) /\ proc'[p].pc \in {"drop", "end"}
  BY <1>1, <1>2, <1>4, DroppedStep, SetStage
<1> QED BY <1>1, <1>2, <1>3, <1>5, Takes DEF Elsewhere

LEMMA EraseStep ==
  ASSUME SystemDBAssumption, DBInv, NEW p \in Procs, Erase(p)
  PROVE  Settles(p)
<1>1. DBTypes /\ ProcTypes /\ Own(p)
  BY DEF DBInv, DBTypes
<1>2. UNCHANGED <<made, cmd>> /\ Accesses(p) /\ proc[p].pc = "erase"
  BY DEF Erase, Accesses, Pc
<1>3. \/ recs' = recs
      \/ Reach(p) /\ \E j \in Stored : recs' = [recs EXCEPT ![j] = recs[j] - 1]
  BY DEF Erase, db
<1>4. Set(p, NextArg(p)) \/ Ends(p, "error") \/ \E n : Set(p, [stage |-> n])
  BY DEF Erase
<1>5. Changes(p) /\ proc'[p].pc \in {"erase", "end"}
  BY <1>1, <1>2, <1>4, SetNextArg, SetEnds, SetAccess
<1> QED BY <1>1, <1>2, <1>3, <1>5, Takes DEF Elsewhere

\* The plan of the solver fits what it read, and what it read is what is stored.
LEMMA SolveStep ==
  ASSUME SystemDBAssumption, DBInv, NEW p \in Procs, Solve(p)
  PROVE  Settles(p)
<1>1. DBTypes /\ ProcTypes /\ Own(p)
  BY DEF DBInv, DBTypes
<1>2. UNCHANGED <<recs, made, cmd>> /\ Accesses(p) /\ proc[p].pc = "solve"
  BY DEF Solve, db, Accesses, Pc, Views
<1>3. cmd[p].op \notin {"orphans", "get"}
  BY <1>1, <1>2, NoQuery
<1>4. CASE \E e : Ends(p, e)
  <2>1. Changes(p) /\ proc'[p].pc = "end"
    BY <1>1, <1>4, SetEnds
  <2> QED BY <1>1, <1>2, <2>1, Plain
<1>5. CASE \E S : /\ Set(p, [pc |-> "check", list |-> S])
                  /\ S \in Plans(proc[p].want \ NamesIn(View(p)), View(p), cmd[p].nodeps)
  <2>1. PICK S : /\ Set(p, [pc |-> "check", list |-> S])
                 /\ S \in Plans(proc[p].want \ NamesIn(View(p)), View(p), cmd[p].nodeps)
    BY <1>5
  <2>2. Changes(p) /\ proc'[p].pc = "check" /\ proc'[p].list = S
    BY <1>1, <2>1, SetList
  <2>3. DBTypes' /\ Frame(p) /\ Stored' = Stored
    BY <1>1, <1>2, <2>2, StepFrame
  <2>4. DistinctNames(S) /\ NamesIn(S) \cap NamesIn(View(p)) = {}
    BY <2>1 DEF Plans
  <2>5. blind' = {} => holder \in {p, NoProc} /\ holder' = p
    BY DEF Solve, Views, Reach, Blocked, Kept
  <2>6. blind' = {} => NamesIn(S) \cap NamesIn(Stored) = {}
    BY <2>4, <2>5 DEF View
  <2>7. Installs(p)'
    BY <2>2, <2>3, <2>4, <2>5, <2>6 DEF Installs, Plan, NamesIn, DistinctNames
  <2>8. Creates(p)' /\ Queries(p)'
    BY <1>2, <1>3, <2>2 DEF Creates, Queries
  <2> QED BY <2>3, <2>7, <2>8 DEF Settles, Own
<1> QED BY <1>4, <1>5 DEF Solve

LEMMA CheckStep ==
  ASSUME SystemDBAssumption, DBInv, NEW p \in Procs, Check(p)
  PROVE  Settles(p)
<1>1. DBTypes /\ ProcTypes /\ Own(p)
  BY DEF DBInv, DBTypes
<1>2. UNCHANGED <<recs, made, cmd>> /\ Accesses(p) /\ proc[p].pc = "check"
  BY DEF Check, db, Accesses, Pc, Views
<1>3. cmd[p].op \notin {"orphans", "get"}
  BY <1>1, <1>2, NoQuery
<1>4. CASE Ends(p, "error")
  <2>1. Changes(p) /\ proc'[p].pc = "end"
    BY <1>1, <1>4, SetEnds
  <2> QED BY <1>1, <1>2, <2>1, Plain
<1>5. CASE Goto(p, "store")
  <2>1. Changes(p) /\ proc'[p].pc = "store" /\ proc'[p].list = proc[p].list
    BY <1>1, <1>5, SetGoto
  <2>2. DBTypes' /\ Frame(p) /\ Stored' = Stored
    BY <1>1, <1>2, <2>1, StepFrame
  <2>3. blind \subseteq blind' /\ (holder = p => holder' = p)
    BY DEF Check, Views, NoAccess, Reach, Blocked, Kept
  <2>4. Installs(p)'
    BY <1>1, <1>2, <2>1, <2>2, <2>3 DEF Own, Installs, Plan, NamesIn, DistinctNames
  <2>5. Creates(p)' /\ Queries(p)'
    BY <1>2, <1>3, <2>1 DEF Creates, Queries
  <2> QED BY <2>2, <2>4, <2>5 DEF Settles, Own
<1> QED BY <1>4, <1>5 DEF Check

LEMMA RegisteredStep ==
  ASSUME ProcTypes, NEW p \in Procs, NEW k, NEW ok, Registered(p, k, ok)
  PROVE  /\ Changes(p)
         /\ \/ proc'[p].pc = "end" /\ ~ok
            \/ proc'[p].pc = proc[p].pc /\ proc'[p].list = proc[p].list \ {k}
<1>1. CASE Ends(p, "error") /\ ~ok
  BY <1>1, SetEnds
<1>2. CASE \E b : Set(p, [list |-> proc[p].list \ {k}, fail |-> b, stage |-> 1, cur |-> {}])
  BY <1>2, SetPackage
<1> QED BY <1>1, <1>2 DEF Registered

\* A step of the installation that stores nothing: the plan shrinks at most.
LEMMA PlanShrinks ==
  ASSUME SystemDBAssumption, DBTypes, NEW p \in Procs, Own(p), Changes(p),
         UNCHANGED <<recs, made, cmd>>, Reach(p) \/ Blocked(p),
         proc[p].pc = "store",
         proc'[p].pc = "end" \/ (proc'[p].pc = "store" /\ proc'[p].list \subseteq proc[p].list)
  PROVE  Settles(p)
<1>1. CASE proc'[p].pc = "end"
  BY <1>1, Plain DEF Accesses
<1>2. CASE proc'[p].pc = "store" /\ proc'[p].list \subseteq proc[p].list
  <2>1. cmd[p].op \notin {"orphans", "get"}
    BY NoQuery
  <2>2. DBTypes' /\ Frame(p) /\ Stored' = Stored
    BY StepFrame DEF Accesses
  <2>3. blind \subseteq blind' /\ (holder = p => holder' = p)
    BY DEF Reach, Blocked, Kept
  <2>4. Installs(p)'
    BY <1>2, <2>2, <2>3 DEF Own, Installs, Plan, NamesIn, DistinctNames
  <2>5. Creates(p)' /\ Queries(p)'
    BY <1>2, <2>1 DEF Creates, Queries
  <2> QED BY <2>2, <2>4, <2>5 DEF Settles, Own
<1> QED BY <1>1, <1>2

\* A record more: it is of the plan, and no name of the plan is stored.
LEMMA RecordStored ==
  ASSUME SystemDBAssumption, DBInv, NEW p \in Procs, NEW k \in Pkgs, Changes(p), cmd' = cmd,
         Reach(p), recs' = [recs EXCEPT ![k] = recs[k] + 1],
         made' = [made EXCEPT ![p] = made[p] \cup {k}],
         proc[p].pc = "store", proc'[p].pc = "store",
         k \in proc[p].list, proc'[p].list = proc[p].list \ {k}
  PROVE  DBInv'
<1>1. DBTypes /\ ProcTypes /\ Own(p) /\ Pairs
  BY DEF DBInv, DBTypes
<1>2. cmd[p].op \notin {"orphans", "get"}
  BY <1>1, NoQuery
<1>3. recs' \in [Pkgs -> Nat] /\ Stored' = Stored \cup {k}
  BY <1>1 DEF DBTypes, Stored
<1>4. /\ DOMAIN made' = Procs /\ made[p] \subseteq made'[p]
      /\ \A q \in Procs \ {p} : made'[q] = made[q]
  BY <1>1 DEF DBTypes
<1>5. DBTypes' /\ Frame(p)
  BY <1>1, <1>3, <1>4, WriteFrame DEF Accesses
<1>6. holder' = p /\ blind' = blind
  BY DEF Reach, Kept
<1>7. blind = {} => DistinctNames(proc[p].list)
                    /\ NamesIn(proc[p].list) \cap NamesIn(Stored) = {}
  BY <1>1 DEF Own, Installs, Plan
<1>8. Installs(p)'
  <2> SUFFICES ASSUME blind = {} PROVE Plan(p)'
    BY <1>6 DEF Installs
  <2>1. DistinctNames(proc'[p].list)
    BY <1>7 DEF DistinctNames
  <2>2. ASSUME NEW i \in proc[p].list \ {k}, NEW j \in Stored \cup {k} PROVE NameOf[i] # NameOf[j]
    BY <1>7 DEF NamesIn, DistinctNames
  <2>3. NamesIn(proc[p].list \ {k}) \cap NamesIn(Stored \cup {k}) = {}
    BY <2>2 DEF NamesIn
  <2>4. NamesIn(proc'[p].list) \cap NamesIn(Stored') = {}
    BY <1>3, <2>3
  <2> QED BY <2>1, <2>4 DEF Plan, DistinctNames, NamesIn
<1>9. Own(p)'
  BY <1>2, <1>8 DEF Own, Creates, Queries
<1>10. Pairs'
  <2>1. ASSUME blind = {}, NEW i \in Stored PROVE NameOf[i] # NameOf[k]
    BY <1>7, <2>1 DEF NamesIn
  <2>2. \A q \in Procs : made[q] \subseteq made'[q]
    BY <1>4
  <2> QED BY <1>1, <1>3, <1>6, <2>1, <2>2 DEF Pairs
<1> QED BY <1>5, <1>9, <1>10, Together

LEMMA RegisterStep ==
  ASSUME SystemDBAssumption, DBInv, NEW p \in Procs, NEW k \in Pkgs, Register(p, k)
  PROVE  DBInv'
<1>1. DBTypes /\ ProcTypes /\ Own(p)
  BY DEF DBInv, DBTypes
<1>2. cmd' = cmd /\ (Reach(p) \/ Blocked(p)) /\ proc[p].pc = "store" /\ k \in proc[p].list
  BY DEF Register, Pc, Current
<1>3. CASE UNCHANGED <<recs, made>> /\ Registered(p, k, FALSE)
  <2>1. Changes(p)
        /\ (proc'[p].pc = "end" \/ (proc'[p].pc = "store" /\ proc'[p].list \subseteq proc[p].list))
    <3>1. /\ Changes(p)
          /\ \/ proc'[p].pc = "end" /\ ~FALSE
             \/ proc'[p].pc = proc[p].pc /\ proc'[p].list = proc[p].list \ {k}
      BY <1>1, <1>3, RegisteredStep
    <3>2. proc[p].list \ {k} \subseteq proc[p].list
      OBVIOUS
    <3> QED BY <1>2, <3>1, <3>2
  <2> QED BY <1>1, <1>2, <1>3, <2>1, PlanShrinks, TogetherSettled
<1>4. CASE UNCHANGED <<recs, made>> /\ \E n, c : Set(p, [stage |-> n, cur |-> c])
  <2>1. Changes(p) /\ proc'[p].pc = "store" /\ proc'[p].list = proc[p].list
    BY <1>1, <1>2, <1>4, SetStage
  <2> QED BY <1>1, <1>2, <1>4, <2>1, PlanShrinks, TogetherSettled
<1>5. CASE /\ Reach(p) /\ recs' = [recs EXCEPT ![k] = recs[k] + 1]
           /\ made' = [made EXCEPT ![p] = made[p] \cup {k}] /\ Registered(p, k, TRUE)
  <2>1. Changes(p) /\ proc'[p].pc = "store" /\ proc'[p].list = proc[p].list \ {k}
    BY <1>1, <1>2, <1>5, RegisteredStep
  <2> QED BY <1>2, <1>5, <2>1, RecordStored
<1>6. \/ UNCHANGED <<recs, made>> /\ Registered(p, k, FALSE)
      \/ UNCHANGED <<recs, made>> /\ \E n, c : Set(p, [stage |-> n, cur |-> c])
      \/ /\ Reach(p) /\ recs' = [recs EXCEPT ![k] = recs[k] + 1]
         /\ made' = [made EXCEPT ![p] = made[p] \cup {k}] /\ Registered(p, k, TRUE)
  BY DEF Register, db
<1> QED BY <1>3, <1>4, <1>5, <1>6

LEMMA InsertStep ==
  ASSUME SystemDBAssumption, DBInv, NEW p \in Procs, Insert(p)
  PROVE  DBInv'
<1>1. DBTypes /\ ProcTypes /\ Own(p) /\ Pairs
  BY DEF DBInv, DBTypes
<1>2. cmd' = cmd /\ Accesses(p) /\ proc[p].pc = "insert"
  BY DEF Insert, Pc, Accesses
<1>3. cmd[p].op = "create"
  BY <1>1, <1>2 DEF Own, Creates
<1>4. CASE Blocked(p) /\ Ends(p, "error") /\ UNCHANGED <<db, made>>
  <2>1. Changes(p) /\ proc'[p].pc = "end"
    BY <1>1, <1>4, SetEnds
  <2> QED BY <1>1, <1>2, <1>4, <2>1, Plain, TogetherSettled DEF db
<1>5. CASE /\ Reach(p) /\ recs' = [recs EXCEPT ![At(p)] = recs[At(p)] + 1]
           /\ made' = [made EXCEPT ![p] = made[p] \cup {At(p)}]
           /\ Ends(p, "error") \/ Set(p, [NextArg(p) EXCEPT !.pc = "present"])
  <2>1. Changes(p) /\ proc'[p].pc \in {"present", "end"}
    BY <1>1, <1>5, SetEnds, SetAgain
  <2>2. recs' \in [Pkgs -> Nat] /\ Stored' \subseteq Stored \cup {At(p)}
    <3> DEFINE k == At(p)
    <3>1. recs' = [recs EXCEPT ![k] = recs[k] + 1]
      BY <1>5
    <3>2. recs \in [Pkgs -> Nat]
      BY <1>1 DEF DBTypes
    <3>3. \A i \in Pkgs : recs'[i] \in Nat /\ (i # k => recs'[i] = recs[i])
      <4> HIDE DEF k
      <4> QED BY <3>1, <3>2
    <3>4. recs' \in [Pkgs -> Nat]
      BY <3>1, <3>2, <3>3
    <3> QED BY <3>2, <3>3, <3>4 DEF Stored
  <2>3. /\ DOMAIN made' = Procs /\ made'[p] = made[p] \cup {At(p)}
        /\ \A q \in Procs \ {p} : made'[q] = made[q]
    BY <1>1, <1>5 DEF DBTypes
  <2>4. DBTypes' /\ Frame(p)
    BY <1>1, <1>2, <1>5, <2>1, <2>2, <2>3, WriteFrame
  <2>5. Own(p)'
    BY <1>2, <1>3, <2>1 DEF Own, Creates, Installs, Queries
  <2>6. blind' = blind
    BY <1>5 DEF Reach
  <2>7. Pairs'
    BY <1>1, <1>2, <1>3, <2>2, <2>3, <2>6 DEF Pairs
  <2> QED BY <2>4, <2>5, <2>7, Together
<1> QED BY <1>4, <1>5 DEF Insert

\* A step of a query: nothing is stored, and p keeps the file or has timed out.
LEMMA Asks ==
  ASSUME SystemDBAssumption, DBTypes, NEW p \in Procs,
         DOMAIN proc' = Procs, DOMAIN proc'[p] = Fields, proc'[p].ch \in Seq(Results),
         \A q \in Procs \ {p} : proc'[q] = proc[q],
         UNCHANGED <<recs, made, cmd>>, Accesses(p)
  PROVE  /\ DBTypes' /\ Frame(p) /\ Stored' = Stored /\ Whole(p)' = Whole(p)
         /\ holder = p => holder' = p
<1>1. DBTypes'
  BY DEF DBTypes, ProcTypes
<1>2. Frame(p)
  BY FileOfOthers DEF DBTypes, Frame
<1>3. holder = p => holder' = p
  BY DEF Accesses, Reach, Blocked, NoAccess, Kept
<1> QED BY <1>1, <1>2, <1>3, WholeStays

LEMMA ReadStep ==
  ASSUME SystemDBAssumption, DBInv, NEW p \in Procs, Read(p)
  PROVE  Settles(p)
<1>1. DBTypes /\ ProcTypes /\ Own(p) /\ proc[p].ch \in Seq(Results)
  BY DEF DBInv, DBTypes, ProcTypes
<1>2. UNCHANGED <<recs, made, cmd>> /\ Accesses(p) /\ proc[p].pc = "read"
      /\ (Reach(p) \/ Blocked(p))
  BY DEF Read, db, Accesses, Pc, Views
<1>3. /\ cmd[p].op \in {"orphans", "get"}
      /\ proc[p].answer = {} /\ proc[p].work = {} /\ proc[p].ch = <<>>
  BY <1>1, <1>2 DEF Own, Queries
<1>4. p \notin blind' => holder' = p /\ View(p) = Stored
  BY <1>2 DEF Reach, Blocked, Kept, View
<1>5. CASE cmd[p].op = "get"
  <2>1. Set(p, [pc |-> "end", exit |-> "ok",
                answer |-> {k \in View(p) : NameOf[k] \in Args(p)}])
    BY <1>5 DEF Read
  <2>2. /\ Changes(p) /\ proc'[p].pc = "end"
        /\ proc'[p].answer = {k \in View(p) : NameOf[k] \in Args(p)}
    BY <1>1, <2>1, SetAnswer
  <2>3. DBTypes' /\ Frame(p) /\ Stored' = Stored /\ Whole(p)' = Whole(p)
    BY <1>1, <1>2, <2>2, StepFrame
  <2>4. p \notin blind' => proc'[p].answer = Whole(p)
    BY <1>4, <1>5, <2>2 DEF Whole
  <2>5. Own(p)'
    BY <1>2, <1>4, <2>2, <2>3, <2>4 DEF Own, Creates, Installs, Queries
  <2> QED BY <2>3, <2>5 DEF Settles
<1>6. CASE cmd[p].op = "orphans"
  <2>1. Set(p, [pc |-> "orphans", list |-> OneOfEach(View(p))])
    BY <1>6 DEF Read
  <2>2. /\ Changes(p) /\ proc'[p].pc = "orphans" /\ proc'[p].list = OneOfEach(View(p))
        /\ proc'[p].work = {} /\ proc'[p].answer = {} /\ proc'[p].ch = <<>>
    BY <1>1, <1>3, <2>1, SetList DEF Changes
  <2>3. DBTypes' /\ Frame(p) /\ Stored' = Stored /\ Whole(p)' = Whole(p)
    BY <1>1, <1>2, <2>2, StepFrame
  <2>4. Open(p)' = {k \in OneOfEach(View(p)) : Orphan(k)}
    <3>1. Sent(p)' = {}
      BY <2>2 DEF Sent
    <3>2. Open(p)' = {k \in proc'[p].list \cup proc'[p].work \cup Sent(p)' : Orphan(k)}
      BY DEF Open, Orphan, Provided
    <3> QED BY <2>2, <3>1, <3>2
  <2>5. p \notin blind' => Open(p)' = Whole(p)
    BY <1>4, <1>6, <2>4 DEF Whole
  <2>6. Own(p)'
    BY <1>2, <1>4, <1>6, <2>2, <2>3, <2>5 DEF Own, Creates, Installs, Queries
  <2> QED BY <2>3, <2>6 DEF Settles
<1> QED BY <1>3, <1>5, <1>6

\* A step between the read and the end of query orphans.
LEMMA Judges ==
  ASSUME SystemDBAssumption, DBInv, NEW p \in Procs,
         DOMAIN proc' = Procs, DOMAIN proc'[p] = Fields, proc'[p].ch \in Seq(Results),
         \A q \in Procs \ {p} : proc'[q] = proc[q],
         UNCHANGED <<recs, made, cmd>>, NoAccess,
         proc[p].pc = "orphans", proc'[p].pc = "orphans",
         proc'[p].answer \cup Open(p)' = proc[p].answer \cup Open(p)
  PROVE  Settles(p)
<1>1. DBTypes /\ Own(p)
  BY DEF DBInv
<1>2. DBTypes' /\ Frame(p) /\ Stored' = Stored /\ Whole(p)' = Whole(p)
  BY <1>1, Asks DEF Accesses
<1>3. Own(p)'
  BY <1>1, <1>2 DEF Own, Creates, Installs, Queries, NoAccess
<1> QED BY <1>2, <1>3 DEF Settles

LEMMA OpenNext ==
  ASSUME NEW p \in Procs
  PROVE  Open(p)' = {k \in proc'[p].list \cup proc'[p].work \cup Sent(p)' : Orphan(k)}
BY DEF Open, Orphan, Provided

LEMMA AcquireStep ==
  ASSUME SystemDBAssumption, DBInv, NEW p \in Procs, NEW k \in Pkgs, Acquire(p, k)
  PROVE  Settles(p)
<1>1. DBTypes /\ ProcTypes /\ Own(p) /\ proc[p].ch \in Seq(Results)
  BY DEF DBInv, DBTypes, ProcTypes
<1>2. UNCHANGED <<recs, made, cmd>> /\ NoAccess /\ proc[p].pc = "orphans" /\ k \in proc[p].list
  BY DEF Acquire, db, Pc
<1>3. /\ Changes(p) /\ proc'[p].pc = "orphans" /\ proc'[p].list = proc[p].list \ {k}
      /\ proc'[p].work = proc[p].work \cup {k} /\ proc'[p].answer = proc[p].answer
  BY <1>1, <1>2, SetAcquire DEF Acquire
<1>4. Sent(p)' = Sent(p)
  BY <1>3 DEF Sent, Changes
<1>5. Open(p)' = Open(p)
  BY <1>2, <1>3, <1>4, OpenNext DEF Open
<1> QED BY <1>1, <1>2, <1>3, <1>5, Judges DEF Changes

LEMMA SendStep ==
  ASSUME SystemDBAssumption, DBInv, NEW p \in Procs, NEW k \in Pkgs, Send(p, k)
  PROVE  Settles(p)
<1>1. DBTypes /\ ProcTypes /\ Own(p) /\ proc[p].ch \in Seq(Results)
  BY DEF DBInv, DBTypes, ProcTypes
<1>2. UNCHANGED <<recs, made, cmd>> /\ NoAccess /\ proc[p].pc = "orphans" /\ k \in proc[p].work
  BY DEF Send, db, Pc
<1>3. PICK bad \in {FALSE, SearchFails} :
        Set(p, [work |-> proc[p].work \ {k},
                ch |-> Append(proc[p].ch, [pkg |-> k, bad |-> bad])])
  BY DEF Send
<1> DEFINE r == [pkg |-> k, bad |-> bad]
           s == Append(proc[p].ch, r)
<1>4. r \in Results /\ r.pkg = k
  BY DEF Results
<1>5. s \in Seq(Results) /\ DOMAIN s = DOMAIN proc[p].ch \cup {Len(proc[p].ch) + 1}
      /\ (\A i \in DOMAIN proc[p].ch : s[i] = proc[p].ch[i]) /\ s[Len(proc[p].ch) + 1] = r
  BY <1>1, <1>4
<1>6. /\ DOMAIN proc' = Procs /\ DOMAIN proc'[p] = Fields
      /\ \A q \in Procs \ {p} : proc'[q] = proc[q]
      /\ proc'[p].pc = "orphans" /\ proc'[p].list = proc[p].list
      /\ proc'[p].work = proc[p].work \ {k} /\ proc'[p].ch = s
      /\ proc'[p].answer = proc[p].answer
  <2>1. Set(p, [work |-> proc[p].work \ {k}, ch |-> s])
    BY <1>3
  <2> HIDE DEF s
  <2> QED BY <1>1, <1>2, <2>1, <1>5, SetWork
<1>7. Sent(p)' = Sent(p) \cup {k}
  <2> HIDE DEF s
  <2> QED BY <1>4, <1>5, <1>6 DEF Sent
<1>8. Open(p)' = Open(p)
  BY <1>2, <1>6, <1>7, OpenNext DEF Open
<1> QED BY <1>1, <1>2, <1>5, <1>6, <1>8, Judges

LEMMA ReceiveStep ==
  ASSUME SystemDBAssumption, DBInv, NEW p \in Procs, Receive(p)
  PROVE  Settles(p)
<1>1. DBTypes /\ ProcTypes /\ Own(p) /\ proc[p].ch \in Seq(Results)
  BY DEF DBInv, DBTypes, ProcTypes
<1> DEFINE ch == proc[p].ch
           m == Head(ch)
           s == Tail(ch)
           ans == IF Orphan(m.pkg) THEN proc[p].answer \cup {m.pkg} ELSE proc[p].answer
<1>2. UNCHANGED <<recs, made, cmd>> /\ NoAccess /\ proc[p].pc = "orphans" /\ ch # <<>>
      /\ Set(p, [ch |-> s, fail |-> proc[p].fail \/ m.bad, answer |-> ans])
  BY DEF Receive, db, Pc
<1>3. s \in Seq(Results) /\ Len(ch) \in Nat \ {0} /\ Len(s) = Len(ch) - 1
      /\ DOMAIN ch = 1 .. Len(ch) /\ DOMAIN s = 1 .. Len(s)
      /\ m = ch[1] /\ \A i \in 1 .. Len(s) : s[i] = ch[i + 1]
  BY <1>1, <1>2
<1>4. /\ DOMAIN proc' = Procs /\ DOMAIN proc'[p] = Fields
      /\ \A q \in Procs \ {p} : proc'[q] = proc[q]
      /\ proc'[p].pc = "orphans" /\ proc'[p].list = proc[p].list
      /\ proc'[p].work = proc[p].work /\ proc'[p].ch = s
      /\ proc'[p].answer = ans
  <2> HIDE DEF ans, s, m
  <2> QED BY <1>1, <1>2, <1>3, SetResult
<1>5. Sent(p) = Sent(p)' \cup {m.pkg}
  <2>1. Sent(p)' = {s[i].pkg : i \in DOMAIN s}
    BY <1>4 DEF Sent
  <2>2. \A i \in 2 .. Len(ch) : i - 1 \in 1 .. Len(s) /\ s[i - 1] = ch[i]
    BY <1>3
  <2>3. \A i \in 1 .. Len(s) : i + 1 \in 1 .. Len(ch) /\ 1 \in 1 .. Len(ch)
    BY <1>3
  <2>4. \A i \in 1 .. Len(ch) : i = 1 \/ i \in 2 .. Len(ch)
    BY <1>3
  <2> HIDE DEF s, m, ch
  <2>5. Sent(p) = {ch[i].pkg : i \in 1 .. Len(ch)}
    BY <1>3 DEF Sent, ch
  <2>6. 1 \in 1 .. Len(ch) /\ m = ch[1]
    BY <1>3
  <2>7. Sent(p)' = {s[i].pkg : i \in 1 .. Len(s)} /\ \A i \in 1 .. Len(s) : s[i] = ch[i + 1]
    BY <1>3, <2>1
  <2>8. ASSUME NEW x \in Sent(p) PROVE x \in Sent(p)' \cup {m.pkg}
    <3>1. PICK i \in 1 .. Len(ch) : x = ch[i].pkg
      BY <2>5
    <3> QED BY <2>2, <2>4, <2>6, <2>7, <3>1
  <2>9. ASSUME NEW x \in Sent(p)' PROVE x \in Sent(p)
    <3>1. PICK i \in 1 .. Len(s) : x = s[i].pkg
      BY <2>7
    <3> QED BY <2>3, <2>5, <2>7, <3>1
  <2>10. m.pkg \in Sent(p)
    BY <2>5, <2>6
  <2> QED BY <2>8, <2>9, <2>10
<1>6. proc'[p].answer \cup Open(p)' = proc[p].answer \cup Open(p)
  <2> HIDE DEF m
  <2> QED BY <1>4, <1>5, OpenNext DEF Open
<1> QED BY <1>1, <1>2, <1>3, <1>4, <1>6, Judges

LEMMA OrphansEndStep ==
  ASSUME SystemDBAssumption, DBInv, NEW p \in Procs, OrphansEnd(p)
  PROVE  Settles(p)
<1>1. DBTypes /\ ProcTypes /\ Own(p)
  BY DEF DBInv, DBTypes
<1>2. UNCHANGED <<recs, made, cmd>> /\ NoAccess /\ proc[p].pc = "orphans"
      /\ proc[p].list = {} /\ proc[p].work = {} /\ proc[p].ch = <<>>
  BY DEF OrphansEnd, db, Pc
<1>3. Changes(p) /\ proc'[p].pc = "end" /\ proc'[p].answer = proc[p].answer
  BY <1>1, SetEnds DEF OrphansEnd
<1>4. DBTypes' /\ Frame(p) /\ Stored' = Stored /\ Whole(p)' = Whole(p)
  BY <1>1, <1>2, <1>3, StepFrame DEF Accesses
<1>5. Open(p) = {}
  BY <1>2 DEF Open, Sent
<1>6. Own(p)'
  BY <1>1, <1>2, <1>3, <1>4, <1>5 DEF Own, Creates, Installs, Queries, NoAccess
<1> QED BY <1>4, <1>6 DEF Settles

-----------------------------------------------------------------------------
(* The invariant holds.                                                    *)

LEMMA DBInit ==
  ASSUME SystemDBAssumption, Init
  PROVE  DBInv
<1>1. PICK W \in Worlds : recs = [k \in Pkgs |-> IF k \in W THEN 1 ELSE 0]
  BY DEF Init
<1>2. \A j, k \in W : NameOf[j] = NameOf[k] => j = k
  BY DEF SystemDBAssumption
<1>3. DBTypes
  <2>1. recs \in [Pkgs -> Nat]
    BY <1>1
  <2>2. <<>> \in Seq(Results)
    OBVIOUS
  <2>3. ProcTypes
    BY <2>2 DEF Init, Idle, ProcTypes, Fields
  <2> QED BY <2>1, <2>3 DEF Init, DBTypes
<1>4. Pairs
  BY <1>1, <1>2 DEF Pairs, Stored
<1>5. ASSUME NEW p \in Procs PROVE Own(p)
  BY DEF Init, Idle, Own, Creates, Installs, Queries
<1> QED BY <1>3, <1>4, <1>5 DEF DBInv

LEMMA DBNext ==
  ASSUME SystemDBAssumption, DBInv, [Next]_vars
  PROVE  DBInv'
<1>1. CASE UNCHANGED vars
  <2>1. /\ recs' = recs /\ proc' = proc /\ made' = made /\ cmd' = cmd
        /\ blind' = blind /\ holder' = holder /\ Stored' = Stored
    BY <1>1 DEF vars, Stored
  <2>2. DBTypes' /\ Pairs'
    BY <2>1 DEF DBInv, DBTypes, ProcTypes, Pairs
  <2>3. ASSUME NEW p \in Procs PROVE Own(p)'
    <3>1. Whole(p)' = Whole(p)
      BY <2>1, WholeStays
    <3>2. Open(p)' = Open(p)
      BY <2>1, OpenNext DEF Open, Sent
    <3> QED BY <2>1, <3>1, <3>2
            DEF DBInv, Own, Creates, Installs, Queries, Plan, DistinctNames, NamesIn
  <2> QED BY <2>2, <2>3 DEF DBInv
<1>2. ASSUME NEW p \in Procs, Kill(p) PROVE DBInv'
  BY <1>2, KillStep, TogetherSettled
<1>3. ASSUME NEW p \in Procs, Step(p) PROVE DBInv'
  <2>1. ASSUME NEW k \in Pkgs, Drop(p, k) \/ Register(p, k) \/ Acquire(p, k) \/ Send(p, k)
        PROVE  DBInv'
    BY <2>1, DropStep, RegisterStep, AcquireStep, SendStep, TogetherSettled
  <2>2. CASE Start(p) \/ Exit(p) \/ Find(p) \/ Resolve(p) \/ Search(p) \/ Close(p) \/ DropEnds(p)
    BY <2>2, StartStep, ExitStep, FindStep, ResolveStep, SearchStep, CloseStep, DropEndsStep,
       TogetherSettled
  <2>3. CASE World(p) \/ Solve(p) \/ Check(p) \/ StoreEnds(p)
    BY <2>3, WorldStep, SolveStep, CheckStep, StoreEndsStep, TogetherSettled
  <2>4. CASE Present(p) \/ Insert(p) \/ Erase(p) \/ ArgsEnd(p)
    BY <2>4, PresentStep, InsertStep, EraseStep, ArgsEndStep, TogetherSettled
  <2>5. CASE Read(p) \/ Receive(p) \/ OrphansEnd(p)
    BY <2>5, ReadStep, ReceiveStep, OrphansEndStep, TogetherSettled
  <2> QED BY <1>3, <2>1, <2>2, <2>3, <2>4, <2>5 DEF Step
<1> QED BY <1>1, <1>2, <1>3 DEF Next, Finished

LEMMA DBInvariant == Spec => []DBInv
<1>1. Init => DBInv
  BY DBInit, SystemDBAssumption
<1>2. DBInv /\ [Next]_vars => DBInv'
  BY DBNext, SystemDBAssumption
<1> QED BY <1>1, <1>2, PTL DEF Spec

-----------------------------------------------------------------------------
(* The closure of an uninstall: it takes packages as long as a name is      *)
(* missing, and there are not more steps than names.                        *)

LEMMA LeastNumber ==
  ASSUME NEW T, T \subseteq Nat, T # {}
  PROVE  \E k \in T : \A j \in T : k <= j
<1> DEFINE less == {s2 \in Nat \X Nat : s2[1] < s2[2]}
<1>1. IsWellFoundedOn(less, Nat)
  BY NatLessThanWellFounded DEF OpToRel
<1>2. \E k \in T : \A j \in T : <<j, k>> \notin less
  <2> HIDE DEF less
  <2> QED BY <1>1, WFMin
<1>3. \A k, j \in T : <<j, k>> \notin less => k <= j
  OBVIOUS
<1> QED BY <1>2, <1>3

\* The packages of W that a name of R leads to, and one of each name of them.
Users(R, W) == {k \in W : NameOf[k] \notin NamesIn(R) /\ Linked(k, NamesIn(R))}
Wider(R, W) == R \cup {CHOOSE k \in Users(R, W) : NameOf[k] = m : m \in NamesIn(Users(R, W))}

Grown(f, S, W, n) == f = [i \in 0 .. n |-> IF i = 0 THEN S ELSE Wider(f[i - 1], W)]

LEMMA GrownExists == ASSUME NEW S, NEW W, NEW n \in Nat PROVE \E f : Grown(f, S, W, n)
<1> DEFINE T == {m \in Nat : ~\E f : Grown(f, S, W, m)}
<1> SUFFICES ASSUME T # {} PROVE FALSE
  OBVIOUS
<1>1. PICK m \in T : \A j \in T : m <= j
  <2>1. T \subseteq Nat
    OBVIOUS
  <2> HIDE DEF T
  <2> QED BY <2>1, LeastNumber
<1>2. CASE m = 0
  <2> DEFINE f == [i \in 0 .. 0 |-> S]
  <2>1. f = [i \in 0 .. 0 |-> IF i = 0 THEN S ELSE Wider(f[i - 1], W)]
    OBVIOUS
  <2>2. Grown(f, S, W, 0)
    BY <2>1 DEF Grown
  <2> QED BY <1>1, <1>2, <2>2
<1>3. CASE m # 0
  <2>1. m \in Nat /\ m - 1 \in Nat /\ m - 1 \notin T
    BY <1>1, <1>3
  <2>2. PICK f : Grown(f, S, W, m - 1)
    BY <2>1
  <2> DEFINE g == [i \in 0 .. m |-> IF i = m THEN Wider(f[m - 1], W) ELSE f[i]]
  <2>3. ASSUME NEW i \in 0 .. m
        PROVE  g[i] = IF i = 0 THEN S ELSE Wider(g[i - 1], W)
    <3>1. CASE i = m
      <4>1. i # 0 /\ i - 1 \in 0 .. m /\ i - 1 # m /\ i - 1 = m - 1
        BY <1>3, <2>1, <3>1
      <4>2. g[i - 1] = f[m - 1] /\ g[i] = Wider(f[m - 1], W)
        BY <3>1, <4>1
      <4> HIDE DEF g
      <4> QED BY <4>1, <4>2
    <3>2. CASE i # m
      <4>1. i \in 0 .. m - 1 /\ g[i] = f[i]
        BY <2>1, <3>2
      <4>2. f[i] = IF i = 0 THEN S ELSE Wider(f[i - 1], W)
        BY <2>1, <2>2, <4>1 DEF Grown
      <4>3. i # 0 => i - 1 \in 0 .. m /\ i - 1 # m
        BY <2>1, <4>1
      <4>4. i # 0 => g[i - 1] = f[i - 1]
        BY <4>3
      <4> HIDE DEF g
      <4> QED BY <4>1, <4>2, <4>4
    <3> QED BY <3>1, <3>2
  <2>4. g = [i \in 0 .. m |-> g[i]]
    OBVIOUS
  <2> HIDE DEF g
  <2>5. g = [i \in 0 .. m |-> IF i = 0 THEN S ELSE Wider(g[i - 1], W)]
    BY <2>3, <2>4
  <2>6. Grown(g, S, W, m)
    BY <2>5 DEF Grown
  <2> QED BY <1>1, <2>6
<1> QED BY <1>2, <1>3

LEMMA ClosureGrown ==
  ASSUME SystemDBAssumption, NEW S, NEW W
  PROVE  /\ IsFiniteSet(Names) /\ Cardinality(Names) \in Nat
         /\ \E f : Grown(f, S, W, Cardinality(Names)) /\ Closure(S, W) = f[Cardinality(Names)]
<1>1. IsFiniteSet(Names)
  <2> DEFINE name == [k \in Pkgs |-> NameOf[k]]
  <2>1. name \in Surjection(Pkgs, Names)
    BY DEF Surjection, Names
  <2> HIDE DEF name
  <2> QED BY <2>1, FS_Surjection DEF SystemDBAssumption
<1>2. Cardinality(Names) \in Nat
  BY <1>1, FS_CardinalityType
<1> DEFINE G == CHOOSE f : Grown(f, S, W, Cardinality(Names))
<1>3. Closure(S, W) = G[Cardinality(Names)]
  BY DEF Closure, Grown, Wider, Users
<1>4. Grown(G, S, W, Cardinality(Names))
  BY <1>2, GrownExists
<1> QED BY <1>1, <1>2, <1>3, <1>4

\* A step with something to take adds a name, the others add nothing.
LEMMA WiderNames ==
  ASSUME NEW R \in SUBSET Pkgs, NEW W \in SUBSET Pkgs
  PROVE  /\ Wider(R, W) \in SUBSET Pkgs /\ NamesIn(R) \subseteq NamesIn(Wider(R, W))
         /\ Users(R, W) = {} => Wider(R, W) = R
         /\ Users(R, W) # {} => NamesIn(Wider(R, W)) # NamesIn(R)
<1> DEFINE U == Users(R, W)
           one(m) == CHOOSE k \in U : NameOf[k] = m
           taken == {one(m) : m \in NamesIn(U)}
<1>1. U \in SUBSET Pkgs /\ \A k \in U : NameOf[k] \notin NamesIn(R)
  BY DEF Users
<1>2. Wider(R, W) = R \cup taken
  BY DEF Wider
<1> HIDE DEF U
<1>3. \A m \in NamesIn(U) : one(m) \in U /\ NameOf[one(m)] = m
  BY DEF NamesIn
<1>4. taken \subseteq U /\ (U = {} => taken = {}) /\ (U # {} => taken # {})
  BY <1>3 DEF NamesIn
<1> HIDE DEF taken
<1>5. NamesIn(R) \subseteq NamesIn(R \cup taken) /\ \A k \in taken : NameOf[k] \in NamesIn(R \cup taken)
  BY DEF NamesIn
<1> QED BY <1>1, <1>2, <1>4, <1>5 DEF U

\* Nothing of W outside the closure requires or provides a name of it.
LEMMA ClosureClosed ==
  ASSUME SystemDBAssumption, NEW S \in SUBSET Pkgs, NEW W \in SUBSET Pkgs, S # {}
  PROVE  Users(Closure(S, W), W) = {}
<1> DEFINE C == Cardinality(Names)
           size(R) == Cardinality(NamesIn(R))
<1>1. IsFiniteSet(Names) /\ C \in Nat
  BY ClosureGrown
<1>2. PICK f : Grown(f, S, W, C) /\ Closure(S, W) = f[C]
  BY ClosureGrown
<1>3. \A R \in SUBSET Pkgs : NamesIn(R) \in SUBSET Names
  BY DEF NamesIn, Names
<1>4. ASSUME NEW R \in SUBSET Pkgs
      PROVE  IsFiniteSet(NamesIn(R)) /\ size(R) \in Nat /\ size(R) <= C
  <2>1. IsFiniteSet(NamesIn(R)) /\ size(R) <= C
    BY <1>1, <1>3, FS_Subset
  <2> QED BY <2>1, FS_CardinalityType
<1> HIDE DEF C
<1>5. f[0] = S /\ \A i \in 1 .. C : f[i] = Wider(f[i - 1], W)
  <2>1. f = [i \in 0 .. C |-> IF i = 0 THEN S ELSE Wider(f[i - 1], W)]
    BY <1>2 DEF Grown
  <2>2. 0 \in 0 .. C /\ \A i \in 1 .. C : i \in 0 .. C /\ i # 0
    BY <1>1
  <2> QED BY <2>1, <2>2
<1>6. size(S) >= 1
  <2>1. PICK k : k \in S
    OBVIOUS
  <2>2. NamesIn(S) # {}
    BY <2>1 DEF NamesIn
  <2>3. size(S) # 0
    BY <1>4, <2>2, FS_EmptySet
  <2> HIDE DEF size
  <2> QED BY <1>4, <2>3
<1>7. ASSUME NEW R \in SUBSET Pkgs, Users(R, W) # {} PROVE size(Wider(R, W)) >= size(R) + 1
  <2>1. /\ Wider(R, W) \in SUBSET Pkgs /\ NamesIn(R) \subseteq NamesIn(Wider(R, W))
        /\ NamesIn(Wider(R, W)) # NamesIn(R)
    BY <1>7, WiderNames
  <2>2. size(R) <= size(Wider(R, W)) /\ size(R) # size(Wider(R, W))
    BY <1>4, <2>1, FS_Subset
  <2>3. size(R) \in Nat /\ size(Wider(R, W)) \in Nat
    BY <1>4, <2>1
  <2> HIDE DEF size
  <2> QED BY <2>2, <2>3
<1> HIDE DEF size
<1> DEFINE Good(i) == f[i] \in SUBSET Pkgs /\ (Users(f[i], W) = {} \/ size(f[i]) >= i + 1)
           T == {i \in 0 .. C : ~Good(i)}
<1>8. T = {}
  <2> SUFFICES ASSUME T # {} PROVE FALSE
    OBVIOUS
  <2>1. PICK m \in T : \A j \in T : m <= j
    <3>1. T \subseteq Nat
      BY <1>1
    <3> HIDE DEF T
    <3> QED BY <3>1, LeastNumber
  <2>2. m # 0
    BY <1>5, <1>6, <2>1
  <2>3. m \in 1 .. C /\ m - 1 \in 0 .. C /\ m - 1 \notin T
    BY <1>1, <2>1, <2>2
  <2>4. Good(m - 1) /\ f[m] = Wider(f[m - 1], W)
    BY <1>5, <2>3
  <2>5. f[m] \in SUBSET Pkgs
    <3> DEFINE R == f[m - 1]
    <3>1. R \in SUBSET Pkgs /\ f[m] = Wider(R, W)
      BY <2>4
    <3> HIDE DEF R
    <3>2. Wider(R, W) \in SUBSET Pkgs
      BY <3>1, WiderNames
    <3> QED BY <3>1, <3>2
  <2>6. CASE Users(f[m - 1], W) = {}
    <3>1. f[m] = f[m - 1]
      BY <2>4, <2>6, WiderNames
    <3> QED BY <2>1, <2>5, <2>6, <3>1
  <2>7. CASE Users(f[m - 1], W) # {}
    <3>1. size(f[m]) >= size(f[m - 1]) + 1 /\ size(f[m - 1]) >= (m - 1) + 1
      BY <1>7, <2>4, <2>7
    <3>2. size(f[m]) >= m + 1
      BY <1>4, <2>3, <2>4, <2>5, <3>1
    <3> QED BY <2>1, <2>5, <3>2
  <2> QED BY <2>6, <2>7
<1>9. Good(C)
  <2>1. C \in 0 .. C
    BY <1>1
  <2> QED BY <1>8, <2>1
<1>10. ~(size(f[C]) >= C + 1)
  BY <1>1, <1>4, <1>9
<1> QED BY <1>2, <1>9, <1>10 DEF C
-----------------------------------------------------------------------------
(* An uninstall keeps the file from the first package it found on, so that  *)
(* nobody adds a user of what it removes.                                  *)

Uninstalls(p) ==
  cmd[p].op = "uninstall" =>
    /\ proc[p].pc \in {"start", "find", "drop", "end", "done"}
    /\ proc[p].pc = "start" => proc[p].seen = {}
    /\ proc[p].pc = "find" => proc[p].seen \subseteq Pkgs /\ (proc[p].seen # {} => holder = p)
    /\ proc[p].pc = "drop" /\ ~cmd[p].nodeps =>
         holder = p /\ Users(proc[p].gone, Stored) = {}

UninstallInv == DBInv /\ \A p \in Procs : Uninstalls(p)

LEMMA SetFields ==
  ASSUME ProcTypes, NEW p \in Procs, NEW r, Set(p, r)
  PROVE  /\ \A q \in Procs \ {p} : proc'[q] = proc[q]
         /\ \A f \in Fields : proc'[p][f] = IF f \in DOMAIN r THEN r[f] ELSE proc[p][f]
BY DEF ProcTypes, Set

\* A step of another process takes nothing from the holder of the file.
LEMMA OthersStep ==
  ASSUME SystemDBAssumption, ProcTypes, NEW p \in Procs, NEW q \in Procs \ {p}, Step(p) \/ Kill(p)
  PROVE  proc'[q] = proc[q] /\ cmd' = cmd /\ (holder = q => holder' = q /\ recs' = recs)
<1> USE DEF db, Ends, Goto
<1>1. Reach(p) \/ Blocked(p) \/ NoAccess => (holder = q => holder' = q)
  BY DEF Reach, Blocked, NoAccess, Kept, SystemDBAssumption
<1>2. Reach(p) => holder # q
  BY DEF Reach, SystemDBAssumption
<1>3. \A r : Set(p, r) => proc'[q] = proc[q]
  BY SetFields
<1>4. CASE Start(p) \/ Exit(p) \/ Kill(p)
  BY <1>1, <1>3, <1>4 DEF Start, Exit, Kill
<1>5. CASE Find(p) \/ Resolve(p)
  BY <1>1, <1>3, <1>5 DEF Find, Resolve, Missing, Views
<1>6. CASE Search(p) \/ Close(p) \/ DropEnds(p)
  BY <1>1, <1>3, <1>6 DEF Search, Close, DropEnds
<1>7. CASE World(p) \/ Solve(p) \/ Check(p) \/ StoreEnds(p)
  BY <1>1, <1>3, <1>7 DEF World, Solve, Check, StoreEnds, Views
<1>8. CASE Present(p) \/ Insert(p) \/ Erase(p) \/ ArgsEnd(p)
  BY <1>1, <1>2, <1>3, <1>8 DEF Present, Insert, Erase, ArgsEnd, Views
<1>9. CASE Read(p) \/ Receive(p) \/ OrphansEnd(p)
  BY <1>1, <1>3, <1>9 DEF Read, Receive, OrphansEnd, Views
<1>10. ASSUME NEW k \in Pkgs, Drop(p, k) \/ Register(p, k)
       PROVE  proc'[q] = proc[q] /\ cmd' = cmd /\ (holder = q => holder' = q /\ recs' = recs)
  BY <1>1, <1>2, <1>3, <1>10 DEF Drop, Register, Dropped, Registered
<1>11. ASSUME NEW k \in Pkgs, Acquire(p, k) \/ Send(p, k)
       PROVE  proc'[q] = proc[q] /\ cmd' = cmd /\ (holder = q => holder' = q /\ recs' = recs)
  BY <1>1, <1>3, <1>11 DEF Acquire, Send
<1> QED BY <1>4, <1>5, <1>6, <1>7, <1>8, <1>9, <1>10, <1>11 DEF Step

LEMMA StayingUsers ==
  ASSUME NEW S, NEW W, NEW V \in SUBSET W, Users(S, W) = {}
  PROVE  Users(S, V) = {}
BY DEF Users

LEMMA UninstallFinds ==
  ASSUME ProcTypes, NEW p \in Procs, Find(p), Uninstalls(p)
  PROVE  Uninstalls(p)'
<1> SUFFICES ASSUME cmd[p].op = "uninstall" PROVE Uninstalls(p)'
  BY DEF Find, Uninstalls
<1>1. proc[p].pc = "find" /\ cmd' = cmd /\ proc[p].seen \subseteq Pkgs /\ (proc[p].seen # {} => holder = p)
  BY DEF Find, Uninstalls, Pc
<1>2. CASE Missing(p) /\ (Reach(p) \/ Blocked(p))
  <2>1. proc'[p].pc = "end" \/ (proc'[p].pc = "find" /\ proc'[p].seen = proc[p].seen)
    BY <1>1, <1>2, SetFields DEF Missing, Ends, NextArg, Fields
  <2>2. holder = p => holder' = p
    BY <1>2 DEF Reach, Blocked, Kept
  <2> QED BY <1>1, <2>1, <2>2 DEF Uninstalls
<1>3. CASE Reach(p) /\ \E k \in Stored : Set(p, [NextArg(p) EXCEPT !.seen = proc[p].seen \cup {k}])
  <2>1. PICK k \in Stored : Set(p, [NextArg(p) EXCEPT !.seen = proc[p].seen \cup {k}])
    BY <1>3
  <2>2. proc'[p].pc = "find" /\ proc'[p].seen = proc[p].seen \cup {k}
    BY <1>1, <2>1, SetFields DEF NextArg, Fields
  <2>3. holder' = p /\ k \in Pkgs
    BY <1>3 DEF Reach, Kept, Stored
  <2> QED BY <1>1, <2>2, <2>3 DEF Uninstalls
<1> QED BY <1>2, <1>3 DEF Find, NextArg

LEMMA UninstallResolves ==
  ASSUME SystemDBAssumption, ProcTypes, NEW p \in Procs, Resolve(p), Uninstalls(p)
  PROVE  Uninstalls(p)'
<1> SUFFICES ASSUME cmd[p].op = "uninstall" PROVE Uninstalls(p)'
  BY DEF Resolve, Uninstalls
<1>1. /\ proc[p].pc = "find" /\ cmd' = cmd /\ recs' = recs
      /\ proc[p].seen \subseteq Pkgs /\ (proc[p].seen # {} => holder = p)
  BY DEF Resolve, Uninstalls, Pc, db
<1>2. CASE Ends(p, "ok")
  <2>1. proc'[p].pc = "end"
    BY <1>2, SetFields DEF Ends, Fields
  <2> QED BY <1>1, <2>1 DEF Uninstalls
<1>3. CASE cmd[p].nodeps /\ \E S : Set(p, [pc |-> "drop", list |-> S, gone |-> S])
  <2>1. proc'[p].pc = "drop"
    BY <1>3, SetFields DEF Fields
  <2> QED BY <1>1, <1>3, <2>1 DEF Uninstalls
<1>4. CASE /\ proc[p].seen # {} /\ Views(p)
           /\ LET S == Closure(proc[p].seen, View(p))
              IN Set(p, [pc |-> "drop", list |-> S, gone |-> S])
  <2>1. holder = p /\ holder' = p /\ View(p) = Stored /\ Stored' = Stored
    BY <1>1, <1>4 DEF Views, Reach, Blocked, Kept, View, Stored
  <2>2. proc'[p].pc = "drop" /\ proc'[p].gone = Closure(proc[p].seen, Stored)
    BY <1>4, <2>1, SetFields DEF Fields
  <2>3. Users(Closure(proc[p].seen, Stored), Stored) = {}
    <3>1. Stored \in SUBSET Pkgs
      BY DEF Stored
    <3> QED BY <1>1, <1>4, <3>1, ClosureClosed
  <2>4. Users(proc[p].gone, Stored)' = {}
    BY <2>1, <2>2, <2>3 DEF Users, NamesIn, Linked
  <2> QED BY <1>1, <2>1, <2>2, <2>4 DEF Uninstalls
<1> QED BY <1>2, <1>3, <1>4 DEF Resolve

LEMMA UninstallDrops ==
  ASSUME SystemDBAssumption, DBInv, NEW p \in Procs, NEW k \in Pkgs, Drop(p, k), Uninstalls(p)
  PROVE  Uninstalls(p)'
<1> SUFFICES ASSUME cmd[p].op = "uninstall" PROVE Uninstalls(p)'
  BY DEF Drop, Uninstalls
<1>1. ProcTypes /\ proc[p].pc = "drop" /\ cmd' = cmd /\ (Reach(p) \/ Blocked(p))
  BY DEF DBInv, DBTypes, Drop, Pc
<1>2. Stored' \subseteq Stored
  BY DropStep DEF Settles
<1>3. proc'[p].pc = "end" \/ (proc'[p].pc = "drop" /\ proc'[p].gone = proc[p].gone)
  <2>1. \/ Ends(p, "error")
        \/ \E S, b : Set(p, [list |-> S, fail |-> b, stage |-> 1, cur |-> {}])
        \/ \E n, c : Set(p, [stage |-> n, cur |-> c])
    BY DEF Drop, Dropped
  <2>2. CASE Ends(p, "error")
    BY <1>1, <2>2, SetFields DEF Ends, Fields
  <2>3. CASE \E S, b : Set(p, [list |-> S, fail |-> b, stage |-> 1, cur |-> {}])
    BY <1>1, <2>3, SetFields DEF Fields
  <2>4. CASE \E n, c : Set(p, [stage |-> n, cur |-> c])
    BY <1>1, <2>4, SetFields DEF Fields
  <2> QED BY <2>1, <2>2, <2>3, <2>4
<1>4. holder = p => holder' = p
  BY <1>1 DEF Reach, Blocked, Kept
<1>5. ASSUME Users(proc[p].gone, Stored) = {}, proc'[p].gone = proc[p].gone
      PROVE  Users(proc[p].gone, Stored)' = {}
  <2>1. Users(proc[p].gone, Stored') = {}
    BY <1>2, <1>5, StayingUsers
  <2> QED BY <1>5, <2>1 DEF Users, NamesIn, Linked
<1> QED BY <1>1, <1>3, <1>4, <1>5 DEF Uninstalls

LEMMA UninstallStep ==
  ASSUME SystemDBAssumption, DBInv, NEW p \in Procs, Step(p) \/ Kill(p), Uninstalls(p)
  PROVE  Uninstalls(p)'
<1>1. ProcTypes /\ cmd' = cmd
  <2>1. ProcTypes
    BY DEF DBInv, DBTypes
  <2>2. cmd' = cmd
    BY DEF Step, Kill, Start, Exit, Find, Resolve, Search, Close, DropEnds, World, Solve, Check,
           StoreEnds, Present, Insert, Erase, ArgsEnd, Read, Receive, OrphansEnd, Drop, Register,
           Acquire, Send
  <2> QED BY <2>1, <2>2
<1> SUFFICES ASSUME cmd[p].op = "uninstall" PROVE Uninstalls(p)'
  BY <1>1 DEF Uninstalls
<1>2. CASE Start(p)
  <2>1. proc[p].seen = {}
    BY <1>2 DEF Start, Pc, Uninstalls
  <2>2. proc'[p].pc = "end" \/ (proc'[p].pc = "find" /\ proc'[p].seen = {})
    BY <1>1, <1>2, <2>1, SetFields DEF Start, Ends, Goto, Entry, Fields
  <2> QED BY <1>1, <2>2 DEF Uninstalls
<1>3. CASE Exit(p) \/ Kill(p) \/ DropEnds(p)
  <2>1. proc'[p].pc \in {"end", "done"}
    BY <1>1, <1>3, SetFields DEF Exit, Kill, DropEnds, Ends, Goto, Fields
  <2> QED BY <1>1, <2>1 DEF Uninstalls
<1>4. CASE Find(p) \/ Resolve(p) \/ \E k \in Pkgs : Drop(p, k)
  BY <1>1, <1>4, UninstallFinds, UninstallResolves, UninstallDrops
<1>5. proc[p].pc \in {"start", "find", "drop", "end", "done"}
  BY DEF Uninstalls
<1>6. ASSUME NEW k \in Pkgs PROVE ~Register(p, k) /\ ~Acquire(p, k) /\ ~Send(p, k)
  BY <1>5 DEF Register, Acquire, Send, Pc
<1>7. /\ ~Search(p) /\ ~Close(p) /\ ~World(p) /\ ~Solve(p) /\ ~Check(p) /\ ~StoreEnds(p)
      /\ ~Present(p) /\ ~Insert(p) /\ ~Erase(p) /\ ~ArgsEnd(p)
      /\ ~Read(p) /\ ~Receive(p) /\ ~OrphansEnd(p)
  BY <1>5 DEF Search, Close, World, Solve, Check, StoreEnds, Present, Insert, Erase, ArgsEnd,
              Read, Receive, OrphansEnd, Pc
<1> QED BY <1>2, <1>3, <1>4, <1>6, <1>7 DEF Step

LEMMA UninstallOthers ==
  ASSUME SystemDBAssumption, ProcTypes, NEW p \in Procs, NEW q \in Procs \ {p},
         Step(p) \/ Kill(p), Uninstalls(q)
  PROVE  Uninstalls(q)'
<1>1. proc'[q] = proc[q] /\ cmd' = cmd /\ (holder = q => holder' = q /\ recs' = recs)
  BY OthersStep
<1>2. holder = q => Users(proc[q].gone, Stored)' = Users(proc[q].gone, Stored)
  BY <1>1 DEF Users, NamesIn, Linked, Stored
<1> QED BY <1>1, <1>2 DEF Uninstalls

LEMMA UninstallNext ==
  ASSUME SystemDBAssumption, UninstallInv, [Next]_vars
  PROVE  UninstallInv'
<1>1. DBInv' /\ ProcTypes
  BY DBNext DEF UninstallInv, DBInv, DBTypes
<1>2. CASE UNCHANGED vars
  <2>1. proc' = proc /\ cmd' = cmd /\ holder' = holder /\ recs' = recs
    BY <1>2 DEF vars
  <2>2. \A q \in Procs : Uninstalls(q)'
    BY <2>1 DEF UninstallInv, Uninstalls, Users, NamesIn, Linked, Stored
  <2> QED BY <1>1, <2>2 DEF UninstallInv
<1>3. ASSUME NEW p \in Procs, Step(p) \/ Kill(p) PROVE UninstallInv'
  <2>1. ASSUME NEW q \in Procs PROVE Uninstalls(q)'
    <3>1. CASE q = p
      BY <1>3, <3>1, UninstallStep DEF UninstallInv
    <3>2. CASE q # p
      BY <1>1, <1>3, <3>2, UninstallOthers DEF UninstallInv
    <3> QED BY <3>1, <3>2
  <2> QED BY <1>1, <2>1 DEF UninstallInv
<1> QED BY <1>2, <1>3 DEF Next, Finished

-----------------------------------------------------------------------------
(* The theorems.                                                           *)

\* No command adds a second version of an installed name, whatever runs next to
\* it and whoever is killed, but database create or after an access that waited
\* its 30 seconds in vain.
THEOREM SecondVersionExplainedCorrect == Spec => []SecondVersionExplained
<1>1. DBInv => SecondVersionExplained
  BY DEF DBInv, Pairs, SecondVersionExplained
<1> QED BY <1>1, DBInvariant, PTL

\* A query that never timed out and reports success answers the database as it
\* is when the query ends, although others asked for the file all along.
THEOREM AnswersCompleteCorrect == Spec => []AnswersComplete
<1>1. DBInv => AnswersComplete
  BY DEF DBInv, Own, Queries, Whole, AnswersComplete, Pc
<1> QED BY <1>1, DBInvariant, PTL

\* An uninstall that reports success leaves nobody who requires what it removed:
\* it has had the file since it found the first package, so the closure it
\* computed is still closed over what is stored.
THEOREM UsersGoneCorrect == Spec => UsersGone
<1>1. Init => UninstallInv
  <2> SUFFICES ASSUME Init PROVE UninstallInv
    OBVIOUS
  <2>1. DBInv
    BY DBInit, SystemDBAssumption
  <2>2. \A p \in Procs : Uninstalls(p)
    BY DEF Init, Idle, Uninstalls
  <2> QED BY <2>1, <2>2 DEF UninstallInv
<1>2. UninstallInv /\ [Next]_vars => UninstallInv'
  BY UninstallNext, SystemDBAssumption
<1>3. ASSUME UninstallInv, NEW p \in Procs, Pc(p, "drop"), cmd[p].op = "uninstall", ~cmd[p].nodeps,
             NEW k \in Stored, NameOf[k] \notin NamesIn(proc[p].gone)
      PROVE  Requires[k] \cap NamesIn(proc[p].gone) = {}
  <2>1. Users(proc[p].gone, Stored) = {}
    BY <1>3 DEF UninstallInv, Uninstalls, Pc
  <2> QED BY <1>3, <2>1 DEF Users, Linked
<1>4. UninstallInv =>
        [\A p \in Procs :
           /\ Pc(p, "drop") /\ cmd[p].op = "uninstall" /\ ~cmd[p].nodeps
           /\ proc'[p].pc = "end" /\ proc'[p].exit = "ok"
           => LET names == NamesIn(proc[p].gone)
              IN \A k \in Stored :
                   NameOf[k] \notin names => Requires[k] \cap (names \ NamesIn(Stored)) = {}]_vars
  BY <1>3
<1> QED BY <1>1, <1>2, <1>4, PTL DEF Spec, UsersGone

================================================================================
