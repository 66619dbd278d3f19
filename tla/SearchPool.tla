------------------------------- MODULE SearchPool -------------------------------
(***************************************************************************)
(* The search of packages (pkg/v2/repository: searcher.go,                 *)
(* wagon_stones.go).  A goroutine for each repository sends its result on  *)
(* a channel with room for Concurrency results; it starts a goroutine for  *)
(* each category of its tree, at most Concurrency of them at work, and     *)
(* gets their results in order, each from a channel of its own without     *)
(* room.  What a package says is abstracted to the kinds of search option  *)
(* it satisfies.                                                           *)
(***************************************************************************)
EXTENDS Naturals, FiniteSets, SequencesExt

CONSTANTS
  Concurrency,  \* general.concurrency
  Searches      \* searches explored: [repos, opts, installed, miner, args]

Kinds == {"names", "packages", "atoms", "matches", "rlabels", "labels",
          "categories", "annotations", "files"}

ASSUME SearchAssumption ==
  /\ Concurrency \in Nat \ {0}
  /\ \A s \in Searches : s.opts.kinds \subseteq Kinds
  /\ \A s \in Searches : DOMAIN s.repos = 1 .. Len(s.repos) /\ Len(s.repos) \in Nat
  /\ \A s \in Searches : \A r \in DOMAIN s.repos : LET cats == s.repos[r].cats IN
       /\ DOMAIN cats = 1 .. Len(cats) /\ Len(cats) \in Nat
       /\ \A c \in DOMAIN cats :
            IsFiniteSet(cats[c].arts) /\ \A a \in cats[c].arts : a.listed \in Nat

\* What create-repo writes.  A package is in one category of one repository and
\* satisfies a search of categories by the name of its own; where it is not in
\* a category that is named, it is asked by a provide, and provides.yaml has it.
ASSUME TreeAssumption ==
  \A s \in Searches : \A r \in DOMAIN s.repos : \A c \in DOMAIN s.repos[r].cats :
    LET cat == s.repos[r].cats[c]
    IN /\ \A q \in DOMAIN s.repos : \A d \in DOMAIN s.repos[q].cats :
            r # q \/ c # d => cat.arts \cap s.repos[q].cats[d].arts = {}
       /\ \A a \in cat.arts :
            /\ ~cat.matched => "categories" \notin a.sat
            /\ ~cat.asked /\ "packages" \in a.sat => a.listed > 0

VARIABLES
  search,  \* repos: enable, cached, identity, tree, provides, cats (ok, arts);
           \* opts: kinds asked, and, only, hidden, ignoreMasks
  main,    \* the caller: launch, receive, installed, direct (the miner), done;
           \* the repository it is at
  routine, \* for each repository: its state, category, result, semaphore
  worker,  \* for each category of each repository: idle, scan, send, done
  ch,      \* the channel of the results of the repositories
  res,     \* the packages found
  err      \* the error the caller returns

searchVars == <<search, main, routine, worker, ch, res, err>>

Opts == search.opts
Repos == search.repos
Cats(r) == Repos[r].cats

-----------------------------------------------------------------------------
(* What matches.                                                           *)

Asked(a, kinds) == kinds \cap Opts.kinds \cap a.sat # {}

\* The last kind of the list that is asked, or none.
LastAsked(kinds) ==
  SelectLastInSeq(kinds, LAMBDA k : k \in Opts.kinds)

\* In OR a label or a category ends the scan with what matched before it; in
\* AND each kind starts again from nothing.
ByOptions(a, first) ==
  LET late  == <<"rlabels", "labels", "categories">>
      all   == late \o <<"annotations", "files">>
      last  == LastAsked(all)
  IN IF Opts.and
       THEN IF last = 0 THEN Asked(a, first) ELSE all[last] \in a.sat
       ELSE \/ Asked(a, first)
            \/ LastAsked(late) = 0 /\ Asked(a, {"annotations", "files"})

\* analyzePackageDir, for a package that is neither masked nor hidden.
Matches(a) ==
  /\ Opts.ignoreMasks \/ ~a.masked
  /\ Opts.hidden \/ ~a.hidden
  /\ ByOptions(a, {"names", "packages", "matches"})

\* The directories of the categories and of the packages are looked at first.
Directory(a) ==
  /\ "names" \in Opts.kinds => "names" \in a.sat
  /\ Opts.and => {"matches", "categories"} \cap Opts.kinds \subseteq a.sat

\* SearchArtifactsFromCatalog: the version of the package is not looked at.
InCatalog(a) ==
  /\ Opts.hidden \/ ~a.hidden
  /\ ByOptions(a, {"names", "atoms", "matches"})

-----------------------------------------------------------------------------
(* SearcherSimple: the caller.                                             *)

Launching == main.pc = "launch" /\ main.at <= Len(Repos)
Used(r) == Repos[r].enable /\ Repos[r].cached

Idle == [pc |-> "idle", next |-> 1, acc |-> <<>>, free |-> Concurrency, bad |-> FALSE]

Next1(r) == main' = [main EXCEPT !.at = r + 1]

Launch(r) ==
  /\ Launching /\ main.at = r
  /\ \/ /\ ~Repos[r].enable /\ Next1(r)
        /\ UNCHANGED <<routine, err>>
     \/ /\ Used(r) /\ Next1(r)
        /\ routine' = [routine EXCEPT ![r].pc = "start"]
        /\ UNCHANGED err
     \/ /\ Repos[r].enable /\ ~Repos[r].cached
        /\ main' = [main EXCEPT !.pc = "done"] /\ err' = TRUE
        /\ UNCHANGED routine
  /\ UNCHANGED <<search, worker, ch, res>>

Launched ==
  /\ main.pc = "launch" /\ main.at > Len(Repos)
  /\ main' = [pc |-> "receive", at |-> Cardinality({r \in DOMAIN Repos : Used(r)})]
  /\ UNCHANGED <<search, routine, worker, ch, res, err>>

\* An error of a repository is returned next to what the others found.
Receive ==
  /\ main.pc = "receive" /\ main.at > 0 /\ ch # <<>>
  /\ LET m == Head(ch)
     IN IF m.bad THEN err' = TRUE /\ UNCHANGED res
        ELSE res' = res \o m.arts /\ UNCHANGED err
  /\ ch' = Tail(ch)
  /\ main' = [main EXCEPT !.at = @ - 1]
  /\ UNCHANGED <<search, routine, worker>>

Return ==
  /\ main.pc = "receive" /\ main.at = 0
  /\ main' = [main EXCEPT !.pc = "done"]
  /\ UNCHANGED <<search, routine, worker, ch, res, err>>

\* SearchInstalled, in the caller.
Installed ==
  /\ main.pc = "installed"
  /\ res' = SetToSeq({a \in search.installed : InCatalog(a)})
  /\ main' = [main EXCEPT !.pc = "done"]
  /\ UNCHANGED <<search, routine, worker, ch, err>>

-----------------------------------------------------------------------------
(* searchOnRepoRoutine and SearchArtifacts, for one repository.            *)

Answer(r, arts, bad) ==
  routine' = [routine EXCEPT ![r] = [routine[r] EXCEPT !.pc = "answer", !.acc = arts, !.bad = bad]]

\* A repository without identity gives no package, one whose tree cannot be
\* read an error, as does a search for both a regex and a label regex.
Open(r) ==
  /\ routine[r].pc = "start"
  /\ IF ~Repos[r].identity THEN Answer(r, <<>>, FALSE)
     ELSE IF ~Repos[r].tree \/ {"matches", "rlabels"} \subseteq Opts.kinds
       THEN Answer(r, <<>>, TRUE)
     ELSE routine' = [routine EXCEPT ![r].pc = "spawn"]
  /\ UNCHANGED <<search, main, worker, ch, res, err>>

Category(r) == Cats(r)[routine[r].next]

\* With package names only, the other categories are not read.
Skipped(c) == \/ Opts.only /\ ~c.asked
              \/ Opts.and /\ "categories" \in Opts.kinds /\ ~c.matched

\* The next category waits for a place among those at work.
Spawn(r) ==
  /\ routine[r].pc = "spawn" /\ routine[r].next <= Len(Cats(r))
  /\ \/ /\ Skipped(Category(r))
        /\ worker' = [worker EXCEPT ![r][routine[r].next] = "done"]
        /\ routine' = [routine EXCEPT ![r].next = @ + 1]
     \/ /\ ~Skipped(Category(r)) /\ routine[r].free > 0
        /\ worker' = [worker EXCEPT ![r][routine[r].next] = "scan"]
        /\ routine' = [routine EXCEPT ![r] = [routine[r] EXCEPT !.next = @ + 1, !.free = @ - 1]]
  /\ UNCHANGED <<search, main, ch, res, err>>

Spawned(r) ==
  /\ routine[r].pc = "spawn" /\ routine[r].next > Len(Cats(r))
  /\ routine' = [routine EXCEPT ![r] = [routine[r] EXCEPT !.pc = "collect", !.next = 1]]
  /\ UNCHANGED <<search, main, worker, ch, res, err>>

\* Gives its place back after the result has been taken.
BugPlace(r, when) == IF when = "collect" THEN routine[r].free + 1 ELSE routine[r].free

\* A worker gives its place back before it sends its result.
Place(r, when) == IF when = "scan" THEN routine[r].free + 1 ELSE routine[r].free

\* analyzeCatDir: the packages of a category are read, then the place is free.
Scan(r, c) ==
  /\ worker[r][c] = "scan"
  /\ worker' = [worker EXCEPT ![r][c] = "send"]
  /\ routine' = [routine EXCEPT ![r].free = Place(r, "scan")]
  /\ UNCHANGED <<search, main, ch, res, err>>

\* What a category sends: all of it or, when a part cannot be read, an error.
Result(r, c) ==
  IF Cats(r)[c].ok
    THEN SetToSeq({a \in Cats(r)[c].arts : Directory(a) /\ Matches(a)}) ELSE <<>>

\* Takes the result of the category that is ready, and leaves out the next.
BugCollected(r, c) == IF routine[r].acc = <<>> THEN Result(r, c) ELSE routine[r].acc

\* The error of a category is stored and never returned.
Collected(r, c) == routine[r].acc \o Result(r, c)

\* The result of the next category that was spawned is taken when it is sent.
Collect(r) ==
  /\ routine[r].pc = "collect" /\ routine[r].next <= Len(Cats(r))
  /\ LET c == routine[r].next
     IN \/ /\ worker[r][c] = "done"
           /\ routine' = [routine EXCEPT ![r].next = @ + 1]
           /\ UNCHANGED worker
        \/ /\ worker[r][c] = "send"
           /\ worker' = [worker EXCEPT ![r][c] = "done"]
           /\ routine' = [routine EXCEPT ![r] =
                [routine[r] EXCEPT !.next = @ + 1, !.acc = Collected(r, c),
                                   !.free = Place(r, "collect")]]
  /\ UNCHANGED <<search, main, ch, res, err>>

\* searchProvides: with package names only, the packages that provides.yaml
\* lists for these names, those found in the categories left out.
Providers(r) ==
  {a \in UNION {Cats(r)[c].arts : c \in DOMAIN Cats(r)} : a.listed > 0 /\ Matches(a)}

\* What provides.yaml adds to the packages found, once for each of the names
\* that it lists it under: isInList looks at what was found before.
Provided(r, found) ==
  LET pairs == UNION {{a} \X (1 .. a.listed) : a \in Providers(r) \ found}
      order == SetToSeq(pairs)
  IN [i \in DOMAIN order |-> order[i][1]]

Provide(r) ==
  /\ routine[r].pc = "collect" /\ routine[r].next > Len(Cats(r))
  /\ IF ~Opts.only THEN Answer(r, routine[r].acc, FALSE)
     ELSE IF ~Repos[r].provides THEN Answer(r, <<>>, TRUE)
     ELSE Answer(r, routine[r].acc \o Provided(r, Range(routine[r].acc)), FALSE)
  /\ UNCHANGED <<search, main, worker, ch, res, err>>

Send(r) ==
  /\ routine[r].pc = "answer" /\ main.pc # "direct" /\ Len(ch) < Concurrency
  /\ ch' = Append(ch, [arts |-> routine[r].acc, bad |-> routine[r].bad])
  /\ routine' = [routine EXCEPT ![r].pc = "done"]
  /\ UNCHANGED <<search, main, worker, res, err>>

-----------------------------------------------------------------------------
StartSearch(s) ==
  /\ search = s
  /\ main = [pc |-> IF s.repos = <<>> THEN "installed"
                   ELSE IF s.miner THEN "direct" ELSE "launch", at |-> 1]
  /\ routine = [r \in DOMAIN s.repos |->
       IF s.miner THEN [Idle EXCEPT !.pc = "start"] ELSE Idle]
  /\ worker = [r \in DOMAIN s.repos |-> [c \in DOMAIN s.repos[r].cats |-> "idle"]]
  /\ ch = <<>> /\ res = <<>> /\ err = FALSE

Caller == (\E r \in DOMAIN Repos : Launch(r)) \/ Launched \/ Receive \/ Return \/ Installed

RepoRoutine(r) ==
  Open(r) \/ Spawn(r) \/ Spawned(r) \/ Collect(r) \/ Provide(r) \/ Send(r)

SearchNext ==
  \/ Caller
  \/ \E r \in DOMAIN Repos : RepoRoutine(r) \/ \E c \in DOMAIN Cats(r) : Scan(r, c)

-----------------------------------------------------------------------------
(* Properties.                                                             *)

\* The packages of a category that a search should find.  A category that no
\* package is asked in is not read for the other options of the command.
Sought(r, c) ==
  {a \in Cats(r)[c].arts : /\ Directory(a) /\ Matches(a)
                           /\ Opts.only /\ ~Cats(r)[c].asked => "packages" \in a.sat}

\* Those of a repository: of the categories that can be read, and the listed
\* ones, when it is searched and its identity can be read.
Expected(r) ==
  IF ~(search.miner \/ Used(r)) \/ ~Repos[r].identity THEN {}
  ELSE (UNION {Sought(r, c) : c \in {d \in DOMAIN Cats(r) : Cats(r)[d].ok}})
         \cup IF Opts.only THEN Providers(r) ELSE {}

\* No package is twice in s, but those listed under several names.
Once(s) == \A i, j \in DOMAIN s : s[i] = s[j] => i = j \/ s[i].listed > 1

\* A search that returns without an error has found each package that it
\* looks for, once, in whatever order the goroutines ran: the categories it
\* leaves out because they were not named hold no more than provides.yaml
\* lists, and only a repository without identity or a category that cannot
\* be read is missing.
NothingLost ==
  main.pc = "done" /\ ~err /\ Repos # <<>> =>
    /\ Range(res) = UNION {Expected(r) : r \in DOMAIN Repos}
    /\ Once(res)

Running(r) == routine[r].pc \notin {"idle", "done"}

\* The routine of r, or one of its workers, has a step that it can take.
Moves(r) ==
  \/ routine[r].pc = "start"
  \/ routine[r].pc \in {"spawn", "collect"} /\ routine[r].next > Len(Cats(r))
  \/ routine[r].pc = "spawn" /\ (Skipped(Category(r)) \/ routine[r].free > 0)
  \/ routine[r].pc = "collect" /\ worker[r][routine[r].next] \in {"send", "done"}
  \/ \E c \in DOMAIN Cats(r) : worker[r][c] = "scan"
  \/ routine[r].pc = "answer" /\ (main.pc = "direct" \/ Len(ch) < Concurrency)

\* Nobody waits for somebody who waits: a routine goes on, or waits for the
\* caller to read a full channel; the caller waits for a routine that is
\* running, and does not return before it has read the channel.
NeverStuck ==
  /\ \A r \in DOMAIN Repos : Running(r) =>
       Moves(r) \/ (routine[r].pc = "answer" /\ Len(ch) = Concurrency)
  /\ main.pc = "direct" \/ (main.pc = "receive" /\ main.at > 0 /\ ch = <<>>) =>
       \E r \in DOMAIN Repos : Running(r)
  /\ main.pc = "receive" /\ ch # <<>> => main.at > 0

\* (violated) "The searching options are managed in OR between the searching
\* types": a package of a readable category that satisfies one of the kinds
\* asked is answered.
OrHolds ==
  main.pc = "done" /\ ~err /\ ~Opts.and =>
    \A r \in DOMAIN Repos : Used(r) /\ Repos[r].identity =>
      \A c \in DOMAIN Cats(r) : Cats(r)[c].ok =>
        \A a \in Cats(r)[c].arts : a.sat \cap Opts.kinds # {} /\ ~a.masked /\ ~a.hidden =>
          a \in Range(res)

\* The search ends: no goroutine waits for a place or for a receiver for ever.
SearchEnds == <>(main.pc = "done")
================================================================================
