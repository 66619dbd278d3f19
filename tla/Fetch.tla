--------------------------------- MODULE Fetch ---------------------------------
(***************************************************************************)
(* The download of artifacts into the package cache (pkg/v2/repository/    *)
(* client, installer/manager.go, cmd/miner/download.go, cleanup.go).  One  *)
(* process holds anise.lock and downloads what its solver chose; the miner *)
(* searches one repository (SearchPool) and downloads what it finds, and   *)
(* cleanup empties the cache: neither takes the lock.  A file of the cache *)
(* is named for the package and its version, so a package published again  *)
(* under its version keeps its name and changes its checksum.              *)
(***************************************************************************)
EXTENDS SearchPool

CONSTANTS
  Wanted,       \* what the solver of the locked command may choose
  Files,        \* names of files: the field file of the artifacts
  Clients,      \* types of the repository explored: disk, http, docker
  Urls,         \* number of urls of the repository
  MaxFaults,    \* bound: urls, copies and processes that fail
  MaxPublish,   \* bound: packages published again
  MaxCommands,  \* bound: commands of a process
  MaxClean      \* bound: cleanups

ASSUME FetchAssumption ==
  /\ Urls \in Nat
  /\ Clients \subseteq {"disk", "http", "docker"}
  /\ Wanted \subseteq Seq(Files)
  /\ \A s \in Searches : s.miner => DOMAIN s.repos = {1}
  /\ \A s \in Searches : \A r \in DOMAIN s.repos : \A c \in DOMAIN s.repos[r].cats :
       \A a \in s.repos[r].cats[c].arts : a.file \in Files

VARIABLES
  client,  \* the type of the repository
  served,  \* for each file, the release the urls serve
  tree,    \* for each file, the release whose checksum the synced tree has
  cache,   \* for each file: none, part or a release
  last,    \* for each file, the process that opened it last to write
  proc,    \* for each process: what it is at (Idle0)
  left     \* what is left of the bounds

fetchVars == <<client, served, tree, cache, last, proc, left>>
vars == <<searchVars, fetchVars>>

Procs == {"install", "miner"}
None == 0       \* no file
Part == 100     \* a file that is not whole

Item(p) == Head(proc[p].todo)
At(p, pc) == proc[p].pc = pc

\* want: the checksums it loaded.  path, sums: CachePath is set, Checksums not
\* dropped.  linked: the file it writes is still in the cache.  History: why,
\* the reasons it has to fail.
Idle0 == [pc |-> "idle", todo |-> <<>>, asked |-> {}, want |-> tree, url |-> 1, got |-> None,
          path |-> FALSE, sums |-> TRUE, linked |-> FALSE, fail |-> FALSE, why |-> {}]

Step(p, f) == proc' = [proc EXCEPT ![p] = f]

Others(p, f) == {q \in Procs \ {p} : proc[q].pc = "copy" /\ Item(q) = f}

\* The processes that work with a file learn that another one touched it.
Touched(p, f, ps) ==
  [q \in Procs |->
     IF q # p /\ f \in proc[q].asked
       THEN [ps[q] EXCEPT !.why = @ \cup {"shared"}] ELSE ps[q]]

-----------------------------------------------------------------------------
(* The commands.                                                           *)

Begin(p, files) ==
  Step(p, [Idle0 EXCEPT !.pc = "item", !.todo = files, !.asked = Range(files),
                        !.want = tree])

\* Install and Upgrade, after the solver.
StartInstall(files) ==
  /\ At("install", "idle") /\ left.commands["install"] > 0
  /\ Begin("install", files)
  /\ left' = [left EXCEPT !.commands["install"] = @ - 1]
  /\ UNCHANGED <<searchVars, client, served, tree, cache, last>>

\* The miner takes the answer of SearchArtifacts without a channel; it ends
\* when the identity cannot be read.
MinerSearch ==
  /\ main.pc = "direct" /\ routine[1].pc = "answer"
  /\ main' = [main EXCEPT !.pc = "done"]
  /\ IF routine[1].bad \/ ~Repos[1].identity THEN err' = TRUE /\ UNCHANGED res
     ELSE res' = routine[1].acc /\ UNCHANGED err
  /\ routine' = [routine EXCEPT ![1].pc = "done"]
  /\ UNCHANGED <<search, worker, ch, fetchVars>>

StartMiner ==
  /\ search.miner /\ main.pc = "done" /\ ~err
  /\ At("miner", "idle") /\ left.commands["miner"] > 0
  /\ Begin("miner", [i \in DOMAIN res |-> res[i].file])
  /\ left' = [left EXCEPT !.commands["miner"] = @ - 1]
  /\ UNCHANGED <<searchVars, client, served, tree, cache, last>>

\* The next artifact: a failed one does not stop the others.
NextItem(p, bad) ==
  [proc[p] EXCEPT !.pc = "item", !.todo = Tail(@), !.url = 1, !.path = FALSE,
                  !.sums = TRUE, !.linked = FALSE, !.fail = @ \/ bad]

\* "Error on download phase", or the transaction starts; the miner also fails
\* when it has not one package for each that was asked.
Phase(p) ==
  /\ At(p, "item") /\ proc[p].todo = <<>>
  /\ Step(p, [proc[p] EXCEPT !.pc =
       IF proc[p].fail \/ (p = "miner" /\ Len(res) # search.args) THEN "failed" ELSE "ready"])
  /\ UNCHANGED <<searchVars, client, served, tree, cache, last, left>>

Exit(p) ==
  /\ proc[p].pc \in {"failed", "ready"}
  /\ Step(p, Idle0)
  /\ UNCHANGED <<searchVars, client, served, tree, cache, last, left>>

-----------------------------------------------------------------------------
(* DownloadArtifact of the three clients.                                  *)

Looking(p) == At(p, "item") /\ proc[p].todo # <<>>

\* A file of the cache is used whatever it holds.
InCache(f) == cache[f] # None

\* The docker client drops the checksum of a cached file and, unlike the
\* others, does not say where the file is.
Cached(p) ==
  /\ Looking(p) /\ InCache(Item(p))
  /\ Step(p, [proc[p] EXCEPT !.pc = "verify", !.path = client # "docker",
                             !.sums = client # "docker", !.why = @ \cup {"cached"}])
  /\ UNCHANGED <<searchVars, client, served, tree, cache, last, left>>

Missing(p) ==
  /\ Looking(p) /\ ~InCache(Item(p))
  /\ Step(p, [proc[p] EXCEPT !.pc = "try"])
  /\ UNCHANGED <<searchVars, client, served, tree, cache, last, left>>

\* A url answers with the file it serves; http has it in a temporary
\* directory, docker unpacked there, and the copy to the cache truncates.
Answers(p) ==
  /\ At(p, "try") /\ proc[p].url <= Urls
  /\ LET f == Item(p)
     IN /\ cache' = [cache EXCEPT ![f] = Part]
        /\ last' = [last EXCEPT ![f] = p]
        /\ proc' = Touched(p, f, [proc EXCEPT ![p] =
             [proc[p] EXCEPT !.pc = "copy", !.got = served[f], !.linked = TRUE,
                       !.why = IF served[f] = proc[p].want[f] THEN @ ELSE @ \cup {"sync"}]])
  /\ UNCHANGED <<searchVars, client, served, tree, left>>

NextUrl(p) ==
  [proc[p] EXCEPT !.pc = "try", !.url = @ + 1, !.why = @ \cup {"fault"}]

Refuses(p) ==
  /\ At(p, "try") /\ proc[p].url <= Urls /\ left.faults > 0
  /\ Step(p, NextUrl(p))
  /\ left' = [left EXCEPT !.faults = @ - 1]
  /\ UNCHANGED <<searchVars, client, served, tree, cache, last>>

\* The last url has failed.  The error that the docker client returns is a
\* variable that its loop shadows: nil; so is that of the others without urls.
NoUrl(p) ==
  /\ At(p, "try") /\ proc[p].url > Urls
  /\ Step(p, IF client = "docker" \/ Urls = 0 THEN [proc[p] EXCEPT !.pc = "verify"]
             ELSE NextItem(p, TRUE))
  /\ UNCHANGED <<searchVars, client, served, tree, cache, last, left>>

\* Two processes that both found no file write over each other: the file is
\* whole when the last to open it has written it and no other release is
\* mixed in.
Written(p, f, v) ==
  IF last[f] = p
    THEN IF \E q \in Others(p, f) : proc[q].linked /\ proc[q].got # v THEN Part ELSE v
    ELSE IF cache[f] = v THEN v ELSE Part

\* Leaves CachePath unset, as the docker client does for a cached file.
BugPathSet == FALSE

PathSet == TRUE

\* CopyFile, or Compress for docker, which drops the checksum.
Copied(p) ==
  /\ At(p, "copy")
  /\ LET f == Item(p)
         c == IF proc[p].linked THEN Written(p, f, proc[p].got) ELSE cache[f]
     IN /\ cache' = [cache EXCEPT ![f] = c]
        /\ proc' = Touched(p, f, [proc EXCEPT ![p] =
             [proc[p] EXCEPT !.pc = "verify", !.path = PathSet, !.sums = client # "docker"]])
  /\ UNCHANGED <<searchVars, client, served, tree, last, left>>

\* The part that was written stays.  http gives up, disk and docker go on to
\* the next url; docker has already set the path and dropped the checksum.
CopyFails(p) ==
  /\ At(p, "copy") /\ left.faults > 0
  /\ Step(p, CASE client = "http" -> [NextItem(p, TRUE) EXCEPT !.why = @ \cup {"fault"}]
               [] client = "disk" -> NextUrl(p)
               [] client = "docker" -> [NextUrl(p) EXCEPT !.path = TRUE, !.sums = FALSE])
  /\ left' = [left EXCEPT !.faults = @ - 1]
  /\ UNCHANGED <<searchVars, client, served, tree, cache, last>>

\* The process ends between two system calls.
Crash(p) ==
  /\ proc[p].pc # "idle" /\ left.faults > 0
  /\ Step(p, Idle0)
  /\ left' = [left EXCEPT !.faults = @ - 1]
  /\ UNCHANGED <<searchVars, client, served, tree, cache, last>>

\* Accepts any file.
BugSame(p) == TRUE

\* Compare: an artifact without checksums accepts any.
Same(p) == proc[p].sums => cache[Item(p)] = proc[p].want[Item(p)]

\* Verify reads the file at CachePath.
Verify(p) ==
  /\ At(p, "verify")
  /\ Step(p, NextItem(p, ~(proc[p].path /\ cache[Item(p)] # None /\ Same(p))))
  /\ UNCHANGED <<searchVars, client, served, tree, cache, last, left>>

-----------------------------------------------------------------------------
(* The others.                                                             *)

\* CleanLocalPackagesCache removes the files one at a time.
Clean(f) ==
  /\ left.clean > 0 /\ cache[f] # None
  /\ cache' = [cache EXCEPT ![f] = None]
  /\ last' = [last EXCEPT ![f] = "none"]
  /\ left' = [left EXCEPT !.clean = @ - 1]
  /\ proc' = Touched("none", f, [q \in Procs |->
       IF q \in Others("none", f) THEN [proc[q] EXCEPT !.linked = FALSE] ELSE proc[q]])
  /\ UNCHANGED <<searchVars, client, served, tree>>

\* The repository builds a package again; its urls serve it at once.
Publish(f) ==
  /\ left.publish > 0
  /\ served' = [served EXCEPT ![f] = @ + 1]
  /\ left' = [left EXCEPT !.publish = @ - 1]
  /\ UNCHANGED <<searchVars, client, tree, cache, last, proc>>

\* repo update (RepoSync), which takes no lock either.
Sync ==
  /\ tree # served /\ tree' = served
  /\ UNCHANGED <<searchVars, client, served, cache, last, proc, left>>

-----------------------------------------------------------------------------
(* The specification: a search, or the processes that download.            *)

Init ==
  /\ client \in Clients
  /\ served = [f \in Files |-> 1] /\ tree = served
  /\ cache = [f \in Files |-> None] /\ last = [f \in Files |-> "none"]
  /\ proc = [p \in Procs |-> Idle0]
  /\ \E s \in Searches :
       /\ StartSearch(s)
       /\ left = IF s.miner
            THEN [commands |-> [p \in Procs |-> MaxCommands], faults |-> MaxFaults,
                  publish |-> MaxPublish, clean |-> MaxClean]
            ELSE [commands |-> [p \in Procs |-> 0], faults |-> 0, publish |-> 0, clean |-> 0]

Download(p) ==
  \/ Phase(p) \/ Exit(p) \/ Cached(p) \/ Missing(p) \/ Answers(p) \/ Refuses(p)
  \/ NoUrl(p) \/ Copied(p) \/ CopyFails(p) \/ Crash(p) \/ Verify(p)

Next ==
  \/ SearchNext /\ UNCHANGED fetchVars
  \/ MinerSearch \/ StartMiner
  \/ \E files \in Wanted : StartInstall(files)
  \/ \E p \in Procs : Download(p)
  \/ \E f \in Files : Clean(f) \/ Publish(f)
  \/ Sync

Goroutine(r) ==
  /\ r \in DOMAIN Repos
  /\ RepoRoutine(r) /\ UNCHANGED fetchVars

Worker(r, c) ==
  /\ r \in DOMAIN Repos /\ c \in DOMAIN Cats(r)
  /\ Scan(r, c) /\ UNCHANGED fetchVars

MaxOf(lens) == CHOOSE n \in lens : \A m \in lens : m <= n
MaxRepos == MaxOf({Len(s.repos) : s \in Searches})
MaxCats == MaxOf({0} \cup UNION {{Len(s.repos[r].cats) : r \in DOMAIN s.repos} : s \in Searches})

\* The scheduler runs every goroutine that can run.
Spec ==
  /\ Init /\ [][Next]_vars
  /\ WF_vars(Caller /\ UNCHANGED fetchVars) /\ WF_vars(MinerSearch)
  /\ \A r \in 1 .. MaxRepos :
       WF_vars(Goroutine(r)) /\ \A c \in 1 .. MaxCats : WF_vars(Worker(r, c))

-----------------------------------------------------------------------------
(* Properties.                                                             *)

\* A download fails for a reason: a url or a copy failed, the file was in the
\* cache before, it is not the release of the tree, or another process
\* touched it.  A command alone, with urls that answer what its tree says and
\* nothing in the cache, does not fail, whatever its client.
FailsForAReason ==
  Urls > 0 => \A p \in Procs : proc[p].fail => proc[p].why # {}

\* When the transaction starts every artifact is in the cache as published,
\* though a later download ran after it was verified, unless a process that
\* takes no lock touched it, or the docker client lost the error of a copy
\* or downloads a release that the tree does not know.
ReadyIsWhole ==
  \A p \in Procs : proc[p].pc = "ready" =>
    \/ \A f \in proc[p].asked : cache[f] = proc[p].want[f]
    \/ "shared" \in proc[p].why
    \/ client = "docker" /\ proc[p].why \cap {"fault", "sync"} # {}
================================================================================
