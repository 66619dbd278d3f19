-------------------------------- MODULE RepoSync --------------------------------
(***************************************************************************)
(* anise repo update (pkg/v2/repository: SyncRepos, processRepository,     *)
(* Sync, ExplodeMetadata).  The command starts one goroutine per requested *)
(* repository; a semaphore lets concurrency of them work at a time and     *)
(* each answers on a channel of the same capacity.  A goroutine compares   *)
(* the remote repository.yaml with the local one and, when they differ,    *)
(* downloads the tarballs, replaces repository.yaml, deletes the old tree, *)
(* unpacks the new one and writes the package metadata into it.  Errors of *)
(* the deletion are dropped and those of the metadata only warn: such a    *)
(* goroutine goes on and answers without error.                            *)
(***************************************************************************)
EXTENDS Naturals, FiniteSets, Sequences

CONSTANTS
  Repos,        \* configured repositories
  Unknown,      \* a name on the command line that no repository has
  V2,           \* repositories that publish a treev2 tarball (no metadata step)
  Revs,         \* revisions a repository may publish: 1 .. n
  NoRev,        \* no local repository.yaml
  Torn,         \* a repository.yaml cut short: it cannot be parsed
  Requests,     \* command lines explored, with the configuration each runs under:
                \* [args, force, ignore, concurrency]
  Faults,       \* the steps that may fail
  MaxArgs,      \* bound: arguments of a command line
  MaxCommands,  \* bound: commands run
  MaxCrashes    \* bound: processes killed

FaultKinds == {"fetch", "docs", "copy", "remove", "unpack", "explode", "metadata"}

ASSUME RepoSyncAssumption ==
  /\ Unknown \notin Repos /\ V2 \subseteq Repos
  /\ Revs \subseteq Nat \ {0} /\ 1 \in Revs
  /\ NoRev \notin Revs /\ Torn \notin Revs /\ NoRev # Torn
  /\ Requests \subseteq [args : Seq(Repos \cup {Unknown}), force : BOOLEAN,
                     ignore : BOOLEAN, concurrency : Nat \ {0}]
  /\ MaxArgs \in Nat
  /\ \A r \in Requests : Len(r.args) <= MaxArgs
  /\ Requests # {}
  /\ Faults \subseteq FaultKinds
  /\ MaxCommands \in Nat /\ MaxCrashes \in Nat

VARIABLES
  remote,    \* the revision each repository publishes
  identity,  \* the revision in the local repository.yaml
  tree,      \* the local tree of each repository
  main,      \* the command: idle, spawn, collect, wait
  req,       \* its request
  next,      \* index of the next argument
  pc,        \* the step of the goroutine of each argument
  cur,       \* the revision a goroutine holds for the local repository.yaml
  new,       \* the revision it read from the remote one
  failed,    \* goroutines that met an error
  dropped,   \* goroutines that met an error the code drops or only warns of
  chan,      \* goroutines whose answer is in the channel
  got,       \* goroutines whose answer was received
  withErr,   \* the withErr flag of SyncRepos
  result,    \* how the last command ended
  commands,  \* commands run so far (bounded)
  crashes    \* processes killed so far (bounded)

local == <<identity, tree>>
ctl   == <<main, req, next, withErr, result, commands, crashes>>
vars  == <<remote, identity, tree, main, req, next, pc, cur, new, failed, dropped,
           chan, got, withErr, result, commands, crashes>>

Slots == 1 .. MaxArgs

\* revs: whose files the tree holds; whole: the last unpack ended; ready: the
\* metadata of the packages is there.
NoTree == [revs |-> {}, whole |-> TRUE, ready |-> FALSE]
Tree(v) == [revs |-> {v}, whole |-> TRUE, ready |-> TRUE]

-----------------------------------------------------------------------------
(* The goroutine of argument i.                                            *)

Repo(i) == req.args[i]

\* Goroutines that hold the semaphore.
Working == {i \in Slots : pc[i] \notin {"none", "acquire", "done"}}

\* The arguments that name r: more than one when the command line repeats it.
Of(r) == {i \in DOMAIN req.args : req.args[i] = r}

\* Another goroutine of the same repository is at one of these steps.
Rival(i, steps) == \E j \in Of(Repo(i)) \ {i} : pc[j] \in steps

Goto(i, step) == pc' = [pc EXCEPT ![i] = step] /\ UNCHANGED <<failed, dropped>>

Fail(i) ==
  /\ pc' = [pc EXCEPT ![i] = "send"]
  /\ failed' = failed \cup {i}
  /\ UNCHANGED dropped

\* An error that Sync does not return.
Drop(i, step) ==
  /\ pc' = [pc EXCEPT ![i] = step]
  /\ dropped' = dropped \cup {i}
  /\ UNCHANGED failed

Acquire(i) ==
  /\ pc[i] = "acquire"
  /\ Cardinality(Working) < req.concurrency
  /\ Goto(i, "read")
  /\ UNCHANGED <<remote, local, cur, new, chan, got, ctl>>

\* The file was cut short, or a rival is just writing it.
Cut(i) == identity[Repo(i)] = Torn \/ Rival(i, {"copy"})

\* The revision goes into the entry of the configuration, which goroutines of
\* one repository share.
ReadRevision(i) ==
  cur' = [j \in Slots |-> IF j \in Of(Repo(i)) THEN identity[Repo(i)] ELSE cur[j]]

\* Returns the parse error without an answer on the channel.
BugRead(i) ==
  /\ pc[i] = "read"
  /\ \/ identity[Repo(i)] # Torn /\ ReadRevision(i) /\ Goto(i, "fetch")
     \/ Cut(i) /\ Goto(i, "done") /\ UNCHANGED cur
  /\ UNCHANGED <<remote, local, new, chan, got, ctl>>

\* ReadWagonIdentify: a file cut short may fail to parse (fatal unless force)
\* or parse as one without revision.
Read(i) ==
  /\ pc[i] = "read"
  /\ \/ identity[Repo(i)] # Torn /\ ReadRevision(i) /\ Goto(i, "fetch")
     \/ Cut(i) /\ Goto(i, "fetch") /\ UNCHANGED cur
     \/ Cut(i) /\ ~req.force /\ Fail(i) /\ UNCHANGED cur
  /\ UNCHANGED <<remote, local, new, chan, got, ctl>>

\* The revision or the date of the remote repository.yaml is another one.
Is2Update(i) == cur[i] # remote[Repo(i)]

\* Compares the revisions even with --force.
BugFetch(i) ==
  /\ pc[i] = "fetch"
  /\ new' = [new EXCEPT ![i] = remote[Repo(i)]]
  /\ Goto(i, IF Is2Update(i) THEN "docs" ELSE "send")
  /\ UNCHANGED <<remote, local, cur, chan, got, ctl>>

\* Download, parse and validate the remote repository.yaml.
Fetch(i) ==
  /\ pc[i] = "fetch"
  /\ \/ /\ new' = [new EXCEPT ![i] = remote[Repo(i)]]
        /\ Goto(i, IF Is2Update(i) \/ req.force THEN "docs" ELSE "send")
     \/ "fetch" \in Faults /\ Fail(i) /\ UNCHANGED new
  /\ UNCHANGED <<remote, local, cur, chan, got, ctl>>

\* DownloadDocument may fail, on a checksum too when the server has
\* published another revision since.
DownloadMayFail(i) == "docs" \in Faults \/ remote[Repo(i)] # new[i]

Docs(i) ==
  /\ pc[i] = "docs"
  /\ \/ Goto(i, "copy")
     \/ DownloadMayFail(i) /\ Fail(i)
  /\ UNCHANGED <<remote, local, cur, new, chan, got, ctl>>

\* CopyFile truncates and writes repository.yaml in place.  One cut after its
\* revision and date, in the list of the tarballs, is read as the new one.
Copy(i) ==
  /\ pc[i] = "copy"
  /\ \/ identity' = [identity EXCEPT ![Repo(i)] = new[i]] /\ Goto(i, "rmtree")
     \/ /\ "copy" \in Faults
        /\ \E left \in {identity[Repo(i)], Torn, new[i]} :
             identity' = [identity EXCEPT ![Repo(i)] = left]
        /\ Fail(i)
  /\ UNCHANGED <<remote, tree, cur, new, chan, got, ctl>>

\* Keeps the old tree and unpacks over it.
BugRmTree(i) ==
  /\ pc[i] = "rmtree"
  /\ Goto(i, "unpack")
  /\ UNCHANGED <<remote, local, cur, new, chan, got, ctl>>

Partial(t) == [revs |-> t.revs, whole |-> FALSE, ready |-> t.ready]

\* os.RemoveAll of treefs and metafs; its error is dropped, and the new tree is
\* unpacked over what is left.
RmTree(i) ==
  /\ pc[i] = "rmtree"
  /\ \/ tree' = [tree EXCEPT ![Repo(i)] = NoTree] /\ Goto(i, "unpack")
     \/ /\ "remove" \in Faults
        /\ \E left \in {tree[Repo(i)], Partial(tree[Repo(i)])} :
             tree' = [tree EXCEPT ![Repo(i)] = left]
        /\ Drop(i, "unpack")
  /\ UNCHANGED <<remote, identity, cur, new, chan, got, ctl>>

Unpacked(i, whole) ==
  [tree EXCEPT ![Repo(i)] =
     [revs |-> @.revs \cup {new[i]}, whole |-> whole, ready |-> whole /\ Repo(i) \in V2]]

\* A rival that deletes or writes the same tree may make it fail, or take away
\* files that this goroutine has already written.
Unpack(i) ==
  LET shared == Rival(i, {"rmtree", "unpack"}) IN
  /\ pc[i] = "unpack"
  /\ \/ /\ \E whole \in {TRUE, ~shared} : tree' = Unpacked(i, whole)
        /\ Goto(i, IF Repo(i) \in V2 THEN "send" ELSE "explode")
     \/ ("unpack" \in Faults \/ shared) /\ tree' = Unpacked(i, FALSE) /\ Fail(i)
  /\ UNCHANGED <<remote, identity, cur, new, chan, got, ctl>>

Exploded(i, ready) ==
  [tree EXCEPT ![Repo(i)] = [revs |-> @.revs, whole |-> @.whole, ready |-> ready]]

\* ExplodeMetadata: LoadCatalog and ReadDefinitionFile fail while a rival
\* deletes or unpacks the same files.  Packages whose directory is gone are left
\* out, and a metadata file that cannot be written is only warned of.
Explode(i) ==
  LET shared == Rival(i, {"rmtree", "unpack", "explode"})
      gone   == tree[Repo(i)].revs = {}
  IN
  /\ pc[i] = "explode"
  /\ \/ /\ \E ready \in {~gone, ~gone /\ ~shared} : tree' = Exploded(i, ready)
        /\ Goto(i, "send")
     \/ "metadata" \in Faults /\ tree' = Exploded(i, FALSE) /\ Drop(i, "send")
     \/ ("explode" \in Faults \/ shared \/ gone) /\ UNCHANGED tree /\ Fail(i)
  /\ UNCHANGED <<remote, identity, cur, new, chan, got, ctl>>

\* The answer blocks on a full channel; then the semaphore is released.
Send(i) ==
  /\ pc[i] = "send"
  /\ Cardinality(chan) < req.concurrency
  /\ chan' = chan \cup {i}
  /\ Goto(i, "done")
  /\ UNCHANGED <<remote, local, cur, new, got, ctl>>

Worker(i) ==
  \/ Acquire(i) \/ Read(i) \/ Fetch(i) \/ Docs(i) \/ Copy(i) \/ RmTree(i)
  \/ Unpack(i) \/ Explode(i) \/ Send(i)

-----------------------------------------------------------------------------
(* SyncRepos.                                                              *)

\* The memory of a process at its start, and of one that has gone.
Cleared ==
  /\ next' = 1
  /\ pc' = [i \in Slots |-> "none"]
  /\ cur' = [i \in Slots |-> NoRev] /\ new' = [i \in Slots |-> NoRev]
  /\ chan' = {} /\ got' = {} /\ failed' = {} /\ dropped' = {}
  /\ withErr' = FALSE

Update(r) ==
  /\ main = "idle"
  /\ commands < MaxCommands
  /\ main' = "spawn"
  /\ req' = r
  /\ result' = "none"
  /\ commands' = commands + 1
  /\ Cleared
  /\ UNCHANGED <<remote, local, crashes>>

LocalRevs == Revs \cup {NoRev, Torn}

\* The process stops while goroutines run.  Some of them (cut) are in the
\* middle of a write: a repository.yaml is cut short, a tree stays partial.
Interrupted ==
  \E cut \in SUBSET Slots :
    LET at(step, r) == {i \in cut : pc[i] = step /\ Repo(i) = r}
    IN /\ identity' \in {id \in [Repos -> LocalRevs] : \A r \in Repos :
            id[r] = identity[r] \/ \E i \in at("copy", r) : id[r] \in {Torn, new[i]}}
       /\ tree' = [r \in Repos |->
            IF at("rmtree", r) \cup at("unpack", r) = {} THEN tree[r]
            ELSE [revs |-> tree[r].revs \cup {new[i] : i \in at("unpack", r)},
                  whole |-> FALSE, ready |-> tree[r].ready]]

Stop(how) ==
  /\ main' = "idle"
  /\ result' = how
  /\ Interrupted
  /\ Cleared

Spawn ==
  /\ main = "spawn"
  /\ next <= Len(req.args)
  /\ \/ Repo(next) \in Repos /\ pc' = [pc EXCEPT ![next] = "acquire"]
     \/ Repo(next) = Unknown /\ req.ignore /\ UNCHANGED pc
  /\ next' = next + 1
  /\ UNCHANGED <<remote, local, cur, new, failed, dropped, chan, got, main, req, withErr,
                 result, commands, crashes>>

\* An unknown name returns at once: os.Exit ends the goroutines started for
\* the names before it.
UnknownName ==
  /\ main = "spawn"
  /\ next <= Len(req.args)
  /\ Repo(next) = Unknown
  /\ ~req.ignore
  /\ Stop("error")
  /\ UNCHANGED <<remote, req, commands, crashes>>

Spawned ==
  /\ main = "spawn"
  /\ next > Len(req.args)
  /\ main' = "collect"
  /\ UNCHANGED <<remote, local, pc, cur, new, failed, dropped, chan, got, req, next,
                 withErr, result, commands, crashes>>

\* Keeps the status of the last answer only.
BugCollect ==
  /\ main = "collect"
  /\ \E i \in chan :
       /\ chan' = chan \ {i}
       /\ got' = got \cup {i}
       /\ withErr' = (i \in failed /\ ~req.ignore)
  /\ UNCHANGED <<remote, local, pc, cur, new, failed, dropped, main, req, next, result,
                 commands, crashes>>

\* One receive per goroutine; errors are remembered unless --ignore-errors.
Collect ==
  /\ main = "collect"
  /\ \E i \in chan :
       /\ chan' = chan \ {i}
       /\ got' = got \cup {i}
       /\ withErr' = (withErr \/ (i \in failed /\ ~req.ignore))
  /\ UNCHANGED <<remote, local, pc, cur, new, failed, dropped, main, req, next, result,
                 commands, crashes>>

Started == {i \in Slots : pc[i] # "none"}

\* waitGroup.Wait, then the exit status.
Finish ==
  /\ main = "collect"
  /\ got = Started
  /\ \A i \in Started : pc[i] = "done"
  /\ main' = "idle"
  /\ result' = IF withErr THEN "error" ELSE "ok"
  /\ pc' = [i \in Slots |-> "none"]
  /\ cur' = [i \in Slots |-> NoRev]
  /\ UNCHANGED <<remote, local, new, failed, dropped, chan, got, req, next, withErr,
                 commands, crashes>>

\* The process is killed.
Crash ==
  /\ main # "idle"
  /\ crashes < MaxCrashes
  /\ crashes' = crashes + 1
  /\ Stop("killed")
  /\ UNCHANGED <<remote, req, commands>>

\* The server publishes the next revision.
Publish(r) ==
  /\ remote[r] + 1 \in Revs
  /\ remote' = [remote EXCEPT ![r] = @ + 1]
  /\ UNCHANGED <<local, pc, cur, new, failed, dropped, chan, got, ctl>>

Init ==
  /\ remote = [r \in Repos |-> 1]
  /\ identity = [r \in Repos |-> NoRev]
  /\ tree = [r \in Repos |-> NoTree]
  /\ main = "idle" /\ req \in Requests /\ next = 1
  /\ pc = [i \in Slots |-> "none"]
  /\ cur = [i \in Slots |-> NoRev] /\ new = [i \in Slots |-> NoRev]
  /\ failed = {} /\ dropped = {} /\ chan = {} /\ got = {}
  /\ withErr = FALSE /\ result = "none" /\ commands = 0 /\ crashes = 0

Main == Spawn \/ UnknownName \/ Spawned \/ Collect \/ Finish

Next ==
  \/ \E r \in Requests : Update(r)
  \/ Main
  \/ \E i \in Slots : Worker(i)
  \/ Crash
  \/ \E r \in Repos : Publish(r)

Spec == Init /\ [][Next]_vars

\* The Go scheduler runs every goroutine; downloads end, with or without error.
FairSpec == Spec /\ WF_vars(Main) /\ \A i \in Slots : WF_vars(Worker(i))

-----------------------------------------------------------------------------
(* Properties.                                                             *)

Trees == [revs : SUBSET Revs, whole : BOOLEAN, ready : BOOLEAN]

\* Every variable has its type.
TypeOK ==
  /\ remote \in [Repos -> Revs]
  /\ identity \in [Repos -> LocalRevs]
  /\ tree \in [Repos -> Trees]
  /\ main \in {"idle", "spawn", "collect"}
  /\ req \in Requests
  /\ next \in 1 .. MaxArgs + 1
  /\ pc \in [Slots -> {"none", "acquire", "read", "fetch", "docs", "copy", "rmtree",
                       "unpack", "explode", "send", "done"}]
  /\ cur \in [Slots -> LocalRevs] /\ new \in [Slots -> LocalRevs]
  /\ failed \subseteq Slots /\ dropped \subseteq Slots /\ chan \subseteq Slots /\ got \subseteq Slots
  /\ withErr \in BOOLEAN /\ result \in {"none", "ok", "error", "killed"}
  /\ commands \in 0 .. MaxCommands /\ crashes \in 0 .. MaxCrashes

Requested == {req.args[i] : i \in DOMAIN req.args} \cap Repos

\* The goroutines of r have all read the same revision on the server.
Agree(r) == \A i, j \in Of(r) : NoRev \in {new[i], new[j]} \/ new[i] = new[j]

Synced(r) == identity[r] \in Revs /\ tree[r] = Tree(identity[r])

\* A forced update that reports success has repaired every requested
\* repository, whatever earlier failures, kills or cut files left behind:
\* its tree is complete and is the one its repository.yaml names.  Goroutines
\* of a repository named twice may delete and write the same tree together.
\* Left out: repositories of which two goroutines read two revisions, and
\* those where Sync dropped an error (a deletion or a metadata file).
ForcedUpdateRepairs ==
  main = "idle" /\ result = "ok" /\ req.force /\ ~req.ignore =>
    \A r \in Requested : Agree(r) /\ Of(r) \cap dropped = {} => Synced(r)

\* Success is never reported when the Sync of a goroutine returned an error,
\* in whatever order the answers came, and no answer is lost or read twice.
ErrorsReported ==
  main = "idle" /\ result = "ok" =>
    /\ req.ignore \/ failed = {}
    /\ chan = {}
    /\ got = {i \in DOMAIN req.args : req.args[i] \in Repos}

\* A tree never becomes a mix of two revisions, in no step of the goroutines
\* of its repository and in no kill between them, unless an error of the
\* deletion was dropped or two of them read two revisions.
TreesNotMixed ==
  [][\A r \in Repos :
       /\ Cardinality(tree[r].revs) <= 1
       /\ Agree(r) /\ Of(r) \cap dropped = {}
       => Cardinality(tree'[r].revs) <= 1]_vars

\* repo update ends: goroutines, the semaphore and the bounded channel never
\* wait for each other in a circle.
UpdateEnds == main # "idle" ~> main = "idle"

\* (violated) An update that reports success leaves every requested
\* repository with the complete tree its repository.yaml names.
UpdateOkMeansSynced ==
  main = "idle" /\ result = "ok" /\ ~req.ignore =>
    \A r \in Requested : Synced(r)
================================================================================
