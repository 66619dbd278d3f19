------------------------------ MODULE RepoFactory ------------------------------
(***************************************************************************)
(* anise-build create-repo (anise-build/pkg/v2/repository/factory.go): the *)
(* metadata of the packages built and the definitions of a tree become a   *)
(* tarball and a repository.yaml with its checksum, both written in place  *)
(* in a directory that clients read meanwhile.  The tree is found through  *)
(* its index file, which tree genidx writes and tree purgeidx removes.     *)
(* None of these commands takes a lock and each may be killed.  The tree   *)
(* has one package of several versions, in a definition.yaml, which has    *)
(* one version at a time, or in a collection.yaml.                         *)
(***************************************************************************)
EXTENDS Naturals, Sequences, FiniteSets

CONSTANTS
  Versions,    \* versions of the package
  Creators,    \* processes that run create-repo
  Options,     \* [reset, compiler] explored
  Scenarios    \* [layout, built, left] explored: layout has the file of the package
               \* and whether the output goes elsewhere than the packages; built the
               \* versions built at first; left bounds the create-repo commands, the
               \* changes of the tree, the genidx and purgeidx commands, the kills and
               \* the seconds

ASSUME RepoFactoryAssumption ==
  /\ Versions \subseteq Nat /\ Versions # {} /\ IsFiniteSet(Versions)
  /\ Options \subseteq [reset : BOOLEAN, compiler : BOOLEAN]
  /\ Scenarios \subseteq
       [layout : [file : {"definition", "collection"}, separate : BOOLEAN],
        built : SUBSET Versions,
        left : [creates : Nat, edits : Nat, indexes : Nat, kills : Nat, ticks : Nat]]

VARIABLES
  layout,    \* the file of the package and where the output goes
  tree,      \* [vers, rev]: the versions in the file, its revision
  meta,      \* the metadata.yaml of each version: none, torn or ok
  index,     \* the index file of each mode: [state, vers]
  gen,       \* genidx: [pc, mode, vers]
  tarball,   \* what is served: [id, entries, whole] and where it comes from
  compiler,  \* the revision in the compilertree tarball that is served
  identity,  \* the repository.yaml that is served
  creator,   \* for each process: what it is at (Idle)
  client,    \* a machine that updates this repository
  clock,     \* seconds
  past,      \* history: publications, the last command that ended, genidx
  left       \* what is left of the bounds

factoryVars == <<tarball, compiler, identity, creator>>
treeVars == <<layout, tree, meta, index, gen>>
vars == <<treeVars, factoryVars, client, clock, past, left>>

Modes == {"plain", "zstd"}
NoIndex == [state |-> "none", vers |-> {}]
NoIndexes == [m \in Modes |-> NoIndex]
TornIndex == [state |-> "torn", vers |-> {}]

\* An empty repository.yaml parses: it has no revision and no document.  History:
\* regular, its revision follows the one that was served.
Empty == [rev |-> 0, date |-> 0, sum |-> 0, compiler |-> 0, regular |-> FALSE]
Absent == [Empty EXCEPT !.regular = TRUE]

NoTree == [vers |-> {}, rev |-> 0]
Part == [id |-> 0, entries |-> {}, whole |-> FALSE, tidy |-> FALSE, had |-> {}, seen |-> NoTree]

\* tidy, alone: history, whether the index was the one of the tree and whether
\* no other create-repo ran meanwhile; had, seen: what was there when it began.
Idle == [pc |-> "idle", opts |-> [reset |-> FALSE, compiler |-> FALSE], vers |-> {}, todo |-> {},
         entries |-> {}, prev |-> Absent, sum |-> 0, compiler |-> 0, mine |-> FALSE,
         alone |-> TRUE, tidy |-> TRUE, had |-> {}, seen |-> NoTree]

-----------------------------------------------------------------------------
(* The tree and its index.                                                 *)

\* A maintainer, or tree bump, changes the file; the commands that run learn
\* of it, for the properties.
Edit ==
  /\ left.edits > 0
  /\ \E vs \in SUBSET Versions :
       /\ layout.file = "definition" => Cardinality(vs) <= 1
       /\ tree' = [vers |-> vs, rev |-> tree.rev + 1]
  /\ creator' = [c \in Creators |-> [creator[c] EXCEPT !.tidy = @ /\ creator[c].pc = "idle"]]
  /\ past' = [past EXCEPT !.indexed = "none"]
  /\ left' = [left EXCEPT !.edits = @ - 1]
  /\ UNCHANGED <<layout, meta, index, gen, tarball, compiler, identity, client, clock>>

\* DetectMode: the file that is not compressed comes first.
Detected == IF index["plain"].state # "none" THEN "plain" ELSE "zstd"

\* The index that is read next is the one that genidx wrote last, for the tree
\* as it is.
Current == gen.pc = "idle" /\ past.indexed = Detected

\* TreeIdx.Generate.
GenRead ==
  /\ gen.pc = "idle" /\ left.indexes > 0
  /\ \E m \in Modes : gen' = [pc |-> "open", mode |-> m, vers |-> tree.vers]
  /\ past' = [past EXCEPT !.indexed = gen'.mode]
  /\ left' = [left EXCEPT !.indexes = @ - 1]
  /\ UNCHANGED <<layout, tree, meta, index, factoryVars, client, clock>>

\* TreeIdx.Write creates the file of its mode and leaves the other one.
GenOpen ==
  /\ gen.pc = "open"
  /\ index' = [index EXCEPT ![gen.mode] = TornIndex]
  /\ gen' = [gen EXCEPT !.pc = "write"]
  /\ UNCHANGED <<layout, tree, meta, factoryVars, client, clock, past, left>>

GenWrite ==
  /\ gen.pc = "write"
  /\ index' = [index EXCEPT ![gen.mode] = [state |-> "ok", vers |-> gen.vers]]
  /\ gen' = [gen EXCEPT !.pc = "idle"]
  /\ UNCHANGED <<layout, tree, meta, factoryVars, client, clock, past, left>>

GenKilled ==
  /\ gen.pc # "idle" /\ left.kills > 0
  /\ gen' = [gen EXCEPT !.pc = "idle"]
  /\ past' = [past EXCEPT !.indexed = "none"]
  /\ left' = [left EXCEPT !.kills = @ - 1]
  /\ UNCHANGED <<layout, tree, meta, index, factoryVars, client, clock>>

\* purgeIdxDir removes one of the two files.
PurgeIndex ==
  /\ gen.pc = "idle" /\ left.indexes > 0
  /\ index' = [index EXCEPT ![Detected] = NoIndex]
  /\ past' = [past EXCEPT !.indexed = IF Current THEN "none" ELSE @]
  /\ left' = [left EXCEPT !.indexes = @ - 1]
  /\ UNCHANGED <<layout, tree, meta, gen, factoryVars, client, clock>>

\* A build writes the metadata of a version, or is cut off in the middle.
Build(v) ==
  /\ meta[v] # "ok" \/ left.kills > 0
  /\ \/ meta' = [meta EXCEPT ![v] = "ok"] /\ meta[v] # "ok" /\ UNCHANGED left
     \/ /\ left.kills > 0 /\ meta' = [meta EXCEPT ![v] = "torn"]
        /\ left' = [left EXCEPT !.kills = @ - 1]
  /\ UNCHANGED <<layout, tree, index, gen, factoryVars, client, clock, past>>

-----------------------------------------------------------------------------
(* create-repo.                                                            *)

fixed == <<treeVars, client, clock, left>>

At(c, pc) == creator[c].pc = pc
Active == {c \in Creators : ~At(c, "idle")}
Step(c, rec) == creator' = [creator EXCEPT ![c] = rec]

End(c, how) ==
  /\ Step(c, Idle)
  /\ past' = [past EXCEPT !.last = IF creator[c].alone THEN how ELSE "shared"]

Fails(c) == End(c, "error") /\ UNCHANGED <<tarball, compiler, identity>>

Start(c) ==
  /\ At(c, "idle") /\ left.creates > 0
  /\ \E o \in Options :
       creator' = [d \in Creators |->
         IF d = c THEN [Idle EXCEPT !.pc = "load", !.opts = o, !.alone = Active = {}]
         ELSE [creator[d] EXCEPT !.alone = @ /\ At(d, "idle")]]
  /\ past' = [past EXCEPT !.last = "running"]
  /\ left' = [left EXCEPT !.creates = @ - 1]
  /\ UNCHANGED <<treeVars, tarball, compiler, identity, client, clock>>

\* The repository.yaml found where the packages are.
Previous == IF layout.separate THEN Absent ELSE identity

Built == {v \in Versions : meta[v] # "none"}

\* The index of the tree, the former repository.yaml (its errors are ignored)
\* and the directory of the packages.
Load(c) ==
  /\ At(c, "load")
  /\ IF index[Detected].state # "ok" THEN Fails(c)
     ELSE /\ Step(c, [creator[c] EXCEPT !.pc = "package", !.vers = index[Detected].vers,
                                        !.prev = Previous, !.todo = Built, !.had = Built,
                                        !.seen = tree, !.tidy = Current])
          /\ UNCHANGED <<tarball, compiler, identity, past>>
  /\ UNCHANGED fixed

\* Lists what is no more in the tree too.
BugInTree(c, v) == TRUE

\* A version that the index does not have is left out.
InTree(c, v) == v \in creator[c].vers

\* A collection is asked for the version; a definition.yaml is read whatever
\* its version is now.
DefinitionsOf(v) ==
  IF layout.file = "collection" THEN tree.vers \cap {v} ELSE tree.vers

\* createPackage, for the metadata files one after the other; a file cut short
\* and a definition that is not there end the command.
Package(c) ==
  /\ At(c, "package") /\ creator[c].todo # {}
  /\ \E v \in creator[c].todo :
       LET next == [creator[c] EXCEPT !.todo = @ \ {v}]
           defs == DefinitionsOf(v)
       IN /\ \A w \in creator[c].todo : v <= w
          /\ \/ meta[v] = "torn" /\ Fails(c)
             \/ meta[v] = "ok" /\ InTree(c, v) /\ defs = {} /\ Fails(c)
             \/ /\ meta[v] = "ok" /\ (InTree(c, v) => defs # {})
                /\ Step(c, [next EXCEPT !.entries = @ \cup
                     {[ver |-> v, defined |-> d, rev |-> tree.rev] :
                       d \in IF InTree(c, v) THEN defs ELSE {}}])
                /\ UNCHANGED <<tarball, compiler, identity, past>>
  /\ UNCHANGED fixed

\* PrepareTarWriter truncates the tarball that is served.
OpenTar(c) ==
  /\ At(c, "package") /\ creator[c].todo = {}
  /\ tarball' = Part
  /\ creator' = [d \in Creators |->
       IF d = c THEN [creator[c] EXCEPT !.pc = "fill", !.mine = TRUE]
       ELSE [creator[d] EXCEPT !.mine = FALSE]]
  /\ UNCHANGED <<fixed, compiler, identity, past>>

\* The tree is archived; when another process wrote to the file meanwhile the
\* two may be mixed.
FillTar(c) ==
  /\ At(c, "fill")
  /\ LET whole == [id |-> past.made + 1, entries |-> creator[c].entries, whole |-> TRUE,
                   tidy |-> creator[c].tidy, had |-> creator[c].had, seen |-> creator[c].seen]
     IN \/ tarball' = whole
        \/ ~creator[c].mine /\ tarball' = [Part EXCEPT !.id = past.made + 1]
  /\ past' = [past EXCEPT !.made = @ + 1]
  /\ creator' = [d \in Creators |->
       IF d = c THEN [creator[c] EXCEPT !.pc = "sum"] ELSE [creator[d] EXCEPT !.mine = FALSE]]
  /\ UNCHANGED <<fixed, compiler, identity>>

\* createCompilerTreeTarball: with --with-compilertree the tree itself is archived
\* too.  That tarball is truncated, filled and summed like the other, in one step
\* here: clients do not read it, and its checksum is of what the step leaves.
CompilerTree(c) == IF creator[c].opts.compiler THEN tree.rev ELSE compiler

\* Keeps the documents of the former repository.yaml.
BugSum(c) ==
  /\ At(c, "sum")
  /\ compiler' = CompilerTree(c)
  /\ Step(c, [creator[c] EXCEPT !.pc = "identity",
                                !.sum = IF creator[c].prev.sum # 0 THEN creator[c].prev.sum ELSE tarball.id])
  /\ UNCHANGED <<fixed, tarball, identity, past>>

\* Sha256Sum of the files closed.
Sum(c) ==
  /\ At(c, "sum")
  /\ compiler' = CompilerTree(c)
  /\ Step(c, [creator[c] EXCEPT !.pc = "identity", !.sum = tarball.id,
                                !.compiler = IF creator[c].opts.compiler THEN tree.rev ELSE 0])
  /\ UNCHANGED <<fixed, tarball, identity, past>>

\* WriteFile truncates repository.yaml.
OpenIdentity(c) ==
  /\ At(c, "identity")
  /\ identity' = Empty
  /\ Step(c, [creator[c] EXCEPT !.pc = "write"])
  /\ UNCHANGED <<fixed, tarball, compiler, past>>

\* Keeps the revision, as the date is a new one.
BugBumped(c) == IF creator[c].opts.reset \/ creator[c].prev.rev = 0 THEN 1 ELSE creator[c].prev.rev

\* BumpRevision and ResetRevision.
Bumped(c) == IF creator[c].opts.reset THEN 1 ELSE creator[c].prev.rev + 1

WriteIdentity(c) ==
  /\ At(c, "write")
  /\ LET me == creator[c]
         id == [rev |-> Bumped(c), date |-> clock, sum |-> me.sum, compiler |-> me.compiler,
                regular |-> /\ me.alone /\ ~me.opts.reset /\ ~layout.separate
                            /\ me.prev = Absent \/ me.prev.rev # 0]
     IN /\ identity' = id
        /\ Step(c, Idle)
        /\ past' = [past EXCEPT !.last = IF me.alone THEN "ok" ELSE "shared",
                                !.odd = IF id.regular THEN @ ELSE @ \cup {id.date}]
  /\ UNCHANGED <<fixed, tarball, compiler>>

Kill(c) ==
  /\ ~At(c, "idle") /\ left.kills > 0
  /\ End(c, "killed")
  /\ left' = [left EXCEPT !.kills = @ - 1]
  /\ UNCHANGED <<treeVars, tarball, compiler, identity, client, clock>>

Create(c) ==
  \/ Load(c) \/ Package(c) \/ OpenTar(c) \/ FillTar(c) \/ Sum(c) \/ OpenIdentity(c)
  \/ WriteIdentity(c)

Tick ==
  /\ left.ticks > 0
  /\ clock' = clock + 1
  /\ left' = [left EXCEPT !.ticks = @ - 1]
  /\ UNCHANGED <<treeVars, factoryVars, client, past>>

-----------------------------------------------------------------------------
(* A client: WagonRepository.Sync, without failures of its own (RepoSync).  *)

SameIdentity(a, b) == a.rev = b.rev /\ a.date = b.date

\* repository.yaml is downloaded; one without a tree document is corrupted, one
\* with the same revision and date leaves all as it is.
SyncIdentity ==
  /\ client.pc = "idle"
  /\ IF identity.rev = 0 \/ SameIdentity(client.id, identity)
       THEN UNCHANGED client
       ELSE client' = [client EXCEPT !.pc = "tree", !.new = identity]
  /\ UNCHANGED <<treeVars, factoryVars, clock, past, left>>

Verified == tarball.id = client.new.sum

\* The tarball is downloaded and verified, then it replaces the local tree.
SyncTree ==
  /\ client.pc = "tree"
  /\ client' = IF Verified
       THEN [client EXCEPT !.pc = "idle", !.id = client.new, !.entries = tarball.entries,
                           !.whole = tarball.whole]
       ELSE [client EXCEPT !.pc = "idle"]
  /\ UNCHANGED <<treeVars, factoryVars, clock, past, left>>

-----------------------------------------------------------------------------
Init ==
  /\ \E s \in Scenarios :
       /\ layout = s.layout /\ left = s.left
       /\ meta = [v \in Versions |-> IF v \in s.built THEN "ok" ELSE "none"]
  /\ tree = [vers |-> {CHOOSE v \in Versions : \A w \in Versions : v <= w}, rev |-> 1]
  /\ index = [NoIndexes EXCEPT !["zstd"] = [state |-> "ok", vers |-> tree.vers]]
  /\ gen = [pc |-> "idle", mode |-> "zstd", vers |-> {}]
  /\ tarball = Part /\ compiler = 0 /\ identity = Absent
  /\ creator = [c \in Creators |-> Idle]
  /\ client = [pc |-> "idle", id |-> Absent, new |-> Absent, entries |-> {}, whole |-> TRUE]
  /\ clock = 1
  /\ past = [made |-> 0, last |-> "none", odd |-> {}, indexed |-> "zstd"]

Next ==
  \/ Edit \/ GenRead \/ GenOpen \/ GenWrite \/ GenKilled \/ PurgeIndex
  \/ \E v \in Versions : Build(v)
  \/ \E c \in Creators : Start(c) \/ Create(c) \/ Kill(c)
  \/ Tick \/ SyncIdentity \/ SyncTree

Spec == Init /\ [][Next]_vars

-----------------------------------------------------------------------------
(* Properties.                                                             *)

\* No create-repo runs and the last one reported success.
Published == Active = {} /\ past.last = "ok"

\* Whatever commands were killed before, between any two of their writes: after
\* a create-repo that ran alone and reported success, what is served is whole
\* and repository.yaml has the checksums of the tarballs next to it.
PublishedConsistent ==
  Published =>
    /\ identity.rev # 0 /\ tarball.whole /\ identity.sum = tarball.id
    /\ identity.compiler \in {0, compiler}

\* The repository lists the versions that are both built and in the tree, each
\* with its own definition, when create-repo read the index that genidx had
\* written last and the tree did not change from then to the end.
EntriesMatchTree ==
  tarball.whole /\ tarball.tidy =>
    tarball.entries = {[ver |-> v, defined |-> v, rev |-> tarball.seen.rev] :
                         v \in tarball.had \cap tarball.seen.vers}

\* The client finds the revision and the date that it has: it is told that
\* "Repository ... is already up to date."
ToldUpToDate == client.pc = "idle" /\ SameIdentity(client.id, identity)

\* The revision and the date which are served name one tree only when every
\* create-repo that wrote in that second did so alone, over the repository.yaml
\* that was served: no other create-repo ran at any time meanwhile, the revision
\* was not reset, the output does not go to another directory, the former
\* repository.yaml was not cut short.
OneTreeNamed == identity.date \notin past.odd

\* repository.yaml has the checksum of the whole tarball next to it, as after a
\* lone success (PublishedConsistent).
ServedWhole == identity.rev # 0 /\ tarball.whole /\ identity.sum = tarball.id

\* When OneTreeNamed holds: a client that is told that it is up to date, while
\* what is served is whole, has the tree which is served, although it also
\* updates between two writes or after a kill.  Nothing is said of the seconds
\* that OneTreeNamed leaves out, those of create-repo commands that overlapped
\* among them (UpToDateMeansServed).
UpToDateIsCurrent ==
  ServedWhole /\ ToldUpToDate /\ OneTreeNamed =>
    client.id.sum = tarball.id /\ client.whole /\ client.entries = tarball.entries

\* (violated) "Repository ... is already up to date.": between two create-repo
\* commands, however they ran, a client with a whole tree that is told so of what
\* is whole has the entries which are served.
UpToDateMeansServed ==
  Active = {} /\ ServedWhole /\ ToldUpToDate /\ client.whole =>
    client.entries = tarball.entries

\* (violated) "Use compressed indexes (true) or not (false)": create-repo uses
\* the index that genidx wrote last, of whichever kind, while the tree stays.
GeneratedIndexUsed ==
  [][\A c \in Creators :
       /\ At(c, "load") /\ creator'[c].pc = "package"
       /\ past.indexed # "none" /\ gen.pc = "idle"
       => creator'[c].vers = tree.vers]_vars
================================================================================
