------------------------------ MODULE BuildManager ------------------------------
(***************************************************************************)
(* The builds of anise-build (anise-build/pkg/v2/solver/manager.go,        *)
(* backend/bridge.go, backend/docker.go): all the packages requested are   *)
(* resolved (BuildSolver), then for each package of each solution, in      *)
(* order, a build image, a final image and a package are made.  An image   *)
(* is found again by a hash of what it is made of, locally or, with        *)
(* --pull, in the repository of the images.  Specifications change and     *)
(* images are pruned between the builds; docker is modelled by what it     *)
(* does for these calls.                                                   *)
(***************************************************************************)
EXTENDS BuildSolver

CONSTANTS
  Options,    \* [pull, push, onlyTarget] explored
  Faults,     \* what may fail: list, pull, build, flatten, push, export, metadata
  MaxBuilds,  \* commands run one after the other
  MaxEdits    \* changes of a specification between them

ASSUME BuildManagerAssumption ==
  /\ Options \subseteq [pull : BOOLEAN, push : BOOLEAN, onlyTarget : BOOLEAN]
  /\ Faults \subseteq {"list", "pull", "build", "flatten", "push", "export", "metadata"}
  /\ MaxBuilds \in Nat /\ MaxEdits \in Nat

VARIABLES
  opts,        \* the options of the command
  edits,       \* changes so far: a sequence of <<package, part>>
  local,       \* docker's images: [tag, made, whole]
  remote,      \* the images of the repository
  dest,        \* destination: for a package, what its tar and metadata hold
  elaborated,  \* elaboratedPkgsMap: packages and their final image hashes
  hashes,      \* the final image hashes set on the artifacts of the solution
  at,          \* task, position in its solution, stage
  cut,         \* packages whose flatten was interrupted after docker read data
  builds       \* commands started

buildVars == <<opts, edits, local, remote, dest, elaborated, hashes, at, cut, builds>>
managerVars == <<solverVars, buildVars>>

Solution == solutions[at.task]
P == Solution[at.pos]

\* A package changes in three parts: "prelude" is what the hash of the build
\* image covers (image, env, prelude), "steps" what the hash of the final image
\* covers besides (steps, includes, excludes); "files", its directory and the
\* paths of its copy:, go into the build image and into neither hash.
Hashed == {"prelude", "steps"}
Parts == Hashed \cup {"files"}

\* Revision of a part.
Rev(p, part) == Cardinality({i \in DOMAIN edits : edits[i] = <<p, part>>})

-----------------------------------------------------------------------------
(* Hashes and images.                                                      *)

NoHash == <<>>

\* A require is looked for by name in the solution; one that comes later in
\* it has no hash yet.
DepHashes == [i \in DOMAIN Requires(P) |->
                hashes[CHOOSE k \in DOMAIN Solution : NameOf(Solution[k]) = Requires(P)[i]]]

\* GenerateBuildImageHash, GenerateFinalImageHash: the package, the versions
\* and the final image hashes of its dependencies, the hashed parts of its own.
BuildHash == <<"builder", P, Rev(P, "prelude"), DepHashes>>

\* Leaves out what is in the hash of the build image.
BugFinalHash == <<"final", P, Rev(P, "steps")>>
FinalHash == <<"final", P, Rev(P, "prelude"), Rev(P, "steps"), DepHashes>>

Stored(tag) == {i \in local \cup remote : i.tag = tag}
In(store, tag) == \E i \in store : i.tag = tag
Image(tag) == CHOOSE i \in Stored(tag) : In(local, tag) => i \in local
Put(store, i) == {j \in store : j.tag # i.tag} \cup {i}

\* What an image made from others has in it; the parts of p with their
\* revisions are added.
Make(tag, bases, parts) ==
  LET from == {Image(t) : t \in bases}
  IN [tag |-> tag,
      made |-> (UNION {i.made : i \in from}) \cup {<<P, part, Rev(P, part)>> : part \in parts},
      whole |-> \A i \in from : i.whole]

Fail == status' = "error" /\ UNCHANGED <<at, hashes, elaborated, dest>>

May(fault) == fault \in Faults

\* An image that was pulled is not pushed again.
Push(img, pulled, Then) ==
  IF opts.push /\ ~pulled
    THEN \/ remote' = Put(remote, img) /\ Then
         \/ May("push") /\ UNCHANGED remote /\ Fail
    ELSE UNCHANGED remote /\ Then

\* A found image is used; one that is not found is pulled or built.  A search
\* that fails counts as not found, a pull that fails is followed by a build.
\* A build needs its bases; a flat image is exported and imported again, and
\* docker may keep what it got of an interrupted import under the final name.
GetImage(tag, bases, parts, flat, Then) ==
  \E seen \in {In(local, tag)} \cup (IF May("list") THEN {FALSE} ELSE {}) :
    \/ seen /\ UNCHANGED <<local, cut>> /\ Push(Image(tag), FALSE, Then)
    \/ /\ ~seen /\ opts.pull /\ In(remote, tag)
       /\ LET img == CHOOSE i \in remote : i.tag = tag
          IN local' = Put(local, img) /\ Push(img, TRUE, Then)
       /\ UNCHANGED cut
    \/ /\ ~seen /\ (opts.pull /\ In(remote, tag) => May("pull"))
       /\ \/ /\ \A t \in bases : Stored(t) # {}
             /\ LET img == Make(tag, bases, parts)
                IN local' = Put(local, img) /\ Push(img, FALSE, Then)
             /\ UNCHANGED cut
          \/ /\ (\A t \in bases : Stored(t) # {}) => May("build")
             /\ UNCHANGED <<local, remote, cut>> /\ Fail
          \/ /\ flat /\ May("flatten") /\ \A t \in bases : Stored(t) # {}
             /\ local' = Put(local, [Make(tag, bases, parts) EXCEPT !.whole = FALSE])
             /\ cut' = cut \cup {P}
             /\ UNCHANGED remote /\ Fail

-----------------------------------------------------------------------------
(* Build, buildPackageTask and BuildArtifact.                              *)

NoHashes(k) == [i \in DOMAIN solutions[k] |-> NoHash]

\* All the selectors are resolved: the tasks are built one by one.
StartBuild ==
  /\ mode = "build" /\ status = "none" /\ todo = <<>> /\ pc = "idle" /\ solutions # <<>>
  /\ status' = "building"
  /\ at' = [task |-> 1, pos |-> 1, stage |-> "next"]
  /\ hashes' = NoHashes(1)
  /\ UNCHANGED <<forest, mode, todo, chosen, solutions, sortVars, opts, edits, local,
                 remote, dest, elaborated, cut, builds>>

Building(stage) == status = "building" /\ at.stage = stage

\* The next package of the solution, or the next solution.
Advance ==
  \/ /\ at.pos < Len(Solution)
     /\ at' = [at EXCEPT !.pos = @ + 1, !.stage = "next"]
     /\ UNCHANGED status
  \/ /\ at.pos = Len(Solution) /\ at.task < Len(solutions)
     /\ at' = [task |-> at.task + 1, pos |-> 1, stage |-> "next"]
     /\ UNCHANGED status
  \/ /\ at.pos = Len(Solution) /\ at.task = Len(solutions)
     /\ status' = "ok"
     /\ UNCHANGED at

\* Advance, with the hashes of the solution's artifacts.
Go(hs) ==
  /\ Advance
  /\ hashes' = IF at.pos = Len(Solution) /\ at.task < Len(solutions)
                 THEN NoHashes(at.task + 1) ELSE hs

fixed == <<forest, mode, todo, chosen, solutions, sortVars, opts, edits, builds>>

\* Does not set the hash on the other artifact of the package.
BugReused(h) == hashes

\* The hash that the package got in another task is set on its artifact.
Reused(h) == [hashes EXCEPT ![at.pos] = h]

\* A package built for an earlier solution is skipped.
Skip ==
  /\ Building("next") /\ P \in DOMAIN elaborated
  /\ Go(Reused(elaborated[P]))
  /\ UNCHANGED <<fixed, local, remote, dest, elaborated, cut>>

\* CreateBuildImage: a require of the package has to be in its solution.
CreateBuildImage ==
  /\ Building("next") /\ P \notin DOMAIN elaborated
  /\ IF \E n \in Range(Requires(P)) : \A q \in Range(Solution) : NameOf(q) # n
       THEN Fail /\ UNCHANGED <<local, remote, cut>>
       ELSE GetImage(BuildHash, Range(DepHashes), {"prelude", "files"}, FALSE,
              /\ at' = [at EXCEPT !.stage = "final"]
              /\ UNCHANGED <<status, hashes, elaborated, dest>>)
  /\ UNCHANGED fixed

\* CreateFinalImage.
CreateFinalImage ==
  /\ Building("final")
  /\ GetImage(FinalHash, {BuildHash}, {"steps"}, P \in forest.flat,
       /\ at' = [at EXCEPT !.stage = "package"]
       /\ hashes' = [hashes EXCEPT ![at.pos] = FinalHash]
       /\ UNCHANGED <<status, elaborated, dest>>)
  /\ UNCHANGED fixed

\* With --only-target-package a dependency gets no package.
Generated == ~opts.onlyTarget \/ at.pos = Len(Solution)

\* The map f with the value v at p.
Assign(f, p, v) == [q \in DOMAIN f \cup {p} |-> IF q = p THEN v ELSE f[q]]

\* The package and its hash are kept for the other solutions.
Elaborate ==
  /\ elaborated' = Assign(elaborated, P, hashes[at.pos])
  /\ Go(hashes)

NoFile == [made |-> {}, whole |-> FALSE]
Data(tag) == [made |-> Image(tag).made, whole |-> Image(tag).whole]
OldMeta == IF P \in DOMAIN dest THEN dest[P].meta ELSE NoFile

Files(tar) == [tar |-> tar, meta |-> OldMeta]

\* GeneratePackage: the files of the final image are exported over the package
\* in the destination, then the metadata with its checksum is written.
GeneratePackage ==
  /\ Building("package")
  /\ LET tag == hashes[at.pos]
         put(files) == dest' = Assign(dest, P, files)
         stop(files) == /\ put(files) /\ status' = "error"
                        /\ UNCHANGED <<at, hashes, elaborated>>
     IN \/ ~Generated /\ UNCHANGED dest /\ Elaborate
        \/ Generated /\ put([tar |-> Data(tag), meta |-> Data(tag)]) /\ Elaborate
        \/ Generated /\ May("export") /\ stop(Files(NoFile))
        \/ Generated /\ May("metadata") /\ stop(Files(Data(tag)))
  /\ UNCHANGED <<fixed, local, remote, cut>>

-----------------------------------------------------------------------------
(* The command line and its surroundings.                                  *)

\* The next command, after a change of a specification or none, with the
\* images that docker still has or without them.
NewBuild ==
  /\ status \in {"ok", "error", "panic"} /\ builds < MaxBuilds
  /\ builds' = builds + 1
  /\ todo' \in Requests /\ opts' \in Options
  /\ \/ UNCHANGED edits
     \/ Len(edits) < MaxEdits /\ \E e \in forest.pkgs \X Parts : edits' = Append(edits, e)
  /\ local' \in {local, {}}
  /\ elaborated' = <<>> /\ hashes' = <<>>
  /\ at' = [task |-> 1, pos |-> 1, stage |-> "next"]
  /\ status' = "none" /\ solutions' = <<>> /\ chosen' = {} /\ pc' = "idle"
  /\ reqs' = [n \in Names |-> <<>>] /\ elems' = <<>> /\ queue' = {} /\ ans' = <<>>
  /\ left' = {} /\ lastSize' = 0 /\ counter' = 0 /\ detected' = FALSE
  /\ agenda' = <<>> /\ stack' = {}
  /\ UNCHANGED <<forest, mode, remote, dest, cut>>

ManagerInit ==
  /\ SolverInit
  /\ opts \in Options /\ edits = <<>>
  /\ local = {} /\ remote = {} /\ dest = <<>>
  /\ elaborated = <<>> /\ hashes = <<>>
  /\ at = [task |-> 1, pos |-> 1, stage |-> "next"]
  /\ cut = {} /\ builds = 1

Solve == SolverNext /\ UNCHANGED buildVars

Build == StartBuild \/ Skip \/ CreateBuildImage \/ CreateFinalImage \/ GeneratePackage

\* The last command has ended.
Finished ==
  /\ builds = MaxBuilds /\ status \in {"ok", "error", "panic"}
  /\ UNCHANGED managerVars

ManagerNext == Solve \/ Build \/ NewBuild \/ Finished

ManagerSpec == ManagerInit /\ [][ManagerNext]_managerVars

-----------------------------------------------------------------------------
(* Properties of the builds.                                               *)

\* The first solution with p is the one that p is built for.
BuiltFor(p) == CHOOSE k \in DOMAIN solutions :
                 /\ p \in Range(solutions[k])
                 /\ \A j \in 1 .. k - 1 : p \notin Range(solutions[j])

\* The packages that a build which succeeded has written.
Written ==
  IF status # "ok" \/ mode # "build" THEN {}
  ELSE {p \in DOMAIN elaborated : opts.onlyTarget => p = Last(solutions[BuiltFor(p)])}

Resolved(p) == \E k \in DOMAIN solutions : p \in Range(solutions[k])

\* What p requires or copies from, as resolved for the solution it is built for.
Needs(p) == {q \in Range(solutions[BuiltFor(p)]) : NameOf(q) \in Range(Requires(p))}

\* The packages that p is made of, all resolved as they were built: the least set
\* with p that holds what its packages need.
BuiltFrom(p) ==
  LET all == {q \in forest.pkgs : Resolved(q)}
  IN {q \in all : \A S \in SUBSET all : p \in S /\ (\A d \in S : Needs(d) \subseteq S) => q \in S}

\* What is made of hashed parts, and the revisions of the files of q.
Specified(made) == {x \in made : x[2] \in Hashed}
FilesIn(made, q) == {x[3] : x \in {y \in made : y[1] = q /\ y[2] = "files"}}

\* After a build that succeeded each package written holds the hashed parts of
\* its specification as they are now, and those of all it is built from,
\* although the images come from earlier builds or from the repository, were
\* made for other packages or before a failure; it holds files of the same
\* packages and of no other, which may be older than the ones of now
\* (DependenciesCurrent); the metadata is the one of its tar; and all of the
\* image is there, unless a flatten was interrupted.
PackagesFresh ==
  \A p \in Written :
    /\ p \in DOMAIN dest /\ dest[p].meta = dest[p].tar
    /\ LET made == dest[p].tar.made
       IN /\ Specified(made) = {<<q, part, Rev(q, part)>> : q \in BuiltFrom(p), part \in Hashed}
          /\ {q \in forest.pkgs : FilesIn(made, q) # {}} = BuiltFrom(p)
          /\ \A q \in BuiltFrom(p) : FilesIn(made, q) \subseteq 0 .. Rev(q, "files")
    /\ BuiltFrom(p) \cap cut = {} => dest[p].tar.whole

\* (violated) "using only the package version doesn't permit to catch variation
\* of upper dependencies. For this reason we use the final image sha": a
\* package written holds what it is built from as it is now, its files too.
DependenciesCurrent ==
  \A p \in Written : \A q \in BuiltFrom(p) \ {p} :
    FilesIn(dest[p].tar.made, q) = {Rev(q, "files")}

\* When the build image of a package is made, each image that its Dockerfile
\* names has been made and docker has it, in every solution without a cycle:
\* the order of the solution is the one that the hashes need, also when the
\* image was made for another solution.
DependenciesReady ==
  Building("next") /\ P \notin DOMAIN elaborated /\ Acyclic(Solution) =>
    \A k \in DOMAIN Solution :
      NameOf(Solution[k]) \in Range(Requires(P)) => In(local, hashes[k])

\* (violated) "Build packages of only the required target": each package
\* requested has its package in the destination when the build succeeds.
TargetsPackaged ==
  status = "ok" /\ mode = "build" =>
    \A k \in DOMAIN solutions : Last(solutions[k]) \in DOMAIN dest
================================================================================
