# Verification of anise

TLA+ models of anise, the package manager, with TLC runs over small instances
and TLAPS proofs for every instance. Every definition is translated from the
code under `src/`; the table `map` of `PROJECT.json` names the lines each one
stands for. anise-build, the companion build tool that lives in the same
repository, is modelled too.

To reproduce: `tlc -config <run>.cfg <module>.tla` for the runs listed below,
`tlapm <module>.tla` for `InstallerProofs`, `SolverProofs`, `RequiresSortProofs`,
`LockGuardProofs`, `RepoSyncProofs`, `FetchProofs`, `SystemDBProofs` and
`RepoFactoryProofs`.

## 1. Inventory: the system and its parts

A command (`install`, `upgrade`, `uninstall`, `miner reinstall-package`) is one
process. It takes the process lock in its pre-run hook, asks a solver for a
plan, checks the files of the plan for conflicts, downloads the artifacts,
orders the operations and executes them against the rootfs and the system
database. `repo update` runs beside it without the lock and replaces the local
copies of the repositories, which the solver reads through the searcher.

| Part | State it keeps | Operations | Talks to | What is hard |
|---|---|---|---|---|
| Transaction engine, `pkg/v2/installer` | rootfs; the command's operations, `fail` flag, finalizers to run | `Install`, `Upgrade`, `Uninstall`, `ReinstallPackage` | database, rootfs, scripts | a dozen writes per package, no transaction, early returns, kills |
| System database, `pkg/package/database*.go` | package, PackageFile and PackageFinalizer records (bolt) | `CreatePackage`, `RemovePackage`, `SetPackageFiles`, ... | engine, solver | unique keys on two collections, none on package names |
| Process lock, `cmd/util/lock.go` | an `flock` and the path of its file | `TryLock`, `Unlock` | hooks of `cmd/root.go` | the file is removed after the unlock |
| Repository sync, `pkg/v2/repository` | `repository.yaml` and tree of each repository | `SyncRepos`, `Sync`, `ExplodeMetadata` | HTTP server | goroutines, semaphore, bounded channel, four replaced files |
| Install solver, `pkg/v2/solver/solver.go` | candidates, available versions, provides | `Install`, `resolvePackage`, `processArtefactDeps` | searcher, database | mutual recursion, map order, what a failed attempt leaves |
| Upgrade solver, `solver_upgrade.go` | the same maps, keyed by the installed name | `Upgrade`, `checkCandidate2Upgrade` | searcher, database | one new package that replaces several |
| Operation ordering, `solver.go` | sorted list, queue (a Go map), cycle detector | `OrderOperations` | engine | cycles of requires, map order, merging of removals |
| Orphans, `orphans.go`; uninstall closure, `rdepend.go` | sets of packages | `Orphans`, `ResolveRuntime` | database, searcher | a goroutine per package; one read of a database that others write |
| Search pool, `searcher.go`, `wagon_stones.go` | channels, semaphore | `SearchArtifacts`, `SearchInstalled` | repository trees | nested goroutines on unbuffered channels; nine kinds of option |
| Artifact cache, `client/*.go`, `artifact.go`, `cleanup.go` | the package cache, shared by commands without a lock | `DownloadArtifact`, `Verify`, `CleanLocalPackagesCache` | HTTP server, registry | partial files, two writers, a file that is removed |
| Package model, `package.go`, `versioner` | none | `Admit`, version order | solvers | selectors on version strings |
| Build solver, `anise-build/pkg/v2/solver` | candidates, solutions | `resolvePackage`, `prepareCandidates` | specification trees | cycles, versions, the shared sort |
| Build manager and docker backend, `anise-build` | images, hashes, packages in the destination | `Build`, `CreateBuildImage`, `CreateFinalImage`, `GeneratePackage` | docker, image repository | images found again by a hash after edits, failures, prunes |
| `create-repo` and tree indexes, `anise-build/pkg/v2/repository`, `pkg/v2/tree` | tarballs and `repository.yaml` in place, index files | `BumpRevision`, `genidx`, `purgeidx` | clients, `repo update` | no lock, files rewritten under the clients, two kinds of index |
| Masks, subsets, config protect, rendering, box, read-only queries | configuration or none | loaders and drivers | files | pure I/O |

What makes each part correct:

* **engine**: success is reported only when the whole plan was done; other
  packages are not damaged; the collections agree again after a failed unpack and
  its retry; `uninstall --force` leaves no record of the packages it removes, from
  whatever state; every command ends. A PackageFile record without a package record
  (a kill between the two writes) is out of reach of `uninstall`.
* **database**: one version per name, although no key enforces it; an answer is
  complete although a read that timed out looks like an empty database;
  uninstall takes the users of what it removes along.
* **lock**: two locked commands never work together; a dead command leaves
  no lock; a command is refused only while another one runs.
* **sync**: after a forced update that reports success a repository is complete and
  is the revision its `repository.yaml` names; an error that a goroutine answers is
  not lost; no deadlock.
* **solver**: the answer is closed under requires, honours conflicts, contains
  nothing unneeded; an upgrade removes only what it replaces, takes nothing back to an
  older version by itself and is admitted by the packages that stay; the solve ends in
  every cycle.
* **search**: no package and no error is lost; every search ends.
* **cache**: the transaction starts with the artifacts that were published; a
  download fails only for a reason.
* **build**: dependencies are built before what needs them; a package holds the
  specifications as they are, as far as the hashes cover them, wherever its images
  come from.
* **create-repo**: what it leaves is whole, matches its checksums and lists what
  is built and in the tree; a client that is told it is up to date has what is
  served, as long as revision and second name one tree.
* **ordering**: nothing is lost or done twice; requires come first; an old
  version is removed before the new one is added; the sort ends.

## 2. The modules

| Module | Role |
|---|---|
| `InstalledSet` | abstract specification of the database: a set of versions, one per name |
| `Installer` | the engine over rootfs and database; implements `InstalledSet` |
| `InstallerProofs` | theorems: its types, its records, the refinement, what a command that succeeds has done, `uninstall --force`, and packages outside the plan |
| `RequiresSort` | the sort by requires that anise and anise-build share |
| `OpsOrder` | `OrderOperations`, over `RequiresSort`: the order `Installer` assumes in `MayRunNext` |
| `SolverInstall` | `Solver.Install`: the plan `Installer` assumes in `Install` |
| `SolverUpgrade` | `Solver.Upgrade`, over the same state |
| `SolverProofs` | theorems on what both answer |
| `LockGuard`, `LockGuardProofs` | the process lock that gives `Installer` its single process |
| `SystemDB`, `SystemDBProofs` | two commands on one database file: uninstall with its closure, install, `database create`, `remove` and `get`, `miner remove` and `replace`, `query orphans` |
| `RepoSync`, `RepoSyncProofs` | `repo update`, and its theorems |
| `SearchPool` | a search, goroutine by goroutine |
| `Fetch`, `FetchProofs` | over `SearchPool`: downloads of a locked command and of the miner, and cleanup, on one package cache |
| `BuildSolver` | the solver of anise-build, over `RequiresSort` |
| `BuildManager` | over `BuildSolver`: builds in a row, with docker |
| `RequiresSortProofs` | theorems on the sort and on what is built over it: `OpsOrder`, `BuildSolver`, `BuildManager` |
| `RepoFactory`, `RepoFactoryProofs` | `create-repo`, the index of its tree and a client of what it publishes |
| `MCInstaller`, `MCOpsOrder`, `MCSolver`, `MCRepoSync`, `MCFetch`, `MCBuild`, `MCSystemDB`, `MCRepoFactory` | values of the constants for TLC |

The modules meet through stated contracts, each checked on the other side:

* `Installer!MayRunNext` lets operations run in any order in which pure
  removals come first and a name is removed before it is added.
  `OpsOrder!RemovalsInOrder` and `OpsComplete` say the ordering provides this.
* `Installer!Install` takes any set of packages of distinct names that are not
  installed. `SolverInstall!InstalledOnlyAsProvider` says this holds except for
  one case the code really has: a package that provides a required name may be
  answered although its own name is installed in another version. The constant
  `Overlap` puts that case into the engine: with it, the plan may add a name
  that stays installed.
* `Installer!Upgrade` takes a plan that removes installed names only, those of its
  updates among them, and, without `Overlap`, adds distinct names of which the
  new ones are not installed. `SolverUpgrade!PlanForInstaller` says when the
  solver gives one, and that what is removed is replaced and a package is added
  once. It names the three cases in which the solver does not: a package that
  replaces an installed one by what it provides and is no candidate under its own
  name (`Replacers`) may come next to an installed or another new version of that
  name, because nothing compares these (`solver_upgrade.go:168-190`): that is
  `Overlap` again; one that replaces several installed names is in the answer
  once for each; and a replacement may be left out for another version of its
  name, which is a candidate too (`ReplacedInVain`).
* `Installer` starts its operations with whole artifacts:
  `Fetch!ReadyIsWhole`. It reads the whole database: `SystemDB!AnswersComplete`
  and `SecondVersionExplained` say what a read that timed out costs.
* `RepoSync!Publish` is a server that replaces tarball and `repository.yaml` at
  once. `RepoFactory!UpToDateIsCurrent` and `PublishedConsistent` say what a
  client meets when `create-repo` writes them in place.
* `Installer!MayStart` admits one command at a time. `LockGuard` shows why,
  and by `MutualExclusion` when that fails.

Definitions whose name starts with `Bug` are single defects (a dropped guard, a
lost flag, a swapped order). They take no part in the specification; each shows
that a property notices a defect of its kind.

### Installer

`disk` maps a path to the package whose content is there; `world` counts the
package records of a fingerprint, because `CreatePackage` adds a record without
looking for another one; `filesRec` and `finRec` are the keys of the other two
collections. `pc` walks through a package operation in the order of the code:

    D, R : rmfiles -> rmfilesrec -> (uninstscript) -> rmfinrec -> rmpkg
    N, U : unpack -> setfiles -> setfin -> create
    R    : ... rmpkg -> setfiles -> setfin -> create -> unpack

Each step has the error returns of its function, `--force` and
`--skip-finalizers` included. `Crash` may fall between any two steps, and in
the middle of a file phase it leaves any part of the work done. Config protect
is modelled for a run on `/`: `tarModifierWrapperFunc` tests the protected path
against the current directory (`artifact.go:647`).
A failing unpack keeps any subset of the new files. What comes before the first
operation (the solver, the conflict check, the downloads) changes nothing and
ends in the guard of the command.

### RequiresSort and OpsOrder

One action per step of the loops of `sortPkgsThinArr`: the first pass, the
drain of the queue after each appended package, the passes over the queue, and
the detector. A range over a Go map is `left`, the keys not yet visited, from
which any may be next. `recursiveCheckDeps` becomes an agenda: its stack never
shrinks, so the calls still to be made are all there is to remember.
`OpsOrder` adds the two lists around the sort. Whether an operation refuses the
new version (`Admit`) is left open: the removal of the old version may land at
each position the scan reaches.

### SolverInstall

`resolvePackage` and `processArtefactDeps` call each other; a pending call is a
frame (its name, versions, banned versions, the version it tries and the
requires left). A version is a rank, and `Refuses` says which packages a
require or conflict excludes, so that selectors and version strings are out of
the model; `NameOrder` is the order of the names, by which the sorts of the code put
packages of different names (a provider next to the versions of the name). A
search returns the packages of a name the selector accepts, and every package
that provides the name. Left out: masks, errors of the search,
and the reduction of the answer with `--nodeps`.

### SolverUpgrade

The same frames, with the installed name as the key. The packages to upgrade
are analysed first, each in a goroutine (`News`: there is a newer version, another
build of the same one or, with `--deep`, only older ones); then
`checkCandidate2Upgrade` tries the versions, newest first, and bans the ones
whose conflicts or requires refuse them. A version that an installed user
refuses is passed over without a ban, which is what `UpgradeUsers.cfg` shows.
`answer` counts how often a package is in the list to install, as two keys may
append the same one. The walk of the names is in any order (Go maps).
`NoDowngrade` leaves out two cases in which `resolvePackage` chooses the version,
which does not look at what is installed: a name that a provides is about, and one
whose installed version a package of the repositories refuses.

### LockGuard

The path, the inodes it has named, the holder of each `flock`, and for each
process its open file. Open, lock, unlock and remove are separate steps, a
process may be killed anywhere, and one that ends through `Fatal` leaves the
file behind, as `os.Exit` skips the post-run hook.

### RepoSync

The main goroutine (spawn, collect, finish) and one goroutine for each argument,
with the semaphore and the channel of size `--concurrency`. A repository may be
named several times: its goroutines share the entry of the configuration
(`ReadRevision`) and work on the same files (`Rival`). `repository.yaml`
may be `Torn` (cut short), which fails to parse or reads as one without a
revision; one cut after its revision reads as whole, so `Copy` may fail and leave the
new revision. The errors of `os.RemoveAll` on the old tree (`wagon.go:241-243`) are
discarded and the unpack goes on over what is left; metadata that cannot be
written is only warned of (`wagon.go:375-414`). Both are steps of the model that
go on without an error (`Drop`, faults `remove` and `metadata`), and `dropped`
remembers the goroutine: no property promises a repair then. A tree records
whose revisions its files belong to,
whether the last unpack ended and whether the metadata is there. The server may
publish at any time; a checksum then refuses the tarball of another revision.
`concurrency` is a field of each request, so that one run has both a semaphore
with room and one at its limit.

`ForcedUpdateRepairs` and `TreesNotMixed` leave out, besides `dropped`, a
repository of which two goroutines of one command read two revisions (`Agree`): the
server published between the two, and their files do mix.

### SearchPool and Fetch

`main` is the caller, `routine[r]` the goroutine of a repository, `worker[r][c]`
that of a category; `ch` is the channel of the results. A package satisfies a
set of kinds of option (`sat`), and `ByOptions` is the chain of blocks with its
jumps. With package names only (`only`), the categories these names have (`asked`)
are read, and `provides.yaml` lists the others that provide a name, each once for
each of the names asked (`listed`). `TreeAssumption` is what `create-repo` writes: a
package is in one category of one repository, and what is asked by a name that it
provides is listed. `cmd/search.go` sets `only` also when names or annotations
are asked with the packages; the categories left out are then not searched for
these, and `Sought` says so. `Fetch` goes on where the search ends: for each process, `proc` has the
file it is at, its url and what the client did to the artifact (`path`: the
field `CachePath` is set, `sums`: the checksums were not dropped). A file of the
cache is absent, a part or a release. `why` is history: the reasons for which a
download may fail. The three clients differ in what they do on an error;
`grab` and the registry are external: a url answers with the release it
serves, or refuses.

### SystemDB

`recs` counts the records of a version (`CreatePackage` looks for none);
`holder` is the process that has the file, from its first access until it
closes or ends. The access of another process waits 30 s and fails (`Blocked`):
each caller then goes on as its code does, with an empty list, an error or
"not present". Accesses that follow each other while the file is held are one
step; the crashes between them are in `Installer`. The solver is any plan
within the contract checked in `SolverInstall`. `Closure` is
`recursiveResolveRdep`; `Acquire`, `Send` and `Receive` are the goroutines of
`Orphans`.

### BuildSolver and BuildManager

A package is a name and a version; `forest` is a tree of specifications.
`Load` collects every version reachable through requires and copies, `Prepare`
keeps one of each name, the sort orders them. Each package is loaded from a
`definition.yaml`: a dependency that is kept in a `collection.yaml` is read as a
definition too (`runtime_solver.go:293`) and has no name then, which is not
modelled. `BuildManager` walks the
solutions in order, with one action for the build image, the final image and the
package, and the failures of each. A hash is the tuple of what the code feeds
to SHA-256, so that two hashes are equal when their inputs are; the code writes
the strings one after the other without separators, and two lists whose
concatenations are equal are not told apart by it: the model takes them for
different. A specification has three parts: `prelude` (env, prelude and image:
in both hashes), `steps` (steps, includes and excludes: in the hash of the final
image) and `files` (the package directory and the paths of `copy:`), which goes
into the build image and into no hash. An edit changes one of them; `flat_image`,
which only changes the layers, is no edit. An image knows
the parts it was made of (`made`), which is what `PackagesFresh`
compares with the current ones: the hashed parts must be current, the files of the same
packages, in any revision so far. That they are current is `DependenciesCurrent`, which
`BuildStale.cfg` refutes. Docker is external: images listed, pulled, built, imported
and pushed, each with a failure; a prune between two builds may remove
the local ones. All the packages requested are resolved before the first is built.

A package is built once, for the first solution that holds it, and reused in
the later ones although these may resolve its requires to other versions: in the
tree `Apart`, 2 refuses the first version of 3; 4 requires 2 and that version of
3, but the package 2 it is built on was made with the second one. `BuiltFrom(p)`
is therefore what `p` is made of as each part was resolved for its own first
solution, and `PackagesFresh` compares with that; comparing with the
solution of `p` alone is refuted in `Apart`.

### RepoFactory

One package with its versions, in a `definition.yaml` (one version at a time)
or a `collection.yaml`. `create-repo` is a sequence of steps: `Load` (index,
former `repository.yaml`, list of the packages), `Package` for each metadata
file, `OpenTar` and `FillTar`, `Sum`, `OpenIdentity` and `WriteIdentity`; the tree tarball and
`repository.yaml` are first truncated, then written. The tarball of
`--with-compilertree` goes through the same three steps in the code
(`factory.go:295-387`); here it is written and summed in one (`CompilerTree`, part of
`Sum`), as no client reads it and its checksum is of what is there. A kill may fall
between any two steps, and several processes may run. `genidx` has two writes
of the same kind, into the index file of its mode. `client` is `Sync` without failures
of its own, which `RepoSync` has. `past`, and the fields `regular`, `alone`,
`tidy`, `had` and `seen`, are history for the properties.
A tarball is known by a number (`id`), its checksum. Left out: I/O that fails,
`--check-package-tarball` and `provides.yaml`; `tree bump` is one step.

## 3. Runs

| Run | Question | Result |
|---|---|---|
| `InstallerFaults` | Two commands, every fault, a kill, `Overlap`: is success honest, are bystanders intact? | holds |
| `InstallerRetry` | Three commands, failed unpacks, a kill, with and without `--force`: one version per name, no orphan finalizer, forced uninstall leaves no record, collections agree, refinement of `InstalledSet`, every command ends | holds |
| `UpgradeMovedFile` | Are the files of an upgraded package on disk? | violated |
| `OpsOrder` | Is the order complete, right and always found? | holds |
| `Solver` | Is an install free of conflicts and of unneeded packages, closed when there is one version of each name; does an upgrade keep the contract of the engine, go back only where another package asks for it, close; do solves end? | holds |
| `LockGuard` | Stale locks, unjustified refusals? | none |
| `Database` | Do the users of an uninstalled package go with it, are answers complete, where does a second version come from? | holds |
| `RepoSync` | With a repository named twice and errors that are dropped: are errors reported, do forced updates repair, are trees unmixed, do updates end with the semaphore and the channel at their limit? | holds |
| `RepoSyncStale` | Does a successful update leave a complete tree? | violated |
| `Fetch` | Does a search find everything and end; does a download fail only for a reason and a transaction start with whole artifacts? | holds |
| `Build` | Are solutions closed and ordered, dependencies there when needed, packages made of the current hashed parts of the specifications? | holds |
| `RepoFactory` | Is what `create-repo` leaves consistent, does it list what is built and in the tree, does a client have the tree it believes in where create-repo commands did not overlap? | holds |

What the violated runs show:

* `UpgradeMovedFile`: a file moves from version 1 of `a` to the new package `b`.
  The conflict check ignores it because the removal of `a1` will free it
  (`manager.go:574`). `b` is added first, then the removal of `a1` deletes
  every path of its list: the upgrade ends well and the file of `b` is gone.
* `RepoSyncStale`: `repository.yaml` is replaced before the tree
  (`wagon.go:236`). After a failed unpack the next update finds it current and
  reports success with a partial tree; only `--force` repairs it.

### Further divergences

Some definitions state what a comment or the intent of the code says and TLC
refutes them; they are marked `(violated)` in the modules. Ten have a
configuration to reproduce the counterexample:

* `FinalizersRun` (`FinalizersSkipped.cfg`, `MCInstaller`): without `--force` a
  failing `RegisterPackage` returns from `Install` (`manager_install.go:366`)
  before the finalizers of the packages that are already installed; nothing
  runs them later.
* `MutualExclusion` (`LockOverlap.cfg`, `LockGuard`): `Unlock` unlocks, then
  removes the file (`lock.go:87`). A process that opened it in between locks an
  inode without a name; the next one creates a new file and locks that.
* `AnswerClosed` (`SolverLosesRequire.cfg`, `MCSolver`): the highest version of
  `a` is given up because its require cannot be installed, the next one
  matches, but the version given up is not banned and stays first in the list
  that is answered (`solver.go:797`).
* `OrHolds` (`SearchOr.cfg`, `MCFetch`): in OR a label or a category ends the
  scan with what matched before it, so later kinds are not looked at
  (`wagon_stones.go:537`).
* `UsersAdmitUpdates` (`UpgradeUsers.cfg`, `MCSolver`): `u1` is installed and
  refuses `o3`; `o2` matches. `o3` was passed over with `continue`
  (`solver_upgrade.go:411`) and is not banned, so the list that is kept starts
  with it, and the upgrade answers `o3`.
* `DowngradeOnlyDeep` (`UpgradeOlder.cfg`, `MCSolver`): only `--deep` is to
  downgrade (`cmd/upgrade.go`). Without it `q3` goes back to `q2` when the new
  `k2` needs `v`, which `q2` provides and `q3` does not any more, and `o1` to `o0`
  when the new `w2` refuses `o1` and the installed `k1` refuses `o2`:
  `resolvePackage` takes the versions of the repositories as they are.
* `GeneratedIndexUsed` (`IndexIgnored.cfg`, `MCRepoFactory`): `genidx
  --compress=false` writes `.anise-idx.json`; the tree changes; `genidx`, which
  compresses by default, writes `.anise-idx.json.zstd` and leaves the first.
  `DetectMode` prefers the first (`common.go:74`), and `create-repo` publishes
  from the old index: new versions are left out.
* `RequiresResolved` (`BuildLosesRequire.cfg`, `MCBuild`): the detector promises that
  all dependencies are available and answers "Found dependency not resolvable"
  otherwise (`solver_base.go:290`). When 2 and 3 require each other and 2 also requires
  4, which no tree has, the sort breaks the cycle at 3 and leaves the loop over
  the requires of 2 (`solver_base.go:175-189`) before it has read 4. `build` then stops at
  the image of 2; `--pretend` and the validation of a tree report success.
  `SolutionsClosed` therefore excepts a package whose cycle of two was broken (`Paired`).

* `DependenciesCurrent` (`BuildStale.cfg`, `MCBuild`): the files of a dependency
  change between two builds. The second one finds its image by the old hash, as
  neither the package directory (`COPY . /anisebuild`, `docker.go:287`) nor the paths of
  `copy:` are in it, and builds the packages above on the old files. A comment
  (`docker.go:77-80`) wants the final image hash to catch what varies in the
  dependencies. `PackagesFresh` therefore asks for the current value of hashed parts only.
* `UpToDateMeansServed` (`RevisionTwice.cfg`, `MCRepoFactory`): two `create-repo`
  start over revision N and write N+1 in one second (`wagon_identity.go:90-93`), each
  after its own tarball. A client that updated between the two finds its revision and date
  again (`wagon_identity.go:137-146`) and is told that it is up to date
  (`wagon.go:296`), while another tree is served. `UpToDateIsCurrent`
  therefore says nothing of the seconds in which `create-repo` commands overlapped.

Three more are refuted when they are added to the configuration of their module:

* `BuildSolver!TargetAdmits`: the scan of the versions has no break, so the
  candidate is the last one scanned, admitted or not (`solver_base.go:230`).
* `BuildManager!TargetsPackaged`: with `--only-target-package` a package that was
  built as the dependency of an earlier task is skipped as the target of its
  own (`manager.go:238`).
* `SystemDB!StoredOnce`: a `FindPackage` that timed out reads as "not present",
  and `database create` stores the package again (`create.go:56`).

Two more were found by reading only, in the commands around `create-repo`:
`--check-package-tarball` is read through viper but never bound to it
(`create-repo.go:45-64,80`), and would look for `.package.tarzstd`, as the name
of a compression has no dot (`factory.go:114`); `pack` gives the destination
directory to `WriteYaml` as a file (`pack.go:76`).

One more behaviour seen while modelling the ordering, which a comment of the
code accepts ("reduce the impact of a wrong order", `solver.go:279`): breaking
a cycle of two packages leaves the loop over the requires, so a package may also
come before a require that is on no cycle. `RequiresFirst` is therefore stated
for plans without a cycle.

### Bounds

* `Installer`: versions `a1`, `a2` and a package `b1`; `a1` and `b1` share a
  path (a conflict, or a moved file), both versions of `a` share a protected
  path, two of the three have a finalizer. Three packages are needed for a
  bystander beside an update, two for a conflict. Three commands are an install,
  a failed or killed command and its repair; one kill, because a second one only
  adds leftovers of the same kinds. `InstallerFaults` has two commands with the
  full set of faults and options.
* `OpsOrder`: four names to add, with up to two requires, so that cycles of
  two, three and four packages, two cycles, and packages behind a cycle occur;
  one pure removal and two updates for the merge.
* `Solver`: for install, five names (two with two versions) and a virtual one;
  every subset of the eight versions is a repository, with ten installed
  systems and every pair of requested names. The packages have a cycle, a
  shared virtual with three providers, a require that excludes a provider, and
  conflicts with installed packages. For upgrade, three versions of `o` with a
  user that refuses the last one and a package whose conflict refuses the
  middle one, a package that replaces two installed names in one version and
  none in the next, a user whose new version needs a new package; eight systems
  and all their repositories, with and without `--deep` and `--nodeps`; and
  repositories in which a provider is only an older version, or a new user
  refuses the installed version of what it needs (`MCBackwards`), without which
  the exclusions of `NoDowngrade` would not occur; and a version that is given up
  after a new package was resolved with it (`MCGivenUp`), for those of `UpgradeCloses`.
* `LockGuard`: three processes (a holder, one that opened the old file, one that
  creates the new one) and three inodes.
* `RepoSync`: a behaviour has one repository, named twice, with two places in
  the semaphore and the channel, so that both goroutines work at once, or with one,
  which both wait for; or one with a treev2 tarball beside an unknown name, which ends
  the command while its goroutine runs or is ignored. Two revisions; two updates, the
  second to find what the first left, with and without `--force`; every fault, and one
  kill. `SameRepository` keeps the commands of a behaviour to one repository: two
  repositories share the semaphore, the channel and the flag of `SyncRepos` only, as the
  two goroutines of one do, and no file. A download that fails after
  `repository.yaml` was fetched occurs when the server has published meanwhile.
* `Database`: two processes with one command each out of fourteen, three initial
  systems, one kill. A second version (`b1`, `b2`), a provider of a name and a
  finalizer; the channel of `Orphans` has room for one.
* `Fetch`: searches of two repositories with up to three categories, one of which
  cannot be read, with one place in semaphore and channel, so that every wait
  occurs; five pairs of option kinds in OR and in AND and the special cases, among
  them a provider listed under two of the names asked.
  For the cache two files, two urls, two faults, one publication, one cleanup
  and one command of each process; `InCache` needs one command to leave a part
  behind and another to find it.
* `Build`: two commands with one edit between them; twelve trees with cycles, two
  versions of a package, refusals, a diamond, a require that is nowhere, a
  specification that cannot be rendered; every fault. No package, one, and
  up to three requested together, one of them met before as a dependency; in
  the tree `Apart` two solutions resolve a name to two versions.
* `RepoFactory`: two versions, both built at first or, in one scenario, only the one
  that is not in the tree; two processes. Three kinds of
  scenario: up to three `create-repo` (two when the output directory is not the one
  of the packages) with a kill and a tick of the clock; two with an edit
  of the tree and a kill; one with two edits, two index commands and a kill, for each file of
  the package. A kill and the two that follow it are enough for a revision that
  restarts and is then served again; one kill, because what it leaves is
  rewritten as a whole by the next success.

The counters `commands` and `crashes` exist only to make the state space finite,
so the systems stop after the last command: `CHECK_DEADLOCK FALSE` in those
configurations, and in those of a computation that is done once.

### Fairness

`Installer`, `OpsOrder`, `SolverInstall` and `SolverUpgrade` are one goroutine each: weak
fairness of its next step, never of the user, of kills or of the server.
`RepoSync`: weak fairness for the main goroutine and each worker (the Go
scheduler runs every runnable goroutine; a download ends, with or without an
error, under the client's time-outs). Weak fairness is enough because a worker that
waits for the semaphore or for a place in the channel is not overtaken for ever:
each other worker passes once. `Fetch`: weak fairness for the caller, each
goroutine of a repository and each of a category, and none for the downloads,
the publisher and the cleanup. `LockGuard`, `SystemDB`, `BuildManager` and
`RepoFactory` state no liveness; for the last three TLC checks that no state is a deadlock.

## 4. Proofs

`InstallerProofs`, for all packages, paths, options, faults and numbers of
commands and kills, from `InstallerAssumption` alone (the typing of the constants):

* `TypeCorrect`: `Spec => []TypeOK`. `TypeOK` needs to know that a step works on
  a package (`OpMatchesStep`).
* `OneVersionCorrect`: `Spec => []OneVersionPerName`, assuming `~Overlap`,
  without which it is false. The property is not inductive: `CreatePackage` adds a record blindly. What protects
  it is the plan, so `PlanInv` follows each addition back to the removals before it:
  every installed version of a name to add is still to be removed, or being
  removed (`AddsFollowRemovals`); additions have distinct names (`AddsDistinct`);
  once an addition has started its name is free (`NameFree`), which `BeginPlan`
  derives from `MayRunNext`. Below it lies `QueueInv`, which holds with `Overlap`
  too: removals name installed packages (`RemovalsInstalled`), a command
  reinstalls or does not (`KindMatchesOps`), and a started operation has left the list
  (`Dequeued`), so the record `RemovePackage` takes was not needed by an operation still
  to come. A kill or an early return empties the list, so each part survives it.
* `InstalledSetRefined`: `Spec => InstalledSetSpec!Spec`, under the same
  assumption: `CreatePackage` is `Register`, `RmPkg` is `Unregister`, every other
  step is a stutter.
* `NoOrphanFinalizerCorrect`: `Spec => []NoOrphanFinalizer`, from the order of
  the writes (`FinalizerOrder`) and `QueueInv`, with and without `Overlap`.
* `CollectionsAgreeCorrect`: `Spec => []CollectionsAgree`, assuming `~Overlap`: otherwise
  `--force` may register a fingerprint twice, and one of two records stays. `AgreeInv` gives the exact
  content of the file lists and finalizers at each step, from the installed set and the
  package at work; from it and `PlanInv` no removal finds a record missing and
  no registration finds one in the way, so no command stops half-way.

* `SuccessAppliedCorrect`: `Spec => []SuccessMeansApplied`, with and without `Overlap`. The property speaks of the
  end of a command that succeeds. `LiveInv` follows a command that has met no error:
  each operation of the plan is in the list, at work (`Progress` says what its steps
  have established) or `Done`. What is done must stay done: a later operation
  works on one package (`OpFrame`), which `MayRunNext` makes another one and, if it is
  removed, one of another name (`Ordered`); the paths of such operations are left out by
  `OwnFiles`. With `Overlap` two versions of one name can be installed and reinstalled by
  one command: the last one unpacked owns the paths they share, so `OwnFiles` leaves these out.
  Nothing is assumed of what earlier commands left in the database or on disk.

* `ForceUninstallCorrect`: `Spec => []ForceUninstallCompletes`, with and without
  `Overlap`. `--force` passes over
  each error of a removal, so no step aborts, and each operation is in the list, at
  work or without records (`ForcedInv`). With `Overlap` a fingerprint stored twice keeps a
  record, which the property allows; without, `OneVersionPerName` excludes it.

* `BystanderIntactCorrect`: `Spec => BystanderIntact`, with and without
  `Overlap`, from `QueueInv`. A removal only touches paths of an
  installed package, so it cannot hurt the only owner of a path. An unpack
  could: the conflict check looked at the disk once, before the first step, and
  accepted a path that a package to be removed lists. `Safeguard` carries this verdict
  along: a path of a bystander listed by a package still to be unpacked is
  listed by one still to be cleared, which is installed, so the bystander was not
  the only owner. `Effect` says what any step, failing or killed, may change.

With `Overlap` `OneVersionPerName`, the refinement and `CollectionsAgree` are false; the
assumption is the contract that `SolverInstall!InstalledOnlyAsProvider` delimits.

`LockGuardProofs`, for any number of processes and inodes:
`LockTracksRunningCorrect` and `RefusalJustified`, from the invariant that a
process has a file open exactly between `Open` and `Unlock`, `Refuse` or `Die`.

`RequiresSortProofs`, for any number of names, requires and plans, whatever order
the Go maps are iterated in, from `OpsOrderAssumption` and the assumptions of `RequiresSort`:

* `OpsCompleteCorrect`: `Spec => []OpsComplete`. During the sort each package to add is
  in exactly one of the list, the queue and the answer (`SortInv`), also when a
  cycle is broken; during the merge the operations are the pure removals and
  those of the packages merged so far, each once (`MergeInv`).
* `RemovalsInOrderCorrect`: `Spec => []RemovalsInOrder`, from the same invariant: the pure
  removals stay in front (`GoneFirst`), and a removal is inserted before the
  addition of its name, which is always last (`OldFirst`).
* `RequiresFirstCorrect`: `Spec => []RequiresFirst`. The sort erases requires when
  it breaks a cycle, so the order has to hold for what is left (`CutInv`: a require that
  was erased has its name in the answer, or closes a cycle of two) and no break may happen
  in a plan without a cycle. The detector runs only when a pass over the whole queue has
  settled nothing (`StallInv`): then each package of the queue waits for another one of
  it, and a finite set in which each waits for another has a cycle. The property
  states the absence of cycles by `Paths`, a recursive function of the length; `PathsJoin` and
  `PathsGrow` connect it to the induction of the proof (`Acyclical`: each set of packages has one
  that requires none of them).

This discharges for every instance the contract `MayRunNext` under which the
theorems about `Installer` are stated.

`RequiresSortProofs` also has the theorems about anise-build, for any number of names, any
trees, requests, options, faults, edits and numbers of commands, from
`BuildSolverAssumption` (types) and `BuildManagerAssumption` (the same):

* `SolutionsClosedCorrect`: `ManagerSpec => []SolutionsClosed`. `BuildInv` says that each
  solution so far is `Good`, and while candidates are sorted (`SortOfChosen`) that they are one
  version of each name, that the invariants of the sort hold for their requires
  (`Wants`), and that what is sorted has its requires among them or broke a cycle of two
  (`Sound`). The package requested comes last and is not among them, because the loading
  never returns to its name (`LoadIsFresh`, by induction on the names that are left).
  `AcyclicIsAcyclical` connects the cycles of `Acyclic`, a chain of lengths, to the induction.
* `PackagesFreshCorrect` and `DependenciesReadyCorrect`: `ManagerSpec => []PackagesFresh`
  and `ManagerSpec => []DependenciesReady`. The first speaks of the parts of a
  specification that a hash covers, and of whose files, in whichever revision. An image is found again by its hash alone, so the
  invariant must say what a hash stands for. A recursion over nested hashes
  is out of reach of the prover; instead `TaskInv(M)` is stated for some
  function `M` from hashes to contents in which each content is the one made of the contents of the
  hashes inside (`Content`, `Fits`). `M` only grows (`Fitted`, `FitsOne`), across edits,
  prunes and commands, and each image, local or remote, holds what `M` says, or was cut
  in a package whose flatten was interrupted (`Images`). While a command builds, what is
  elaborated has an image with the parts of `BuiltFrom` (`AllBuilt`), each hash set on an
  artifact before the one at work is that of its package, and the later ones have none
  (`Reached`). A final image that docker has was made from a build image, whose dependencies
  all had hashes, hence come earlier in the solution, hence are built (`FinalHolds`):
  so no assumption on cycles is needed for `PackagesFresh`. `DependenciesReady` adds the order
  from `SolutionsClosed`. TLC has checked `TaskInv` on `Build`, with the content of a
  hash computed.

`SolverProofs`, for all packages, repositories, systems, requests and options,
whatever order the Go maps are walked in, from `SolverAssumption` (types; repositories
are finite and, as only the first copy of a version counts, hold one of each; the
finitely many names are totally ordered) and, for upgrades, `UpgradeAssumption` (types; an
upgrade requests no names). All theorems are about `UpgradeSpec`, whose first states
are installs and upgrades.

* `SolverInvariant`: `UpgradeSpec => []SolverInv`. The mutual recursion of
  `resolvePackage` and `processArtefactDeps` is the stack of calls, so the
  invariant says what each pending call has established. `Tried`: the versions
  are tried from the first one, those passed over because they conflict with an
  installed package are banned, and the one at hand is not; so the first version
  that is not banned, which is what is kept, was tried (`FirstTried`). `Outermost`: what the
  scan of an upgrade may keep for the installed name is not older than it.
  `Callable`: for which names a call may be made at all. `Answers` carries this to
  what is kept (`Fit`).
* `HonoursConflictsCorrect`, `InstalledOnlyAsProviderCorrect` and
  `NoDowngradeCorrect`: the three properties, from `SolverInv`. The second is the
  assumption `~Overlap` of three theorems about `Installer`, with its limit.
* `PlanForInstallerCorrect`: `UpgradeSpec => []PlanForInstaller`, the other contract that
  the theorems about `Installer` assume, with its three exceptions (section 2). It needs `KeyInv`: what is known under a name has
  that name or, for an installed one, provides it. `Descends` carries this through
  the calls (each call after a step was there, or is a new one with the versions known
  then); `PacksFit` reads the three packs of the answer off the keys.
* `NothingUnneededCorrect`: `UpgradeSpec => []NothingUnneeded`. The maps of the solver, the
  stack and the answer stay within each set of names that contains what was found first
  and is closed under the requires (`NeedInv`). `NeededClosed` shows that `Needed` is
  such a set: the chain that defines it exists (the least length without one would
  extend the one before), and as it grows by a name or stops, it has
  stopped after as many steps as there are names.
* `ClosedWhenSingleCorrect` and `UpgradeClosesCorrect`: `UpgradeSpec => []ClosedWhenSingle`
  and `UpgradeSpec => []UpgradeCloses`. What is answered stays from
  calls that fail later, so an install is closed only because one failure dooms
  the solve when each name has one version: `ClosedInv` says that the solve has
  failed, that its innermost call has no version left (`Doomed`), or that every
  require of what is answered or at work has a package in the answer, on the
  system or at work, or is still to be settled (`Closing`). An upgrade passes over the
  failure of its outer calls; what a version served that is given up there may be
  `Lost`. `UpgradeKeys` bounds this to versions of installed names. `AllAnswered` and
  `RemovedServed` then turn the answer into the system after it.

`UpgradeCloses` speaks of repositories with one version of each name and one upgrade
of each installed name, and of systems that are closed before. The limits are the code's:

* an upgrade may no longer provide what the installed version did (excluded by
  `OneUpgradeEach`): the users of an installed package are asked about its name only;
* a new package is resolved while a version that serves it is tried, that version is
  then given up for a later require (`UpGiveUp`), and the new package stays in the
  answer. What may be lost so is `Abandonable`; `MCGivenUp` puts the case into the run.

`RepoSyncProofs`, for all repositories, command lines of any length (`MaxArgs` is any
number) with repeated and unknown names, concurrencies, faults, revisions and numbers
of commands and kills, from `RepoSyncAssumption` (types, and `MaxArgs` bounds the requests):

* `ErrorsReportedCorrect`: `Spec => []ErrorsReported`. The property speaks of
  the end of a command only; `Answers` says where each answer is before: a
  goroutine is done exactly when its answer is in the channel or received, one
  that failed is about to answer or done, and a failure received sets `withErr`.
  `StartedRight` and `AllSpawned` give the set of goroutines `Finish` waits for.
  An error is what `Sync` returns; those that it drops are not among them.
* `ForcedUpdateRepairsCorrect`: `Spec => []ForcedUpdateRepairs`. `Repaired` is
  what the goroutines of a repository that agree on the revision and have dropped no error
  have done, at the steps they have reached: after the copy `repository.yaml` names
  that revision; the tree holds its files only from the unpack on, is whole once
  nobody deletes or unpacks it any more, and ready when nobody explodes it either.
  `AgreeBack` and `SameNew` carry the agreement through the steps, `WorkerOthers` the other
  repositories; a command starts with no goroutine, so nothing
  is assumed of the files that earlier commands left.
* `TreesNotMixedCorrect`: `Spec => TreesNotMixed`, from the same invariant: a
  goroutine unpacks over nothing but files of its own revision (`Clean`), and those of a
  repository that are cut off while they unpack write the same revision.

`FetchProofs`, for any number of files, releases, urls, processes, faults and
publications, and any repositories, categories and options of a search, from
`FetchAssumption` and `SearchAssumption` (types; the miner searches one
repository) and `TreeAssumption` (see SearchPool above):

* `FailsForAReasonCorrect` and `ReadyIsWholeCorrect`: `Spec => []FailsForAReason`
  and `Spec => []ReadyIsWhole`. Both speak of the end of a download, so
  `FetchInv` says of each process (`Careful`) what its file of the cache is at
  each step of the client: what a copy in the making has written (`Copying`),
  what the flags `path` and `sums` mean (`Flags`), what is verified against what
  (`Verifying`), that what passed is still what was published (`Verified`), and which
  reason is recorded (`Reasoned`). Another process leaves the file alone or leaves
  the mark "shared", which both properties allow; the lemmas on the frame say so once.
* `NothingLostCorrect`: `Spec => []NothingLost`. `Gathers` says that a routine has the
  results of the categories it has passed, `Reads` that each was sent once and that
  those without a result are the ones left out; a category left out holds nothing
  that is looked for but what is listed (`SkippedListed`). For the caller, `Flow`: what
  the repositories have sent is in the channel or in the result, and an error too;
  `Receives` counts the answers to come, so that none is left when it returns; `Apart`
  keeps the answers disjoint.
* `NeverStuckCorrect`: `Spec => []NeverStuck`, the absence of deadlock, for every
  `Concurrency` and any number of repositories and categories. The places that are not
  free are those of the workers that read (`Places`), and a category that is
  waited for has a worker (`Turns`), so a routine that cannot go on waits for a worker that
  can. The caller counts one answer for each routine it started (`Receives`), so
  it waits for one that is running, and leaves no answer in the channel. A worker that gave
  its place back after the result was taken would block them all (`BugPlace`). No run
  lists `NeverStuck`: in `Fetch` a search that is stuck also breaks `SearchEnds`,
  which the same slip is checked to violate.

`SystemDBProofs`, for any number of processes, commands and kills, from
`SystemDBAssumption` (types; finitely many packages; the first systems hold one version
of each name):

* `SecondVersionExplainedCorrect`: `Spec => []SecondVersionExplained`. Who holds the file
  is alone with it, so a plan made while it was held fits the records (`Installs`); what two
  records of a name came from is carried along (`Pairs`, `Creates`).
* `AnswersCompleteCorrect`: `Spec => []AnswersComplete`, with `Queries`: the lists, channel
  and goroutines of a query hold together all that was read.
* `UsersGoneCorrect`: `Spec => UsersGone`. `ClosureClosed` shows that the closure is a
  fixpoint: a step of it adds a name or nothing, and it has as many steps as there are
  names (`Grown` is its chain, `GrownExists` that there is one, as the value of a
  recursive function is otherwise unknown to the prover). `Uninstalls` carries it to the
  end: the file is held from the first package found, so the closure was computed over
  what is stored and only the uninstall itself changes that.

`RepoFactoryProofs`, for any number of versions, processes, edits and kills,
from `RepoFactoryAssumption` (types; finitely many versions):

* `PublishedConsistentCorrect`, `EntriesMatchTreeCorrect` and
  `UpToDateIsCurrentCorrect`: `Spec => []...` for the three properties, from
  `FactoryInv`. `Listing` says what an index and the entries collected so far
  list of the tree; `Publishing` what a `create-repo` that is alone has put in
  place at each step; `Serving` relates what is served to what the client took
  before: each tarball has its own number (`Numbered`), no identity is of the
  future (`Dated`), and within a regular second an identity
  that is served has a higher revision or the same tarball (`FollowsClient`).
  A second is regular (`OneTreeNamed`) when each `create-repo` that wrote in it ran with no
  other one meanwhile, without `--reset-revision`, with its output next to the packages and
  over a `repository.yaml` that was not cut short. `UpToDateIsCurrent` says nothing of
  the other seconds, those of overlapping commands among them: there it is false, as
  `RevisionTwice.cfg` shows.

Only model-checked:

* liveness (`CommandsEnd`, `UpdateEnds`, `SortSucceeds`, `SolveEnds`,
  `SearchEnds`): out of reach of the prover. For the search `NeverStuckCorrect` is the
  part of it that is a safety property.

## 5. Not modelled, and why

* Version strings and selectors: abstracted by `Rank`, `Refuses`, `refuses`.
* The in-memory database of the trees and `database reindex`: the same
  collections without the file; one process, no failure in between.
* Masks, subsets, loaders of configuration, parsing of trees, rendering, box, read-only
  queries, the integrity check: they parse, print, or run external programs, and
  keep no state over time.
* `tree validate` and `pack` of anise-build: a sequential pass that reports or
  writes one file.
* The temporary directory shared by all commands, which the post-run hook
  removes: it would have to be followed through every download.

## 6. Plan

1. Done: every module above, and the proofs of `Installer`, both solvers, `OpsOrder`,
   `LockGuard`, `RepoSync`, `Fetch`, `SystemDB`, `RepoFactory`, `BuildSolver` and `BuildManager`.
2. An abstract search that `SearchPool` implements, and the composition of
   `Fetch` with `Installer`.
