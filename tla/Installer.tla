------------------------------- MODULE Installer -------------------------------
(***************************************************************************)
(* The transaction engine of anise (pkg/v2/installer): install, upgrade,   *)
(* uninstall and the reinstall of the miner, executed by one process       *)
(* against the rootfs and the three collections of the system database     *)
(* (package records, PackageFile records, PackageFinalizer records).       *)
(* Every file-system phase and every database write is a step of its own,  *)
(* so a crash can fall between any two of them; nothing rolls back.        *)
(*                                                                         *)
(* The plan of a command (the solver's answer) is any plan within the      *)
(* solver's contract: distinct names, and a removal for each updated name. *)
(* With Overlap the solver may also add a name that is installed already   *)
(* and stays, as it does for a provider (SolverInstall).                   *)
(* Operators whose name starts with Bug are defects a change could bring   *)
(* in; they are not part of the specification.                             *)
(***************************************************************************)
EXTENDS Naturals, FiniteSets

CONSTANTS
  Pkgs,        \* package versions: a fingerprint (name, category, version)
  Names,       \* package names
  NameOf,      \* [Pkgs -> Names]
  Files,       \* paths of the rootfs
  FilesOf,     \* [Pkgs -> SUBSET Files], the artifact's file list
  Protected,   \* paths under config protect
  Scripted,    \* package versions that ship a finalize.yaml
  NoPkg,       \* no package: an absent file, no current operation
  Options,     \* the command lines explored: records [force, skipFin, check]
  Overlap,     \* a plan may add a name that stays installed, or twice
  Faults,      \* the steps that may fail: subset of FaultKinds
  MaxCommands, \* bound: commands run
  MaxCrashes   \* bound: processes killed

FaultKinds == {"unpack", "script", "render"}
Acts == {"D", "N", "U", "R"}
Ops == [act : Acts, pkg : Pkgs]

ASSUME InstallerAssumption ==
  /\ NameOf \in [Pkgs -> Names]
  /\ FilesOf \in [Pkgs -> SUBSET Files]
  /\ Protected \subseteq Files
  /\ Scripted \subseteq Pkgs
  /\ NoPkg \notin Pkgs
  /\ Options \subseteq [force : BOOLEAN, skipFin : BOOLEAN, check : BOOLEAN]
  /\ Options # {}
  /\ Overlap \in BOOLEAN
  /\ Faults \subseteq FaultKinds
  /\ MaxCommands \in Nat
  /\ MaxCrashes \in Nat

VARIABLES
  disk,       \* the package whose content is at each path, NoPkg when absent
  world,      \* number of package records of each fingerprint
  filesRec,   \* fingerprints with a PackageFile record
  finRec,     \* fingerprints with a PackageFinalizer record
  finalized,  \* installed packages whose install script has run
  kind,       \* the command: install, upgrade, uninstall or reinstall
  opts,       \* its options
  plan,       \* the operations of the command, kept after it ends
  todo,       \* the operations not yet started
  op,         \* the current operation
  pc,         \* the current step of the process
  toFin,      \* packages whose install script this command still has to run
  fail,       \* the fail flag of the command
  exit,       \* how the last command ended
  commands,   \* commands run so far (bounded)
  crashes     \* processes killed so far (bounded)

db   == <<world, filesRec, finRec>>
run  == <<kind, opts, plan, commands, crashes>>
vars == <<disk, world, filesRec, finRec, finalized, kind, opts, plan, todo, op,
          pc, toFin, fail, exit, commands, crashes>>

-----------------------------------------------------------------------------
(* The database and the file system as the code reads them.                *)

Installed == {p \in Pkgs : world[p] > 0}

NamesIn(S) == {NameOf[p] : p \in S}

Dropped(ops) == {o.pkg : o \in {o \in ops : o.act = "D"}}
Added(ops)   == {o.pkg : o \in {o \in ops : o.act # "D"}}

DistinctNames(S) == \A p, q \in S : NameOf[p] = NameOf[q] => p = q

\* Compares the packages to install with each other only.
BugFileConflict(new, old, check) ==
  \E p, q \in new : p # q /\ FilesOf[p] \cap FilesOf[q] # {}

\* CheckFileConflicts: a path listed by two packages to install, or present
\* on the rootfs, owned by an installed package and not about to be removed.
FileConflict(new, old, check) ==
  \/ \E p, q \in new : p # q /\ FilesOf[p] \cap FilesOf[q] # {}
  \/ /\ check
     /\ \E p \in new : \E f \in FilesOf[p] :
          /\ disk[f] # NoPkg
          /\ \A r \in old \cap filesRec : f \notin FilesOf[r]
          /\ \E q \in Installed \cap filesRec : f \in FilesOf[q]

-----------------------------------------------------------------------------
(* Starting a command.  A command that stops before its first operation    *)
(* (pretend, download error, conflict found, ask refused) changes nothing. *)

MayStart == pc = "idle" /\ commands < MaxCommands

Start(k, o, ops, fin) ==
  /\ MayStart
  /\ kind' = k
  /\ opts' = o
  /\ plan' = ops
  /\ todo' = ops
  /\ toFin' = IF o.skipFin THEN {} ELSE fin \cap Scripted
  /\ fail' = FALSE
  /\ exit' = "none"
  /\ pc' = "next"
  /\ commands' = commands + 1
  /\ UNCHANGED <<disk, world, filesRec, finRec, finalized, op, crashes>>

\* None of the packages S has the name of an installed one.
NamesFree(S) == NamesIn(S) \cap NamesIn(Installed) = {}

\* Forgets to exclude the names already installed.
BugInstall(S, o) ==
  /\ S # {}
  /\ DistinctNames(S)
  /\ Start("install", o, [act : {"N"}, pkg : S], S)

\* Install: installed names are excluded by _install_s1 and by the solver;
\* every artifact is downloaded and verified before the first step.
Install(S, o) ==
  /\ S # {}
  /\ DistinctNames(S)
  /\ Overlap \/ NamesFree(S)
  /\ o.force \/ ~FileConflict(S, {}, o.check)
  /\ Start("install", o, [act : {"N"}, pkg : S], S)

\* Upgrade: new are packages of new names, upd updates of installed ones, old
\* the installed packages these update or replace by their provides.
Upgrade(new, upd, old, o) ==
  /\ new \cup upd # {}
  /\ new \cap upd = {}
  /\ old \subseteq Installed
  /\ NamesIn(upd) \subseteq NamesIn(old)
  /\ Overlap \/ (NamesFree(new) /\ DistinctNames(new \cup upd))
  /\ o.force \/ ~FileConflict(new \cup upd, old, o.check)
  /\ Start("upgrade", o,
           [act : {"N"}, pkg : new] \cup [act : {"U"}, pkg : upd]
             \cup [act : {"D"}, pkg : old],
           new \cup upd)

\* Uninstall: S is the closure computed by ResolveRuntime, or the arguments.
Uninstall(S, o) ==
  /\ S # {}
  /\ S \subseteq Installed
  /\ Start("uninstall", o, [act : {"D"}, pkg : S], {})

\* miner reinstall-package: a script runs only for a package that succeeded.
Reinstall(S, o) ==
  /\ S # {}
  /\ S \subseteq Installed
  /\ Start("reinstall", o, [act : {"R"}, pkg : S], {})

-----------------------------------------------------------------------------
(* Executing the operations.                                               *)

\* Removals of names that no operation of the plan adds again.
PureRemovals(ops) ==
  {o \in ops : o.act = "D" /\ NameOf[o.pkg] \notin NamesIn(Added(plan))}

\* Adds the new version before it removes the old one.
BugMayRunNext(o) == PureRemovals(todo) # {} => o \in PureRemovals(todo)

\* OrderOperations puts the pure removals first, and the removal of a name
\* before the operation that adds it again; the rest follows the requires.
MayRunNext(o) ==
  /\ PureRemovals(todo) # {} => o \in PureRemovals(todo)
  /\ o.act = "D" \/ ~\E d \in todo :
       d.act = "D" /\ NameOf[d.pkg] = NameOf[o.pkg]

\* Does not advance in the list.
BugBegin(o) ==
  /\ pc = "next"
  /\ op' = o
  /\ todo' = todo
  /\ pc' = IF o.act \in {"D", "R"} THEN "rmfiles" ELSE "unpack"
  /\ UNCHANGED <<disk, db, finalized, run, toFin, fail, exit>>

Begin(o) ==
  /\ pc = "next"
  /\ op' = o
  /\ todo' = todo \ {o}
  /\ pc' = IF o.act \in {"D", "R"} THEN "rmfiles" ELSE "unpack"
  /\ UNCHANGED <<disk, db, finalized, run, toFin, fail, exit>>

NextOp == \E o \in todo : MayRunNext(o) /\ Begin(o)

\* `return err`: the command ends at once, finalizers included.
Abort ==
  /\ pc' = "idle"
  /\ todo' = {}
  /\ toFin' = {}
  /\ exit' = "error"
  /\ UNCHANGED fail

Goto(step) == pc' = step /\ UNCHANGED <<todo, toFin, fail, exit>>

Removable(p) == FilesOf[p] \ Protected

\* Gives up on a missing file list even with --force.
BugRmFiles ==
  /\ pc = "rmfiles"
  /\ IF op.pkg \in filesRec \/ op.act = "R"
       THEN /\ disk' = [f \in Files |->
                 IF f \in Removable(op.pkg) THEN NoPkg ELSE disk[f]]
            /\ Goto(IF op.act = "R" /\ ~opts.force THEN "unpack" ELSE "rmfilesrec")
       ELSE UNCHANGED disk /\ Abort
  /\ UNCHANGED <<db, finalized, run, op>>

\* removePackageFiles: the list comes from the database (from the artifact
\* for a reinstall); every listed path is removed, whoever wrote it.
RmFiles ==
  /\ pc = "rmfiles"
  /\ IF op.pkg \in filesRec \/ op.act = "R"
       THEN /\ disk' = [f \in Files |->
                 IF f \in Removable(op.pkg) THEN NoPkg ELSE disk[f]]
            /\ Goto(IF op.act = "R" /\ ~opts.force THEN "unpack" ELSE "rmfilesrec")
       ELSE /\ UNCHANGED disk
            /\ IF opts.force THEN Goto("rmfilesrec") ELSE Abort
  /\ UNCHANGED <<db, finalized, run, op>>

\* Checks the record but does not delete it.
BugRmFilesRec ==
  /\ pc = "rmfilesrec"
  /\ IF op.pkg \in filesRec \/ opts.force
       THEN Goto(IF op.act = "R" THEN "rmfinrec" ELSE "uninstscript")
       ELSE Abort
  /\ UNCHANGED <<disk, db, finalized, run, op>>

\* Database.RemovePackageFiles: an error when the record is missing.
RmFilesRec ==
  /\ pc = "rmfilesrec"
  /\ filesRec' = filesRec \ {op.pkg}
  /\ IF op.pkg \in filesRec \/ opts.force
       THEN Goto(IF op.act = "R" THEN "rmfinrec" ELSE "uninstscript")
       ELSE Abort
  /\ UNCHANGED <<disk, world, finRec, finalized, run, op>>

\* RunUninstall of the stored finalizer, which may fail.
UninstallScript ==
  /\ pc = "uninstscript"
  /\ \/ Goto("rmfinrec")
     \/ /\ "script" \in Faults
        /\ op.pkg \in finRec
        /\ ~opts.skipFin
        /\ ~opts.force
        /\ Abort
  /\ UNCHANGED <<disk, db, finalized, run, op>>

\* Leaves the finalizer record behind.
BugRmFinRec ==
  /\ pc = "rmfinrec"
  /\ Goto("rmpkg")
  /\ UNCHANGED <<disk, db, finalized, run, op>>

\* Database.RemovePackageFinalizer: no error when the record is missing.
RmFinRec ==
  /\ pc = "rmfinrec"
  /\ finRec' = finRec \ {op.pkg}
  /\ Goto("rmpkg")
  /\ UNCHANGED <<disk, world, filesRec, finalized, run, op>>

\* Database.RemovePackage deletes one record of the fingerprint.
RmPkg ==
  /\ pc = "rmpkg"
  /\ world' = [world EXCEPT ![op.pkg] = IF @ > 0 THEN @ - 1 ELSE 0]
  /\ finalized' = finalized \ {op.pkg}
  /\ IF op.act = "R" THEN Goto("setfiles")
     ELSE IF world[op.pkg] > 0 \/ opts.force THEN Goto("next") ELSE Abort
  /\ UNCHANGED <<disk, filesRec, finRec, run, op>>

\* The content of a path once the files in S are unpacked: a protected path
\* with other content is left alone (the new content goes to a ._cfg file).
Unpacked(p, S) ==
  [f \in Files |->
     IF f \in S /\ (f \notin Protected \/ disk[f] = NoPkg) THEN p ELSE disk[f]]

\* Loses the error of InstallPackage when RegisterPackage reuses err.
BugAfterUnpack(ok) ==
  /\ pc' = IF op.act = "R" THEN "next" ELSE "setfiles"
  /\ toFin' = IF op.act = "R" /\ ~opts.skipFin
                THEN toFin \cup ({op.pkg} \cap Scripted) ELSE toFin
  /\ UNCHANGED <<fail, todo, exit>>

\* The step after InstallPackage: an install registers the package even when
\* the unpack failed, a reinstall reports the error of the unpack.
AfterUnpack(ok) ==
  /\ fail' = (fail \/ ~ok)
  /\ pc' = IF op.act = "R" THEN "next" ELSE "setfiles"
  /\ toFin' = IF op.act = "R" /\ ok /\ ~opts.skipFin
                THEN toFin \cup ({op.pkg} \cap Scripted) ELSE toFin
  /\ UNCHANGED <<todo, exit>>

\* InstallPackage: Unpack of the whole artifact, or a failure after part of it.
Unpack ==
  /\ pc = "unpack"
  /\ \/ disk' = Unpacked(op.pkg, FilesOf[op.pkg]) /\ AfterUnpack(TRUE)
     \/ /\ "unpack" \in Faults
        /\ \E S \in SUBSET FilesOf[op.pkg] : disk' = Unpacked(op.pkg, S)
        /\ AfterUnpack(FALSE)
  /\ UNCHANGED <<db, finalized, run, op>>

\* An error of RegisterPackage: Install returns it unless force, Upgrade
\* records it and goes on, ReinstallPackage reports it to its loop.
RegisterError ==
  IF kind = "install" /\ ~opts.force
    THEN Abort
    ELSE /\ fail' = TRUE
         /\ pc' = "next"
         /\ UNCHANGED <<todo, toFin, exit>>

\* Stores the paths where the fingerprint belongs.
BugSetFiles ==
  /\ pc = "setfiles"
  /\ filesRec' = filesRec \cup FilesOf[op.pkg]
  /\ Goto("setfin")
  /\ UNCHANGED <<disk, world, finRec, finalized, run, op>>

\* Database.SetPackageFiles: the fingerprint is a unique key.
SetFiles ==
  /\ pc = "setfiles"
  /\ filesRec' = filesRec \cup {op.pkg}
  /\ IF op.pkg \notin filesRec \/ opts.force THEN Goto("setfin") ELSE RegisterError
  /\ UNCHANGED <<disk, world, finRec, finalized, run, op>>

\* loadFinalizer and Database.SetPackageFinalizer (a unique key again); the
\* error of loadFinalizer is returned even with force.
SetFin ==
  /\ pc = "setfin"
  /\ \/ /\ finRec' = finRec \cup ({op.pkg} \cap Scripted)
        /\ IF op.pkg \notin finRec \cap Scripted \/ opts.force
             THEN Goto("create") ELSE RegisterError
     \/ /\ "render" \in Faults
        /\ op.pkg \in Scripted
        /\ UNCHANGED finRec
        /\ RegisterError
  /\ UNCHANGED <<disk, world, filesRec, finalized, run, op>>

\* Database.CreatePackage adds a record without looking for another one.
CreatePackage ==
  /\ pc = "create"
  /\ world' = [world EXCEPT ![op.pkg] = @ + 1]
  /\ Goto(IF op.act = "R" THEN "unpack" ELSE "next")
  /\ UNCHANGED <<disk, filesRec, finRec, finalized, run, op>>

-----------------------------------------------------------------------------
(* The end of a command.                                                   *)

\* ExecuteFinalizer of one package, once every operation is done.
Finalize ==
  /\ pc = "next"
  /\ todo = {}
  /\ \E p \in toFin :
       /\ toFin' = toFin \ {p}
       /\ \/ finalized' = finalized \cup {p} /\ UNCHANGED fail
          \/ /\ Faults \cap {"script", "render"} # {}
             /\ fail' = TRUE
             /\ UNCHANGED finalized
  /\ UNCHANGED <<disk, db, run, todo, op, pc, exit>>

Exit ==
  /\ pc = "next"
  /\ todo = {}
  /\ toFin = {}
  /\ pc' = "idle"
  /\ exit' = IF fail THEN "error" ELSE "ok"
  /\ UNCHANGED <<disk, db, finalized, run, todo, op, toFin, fail>>

\* The process is killed.  A file phase may have done part of its work; what
\* is on disk and in the database stays, and nothing is replayed at restart.
Crash ==
  /\ pc # "idle"
  /\ crashes < MaxCrashes
  /\ crashes' = crashes + 1
  /\ CASE pc = "rmfiles" /\ (op.pkg \in filesRec \/ op.act = "R") ->
            \E S \in SUBSET Removable(op.pkg) :
              disk' = [f \in Files |-> IF f \in S THEN NoPkg ELSE disk[f]]
       [] pc = "unpack" ->
            \E S \in SUBSET FilesOf[op.pkg] : disk' = Unpacked(op.pkg, S)
       [] OTHER -> UNCHANGED disk
  /\ pc' = "idle"
  /\ todo' = {}
  /\ toFin' = {}
  /\ exit' = "killed"
  /\ UNCHANGED <<db, finalized, kind, opts, plan, op, fail, commands>>

-----------------------------------------------------------------------------
Init ==
  /\ disk = [f \in Files |-> NoPkg]
  /\ world = [p \in Pkgs |-> 0]
  /\ filesRec = {} /\ finRec = {} /\ finalized = {}
  /\ kind = "install" /\ opts \in Options
  /\ plan = {} /\ todo = {}
  /\ op = [act |-> "N", pkg |-> NoPkg]
  /\ pc = "idle" /\ toFin = {} /\ fail = FALSE /\ exit = "none"
  /\ commands = 0 /\ crashes = 0

NewCommand == MayStart /\
  \E o \in Options, S \in SUBSET Pkgs :
    \/ Install(S, o)
    \/ \E new \in SUBSET S, old \in SUBSET Installed : Upgrade(new, S \ new, old, o)
    \/ Uninstall(S, o)
    \/ Reinstall(S, o)

Step ==
  \/ NextOp \/ RmFiles \/ RmFilesRec \/ UninstallScript \/ RmFinRec \/ RmPkg
  \/ Unpack \/ SetFiles \/ SetFin \/ CreatePackage \/ Finalize \/ Exit

Next == NewCommand \/ Step \/ Crash

Spec == Init /\ [][Next]_vars

\* A running command is scheduled until it ends; users and kills are not.
FairSpec == Spec /\ WF_vars(Step)

-----------------------------------------------------------------------------
(* Properties.                                                             *)

Pcs == {"idle", "next", "rmfiles", "rmfilesrec", "uninstscript", "rmfinrec",
        "rmpkg", "unpack", "setfiles", "setfin", "create"}

\* Every variable has its type.
TypeOK ==
  /\ disk \in [Files -> Pkgs \cup {NoPkg}]
  /\ world \in [Pkgs -> Nat]
  /\ filesRec \subseteq Pkgs /\ finRec \subseteq Pkgs /\ finalized \subseteq Pkgs
  /\ kind \in {"install", "upgrade", "uninstall", "reinstall"}
  /\ opts \in Options
  /\ plan \subseteq Ops /\ todo \subseteq Ops
  /\ op \in [act : Acts, pkg : Pkgs \cup {NoPkg}]
  /\ pc \in Pcs
  /\ toFin \subseteq Pkgs
  /\ fail \in BOOLEAN
  /\ exit \in {"none", "ok", "error", "killed"}
  /\ commands \in 0 .. MaxCommands /\ crashes \in 0 .. MaxCrashes

\* World() never holds two records of one fingerprint nor two versions of
\* one name, whatever fails or is killed: CreatePackage never looks.
OneVersionPerName ==
  /\ \A p \in Pkgs : world[p] <= 1
  /\ DistinctNames(Installed)

\* A PackageFinalizer record never outlives both other records of its
\* package: nothing could ever delete it, and it would block SetFin.
NoOrphanFinalizer == finRec \subseteq filesRec \cup Installed

\* Until a kill or a failing finalizer the three collections describe the
\* same packages at the end of every command, failed unpacks included.
CollectionsAgree ==
  pc = "idle" /\ crashes = 0 /\ Faults \subseteq {"unpack"} =>
    /\ filesRec = Installed
    /\ finRec = Installed \cap Scripted

\* The unprotected paths of p that no other operation of the plan may write or
\* remove after p is unpacked: only removals of p's own name all come before.
OwnFiles(p) ==
  {f \in FilesOf[p] \ Protected :
     \A o \in plan :
       o.pkg # p /\ (o.act = "D" => NameOf[o.pkg] # NameOf[p]) => f \notin FilesOf[o.pkg]}

Recorded(p) == /\ p \in Installed
               /\ p \in filesRec
               /\ p \in Scripted => p \in finRec

\* A package that was registered twice keeps one of its two package records.
Unrecorded(p) == p \notin filesRec \cup finRec /\ (Overlap \/ p \notin Installed)

\* A command that reports success has done its whole plan: removed packages
\* left no record and no file, added ones are recorded, on disk, finalized.
SuccessMeansApplied ==
  pc = "idle" /\ exit = "ok" =>
    \A o \in plan :
      IF o.act = "D"
        THEN o.pkg \notin Added(plan) =>
               /\ Unrecorded(o.pkg)
               /\ \A f \in Removable(o.pkg) :
                    opts.force \/ disk[f] \in {NoPkg} \cup Added(plan)
        ELSE /\ (o.act = "R" /\ ~opts.force) \/ Recorded(o.pkg)
             /\ \A f \in OwnFiles(o.pkg) : disk[f] = o.pkg
             /\ o.pkg \in Scripted /\ ~opts.skipFin => o.pkg \in finalized

\* "Remove one or more packages and skip errors": a forced uninstall that is
\* not killed leaves no record of its packages, whatever state a kill or a
\* failing script left them in.
ForceUninstallCompletes ==
  pc = "idle" /\ kind = "uninstall" /\ opts.force /\ exit \in {"ok", "error"} =>
    /\ exit = "ok"
    /\ \A o \in plan : Unrecorded(o.pkg)

Intact(p) == Recorded(p) /\ \A f \in FilesOf[p] \ Protected : disk[f] = p

\* No other installed package lists a path of p.
SoleOwner(p) == \A q \in Installed \ {p} : FilesOf[q] \cap FilesOf[p] = {}

\* Without --force and with the system check, no step of a command, failing
\* or killed, damages a package that is not in its plan.
BystanderIntact ==
  [][\A p \in Pkgs :
       /\ Intact(p) /\ SoleOwner(p)
       /\ \A o \in plan' : o.pkg # p
       /\ ~opts'.force /\ opts'.check
       => Intact(p)']_vars

\* Every command ends: no abort path leaves an operation that cannot run.
CommandsEnd == pc # "idle" ~> pc = "idle"

\* The records of packages behave as a set of versions, one per name.
InstalledSetSpec == INSTANCE InstalledSet WITH installed <- Installed
ImplementsInstalledSet == InstalledSetSpec!Spec

\* (violated) An upgrade that reports success has left every unprotected
\* file of the packages it installed on the rootfs.
UpgradedFilesPresent ==
  pc = "idle" /\ exit = "ok" /\ kind = "upgrade" /\ ~opts.force =>
    \A p \in Added(plan) : \A f \in FilesOf[p] \ Protected : disk[f] = p

\* (violated) When a command ends by itself, the finalizers of the packages
\* it did install have been run (or tried).
FinalizersRun ==
  [][pc # "idle" /\ pc' = "idle" /\ exit' # "killed"
       => toFin \cap Installed' = {}]_vars
=============================================================================
