---------------------------- MODULE InstallerProofs ----------------------------
(***************************************************************************)
(* Proofs about Installer, for every set of packages, paths and options,   *)
(* every fault and every number of commands and kills: its types, one      *)
(* version per name, no orphan finalizer record, that it implements        *)
(* InstalledSet, and what a command promises as a whole: success means     *)
(* that the plan is applied, a forced uninstall completes, and a package   *)
(* outside the plan stays intact.                                          *)
(*                                                                         *)
(* OneVersionPerName is not inductive: CreatePackage never looks at the    *)
(* database.  What protects it is the plan, so the invariant follows each  *)
(* pending addition back to the removals that precede it.  It needs plans  *)
(* that add no name that stays installed, hence ~Overlap, and so do the    *)
(* refinement and CollectionsAgree, which are false without it.  The other *)
(* theorems hold with both values of Overlap: QueueInv says what is left.  *)
(***************************************************************************)
EXTENDS Installer, TLAPS

Removing == pc \in {"rmfiles", "rmfilesrec", "uninstscript", "rmfinrec", "rmpkg"}
Adding == pc \in {"unpack", "setfiles", "setfin", "create"}
Registering == pc \in {"setfiles", "setfin", "create"}

\* The current operation has the kind its step belongs to.
OpMatchesStep ==
  /\ Removing => op \in Ops /\ op.act \in {"D", "R"}
  /\ Adding => op \in Ops /\ op.act \in {"N", "U", "R"}

\* A started operation is no longer in the list; the list ends with the command.
Dequeued ==
  /\ Removing \/ Adding => op \notin todo
  /\ pc = "idle" => todo = {}

\* Only the reinstall command has R operations, and it has no other.
KindMatchesOps ==
  /\ \A o \in todo : (o.act = "R") <=> (kind = "reinstall")
  /\ Removing \/ Adding => ((op.act = "R") <=> (kind = "reinstall"))

\* Every installed version of a name still to be added is still to be removed.
AddsFollowRemovals ==
  \A o \in todo : o.act \in {"N", "U"} =>
    \A q \in Installed : NameOf[q] = NameOf[o.pkg] =>
      \/ [act |-> "D", pkg |-> q] \in todo
      \/ Removing /\ op = [act |-> "D", pkg |-> q]

\* The additions of a plan have distinct names.
AddsDistinct ==
  /\ \A o1, o2 \in todo :
       o1.act \in {"N", "U"} /\ o2.act \in {"N", "U"} /\ NameOf[o1.pkg] = NameOf[o2.pkg]
         => o1 = o2
  /\ Adding /\ op.act # "R" =>
       \A o \in todo : o.act \in {"N", "U"} => NameOf[o.pkg] # NameOf[op.pkg]

\* While a package is being registered no installed package has its name.
NameFree ==
  /\ Adding /\ op.act # "R" => \A q \in Installed : NameOf[q] # NameOf[op.pkg]
  /\ Registering => \A q \in Installed : NameOf[q] # NameOf[op.pkg]

\* What is still to be removed or reinstalled is installed.
RemovalsInstalled ==
  /\ \A o \in todo : o.act \in {"D", "R"} => o.pkg \in Installed
  /\ Removing => op.pkg \in Installed

\* The finalizer record is written after the files record and deleted before
\* the package record.
FinalizerOrder ==
  /\ finRec \subseteq filesRec \cup Installed
  /\ pc = "rmpkg" => op.pkg \notin finRec
  /\ pc \in {"setfin", "create"} => op.pkg \in filesRec

PlanInv ==
  /\ AddsFollowRemovals
  /\ AddsDistinct
  /\ NameFree

-----------------------------------------------------------------------------
(* Types.  Every step works on a well-formed current operation.            *)

TypeInv == TypeOK /\ OpMatchesStep

LEMMA TypeInit == ASSUME Init PROVE TypeInv
<1>1. commands \in 0 .. MaxCommands /\ crashes \in 0 .. MaxCrashes
  BY InstallerAssumption DEF Init
<1>2. disk \in [Files -> Pkgs \cup {NoPkg}] /\ world \in [Pkgs -> Nat]
  BY DEF Init
<1>3. op \in [act : Acts, pkg : Pkgs \cup {NoPkg}]
  BY DEF Init, Acts
<1> QED
  BY <1>1, <1>2, <1>3 DEF Init, TypeInv, TypeOK, OpMatchesStep, Removing, Adding, Pcs

\* Whatever the command is, it starts.
LEMMA SomeStart == ASSUME NewCommand PROVE \E k, o, ops, fin : Start(k, o, ops, fin)
<1>1. PICK o \in Options, S \in SUBSET Pkgs :
        \/ Install(S, o)
        \/ \E new \in SUBSET S, old \in SUBSET Installed : Upgrade(new, S \ new, old, o)
        \/ Uninstall(S, o)
        \/ Reinstall(S, o)
  BY DEF NewCommand
<1>2. CASE Install(S, o)
  BY <1>2, Zenon DEF Install
<1>3. CASE \E new \in SUBSET S, old \in SUBSET Installed : Upgrade(new, S \ new, old, o)
  BY <1>3, Zenon DEF Upgrade
<1>4. CASE Uninstall(S, o)
  BY <1>4, Zenon DEF Uninstall
<1>5. CASE Reinstall(S, o)
  BY <1>5, Zenon DEF Reinstall
<1> QED
  BY <1>1, <1>2, <1>3, <1>4, <1>5

\* A command starts with operations on packages, whatever the plan.
LEMMA StartTypes ==
  ASSUME TypeInv, NEW k \in {"install", "upgrade", "uninstall", "reinstall"},
         NEW o \in Options, NEW ops, NEW fin, ops \subseteq Ops, Start(k, o, ops, fin)
  PROVE  TypeInv'
<1>1. toFin' \subseteq Pkgs
  BY InstallerAssumption DEF Start
<1>2. commands' \in 0 .. MaxCommands
  BY InstallerAssumption DEF Start, MayStart, TypeInv, TypeOK
<1>3. pc' = "next"
  BY DEF Start
<1>4. OpMatchesStep'
  BY <1>3 DEF OpMatchesStep, Removing, Adding
<1>5. TypeOK'
  BY <1>1, <1>2 DEF Start, TypeInv, TypeOK, Pcs
<1> QED
  BY <1>4, <1>5 DEF TypeInv

LEMMA CommandTypes == ASSUME TypeInv, NewCommand PROVE TypeInv'
<1>1. PICK o \in Options, S \in SUBSET Pkgs :
        \/ Install(S, o)
        \/ \E new \in SUBSET S, old \in SUBSET Installed : Upgrade(new, S \ new, old, o)
        \/ Uninstall(S, o)
        \/ Reinstall(S, o)
  BY DEF NewCommand
<1>2. CASE Install(S, o)
  BY <1>2, StartTypes DEF Install, Ops, Acts
<1>3. CASE \E new \in SUBSET S, old \in SUBSET Installed : Upgrade(new, S \ new, old, o)
  <2>1. PICK new \in SUBSET S, old \in SUBSET Installed : Upgrade(new, S \ new, old, o)
    BY <1>3
  <2> DEFINE upd == S \ new
             ops == [act : {"N"}, pkg : new] \cup [act : {"U"}, pkg : upd]
                      \cup [act : {"D"}, pkg : old]
  <2>2. Start("upgrade", o, ops, new \cup upd)
    BY <2>1 DEF Upgrade
  <2>3. old \subseteq Pkgs
    BY DEF Installed
  <2>4. ops \subseteq Ops
    BY <2>3 DEF Ops, Acts
  <2> HIDE DEF ops
  <2> QED
    BY <2>2, <2>4, StartTypes
<1>4. CASE Uninstall(S, o)
  BY <1>4, StartTypes DEF Uninstall, Ops, Acts
<1>5. CASE Reinstall(S, o)
  BY <1>5, StartTypes DEF Reinstall, Ops, Acts
<1> QED
  BY <1>1, <1>2, <1>3, <1>4, <1>5

LEMMA UnpackedType ==
  ASSUME TypeOK, NEW p \in Pkgs, NEW S
  PROVE  Unpacked(p, S) \in [Files -> Pkgs \cup {NoPkg}]
  BY DEF Unpacked, TypeOK

LEMMA StepTypes == ASSUME TypeInv, Step PROVE TypeInv'
<1> USE DEF TypeInv, TypeOK, OpMatchesStep, Removing, Adding, Pcs, db, run
<1>1. CASE NextOp
  BY <1>1 DEF NextOp, Begin, Ops, Acts
<1>2. CASE RmFiles
  BY <1>2 DEF RmFiles, Goto, Abort, Removable
<1>3. CASE RmFilesRec
  BY <1>3 DEF RmFilesRec, Goto, Abort
<1>4. CASE UninstallScript
  BY <1>4 DEF UninstallScript, Goto, Abort
<1>5. CASE RmFinRec
  BY <1>5 DEF RmFinRec, Goto
<1>6. CASE RmPkg
  <2>1. op.pkg \in Pkgs
    BY <1>6 DEF RmPkg, Ops
  <2>2. world' \in [Pkgs -> Nat]
    BY <1>6, <2>1 DEF RmPkg
  <2> QED
    BY <1>6, <2>1, <2>2 DEF RmPkg, Goto, Abort, Ops, Acts
<1>7. CASE Unpack
  <2>1. op.pkg \in Pkgs
    BY <1>7 DEF Unpack, Ops
  <2>2. disk' \in [Files -> Pkgs \cup {NoPkg}]
    <3>1. PICK S : disk' = Unpacked(op.pkg, S)
      BY <1>7 DEF Unpack
    <3> QED
      BY <2>1, <3>1 DEF Unpacked
  <2>3. PICK ok \in BOOLEAN : AfterUnpack(ok)
    BY <1>7 DEF Unpack
  <2>4. fail' \in BOOLEAN
    BY <2>3 DEF AfterUnpack
  <2>5. /\ pc' \in {"next", "setfiles"}
        /\ pc' = "setfiles" => op \in Ops /\ op.act \in {"N", "U", "R"}
        /\ toFin' \subseteq Pkgs
        /\ UNCHANGED <<todo, exit>>
    BY <1>7, <2>1, <2>3 DEF Unpack, AfterUnpack
  <2>6. UNCHANGED <<world, filesRec, finRec, finalized, kind, opts, plan, commands, crashes, op>>
    BY <1>7 DEF Unpack
  <2> QED
    BY <2>2, <2>4, <2>5, <2>6
<1>8. CASE SetFiles
  BY <1>8 DEF SetFiles, RegisterError, Goto, Abort, Ops, Acts
<1>9. CASE SetFin
  BY <1>9 DEF SetFin, RegisterError, Goto, Abort, Ops, Acts
<1>10. CASE CreatePackage
  BY <1>10 DEF CreatePackage, Goto, Ops, Acts
<1>11. CASE Finalize
  BY <1>11 DEF Finalize
<1>12. CASE Exit
  BY <1>12 DEF Exit
<1> QED
  BY <1>1, <1>2, <1>3, <1>4, <1>5, <1>6, <1>7, <1>8, <1>9, <1>10, <1>11, <1>12
  DEF Step

LEMMA CrashTypes == ASSUME TypeInv, Crash PROVE TypeInv'
<1>1. disk' \in [Files -> Pkgs \cup {NoPkg}]
  <2>1. CASE pc = "unpack"
    <3>1. op.pkg \in Pkgs
      BY <2>1 DEF TypeInv, OpMatchesStep, Adding, Ops
    <3> QED
      BY <2>1, <3>1, UnpackedType DEF Crash, TypeInv
  <2>2. CASE pc # "unpack"
    BY <2>2 DEF Crash, TypeInv, TypeOK
  <2> QED
    BY <2>1, <2>2
<1>2. crashes' \in 0 .. MaxCrashes
  BY InstallerAssumption DEF Crash, TypeInv, TypeOK
<1>3. /\ pc' = "idle" /\ todo' = {} /\ toFin' = {} /\ exit' = "killed"
      /\ UNCHANGED <<world, filesRec, finRec, finalized, kind, opts, plan, op, fail, commands>>
  BY DEF Crash, db
<1> QED
  BY <1>1, <1>2, <1>3 DEF TypeInv, TypeOK, OpMatchesStep, Removing, Adding, Pcs

LEMMA StutterTypes == ASSUME TypeInv, UNCHANGED vars PROVE TypeInv'
  BY DEF vars, TypeInv, TypeOK, OpMatchesStep, Removing, Adding

\* Every variable of a behaviour of Installer keeps its type.
THEOREM TypeCorrect == Spec => []TypeOK
<1>1. Init => TypeInv
  BY TypeInit
<1>2. TypeInv /\ [Next]_vars => TypeInv'
  BY CommandTypes, StepTypes, CrashTypes, StutterTypes DEF Next
<1>3. TypeInv => TypeOK
  BY DEF TypeInv
<1> QED
  BY <1>1, <1>2, <1>3, PTL DEF Spec

-----------------------------------------------------------------------------
(* The list of operations.  It holds with Overlap too: a plan removes or    *)
(* reinstalls installed packages, each of them once, so that the one        *)
(* record RmPkg deletes was counted for its own operation.                  *)

QueueInv == TypeInv /\ Dequeued /\ KindMatchesOps /\ RemovalsInstalled

LEMMA QueueInit == ASSUME Init PROVE QueueInv
<1>1. Dequeued /\ KindMatchesOps /\ RemovalsInstalled
  BY DEF Init, Dequeued, KindMatchesOps, RemovalsInstalled, Removing, Adding
<1> QED
  BY <1>1, TypeInit DEF QueueInv

LEMMA SameWorld ==
  ASSUME UNCHANGED world
  PROVE  Installed' = Installed /\ (OneVersionPerName => OneVersionPerName')
  BY DEF Installed, OneVersionPerName, DistinctNames

\* A step of an operation, which may end it or the command.
LEMMA QueueStays ==
  ASSUME QueueInv, TypeInv', UNCHANGED <<op, kind>>,
         \/ pc' = "idle" /\ todo' = {}
         \/ todo' = todo /\ pc' # "idle" /\ (Removing' \/ Adding' => Removing \/ Adding),
         \A o \in todo' : o.act \in {"D", "R"} => o.pkg \in Installed',
         Removing' => op.pkg \in Installed'
  PROVE  QueueInv'
<1>1. Dequeued'
  BY DEF QueueInv, Dequeued, Removing, Adding
<1>2. KindMatchesOps'
  BY DEF QueueInv, KindMatchesOps, Removing, Adding
<1>3. RemovalsInstalled'
  BY DEF RemovalsInstalled
<1> QED
  BY <1>1, <1>2, <1>3 DEF QueueInv

\* A step that takes no record away and goes on with a removal or leaves it.
LEMMA QuietQueue ==
  ASSUME QueueInv, TypeInv', UNCHANGED <<op, kind>>, Installed \subseteq Installed',
         \/ pc' = "idle" /\ todo' = {}
         \/ /\ UNCHANGED todo
            /\ \/ Removing /\ Removing'
               \/ (Removing \/ Adding) /\ pc' \in {"next", "unpack", "setfiles", "setfin", "create"}
  PROVE  QueueInv'
<1>1. \A o \in todo' : o.act \in {"D", "R"} => o.pkg \in Installed'
  BY DEF QueueInv, RemovalsInstalled
<1>2. Removing' => op.pkg \in Installed'
  BY DEF QueueInv, RemovalsInstalled, Removing
<1> QED
  BY <1>1, <1>2, QueueStays DEF Removing

LEMMA StartQueue ==
  ASSUME TypeInv', NEW k, NEW o, NEW ops, NEW fin, Start(k, o, ops, fin),
         \A x \in ops : (x.act = "R") <=> (k = "reinstall"),
         \A x \in ops : x.act \in {"D", "R"} => x.pkg \in Installed
  PROVE  QueueInv'
<1>1. pc' = "next" /\ todo' = ops /\ kind' = k /\ Installed' = Installed
  BY SameWorld DEF Start
<1> QED
  BY <1>1 DEF QueueInv, Dequeued, KindMatchesOps, RemovalsInstalled, Removing, Adding

LEMMA CommandQueue == ASSUME TypeInv', NewCommand PROVE QueueInv'
<1>1. PICK o \in Options, S \in SUBSET Pkgs :
        \/ Install(S, o)
        \/ \E new \in SUBSET S, old \in SUBSET Installed : Upgrade(new, S \ new, old, o)
        \/ Uninstall(S, o)
        \/ Reinstall(S, o)
  BY DEF NewCommand
<1>2. CASE Install(S, o)
  <2> DEFINE ops == [act : {"N"}, pkg : S]
  <2>1. Start("install", o, ops, S)
    BY <1>2 DEF Install
  <2>2. \A x \in ops : x.act = "N"
    OBVIOUS
  <2> HIDE DEF ops
  <2> QED
    BY <2>1, <2>2, StartQueue
<1>3. CASE \E new \in SUBSET S, old \in SUBSET Installed : Upgrade(new, S \ new, old, o)
  <2>1. PICK new \in SUBSET S, old \in SUBSET Installed : Upgrade(new, S \ new, old, o)
    BY <1>3
  <2> DEFINE upd == S \ new
             ops == [act : {"N"}, pkg : new] \cup [act : {"U"}, pkg : upd]
                      \cup [act : {"D"}, pkg : old]
  <2>2. Start("upgrade", o, ops, new \cup upd)
    BY <2>1 DEF Upgrade
  <2>3. \A x \in ops : x.act # "R" /\ (x.act = "D" => x.pkg \in Installed)
    OBVIOUS
  <2> HIDE DEF ops
  <2> QED
    BY <2>2, <2>3, StartQueue
<1>4. CASE Uninstall(S, o)
  <2> DEFINE ops == [act : {"D"}, pkg : S]
  <2>1. Start("uninstall", o, ops, {}) /\ S \subseteq Installed
    BY <1>4 DEF Uninstall
  <2>2. \A x \in ops : x.act = "D" /\ x.pkg \in S
    OBVIOUS
  <2> HIDE DEF ops
  <2> QED
    BY <2>1, <2>2, StartQueue
<1>5. CASE Reinstall(S, o)
  <2> DEFINE ops == [act : {"R"}, pkg : S]
  <2>1. Start("reinstall", o, ops, {}) /\ S \subseteq Installed
    BY <1>5 DEF Reinstall
  <2>2. \A x \in ops : x.act = "R" /\ x.pkg \in S
    OBVIOUS
  <2> HIDE DEF ops
  <2> QED
    BY <2>1, <2>2, StartQueue
<1> QED
  BY <1>1, <1>2, <1>3, <1>4, <1>5

LEMMA BeginQueue == ASSUME QueueInv, TypeInv', NextOp PROVE QueueInv'
<1>1. PICK o \in todo : Begin(o)
  BY DEF NextOp
<1>2. /\ op' = o /\ todo' = todo \ {o} /\ Installed' = Installed /\ UNCHANGED kind
      /\ pc' = IF o.act \in {"D", "R"} THEN "rmfiles" ELSE "unpack"
  BY <1>1, SameWorld DEF Begin, db, run
<1> QED
  BY <1>2 DEF QueueInv, Dequeued, KindMatchesOps, RemovalsInstalled, Removing

\* The record that goes is not one that a removal still to come needs.
LEMMA RmPkgQueue == ASSUME QueueInv, TypeInv', RmPkg PROVE QueueInv'
<1>1. /\ pc = "rmpkg" /\ Removing /\ UNCHANGED <<op, kind>>
      /\ op \in Ops /\ op.act \in {"D", "R"} /\ op \notin todo
  BY DEF RmPkg, run, Removing, QueueInv, TypeInv, OpMatchesStep, Dequeued
<1>2. op.pkg \in Pkgs /\ op = [act |-> op.act, pkg |-> op.pkg]
  BY <1>1 DEF Ops
<1>3. \A p \in Pkgs \ {op.pkg} : p \in Installed => p \in Installed'
  BY DEF RmPkg, Installed, QueueInv, TypeInv, TypeOK
<1>4. ASSUME NEW x \in todo, x.act \in {"D", "R"}
      PROVE  x.pkg \in Pkgs \ {op.pkg} /\ x.pkg \in Installed
  <2>1. x.act = op.act
    BY <1>1, <1>4 DEF QueueInv, KindMatchesOps
  <2>2. x = [act |-> x.act, pkg |-> x.pkg] /\ x.pkg \in Pkgs
    BY DEF QueueInv, TypeInv, TypeOK, Ops
  <2> QED
    BY <1>1, <1>2, <1>4, <2>1, <2>2 DEF QueueInv, RemovalsInstalled
<1>5. \/ pc' = "idle" /\ todo' = {}
      \/ pc' \in {"next", "setfiles"} /\ todo' = todo
  BY DEF RmPkg, Goto, Abort
<1> QED
  BY <1>1, <1>3, <1>4, <1>5, QueueStays DEF Removing

LEMMA CreateAdds ==
  ASSUME QueueInv, CreatePackage
  PROVE  op.pkg \in Pkgs /\ Installed' = Installed \cup {op.pkg}
<1>1. op.pkg \in Pkgs /\ world \in [Pkgs -> Nat]
  BY DEF CreatePackage, QueueInv, TypeInv, TypeOK, OpMatchesStep, Adding, Ops
<1>2. \A p \in Pkgs : world'[p] = IF p = op.pkg THEN world[p] + 1 ELSE world[p]
  BY <1>1 DEF CreatePackage
<1> QED
  BY <1>1, <1>2 DEF Installed

LEMMA RmPkgTakes ==
  ASSUME QueueInv, RmPkg
  PROVE  /\ op.pkg \in Installed /\ Installed' \subseteq Installed
         /\ Installed \ {op.pkg} \subseteq Installed'
<1>1. op.pkg \in Installed
  BY DEF RmPkg, QueueInv, RemovalsInstalled, Removing
<1>2. op.pkg \in Pkgs /\ world \in [Pkgs -> Nat]
  BY <1>1 DEF Installed, QueueInv, TypeInv, TypeOK
<1>3. \A p \in Pkgs : world'[p] <= world[p] /\ (p # op.pkg => world'[p] = world[p])
  BY <1>2 DEF RmPkg
<1>4. world' \in [Pkgs -> Nat]
  BY <1>2 DEF RmPkg
<1> QED
  BY <1>1, <1>2, <1>3, <1>4 DEF Installed

LEMMA StepQueue == ASSUME QueueInv, TypeInv', Step PROVE QueueInv'
<1> USE DEF Removing, Adding, db, run
<1>1. CASE NextOp
  BY <1>1, BeginQueue
<1>2. CASE RmFiles
  BY <1>2, SameWorld, QuietQueue DEF RmFiles, Goto, Abort
<1>3. CASE RmFilesRec
  BY <1>3, SameWorld, QuietQueue DEF RmFilesRec, Goto, Abort
<1>4. CASE UninstallScript
  BY <1>4, SameWorld, QuietQueue DEF UninstallScript, Goto, Abort
<1>5. CASE RmFinRec
  BY <1>5, SameWorld, QuietQueue DEF RmFinRec, Goto
<1>6. CASE RmPkg
  BY <1>6, RmPkgQueue
<1>7. CASE Unpack
  BY <1>7, SameWorld, QuietQueue DEF Unpack, AfterUnpack
<1>8. CASE SetFiles
  BY <1>8, SameWorld, QuietQueue DEF SetFiles, RegisterError, Goto, Abort
<1>9. CASE SetFin
  BY <1>9, SameWorld, QuietQueue DEF SetFin, RegisterError, Goto, Abort
<1>10. CASE CreatePackage
  <2>1. Installed \subseteq Installed'
    BY <1>10, CreateAdds
  <2> QED
    BY <1>10, <2>1, QuietQueue DEF CreatePackage, Goto
<1>11. CASE Finalize
  <2>1. UNCHANGED <<world, op, kind, todo, pc>> /\ Installed' = Installed
    BY <1>11, SameWorld DEF Finalize
  <2> QED
    BY <2>1 DEF QueueInv, Dequeued, KindMatchesOps, RemovalsInstalled
<1>12. CASE Exit
  BY <1>12, SameWorld, QueueStays DEF Exit
<1> QED
  BY <1>1, <1>2, <1>3, <1>4, <1>5, <1>6, <1>7, <1>8, <1>9, <1>10, <1>11, <1>12
  DEF Step

LEMMA QueueNext == ASSUME QueueInv, [Next]_vars PROVE QueueInv'
<1>1. TypeInv'
  BY CommandTypes, StepTypes, CrashTypes, StutterTypes DEF Next, QueueInv
<1>2. CASE Crash
  <2>1. pc' = "idle" /\ todo' = {} /\ UNCHANGED <<op, kind>>
    BY <1>2 DEF Crash
  <2> QED
    BY <1>1, <2>1, QueueStays DEF Removing
<1>3. CASE UNCHANGED vars
  <2>1. UNCHANGED <<world, op, kind, todo, pc>> /\ Installed' = Installed
    BY <1>3, SameWorld DEF vars
  <2> QED
    BY <1>1, <2>1 DEF QueueInv, Dequeued, KindMatchesOps, RemovalsInstalled, Removing, Adding
<1> QED
  BY <1>1, <1>2, <1>3, CommandQueue, StepQueue DEF Next

-----------------------------------------------------------------------------
(* The plan.  Most steps leave the records, the list and the current       *)
(* operation alone; QuietStep covers the ways they may move pc.            *)

PlanState == QueueInv /\ OneVersionPerName /\ PlanInv

LEMMA PlanInit == ASSUME Init PROVE PlanState
<1>1. \A p \in Pkgs : world[p] = 0
  BY DEF Init
<1>2. Installed = {}
  BY <1>1 DEF Installed
<1>3. OneVersionPerName
  BY <1>1, <1>2 DEF OneVersionPerName, DistinctNames
<1>4. PlanInv
  BY <1>2 DEF Init, PlanInv, AddsFollowRemovals, AddsDistinct, NameFree, Removing, Adding, Registering
<1> QED
  BY <1>3, <1>4, QueueInit DEF PlanState

LEMMA QuietStep ==
  ASSUME PlanState, QueueInv', UNCHANGED <<world, op, kind>>,
         \/ pc' = "idle" /\ todo' = {}
         \/ UNCHANGED todo /\ Removing /\ Removing'
         \/ UNCHANGED todo /\ Removing /\ op.act = "R" /\ pc' = "unpack"
         \/ UNCHANGED todo /\ Adding /\ pc' = "next"
         \/ UNCHANGED todo /\ pc = "unpack" /\ op.act # "R" /\ pc' = "setfiles"
         \/ UNCHANGED todo /\ Registering /\ Registering'
  PROVE  PlanState'
<1>1. Installed' = Installed /\ OneVersionPerName'
  BY SameWorld DEF PlanState
<1>2. AddsFollowRemovals'
  BY <1>1 DEF PlanState, PlanInv, QueueInv, TypeInv, OpMatchesStep, AddsFollowRemovals, Removing,
     Adding, Registering
<1>3. AddsDistinct'
  BY DEF PlanState, PlanInv, AddsDistinct, Removing, Adding, Registering
<1>4. NameFree'
  BY <1>1 DEF PlanState, PlanInv, NameFree, Removing, Adding, Registering
<1> QED
  BY <1>1, <1>2, <1>3, <1>4 DEF PlanState, PlanInv

\* A new command keeps the invariant when its plan removes every installed
\* version of a name it adds and adds names once.
LEMMA StartPlan ==
  ASSUME PlanState, QueueInv', NEW k, NEW o, NEW ops, NEW fin, Start(k, o, ops, fin),
         \A x \in ops : x.act \in {"N", "U"} =>
           \A q \in Installed : NameOf[q] = NameOf[x.pkg] => [act |-> "D", pkg |-> q] \in ops,
         \A x, y \in ops :
           x.act \in {"N", "U"} /\ y.act \in {"N", "U"} /\ NameOf[x.pkg] = NameOf[y.pkg] => x = y
  PROVE  PlanState'
<1>1. pc' = "next" /\ todo' = ops /\ UNCHANGED world
  BY DEF Start
<1>2. Installed' = Installed /\ OneVersionPerName'
  BY <1>1, SameWorld DEF PlanState
<1>3. PlanInv'
  BY <1>1, <1>2 DEF PlanInv, AddsFollowRemovals, AddsDistinct, NameFree, Removing, Adding,
     Registering
<1> QED
  BY <1>2, <1>3 DEF PlanState

LEMMA CommandPlan == ASSUME ~Overlap, PlanState, QueueInv', NewCommand PROVE PlanState'
<1>0. ~Overlap
  OBVIOUS
<1>1. PICK o \in Options, S \in SUBSET Pkgs :
        \/ Install(S, o)
        \/ \E new \in SUBSET S, old \in SUBSET Installed : Upgrade(new, S \ new, old, o)
        \/ Uninstall(S, o)
        \/ Reinstall(S, o)
  BY DEF NewCommand
<1>2. CASE Install(S, o)
  <2> DEFINE ops == [act : {"N"}, pkg : S]
  <2>1. Start("install", o, ops, S) /\ DistinctNames(S)
    BY <1>2 DEF Install
  <2>2. \A x \in ops : x.act = "N" /\ x.pkg \in S /\ x = [act |-> "N", pkg |-> x.pkg]
    OBVIOUS
  <2>3. \A x, y \in ops : NameOf[x.pkg] = NameOf[y.pkg] => x = y
    BY <2>1, <2>2 DEF DistinctNames
  <2>4. \A p \in S, q \in Installed : NameOf[q] # NameOf[p]
    BY <1>0, <1>2 DEF Install, NamesFree, NamesIn
  <2> HIDE DEF ops
  <2> QED
    BY <2>1, <2>2, <2>3, <2>4, StartPlan
<1>3. CASE \E new \in SUBSET S, old \in SUBSET Installed : Upgrade(new, S \ new, old, o)
  <2>1. PICK new \in SUBSET S, old \in SUBSET Installed : Upgrade(new, S \ new, old, o)
    BY <1>3
  <2> DEFINE upd == S \ new
             ops == [act : {"N"}, pkg : new] \cup [act : {"U"}, pkg : upd]
                      \cup [act : {"D"}, pkg : old]
  <2>2. Start("upgrade", o, ops, new \cup upd) /\ DistinctNames(new \cup upd)
    BY <1>0, <2>1 DEF Upgrade
  <2>3. \A x \in ops :
          /\ x.act \in {"U", "N", "D"}
          /\ x.act \in {"N", "U"} => x.pkg \in new \cup upd
          /\ x.act = "N" <=> x.pkg \in new /\ x.act # "D"
          /\ x.act = "U" => x.pkg \in upd
          /\ x.act = "D" => x.pkg \in Installed
          /\ x = [act |-> x.act, pkg |-> x.pkg]
    OBVIOUS
  <2>4. ASSUME NEW x \in ops, x.act \in {"N", "U"}, NEW q \in Installed, NameOf[q] = NameOf[x.pkg]
        PROVE  [act |-> "D", pkg |-> q] \in ops
    <3>1. x.act = "U"
      BY <1>0, <2>1, <2>3, <2>4 DEF Upgrade, NamesFree, NamesIn
    <3>2. PICK r \in old : NameOf[r] = NameOf[x.pkg]
      BY <2>1, <2>3, <3>1 DEF Upgrade, NamesIn
    <3>3. r = q
      BY <2>4, <3>2 DEF PlanState, OneVersionPerName, DistinctNames
    <3> QED
      BY <3>2, <3>3
  <2>5. ASSUME NEW x \in ops, NEW y \in ops, x.act \in {"N", "U"}, y.act \in {"N", "U"},
               NameOf[x.pkg] = NameOf[y.pkg]
        PROVE  x = y
    <3>1. x.pkg = y.pkg
      BY <2>2, <2>3, <2>5 DEF DistinctNames
    <3>2. x.act = y.act
      BY <2>3, <2>5, <3>1
    <3> QED
      BY <2>3, <3>1, <3>2
  <2> HIDE DEF ops
  <2> QED
    BY <2>2, <2>3, <2>4, <2>5, StartPlan
<1>4. CASE Uninstall(S, o)
  <2> DEFINE ops == [act : {"D"}, pkg : S]
  <2>1. Start("uninstall", o, ops, {}) /\ S \subseteq Installed
    BY <1>4 DEF Uninstall
  <2>2. \A x \in ops : x.act = "D" /\ x.pkg \in S
    OBVIOUS
  <2> HIDE DEF ops
  <2> QED
    BY <2>1, <2>2, StartPlan
<1>5. CASE Reinstall(S, o)
  <2> DEFINE ops == [act : {"R"}, pkg : S]
  <2>1. Start("reinstall", o, ops, {}) /\ S \subseteq Installed
    BY <1>5 DEF Reinstall
  <2>2. \A x \in ops : x.act = "R" /\ x.pkg \in S
    OBVIOUS
  <2> HIDE DEF ops
  <2> QED
    BY <2>1, <2>2, StartPlan
<1> QED
  BY <1>1, <1>2, <1>3, <1>4, <1>5

\* An addition starts only after the removals of its name, so its name is free.
LEMMA BeginPlan == ASSUME PlanState, QueueInv', NextOp PROVE PlanState'
<1>1. PICK o \in todo : MayRunNext(o) /\ Begin(o)
  BY DEF NextOp
<1>2. /\ pc = "next" /\ op' = o /\ todo' = todo \ {o} /\ UNCHANGED <<world, kind>>
      /\ pc' = IF o.act \in {"D", "R"} THEN "rmfiles" ELSE "unpack"
  BY <1>1 DEF Begin, db, run
<1>3. o \in Ops
  BY DEF PlanState, QueueInv, TypeInv, TypeOK
<1>4. Installed' = Installed /\ OneVersionPerName'
  BY <1>2, SameWorld DEF PlanState
<1>5. ~Removing /\ ~Adding
  BY <1>2 DEF Removing, Adding
<1>6. Removing' <=> o.act \in {"D", "R"}
  BY <1>2 DEF Removing
<1>7. Adding' <=> o.act \notin {"D", "R"}
  BY <1>2 DEF Adding
<1>8. ~Registering'
  BY <1>2 DEF Registering
<1>9. AddsFollowRemovals'
  <2>1. \A x \in todo : x.act \in {"N", "U"} =>
          \A q \in Installed : NameOf[q] = NameOf[x.pkg] => [act |-> "D", pkg |-> q] \in todo
    BY <1>5 DEF PlanState, PlanInv, AddsFollowRemovals
  <2> QED
    BY <1>2, <1>4, <1>6, <2>1 DEF AddsFollowRemovals
<1>10. AddsDistinct'
  BY <1>2, <1>3, <1>7 DEF PlanState, PlanInv, AddsDistinct, Ops, Acts
<1>11. NameFree'
  <2>1. ASSUME Adding', NEW q \in Installed, NameOf[q] = NameOf[o.pkg] PROVE FALSE
    <3>1. [act |-> "D", pkg |-> q] \in todo
      BY <1>3, <1>5, <1>7, <2>1 DEF PlanState, PlanInv, AddsFollowRemovals, Ops, Acts
    <3> QED
      BY <1>1, <1>7, <2>1, <3>1 DEF MayRunNext
  <2> QED
    BY <1>2, <1>4, <1>8, <2>1 DEF NameFree
<1> QED
  BY <1>4, <1>9, <1>10, <1>11 DEF PlanState, PlanInv

\* Removing the one record of an installed package.
LEMMA RmPkgPlan == ASSUME PlanState, QueueInv', RmPkg PROVE PlanState'
<1>1. /\ pc = "rmpkg" /\ UNCHANGED <<op, kind>>
      /\ world' = [world EXCEPT ![op.pkg] = IF @ > 0 THEN @ - 1 ELSE 0]
  BY DEF RmPkg, run
<1>2. op \in Ops /\ op.act \in {"D", "R"} /\ op \notin todo /\ op.pkg \in Installed
  BY <1>1 DEF PlanState, QueueInv, TypeInv, OpMatchesStep, Dequeued, RemovalsInstalled, Removing
<1>3. op.pkg \in Pkgs
  BY <1>2 DEF Ops
<1>4. world \in [Pkgs -> Nat] /\ world[op.pkg] = 1
  BY <1>2, <1>3 DEF PlanState, QueueInv, TypeInv, TypeOK, OneVersionPerName, Installed
<1>5. \A p \in Pkgs : world'[p] = IF p = op.pkg THEN 0 ELSE world[p]
  BY <1>1, <1>3, <1>4
<1>6. Installed' = Installed \ {op.pkg}
  BY <1>5 DEF Installed
<1>7. OneVersionPerName'
  BY <1>5, <1>6 DEF PlanState, OneVersionPerName, DistinctNames
<1>8. \/ pc' = "idle" /\ todo' = {}
      \/ pc' = "next" /\ todo' = todo
      \/ pc' = "setfiles" /\ todo' = todo /\ op.act = "R"
  BY DEF RmPkg, Goto, Abort
<1>9. AddsFollowRemovals'
  BY <1>1, <1>6, <1>8 DEF PlanState, PlanInv, AddsFollowRemovals
<1>10. AddsDistinct'
  BY <1>1, <1>8 DEF PlanState, PlanInv, AddsDistinct, Adding
<1>11. NameFree'
  <2>1. \A q \in Installed : q # op.pkg => NameOf[q] # NameOf[op.pkg]
    BY <1>2 DEF PlanState, OneVersionPerName, DistinctNames
  <2> QED
    BY <1>1, <1>6, <1>8, <2>1 DEF NameFree, Adding, Registering
<1> QED
  BY <1>7, <1>9, <1>10, <1>11 DEF PlanState, PlanInv

\* Registering a package whose name is free.
LEMMA CreatePlan == ASSUME PlanState, QueueInv', CreatePackage PROVE PlanState'
<1>1. /\ pc = "create" /\ UNCHANGED <<op, kind, todo>>
      /\ world' = [world EXCEPT ![op.pkg] = @ + 1]
      /\ pc' = IF op.act = "R" THEN "unpack" ELSE "next"
  BY DEF CreatePackage, run, Goto
<1>2. op \in Ops /\ op.act \in {"N", "U", "R"}
  BY <1>1 DEF PlanState, QueueInv, TypeInv, OpMatchesStep, Adding
<1>3. op.pkg \in Pkgs /\ world \in [Pkgs -> Nat]
  BY <1>2 DEF PlanState, QueueInv, TypeInv, TypeOK, Ops
<1>4. \A q \in Installed : NameOf[q] # NameOf[op.pkg]
  BY <1>1 DEF PlanState, PlanInv, NameFree, Registering
<1>5. world[op.pkg] = 0
  BY <1>3, <1>4 DEF Installed
<1>6. \A p \in Pkgs : world'[p] = IF p = op.pkg THEN 1 ELSE world[p]
  BY <1>1, <1>3, <1>5
<1>7. Installed' = Installed \cup {op.pkg}
  BY <1>3, <1>6 DEF Installed
<1>8. OneVersionPerName'
  BY <1>3, <1>4, <1>6, <1>7 DEF PlanState, OneVersionPerName, DistinctNames
<1>9. AddsFollowRemovals'
  <2>1. \A x \in todo : x.act \in {"N", "U"} => NameOf[x.pkg] # NameOf[op.pkg]
    BY <1>1, <1>2 DEF PlanState, PlanInv, QueueInv, AddsDistinct, KindMatchesOps, Adding
  <2> QED
    BY <1>1, <1>7, <2>1 DEF PlanState, PlanInv, AddsFollowRemovals, Removing
<1>10. AddsDistinct'
  BY <1>1 DEF PlanState, PlanInv, AddsDistinct, Adding
<1>11. NameFree'
  BY <1>1 DEF NameFree, Adding, Registering
<1> QED
  BY <1>8, <1>9, <1>10, <1>11 DEF PlanState, PlanInv

LEMMA StepPlan == ASSUME PlanState, QueueInv', Step PROVE PlanState'
<1> USE DEF Removing, Adding, Registering, db, run
<1>1. CASE NextOp
  BY <1>1, BeginPlan
<1>2. CASE RmFiles
  BY <1>2, QuietStep DEF RmFiles, Goto, Abort
<1>3. CASE RmFilesRec
  BY <1>3, QuietStep DEF RmFilesRec, Goto, Abort
<1>4. CASE UninstallScript
  BY <1>4, QuietStep DEF UninstallScript, Goto, Abort
<1>5. CASE RmFinRec
  BY <1>5, QuietStep DEF RmFinRec, Goto
<1>6. CASE RmPkg
  BY <1>6, RmPkgPlan
<1>7. CASE Unpack
  BY <1>7, QuietStep DEF Unpack, AfterUnpack
<1>8. CASE SetFiles
  BY <1>8, QuietStep DEF SetFiles, RegisterError, Goto, Abort
<1>9. CASE SetFin
  BY <1>9, QuietStep DEF SetFin, RegisterError, Goto, Abort
<1>10. CASE CreatePackage
  BY <1>10, CreatePlan
<1>11. CASE Finalize
  <2>1. UNCHANGED <<world, op, kind, todo, pc>> /\ Installed' = Installed
    BY <1>11, SameWorld DEF Finalize
  <2> QED
    BY <2>1, SameWorld DEF PlanState, PlanInv, AddsFollowRemovals, AddsDistinct, NameFree
<1>12. CASE Exit
  BY <1>12, QuietStep DEF Exit
<1> QED
  BY <1>1, <1>2, <1>3, <1>4, <1>5, <1>6, <1>7, <1>8, <1>9, <1>10, <1>11, <1>12
  DEF Step

LEMMA PlanNext == ASSUME ~Overlap, PlanState, [Next]_vars PROVE PlanState'
<1>1. QueueInv'
  BY QueueNext DEF PlanState
<1>2. CASE NewCommand
  BY <1>1, <1>2, CommandPlan
<1>3. CASE Step
  BY <1>1, <1>3, StepPlan
<1>4. CASE Crash
  BY <1>1, <1>4, QuietStep DEF Crash, db
<1>5. CASE UNCHANGED vars
  <2>1. UNCHANGED <<world, op, kind, todo, pc>> /\ Installed' = Installed
    BY <1>5, SameWorld DEF vars
  <2> QED
    BY <1>1, <2>1, SameWorld DEF PlanState, PlanInv, AddsFollowRemovals, AddsDistinct, NameFree,
       Removing, Adding, Registering
<1> QED
  BY <1>2, <1>3, <1>4, <1>5 DEF Next

\* No two records of one fingerprint, no two versions of one name, whatever
\* fails and whenever the process is killed.
THEOREM OneVersionCorrect == ASSUME ~Overlap PROVE Spec => []OneVersionPerName
<1>1. Init => PlanState
  BY PlanInit
<1>2. PlanState /\ [Next]_vars => PlanState'
  BY PlanNext
<1>3. PlanState => OneVersionPerName
  BY DEF PlanState
<1> QED
  BY <1>1, <1>2, <1>3, PTL DEF Spec

-----------------------------------------------------------------------------
(* Refinement: the package records are an InstalledSet.                    *)

LEMMA RmPkgUnregisters ==
  ASSUME PlanState, RmPkg PROVE Installed' = Installed \ {op.pkg} /\ op.pkg \in Installed
<1>1. op.pkg \in Installed
  BY DEF RmPkg, PlanState, QueueInv, RemovalsInstalled, Removing
<1>2. op.pkg \in Pkgs /\ world \in [Pkgs -> Nat] /\ world[op.pkg] = 1
  BY <1>1 DEF PlanState, QueueInv, TypeInv, TypeOK, OneVersionPerName, Installed
<1>3. \A p \in Pkgs : world'[p] = IF p = op.pkg THEN 0 ELSE world[p]
  BY <1>2 DEF RmPkg
<1> QED
  BY <1>1, <1>3 DEF Installed

LEMMA CreateRegisters ==
  ASSUME PlanState, CreatePackage
  PROVE  /\ op.pkg \in Pkgs
         /\ Installed' = Installed \cup {op.pkg}
         /\ \A q \in Installed : NameOf[q] # NameOf[op.pkg]
<1>1. \A q \in Installed : NameOf[q] # NameOf[op.pkg]
  BY DEF CreatePackage, PlanState, PlanInv, NameFree, Registering
<1> QED
  BY <1>1, CreateAdds DEF PlanState

\* A command starts between operations and changes no record.
LEMMA CommandStarts ==
  ASSUME NewCommand PROVE pc' = "next" /\ UNCHANGED <<world, filesRec, finRec, op>>
<1>1. ASSUME NEW k, NEW o, NEW ops, NEW fin, Start(k, o, ops, fin)
      PROVE  pc' = "next" /\ UNCHANGED <<world, filesRec, finRec, op>>
  BY <1>1 DEF Start
<1> QED
  BY <1>1, SomeStart

\* Every other step leaves the package records alone.
LEMMA OthersKeepWorld ==
  ASSUME [Next]_vars, ~RmPkg, ~CreatePackage PROVE UNCHANGED world
  BY CommandStarts DEF Next, vars, Step, NextOp, Begin, RmFiles, RmFilesRec,
     UninstallScript, RmFinRec, Unpack, SetFiles, SetFin, Finalize, Exit, Crash, db

\* CreatePackage registers a package of a free name, RmPkg unregisters an
\* installed one, every other step is a stutter of InstalledSet.
THEOREM InstalledSetRefined == ASSUME ~Overlap PROVE Spec => ImplementsInstalledSet
<1>1. Init => InstalledSetSpec!Init
  <2>1. ASSUME Init PROVE Installed = {}
    BY <2>1 DEF Init, Installed
  <2> QED
    BY <2>1 DEF InstalledSetSpec!Init
<1>2. ASSUME PlanState, [Next]_vars
      PROVE  [InstalledSetSpec!Next]_Installed
  <2>1. CASE RmPkg
    <3>1. Installed' = Installed \ {op.pkg} /\ op.pkg \in Installed
      BY <1>2, <2>1, RmPkgUnregisters
    <3>2. op.pkg \in Pkgs
      BY <3>1 DEF Installed
    <3> QED
      BY <3>1, <3>2 DEF InstalledSetSpec!Next, InstalledSetSpec!Unregister
  <2>2. CASE CreatePackage
    BY <1>2, <2>2, CreateRegisters DEF InstalledSetSpec!Next, InstalledSetSpec!Register
  <2>3. CASE ~RmPkg /\ ~CreatePackage
    BY <1>2, <2>3, OthersKeepWorld, SameWorld
  <2> QED
    BY <2>1, <2>2, <2>3
<1>3. PlanState /\ [Next]_vars => PlanState'
  BY PlanNext
<1>4. Init => PlanState
  BY PlanInit
<1> QED
  BY <1>1, <1>2, <1>3, <1>4, PTL DEF Spec, ImplementsInstalledSet, InstalledSetSpec!Spec

-----------------------------------------------------------------------------
(* The order in which the records of a package are written and deleted.    *)

LEMMA FinalizerOrderNext ==
  ASSUME QueueInv, FinalizerOrder, [Next]_vars PROVE FinalizerOrder'
<1> USE DEF FinalizerOrder, db, run
<1>1. CASE NewCommand
  BY <1>1, SameWorld, CommandStarts
<1>2. CASE NextOp
  BY <1>2, SameWorld DEF NextOp, Begin
<1>3. CASE RmFiles
  BY <1>3, SameWorld DEF RmFiles, Goto, Abort
<1>4. CASE RmFilesRec
  <2>1. op.pkg \in Installed
    BY <1>4 DEF RmFilesRec, QueueInv, RemovalsInstalled, Removing
  <2> QED
    BY <1>4, <2>1, SameWorld DEF RmFilesRec, Goto, Abort
<1>5. CASE UninstallScript
  BY <1>5, SameWorld DEF UninstallScript, Goto, Abort
<1>6. CASE RmFinRec
  BY <1>6, SameWorld DEF RmFinRec, Goto
<1>7. CASE RmPkg
  BY <1>7, RmPkgTakes DEF RmPkg, Goto, Abort
<1>8. CASE Unpack
  BY <1>8, SameWorld DEF Unpack, AfterUnpack
<1>9. CASE SetFiles
  BY <1>9, SameWorld DEF SetFiles, RegisterError, Goto, Abort
<1>10. CASE SetFin
  BY <1>10, SameWorld DEF SetFin, RegisterError, Goto, Abort
<1>11. CASE CreatePackage
  BY <1>11, CreateAdds DEF CreatePackage, Goto
<1>12. CASE Finalize
  BY <1>12, SameWorld DEF Finalize
<1>13. CASE Exit
  BY <1>13, SameWorld DEF Exit
<1>14. CASE Crash
  BY <1>14, SameWorld DEF Crash
<1>15. CASE UNCHANGED vars
  BY <1>15, SameWorld DEF vars
<1> QED
  BY <1>1, <1>2, <1>3, <1>4, <1>5, <1>6, <1>7, <1>8, <1>9, <1>10, <1>11, <1>12, <1>13,
     <1>14, <1>15 DEF Next, Step

\* A finalizer record never outlives both other records of its package, also
\* when a package is recorded twice.
THEOREM NoOrphanFinalizerCorrect == Spec => []NoOrphanFinalizer
<1>1. Init => QueueInv /\ FinalizerOrder
  BY QueueInit DEF Init, FinalizerOrder
<1>2. QueueInv /\ FinalizerOrder /\ [Next]_vars => QueueInv' /\ FinalizerOrder'
  BY QueueNext, FinalizerOrderNext
<1>3. FinalizerOrder => NoOrphanFinalizer
  BY DEF FinalizerOrder, NoOrphanFinalizer
<1> QED
  BY <1>1, <1>2, <1>3, PTL DEF Spec

-----------------------------------------------------------------------------
(* Without kills and failing scripts no step of a plan finds a record      *)
(* missing or in the way, so no command stops half-way and the three       *)
(* collections only differ at the package of the current operation.        *)

NoInterruption == crashes = 0 /\ Faults \subseteq {"unpack"}

\* The records the steps taken so far leave.
FilesDue ==
  IF pc \in {"uninstscript", "rmfinrec", "rmpkg"} THEN Installed \ {op.pkg}
  ELSE IF pc \in {"setfin", "create"} THEN Installed \cup {op.pkg}
  ELSE Installed

FinDue ==
  (IF pc = "rmpkg" THEN Installed \ {op.pkg}
   ELSE IF pc = "create" THEN Installed \cup {op.pkg}
   ELSE Installed) \cap Scripted

AgreeInv == NoInterruption => filesRec = FilesDue /\ finRec = FinDue

\* What the plan says of the installed packages at the current operation.
LEMMA PlanAtWork ==
  ASSUME PlanState
  PROVE  /\ Removing => op.pkg \in Installed
         /\ Registering => op.pkg \notin Installed
BY DEF PlanState, PlanInv, QueueInv, RemovalsInstalled, NameFree

LEMMA AgreeNext == ASSUME PlanState, AgreeInv, [Next]_vars PROVE AgreeInv'
<1> SUFFICES ASSUME NoInterruption' PROVE filesRec' = FilesDue' /\ finRec' = FinDue'
  BY DEF AgreeInv
<1>1. ~Crash /\ NoInterruption
  <2>1. Crash => crashes' = crashes + 1 /\ crashes \in Nat
    BY InstallerAssumption DEF Crash, PlanState, QueueInv, TypeInv, TypeOK
  <2>2. ~Crash
    BY <2>1 DEF NoInterruption
  <2>3. [Next]_vars /\ ~Crash => UNCHANGED crashes
    <3>1. NewCommand => UNCHANGED crashes
      <4>1. NewCommand => \E k, o, ops, fin : Start(k, o, ops, fin)
        BY SomeStart
      <4> QED
        BY <4>1 DEF Start
    <3> QED
      BY <3>1 DEF Next, vars, Step, NextOp, Begin, RmFiles, RmFilesRec, UninstallScript,
         RmFinRec, RmPkg, Unpack, SetFiles, SetFin, CreatePackage, Finalize, Exit, run
  <2> QED
    BY <2>2, <2>3 DEF NoInterruption
<1>2. filesRec = FilesDue /\ finRec = FinDue /\ Faults \subseteq {"unpack"}
  BY <1>1 DEF AgreeInv, NoInterruption
<1> USE <1>2 DEF FilesDue, FinDue, db, run
<1>3. CASE NewCommand
  BY <1>3, SameWorld, CommandStarts DEF NewCommand, MayStart
<1>4. CASE NextOp
  BY <1>4, SameWorld DEF NextOp, Begin
<1>5. CASE RmFiles
  BY <1>5, SameWorld, PlanAtWork DEF RmFiles, Goto, Abort, Removing
<1>6. CASE RmFilesRec
  BY <1>6, SameWorld, PlanAtWork DEF RmFilesRec, Goto, Abort, Removing
<1>7. CASE UninstallScript
  BY <1>7, SameWorld DEF UninstallScript, Goto, Abort
<1>8. CASE RmFinRec
  BY <1>8, SameWorld DEF RmFinRec, Goto
<1>9. CASE RmPkg
  BY <1>9, RmPkgUnregisters DEF RmPkg, Goto, Abort, Installed
<1>10. CASE Unpack
  BY <1>10, SameWorld DEF Unpack, AfterUnpack
<1>11. CASE SetFiles
  BY <1>11, SameWorld, PlanAtWork DEF SetFiles, Goto, Registering
<1>12. CASE SetFin
  BY <1>12, SameWorld, PlanAtWork DEF SetFin, Goto, Registering
<1>13. CASE CreatePackage
  BY <1>13, CreateRegisters DEF CreatePackage, Goto
<1>14. CASE Finalize
  BY <1>14, SameWorld DEF Finalize
<1>15. CASE Exit
  BY <1>15, SameWorld DEF Exit
<1>16. CASE UNCHANGED vars
  BY <1>16, SameWorld DEF vars
<1> QED
  BY <1>1, <1>3, <1>4, <1>5, <1>6, <1>7, <1>8, <1>9, <1>10, <1>11, <1>12, <1>13, <1>14,
     <1>15, <1>16 DEF Next, Step

\* Until a kill or a failing script the three collections describe the same
\* packages at the end of every command.
THEOREM CollectionsAgreeCorrect == ASSUME ~Overlap PROVE Spec => []CollectionsAgree
<1>1. Init => PlanState /\ AgreeInv
  <2>1. Init => Installed = {}
    BY DEF Init, Installed
  <2> QED
    BY <2>1, PlanInit DEF Init, AgreeInv, FilesDue, FinDue
<1>2. PlanState /\ AgreeInv /\ [Next]_vars => PlanState' /\ AgreeInv'
  BY PlanNext, AgreeNext
<1>3. AgreeInv => CollectionsAgree
  BY DEF AgreeInv, NoInterruption, FilesDue, FinDue, CollectionsAgree
<1> QED
  BY <1>1, <1>2, <1>3, PTL DEF Spec

-----------------------------------------------------------------------------
(***************************************************************************)
(* Success.  A command that reports success has applied its whole plan.    *)
(* While no error has been recorded each operation of the plan is in the   *)
(* list, at work or Done; what is done stays so, because the operations    *)
(* that follow are about other packages, and never remove another version  *)
(* of what was added (Ordered, from MayRunNext); OwnFiles leaves out the   *)
(* paths of the other operations.                                          *)
(***************************************************************************)

\* A version is stored once when the plans do not overlap.
Base == QueueInv /\ (Overlap \/ PlanState)

LEMMA BaseInit == Init => Base
BY QueueInit, PlanInit DEF Base

LEMMA BaseNext == Base /\ [Next]_vars => Base'
<1> SUFFICES ASSUME Base, [Next]_vars PROVE Base'
  OBVIOUS
<1>1. QueueInv'
  BY QueueNext DEF Base
<1>2. Overlap \/ PlanState'
  BY PlanNext DEF Base
<1> QED
  BY <1>1, <1>2 DEF Base


Working == Removing \/ Adding
Live == pc # "idle" /\ ~fail

\* The operations that are not done.
Pending == todo \cup (IF Working THEN {op} ELSE {})

\* SuccessMeansApplied for one operation, its finalizer run or still to run.
Done(o) ==
  IF o.act = "D"
    THEN o.pkg \notin Added(plan) =>
           /\ Unrecorded(o.pkg)
           /\ \A f \in Removable(o.pkg) :
                opts.force \/ disk[f] \in {NoPkg} \cup Added(plan)
    ELSE /\ (o.act = "R" /\ ~opts.force) \/ Recorded(o.pkg)
         /\ \A f \in OwnFiles(o.pkg) : disk[f] = o.pkg
         /\ o.pkg \in Scripted /\ ~opts.skipFin => o.pkg \in finalized \cup toFin

\* What the plan of a command looks like while it runs.
Shape ==
  /\ plan \subseteq Ops /\ todo \subseteq plan
  /\ Working => op \in plan
  /\ \A o \in plan : (o.act = "R") <=> (kind = "reinstall")
  /\ \A o, x \in plan : o.act # "D" /\ x.act # "D" /\ o.pkg = x.pkg => o = x
  /\ kind # "reinstall" /\ ~opts.skipFin /\ Pending # {} =>
       Added(plan) \cap Scripted \subseteq toFin

\* The operation x leaves alone what o adds.
Clear(x, o) == x.pkg # o.pkg /\ (x.act = "D" => NameOf[x.pkg] # NameOf[o.pkg])

\* Whatever is pending leaves alone what was added, or is being added.
Ordered ==
  /\ \A o \in plan \ Pending : o.act # "D" => \A x \in Pending : Clear(x, o)
  /\ Working /\ op.act # "D" => \A x \in todo : Clear(x, op)

PlanDone == \A o \in plan \ Pending : Done(o)

\* What the steps of the current operation have done.
Progress ==
  /\ op.act = "D" =>
       /\ pc # "rmfiles" =>
            \A f \in Removable(op.pkg) : opts.force \/ disk[f] \in {NoPkg} \cup Added(plan)
       /\ pc \in {"uninstscript", "rmfinrec", "rmpkg"} => op.pkg \notin filesRec
       /\ pc = "rmpkg" => op.pkg \notin finRec
  /\ op.act \in {"N", "U"} /\ pc # "unpack" => \A f \in OwnFiles(op.pkg) : disk[f] = op.pkg
  /\ pc \in {"setfin", "create"} => op.pkg \in filesRec
  /\ pc = "create" /\ op.pkg \in Scripted => op.pkg \in finRec
  /\ pc = "unpack" /\ op.act = "R" /\ opts.force => Recorded(op.pkg)

LiveInv == Shape /\ Ordered /\ PlanDone /\ (Working => Progress)

AppliedInv == Base /\ (Live => LiveInv) /\ SuccessMeansApplied

-----------------------------------------------------------------------------
(* What a step of an operation leaves alone.                               *)

OpFrame ==
  /\ UNCHANGED <<kind, opts, plan, todo, op>>
  /\ \A p \in Pkgs \ {op.pkg} :
       /\ p \in Installed' <=> p \in Installed
       /\ p \in filesRec' <=> p \in filesRec
       /\ p \in finRec' <=> p \in finRec
       /\ p \in finalized => p \in finalized'
  /\ toFin \subseteq toFin'
  /\ \A f \in Files :
       \/ disk'[f] = disk[f]
       \/ f \in FilesOf[op.pkg] /\ disk'[f] \in {NoPkg} \cup ({op.pkg} \cap Added(plan))

\* The operation at work, and what is known of it.
LEMMA AtWork ==
  ASSUME AppliedInv, Live, Working
  PROVE  /\ op \in plan /\ op \in Ops /\ op \notin todo /\ op.pkg \in Pkgs
         /\ FilesOf[op.pkg] \subseteq Files
         /\ Adding => op.pkg \in Added(plan)
         /\ op.pkg \in Added(plan) <=> \E o \in plan : o.act # "D" /\ o.pkg = op.pkg
<1>1. op \in plan /\ op \in Ops /\ op \notin todo /\ op.pkg \in Pkgs
  BY DEF AppliedInv, LiveInv, Shape, Base, QueueInv, Dequeued, Working, Ops
<1>2. FilesOf[op.pkg] \subseteq Files
  BY <1>1, InstallerAssumption DEF InstallerAssumption
<1>3. Adding => op.act # "D"
  BY DEF AppliedInv, Base, QueueInv, TypeInv, OpMatchesStep
<1>4. op.pkg \in Added(plan) <=> \E o \in plan : o.act # "D" /\ o.pkg = op.pkg
  BY DEF Added
<1> QED
  BY <1>1, <1>2, <1>3, <1>4

LEMMA DoneKept ==
  ASSUME AppliedInv, Live, Working, OpFrame, NEW o \in plan \ Pending
  PROVE  Done(o)'
<1>1. /\ Done(o) /\ o # op /\ o \in Ops /\ o.pkg \in Pkgs /\ o.act \in Acts
      /\ \A x \in plan : (o.act # "D" /\ x = op) => Clear(x, o)
      /\ op \in Ops /\ op \in plan
  BY AtWork DEF AppliedInv, LiveInv, PlanDone, Pending, Shape, Ordered, Ops
<1>2. Added(plan)' = Added(plan) /\ UNCHANGED <<opts, plan>>
  BY DEF OpFrame, Added
<1>3. CASE o.act = "D"
  <2>1. SUFFICES ASSUME o.pkg \notin Added(plan)
                 PROVE  /\ Unrecorded(o.pkg)'
                        /\ \A f \in Removable(o.pkg) :
                             opts.force \/ disk'[f] \in {NoPkg} \cup Added(plan)
    BY <1>2, <1>3 DEF Done, Removable
  <2>2. op.pkg # o.pkg
    <3>1. SUFFICES ASSUME op.pkg = o.pkg PROVE FALSE
      OBVIOUS
    <3>2. op.act = "D"
      BY <1>1, <2>1, <3>1, AtWork
    <3> QED
      BY <1>1, <1>3, <3>1, <3>2 DEF Ops
  <2>3. Unrecorded(o.pkg)'
    BY <1>1, <1>3, <2>1, <2>2 DEF Done, Unrecorded, OpFrame
  <2>4. Removable(o.pkg) \subseteq Files
    BY <1>1, InstallerAssumption DEF InstallerAssumption, Removable
  <2> QED
    BY <1>1, <1>3, <2>1, <2>3, <2>4 DEF Done, OpFrame
<1>4. CASE o.act # "D"
  <2>1. Clear(op, o) /\ op.pkg # o.pkg
    BY <1>1, <1>4 DEF Clear
  <2>2. Recorded(o.pkg) => Recorded(o.pkg)'
    BY <1>1, <2>1 DEF Recorded, OpFrame
  <2>3. OwnFiles(o.pkg)' = OwnFiles(o.pkg) /\ OwnFiles(o.pkg) \subseteq Files \ FilesOf[op.pkg]
    BY <1>1, <1>2, <2>1, InstallerAssumption DEF OwnFiles, Clear, InstallerAssumption
  <2>4. \A f \in OwnFiles(o.pkg)' : disk'[f] = o.pkg
    BY <1>1, <1>4, <2>3 DEF Done, OpFrame
  <2>5. o.pkg \in finalized \cup toFin => o.pkg \in finalized' \cup toFin'
    BY <1>1, <2>1 DEF OpFrame
  <2> QED
    BY <1>1, <1>2, <1>4, <2>2, <2>4, <2>5 DEF Done
<1> QED
  BY <1>3, <1>4

\* An operation goes on, or is done.
LEMMA WorkGoesOn ==
  ASSUME AppliedInv, Live, Working, OpFrame, pc' # "idle",
         \/ Working' /\ Progress'
         \/ pc' = "next" /\ Done(op)'
  PROVE  LiveInv' /\ SuccessMeansApplied'
<1>1. /\ op \in plan /\ op \notin todo
      /\ UNCHANGED <<kind, opts, plan, todo, op>> /\ toFin \subseteq toFin'
      /\ Pending = todo \cup {op}
  BY AtWork DEF OpFrame, Pending
<1>2. \/ Working' /\ Progress' /\ Pending' = Pending
      \/ ~Working' /\ Done(op)' /\ Pending' = todo
  BY <1>1 DEF Pending, Working, Removing, Adding
<1>3. Pending' \subseteq Pending
  BY <1>1, <1>2
<1>4. Shape'
  <2>1. Pending # {} /\ Added(plan)' = Added(plan)
    BY <1>1 DEF Added
  <2> QED
    BY <1>1, <2>1 DEF AppliedInv, LiveInv, Shape
<1>5. Ordered'
  BY <1>1, <1>2, <1>3 DEF AppliedInv, LiveInv, Ordered
<1>6. PlanDone'
  <2>1. ASSUME NEW o \in plan \ Pending' PROVE Done(o)'
    <3>1. CASE o \notin Pending
      BY <3>1, DoneKept
    <3>2. CASE o \in Pending
      BY <1>1, <1>2, <2>1, <3>2
    <3> QED
      BY <3>1, <3>2
  <2> QED
    BY <1>1, <2>1 DEF PlanDone
<1> QED
  BY <1>2, <1>4, <1>5, <1>6 DEF LiveInv, SuccessMeansApplied

-----------------------------------------------------------------------------
(* The steps of an operation.                                              *)

\* A step fails, or goes on with its operation, or ends it done.
GoesWell ==
  \/ pc' = "idle" /\ exit' = "error"
  \/ pc' # "idle" /\ fail'
  \/ /\ OpFrame /\ pc' # "idle"
     /\ \/ Working' /\ Progress'
        \/ pc' = "next" /\ Done(op)'

LEMMA RmFilesApplied == ASSUME AppliedInv, Live, RmFiles PROVE GoesWell
<1>1. pc = "rmfiles" /\ Working /\ op.act \in {"D", "R"}
  BY DEF RmFiles, Working, Removing, AppliedInv, Base, QueueInv, TypeInv, OpMatchesStep
<1>2. op.pkg \in Pkgs /\ FilesOf[op.pkg] \subseteq Files
  BY <1>1, AtWork
<1>3. CASE op.pkg \in filesRec \/ op.act = "R"
  <2>1. /\ disk' = [f \in Files |-> IF f \in Removable(op.pkg) THEN NoPkg ELSE disk[f]]
        /\ pc' = IF op.act = "R" /\ ~opts.force THEN "unpack" ELSE "rmfilesrec"
        /\ UNCHANGED <<world, filesRec, finRec, finalized, kind, opts, plan, todo, op, toFin>>
    BY <1>1, <1>3 DEF RmFiles, Goto, db, run
  <2>2. OpFrame
    BY <1>2, <2>1 DEF OpFrame, Removable, Installed
  <2>3. Working'
    BY <2>1 DEF Working, Removing, Adding
  <2>4. Progress'
    <3>1. \A f \in Removable(op.pkg) : disk'[f] = NoPkg
      BY <1>2, <2>1 DEF Removable
    <3> QED
      BY <1>1, <2>1, <3>1 DEF Progress, Removable
  <2> QED
    BY <2>1, <2>2, <2>3, <2>4 DEF GoesWell
<1>4. CASE ~(op.pkg \in filesRec \/ op.act = "R") /\ ~opts.force
  BY <1>4 DEF RmFiles, Abort, GoesWell
<1>5. CASE ~(op.pkg \in filesRec \/ op.act = "R") /\ opts.force
  <2>1. /\ pc' = "rmfilesrec"
        /\ UNCHANGED <<disk, world, filesRec, finRec, finalized, kind, opts, plan, todo, op, toFin>>
    BY <1>1, <1>5 DEF RmFiles, Goto, db, run
  <2>2. OpFrame
    BY <2>1 DEF OpFrame, Installed
  <2>3. Working' /\ Progress'
    BY <1>1, <1>5, <2>1 DEF Working, Removing, Progress
  <2> QED
    BY <2>1, <2>2, <2>3 DEF GoesWell
<1> QED
  BY <1>3, <1>4, <1>5

LEMMA RmRecordsApplied ==
  ASSUME AppliedInv, Live, RmFilesRec \/ UninstallScript \/ RmFinRec PROVE GoesWell
<1>1. Removing /\ Working /\ op.act \in {"D", "R"} /\ pc # "rmfiles" /\ Progress
  BY DEF RmFilesRec, UninstallScript, RmFinRec, Working, Removing, AppliedInv, LiveInv,
     Base, QueueInv, TypeInv, OpMatchesStep
<1>2. CASE pc' = "idle"
  BY <1>2 DEF RmFilesRec, UninstallScript, RmFinRec, Goto, Abort, GoesWell
<1>3. CASE pc' # "idle"
  <2>1. /\ UNCHANGED <<disk, world, finalized, kind, opts, plan, todo, op, toFin>>
        /\ filesRec' = filesRec \/ filesRec' = filesRec \ {op.pkg}
        /\ finRec' = finRec \/ finRec' = finRec \ {op.pkg}
    BY <1>3 DEF RmFilesRec, UninstallScript, RmFinRec, Goto, Abort, db, run
  <2>2. OpFrame
    BY <2>1 DEF OpFrame, Installed
  <2>3. pc' \in {"uninstscript", "rmfinrec", "rmpkg"}
    BY <1>3 DEF RmFilesRec, UninstallScript, RmFinRec, Goto, Abort
  <2>4. op.act = "D" => op.pkg \notin filesRec'
    BY <1>1, <1>3 DEF RmFilesRec, UninstallScript, RmFinRec, Goto, Abort, Progress, db
  <2>5. pc' = "rmpkg" => op.pkg \notin finRec'
    BY <1>3 DEF RmFilesRec, UninstallScript, RmFinRec, Goto, Abort
  <2>6. Removable(op.pkg)' = Removable(op.pkg) /\ Added(plan)' = Added(plan)
    BY <2>1 DEF Removable, Added
  <2>7. Progress'
    BY <1>1, <2>1, <2>3, <2>4, <2>5, <2>6 DEF Progress
  <2> QED
    BY <1>3, <2>2, <2>3, <2>7 DEF GoesWell, Working, Removing
<1> QED
  BY <1>2, <1>3

LEMMA RmPkgApplied == ASSUME AppliedInv, Live, RmPkg PROVE GoesWell
<1>1. pc = "rmpkg" /\ Working /\ op.act \in {"D", "R"} /\ Progress
  BY DEF RmPkg, Working, Removing, AppliedInv, LiveInv, Base, QueueInv, TypeInv, OpMatchesStep
<1>2. op \in Ops /\ op.pkg \in Pkgs
  BY <1>1, AtWork
<1>3. /\ Installed' \subseteq Installed /\ Installed \ {op.pkg} \subseteq Installed'
      /\ Overlap \/ op.pkg \notin Installed'
  BY RmPkgTakes, RmPkgUnregisters DEF AppliedInv, Base
<1>4. /\ UNCHANGED <<disk, filesRec, finRec, kind, opts, plan, op>>
      /\ finalized' = finalized \ {op.pkg}
  BY DEF RmPkg, run
<1>5. CASE op.act = "R"
  <2>1. pc' = "setfiles" /\ UNCHANGED <<todo, toFin>>
    BY <1>5 DEF RmPkg, Goto
  <2>2. OpFrame
    BY <1>3, <1>4, <2>1 DEF OpFrame
  <2> QED
    BY <1>4, <1>5, <2>1, <2>2 DEF GoesWell, Working, Adding, Progress
<1>6. CASE op.act = "D" /\ pc' # "idle"
  <2>1. pc' = "next" /\ UNCHANGED <<todo, toFin>>
    BY <1>6 DEF RmPkg, Goto, Abort
  <2>2. OpFrame
    BY <1>3, <1>4, <2>1 DEF OpFrame
  <2>3. Unrecorded(op.pkg)'
    BY <1>1, <1>3, <1>4, <1>6 DEF Progress, Unrecorded
  <2>4. \A f \in Removable(op.pkg) : opts.force \/ disk[f] \in {NoPkg} \cup Added(plan)
    BY <1>1, <1>6 DEF Progress
  <2>5. Removable(op.pkg)' = Removable(op.pkg) /\ Added(plan)' = Added(plan)
    BY <1>4 DEF Removable, Added
  <2>6. Done(op)'
    BY <1>4, <1>6, <2>3, <2>4, <2>5 DEF Done
  <2> QED
    BY <2>1, <2>2, <2>6 DEF GoesWell
<1>7. CASE op.act = "D" /\ pc' = "idle"
  BY <1>7 DEF RmPkg, Goto, Abort, GoesWell
<1> QED
  BY <1>1, <1>5, <1>6, <1>7

LEMMA UnpackApplied == ASSUME AppliedInv, Live, Unpack PROVE GoesWell
<1>1. /\ pc = "unpack" /\ Working /\ Adding /\ op.act \in {"N", "U", "R"} /\ Progress
      /\ UNCHANGED <<world, filesRec, finRec, finalized, kind, opts, plan, op>>
  BY DEF Unpack, Working, Adding, AppliedInv, LiveInv, Base, QueueInv, TypeInv,
     OpMatchesStep, db, run
<1>2. op.pkg \in Pkgs /\ FilesOf[op.pkg] \subseteq Files /\ op.pkg \in Added(plan)
  BY <1>1, AtWork
<1>3. CASE AfterUnpack(FALSE)
  BY <1>3 DEF AfterUnpack, GoesWell
<1>4. CASE disk' = Unpacked(op.pkg, FilesOf[op.pkg]) /\ AfterUnpack(TRUE)
  <2>1. /\ UNCHANGED todo
        /\ pc' = IF op.act = "R" THEN "next" ELSE "setfiles"
        /\ toFin' = IF op.act = "R" /\ ~opts.skipFin
                      THEN toFin \cup ({op.pkg} \cap Scripted) ELSE toFin
    BY <1>4 DEF AfterUnpack
  <2>2. \A f \in Files :
          disk'[f] = IF f \in FilesOf[op.pkg] /\ (f \notin Protected \/ disk[f] = NoPkg)
                       THEN op.pkg ELSE disk[f]
    BY <1>4 DEF Unpacked
  <2>3. OpFrame
    BY <1>1, <1>2, <2>1, <2>2 DEF OpFrame, Installed
  <2>4. OwnFiles(op.pkg)' = OwnFiles(op.pkg) /\ \A f \in OwnFiles(op.pkg) : disk'[f] = op.pkg
    BY <1>1, <1>2, <2>2 DEF OwnFiles
  <2>5. CASE op.act = "R"
    <3>1. opts.force => Recorded(op.pkg)'
      BY <1>1, <2>5 DEF Progress, Recorded, Installed
    <3>2. op.pkg \in Scripted /\ ~opts.skipFin => op.pkg \in toFin'
      BY <2>1, <2>5
    <3>3. Done(op)'
      BY <1>1, <2>4, <2>5, <3>1, <3>2 DEF Done
    <3> QED
      BY <2>1, <2>3, <2>5, <3>3 DEF GoesWell
  <2>6. CASE op.act \in {"N", "U"}
    <3>1. pc' = "setfiles" /\ Working'
      BY <2>1, <2>6 DEF Working, Adding
    <3>2. Progress'
      BY <1>1, <2>4, <2>6, <3>1 DEF Progress
    <3> QED
      BY <2>3, <3>1, <3>2 DEF GoesWell
  <2> QED
    BY <1>1, <2>5, <2>6
<1> QED
  BY <1>3, <1>4 DEF Unpack

LEMMA RegisterApplied == ASSUME AppliedInv, Live, SetFiles \/ SetFin PROVE GoesWell
<1>1. /\ pc \in {"setfiles", "setfin"} /\ Working /\ op.act \in {"N", "U", "R"} /\ Progress
      /\ UNCHANGED <<disk, world, finalized, kind, opts, plan, op>>
  BY DEF SetFiles, SetFin, Working, Adding, AppliedInv, LiveInv, Base, QueueInv, TypeInv,
     OpMatchesStep, run
<1>2. CASE RegisterError
  BY <1>2 DEF RegisterError, Abort, GoesWell
<1>3. CASE ~RegisterError
  <2>1. /\ UNCHANGED <<todo, toFin>>
        /\ pc = "setfiles" =>
             /\ pc' = "setfin"
             /\ filesRec' = filesRec \cup {op.pkg} /\ finRec' = finRec
        /\ pc = "setfin" =>
             /\ pc' = "create"
             /\ filesRec' = filesRec /\ finRec' = finRec \cup ({op.pkg} \cap Scripted)
    BY <1>3 DEF SetFiles, SetFin, Goto
  <2>2. OpFrame
    BY <1>1, <2>1 DEF OpFrame, Installed
  <2>3. /\ Working' /\ op.pkg \in filesRec'
        /\ pc' = "create" /\ op.pkg \in Scripted => op.pkg \in finRec'
    BY <1>1, <2>1 DEF Working, Adding, Progress
  <2>4. OwnFiles(op.pkg)' = OwnFiles(op.pkg)
    BY <1>1 DEF OwnFiles
  <2>5. Progress'
    BY <1>1, <2>1, <2>3, <2>4 DEF Progress
  <2> QED
    BY <1>1, <2>1, <2>2, <2>3, <2>5 DEF GoesWell
<1> QED
  BY <1>2, <1>3

LEMMA CreateApplied == ASSUME AppliedInv, Live, CreatePackage PROVE GoesWell
<1>1. /\ pc = "create" /\ Working /\ Adding /\ op.act \in {"N", "U", "R"} /\ Progress
      /\ UNCHANGED <<disk, filesRec, finRec, finalized, kind, opts, plan, op, todo, toFin>>
      /\ pc' = IF op.act = "R" THEN "unpack" ELSE "next"
  BY DEF CreatePackage, Goto, Working, Adding, AppliedInv, LiveInv, Base, QueueInv, TypeInv,
     OpMatchesStep, run
<1>2. /\ op.pkg \in Pkgs /\ op \in plan /\ op.pkg \in Added(plan)
      /\ Installed' = Installed \cup {op.pkg}
  BY <1>1, AtWork, CreateAdds DEF AppliedInv, Base
<1>3. OpFrame
  BY <1>1, <1>2 DEF OpFrame
<1>4. Recorded(op.pkg)'
  BY <1>1, <1>2 DEF Progress, Recorded
<1>5. OwnFiles(op.pkg)' = OwnFiles(op.pkg)
  BY <1>1 DEF OwnFiles
<1>6. CASE op.act = "R"
  <2>1. Progress'
    BY <1>1, <1>4, <1>6 DEF Progress
  <2> QED
    BY <1>1, <1>3, <1>6, <2>1 DEF GoesWell, Working, Adding
<1>7. CASE op.act \in {"N", "U"}
  <2>1. op.pkg \in Scripted /\ ~opts.skipFin => op.pkg \in toFin
    BY <1>1, <1>2, <1>7 DEF AppliedInv, LiveInv, Shape, Pending
  <2>2. Done(op)'
    BY <1>1, <1>4, <1>5, <1>7, <2>1 DEF Done, Progress
  <2> QED
    BY <1>1, <1>3, <1>7, <2>2 DEF GoesWell
<1> QED
  BY <1>1, <1>6, <1>7

LEMMA WorkApplied ==
  ASSUME AppliedInv, Live, Working, Step
  PROVE  (Live' => LiveInv') /\ SuccessMeansApplied'
<1>1. GoesWell
  <2>1. pc \notin {"idle", "next"}
    BY DEF Working, Removing, Adding
  <2> QED
    BY <2>1, RmFilesApplied, RmRecordsApplied, RmPkgApplied, UnpackApplied, RegisterApplied,
       CreateApplied DEF Step, NextOp, Begin, Finalize, Exit
<1>2. CASE (pc' = "idle" /\ exit' = "error") \/ (pc' # "idle" /\ fail')
  BY <1>2 DEF Live, SuccessMeansApplied
<1>3. CASE ~((pc' = "idle" /\ exit' = "error") \/ (pc' # "idle" /\ fail'))
  BY <1>1, <1>3, WorkGoesOn DEF GoesWell
<1> QED
  BY <1>2, <1>3

-----------------------------------------------------------------------------
(* Between operations, and at both ends of a command.                      *)

LEMMA BeginApplied ==
  ASSUME AppliedInv, Live, NextOp
  PROVE  LiveInv' /\ SuccessMeansApplied'
<1>1. PICK o \in todo : MayRunNext(o) /\ Begin(o)
  BY DEF NextOp
<1>2. /\ pc = "next" /\ op' = o /\ todo' = todo \ {o}
      /\ pc' = IF o.act \in {"D", "R"} THEN "rmfiles" ELSE "unpack"
      /\ UNCHANGED <<disk, world, filesRec, finRec, finalized, kind, opts, plan, toFin>>
  BY <1>1 DEF Begin, db, run
<1>3. LiveInv /\ ~Working /\ Working' /\ Pending = todo
  BY <1>2 DEF AppliedInv, Working, Removing, Adding, Pending
<1>4. Pending' = Pending /\ o \in plan /\ o \in Ops
  BY <1>2, <1>3 DEF Pending, LiveInv, Shape
<1>5. Added(plan)' = Added(plan)
  BY <1>2 DEF Added
<1>6. Shape'
  BY <1>2, <1>3, <1>4, <1>5 DEF LiveInv, Shape
<1>7. Ordered'
  <2>1. ASSUME o.act # "D", NEW x \in todo \ {o} PROVE Clear(x, o)
    <3>1. x.act = "D" => NameOf[x.pkg] # NameOf[o.pkg]
      BY <1>1, <2>1 DEF MayRunNext
    <3>2. x \in plan
      BY <1>3 DEF LiveInv, Shape
    <3> QED
      BY <1>3, <1>4, <2>1, <3>1, <3>2 DEF LiveInv, Shape, Clear
  <2> QED
    BY <1>2, <1>3, <1>4, <2>1 DEF LiveInv, Ordered
<1>8. \A x : Done(x)' = Done(x)
  BY <1>2, <1>5 DEF Done, Unrecorded, Recorded, Installed, OwnFiles, Removable
<1>9. PlanDone'
  BY <1>2, <1>3, <1>4, <1>8 DEF LiveInv, PlanDone
<1>10. Progress'
  BY <1>2 DEF Progress
<1> QED
  BY <1>2, <1>6, <1>7, <1>9, <1>10 DEF LiveInv, SuccessMeansApplied

LEMMA FinalizeApplied ==
  ASSUME AppliedInv, Live, Finalize
  PROVE  (Live' => LiveInv') /\ SuccessMeansApplied'
<1>1. /\ pc = "next" /\ todo = {} /\ pc' = "next" /\ todo' = {}
      /\ UNCHANGED <<disk, world, filesRec, finRec, kind, opts, plan, op>>
  BY DEF Finalize, db, run
<1>2. LiveInv /\ Pending = {} /\ Pending' = {} /\ ~Working /\ ~Working'
  BY <1>1 DEF AppliedInv, Pending, Working, Removing, Adding
<1>3. SuccessMeansApplied'
  BY <1>1 DEF SuccessMeansApplied
<1>4. Live' => finalized \cup toFin \subseteq finalized' \cup toFin'
  BY DEF Finalize, Live
<1>5. ASSUME Live', NEW o \in plan PROVE Done(o)'
  <2>1. Done(o)
    BY <1>2 DEF LiveInv, PlanDone
  <2>2. Unrecorded(o.pkg)' = Unrecorded(o.pkg) /\ Recorded(o.pkg)' = Recorded(o.pkg)
    BY <1>1 DEF Unrecorded, Recorded, Installed
  <2>3. /\ Added(plan)' = Added(plan)
        /\ OwnFiles(o.pkg)' = OwnFiles(o.pkg) /\ Removable(o.pkg)' = Removable(o.pkg)
    BY <1>1 DEF Added, OwnFiles, Removable
  <2> QED
    BY <1>1, <1>4, <1>5, <2>1, <2>2, <2>3 DEF Done
<1>6. Shape' /\ Ordered'
  BY <1>1, <1>2 DEF LiveInv, Shape, Ordered
<1> QED
  BY <1>1, <1>2, <1>3, <1>5, <1>6 DEF LiveInv, PlanDone

\* A command that ends without an error has nothing pending and no script
\* still to run.
LEMMA ExitApplied == ASSUME AppliedInv, Exit PROVE ~Live' /\ SuccessMeansApplied'
<1>1. /\ pc = "next" /\ todo = {} /\ toFin = {} /\ pc' = "idle"
      /\ exit' = IF fail THEN "error" ELSE "ok"
      /\ UNCHANGED <<disk, world, filesRec, finRec, finalized, opts, plan>>
  BY DEF Exit, db, run
<1>2. CASE fail
  BY <1>1, <1>2 DEF Live, SuccessMeansApplied
<1>3. CASE ~fail
  <2>1. Pending = {} /\ LiveInv
    BY <1>1, <1>3 DEF AppliedInv, Live, Pending, Working, Removing, Adding
  <2>2. ASSUME NEW o \in plan
        PROVE IF o.act = "D"
                THEN o.pkg \notin Added(plan) =>
                       /\ Unrecorded(o.pkg)
                       /\ \A f \in Removable(o.pkg) :
                            opts.force \/ disk[f] \in {NoPkg} \cup Added(plan)
                ELSE /\ (o.act = "R" /\ ~opts.force) \/ Recorded(o.pkg)
                     /\ \A f \in OwnFiles(o.pkg) : disk[f] = o.pkg
                     /\ o.pkg \in Scripted /\ ~opts.skipFin => o.pkg \in finalized
    BY <1>1, <2>1 DEF LiveInv, PlanDone, Done
  <2> QED
    BY <1>1, <2>2 DEF Live, SuccessMeansApplied, Added, Unrecorded, Recorded, Installed,
       OwnFiles, Removable
<1> QED
  BY <1>2, <1>3

LEMMA StartApplied ==
  ASSUME NEW k, NEW o, NEW ops, NEW fin, ops \subseteq Ops, Start(k, o, ops, fin),
         \A x \in ops : (x.act = "R") <=> (k = "reinstall"),
         \A x, y \in ops : x.act # "D" /\ y.act # "D" /\ x.pkg = y.pkg => x = y,
         k # "reinstall" => \A x \in ops : x.act # "D" => x.pkg \in fin
  PROVE  LiveInv' /\ SuccessMeansApplied'
<1>1. /\ plan' = ops /\ todo' = ops /\ kind' = k /\ opts' = o /\ pc' = "next"
      /\ toFin' = IF o.skipFin THEN {} ELSE fin \cap Scripted
  BY DEF Start
<1>2. ~Working' /\ Pending' = ops
  BY <1>1 DEF Working, Removing, Adding, Pending
<1>3. k # "reinstall" => Added(plan)' \subseteq fin
  BY <1>1 DEF Added
<1>4. Shape'
  BY <1>1, <1>2, <1>3 DEF Shape
<1> QED
  BY <1>1, <1>2, <1>4 DEF LiveInv, Ordered, PlanDone, SuccessMeansApplied

LEMMA CommandApplied ==
  ASSUME AppliedInv, NewCommand
  PROVE  LiveInv' /\ SuccessMeansApplied'
<1>1. PICK o \in Options, S \in SUBSET Pkgs :
        \/ Install(S, o)
        \/ \E new \in SUBSET S, old \in SUBSET Installed : Upgrade(new, S \ new, old, o)
        \/ Uninstall(S, o)
        \/ Reinstall(S, o)
  BY DEF NewCommand
<1>2. CASE Install(S, o)
  <2> DEFINE ops == [act : {"N"}, pkg : S]
  <2>1. Start("install", o, ops, S)
    BY <1>2 DEF Install
  <2>2. \A x \in ops : x.act = "N" /\ x.pkg \in S /\ x = [act |-> "N", pkg |-> x.pkg]
    OBVIOUS
  <2>3. ops \subseteq Ops
    BY DEF Ops, Acts
  <2>4. \A x, y \in ops : x.pkg = y.pkg => x = y
    BY <2>2
  <2> HIDE DEF ops
  <2> QED
    BY <2>1, <2>2, <2>3, <2>4, StartApplied
<1>3. CASE \E new \in SUBSET S, old \in SUBSET Installed : Upgrade(new, S \ new, old, o)
  <2>1. PICK new \in SUBSET S, old \in SUBSET Installed : Upgrade(new, S \ new, old, o)
    BY <1>3
  <2> DEFINE upd == S \ new
             ops == [act : {"N"}, pkg : new] \cup [act : {"U"}, pkg : upd]
                      \cup [act : {"D"}, pkg : old]
  <2>2. Start("upgrade", o, ops, new \cup upd)
    BY <2>1 DEF Upgrade
  <2>3. old \subseteq Pkgs
    BY DEF Installed
  <2>4. ops \subseteq Ops
    BY <2>3 DEF Ops, Acts
  <2>5. \A x \in ops :
          /\ x.act \in {"U", "N", "D"}
          /\ x.act # "D" => x.pkg \in new \cup upd
          /\ x.act # "D" => (x.act = "N" <=> x.pkg \in new)
          /\ x = [act |-> x.act, pkg |-> x.pkg]
    OBVIOUS
  <2>6. ASSUME NEW x \in ops, NEW y \in ops, x.act # "D", y.act # "D", x.pkg = y.pkg
        PROVE  x = y
    <3>1. x.act = y.act
      BY <2>5, <2>6
    <3> QED
      BY <2>5, <2>6, <3>1
  <2> HIDE DEF ops
  <2> QED
    BY <2>2, <2>4, <2>5, <2>6, StartApplied
<1>4. CASE Uninstall(S, o)
  <2> DEFINE ops == [act : {"D"}, pkg : S]
  <2>1. Start("uninstall", o, ops, {})
    BY <1>4 DEF Uninstall
  <2>2. ops \subseteq Ops /\ \A x \in ops : x.act = "D"
    BY DEF Ops, Acts
  <2> HIDE DEF ops
  <2> QED
    BY <2>1, <2>2, StartApplied
<1>5. CASE Reinstall(S, o)
  <2> DEFINE ops == [act : {"R"}, pkg : S]
  <2>1. Start("reinstall", o, ops, {})
    BY <1>5 DEF Reinstall
  <2>2. ops \subseteq Ops
    BY DEF Ops, Acts
  <2>3. \A x \in ops : x.act = "R" /\ x.pkg \in S /\ x = [act |-> "R", pkg |-> x.pkg]
    OBVIOUS
  <2>4. \A x, y \in ops : x.pkg = y.pkg => x = y
    BY <2>3
  <2> HIDE DEF ops
  <2> QED
    BY <2>1, <2>2, <2>3, <2>4, StartApplied
<1> QED
  BY <1>1, <1>2, <1>3, <1>4, <1>5

LEMMA AppliedNext == ASSUME AppliedInv, [Next]_vars PROVE AppliedInv'
<1>1. Base'
  BY BaseNext DEF AppliedInv
<1>2. CASE NewCommand
  BY <1>1, <1>2, CommandApplied DEF AppliedInv
<1>3. CASE Step
  <2>1. CASE Live /\ Working
    BY <1>1, <1>3, <2>1, WorkApplied DEF AppliedInv
  <2>2. CASE Live /\ ~Working
    <3>1. NextOp \/ Finalize \/ Exit
      BY <1>3, <2>2 DEF Step, RmFiles, RmFilesRec, UninstallScript, RmFinRec, RmPkg, Unpack,
         SetFiles, SetFin, CreatePackage, Working, Removing, Adding
    <3> QED
      BY <1>1, <2>2, <3>1, BeginApplied, FinalizeApplied, ExitApplied DEF AppliedInv
  <2>3. CASE ~Live
    <3>1. pc # "idle" /\ fail
      BY <1>3, <2>3 DEF Live, Step, NextOp, Begin, RmFiles, RmFilesRec, UninstallScript, RmFinRec,
         RmPkg, Unpack, SetFiles, SetFin, CreatePackage, Finalize, Exit
    <3>2. fail' /\ (pc' = "idle" => exit' = "error")
      BY <1>3, <3>1 DEF Step, NextOp, Begin, RmFiles, RmFilesRec, UninstallScript, RmFinRec,
         RmPkg, Unpack, AfterUnpack, SetFiles, SetFin, RegisterError, CreatePackage, Finalize,
         Exit, Goto, Abort
    <3> QED
      BY <1>1, <3>2 DEF AppliedInv, Live, SuccessMeansApplied
  <2> QED
    BY <2>1, <2>2, <2>3
<1>4. CASE Crash
  BY <1>1, <1>4 DEF Crash, AppliedInv, Live, SuccessMeansApplied
<1>5. CASE UNCHANGED vars
  BY <1>1, <1>5 DEF vars, AppliedInv, Live, LiveInv, Shape, Ordered, Clear, PlanDone, Progress, Done,
     Pending, Working, Removing, Adding, SuccessMeansApplied, Unrecorded, Recorded, Installed,
     OwnFiles, Removable, Added
<1> QED
  BY <1>2, <1>3, <1>4, <1>5 DEF Next

\* A command that reports success left no record and no file of what it
\* removed; what it added is recorded, on disk and finalized.
THEOREM SuccessAppliedCorrect == Spec => []SuccessMeansApplied
<1>1. Init => AppliedInv
  BY BaseInit DEF Init, AppliedInv, Live, SuccessMeansApplied
<1>2. AppliedInv /\ [Next]_vars => AppliedInv'
  BY AppliedNext
<1>3. AppliedInv => SuccessMeansApplied
  BY DEF AppliedInv
<1> QED
  BY <1>1, <1>2, <1>3, PTL DEF Spec

-----------------------------------------------------------------------------
(***************************************************************************)
(* uninstall --force.  It passes over each error of a removal, so that no  *)
(* path of the command aborts; ForcedInv says of each operation of the plan *)
(* that it is still in the list, at work, or has left no record.           *)
(***************************************************************************)

Forced == pc # "idle" /\ kind = "uninstall" /\ opts.force

\* What the steps of the current removal have deleted.
Deleted ==
  /\ pc \in {"uninstscript", "rmfinrec", "rmpkg"} => op.pkg \notin filesRec
  /\ pc = "rmpkg" => op.pkg \notin finRec

ForcedInv ==
  Forced =>
    /\ ~fail /\ toFin = {}
    /\ \A o \in plan : o.act = "D"
    /\ todo \subseteq plan
    /\ pc # "next" => Removing /\ op \in plan
    /\ \A o \in plan : o \in todo \/ (pc # "next" /\ o = op) \/ Unrecorded(o.pkg)
    /\ Deleted

UninstallInv == Base /\ ForcedInv /\ ForceUninstallCompletes

-----------------------------------------------------------------------------

\* The only command that starts as uninstall is Uninstall.
LEMMA UninstallStarts ==
  ASSUME NewCommand
  PROVE  /\ pc' = "next"
         /\ kind' = "uninstall" =>
              /\ \E S \in SUBSET Pkgs : plan' = [act : {"D"}, pkg : S]
              /\ todo' = plan' /\ toFin' = {} /\ fail' = FALSE
<1>1. PICK o \in Options, S \in SUBSET Pkgs :
        \/ Install(S, o)
        \/ \E new \in SUBSET S, old \in SUBSET Installed : Upgrade(new, S \ new, old, o)
        \/ Uninstall(S, o)
        \/ Reinstall(S, o)
  BY DEF NewCommand
<1>2. CASE Uninstall(S, o)
  <2>1. /\ plan' = [act : {"D"}, pkg : S] /\ todo' = plan' /\ pc' = "next" /\ fail' = FALSE
        /\ toFin' = IF o.skipFin THEN {} ELSE {} \cap Scripted
    BY <1>2 DEF Uninstall, Start
  <2> QED
    BY <2>1
<1>3. CASE ~Uninstall(S, o)
  BY <1>1, <1>3 DEF Install, Upgrade, Reinstall, Start
<1> QED
  BY <1>2, <1>3

LEMMA CommandForced ==
  ASSUME UninstallInv, NewCommand
  PROVE  ForcedInv' /\ ForceUninstallCompletes'
<1>1. pc' = "next" /\ ForceUninstallCompletes'
  BY UninstallStarts DEF ForceUninstallCompletes
<1>2. ASSUME Forced'
      PROVE  /\ ~fail' /\ toFin' = {} /\ todo' = plan'
             /\ \A o \in plan' : o.act = "D"
  BY <1>2, UninstallStarts DEF Forced
<1> QED
  BY <1>1, <1>2 DEF ForcedInv, Deleted

\* A step of a removal that goes on keeps what was done.
LEMMA RemovalForced ==
  ASSUME UninstallInv, Forced, Removing, Removing', Deleted',
         UNCHANGED <<kind, opts, plan, todo, op, toFin, fail, world>>,
         filesRec' \subseteq filesRec, finRec' \subseteq finRec
  PROVE  ForcedInv' /\ ForceUninstallCompletes'
<1>1. Installed' = Installed
  BY DEF Installed
<1>2. \A p : Unrecorded(p) => Unrecorded(p)'
  BY <1>1 DEF Unrecorded
<1>3. pc # "next" /\ pc' \notin {"next", "idle"}
  BY DEF Removing
<1> QED
  BY <1>2, <1>3 DEF UninstallInv, ForcedInv, Forced, ForceUninstallCompletes

LEMMA RmPkgForced ==
  ASSUME UninstallInv, Forced, RmPkg
  PROVE  ForcedInv' /\ ForceUninstallCompletes'
<1>1. /\ pc = "rmpkg" /\ op \in plan /\ op.act = "D" /\ op.pkg \in Pkgs
      /\ op.pkg \notin filesRec /\ op.pkg \notin finRec /\ opts.force
      /\ world \in [Pkgs -> Nat]
      /\ ~fail /\ toFin = {} /\ \A o \in plan : o.act = "D"
      /\ todo \subseteq plan
      /\ \A o \in plan : o \in todo \/ o = op \/ Unrecorded(o.pkg)
  BY DEF RmPkg, UninstallInv, Base, QueueInv, TypeInv, TypeOK, Ops, ForcedInv, Forced, Deleted
<1>2. /\ world' = [world EXCEPT ![op.pkg] = IF @ > 0 THEN @ - 1 ELSE 0]
      /\ pc' = "next" /\ UNCHANGED <<kind, opts, plan, todo, op, toFin, fail, filesRec, finRec>>
  BY <1>1 DEF RmPkg, run, Goto
<1>3. \A p \in Pkgs : world'[p] <= world[p]
  BY <1>1, <1>2
<1>4. Installed' \subseteq Installed
  BY <1>1, <1>2, <1>3 DEF Installed
<1>5. Overlap \/ op.pkg \notin Installed'
  <2>1. Overlap \/ world[op.pkg] <= 1
    BY <1>1 DEF UninstallInv, Base, PlanState, QueueInv, OneVersionPerName
  <2> QED
    BY <1>1, <1>2, <2>1 DEF Installed
<1>6. Unrecorded(op.pkg)' /\ \A p : Unrecorded(p) => Unrecorded(p)'
  BY <1>1, <1>2, <1>4, <1>5 DEF Unrecorded
<1> QED
  BY <1>1, <1>2, <1>6 DEF ForcedInv, Forced, Deleted, ForceUninstallCompletes

LEMMA StepForced ==
  ASSUME UninstallInv, Step
  PROVE  ForcedInv' /\ ForceUninstallCompletes'
<1>1. pc # "idle" /\ UNCHANGED run
  BY DEF Step, NextOp, Begin, RmFiles, RmFilesRec, UninstallScript, RmFinRec, RmPkg, Unpack,
     SetFiles, SetFin, CreatePackage, Finalize, Exit
<1>2. CASE ~Forced
  BY <1>1, <1>2 DEF run, Forced, ForcedInv, ForceUninstallCompletes
<1>3. CASE Forced
  <2>1. /\ ~fail /\ toFin = {} /\ opts.force
        /\ \A o \in plan : o.act = "D"
        /\ todo \subseteq plan
        /\ pc # "next" => Removing /\ op \in plan
        /\ \A o \in plan : o \in todo \/ (pc # "next" /\ o = op) \/ Unrecorded(o.pkg)
        /\ Deleted
    BY <1>3 DEF UninstallInv, ForcedInv, Forced
  <2>2. Removing => op.act = "D"
    BY <2>1 DEF Removing
  <2>3. CASE NextOp
    <3>1. PICK o \in todo : Begin(o)
      BY <2>3 DEF NextOp
    <3>2. /\ pc = "next" /\ op' = o /\ todo' = todo \ {o} /\ pc' = "rmfiles"
          /\ UNCHANGED <<kind, opts, plan, world, filesRec, finRec, toFin, fail>>
      BY <2>1, <3>1 DEF Begin, db, run
    <3>3. \A p : Unrecorded(p)' = Unrecorded(p)
      BY <3>2 DEF Unrecorded, Installed
    <3> QED
      BY <2>1, <3>2, <3>3 DEF ForcedInv, Forced, Removing, Deleted, ForceUninstallCompletes
  <2>4. CASE RmFiles \/ RmFilesRec \/ UninstallScript \/ RmFinRec
    <3>1. /\ Removing /\ Removing'
          /\ UNCHANGED <<kind, opts, plan, todo, op, toFin, fail, world>>
          /\ filesRec' \subseteq filesRec /\ finRec' \subseteq finRec
      BY <2>1, <2>2, <2>4
      DEF RmFiles, RmFilesRec, UninstallScript, RmFinRec, Goto, Removing, db, run
    <3>2. Deleted'
      BY <2>1, <2>2, <2>4
      DEF RmFiles, RmFilesRec, UninstallScript, RmFinRec, Goto, Removing, Deleted, db, run
    <3> QED
      BY <1>3, <3>1, <3>2, RemovalForced
  <2>5. CASE RmPkg
    BY <1>3, <2>5, RmPkgForced
  <2>6. CASE Unpack \/ SetFiles \/ SetFin \/ CreatePackage \/ Finalize
    BY <2>1, <2>6 DEF Unpack, SetFiles, SetFin, CreatePackage, Finalize, Removing
  <2>7. CASE Exit
    <3>1. /\ pc = "next" /\ todo = {} /\ pc' = "idle" /\ exit' = "ok"
          /\ UNCHANGED <<kind, opts, plan, world, filesRec, finRec>>
      BY <2>1, <2>7 DEF Exit, db, run
    <3>2. \A o \in plan : Unrecorded(o.pkg)'
      BY <2>1, <3>1 DEF Unrecorded, Installed
    <3> QED
      BY <3>1, <3>2 DEF ForcedInv, Forced, ForceUninstallCompletes
  <2> QED
    BY <2>3, <2>4, <2>5, <2>6, <2>7 DEF Step
<1> QED
  BY <1>2, <1>3

LEMMA UninstallNext == UninstallInv /\ [Next]_vars => UninstallInv'
<1> SUFFICES ASSUME UninstallInv, [Next]_vars PROVE UninstallInv'
  OBVIOUS
<1>1. Base'
  BY BaseNext DEF UninstallInv
<1>2. CASE Crash
  <2>1. pc' = "idle" /\ exit' = "killed"
    BY <1>2 DEF Crash
  <2> QED
    BY <1>1, <2>1 DEF UninstallInv, ForcedInv, Forced, ForceUninstallCompletes
<1>3. CASE UNCHANGED vars
  BY <1>1, <1>3 DEF UninstallInv, vars, ForcedInv, Forced, Removing, Deleted, Unrecorded, Installed,
     ForceUninstallCompletes
<1> QED
  BY <1>1, <1>2, <1>3, CommandForced, StepForced DEF Next, UninstallInv

\* ForceUninstallCompletes: a forced uninstall that is not killed succeeds and
\* leaves no record of its packages, whatever state commands and kills before
\* it left them in.
THEOREM ForceUninstallCorrect == Spec => []ForceUninstallCompletes
<1>1. Init => UninstallInv
  BY BaseInit DEF Init, UninstallInv, ForcedInv, Forced, ForceUninstallCompletes
<1>2. UninstallInv => ForceUninstallCompletes
  BY DEF UninstallInv
<1> QED
  BY UninstallNext, <1>1, <1>2, PTL DEF Spec

-----------------------------------------------------------------------------
(***************************************************************************)
(* Bystanders.  A package that is not in the plan of a command stays       *)
(* intact, whatever fails and wherever the command is killed.  The conflict *)
(* check looks at the disk once, before the first step.  Safeguard carries *)
(* its verdict to the step that unpacks: a path of a bystander that is     *)
(* listed by a package still to be unpacked is also listed by one still to *)
(* be cleared.  A removal cannot hurt a bystander that shares no path.     *)
(***************************************************************************)

InPlan ==
  /\ todo \subseteq plan
  /\ Removing \/ Adding => op \in plan

\* The package that is unpacked over itself is installed.
ReinstallsInstalled == pc = "unpack" /\ op.act = "R" => op.pkg \in Installed

\* Additions not yet on disk, and removals whose files are still there.
ToUnpack == {o \in todo \cup (IF pc = "unpack" THEN {op} ELSE {}) : o.act \in {"N", "U"}}
ToClear == {o \in todo \cup (IF pc = "rmfiles" THEN {op} ELSE {}) : o.act = "D"}

Bystander(p) == Recorded(p) /\ \A o \in plan : o.pkg # p

Safeguard ==
  pc # "idle" /\ ~opts.force /\ opts.check =>
    \A p \in Pkgs : Bystander(p) =>
      \A f \in FilesOf[p] \ Protected : disk[f] = p =>
        \A a \in ToUnpack : f \in FilesOf[a.pkg] => \E r \in ToClear : f \in FilesOf[r.pkg]

BystanderInv == QueueInv /\ InPlan /\ ReinstallsInstalled /\ Safeguard

-----------------------------------------------------------------------------
(* What a step of a command can change.                                    *)

Effect ==
  /\ UNCHANGED <<opts, plan>>
  /\ \A q \in Pkgs : (Working => q # op.pkg) => (Recorded(q)' <=> Recorded(q))
  /\ \A f \in Files :
       \/ disk'[f] = disk[f]
       \/ pc \in {"rmfiles", "unpack"} /\ f \in FilesOf[op.pkg] /\ disk'[f] \in {NoPkg, op.pkg}
  /\ pc' # "idle" => ToUnpack' \subseteq ToUnpack
  /\ pc' # "idle" /\ ~opts.force =>
       \A r \in ToClear : r \in ToClear' \/ \A f \in Removable(r.pkg) : disk'[f] = NoPkg

LEMMA OpInPkgs ==
  ASSUME QueueInv, Working
  PROVE  op \in Ops /\ op.pkg \in Pkgs /\ FilesOf[op.pkg] \subseteq Files
<1>1. op \in Ops /\ op.pkg \in Pkgs
  BY DEF QueueInv, TypeInv, OpMatchesStep, Working, Ops
<1> QED
  BY <1>1, InstallerAssumption DEF InstallerAssumption

\* Steps between operations touch no file and no record.
LEMMA BetweenEffect == ASSUME NextOp \/ Finalize \/ Exit PROVE Effect
<1>1. /\ UNCHANGED <<disk, world, filesRec, finRec, opts, plan>> /\ pc = "next"
      /\ pc' # "idle" =>
           \/ \E o \in todo :
                /\ op' = o /\ todo' = todo \ {o}
                /\ pc' = IF o.act \in {"D", "R"} THEN "rmfiles" ELSE "unpack"
           \/ UNCHANGED todo /\ pc' = "next"
  BY DEF NextOp, Begin, Finalize, Exit, db, run
<1>2. \A q : Recorded(q)' <=> Recorded(q)
  BY <1>1 DEF Recorded, Installed
<1>3. pc' # "idle" => ToUnpack' \subseteq ToUnpack /\ ToClear \subseteq ToClear'
  BY <1>1 DEF ToUnpack, ToClear
<1> QED
  BY <1>1, <1>2, <1>3 DEF Effect

\* Steps on the records touch those of the current package.
LEMMA RecordEffect ==
  ASSUME QueueInv,
         \/ RmFilesRec \/ UninstallScript \/ RmFinRec \/ RmPkg
         \/ SetFiles \/ SetFin \/ CreatePackage
  PROVE  Effect
<1>1. Working /\ pc \notin {"rmfiles", "unpack", "next", "idle"}
  BY DEF RmFilesRec, UninstallScript, RmFinRec, RmPkg, SetFiles, SetFin, CreatePackage,
     Working, Removing, Adding
<1>2. /\ UNCHANGED <<disk, opts, plan, op>>
      /\ pc' # "idle" => UNCHANGED todo
      /\ pc' # "rmfiles" /\ (pc' = "unpack" => op.act = "R")
  BY DEF RmFilesRec, UninstallScript, RmFinRec, RmPkg, SetFiles, SetFin, CreatePackage,
     Goto, Abort, RegisterError, db, run
<1>3. op.pkg \in Pkgs
  BY <1>1, OpInPkgs
<1>4. \A q \in Pkgs \ {op.pkg} :
        /\ q \in filesRec' <=> q \in filesRec
        /\ q \in finRec' <=> q \in finRec
  BY DEF RmFilesRec, UninstallScript, RmFinRec, RmPkg, SetFiles, SetFin, CreatePackage,
     RegisterError, db
<1>5. \A q \in Pkgs \ {op.pkg} : q \in Installed' <=> q \in Installed
  <2>1. CASE RmPkg
    BY <2>1, RmPkgTakes
  <2>2. CASE CreatePackage
    BY <2>2, CreateAdds
  <2>3. CASE ~RmPkg /\ ~CreatePackage
    BY <2>3, SameWorld DEF RmFilesRec, UninstallScript, RmFinRec, SetFiles, SetFin, db
  <2> QED
    BY <2>1, <2>2, <2>3
<1>6. \A q \in Pkgs : (Working => q # op.pkg) => (Recorded(q)' <=> Recorded(q))
  BY <1>1, <1>4, <1>5 DEF Recorded
<1>7. pc' # "idle" => ToUnpack' \subseteq ToUnpack /\ ToClear \subseteq ToClear'
  BY <1>1, <1>2 DEF ToUnpack, ToClear
<1> QED
  BY <1>2, <1>6, <1>7 DEF Effect

\* Steps on the files touch paths of the current package.
LEMMA FileEffect == ASSUME QueueInv, RmFiles \/ Unpack \/ Crash PROVE Effect
<1>1. UNCHANGED <<world, filesRec, finRec, opts, plan, op>>
  BY DEF RmFiles, Unpack, Crash, db, run
<1>2. \A q : Recorded(q)' <=> Recorded(q)
  BY <1>1 DEF Recorded, Installed
<1>3. CASE RmFiles
  <2>1. pc = "rmfiles" /\ Working
    BY <1>3 DEF RmFiles, Working, Removing
  <2>2. FilesOf[op.pkg] \subseteq Files
    BY <2>1, OpInPkgs
  <2>3. CASE op.pkg \in filesRec \/ op.act = "R"
    <3>1. /\ disk' = [f \in Files |-> IF f \in Removable(op.pkg) THEN NoPkg ELSE disk[f]]
          /\ pc' \in {"rmfilesrec", "unpack"} /\ (pc' = "unpack" => op.act = "R")
          /\ UNCHANGED todo
      BY <1>3, <2>3 DEF RmFiles, Goto
    <3>2. \A f \in Removable(op.pkg) : disk'[f] = NoPkg
      BY <2>2, <3>1 DEF Removable
    <3>3. ToUnpack' \subseteq ToUnpack /\ \A r \in ToClear : r \in ToClear' \/ r = op
      BY <1>1, <2>1, <3>1 DEF ToUnpack, ToClear
    <3>4. \A f \in Files :
            disk'[f] = disk[f] \/ (f \in FilesOf[op.pkg] /\ disk'[f] \in {NoPkg, op.pkg})
      BY <3>1 DEF Removable
    <3> QED
      BY <1>1, <1>2, <2>1, <3>2, <3>3, <3>4 DEF Effect
  <2>4. CASE ~(op.pkg \in filesRec \/ op.act = "R")
    <3>1. /\ UNCHANGED disk
          /\ pc' = "idle" \/ (opts.force /\ pc' = "rmfilesrec" /\ UNCHANGED todo)
      BY <1>3, <2>4 DEF RmFiles, Goto, Abort
    <3>2. pc' # "idle" => ToUnpack' \subseteq ToUnpack
      BY <1>1, <2>1, <3>1 DEF ToUnpack
    <3> QED
      BY <1>1, <1>2, <3>1, <3>2 DEF Effect
  <2> QED
    BY <2>3, <2>4
<1>4. CASE Unpack
  <2>1. pc = "unpack" /\ pc' \in {"next", "setfiles"} /\ UNCHANGED todo
    BY <1>4 DEF Unpack, AfterUnpack
  <2>2. PICK S \in SUBSET FilesOf[op.pkg] : disk' = Unpacked(op.pkg, S)
    BY <1>4 DEF Unpack
  <2>3. \A f \in Files :
          disk'[f] = disk[f] \/ (f \in FilesOf[op.pkg] /\ disk'[f] \in {NoPkg, op.pkg})
    BY <2>2 DEF Unpacked
  <2>4. ToUnpack' \subseteq ToUnpack /\ ToClear' = ToClear
    BY <2>1 DEF ToUnpack, ToClear
  <2> QED
    BY <1>1, <1>2, <2>1, <2>3, <2>4 DEF Effect
<1>5. CASE Crash
  <2>1. pc' = "idle"
    BY <1>5 DEF Crash
  <2>2. CASE pc = "unpack"
    <3>1. PICK S \in SUBSET FilesOf[op.pkg] : disk' = Unpacked(op.pkg, S)
      BY <1>5, <2>2 DEF Crash
    <3>2. \A f \in Files :
            disk'[f] = disk[f] \/ (f \in FilesOf[op.pkg] /\ disk'[f] \in {NoPkg, op.pkg})
      BY <3>1 DEF Unpacked
    <3> QED
      BY <1>1, <1>2, <2>1, <2>2, <3>2 DEF Effect
  <2>3. CASE pc = "rmfiles" /\ (op.pkg \in filesRec \/ op.act = "R")
    <3>1. PICK S \in SUBSET Removable(op.pkg) :
            disk' = [f \in Files |-> IF f \in S THEN NoPkg ELSE disk[f]]
      BY <1>5, <2>3 DEF Crash
    <3>2. \A f \in Files :
            disk'[f] = disk[f] \/ (f \in FilesOf[op.pkg] /\ disk'[f] \in {NoPkg, op.pkg})
      BY <3>1 DEF Removable
    <3> QED
      BY <1>1, <1>2, <2>1, <2>3, <3>2 DEF Effect
  <2>4. CASE pc # "unpack" /\ ~(pc = "rmfiles" /\ (op.pkg \in filesRec \/ op.act = "R"))
    <3>1. UNCHANGED disk
      BY <1>5, <2>4 DEF Crash
    <3> QED
      BY <1>1, <1>2, <2>1, <3>1 DEF Effect
  <2> QED
    BY <2>2, <2>3, <2>4
<1> QED
  BY <1>3, <1>4, <1>5

LEMMA StepEffect == ASSUME QueueInv, Step \/ Crash PROVE Effect
BY BetweenEffect, RecordEffect, FileEffect DEF Step

-----------------------------------------------------------------------------
(* The invariant.                                                          *)

LEMMA InPlanNext == ASSUME QueueInv, InPlan, [Next]_vars PROVE InPlan'
<1> USE DEF InPlan, Removing, Adding, db, run
<1>1. CASE NewCommand
  <2>1. PICK k, o, ops, fin : Start(k, o, ops, fin)
    BY <1>1, SomeStart
  <2> QED
    BY <2>1 DEF Start
<1>2. CASE NextOp
  BY <1>2 DEF NextOp, Begin
<1>3. CASE RmFiles \/ RmFilesRec \/ UninstallScript \/ RmFinRec \/ RmPkg
  BY <1>3 DEF RmFiles, RmFilesRec, UninstallScript, RmFinRec, RmPkg, Goto, Abort
<1>4. CASE Unpack \/ SetFiles \/ SetFin \/ CreatePackage
  BY <1>4 DEF Unpack, AfterUnpack, SetFiles, SetFin, CreatePackage, RegisterError, Goto, Abort
<1>5. CASE Finalize \/ Exit
  BY <1>5 DEF Finalize, Exit
<1>6. CASE Crash
  BY <1>6 DEF Crash
<1>7. CASE UNCHANGED vars
  BY <1>7 DEF vars
<1> QED
  BY <1>1, <1>2, <1>3, <1>4, <1>5, <1>6, <1>7 DEF Next, Step

LEMMA ReinstallsNext ==
  ASSUME QueueInv, ReinstallsInstalled, [Next]_vars PROVE ReinstallsInstalled'
<1> USE DEF ReinstallsInstalled
<1>1. CASE RmFiles
  <2>1. op.pkg \in Installed
    BY <1>1 DEF RmFiles, QueueInv, RemovalsInstalled, Removing
  <2> QED
    BY <1>1, <2>1, SameWorld DEF RmFiles, db
<1>2. CASE CreatePackage
  BY <1>2, CreateAdds DEF CreatePackage
<1>3. CASE NewCommand
  BY <1>3, CommandStarts
<1>4. CASE UNCHANGED vars
  BY <1>4, SameWorld DEF vars
<1>5. CASE NextOp \/ RmFilesRec \/ UninstallScript \/ RmFinRec \/ RmPkg
  BY <1>5 DEF NextOp, Begin, RmFilesRec, UninstallScript, RmFinRec, RmPkg, Goto, Abort
<1>6. CASE Unpack \/ SetFiles \/ SetFin \/ Finalize \/ Exit \/ Crash
  BY <1>6 DEF Unpack, AfterUnpack, SetFiles, SetFin, RegisterError, Finalize, Exit, Crash,
     Goto, Abort
<1> QED
  BY <1>1, <1>2, <1>3, <1>4, <1>5, <1>6 DEF Next, Step

\* The conflict check gives Safeguard for the packages to add and to remove.
LEMMA StartSafe ==
  ASSUME NEW k, NEW o, NEW ops, NEW fin, Start(k, o, ops, fin), ops \subseteq Ops,
         NEW new, NEW old,
         \A x \in ops : x.act \in {"N", "U"} => x.pkg \in new,
         \A r \in old : [act |-> "D", pkg |-> r] \in ops,
         o.force \/ ~FileConflict(new, old, o.check)
  PROVE  Safeguard'
<1>1. /\ plan' = ops /\ todo' = ops /\ opts' = o /\ pc' = "next"
      /\ UNCHANGED <<disk, world, filesRec, finRec>>
  BY DEF Start
<1>2. \A p : Recorded(p)' => p \in Installed \cap filesRec
  BY <1>1 DEF Recorded, Installed
<1>3. ToUnpack' = {x \in ops : x.act \in {"N", "U"}} /\ ToClear' = {x \in ops : x.act = "D"}
  BY <1>1 DEF ToUnpack, ToClear
<1>4. ASSUME ~o.force, o.check, NEW p \in Pkgs, Recorded(p)', NEW f \in FilesOf[p],
             disk[f] = p, NEW a \in ToUnpack', f \in FilesOf[a.pkg]
      PROVE  \E r \in ToClear' : f \in FilesOf[r.pkg]
  <2>1. a.pkg \in new /\ disk[f] # NoPkg /\ p \in Installed \cap filesRec
    BY <1>2, <1>3, <1>4, InstallerAssumption DEF InstallerAssumption
  <2>2. PICK r \in old \cap filesRec : f \in FilesOf[r]
    BY <1>4, <2>1 DEF FileConflict
  <2> DEFINE d == [act |-> "D", pkg |-> r]
  <2>3. d \in ToClear' /\ d.pkg = r
    BY <1>3, <2>2
  <2> HIDE DEF d
  <2> QED
    BY <2>2, <2>3
<1> QED
  BY <1>1, <1>4 DEF Safeguard, Bystander

LEMMA CommandSafe == ASSUME NewCommand PROVE Safeguard'
<1>1. PICK o \in Options, S \in SUBSET Pkgs :
        \/ Install(S, o)
        \/ \E new \in SUBSET S, old \in SUBSET Installed : Upgrade(new, S \ new, old, o)
        \/ Uninstall(S, o)
        \/ Reinstall(S, o)
  BY DEF NewCommand
<1>2. CASE Install(S, o)
  <2> DEFINE ops == [act : {"N"}, pkg : S]
  <2>1. Start("install", o, ops, S) /\ (o.force \/ ~FileConflict(S, {}, o.check))
    BY <1>2 DEF Install
  <2>2. ops \subseteq Ops /\ \A x \in ops : x.pkg \in S
    BY DEF Ops, Acts
  <2> HIDE DEF ops
  <2> QED
    BY <2>1, <2>2, StartSafe
<1>3. CASE \E new \in SUBSET S, old \in SUBSET Installed : Upgrade(new, S \ new, old, o)
  <2>1. PICK new \in SUBSET S, old \in SUBSET Installed : Upgrade(new, S \ new, old, o)
    BY <1>3
  <2> DEFINE upd == S \ new
             ops == [act : {"N"}, pkg : new] \cup [act : {"U"}, pkg : upd]
                      \cup [act : {"D"}, pkg : old]
             all == new \cup upd
  <2>2. Start("upgrade", o, ops, all) /\ (o.force \/ ~FileConflict(all, old, o.check))
    BY <2>1 DEF Upgrade
  <2>3. old \subseteq Pkgs
    BY DEF Installed
  <2>4. ops \subseteq Ops
    BY <2>3 DEF Ops, Acts
  <2>5. /\ \A x \in ops : x.act \in {"N", "U"} => x.pkg \in all
        /\ \A r \in old : [act |-> "D", pkg |-> r] \in ops
    OBVIOUS
  <2> HIDE DEF ops, all
  <2> QED
    BY <2>2, <2>4, <2>5, StartSafe
<1>4. CASE Uninstall(S, o) \/ Reinstall(S, o)
  <2>1. PICK k, ops, fin : Start(k, o, ops, fin) /\ \A x \in ops : x.act \in {"D", "R"}
    <3> DEFINE removals == [act : {"D"}, pkg : S]
               reinstalls == [act : {"R"}, pkg : S]
    <3>1. \/ Start("uninstall", o, removals, {})
          \/ Start("reinstall", o, reinstalls, {})
      BY <1>4 DEF Uninstall, Reinstall
    <3>2. \A x \in removals \cup reinstalls : x.act \in {"D", "R"}
      OBVIOUS
    <3> HIDE DEF removals, reinstalls
    <3> QED
      BY <3>1, <3>2, Zenon
  <2>2. ToUnpack' = {}
    BY <2>1 DEF Start, ToUnpack
  <2> QED
    BY <2>2 DEF Safeguard
<1> QED
  BY <1>1, <1>2, <1>3, <1>4

LEMMA StepSafe ==
  ASSUME QueueInv, InPlan, Safeguard, Step \/ Crash
  PROVE  Safeguard'
<1>1. Effect
  BY StepEffect
<1>2. pc # "idle"
  BY DEF Step, NextOp, Begin, RmFiles, RmFilesRec, UninstallScript, RmFinRec, RmPkg, Unpack,
     SetFiles, SetFin, CreatePackage, Finalize, Exit, Crash
<1>3. SUFFICES ASSUME pc' # "idle", ~opts.force, opts.check,
                      NEW p \in Pkgs, Bystander(p)', NEW f \in FilesOf[p] \ Protected,
                      disk'[f] = p, NEW a \in ToUnpack', f \in FilesOf[a.pkg]
               PROVE  \E r \in ToClear' : f \in FilesOf[r.pkg]
  BY <1>1 DEF Effect, Safeguard
<1>4. (Working => p # op.pkg) /\ Bystander(p) /\ p # NoPkg /\ f \in Files
  <2>1. \A o \in plan : o.pkg # p
    BY <1>1, <1>3 DEF Effect, Bystander
  <2>2. Working => p # op.pkg
    BY <2>1 DEF InPlan, Working
  <2> QED
    BY <1>1, <1>3, <2>1, <2>2, InstallerAssumption DEF InstallerAssumption, Effect, Bystander
<1>5. disk[f] = p
  BY <1>1, <1>3, <1>4 DEF Effect, Working, Removing, Adding
<1>6. a \in ToUnpack
  BY <1>1, <1>3 DEF Effect
<1>7. PICK r \in ToClear : f \in FilesOf[r.pkg]
  BY <1>2, <1>3, <1>4, <1>5, <1>6 DEF Safeguard
<1>8. r \in ToClear'
  BY <1>1, <1>3, <1>4, <1>7 DEF Effect, Removable
<1> QED
  BY <1>7, <1>8

LEMMA BystanderNext == ASSUME BystanderInv, [Next]_vars PROVE BystanderInv'
<1>1. QueueInv' /\ InPlan' /\ ReinstallsInstalled'
  BY QueueNext, InPlanNext, ReinstallsNext DEF BystanderInv
<1>2. CASE UNCHANGED vars
  BY <1>1, <1>2 DEF vars, BystanderInv, Safeguard, Bystander, Recorded,
     Installed, ToUnpack, ToClear
<1>3. CASE ~UNCHANGED vars
  BY <1>1, <1>3, CommandSafe, StepSafe DEF BystanderInv, Next
<1> QED
  BY <1>2, <1>3

-----------------------------------------------------------------------------
\* No step of a command, failing or killed, damages an intact package that is
\* the only owner of its paths and not in the plan.
THEOREM BystanderIntactCorrect == Spec => BystanderIntact
<1> DEFINE Kept ==
      \A p \in Pkgs :
        /\ Intact(p) /\ SoleOwner(p)
        /\ \A o \in plan' : o.pkg # p
        /\ ~opts'.force /\ opts'.check
        => Intact(p)'
<1>1. Init => BystanderInv
  <2>1. Init => QueueInv
    BY QueueInit
  <2> QED
    BY <2>1 DEF Init, BystanderInv, InPlan, ReinstallsInstalled, Safeguard, Removing, Adding
<1>2. ASSUME BystanderInv, Step \/ Crash PROVE Kept
  <2>1. Effect /\ pc # "idle"
    BY <1>2, StepEffect DEF BystanderInv, Step, NextOp, Begin, RmFiles, RmFilesRec,
       UninstallScript, RmFinRec, RmPkg, Unpack, SetFiles, SetFin, CreatePackage, Finalize,
       Exit, Crash
  <2>2. SUFFICES ASSUME NEW p \in Pkgs, Intact(p), SoleOwner(p), \A o \in plan : o.pkg # p,
                        ~opts.force, opts.check
                 PROVE  Intact(p)'
    BY <2>1 DEF Effect
  <2>3. Working => p # op.pkg
    BY <1>2, <2>2 DEF BystanderInv, InPlan, Working
  <2>4. Recorded(p)'
    BY <2>1, <2>2, <2>3 DEF Effect, Intact
  <2>5. ASSUME NEW f \in FilesOf[p] \ Protected, disk'[f] # p PROVE FALSE
    <3>1. f \in Files /\ disk[f] = p
      BY <2>2, <2>5, InstallerAssumption DEF InstallerAssumption, Intact
    <3>2. pc \in {"rmfiles", "unpack"} /\ f \in FilesOf[op.pkg] /\ Working
      BY <2>1, <2>5, <3>1 DEF Effect, Working, Removing, Adding
    <3>3. op.pkg \notin Installed
      BY <2>2, <2>3, <2>5, <3>2 DEF SoleOwner
    <3>4. pc = "unpack" /\ op.act \in {"N", "U"}
      BY <1>2, <3>2, <3>3 DEF BystanderInv, QueueInv, TypeInv, RemovalsInstalled,
         ReinstallsInstalled, OpMatchesStep, Removing, Adding
    <3>5. op \in ToUnpack /\ Bystander(p)
      BY <2>2, <3>4 DEF ToUnpack, Bystander, Intact
    <3>6. PICK r \in ToClear : f \in FilesOf[r.pkg]
      BY <1>2, <2>1, <2>2, <3>1, <3>2, <3>5 DEF BystanderInv, Safeguard
    <3>7. r \in todo /\ r \in plan /\ r.act = "D"
      BY <1>2, <3>4, <3>6 DEF BystanderInv, InPlan, ToClear
    <3>8. r.pkg \in Installed /\ r.pkg # p
      BY <1>2, <2>2, <3>7 DEF BystanderInv, QueueInv, RemovalsInstalled
    <3> QED
      BY <2>2, <2>5, <3>6, <3>8 DEF SoleOwner
  <2> QED
    BY <2>4, <2>5 DEF Intact
<1>3. ASSUME NewCommand PROVE Kept
  <2>1. PICK k, o, ops, fin : Start(k, o, ops, fin)
    BY <1>3, SomeStart
  <2>2. UNCHANGED <<disk, world, filesRec, finRec>>
    BY <2>1 DEF Start
  <2> QED
    BY <2>2 DEF Intact, Recorded, Installed
<1>4. BystanderInv /\ [Next]_vars => [Kept]_vars
  BY <1>2, <1>3 DEF Next
<1> QED
  BY <1>1, <1>4, BystanderNext, PTL DEF Spec, BystanderIntact

================================================================================
