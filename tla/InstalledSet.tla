----------------------------- MODULE InstalledSet -----------------------------
(***************************************************************************)
(* What the system database promises to the rest of anise: the set of      *)
(* installed package versions, changed one package at a time, that never   *)
(* holds two versions of one package name.  The solver, the searcher and   *)
(* the upgrade all index World() by name and rely on it                    *)
(* (pkg/v2/solver/solver.go, systemMap.Packages[name][0]).                 *)
(***************************************************************************)
CONSTANTS Pkgs,     \* package versions (name and version: a fingerprint)
          NameOf    \* the name of each package version

VARIABLE installed

\* Registration of p: allowed when no version of its name is installed.
Register(p) ==
  /\ \A q \in installed : NameOf[q] # NameOf[p]
  /\ installed' = installed \cup {p}

\* Removal of an installed version.
Unregister(p) ==
  /\ p \in installed
  /\ installed' = installed \ {p}

Init == installed = {}

Next == \E p \in Pkgs : Register(p) \/ Unregister(p)

Spec == Init /\ [][Next]_installed

-----------------------------------------------------------------------------
\* No two versions of one name are installed together: the promise that
\* World(), indexed by package name, can be read as a function.
OneVersion == \A p, q \in installed : NameOf[p] = NameOf[q] => p = q
=============================================================================
