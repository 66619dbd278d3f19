----------------------------- MODULE MCInstaller -----------------------------
(* Small instances of Installer: versions a1 and a2 of package a and a      *)
(* package b.  Path f is listed by a1 and by b1 (a conflict when both are   *)
(* installed, a moved file when an upgrade replaces a1 by a2 and b1), and   *)
(* p is a protected path of both versions of a.                             *)
EXTENDS Installer

MCPkgs == {"a1", "a2", "b1"}
MCNames == {"a", "b"}
MCNameOf == [a1 |-> "a", a2 |-> "a", b1 |-> "b"]
MCFiles == {"f", "g", "p"}
MCFilesOf == [a1 |-> {"f", "p"}, a2 |-> {"g", "p"}, b1 |-> {"f"}]
MCProtected == {"p"}
MCScripted == {"a2", "b1"}

Cmd(force, skipFin, check) ==
  [force |-> force, skipFin |-> skipFin, check |-> check]

\* Default options, --force, and the two skip flags together.
MixedOptions == {Cmd(FALSE, FALSE, TRUE), Cmd(TRUE, FALSE, TRUE), Cmd(FALSE, TRUE, FALSE)}
ForceOptions == {Cmd(force, FALSE, TRUE) : force \in BOOLEAN}
PlainOptions == {Cmd(FALSE, FALSE, TRUE)}
==============================================================================
