-------------------------------- MODULE OpsOrder --------------------------------
(***************************************************************************)
(* The order of the operations of a command (pkg/v2/solver/solver.go:      *)
(* OrderOperations).  The packages to add are sorted so that requires come *)
(* first (RequiresSort).  The removals are then merged in.                 *)
(***************************************************************************)
EXTENDS RequiresSort

CONSTANTS
  Graphs,  \* requires explored: subset of [Names -> Seq(Names)]
  Plans    \* plans explored: what to do with each name

\* No operation, install, update (with the removal of the old version), removal.
Todos == {"none", "N", "U", "D"}

ASSUME OpsOrderAssumption ==
  /\ Graphs \subseteq [Names -> Seq(Names)] /\ Graphs # {}
  /\ Plans \subseteq [Names -> Todos] /\ Plans # {}

VARIABLES
  plan,      \* the packages to install, update and remove
  requires,  \* the requires of the packages
  ops        \* the operations in their final order; pc adds merge and done

input == <<plan, requires>>
vars  == <<plan, requires, ops, sortVars>>

Adds   == {n \in Names : plan[n] \in {"N", "U"}}
Gone   == {n \in Names : plan[n] = "D"}
Removed == {n \in Names : plan[n] \in {"U", "D"}}

Del(n) == [act |-> "D", name |-> n]
Add(n) == [act |-> plan[n], name |-> n]

\* Waits for the requires that are installed already.
BugThinRequires == requires

\* createThinPkgsPlist: a require outside the plan is installed already.
ThinRequires ==
  [p \in Names |-> Without(requires[p], Names \ Adds)]

-----------------------------------------------------------------------------
(* OrderOperations: the removals are merged in.                            *)

\* The removals of names that are not added again, in the solver's order.
Pure ==
  /\ pc = "sorted"
  /\ \E s \in SetToSeqs(Gone) : ops' = [i \in DOMAIN s |-> Del(s[i])]
  /\ elems' = ans
  /\ pc' = "merge"
  /\ UNCHANGED <<input, reqs, queue, ans, left, loop, dfs>>

\* Puts the removal where the conflict is, over the operation found there.
BugInsertRemoval(n, at) ==
  SubSeq(ops, 1, at - 1) \o <<Del(n)>> \o SubSeq(ops, at + 1, Len(ops)) \o <<Add(n)>>

\* Adds the new version before the conflict and removes the old one after it.
BugSwapRemoval(n, at) ==
  SubSeq(ops, 1, at - 1) \o <<Add(n)>> \o SubSeq(ops, at, Len(ops)) \o <<Del(n)>>

\* The removal goes before the operation at position at, or to the end.
InsertRemoval(n, at) ==
  SubSeq(ops, 1, at - 1) \o <<Del(n)>> \o SubSeq(ops, at, Len(ops)) \o <<Add(n)>>

\* Operations whose package may refuse the new version (Admit, any answer);
\* the scan skips the first one after the pure removals (idx > rmOps).
Refusers == Cardinality(Gone) + 2 .. Len(ops)

Merge ==
  /\ pc = "merge" /\ elems # <<>>
  /\ LET n == Head(elems)
     IN IF plan[n] = "U"
          THEN \E at \in Refusers \cup {Len(ops) + 1} : ops' = InsertRemoval(n, at)
          ELSE ops' = Append(ops, Add(n))
  /\ elems' = Tail(elems)
  /\ UNCHANGED <<input, reqs, queue, ans, left, loop, dfs, pc>>

EndMerge ==
  /\ pc = "merge" /\ elems = <<>>
  /\ pc' = "done"
  /\ UNCHANGED <<input, reqs, elems, queue, ans, left, loop, dfs, ops>>

-----------------------------------------------------------------------------
Init ==
  /\ plan \in Plans /\ requires \in Graphs
  /\ reqs = ThinRequires
  /\ elems \in SortedByRequires(Adds, reqs)
  /\ queue = {} /\ ans = <<>> /\ left = {}
  /\ lastSize = 0 /\ counter = 0 /\ detected = FALSE
  /\ agenda = <<>> /\ stack = {} /\ ops = <<>>
  /\ pc = "first"

Sort == SortStep /\ UNCHANGED <<plan, requires, ops>>

Next == Sort \/ Pure \/ Merge \/ EndMerge

Spec == Init /\ [][Next]_vars

\* One goroutine computes the order.
FairSpec == Spec /\ WF_vars(Next)

-----------------------------------------------------------------------------
(* Properties.                                                             *)

\* Every variable has its type.
TypeOK ==
  /\ plan \in [Names -> Todos] /\ requires \in [Names -> Seq(Names)]
  /\ SortTypeOK
  /\ ops \in Seq([act : Todos \ {"none"}, name : Names])
  /\ pc \in {"first", "drain", "size", "detect", "pass", "sorted", "merge", "done", "error"}

\* The order holds one operation for each package to add and one removal for
\* each package to remove or update: none is lost or done twice, whatever
\* cycles were broken and wherever a removal was inserted.
OpsComplete ==
  pc = "done" =>
    /\ Range(ops) = {Add(n) : n \in Adds} \cup {Del(n) : n \in Removed}
    /\ IsInjective(ops)

\* What Installer assumes (MayRunNext): pure removals come first and an old
\* version is removed before the new one is added.
RemovalsInOrder ==
  pc = "done" =>
    \A i, j \in DOMAIN ops : i < j /\ ops[j].act = "D" =>
      /\ ops[i].name # ops[j].name
      /\ ops[j].name \in Gone => ops[i].name \in Gone

Edges == {e \in Adds \X Adds : e[2] \in Range(requires[e[1]])}

\* Pairs joined by a path of at most 2^k requires.
Paths[k \in 0 .. N] ==
  IF k = 0 THEN Edges
  ELSE LET P == Paths[k - 1]
       IN P \cup {e \in Adds \X Adds : \E m \in Adds : <<e[1], m>> \in P /\ <<m, e[2]>> \in P}

AddedAt(n) == CHOOSE i \in DOMAIN ops : ops[i] = Add(n)

\* Without a dependency cycle every package is added after all its requires,
\* in whatever order Go iterates the queue.
RequiresFirst ==
  pc = "done" =>
    LET P == Paths[N]
    IN (\A p \in Adds : <<p, p>> \notin P) =>
         \A e \in Edges : AddedAt(e[2]) < AddedAt(e[1])

\* The sort ends with an order for every graph of requires: once the detector
\* has run no cycle is left, and no package waits for one that never comes.
SortSucceeds == <>(pc = "done")
=================================================================================
