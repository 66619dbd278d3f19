------------------------------ MODULE RequiresSort ------------------------------
(***************************************************************************)
(* The sort of packages by their requires: sortPkgsThinArr,                *)
(* depCycleDetector and recursiveCheckDeps.  The package manager and       *)
(* anise-build hold the same code (pkg/v2/solver/solver.go,                *)
(* anise-build/pkg/v2/solver/solver_base.go).  One pass over the list,     *)
(* from the fewest requires, then passes over a queue held in a Go map,    *)
(* whose iteration order is arbitrary, with a detector of dependency       *)
(* cycles when the queue does not shrink any more.  Names are numbers, in  *)
(* the order of the package names.                                         *)
(***************************************************************************)
EXTENDS Naturals, FiniteSets, SequencesExt

CONSTANT N  \* number of package names

ASSUME NamesAssumption == N \in Nat

Names == 1 .. N

VARIABLES
  reqs,      \* the requires the sort works on: those not cut
  elems,     \* the sorted list still to process
  queue,     \* packages that wait for a require (keys of a Go map)
  ans,       \* the sorted packages; pinject is the set of its elements
  left,      \* keys of the queue the current pass has not visited
  lastSize,  \* size of the queue at the last pass that made progress
  counter,   \* passes without progress since (loopCyclesDetectorCounter)
  detected,  \* detectorExecuted
  agenda,    \* packages the cycle detector has still to visit, in its order
  stack,     \* packages it has visited from the current element
  pc         \* first, drain, size, detect, pass, sorted, error

loop == <<lastSize, counter, detected>>
dfs  == <<agenda, stack>>
sortVars == <<reqs, elems, queue, ans, left, lastSize, counter, detected, agenda,
              stack, pc>>

Pinject == Range(ans)

\* The elements of s that are not in S.
Without(s, S) ==
  LET kept[i \in 0 .. Len(s)] ==
        IF i = 0 THEN <<>>
        ELSE IF s[i] \in S THEN kept[i - 1] ELSE Append(kept[i - 1], s[i])
  IN kept[Len(s)]

\* SortPackageThinList4Requires: fewest requires first, then by name.  There
\* is one such sequence.
SortedByRequires(S, r) ==
  {s \in SetToSeqs(S) : \A i, j \in DOMAIN s : i < j =>
     \/ Len(r[s[i]]) < Len(r[s[j]])
     \/ Len(r[s[i]]) = Len(r[s[j]]) /\ s[i] < s[j]}

\* Looks at the last require only.
BugReady(p) == reqs[p] # <<>> => Last(reqs[p]) \in Pinject

Ready(p) == Range(reqs[p]) \subseteq Pinject

\* The first pass: a package whose requires are sorted is appended, and then
\* the queue is looked through once; another one is put in the queue.
First ==
  /\ pc = "first" /\ elems # <<>>
  /\ elems' = Tail(elems)
  /\ IF Ready(Head(elems))
       THEN /\ ans' = Append(ans, Head(elems))
            /\ left' = queue
            /\ pc' = "drain"
            /\ UNCHANGED queue
       ELSE /\ queue' = queue \cup {Head(elems)}
            /\ UNCHANGED <<ans, left, pc>>
  /\ UNCHANGED <<reqs, loop, dfs>>

Drain(k) ==
  /\ pc = "drain" /\ k \in left
  /\ left' = left \ {k}
  /\ ans' = IF Ready(k) THEN Append(ans, k) ELSE ans
  /\ UNCHANGED <<reqs, elems, queue, loop, dfs, pc>>

\* The keys appended by a pass are deleted from the map after it.
EndPass ==
  /\ pc \in {"drain", "pass"} /\ left = {}
  /\ queue' = queue \ Pinject
  /\ pc' = IF elems # <<>> THEN "first" ELSE "size"
  /\ UNCHANGED <<reqs, elems, ans, left, loop, dfs>>

EndFirst ==
  /\ pc = "first" /\ elems = <<>>
  /\ pc' = "size"
  /\ UNCHANGED <<reqs, elems, queue, ans, left, loop, dfs>>

StartPass == left' = queue /\ pc' = "pass" /\ UNCHANGED <<elems, dfs>>

\* Five passes over a queue of the same size.
Stalled == counter > 3

\* The head of the loop: a stalled loop runs the detector once; when it was
\* run before, the sort gives up.
LoopHead ==
  /\ pc = "size"
  /\ \/ /\ queue = {}
        /\ pc' = "sorted"
        /\ UNCHANGED <<elems, left, loop, dfs>>
     \/ /\ queue # {} /\ Cardinality(queue) # lastSize
        /\ lastSize' = Cardinality(queue)
        /\ counter' = 0
        /\ StartPass
        /\ UNCHANGED detected
     \/ /\ queue # {} /\ Cardinality(queue) = lastSize /\ ~Stalled
        /\ counter' = counter + 1
        /\ StartPass
        /\ UNCHANGED <<lastSize, detected>>
     \/ /\ queue # {} /\ Cardinality(queue) = lastSize /\ Stalled
        /\ detected' = TRUE
        /\ elems' \in SortedByRequires(queue, reqs)
        /\ pc' = IF detected THEN "error" ELSE "detect"
        /\ UNCHANGED <<left, lastSize, counter, dfs>>
  /\ UNCHANGED <<reqs, queue, ans>>

\* BreakCyclesOnRequires: a package met again from the same element loses
\* its requires among the packages already visited.
BreakCycles(p) ==
  IF p \in stack
    THEN [reqs EXCEPT ![p] = Without(@, stack)]
    ELSE reqs

\* recursiveCheckDeps, a depth-first visit whose stack never shrinks: the
\* agenda holds the requires that the pending calls have still to visit.
Detect ==
  /\ pc = "detect"
  /\ \/ /\ agenda = <<>> /\ elems # <<>>
        /\ agenda' = <<Head(elems)>> /\ elems' = Tail(elems)
        /\ stack' = {}
        /\ UNCHANGED <<reqs, left, pc>>
     \/ /\ agenda # <<>>
        /\ LET p == Head(agenda)
           IN IF p \in queue
                THEN /\ reqs' = BreakCycles(p)
                     /\ agenda' = reqs'[p] \o Tail(agenda)
                     /\ stack' = stack \cup {p}
                     /\ UNCHANGED pc
                ELSE /\ agenda' = Tail(agenda)
                     /\ pc' = IF p \in Pinject THEN pc ELSE "error"
                     /\ UNCHANGED <<reqs, stack>>
        /\ UNCHANGED <<elems, left>>
     \/ /\ agenda = <<>> /\ elems = <<>>
        /\ left' = queue /\ pc' = "pass"
        /\ UNCHANGED <<reqs, elems, dfs>>
  /\ UNCHANGED <<queue, ans, loop>>

\* The first require that is not sorted decides: when the two packages
\* require each other the cycle is broken and the other requires are not read.
Breakable(k) ==
  LET missing == Without(reqs[k], Pinject)
  IN \/ Ready(k)
     \/ Head(missing) \in queue /\ k \in Range(reqs[Head(missing)])

Pass(k) ==
  /\ pc = "pass" /\ k \in left
  /\ left' = left \ {k}
  /\ ans' = IF Breakable(k) THEN Append(ans, k) ELSE ans
  /\ UNCHANGED <<reqs, elems, queue, loop, dfs, pc>>

\* The sort of the packages S with the requires r is about to start.
StartSort(S, r) ==
  /\ reqs' = r
  /\ elems' \in SortedByRequires(S, r)
  /\ queue' = {} /\ ans' = <<>> /\ left' = {}
  /\ lastSize' = 0 /\ counter' = 0 /\ detected' = FALSE
  /\ agenda' = <<>> /\ stack' = {}
  /\ pc' = "first"

SortStep ==
  \/ First \/ EndFirst \/ EndPass \/ LoopHead \/ Detect
  \/ \E k \in Names : Drain(k) \/ Pass(k)

SortTypeOK ==
  /\ reqs \in [Names -> Seq(Names)]
  /\ elems \in Seq(Names) /\ ans \in Seq(Names) /\ agenda \in Seq(Names)
  /\ queue \subseteq Names /\ left \subseteq queue /\ stack \subseteq Names
  /\ lastSize \in 0 .. N /\ counter \in 0 .. 4 /\ detected \in BOOLEAN
=================================================================================
