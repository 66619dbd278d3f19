----------------------------- MODULE RepoSyncProofs -----------------------------
(***************************************************************************)
(* An update that reports success met no error and read every answer, for  *)
(* all repositories, command lines, concurrencies, faults, revisions and   *)
(* numbers of commands and kills.  ErrorsReported only speaks of the end   *)
(* of a command; Answers follows each goroutine there: one that is done    *)
(* has its answer either in the channel or received, one that failed is    *)
(* about to answer or done, and a received error sets withErr.             *)
(***************************************************************************)
EXTENDS RepoSync, FiniteSetTheorems, TLAPS

Steps == {"none", "acquire", "read", "fetch", "docs", "copy", "rmtree", "unpack",
          "explode", "send", "done"}

\* The types the argument needs.
Types ==
  /\ main \in {"idle", "spawn", "collect"}
  /\ req \in Requests
  /\ next \in Nat \ {0}
  /\ pc \in [Slots -> Steps]
  /\ failed \subseteq Slots /\ chan \subseteq Slots /\ got \subseteq Slots
  /\ withErr \in BOOLEAN

\* A goroutine runs for each argument before next that names a repository.
StartedRight ==
  IF main = "idle" THEN \A i \in Slots : pc[i] = "none"
  ELSE \A i \in Slots :
         pc[i] # "none" <=> i < next /\ i \in DOMAIN req.args /\ req.args[i] \in Repos

AllSpawned == main = "collect" => next > Len(req.args)

\* Where the answers are.
Answers ==
  main # "idle" =>
    /\ \A i \in Slots : pc[i] = "done" <=> i \in chan \cup got
    /\ chan \cap got = {}
    /\ \A i \in failed : pc[i] \in {"send", "done"}
    /\ withErr \/ req.ignore \/ failed \cap got = {}

ErrorInv == Types /\ StartedRight /\ AllSpawned /\ Answers /\ ErrorsReported

-----------------------------------------------------------------------------
(* What is known of a request.                                             *)

LEMMA RequestArgs ==
  ASSUME NEW r \in Requests
  PROVE  /\ r.args \in Seq(Repos \cup {Unknown})
         /\ Len(r.args) \in Nat /\ Len(r.args) <= MaxArgs
         /\ DOMAIN r.args = 1 .. Len(r.args)
         /\ r.ignore \in BOOLEAN /\ MaxArgs \in Nat
<1>1. r \in [args : Seq(Repos \cup {Unknown}), force : BOOLEAN, ignore : BOOLEAN,
             concurrency : Nat \ {0}]
  BY RepoSyncAssumption DEF RepoSyncAssumption
<1>2. r.args \in Seq(Repos \cup {Unknown}) /\ r.ignore \in BOOLEAN
  BY <1>1
<1>3. Len(r.args) <= MaxArgs /\ MaxArgs \in Nat
  BY RepoSyncAssumption DEF RepoSyncAssumption
<1> QED
  BY <1>2, <1>3

LEMMA InitHolds == Init => ErrorInv
<1> SUFFICES ASSUME Init PROVE ErrorInv
  OBVIOUS
<1>1. Types
  <2>1. withErr \in BOOLEAN /\ pc \in [Slots -> Steps]
    BY Zenon DEF Init, Steps
  <2> QED
    BY <2>1 DEF Init, Types
<1> QED
  BY <1>1 DEF Init, ErrorInv, StartedRight, AllSpawned, Answers, ErrorsReported

-----------------------------------------------------------------------------
(* The goroutines.                                                         *)

\* A goroutine that goes on without answering moves between steps at which it
\* has not answered, and joins failed only with its answer to be sent.
Moves(i) ==
  /\ UNCHANGED <<main, req, next, withErr, result, chan, got>>
  /\ pc[i] \notin {"none", "done"}
  /\ \E step \in Steps \ {"none", "done"} :
       /\ pc' = [pc EXCEPT ![i] = step]
       /\ \/ failed' = failed /\ (i \in failed => step = "send")
          \/ step = "send" /\ failed' = failed \cup {i}

LEMMA WorkerMoves ==
  ASSUME ErrorInv, NEW i \in Slots, Worker(i), ~Send(i)
  PROVE  Moves(i)
<1>1. i \in failed => pc[i] \in {"none", "send", "done"}
  BY DEF ErrorInv, Answers, StartedRight
<1> USE <1>1 DEF Moves, Goto, Fail, Drop, Steps, ctl
<1>2. CASE Acquire(i)
  BY <1>2 DEF Acquire
<1>3. CASE Read(i)
  BY <1>3 DEF Read
<1>4. CASE Fetch(i)
  <2>1. pc[i] = "fetch" /\ UNCHANGED <<chan, got, ctl>>
    BY <1>4 DEF Fetch
  <2>2. CASE Goto(i, IF Is2Update(i) \/ req.force THEN "docs" ELSE "send")
    BY <2>1, <2>2
  <2>3. CASE Fail(i)
    BY <2>1, <2>3
  <2> QED
    BY <1>4, <2>2, <2>3 DEF Fetch
<1>5. CASE Docs(i)
  BY <1>5 DEF Docs
<1>6. CASE Copy(i)
  BY <1>6 DEF Copy
<1>7. CASE RmTree(i)
  BY <1>7 DEF RmTree
<1>8. CASE Unpack(i)
  <2>1. pc[i] = "unpack" /\ UNCHANGED <<chan, got, ctl>>
    BY <1>8 DEF Unpack
  <2>2. CASE Goto(i, IF Repo(i) \in V2 THEN "send" ELSE "explode")
    BY <2>1, <2>2
  <2>3. CASE Fail(i)
    BY <2>1, <2>3
  <2> QED
    BY <1>8, <2>2, <2>3 DEF Unpack
<1>9. CASE Explode(i)
  BY <1>9 DEF Explode
<1> QED
  BY <1>2, <1>3, <1>4, <1>5, <1>6, <1>7, <1>8, <1>9 DEF Worker

LEMMA MoveKeeps ==
  ASSUME ErrorInv, NEW i \in Slots, Moves(i)
  PROVE  ErrorInv'
<1>1. PICK step \in Steps \ {"none", "done"} :
        /\ pc' = [pc EXCEPT ![i] = step]
        /\ \/ failed' = failed /\ (i \in failed => step = "send")
           \/ step = "send" /\ failed' = failed \cup {i}
  BY DEF Moves
<1>2. /\ pc[i] \notin {"none", "done"}
      /\ UNCHANGED <<main, req, next, withErr, result, chan, got>>
  BY DEF Moves
<1>3. main # "idle"
  BY <1>2 DEF ErrorInv, StartedRight
<1>4. Types'
  BY <1>1, <1>2 DEF ErrorInv, Types
<1>5. \A j \in Slots : pc'[j] = IF j = i THEN step ELSE pc[j]
  BY <1>1 DEF ErrorInv, Types
<1>6. StartedRight'
  BY <1>1, <1>2, <1>3, <1>5 DEF ErrorInv, StartedRight
<1>7. Answers'
  <2>1. i \notin chan \cup got
    BY <1>2, <1>3 DEF ErrorInv, Answers
  <2>2. \A j \in Slots : pc'[j] = "done" <=> j \in chan \cup got
    BY <1>1, <1>3, <1>5, <2>1 DEF ErrorInv, Answers
  <2>3. \A j \in failed' : pc'[j] \in {"send", "done"}
    BY <1>1, <1>3, <1>5 DEF ErrorInv, Answers, Types
  <2>4. failed' \cap got = failed \cap got
    BY <1>1, <2>1
  <2> QED
    BY <1>2, <1>3, <2>2, <2>3, <2>4 DEF ErrorInv, Answers
<1> QED
  BY <1>2, <1>3, <1>4, <1>6, <1>7 DEF ErrorInv, AllSpawned, ErrorsReported

LEMMA SendKeeps ==
  ASSUME ErrorInv, NEW i \in Slots, Send(i)
  PROVE  ErrorInv'
<1>1. /\ pc[i] = "send" /\ chan' = chan \cup {i} /\ pc' = [pc EXCEPT ![i] = "done"]
      /\ UNCHANGED <<main, req, next, withErr, result, failed, got>>
  BY DEF Send, Goto, ctl
<1>2. main # "idle"
  BY <1>1 DEF ErrorInv, StartedRight
<1>3. Types'
  BY <1>1 DEF ErrorInv, Types, Steps
<1>4. \A j \in Slots : pc'[j] = IF j = i THEN "done" ELSE pc[j]
  BY <1>1 DEF ErrorInv, Types
<1>5. StartedRight'
  BY <1>1, <1>2, <1>4 DEF ErrorInv, StartedRight
<1>6. Answers'
  BY <1>1, <1>2, <1>4 DEF ErrorInv, Answers, Types
<1> QED
  BY <1>1, <1>2, <1>3, <1>5, <1>6 DEF ErrorInv, AllSpawned, ErrorsReported

-----------------------------------------------------------------------------
(* The main goroutine.                                                     *)

LEMMA UpdateKeeps ==
  ASSUME ErrorInv, NEW r \in Requests, Update(r)
  PROVE  ErrorInv'
<1>1. Types'
  <2>1. withErr' \in BOOLEAN /\ pc' \in [Slots -> Steps]
    BY Zenon DEF Update, Cleared, Steps
  <2> QED
    BY <2>1 DEF Update, Cleared, Types
<1>2. /\ main' = "spawn" /\ next' = 1 /\ pc' = [i \in Slots |-> "none"]
      /\ chan' = {} /\ got' = {} /\ failed' = {}
  BY DEF Update, Cleared
<1>3. StartedRight' /\ AllSpawned'
  BY <1>2 DEF StartedRight, AllSpawned, Slots
<1>4. Answers' /\ ErrorsReported'
  BY <1>2 DEF Answers, ErrorsReported
<1> QED
  BY <1>1, <1>3, <1>4 DEF ErrorInv

\* A process that stops before its end.
LEMMA StopKeeps ==
  ASSUME ErrorInv, NEW how, how # "ok", Stop(how), UNCHANGED req
  PROVE  ErrorInv'
<1>1. /\ main' = "idle" /\ result' # "ok" /\ next' = 1
      /\ pc' = [i \in Slots |-> "none"]
      /\ chan' = {} /\ got' = {} /\ failed' = {}
  BY DEF Stop, Cleared
<1>2. withErr' \in BOOLEAN /\ pc' \in [Slots -> Steps]
  BY <1>1, Zenon DEF Stop, Cleared, Steps
<1> QED
  BY <1>1, <1>2 DEF ErrorInv, Types, StartedRight, AllSpawned, Answers, ErrorsReported

LEMMA SpawnKeeps ==
  ASSUME ErrorInv, Spawn
  PROVE  ErrorInv'
<1>1. /\ main = "spawn" /\ next <= Len(req.args) /\ next' = next + 1
      /\ UNCHANGED <<main, result, req, failed, chan, got, withErr>>
  BY DEF Spawn
<1>2. /\ DOMAIN req.args = 1 .. Len(req.args) /\ Len(req.args) \in Nat
      /\ Len(req.args) <= MaxArgs /\ MaxArgs \in Nat /\ next \in Nat \ {0}
      /\ req.ignore \in BOOLEAN
  BY RequestArgs DEF ErrorInv, Types
<1>3. next \in Slots /\ next \in DOMAIN req.args /\ next' \in Nat \ {0}
  BY <1>1, <1>2 DEF Slots
<1>4. pc[next] = "none"
  BY <1>1, <1>3, <1>2 DEF ErrorInv, StartedRight
<1>5. CASE Repo(next) \in Repos /\ pc' = [pc EXCEPT ![next] = "acquire"]
  <2>1. \A j \in Slots : pc'[j] = IF j = next THEN "acquire" ELSE pc[j]
    BY <1>5 DEF ErrorInv, Types
  <2>2. Types'
    BY <1>1, <1>3, <1>5 DEF ErrorInv, Types, Steps
  <2>3. StartedRight'
    BY <1>1, <1>2, <1>3, <1>5, <2>1 DEF ErrorInv, StartedRight, Repo, Slots
  <2>4. Answers'
    BY <1>1, <1>3, <1>4, <1>5, <2>1 DEF ErrorInv, Answers, Types
  <2> QED
    BY <1>1, <1>5, <2>2, <2>3, <2>4 DEF ErrorInv, AllSpawned, ErrorsReported
<1>6. CASE Repo(next) = Unknown /\ UNCHANGED pc
  <2>1. req.args[next] \notin Repos
    BY <1>6, RepoSyncAssumption DEF Repo, RepoSyncAssumption
  <2>2. StartedRight'
    BY <1>1, <1>2, <1>3, <1>6, <2>1 DEF ErrorInv, StartedRight, Slots
  <2> QED
    BY <1>1, <1>3, <1>6, <2>2 DEF ErrorInv, Types, AllSpawned, Answers, ErrorsReported
<1> QED
  BY <1>5, <1>6 DEF Spawn

LEMMA CollectKeeps ==
  ASSUME ErrorInv, Collect
  PROVE  ErrorInv'
<1>1. PICK i \in chan :
        /\ chan' = chan \ {i} /\ got' = got \cup {i}
        /\ withErr' = (withErr \/ (i \in failed /\ ~req.ignore))
  BY DEF Collect
<1>2. main = "collect" /\ UNCHANGED <<pc, failed, main, req, next, result>>
  BY DEF Collect
<1>3. withErr' \in BOOLEAN /\ chan' \subseteq Slots /\ got' \subseteq Slots
  BY <1>1 DEF ErrorInv, Types
<1>4. chan' \cup got' = chan \cup got /\ chan' \cap got' = {}
  BY <1>1, <1>2 DEF ErrorInv, Answers
<1>5. withErr' \/ req.ignore \/ failed \cap got' = {}
  BY <1>1, <1>2 DEF ErrorInv, Answers
<1>6. Answers'
  BY <1>2, <1>4, <1>5 DEF ErrorInv, Answers
<1> QED
  BY <1>2, <1>3, <1>6 DEF ErrorInv, Types, StartedRight, AllSpawned, ErrorsReported

LEMMA FinishKeeps ==
  ASSUME ErrorInv, Finish
  PROVE  ErrorInv'
<1>1. /\ main = "collect" /\ got = Started /\ \A i \in Started : pc[i] = "done"
      /\ main' = "idle" /\ result' = (IF withErr THEN "error" ELSE "ok")
      /\ pc' = [i \in Slots |-> "none"]
      /\ UNCHANGED <<failed, chan, got, req, next, withErr>>
  BY DEF Finish
<1>2. CASE withErr
  BY <1>1, <1>2
  DEF ErrorInv, Types, StartedRight, AllSpawned, Answers, ErrorsReported, Steps
<1>3. CASE ~withErr
  <2>1. main' = "idle" /\ result' = "ok" /\ pc' = [i \in Slots |-> "none"]
    BY <1>1, <1>3
  <2>2. /\ DOMAIN req.args = 1 .. Len(req.args) /\ Len(req.args) \in Nat
        /\ Len(req.args) <= MaxArgs /\ MaxArgs \in Nat
        /\ next \in Nat \ {0} /\ next > Len(req.args)
    BY <1>1, RequestArgs DEF ErrorInv, Types, AllSpawned
  <2>3. got = {i \in DOMAIN req.args : req.args[i] \in Repos}
    <3>1. Started = {i \in Slots : i \in DOMAIN req.args /\ req.args[i] \in Repos}
      BY <1>1, <2>2 DEF ErrorInv, StartedRight, Started, Slots
    <3> QED
      BY <1>1, <2>2, <3>1 DEF Slots
  <2>4. chan = {}
    BY <1>1 DEF ErrorInv, Answers, Types, Started
  <2>5. failed \subseteq got
    BY <1>1 DEF ErrorInv, Answers, Types, Started
  <2>6. req.ignore \/ failed = {}
    BY <1>1, <1>3, <2>5 DEF ErrorInv, Answers
  <2> QED
    BY <1>1, <2>1, <2>3, <2>4, <2>6
    DEF ErrorInv, Types, StartedRight, AllSpawned, Answers, ErrorsReported, Steps
<1> QED
  BY <1>2, <1>3

-----------------------------------------------------------------------------
(* Every step.                                                             *)

LEMMA NextKeeps == ErrorInv /\ [Next]_vars => ErrorInv'
<1> SUFFICES ASSUME ErrorInv, [Next]_vars PROVE ErrorInv'
  OBVIOUS
<1>1. ASSUME NEW r \in Requests, Update(r) PROVE ErrorInv'
  BY <1>1, UpdateKeeps
<1>2. CASE Main
  <2>1. CASE Spawned
    <3>1. /\ main = "spawn" /\ main' = "collect" /\ next > Len(req.args)
          /\ UNCHANGED <<pc, failed, chan, got, req, next, withErr, result>>
      BY <2>1 DEF Spawned
    <3> QED
      BY <3>1 DEF ErrorInv, Types, StartedRight, AllSpawned, Answers, ErrorsReported
  <2>2. CASE UnknownName
    BY <2>2, StopKeeps DEF UnknownName
  <2> QED
    BY <1>2, <2>1, <2>2, SpawnKeeps, CollectKeeps, FinishKeeps DEF Main
<1>3. ASSUME NEW i \in Slots, Worker(i) PROVE ErrorInv'
  BY <1>3, SendKeeps, WorkerMoves, MoveKeeps
<1>4. CASE Crash
  BY <1>4, StopKeeps DEF Crash
<1>5. CASE UNCHANGED <<main, req, next, pc, failed, chan, got, withErr, result>>
  BY <1>5 DEF ErrorInv, Types, StartedRight, AllSpawned, Answers, ErrorsReported
<1>6. ASSUME NEW r \in Repos, Publish(r) PROVE ErrorInv'
  BY <1>5, <1>6 DEF Publish, ctl
<1>7. CASE UNCHANGED vars
  BY <1>5, <1>7 DEF vars
<1> QED
  BY <1>1, <1>2, <1>3, <1>4, <1>6, <1>7 DEF Next

\* ErrorsReported: a command that reports success met no error unless they are
\* ignored, and has read the answer of each of its goroutines.
THEOREM ErrorsReportedCorrect == Spec => []ErrorsReported
<1>1. ErrorInv => ErrorsReported
  BY DEF ErrorInv
<1> QED
  BY InitHolds, NextKeeps, <1>1, PTL DEF Spec

-----------------------------------------------------------------------------
(* The trees.                                                              *)

\* A goroutine holds a remote revision once it has read one.
LocalTypes ==
  /\ remote \in [Repos -> Revs]
  /\ identity \in [Repos -> LocalRevs]
  /\ tree \in [Repos -> Trees]
  /\ new \in [Slots -> LocalRevs]
  /\ dropped \subseteq Slots
  /\ \A i \in Slots :
       /\ pc[i] \in {"docs", "copy", "rmtree", "unpack", "explode"} => new[i] \in Revs
       /\ pc[i] \in {"send", "done"} /\ req.force /\ i \notin failed => new[i] \in Revs
       /\ main # "idle" /\ pc[i] \in {"none", "acquire", "read", "fetch"} => new[i] = NoRev

At(r, steps) == \E j \in Of(r) : pc[j] \in steps

\* What a goroutine unpacks over, for TreesNotMixed.
Clean(r) ==
  Agree(r) /\ Of(r) \cap dropped = {} =>
    \A i \in Of(r) : pc[i] = "unpack" => tree[r].revs \subseteq {new[i]}

\* What the goroutines of r have done, at the steps they have reached: a tree is
\* whole once nobody deletes or unpacks it, and ready when nobody explodes it.
Repaired(r) ==
  req.force /\ Agree(r) /\ Of(r) \cap (failed \cup dropped) = {} =>
    \A i \in Of(r) :
      /\ pc[i] \in {"rmtree", "unpack", "explode", "send", "done"} => identity[r] = new[i]
      /\ pc[i] \in {"unpack", "explode", "send", "done"} => tree[r].revs \subseteq {new[i]}
      /\ pc[i] \in {"explode", "send", "done"} /\ ~At(r, {"rmtree", "unpack"})
           => tree[r].revs = {new[i]} /\ tree[r].whole = TRUE
      /\ pc[i] \in {"send", "done"} /\ ~At(r, {"rmtree", "unpack", "explode"})
           => tree[r].ready = TRUE

SyncInv ==
  /\ ErrorInv /\ LocalTypes
  /\ main # "idle" => \A r \in Repos : Clean(r) /\ Repaired(r)
  /\ ForcedUpdateRepairs

LEMMA SyncInit == Init => SyncInv
<1> SUFFICES ASSUME Init PROVE SyncInv
  OBVIOUS
<1>1. LocalTypes
  BY RepoSyncAssumption DEF Init, LocalTypes, LocalRevs, Trees, NoTree, RepoSyncAssumption
<1> QED
  BY <1>1, InitHolds DEF Init, SyncInv, ForcedUpdateRepairs

LEMMA OfSlots ==
  ASSUME ErrorInv, NEW r
  PROVE  Of(r) \subseteq Slots
BY RequestArgs DEF ErrorInv, Types, Of, Slots

\* A step of goroutine i changes the files of its repository only, and errors
\* and revisions read are kept.
LEMMA WorkerFrame ==
  ASSUME SyncInv, NEW i \in Slots, Worker(i)
  PROVE  /\ UNCHANGED <<remote, main, req, result>>
         /\ main # "idle" /\ pc[i] # "none" /\ Repo(i) \in Repos /\ i \in Of(Repo(i))
         /\ \A j \in Slots \ {i} : pc'[j] = pc[j] /\ new'[j] = new[j]
         /\ \A r \in Repos \ {Repo(i)} : identity'[r] = identity[r] /\ tree'[r] = tree[r]
         /\ failed \subseteq failed' /\ failed' \subseteq failed \cup {i}
         /\ dropped \subseteq dropped' /\ dropped' \subseteq dropped \cup {i}
         /\ new'[i] = new[i] \/ pc[i] = "fetch"
<1> USE DEF Goto, Fail, Drop, ctl, local
<1>1. pc[i] # "none" /\ UNCHANGED <<remote, main, req, result>>
  BY DEF Worker, Acquire, Read, Fetch, Docs, Copy, RmTree, Unpack, Explode, Send
<1>2. main # "idle"
  BY <1>1 DEF SyncInv, ErrorInv, StartedRight
<1>3. \A j \in Slots \ {i} : pc'[j] = pc[j]
  BY DEF SyncInv, ErrorInv, Types, Worker, Acquire, Read, Fetch, Docs, Copy, RmTree, Unpack, Explode, Send
<1>4. \A j \in Slots \ {i} : new'[j] = new[j]
  BY DEF SyncInv, LocalTypes, Worker, Acquire, Read, Fetch, Docs, Copy, RmTree, Unpack, Explode, Send
<1>5. \A r \in Repos \ {Repo(i)} : identity'[r] = identity[r]
  BY DEF SyncInv, LocalTypes, Worker, Acquire, Read, Fetch, Docs, Copy, RmTree, Unpack, Explode, Send
<1>6. \A r \in Repos \ {Repo(i)} : tree'[r] = tree[r]
  BY DEF SyncInv, LocalTypes, Worker, Acquire, Read, Fetch, Docs, Copy, RmTree, Unpack, Explode,
         Send, Unpacked, Exploded
<1>7. /\ failed \subseteq failed' /\ failed' \subseteq failed \cup {i}
      /\ dropped \subseteq dropped' /\ dropped' \subseteq dropped \cup {i}
      /\ new'[i] = new[i] \/ pc[i] = "fetch"
  BY DEF Worker, Acquire, Read, Fetch, Docs, Copy, RmTree, Unpack, Explode, Send
<1>8. Repo(i) \in Repos /\ i \in Of(Repo(i))
  BY <1>1, <1>2 DEF SyncInv, ErrorInv, StartedRight, Repo, Of
<1> QED
  BY <1>1, <1>2, <1>3, <1>4, <1>5, <1>6, <1>7, <1>8

\* What a step agrees on was agreed on before.
LEMMA AgreeBack ==
  ASSUME SyncInv, NEW i \in Slots, Worker(i), NEW r, Agree(r)'
  PROVE  Agree(r)
<1>1. /\ UNCHANGED req /\ main # "idle"
      /\ \A j \in Slots \ {i} : new'[j] = new[j]
      /\ new'[i] = new[i] \/ pc[i] = "fetch"
  BY WorkerFrame
<1>2. pc[i] = "fetch" => new[i] = NoRev
  BY <1>1 DEF SyncInv, LocalTypes
<1>3. Of(r) \subseteq Slots /\ Of(r)' = Of(r)
  BY <1>1, OfSlots DEF SyncInv, Of
<1> QED
  BY <1>1, <1>2, <1>3 DEF Agree

\* Goroutines that agree and hold a revision hold the same one.
LEMMA SameNew ==
  ASSUME NEW r, Agree(r), NEW i \in Of(r), NEW j \in Of(r), new[i] \in Revs, new[j] \in Revs
  PROVE  new[i] = new[j]
BY RepoSyncAssumption DEF Agree, RepoSyncAssumption

LEMMA TreeOf ==
  ASSUME SyncInv, NEW r \in Repos
  PROVE  /\ tree[r] \in Trees /\ tree[r].revs \subseteq Revs
         /\ tree[r].whole \in BOOLEAN /\ tree[r].ready \in BOOLEAN
BY DEF SyncInv, LocalTypes, Trees

\* The tree that a step of goroutine i leaves in its repository.
LEMMA UnpackedTree ==
  ASSUME SyncInv, NEW i \in Slots, Repo(i) \in Repos, new[i] \in Revs, NEW whole \in BOOLEAN
  PROVE  LET t == Unpacked(i, whole) IN
         /\ t \in [Repos -> Trees]
         /\ t[Repo(i)] = [revs |-> tree[Repo(i)].revs \cup {new[i]}, whole |-> whole,
                          ready |-> whole /\ Repo(i) \in V2]
<1> DEFINE r == Repo(i)
           new_r == [revs |-> tree[r].revs \cup {new[i]}, whole |-> whole,
                     ready |-> whole /\ r \in V2]
<1>1. tree \in [Repos -> Trees] /\ tree[r].revs \subseteq Revs
  BY TreeOf DEF SyncInv, LocalTypes
<1>2. (whole /\ r \in V2) \in BOOLEAN
  BY Zenon
<1>3. new_r \in Trees
  BY <1>1, <1>2 DEF Trees
<1>4. Unpacked(i, whole) = [tree EXCEPT ![r] = new_r]
  BY DEF Unpacked
<1> HIDE DEF new_r
<1>5. Unpacked(i, whole) \in [Repos -> Trees] /\ Unpacked(i, whole)[r] = new_r
  BY <1>1, <1>3, <1>4
<1> QED
  BY <1>5 DEF new_r

LEMMA ExplodedTree ==
  ASSUME SyncInv, NEW i \in Slots, Repo(i) \in Repos, NEW ready \in BOOLEAN
  PROVE  LET t == Exploded(i, ready) IN
         /\ t \in [Repos -> Trees]
         /\ t[Repo(i)] = [revs |-> tree[Repo(i)].revs, whole |-> tree[Repo(i)].whole,
                          ready |-> ready]
<1> DEFINE r == Repo(i)
           new_r == [revs |-> tree[r].revs, whole |-> tree[r].whole, ready |-> ready]
<1>1. tree \in [Repos -> Trees] /\ new_r \in Trees
  BY TreeOf DEF SyncInv, LocalTypes, Trees
<1>2. Exploded(i, ready) = [tree EXCEPT ![r] = new_r]
  BY DEF Exploded
<1> HIDE DEF new_r
<1>3. Exploded(i, ready) \in [Repos -> Trees] /\ Exploded(i, ready)[r] = new_r
  BY <1>1, <1>2
<1> QED
  BY <1>3 DEF new_r

\* The types after a step of a goroutine.
LEMMA WorkerTypes ==
  ASSUME SyncInv, NEW i \in Slots, Worker(i)
  PROVE  LocalTypes'
<1> DEFINE r == Repo(i)
<1>1. /\ r \in Repos /\ UNCHANGED <<remote, req, main>> /\ main # "idle"
      /\ \A j \in Slots \ {i} : pc'[j] = pc[j] /\ new'[j] = new[j]
      /\ failed \subseteq failed' /\ dropped' \subseteq Slots
  BY WorkerFrame DEF SyncInv, LocalTypes
<1>2. /\ remote \in [Repos -> Revs] /\ identity \in [Repos -> LocalRevs]
      /\ tree \in [Repos -> Trees] /\ new \in [Slots -> LocalRevs] /\ pc \in [Slots -> Steps]
      /\ NoTree \in Trees /\ Torn \in LocalRevs /\ Revs \subseteq LocalRevs
  BY DEF SyncInv, LocalTypes, ErrorInv, Types, NoTree, Trees, LocalRevs
<1>3. /\ pc[i] \in {"docs", "copy", "rmtree", "unpack", "explode"} => new[i] \in Revs
      /\ pc[i] \in {"send", "done"} /\ req.force /\ i \notin failed => new[i] \in Revs
      /\ pc[i] \in {"none", "acquire", "read", "fetch"} => new[i] = NoRev
  BY <1>1 DEF SyncInv, LocalTypes
<1>4. \A j \in Slots \ {i} :
        /\ pc'[j] \in {"docs", "copy", "rmtree", "unpack", "explode"} => new'[j] \in Revs
        /\ pc'[j] \in {"send", "done"} /\ req'.force /\ j \notin failed' => new'[j] \in Revs
        /\ pc'[j] \in {"none", "acquire", "read", "fetch"} => new'[j] = NoRev
  BY <1>1 DEF SyncInv, LocalTypes
<1> DEFINE Own ==
      /\ pc'[i] \in {"docs", "copy", "rmtree", "unpack", "explode"} => new'[i] \in Revs
      /\ pc'[i] \in {"send", "done"} /\ req'.force /\ i \notin failed' => new'[i] \in Revs
      /\ pc'[i] \in {"none", "acquire", "read", "fetch"} => new'[i] = NoRev
<1>5. SUFFICES /\ identity' \in [Repos -> LocalRevs] /\ tree' \in [Repos -> Trees]
               /\ new' \in [Slots -> LocalRevs] /\ Own
  <2>1. \A j \in Slots : 
        /\ pc'[j] \in {"docs", "copy", "rmtree", "unpack", "explode"} => new'[j] \in Revs
        /\ pc'[j] \in {"send", "done"} /\ req'.force /\ j \notin failed' => new'[j] \in Revs
        /\ pc'[j] \in {"none", "acquire", "read", "fetch"} => new'[j] = NoRev
    BY <1>4, <1>5
  <2> QED
    BY <1>1, <1>2, <1>5, <2>1 DEF LocalTypes
<1> USE DEF Goto, Fail, Drop, local
<1>6. CASE Acquire(i) \/ Read(i) \/ Docs(i) \/ Send(i)
  BY <1>1, <1>2, <1>3, <1>6 DEF Acquire, Read, Docs, Send
<1>7. CASE Fetch(i)
  <2>1. pc[i] = "fetch" /\ UNCHANGED <<identity, tree>> /\ remote[r] \in Revs
    BY <1>1, <1>2, <1>7 DEF Fetch
  <2>2. CASE /\ new' = [new EXCEPT ![i] = remote[r]]
             /\ Goto(i, IF Is2Update(i) \/ req.force THEN "docs" ELSE "send")
    BY <1>1, <1>2, <2>1, <2>2
  <2>3. CASE Fail(i) /\ UNCHANGED new
    BY <1>1, <1>2, <2>1, <2>3
  <2> QED
    BY <1>7, <2>2, <2>3 DEF Fetch
<1>8. CASE Copy(i)
  <2>1. /\ pc[i] = "copy" /\ UNCHANGED <<tree, new>> /\ new[i] \in Revs /\ identity[r] \in LocalRevs
        /\ \E left \in {identity[r], Torn, new[i]} : identity' = [identity EXCEPT ![r] = left]
        /\ pc' = [pc EXCEPT ![i] = "rmtree"] \/ Fail(i)
    BY <1>1, <1>2, <1>3, <1>8 DEF Copy
  <2>2. identity' \in [Repos -> LocalRevs]
    BY <1>1, <1>2, <2>1
  <2> QED
    BY <1>2, <2>1, <2>2
<1>9. CASE RmTree(i)
  <2>1. /\ pc[i] = "rmtree" /\ UNCHANGED <<identity, new>> /\ pc' = [pc EXCEPT ![i] = "unpack"]
        /\ \E left \in {NoTree, tree[r], Partial(tree[r])} : tree' = [tree EXCEPT ![r] = left]
    BY <1>1, <1>9 DEF RmTree
  <2>2. tree[r] \in Trees /\ Partial(tree[r]) \in Trees
    BY <1>1, TreeOf DEF Partial, Trees
  <2>3. tree' \in [Repos -> Trees]
    BY <1>1, <1>2, <2>1, <2>2
  <2> QED
    BY <1>2, <1>3, <2>1, <2>3
<1>10. CASE Unpack(i)
  <2>1. /\ pc[i] = "unpack" /\ UNCHANGED <<identity, new>> /\ new[i] \in Revs
        /\ \/ pc' = [pc EXCEPT ![i] = IF r \in V2 THEN "send" ELSE "explode"]
           \/ Fail(i)
    BY <1>3, <1>10 DEF Unpack
  <2>2. PICK whole \in BOOLEAN : tree' = Unpacked(i, whole)
    BY <1>10 DEF Unpack, Rival
  <2>3. tree' \in [Repos -> Trees]
    BY <1>1, <2>1, <2>2, UnpackedTree
  <2>4. CASE Fail(i)
    BY <1>2, <2>1, <2>3, <2>4
  <2>5. CASE pc' = [pc EXCEPT ![i] = IF r \in V2 THEN "send" ELSE "explode"]
    BY <1>2, <2>1, <2>3, <2>5
  <2> QED
    BY <2>1, <2>4, <2>5
<1>11. CASE Explode(i)
  <2>1. /\ pc[i] = "explode" /\ UNCHANGED <<identity, new>> /\ new[i] \in Revs
        /\ pc' = [pc EXCEPT ![i] = "send"]
        /\ tree' = tree \/ \E ready \in BOOLEAN : tree' = Exploded(i, ready)
    BY <1>3, <1>11 DEF Explode, Rival
  <2>2. tree' \in [Repos -> Trees]
    BY <1>1, <1>2, <2>1, ExplodedTree
  <2> QED
    BY <1>2, <2>1, <2>2
<1> QED
  BY <1>6, <1>7, <1>8, <1>9, <1>10, <1>11 DEF Worker

\* Other repositories are not touched.
LEMMA WorkerOthers ==
  ASSUME SyncInv, NEW i \in Slots, Worker(i), NEW r \in Repos \ {Repo(i)}
  PROVE  Clean(r)' /\ Repaired(r)'
<1>1. /\ UNCHANGED req /\ main # "idle" /\ tree'[r] = tree[r] /\ identity'[r] = identity[r]
      /\ \A j \in Slots \ {i} : pc'[j] = pc[j] /\ new'[j] = new[j]
      /\ failed \subseteq failed' /\ dropped \subseteq dropped'
  BY WorkerFrame
<1>2. Of(r)' = Of(r) /\ Of(r) \subseteq Slots \ {i}
  BY <1>1, OfSlots DEF SyncInv, Of, Repo
<1>3. Clean(r) /\ Repaired(r)
  BY <1>1 DEF SyncInv
<1>4. \A j \in Of(r) : pc'[j] = pc[j] /\ new'[j] = new[j]
  BY <1>1, <1>2
<1>5. Agree(r)' <=> Agree(r)
  BY <1>2, <1>4 DEF Agree
<1>6. \A steps : At(r, steps)' <=> At(r, steps)
  BY <1>2, <1>4 DEF At
<1>7. Clean(r)'
  BY <1>1, <1>2, <1>3, <1>4, <1>5 DEF Clean
<1>8. Repaired(r)'
  <2>1. SUFFICES ASSUME (req.force /\ Agree(r) /\ Of(r) \cap (failed \cup dropped) = {})'
                 PROVE  (\A k \in Of(r) :
      /\ pc[k] \in {"rmtree", "unpack", "explode", "send", "done"} => identity[r] = new[k]
      /\ pc[k] \in {"unpack", "explode", "send", "done"} => tree[r].revs \subseteq {new[k]}
      /\ pc[k] \in {"explode", "send", "done"} /\ ~At(r, {"rmtree", "unpack"})
           => tree[r].revs = {new[k]} /\ tree[r].whole = TRUE
      /\ pc[k] \in {"send", "done"} /\ ~At(r, {"rmtree", "unpack", "explode"})
           => tree[r].ready = TRUE)'
    BY DEF Repaired
  <2>2. req.force /\ Agree(r) /\ Of(r) \cap (failed \cup dropped) = {}
    BY <1>1, <1>2, <1>5, <2>1
  <2> QED
    BY <1>1, <1>2, <1>3, <1>4, <1>6, <2>2 DEF Repaired
<1> QED
  BY <1>7, <1>8

\* The new tree of a repository is only mixed with what a dropped deletion left.
LEMMA WorkerClean ==
  ASSUME SyncInv, NEW i \in Slots, Worker(i)
  PROVE  Clean(Repo(i))'
<1> DEFINE r == Repo(i)
<1>1. /\ UNCHANGED req /\ r' = r /\ r \in Repos /\ main # "idle" /\ i \in Of(r)
      /\ \A j \in Slots \ {i} : pc'[j] = pc[j] /\ new'[j] = new[j]
      /\ new'[i] = new[i] \/ pc[i] = "fetch"
      /\ dropped \subseteq dropped'
  BY WorkerFrame DEF Repo
<1>2. SUFFICES ASSUME Agree(r)', Of(r)' \cap dropped' = {}, NEW j \in Of(r), pc'[j] = "unpack"
               PROVE  tree'[r].revs \subseteq {new'[j]}
  BY <1>1 DEF Clean, Of
<1>3. Of(r)' = Of(r) /\ Of(r) \subseteq Slots /\ Agree(r) /\ Of(r) \cap dropped = {}
  BY <1>1, <1>2, AgreeBack, OfSlots DEF SyncInv, Of
<1>4. \A k \in Of(r) : pc[k] = "unpack" => tree[r].revs \subseteq {new[k]} /\ new[k] \in Revs
  BY <1>1, <1>3 DEF SyncInv, Clean, LocalTypes
<1>5. new'[j] \in Revs
  BY <1>2, <1>3, WorkerTypes DEF LocalTypes
<1>6. /\ tree \in [Repos -> Trees] /\ pc \in [Slots -> Steps] /\ new \in [Slots -> LocalRevs]
      /\ NoTree.revs = {} /\ i \in Slots /\ j \in Slots
  BY <1>3 DEF SyncInv, LocalTypes, ErrorInv, Types, NoTree
<1> USE DEF Goto, Fail, Drop, local
<1>7. CASE RmTree(i)
  BY <1>1, <1>2, <1>3, <1>6, <1>7 DEF RmTree
<1>8. CASE Unpack(i)
  <2>1. pc[i] = "unpack" /\ UNCHANGED new /\ pc'[i] # "unpack"
    BY <1>6, <1>8 DEF Unpack
  <2>2. j # i /\ pc[j] = "unpack" /\ new[j] \in Revs /\ new[i] \in Revs
    BY <1>1, <1>2, <1>4, <1>6, <2>1
  <2>3. new[j] = new[i]
    BY <1>1, <1>3, <2>2, SameNew
  <2>4. PICK whole \in BOOLEAN : tree' = Unpacked(i, whole)
    BY <1>8 DEF Unpack, Rival
  <2>5. tree'[r].revs = tree[r].revs \cup {new[i]}
    <3> DEFINE ready == whole /\ r \in V2
    <3>1. tree'[r] = [revs |-> tree[r].revs \cup {new[i]}, whole |-> whole, ready |-> ready]
      BY <1>1, <2>2, <2>4, UnpackedTree
    <3> HIDE DEF ready
    <3> QED
      BY <3>1
  <2> QED
    BY <1>1, <1>4, <2>1, <2>3, <2>5
<1>9. CASE Explode(i)
  <2>1. pc[i] = "explode" /\ UNCHANGED new /\ pc'[i] # "unpack"
    BY <1>6, <1>9 DEF Explode
  <2>2. pc[j] = "unpack"
    BY <1>1, <1>2, <1>6, <2>1
  <2>3. tree' = tree \/ \E ready \in BOOLEAN : tree' = Exploded(i, ready)
    BY <1>9 DEF Explode, Rival
  <2>4. tree'[r].revs = tree[r].revs
    <3>1. ASSUME NEW ready \in BOOLEAN, tree' = Exploded(i, ready)
          PROVE  tree'[r].revs = tree[r].revs
      <4>1. tree'[r] = [revs |-> tree[r].revs, whole |-> tree[r].whole, ready |-> ready]
        BY <1>1, <3>1, ExplodedTree
      <4> QED
        BY <4>1
    <3> QED
      BY <2>3, <3>1
  <2> QED
    BY <1>4, <2>1, <2>2, <2>4
<1>10. CASE Acquire(i) \/ Read(i) \/ Fetch(i) \/ Docs(i) \/ Copy(i) \/ Send(i)
  <2>1. UNCHANGED tree /\ pc'[i] # "unpack"
    BY <1>6, <1>10 DEF Acquire, Read, Fetch, Docs, Copy, Send
  <2>2. j # i /\ pc[j] = "unpack" /\ new'[j] = new[j]
    BY <1>1, <1>2, <1>6, <2>1
  <2> QED
    BY <1>4, <2>1, <2>2
<1> QED
  BY <1>7, <1>8, <1>9, <1>10 DEF Worker

LEMMA WorkerRepaired ==
  ASSUME SyncInv, NEW i \in Slots, Worker(i)
  PROVE  Repaired(Repo(i))'
<1> DEFINE r == Repo(i)
           Done(k) ==
      /\ pc[k] \in {"rmtree", "unpack", "explode", "send", "done"} => identity[r] = new[k]
      /\ pc[k] \in {"unpack", "explode", "send", "done"} => tree[r].revs \subseteq {new[k]}
      /\ pc[k] \in {"explode", "send", "done"} /\ ~At(r, {"rmtree", "unpack"})
           => tree[r].revs = {new[k]} /\ tree[r].whole = TRUE
      /\ pc[k] \in {"send", "done"} /\ ~At(r, {"rmtree", "unpack", "explode"})
           => tree[r].ready = TRUE
           DoneAfter(k) ==
      /\ pc'[k] \in {"rmtree", "unpack", "explode", "send", "done"} => identity'[r] = new'[k]
      /\ pc'[k] \in {"unpack", "explode", "send", "done"} => tree'[r].revs \subseteq {new'[k]}
      /\ pc'[k] \in {"explode", "send", "done"} /\ ~At(r, {"rmtree", "unpack"})'
           => tree'[r].revs = {new'[k]} /\ tree'[r].whole = TRUE
      /\ pc'[k] \in {"send", "done"} /\ ~At(r, {"rmtree", "unpack", "explode"})'
           => tree'[r].ready = TRUE
<1>1. /\ UNCHANGED req /\ r' = r /\ r \in Repos /\ main # "idle" /\ i \in Of(r)
      /\ \A j \in Slots \ {i} : pc'[j] = pc[j] /\ new'[j] = new[j]
      /\ new'[i] = new[i] \/ pc[i] = "fetch"
      /\ failed \subseteq failed' /\ dropped \subseteq dropped'
  BY WorkerFrame DEF Repo
<1>2. SUFFICES ASSUME req.force, Agree(r)', Of(r)' \cap (failed' \cup dropped') = {}, NEW k \in Of(r)
               PROVE  DoneAfter(k)
  BY <1>1 DEF Repaired, Of
<1>3. /\ Of(r)' = Of(r) /\ Of(r) \subseteq Slots /\ Agree(r)
      /\ Of(r) \cap (failed \cup dropped) = {} /\ i \notin failed' /\ i \notin dropped'
  BY <1>1, <1>2, AgreeBack, OfSlots DEF SyncInv, Of
<1>4. \A j \in Of(r) : Done(j)
  BY <1>1, <1>2, <1>3 DEF SyncInv, Repaired
<1>5. /\ tree \in [Repos -> Trees] /\ pc \in [Slots -> Steps] /\ new \in [Slots -> LocalRevs]
      /\ identity \in [Repos -> LocalRevs] /\ i \in Slots /\ k \in Slots
  BY <1>3 DEF SyncInv, LocalTypes, ErrorInv, Types
<1>6. \A j \in Of(r) :
        pc[j] \in {"docs", "copy", "rmtree", "unpack", "explode", "send", "done"}
          => new[j] \in Revs
  BY <1>2, <1>3 DEF SyncInv, LocalTypes
<1>7. \A j \in Of(r) : new[i] \in Revs /\ new[j] \in Revs => new[j] = new[i]
  BY <1>1, <1>3, SameNew
<1>8. \A steps : At(r, steps)' <=> pc'[i] \in steps \/ \E j \in Of(r) \ {i} : pc[j] \in steps
  BY <1>1, <1>3 DEF At
<1>9. \A steps : At(r, steps) <=> pc[i] \in steps \/ \E j \in Of(r) \ {i} : pc[j] \in steps
  BY <1>1 DEF At
<1>10. \A steps : Rival(i, steps) <=> \E j \in Of(r) \ {i} : pc[j] \in steps
  BY DEF Rival
<1> HIDE DEF r
<1> USE DEF Goto, Fail, Drop, local
\* A step of a goroutine that has not reached repository.yaml.
<1>11. CASE Acquire(i) \/ Read(i) \/ Fetch(i) \/ Docs(i)
  <2>1. /\ UNCHANGED <<tree, identity>>
        /\ pc[i] \in {"acquire", "read", "fetch", "docs"}
        /\ pc'[i] \in {"read", "fetch", "docs", "copy"}
    <3>1. CASE Acquire(i)
      BY <1>5, <3>1 DEF Acquire
    <3>2. CASE Read(i)
      BY <1>3, <1>5, <3>2 DEF Read
    <3>3. CASE Fetch(i)
      <4>1. Goto(i, IF Is2Update(i) \/ req.force THEN "docs" ELSE "send")
        BY <1>3, <3>3 DEF Fetch
      <4>2. pc' = [pc EXCEPT ![i] = "docs"]
        BY <1>2, <4>1
      <4> QED
        BY <1>5, <3>3, <4>2 DEF Fetch
    <3>4. CASE Docs(i)
      BY <1>3, <1>5, <3>4 DEF Docs
    <3> QED
      BY <1>11, <3>1, <3>2, <3>3, <3>4
  <2>2. CASE k = i
    BY <2>1, <2>2
  <2>3. CASE k # i
    <3>1. pc'[k] = pc[k] /\ new'[k] = new[k] /\ Done(k)
      BY <1>1, <1>4, <1>5, <2>3
    <3>2. /\ At(r, {"rmtree", "unpack"})' <=> At(r, {"rmtree", "unpack"})
          /\ At(r, {"rmtree", "unpack", "explode"})' <=> At(r, {"rmtree", "unpack", "explode"})
      BY <1>8, <1>9, <2>1
    <3> QED
      BY <2>1, <3>1, <3>2
  <2> QED
    BY <2>2, <2>3
<1>12. CASE Send(i)
  <2>1. /\ UNCHANGED <<tree, identity, new>> /\ pc[i] = "send" /\ pc'[i] = "done"
    BY <1>5, <1>12 DEF Send
  <2>2. /\ At(r, {"rmtree", "unpack"})' <=> At(r, {"rmtree", "unpack"})
        /\ At(r, {"rmtree", "unpack", "explode"})' <=> At(r, {"rmtree", "unpack", "explode"})
    BY <1>8, <1>9, <2>1
  <2>3. pc'[k] = pc[k] \/ (pc[k] = "send" /\ pc'[k] = "done")
    <3>1. CASE k = i
      BY <2>1, <3>1
    <3>2. CASE k # i
      BY <1>1, <1>5, <3>2
    <3> QED
      BY <3>1, <3>2
  <2>4. Done(k)
    BY <1>4
  <2> QED
    BY <2>1, <2>2, <2>3, <2>4
<1>13. CASE Copy(i)
  <2>1. /\ pc[i] = "copy" /\ pc'[i] = "rmtree" /\ UNCHANGED <<tree, new>>
        /\ identity'[r] = new[i]
    BY <1>1, <1>3, <1>5, <1>13 DEF Copy, r
  <2>2. At(r, {"rmtree", "unpack"})' /\ At(r, {"rmtree", "unpack", "explode"})'
    BY <1>8, <2>1
  <2>3. k # i => pc'[k] = pc[k] /\ Done(k)
    BY <1>1, <1>4, <1>5
  <2>4. pc[k] \in {"rmtree", "unpack", "explode", "send", "done"} => new[k] = new[i]
    BY <1>1, <1>6, <1>7, <2>1
  <2> QED
    BY <2>1, <2>2, <2>3, <2>4
<1>14. CASE RmTree(i)
  <2>1. /\ pc[i] = "rmtree" /\ pc'[i] = "unpack" /\ UNCHANGED <<identity, new>>
        /\ tree'[r].revs = {}
    BY <1>1, <1>3, <1>5, <1>14 DEF RmTree, NoTree, r
  <2>2. At(r, {"rmtree", "unpack"})' /\ At(r, {"rmtree", "unpack", "explode"})'
    BY <1>8, <2>1
  <2>3. Done(k) /\ (k # i => pc'[k] = pc[k])
    BY <1>1, <1>4, <1>5
  <2> QED
    BY <2>1, <2>2, <2>3
<1>15. CASE Unpack(i)
  <2>1. /\ pc[i] = "unpack" /\ UNCHANGED <<identity, new>> /\ new[i] \in Revs
        /\ pc' = [pc EXCEPT ![i] = IF r \in V2 THEN "send" ELSE "explode"]
        /\ \E whole \in {TRUE, ~Rival(i, {"rmtree", "unpack"})} : tree' = Unpacked(i, whole)
    BY <1>1, <1>3, <1>6, <1>15 DEF Unpack, r
  <2>2. PICK whole \in BOOLEAN :
          /\ tree' = Unpacked(i, whole)
          /\ whole \/ Rival(i, {"rmtree", "unpack"})
    BY <2>1 DEF Rival
  <2> DEFINE ready == whole /\ r \in V2
  <2>3. tree'[r] = [revs |-> tree[r].revs \cup {new[i]}, whole |-> whole, ready |-> ready]
    BY <1>1, <1>5, <2>1, <2>2, UnpackedTree DEF r
  <2>4. ready <=> whole /\ r \in V2
    OBVIOUS
  <2> HIDE DEF ready
  <2>5. tree'[r].revs = {new[i]} /\ tree'[r].whole = whole /\ tree'[r].ready = ready
    <3>1. tree[r].revs \subseteq {new[i]}
      BY <1>1, <1>4, <2>1
    <3> QED
      BY <2>3, <3>1
  <2>6. ~At(r, {"rmtree", "unpack"})' => whole = TRUE
    BY <1>8, <1>10, <2>2
  <2>7. pc'[k] \in {"rmtree", "unpack", "explode", "send", "done"} =>
          new[k] = new[i] /\ identity[r] = new[i]
    BY <1>1, <1>4, <1>5, <1>6, <1>7, <2>1
  <2>8. pc'[i] = (IF r \in V2 THEN "send" ELSE "explode")
    BY <1>5, <2>1
  <2>9. ~At(r, {"rmtree", "unpack", "explode"})' => r \in V2
    BY <1>8, <2>8
  <2>10. ~At(r, {"rmtree", "unpack", "explode"})' => ~At(r, {"rmtree", "unpack"})'
    BY <1>8
  <2>11. ~At(r, {"rmtree", "unpack", "explode"})' => ready = TRUE
    <3>1. (TRUE /\ TRUE) = TRUE
      OBVIOUS
    <3>2. r \in V2 /\ whole = TRUE => ready = TRUE
      BY Zenon DEF ready
    <3> QED
      BY <2>6, <2>9, <2>10, <3>2
  <2> QED
    BY <2>1, <2>5, <2>6, <2>7, <2>11
<1>16. CASE Explode(i)
  <2>1. /\ pc[i] = "explode" /\ UNCHANGED <<identity, new>> /\ pc'[i] = "send"
    BY <1>5, <1>16 DEF Explode
  <2>2. PICK ready \in BOOLEAN :
          /\ tree' = Exploded(i, ready)
          /\ ready \/ Rival(i, {"rmtree", "unpack", "explode"}) \/ tree[r].revs = {}
    BY <1>1, <1>3, <1>16 DEF Explode, Rival, r
  <2>3. /\ tree'[r].revs = tree[r].revs /\ tree'[r].whole = tree[r].whole
        /\ tree'[r].ready = ready
    <3>1. tree'[r] = [revs |-> tree[r].revs, whole |-> tree[r].whole, ready |-> ready]
      BY <1>1, <1>5, <2>2, ExplodedTree DEF r
    <3> QED
      BY <3>1
  <2>4. At(r, {"rmtree", "unpack"})' <=> At(r, {"rmtree", "unpack"})
    BY <1>8, <1>9, <2>1
  <2>5. ~At(r, {"rmtree", "unpack"}) => tree[r].revs = {new[i]}
    BY <1>1, <1>4, <2>1
  <2>6. ~At(r, {"rmtree", "unpack", "explode"})' => ready = TRUE
    <3>1. ~At(r, {"rmtree", "unpack", "explode"})' =>
            ~Rival(i, {"rmtree", "unpack", "explode"}) /\ ~At(r, {"rmtree", "unpack"})
      BY <1>8, <1>10, <2>4
    <3> QED
      BY <2>2, <2>5, <3>1
  <2>7. pc'[k] = pc[k] \/ (pc[k] = "explode" /\ pc'[k] = "send")
    <3>1. CASE k = i
      BY <2>1, <3>1
    <3>2. CASE k # i
      BY <1>1, <1>5, <3>2
    <3> QED
      BY <3>1, <3>2
  <2>8. Done(k)
    BY <1>4
  <2> QED
    BY <2>1, <2>3, <2>4, <2>6, <2>7, <2>8
<1> QED
  BY <1>11, <1>12, <1>13, <1>14, <1>15, <1>16 DEF Worker

LEMMA WorkerSync ==
  ASSUME SyncInv, NEW i \in Slots, Worker(i)
  PROVE  SyncInv'
<1>1. ErrorInv'
  BY SendKeeps, WorkerMoves, MoveKeeps DEF SyncInv
<1>2. UNCHANGED <<main, req>> /\ main # "idle" /\ Repo(i)' = Repo(i)
  BY WorkerFrame DEF Repo
<1>3. \A r \in Repos : Clean(r)' /\ Repaired(r)'
  <2>1. Clean(Repo(i))' /\ Repaired(Repo(i))'
    BY WorkerClean, WorkerRepaired
  <2>2. \A r \in Repos \ {Repo(i)} : Clean(r)' /\ Repaired(r)'
    BY WorkerOthers
  <2>3. ASSUME NEW r \in Repos, r = Repo(i) PROVE Clean(r)' /\ Repaired(r)'
    BY <1>2, <2>1, <2>3 DEF Clean, Repaired, Agree, At, Of
  <2> QED
    BY <2>2, <2>3
<1>4. ForcedUpdateRepairs'
  BY <1>2 DEF ForcedUpdateRepairs
<1> QED
  BY <1>1, <1>2, <1>3, <1>4, WorkerTypes DEF SyncInv

\* Goroutines cut off in the middle of a write leave files of the same types.
LEMMA InterruptedTypes ==
  ASSUME SyncInv, Interrupted
  PROVE  identity' \in [Repos -> LocalRevs] /\ tree' \in [Repos -> Trees]
<1>1. PICK cut \in SUBSET Slots :
        LET at(step, r) == {i \in cut : pc[i] = step /\ Repo(i) = r}
        IN /\ identity' \in {id \in [Repos -> LocalRevs] : \A r \in Repos :
                id[r] = identity[r] \/ \E i \in at("copy", r) : id[r] \in {Torn, new[i]}}
           /\ tree' = [r \in Repos |->
                IF at("rmtree", r) \cup at("unpack", r) = {} THEN tree[r]
                ELSE [revs |-> tree[r].revs \cup {new[i] : i \in at("unpack", r)},
                      whole |-> FALSE, ready |-> tree[r].ready]]
  BY DEF Interrupted
<1> DEFINE at(step, r) == {i \in cut : pc[i] = step /\ Repo(i) = r}
           torn(r) == [revs |-> tree[r].revs \cup {new[i] : i \in at("unpack", r)},
                       whole |-> FALSE, ready |-> tree[r].ready]
<1>2. tree \in [Repos -> Trees] /\ \A i \in Slots : pc[i] = "unpack" => new[i] \in Revs
  BY DEF SyncInv, LocalTypes
<1>3. identity' \in [Repos -> LocalRevs]
  BY <1>1
<1>4. ASSUME NEW r \in Repos PROVE torn(r) \in Trees
  <2>1. tree[r].revs \subseteq Revs /\ tree[r].ready \in BOOLEAN
    BY TreeOf
  <2>2. {new[i] : i \in at("unpack", r)} \subseteq Revs
    BY <1>2
  <2> QED
    BY <2>1, <2>2 DEF Trees
<1>5. tree' = [r \in Repos |-> IF at("rmtree", r) \cup at("unpack", r) = {} THEN tree[r] ELSE torn(r)]
  BY <1>1
<1> HIDE DEF torn, at
<1>6. tree' \in [Repos -> Trees]
  BY <1>2, <1>4, <1>5
<1> QED
  BY <1>3, <1>6

\* A process that stops.
LEMMA StopSync ==
  ASSUME SyncInv, ErrorInv', NEW how, how # "ok", Stop(how), UNCHANGED <<remote, req>>
  PROVE  SyncInv'
<1>1. /\ main' = "idle" /\ result' # "ok" /\ Interrupted /\ dropped' = {}
      /\ pc' = [i \in Slots |-> "none"] /\ new' = [i \in Slots |-> NoRev]
  BY DEF Stop, Cleared
<1>2. LocalTypes'
  BY <1>1, InterruptedTypes DEF SyncInv, LocalTypes, LocalRevs
<1> QED
  BY <1>1, <1>2 DEF SyncInv, ForcedUpdateRepairs

\* A step of main that touches no file while the command goes on.
LEMMA RunningSync ==
  ASSUME SyncInv, ErrorInv', main # "idle", main' # "idle",
         UNCHANGED <<remote, identity, tree, new, req, failed, dropped>>,
         \A j \in Slots : pc'[j] = pc[j] \/ (pc[j] = "none" /\ pc'[j] = "acquire")
  PROVE  SyncInv'
<1>1. LocalTypes'
  BY DEF SyncInv, LocalTypes
<1>2. ASSUME NEW r \in Repos PROVE Clean(r)' /\ Repaired(r)'
  <2>1. Of(r)' = Of(r) /\ Of(r) \subseteq Slots /\ (Agree(r)' <=> Agree(r))
    BY OfSlots DEF SyncInv, Of, Agree
  <2>2. Clean(r) /\ Repaired(r)
    BY DEF SyncInv
  <2>3. /\ At(r, {"rmtree", "unpack"})' <=> At(r, {"rmtree", "unpack"})
        /\ At(r, {"rmtree", "unpack", "explode"})' <=> At(r, {"rmtree", "unpack", "explode"})
    BY <2>1 DEF At
  <2>4. Clean(r)'
    BY <2>1, <2>2 DEF Clean
  <2>5. Repaired(r)'
    BY <2>1, <2>2, <2>3 DEF Repaired
  <2> QED
    BY <2>4, <2>5
<1> QED
  BY <1>1, <1>2 DEF SyncInv, ForcedUpdateRepairs

LEMMA UpdateSync ==
  ASSUME SyncInv, NEW r \in Requests, Update(r)
  PROVE  SyncInv'
<1>1. ErrorInv'
  BY UpdateKeeps DEF SyncInv
<1>2. /\ main' = "spawn" /\ UNCHANGED <<remote, identity, tree>> /\ dropped' = {}
      /\ pc' = [i \in Slots |-> "none"] /\ new' = [i \in Slots |-> NoRev]
  BY DEF Update, Cleared, local
<1>3. LocalTypes'
  BY <1>2 DEF SyncInv, LocalTypes, LocalRevs
<1>4. ASSUME NEW q \in Repos PROVE Clean(q)' /\ Repaired(q)'
  <2>1. \A i \in Of(q)' : pc'[i] = "none"
    BY <1>1, <1>2, RequestArgs DEF ErrorInv, Types, Of, Slots
  <2> QED
    BY <2>1 DEF Clean, Repaired
<1>5. ForcedUpdateRepairs'
  BY <1>2 DEF ForcedUpdateRepairs
<1> QED
  BY <1>1, <1>3, <1>4, <1>5 DEF SyncInv

LEMMA SpawnSync ==
  ASSUME SyncInv, Spawn
  PROVE  SyncInv'
<1>1. /\ ErrorInv' /\ main = "spawn"
      /\ UNCHANGED <<main, remote, identity, tree, new, req, failed, dropped>>
  BY SpawnKeeps DEF SyncInv, Spawn, local
<1>2. next \in Slots /\ pc[next] = "none" /\ pc \in [Slots -> Steps]
  BY <1>1, RequestArgs DEF Spawn, SyncInv, ErrorInv, Types, StartedRight, Slots
<1>3. \A j \in Slots : pc'[j] = pc[j] \/ (pc[j] = "none" /\ pc'[j] = "acquire")
  BY <1>2 DEF Spawn
<1> QED
  BY <1>1, <1>3, RunningSync

LEMMA FinishSync ==
  ASSUME SyncInv, Finish
  PROVE  SyncInv'
<1>1. /\ main = "collect" /\ main' = "idle" /\ got = Started /\ \A i \in Started : pc[i] = "done"
      /\ result' = (IF withErr THEN "error" ELSE "ok") /\ pc' = [i \in Slots |-> "none"]
      /\ UNCHANGED <<remote, identity, tree, new, failed, dropped, req, withErr>>
  BY DEF Finish, local
<1>2. ErrorInv'
  BY FinishKeeps DEF SyncInv
<1>3. LocalTypes'
  BY <1>1 DEF SyncInv, LocalTypes
<1>4. ForcedUpdateRepairs'
  <2>1. SUFFICES ASSUME result' = "ok", req.force, ~req.ignore, NEW r \in Requested,
                        Agree(r), Of(r) \cap dropped = {}
                 PROVE  Synced(r)
    BY <1>1 DEF ForcedUpdateRepairs, Requested, Agree, Of, Synced
  <2>2. failed = {}
    BY <1>1, <1>2, <2>1 DEF ErrorInv, ErrorsReported
  <2>3. PICK i \in DOMAIN req.args : req.args[i] = r /\ r \in Repos
    BY DEF Requested
  <2>4. \A j \in Of(r) : j \in Slots /\ pc[j] = "done"
    <3>1. SUFFICES ASSUME NEW j \in Of(r) PROVE j \in Slots /\ pc[j] = "done"
      OBVIOUS
    <3>2. /\ DOMAIN req.args = 1 .. Len(req.args) /\ Len(req.args) \in Nat
          /\ Len(req.args) <= MaxArgs /\ MaxArgs \in Nat
          /\ next \in Nat \ {0} /\ next > Len(req.args)
      BY <1>1, RequestArgs DEF SyncInv, ErrorInv, Types, AllSpawned
    <3>3. j \in DOMAIN req.args /\ req.args[j] \in Repos
      BY <2>3 DEF Of
    <3>4. j \in Slots /\ j < next
      BY <3>2, <3>3 DEF Slots
    <3>5. j \in Started
      BY <1>1, <3>3, <3>4 DEF SyncInv, ErrorInv, StartedRight, Started
    <3> QED
      BY <1>1, <3>4, <3>5
  <2>5. i \in Of(r) /\ Repaired(r)
    BY <1>1, <2>3 DEF SyncInv, Of
  <2>6. ~At(r, {"rmtree", "unpack"}) /\ ~At(r, {"rmtree", "unpack", "explode"})
    BY <2>4 DEF At
  <2>7. /\ identity[r] = new[i] /\ tree[r].revs = {new[i]}
        /\ tree[r].whole = TRUE /\ tree[r].ready = TRUE
    BY <2>1, <2>2, <2>4, <2>5, <2>6 DEF Repaired
  <2>8. new[i] \in Revs
    BY <1>1, <2>1, <2>2, <2>4, <2>5 DEF SyncInv, LocalTypes
  <2>9. tree[r] = Tree(new[i])
    BY <2>3, <2>7, TreeOf DEF Tree, Trees
  <2> QED
    BY <2>7, <2>8, <2>9 DEF Synced
<1> QED
  BY <1>1, <1>2, <1>3, <1>4 DEF SyncInv

LEMMA NextSync == SyncInv /\ [Next]_vars => SyncInv'
<1> SUFFICES ASSUME SyncInv, [Next]_vars PROVE SyncInv'
  OBVIOUS
<1>0. ErrorInv'
  BY NextKeeps DEF SyncInv
<1>1. ASSUME NEW r \in Requests, Update(r) PROVE SyncInv'
  BY <1>1, UpdateSync
<1>2. CASE Main
  <2>1. CASE Spawned \/ Collect
    <3>1. /\ main # "idle" /\ main' # "idle"
          /\ UNCHANGED <<remote, identity, tree, new, req, failed, dropped, pc>>
      BY <2>1 DEF Spawned, Collect, local
    <3> QED
      BY <1>0, <3>1, RunningSync
  <2>2. CASE UnknownName
    BY <1>0, <2>2, StopSync DEF UnknownName
  <2> QED
    BY <1>2, <2>1, <2>2, SpawnSync, FinishSync DEF Main
<1>3. ASSUME NEW i \in Slots, Worker(i) PROVE SyncInv'
  BY <1>3, WorkerSync
<1>4. CASE Crash
  BY <1>0, <1>4, StopSync DEF Crash
<1>5. CASE /\ remote' \in [Repos -> Revs]
           /\ UNCHANGED <<local, pc, new, failed, dropped, ctl>>
  BY <1>0, <1>5 DEF SyncInv, LocalTypes, Clean, Repaired, Agree, At, Of, Synced,
     ForcedUpdateRepairs, Requested, local, ctl
<1>6. ASSUME NEW r \in Repos, Publish(r) PROVE SyncInv'
  BY <1>5, <1>6 DEF Publish, SyncInv, LocalTypes
<1>7. CASE UNCHANGED vars
  BY <1>5, <1>7 DEF vars, SyncInv, LocalTypes, local, ctl
<1> QED
  BY <1>1, <1>2, <1>3, <1>4, <1>6, <1>7 DEF Next

\* ForcedUpdateRepairs: a forced update that reports success leaves every
\* repository it names, even several times, with the whole tree of the revision
\* in repository.yaml, from whatever files earlier failures and kills left,
\* unless Sync dropped an error or its goroutines read different revisions.
THEOREM ForcedUpdateRepairsCorrect == Spec => []ForcedUpdateRepairs
<1>1. SyncInv => ForcedUpdateRepairs
  BY DEF SyncInv
<1> QED
  BY SyncInit, NextSync, <1>1, PTL DEF Spec

-----------------------------------------------------------------------------
(* Revisions are not mixed.                                                *)

\* The tree of r holds what it held, or the files of at most one revision.
Unmixed(r) == tree'[r].revs = tree[r].revs \/ \E v \in LocalRevs : tree'[r].revs \subseteq {v}

LEMMA AtMostOne ==
  ASSUME NEW v, NEW S, S \subseteq {v}
  PROVE  Cardinality(S) <= 1
<1>1. CASE S = {}
  BY <1>1, FS_EmptySet
<1>2. CASE S = {v}
  BY <1>2, FS_Singleton
<1> QED
  BY <1>1, <1>2

LEMMA WorkerUnmixed ==
  ASSUME SyncInv, NEW i \in Slots, Worker(i), NEW r \in Repos,
         Agree(r), Of(r) \cap dropped = {}
  PROVE  Unmixed(r)
<1>1. /\ main # "idle" /\ Repo(i) \in Repos /\ i \in Of(Repo(i))
      /\ \A q \in Repos \ {Repo(i)} : tree'[q] = tree[q]
  BY WorkerFrame
<1>2. CASE r # Repo(i)
  BY <1>1, <1>2 DEF Unmixed
<1>3. CASE r = Repo(i) /\ RmTree(i)
  <2>1. PICK left \in {NoTree, tree[r], Partial(tree[r])} : tree' = [tree EXCEPT ![r] = left]
    BY <1>3 DEF RmTree
  <2>2. tree'[r] = left
    BY <2>1 DEF SyncInv, LocalTypes
  <2>3. left.revs = {} \/ left.revs = tree[r].revs
    BY <2>1 DEF NoTree, Partial
  <2> QED
    BY <2>2, <2>3 DEF Unmixed, LocalRevs
<1>4. CASE r = Repo(i) /\ Unpack(i)
  <2>1. pc[i] = "unpack" /\ new[i] \in Revs /\ tree[r].revs \subseteq {new[i]}
    BY <1>1, <1>4 DEF Unpack, SyncInv, LocalTypes, Clean
  <2>2. PICK whole \in BOOLEAN : tree' = Unpacked(i, whole)
    BY <1>4 DEF Unpack, Rival
  <2>3. tree'[r].revs = tree[r].revs \cup {new[i]}
    <3> DEFINE ready == whole /\ Repo(i) \in V2
    <3>1. tree'[r] = [revs |-> tree[r].revs \cup {new[i]}, whole |-> whole, ready |-> ready]
      BY <1>1, <1>4, <2>1, <2>2, UnpackedTree
    <3> HIDE DEF ready
    <3> QED
      BY <3>1
  <2> QED
    BY <2>1, <2>3 DEF Unmixed, LocalRevs
<1>5. CASE r = Repo(i) /\ Explode(i)
  <2>1. CASE tree' = tree
    BY <2>1 DEF Unmixed
  <2>2. ASSUME NEW ready \in BOOLEAN, tree' = Exploded(i, ready) PROVE Unmixed(r)
    <3>1. tree'[r] = [revs |-> tree[r].revs, whole |-> tree[r].whole, ready |-> ready]
      BY <1>1, <1>5, <2>2, ExplodedTree
    <3> QED
      BY <3>1 DEF Unmixed
  <2>3. tree' = tree \/ \E ready \in BOOLEAN : tree' = Exploded(i, ready)
    BY <1>5 DEF Explode, Rival
  <2> QED
    BY <2>1, <2>2, <2>3
<1>6. CASE UNCHANGED tree
  BY <1>6 DEF Unmixed
<1> QED
  BY <1>2, <1>3, <1>4, <1>5, <1>6 DEF Worker, Acquire, Read, Fetch, Docs, Copy, Send, local

LEMMA InterruptedUnmixed ==
  ASSUME SyncInv, main # "idle", Interrupted, NEW r \in Repos,
         Agree(r), Of(r) \cap dropped = {}
  PROVE  Unmixed(r)
<1>1. PICK cut \in SUBSET Slots :
        LET at(step, q) == {i \in cut : pc[i] = step /\ Repo(i) = q}
        IN tree' = [q \in Repos |->
                IF at("rmtree", q) \cup at("unpack", q) = {} THEN tree[q]
                ELSE [revs |-> tree[q].revs \cup {new[i] : i \in at("unpack", q)},
                      whole |-> FALSE, ready |-> tree[q].ready]]
  BY DEF Interrupted
<1> DEFINE unpacking == {i \in cut : pc[i] = "unpack" /\ Repo(i) = r}
<1>2. tree'[r].revs = tree[r].revs \/ tree'[r].revs = tree[r].revs \cup {new[i] : i \in unpacking}
  BY <1>1
<1>3. CASE unpacking = {}
  BY <1>2, <1>3 DEF Unmixed
<1>4. CASE unpacking # {}
  <2>1. PICK i \in unpacking : TRUE
    BY <1>4
  <2>2. \A j \in unpacking : j \in Of(r) /\ pc[j] = "unpack" /\ new[j] \in Revs
    BY DEF SyncInv, ErrorInv, StartedRight, LocalTypes, Of, Repo
  <2>3. tree[r].revs \subseteq {new[i]}
    BY <2>1, <2>2 DEF SyncInv, Clean
  <2>4. \A j \in unpacking : new[j] = new[i]
    BY <2>1, <2>2, SameNew
  <2>5. tree'[r].revs \subseteq {new[i]}
    BY <1>2, <2>3, <2>4
  <2> QED
    BY <2>1, <2>2, <2>5 DEF Unmixed, LocalRevs
<1> QED
  BY <1>3, <1>4

LEMMA NextUnmixed ==
  ASSUME SyncInv, [Next]_vars, NEW r \in Repos, Agree(r), Of(r) \cap dropped = {}
  PROVE  Unmixed(r)
<1>1. CASE UNCHANGED tree
  BY <1>1 DEF Unmixed
<1>2. CASE main # "idle" /\ Interrupted
  BY <1>2, InterruptedUnmixed
<1>3. CASE UnknownName \/ Crash
  BY <1>2, <1>3 DEF UnknownName, Crash, Stop
<1>4. ASSUME NEW i \in Slots, Worker(i) PROVE Unmixed(r)
  BY <1>4, WorkerUnmixed
<1> QED
  BY <1>1, <1>3, <1>4 DEF Next, Main, Update, Spawn, Spawned, Collect, Finish, Publish, local, vars

\* TreesNotMixed: no step, a kill included, puts files of a second revision
\* into a tree, even when a command names its repository several times, unless
\* Sync dropped an error of the deletion or the goroutines read two revisions.
THEOREM TreesNotMixedCorrect == Spec => TreesNotMixed
<1>1. ASSUME SyncInv, [Next]_vars, NEW r \in Repos, Cardinality(tree[r].revs) <= 1,
             Agree(r), Of(r) \cap dropped = {}
      PROVE  Cardinality(tree'[r].revs) <= 1
  BY <1>1, NextUnmixed, AtMostOne DEF Unmixed
<1>2. SyncInv /\ [Next]_vars =>
        \A r \in Repos :
          /\ Cardinality(tree[r].revs) <= 1
          /\ Agree(r) /\ Of(r) \cap dropped = {}
          => Cardinality(tree'[r].revs) <= 1
  BY <1>1
<1> QED
  BY SyncInit, NextSync, <1>2, PTL DEF Spec, TreesNotMixed

=================================================================================
