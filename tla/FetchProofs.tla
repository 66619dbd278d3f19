------------------------------ MODULE FetchProofs ------------------------------
(***************************************************************************)
(* The package cache, for all releases, urls, commands, faults and         *)
(* cleanups: a download fails for a reason, and a transaction that starts  *)
(* has its artifacts as published.  FetchInv follows one process: what its *)
(* file is worth at each step of the client as long as no other process    *)
(* touched it, and, from Frame, that what the others do either leaves this *)
(* alone or leaves the mark "shared".                                      *)
(* The search of packages, for all repositories, categories, options and   *)
(* interleavings of its goroutines: nothing is lost or found twice.        *)
(* SearchInv says what each routine has gathered, and that all that was    *)
(* sent is in the channel or received, with as many answers to come as     *)
(* there are repositories that have not sent theirs.                       *)
(***************************************************************************)
EXTENDS Fetch, FiniteSetTheorems, TLAPS

Reasons == {"fault", "cached", "sync", "shared"}
Releases == Nat \ {0}

States == {"idle", "item", "try", "copy", "verify", "failed", "ready"}

ProcType ==
  [pc : States, todo : Seq(Files), asked : SUBSET Files, want : [Files -> Releases],
   url : Nat \ {0}, got : Nat, path : BOOLEAN, sums : BOOLEAN, linked : BOOLEAN,
   fail : BOOLEAN, why : SUBSET Reasons]

\* The artifacts that the miner may find are in Files.
Arts(s) == UNION {UNION {s.repos[r].cats[c].arts : c \in DOMAIN s.repos[r].cats} :
                    r \in DOMAIN s.repos}

\* A routine of the search, with results in A.
RoutineType(A) ==
  [pc : {"idle", "start", "spawn", "collect", "answer", "done"}, next : Nat \ {0},
   acc : A, free : Nat, bad : BOOLEAN]

Routines(s) == [DOMAIN s.repos -> RoutineType(Seq(Arts(s)))]

\* What the search gives the miner.
SearchTypes ==
  /\ search \in Searches
  /\ routine \in Routines(search)
  /\ search.miner =>
       /\ main \in [pc : {"direct", "done"}, at : {1}]
       /\ res \in Seq(Arts(search))

CacheTypes ==
  /\ client \in Clients
  /\ served \in [Files -> Releases] /\ tree \in [Files -> Releases]
  /\ cache \in [Files -> Nat] /\ last \in [Files -> Procs \cup {"none"}]
  /\ proc \in [Procs -> ProcType]

-----------------------------------------------------------------------------
(* The invariant of one process.                                           *)

Shared(p) == "shared" \in proc[p].why
Trusts(p) == proc[p].why \cap {"fault", "sync"} = {}

\* It works with files it asked for.
Working(p) ==
  /\ Range(proc[p].todo) \subseteq proc[p].asked
  /\ proc[p].pc \in {"try", "copy", "verify"} => proc[p].todo # <<>>
  /\ proc[p].pc = "ready" => proc[p].todo = <<>> /\ ~proc[p].fail

\* Nobody writes its file with it.
Alone(p) ==
  proc[p].pc \in {"try", "copy"} /\ ~Shared(p) =>
    \A q \in Others(p, Item(p)) : ~proc[q].linked

\* What it writes, until the copy ends.
Copying(p) ==
  proc[p].pc = "copy" =>
    /\ ~Shared(p) => proc[p].linked /\ last[Item(p)] = p
    /\ proc[p].linked => cache[Item(p)] # None
    /\ "sync" \notin proc[p].why => proc[p].got = proc[p].want[Item(p)]
    /\ proc[p].got \in Releases

\* What Verify will read.
Flags(p) ==
  /\ proc[p].url > 1 => "fault" \in proc[p].why
  /\ proc[p].pc \in {"try", "copy"} /\ proc[p].path => "fault" \in proc[p].why
  /\ proc[p].pc = "item" => ~proc[p].path
  /\ client # "docker" => proc[p].sums

Verifying(p) ==
  proc[p].pc = "verify" /\ ~Shared(p) =>
    /\ Urls > 0 /\ proc[p].why = {} => proc[p].path
    /\ proc[p].path /\ Trusts(p) /\ (client = "docker" \/ "cached" \notin proc[p].why)
         => cache[Item(p)] = proc[p].want[Item(p)]

\* What it has verified stays so.
Verified(p) ==
  ~proc[p].fail /\ ~Shared(p) /\ (client # "docker" \/ Trusts(p)) =>
    \A f \in proc[p].asked \ Range(proc[p].todo) : cache[f] = proc[p].want[f]

Reasoned(p) == Urls > 0 /\ proc[p].fail => proc[p].why # {}

Careful(p) ==
  /\ Working(p) /\ Alone(p) /\ Copying(p)
  /\ Flags(p) /\ Verifying(p) /\ Verified(p) /\ Reasoned(p)

FetchInv == SearchTypes /\ CacheTypes /\ \A p \in Procs : Careful(p)

-----------------------------------------------------------------------------
(* Sequences.                                                              *)

LEMMA HeadTail ==
  ASSUME NEW S, NEW s \in Seq(S), s # <<>>
  PROVE  /\ Head(s) \in S /\ Tail(s) \in Seq(S)
         /\ Head(s) \in Range(s) /\ Range(Tail(s)) \subseteq Range(s)
         /\ Range(s) = Range(Tail(s)) \cup {Head(s)}
<1>1. /\ Head(s) = s[1] /\ 1 \in DOMAIN s /\ Tail(s) \in Seq(S)
      /\ Len(Tail(s)) = Len(s) - 1
      /\ \A i \in 1 .. Len(s) - 1 : Tail(s)[i] = s[i + 1]
      /\ DOMAIN s = 1 .. Len(s) /\ DOMAIN Tail(s) = 1 .. Len(s) - 1 /\ Len(s) \in Nat
  OBVIOUS
<1>2. ASSUME NEW i \in DOMAIN s PROVE s[i] = s[1] \/ \E j \in DOMAIN Tail(s) : s[i] = Tail(s)[j]
  <2>1. CASE i = 1
    BY <2>1
  <2>2. CASE i # 1
    <3>1. i - 1 \in DOMAIN Tail(s) /\ Tail(s)[i - 1] = s[i]
      BY <1>1, <2>2
    <3> QED
      BY <3>1
  <2> QED
    BY <2>1, <2>2
<1>3. ASSUME NEW j \in DOMAIN Tail(s) PROVE j + 1 \in DOMAIN s /\ Tail(s)[j] = s[j + 1]
  BY <1>1
<1>4. Range(Tail(s)) \subseteq Range(s)
  BY <1>3 DEF Range
<1>5. Range(s) \subseteq Range(Tail(s)) \cup {Head(s)}
  BY <1>1, <1>2 DEF Range
<1>6. Head(s) \in Range(s) /\ Head(s) \in S
  BY <1>1 DEF Range
<1> QED
  BY <1>1, <1>4, <1>5, <1>6

\* SetToSeq of a finite set.
LEMMA SetToSeqFacts ==
  ASSUME NEW S, IsFiniteSet(S)
  PROVE  SetToSeq(S) \in Seq(S) /\ Range(SetToSeq(S)) = S /\ IsInjective(SetToSeq(S))
<1> DEFINE n == Cardinality(S)
           s == SetToSeq(S)
<1>1. n \in Nat
  BY FS_CardinalityType
<1>2. PICK f \in [1 .. n -> S] : IsInjective(f)
  <2>1. Bijection(1 .. n, S) # {}
    BY FS_CardinalityType DEF ExistsBijection
  <2> QED
    BY <2>1 DEF Bijection, Injection
<1>3. s \in [1 .. n -> S] /\ IsInjective(s)
  BY <1>2 DEF SetToSeq
<1> HIDE DEF s
<1>4. s \in Surjection(1 .. n, S)
  <2>1. s \in Injection(1 .. n, S)
    BY <1>3 DEF Injection
  <2>2. Cardinality(1 .. n) = n
    BY <1>1, FS_Interval
  <2> QED
    BY <2>1, <2>2, FS_Injection
<1>5. Range(s) = S
  BY <1>3, <1>4 DEF Range, Surjection
<1> QED
  BY <1>1, <1>3, <1>5 DEF s

LEMMA SetToSeqType ==
  ASSUME NEW T, NEW S, S \subseteq T, IsFiniteSet(S)
  PROVE  SetToSeq(S) \in Seq(T)
BY SetToSeqFacts

-----------------------------------------------------------------------------
(* The search.                                                             *)

\* What a category sends is found among the artifacts of the search.
LEMMA ResultType ==
  ASSUME SearchTypes, NEW r \in DOMAIN Repos, NEW c \in DOMAIN Cats(r)
  PROVE  Result(r, c) \in Seq(Arts(search))
<1> DEFINE S == {a \in Cats(r)[c].arts : Directory(a) /\ Matches(a)}
<1>1. IsFiniteSet(Cats(r)[c].arts) /\ S \subseteq Cats(r)[c].arts
  BY SearchAssumption DEF SearchTypes, SearchAssumption, Repos, Cats
<1>2. IsFiniteSet(S)
  BY <1>1, FS_Subset
<1>3. S \subseteq Arts(search)
  BY <1>1 DEF Arts, Repos, Cats
<1>4. SetToSeq(S) \in Seq(Arts(search))
  BY <1>2, <1>3, SetToSeqType
<1> QED
  BY <1>4 DEF Result

\* What provides.yaml adds is among them too, once but for several names.
LEMMA ProvidedFacts ==
  ASSUME SearchTypes, NEW r \in DOMAIN Repos, NEW X
  PROVE  /\ Provided(r, X) \in Seq(Arts(search))
         /\ Range(Provided(r, X)) = Providers(r) \ X
         /\ Once(Provided(r, X))
<1> DEFINE D == DOMAIN Cats(r)
           Of(c) == Cats(r)[c].arts
           All == {Of(c) : c \in D}
           P == Providers(r) \ X
           Names(a) == {a} \X (1 .. a.listed)
           pairs == UNION {Names(a) : a \in P}
           order == SetToSeq(pairs)
           ans == Provided(r, X)
<1>1. D = 1 .. Len(Cats(r)) /\ Len(Cats(r)) \in Nat
  BY SearchAssumption DEF SearchTypes, SearchAssumption, Repos, Cats
<1>2. IsFiniteSet(D)
  BY <1>1, FS_Interval
<1>3. IsFiniteSet(All)
  <2>1. [c \in D |-> Of(c)] \in Surjection(D, All)
    BY DEF Surjection
  <2> QED
    BY <1>2, <2>1, FS_Surjection DEF ExistsSurjection
<1>4. \A T \in All : IsFiniteSet(T) /\ \A a \in T : a.listed \in Nat
  BY SearchAssumption DEF SearchTypes, SearchAssumption, Repos, Cats
<1>5. IsFiniteSet(UNION All)
  BY <1>3, <1>4, FS_UNION
<1>6. P \subseteq UNION All /\ \A a \in P : a.listed \in Nat /\ a.listed > 0
  BY <1>4 DEF Providers
<1>7. IsFiniteSet(P)
  BY <1>5, <1>6, FS_Subset
<1>8. UNION All \subseteq Arts(search)
  BY DEF Arts, Repos, Cats
<1> HIDE DEF All, D, P
<1>9. IsFiniteSet(pairs)
  <2> DEFINE F == {Names(a) : a \in P}
  <2>1. ASSUME NEW a \in P PROVE IsFiniteSet(Names(a))
    <3>1. a.listed \in Int /\ 1 \in Int
      BY <1>6
    <3>2. IsFiniteSet(1 .. a.listed)
      BY <3>1, FS_Interval
    <3>3. IsFiniteSet({a})
      BY FS_Singleton
    <3> QED
      BY <3>2, <3>3, FS_Product
  <2> HIDE DEF Names
  <2>2. [a \in P |-> Names(a)] \in Surjection(P, F)
    BY DEF Surjection
  <2>3. IsFiniteSet(F)
    BY <1>7, <2>2, FS_Surjection
  <2>4. \A T \in F : IsFiniteSet(T)
    BY <2>1
  <2> HIDE DEF F
  <2> QED
    BY <2>3, <2>4, FS_UNION DEF F
<1>10. \A x \in pairs : x = <<x[1], x[2]>> /\ x[1] \in P /\ x[2] \in 1 .. x[1].listed
  OBVIOUS
<1>11. \A a \in P : <<a, 1>> \in pairs
  BY <1>6
<1>12. ans = [i \in DOMAIN order |-> order[i][1]]
  BY DEF Provided, P
<1> HIDE DEF pairs, Names, ans
<1>13. order \in Seq(pairs) /\ Range(order) = pairs /\ IsInjective(order)
  BY <1>9, SetToSeqFacts
<1> HIDE DEF order
<1>14. DOMAIN order = 1 .. Len(order) /\ Len(order) \in Nat /\ \A i \in DOMAIN order : order[i] \in pairs
  BY <1>13
<1>15. \A i \in DOMAIN order : order[i][1] \in P
  BY <1>10, <1>14
<1>16. ans \in Seq(Arts(search))
  BY <1>6, <1>8, <1>12, <1>14, <1>15
<1>17. Range(ans) = P
  <2>1. \A a \in P : \E i \in DOMAIN order : order[i] = <<a, 1>>
    BY <1>11, <1>13 DEF Range
  <2>2. \A a \in P : \E i \in DOMAIN ans : ans[i] = a
    BY <1>12, <2>1
  <2> QED
    BY <1>12, <1>15, <2>2 DEF Range
<1>18. Once(ans)
  <2> SUFFICES ASSUME NEW i \in DOMAIN order, NEW j \in DOMAIN order, order[i][1] = order[j][1], i # j
               PROVE  order[i][1].listed > 1
    BY <1>12 DEF Once
  <2>1. order[i] # order[j]
    BY <1>13 DEF IsInjective
  <2>2. order[i] = <<order[i][1], order[i][2]>> /\ order[j] = <<order[j][1], order[j][2]>>
    BY <1>10, <1>14
  <2>3. order[i][2] # order[j][2]
    BY <2>1, <2>2
  <2>4. order[i][2] \in 1 .. order[i][1].listed /\ order[j][2] \in 1 .. order[i][1].listed
        /\ order[i][1].listed \in Nat
    BY <1>6, <1>10, <1>14
  <2> QED
    BY <2>3, <2>4
<1> QED
  BY <1>16, <1>17, <1>18 DEF P, ans

LEMMA AppendResults ==
  ASSUME NEW T, NEW s \in Seq(T), NEW t \in Seq(T)
  PROVE  s \o t \in Seq(T)
OBVIOUS

\* One routine changes to a record of the same type.
LEMMA RoutineStep ==
  ASSUME SearchTypes, UNCHANGED search, NEW r \in DOMAIN Repos,
         NEW x \in RoutineType(Seq(Arts(search))),
         routine' = [routine EXCEPT ![r] = x], UNCHANGED <<main, res>>
  PROVE  SearchTypes'
<1>1. routine' \in Routines(search)
  BY DEF SearchTypes, Routines
<1> QED
  BY <1>1 DEF SearchTypes

\* The ways in which a routine changes.
LEMMA RoutineUpdates ==
  ASSUME NEW A, NEW x \in RoutineType(A)
  PROVE  /\ [x EXCEPT !.pc = "start"] \in RoutineType(A)
         /\ [x EXCEPT !.pc = "spawn"] \in RoutineType(A)
         /\ [x EXCEPT !.pc = "done"] \in RoutineType(A)
         /\ [x EXCEPT !.pc = "collect", !.next = 1] \in RoutineType(A)
         /\ [x EXCEPT !.next = x.next + 1] \in RoutineType(A)
         /\ x.free > 0 => [x EXCEPT !.next = x.next + 1, !.free = x.free - 1] \in RoutineType(A)
         /\ \A n \in Nat : [x EXCEPT !.free = n] \in RoutineType(A)
         /\ \A n \in Nat, a \in A :
              [x EXCEPT !.next = x.next + 1, !.acc = a, !.free = n] \in RoutineType(A)
         /\ \A a \in A, b \in BOOLEAN :
              [x EXCEPT !.pc = "answer", !.acc = a, !.bad = b] \in RoutineType(A)
         /\ x.acc \in A /\ x.free \in Nat /\ x.next \in Nat \ {0}
<1>1. /\ x.acc \in A /\ x.free \in Nat /\ x.next \in Nat \ {0}
      /\ x.next + 1 \in Nat \ {0} /\ (x.free > 0 => x.free - 1 \in Nat)
  BY DEF RoutineType
<1>2. \A n \in Nat \ {0} : [x EXCEPT !.next = n] \in RoutineType(A)
  BY DEF RoutineType
<1>3. \A n \in Nat \ {0}, m \in Nat : [x EXCEPT !.next = n, !.free = m] \in RoutineType(A)
  BY DEF RoutineType
<1>4. \A n \in Nat \ {0}, m \in Nat, a \in A :
        [x EXCEPT !.next = n, !.acc = a, !.free = m] \in RoutineType(A)
  BY DEF RoutineType
<1>5. /\ [x EXCEPT !.pc = "start"] \in RoutineType(A)
      /\ [x EXCEPT !.pc = "spawn"] \in RoutineType(A)
      /\ [x EXCEPT !.pc = "done"] \in RoutineType(A)
  BY DEF RoutineType
<1>11. \A n \in Nat \ {0} : [x EXCEPT !.pc = "collect", !.next = n] \in RoutineType(A)
  BY DEF RoutineType
<1>12. [x EXCEPT !.pc = "collect", !.next = 1] \in RoutineType(A)
  <2>1. 1 \in Nat \ {0}
    OBVIOUS
  <2> QED
    BY <1>11, <2>1, Zenon
<1>6. \A n \in Nat : [x EXCEPT !.free = n] \in RoutineType(A)
  BY DEF RoutineType
<1>7. \A a \in A, b \in BOOLEAN :
        [x EXCEPT !.pc = "answer", !.acc = a, !.bad = b] \in RoutineType(A)
  BY DEF RoutineType
<1>8. [x EXCEPT !.next = x.next + 1] \in RoutineType(A)
  BY <1>1, <1>2, Zenon
<1>9. x.free > 0 => [x EXCEPT !.next = x.next + 1, !.free = x.free - 1] \in RoutineType(A)
  BY <1>1, <1>3, Zenon
<1>10. \A n \in Nat, a \in A :
         [x EXCEPT !.next = x.next + 1, !.acc = a, !.free = n] \in RoutineType(A)
  BY <1>1, <1>4, Zenon
<1> QED
  BY <1>1, <1>5, <1>6, <1>7, <1>8, <1>9, <1>10, <1>12, Zenon

\* The miner searches one repository.
LEMMA MinerRepos ==
  ASSUME NEW s \in Searches, s.miner
  PROVE  1 \in DOMAIN s.repos
BY FetchAssumption DEF FetchAssumption

LEMMA SearchInit == ASSUME Init PROVE SearchTypes
<1>1. PICK s \in Searches : StartSearch(s)
  BY DEF Init
<1>2. /\ search = s
      /\ Idle \in RoutineType(Seq(Arts(s)))
      /\ [Idle EXCEPT !.pc = "start"] \in RoutineType(Seq(Arts(s)))
  <2>1. Concurrency \in Nat /\ <<>> \in Seq(Arts(s)) /\ search = s
    BY <1>1, SearchAssumption DEF StartSearch, SearchAssumption
  <2>2. Idle \in RoutineType(Seq(Arts(s)))
    BY <2>1 DEF Idle, RoutineType
  <2> QED
    BY <2>1, <2>2, RoutineUpdates
<1>3. routine \in Routines(s)
  BY <1>1, <1>2 DEF StartSearch, Routines
<1>4. s.miner => s.repos # <<>>
  BY FetchAssumption DEF FetchAssumption
<1>5. s.miner => main \in [pc : {"direct", "done"}, at : {1}] /\ res = <<>>
  BY <1>1, <1>4 DEF StartSearch
<1>6. <<>> \in Seq(Arts(s))
  OBVIOUS
<1> QED
  BY <1>2, <1>3, <1>5, <1>6 DEF SearchTypes

LEMMA SearchStep == ASSUME SearchTypes, SearchNext PROVE SearchTypes'
<1> DEFINE A == Seq(Arts(search))
<1>0. <<>> \in A
  OBVIOUS
<1> HIDE DEF A
<1>1. UNCHANGED search
  BY DEF SearchNext, Caller, Launch, Launched, Receive, Return, Installed, RepoRoutine, Open,
         Spawn, Spawned, Collect, Provide, Send, Scan
<1>2. \A r \in DOMAIN Repos : routine[r] \in RoutineType(A)
  BY DEF SearchTypes, Routines, Repos, A
<1>3. CASE Caller
  <2>1. search.miner => search.repos # <<>> /\ main.pc \in {"direct", "done"}
    BY FetchAssumption DEF FetchAssumption, SearchTypes
  <2>2. ASSUME NEW r \in DOMAIN Repos, routine' = [routine EXCEPT ![r].pc = "start"]
        PROVE  routine' \in Routines(search)
    <3>1. [routine[r] EXCEPT !.pc = "start"] \in RoutineType(A)
      BY <1>2, RoutineUpdates
    <3> QED
      BY <2>2, <3>1 DEF SearchTypes, Routines, Repos, A
  <2>3. routine' \in Routines(search)
    BY <1>3, <2>2 DEF Caller, Launch, Launched, Receive, Return, Installed, SearchTypes
  <2>4. ~search.miner
    BY <1>3, <2>1 DEF Caller, Launch, Launched, Launching, Receive, Return, Installed, SearchTypes, StartSearch
  <2> QED
    BY <1>1, <2>3, <2>4 DEF SearchTypes
<1>4. ASSUME NEW r \in DOMAIN Repos, RepoRoutine(r) PROVE SearchTypes'
  <2> DEFINE x == routine[r]
  <2>0. x \in RoutineType(A)
    BY <1>2
  <2>00. ASSUME NEW y \in RoutineType(A), routine' = [routine EXCEPT ![r] = y], UNCHANGED <<main, res>>
         PROVE  SearchTypes'
    BY <2>00, <1>1, RoutineStep DEF A
  <2>1. CASE Open(r)
    <3>1. [x EXCEPT !.pc = "answer", !.acc = <<>>, !.bad = FALSE] \in RoutineType(A)
      BY <1>0, <2>0, RoutineUpdates, Zenon
    <3>2. [x EXCEPT !.pc = "answer", !.acc = <<>>, !.bad = TRUE] \in RoutineType(A)
      BY <1>0, <2>0, RoutineUpdates, Zenon
    <3>3. [x EXCEPT !.pc = "spawn"] \in RoutineType(A)
      BY <2>0, RoutineUpdates, Zenon
    <3> QED
      BY <2>1, <2>00, <3>1, <3>2, <3>3 DEF Open, Answer
  <2>2. CASE Spawn(r)
    <3>1. [x EXCEPT !.next = x.next + 1] \in RoutineType(A)
      BY <2>0, RoutineUpdates, Zenon
    <3>2. CASE routine' = [routine EXCEPT ![r].next = @ + 1]
      BY <2>2, <2>00, <3>1, <3>2 DEF Spawn
    <3>3. CASE x.free > 0 /\ routine' = [routine EXCEPT ![r] = [routine[r] EXCEPT !.next = @ + 1, !.free = @ - 1]]
      <4>1. [x EXCEPT !.next = x.next + 1, !.free = x.free - 1] \in RoutineType(A)
        BY <2>0, <3>3, RoutineUpdates, Zenon
      <4>2. UNCHANGED <<main, res>>
        BY <2>2 DEF Spawn
      <4> QED
        BY <2>00, <3>3, <4>1, <4>2, Zenon
    <3> QED
      BY <2>2, <3>2, <3>3 DEF Spawn
  <2>3. CASE Spawned(r)
    <3>1. [x EXCEPT !.pc = "collect", !.next = 1] \in RoutineType(A)
      BY <2>0, RoutineUpdates, Zenon
    <3> QED
      BY <2>3, <2>00, <3>1 DEF Spawned
  <2>4. CASE Collect(r)
    <3> DEFINE c == routine[r].next
    <3>0. c \in Nat \ {0} /\ x.acc \in A /\ x.free \in Nat
      BY <2>0, RoutineUpdates, Zenon
    <3>1. c \in DOMAIN Cats(r)
      BY <3>0, <2>4, SearchAssumption
      DEF Collect, SearchTypes, SearchAssumption, Repos, Cats
    <3>2. Collected(r, c) \in A
      BY <3>0, <3>1, ResultType, AppendResults DEF Collected, A
    <3>3. Place(r, "collect") \in Nat
      BY <3>0 DEF Place
    <3>4. CASE routine' = [routine EXCEPT ![r].next = @ + 1]
      <4>1. [x EXCEPT !.next = x.next + 1] \in RoutineType(A)
        BY <2>0, RoutineUpdates, Zenon
      <4> QED
        BY <2>4, <2>00, <3>4, <4>1 DEF Collect
    <3>5. CASE routine' = [routine EXCEPT ![r] =
                 [routine[r] EXCEPT !.next = @ + 1, !.acc = Collected(r, c), !.free = Place(r, "collect")]]
      <4>1. [x EXCEPT !.next = x.next + 1, !.acc = Collected(r, c), !.free = Place(r, "collect")]
              \in RoutineType(A)
        BY <2>0, <3>2, <3>3, RoutineUpdates, Zenon
      <4>2. UNCHANGED <<main, res>>
        BY <2>4 DEF Collect
      <4> QED
        BY <2>00, <3>5, <4>1, <4>2, Zenon
    <3> QED
      BY <2>4, <3>4, <3>5 DEF Collect
  <2>5. CASE Provide(r)
    <3>1. routine[r].acc \in A
      BY <2>0, RoutineUpdates
    <3>2. routine[r].acc \o Provided(r, Range(routine[r].acc)) \in A
      BY <3>1, ProvidedFacts, AppendResults DEF A
    <3>3. PICK a \in A, b \in BOOLEAN : Answer(r, a, b)
      BY <1>0, <2>5, <3>1, <3>2 DEF Provide
    <3>4. [x EXCEPT !.pc = "answer", !.acc = a, !.bad = b] \in RoutineType(A)
      BY <2>0, RoutineUpdates
    <3> QED
      BY <2>5, <2>00, <3>3, <3>4 DEF Provide, Answer
  <2>6. CASE Send(r)
    BY <2>6, <2>0, <2>00, RoutineUpdates DEF Send
  <2> QED
    BY <1>4, <2>1, <2>2, <2>3, <2>4, <2>5, <2>6 DEF RepoRoutine
<1>5. ASSUME NEW r \in DOMAIN Repos, NEW c \in DOMAIN Cats(r), Scan(r, c) PROVE SearchTypes'
  <2>0. routine[r] \in RoutineType(A)
    BY <1>2
  <2>1. Place(r, "scan") \in Nat
    <3>1. routine[r].free \in Nat
      BY <2>0, RoutineUpdates, Zenon
    <3> QED
      BY <3>1 DEF Place
  <2>2. [routine[r] EXCEPT !.free = Place(r, "scan")] \in RoutineType(A)
    BY <2>0, <2>1, RoutineUpdates, Zenon
  <2> QED
    BY <2>2, <1>5, <1>1, RoutineStep DEF Scan, A
<1> QED
  BY <1>3, <1>4, <1>5 DEF SearchNext

-----------------------------------------------------------------------------
(* Types of the processes.                                                 *)

\* The next artifact, after a failure of any kind or none.
LEMMA NextItemFields ==
  ASSUME CacheTypes, NEW p \in Procs, proc[p].todo # <<>>, NEW bad \in BOOLEAN
  PROVE  LET y == NextItem(p, bad)
         IN /\ y \in ProcType
            /\ [y EXCEPT !.why = @ \cup {"fault"}] \in ProcType
            /\ y.pc = "item" /\ y.todo = Tail(proc[p].todo) /\ y.url = 1 /\ y.path = FALSE
            /\ y.fail = (proc[p].fail \/ bad)
            /\ y.asked = proc[p].asked /\ y.want = proc[p].want /\ y.why = proc[p].why
            /\ y.sums = TRUE
<1>1. proc[p] \in ProcType
  BY DEF CacheTypes
<1>2. Tail(proc[p].todo) \in Seq(Files)
  BY <1>1, HeadTail DEF ProcType
<1>3. NextItem(p, bad) \in ProcType
  <2>1. \A x \in ProcType, t \in Seq(Files), u \in Nat \ {0}, b \in BOOLEAN :
          [x EXCEPT !.pc = "item", !.todo = t, !.url = u, !.path = FALSE, !.sums = TRUE,
                    !.linked = FALSE, !.fail = b] \in ProcType
    BY DEF ProcType, States
  <2>2. (proc[p].fail \/ bad) \in BOOLEAN /\ 1 \in Nat \ {0}
    OBVIOUS
  <2> QED
    BY <1>1, <1>2, <2>1, <2>2, Zenon DEF NextItem
<1>4. /\ NextItem(p, bad).pc = "item" /\ NextItem(p, bad).todo = Tail(proc[p].todo)
      /\ NextItem(p, bad).url = 1 /\ NextItem(p, bad).path = FALSE
      /\ NextItem(p, bad).sums = TRUE
  BY <1>1 DEF NextItem, ProcType
<1>5. /\ NextItem(p, bad).fail = (proc[p].fail \/ bad)
      /\ NextItem(p, bad).asked = proc[p].asked /\ NextItem(p, bad).want = proc[p].want
      /\ NextItem(p, bad).why = proc[p].why
  BY <1>1 DEF NextItem, ProcType
<1>6. [NextItem(p, bad) EXCEPT !.why = @ \cup {"fault"}] \in ProcType
  <2> HIDE DEF NextItem
  <2> QED
    BY <1>3 DEF ProcType, Reasons
<1> QED
  BY <1>3, <1>4, <1>5, <1>6

LEMMA NextUrlFields ==
  ASSUME CacheTypes, NEW p \in Procs
  PROVE  LET y == NextUrl(p)
             z == [y EXCEPT !.path = TRUE, !.sums = FALSE]
         IN /\ y \in ProcType /\ z \in ProcType
            /\ \A x \in {y, z} :
                 /\ x.pc = "try" /\ x.todo = proc[p].todo /\ x.asked = proc[p].asked
                 /\ x.want = proc[p].want /\ x.why = proc[p].why \cup {"fault"}
                 /\ x.fail = proc[p].fail
            /\ y.path = proc[p].path /\ y.sums = proc[p].sums
<1>1. proc[p] \in ProcType
  BY DEF CacheTypes
<1> DEFINE y == NextUrl(p)
<1>2. y \in ProcType
  <2>1. \A x \in ProcType, u \in Nat \ {0}, w \in SUBSET Reasons :
          [x EXCEPT !.pc = "try", !.url = u, !.why = w] \in ProcType
    BY DEF ProcType, States
  <2>2. proc[p].url + 1 \in Nat \ {0} /\ proc[p].why \cup {"fault"} \in SUBSET Reasons
    BY <1>1 DEF ProcType, Reasons
  <2> QED
    BY <1>1, <2>1, <2>2, Zenon DEF NextUrl
<1>3. /\ y.pc = "try" /\ y.todo = proc[p].todo /\ y.asked = proc[p].asked
      /\ y.want = proc[p].want /\ y.why = proc[p].why \cup {"fault"}
      /\ y.fail = proc[p].fail /\ y.path = proc[p].path /\ y.sums = proc[p].sums
  BY <1>1 DEF NextUrl, ProcType
<1> HIDE DEF y
<1>4. [y EXCEPT !.path = TRUE, !.sums = FALSE] \in ProcType
  BY <1>2 DEF ProcType
<1>5. LET z == [y EXCEPT !.path = TRUE, !.sums = FALSE]
      IN /\ z.pc = y.pc /\ z.todo = y.todo /\ z.asked = y.asked /\ z.want = y.want
         /\ z.why = y.why /\ z.fail = y.fail
  BY <1>2 DEF ProcType
<1> QED
  BY <1>2, <1>3, <1>4, <1>5 DEF y

LEMMA BeginFields ==
  ASSUME CacheTypes, NEW files \in Seq(Files)
  PROVE  LET y == [Idle0 EXCEPT !.pc = "item", !.todo = files, !.asked = Range(files),
                                !.want = tree]
         IN /\ y \in ProcType /\ Idle0 \in ProcType
            /\ y.pc = "item" /\ y.todo = files /\ y.asked = Range(files) /\ y.url = 1
            /\ ~y.path /\ y.sums /\ ~y.fail /\ y.why = {}
            /\ Idle0.pc = "idle" /\ Idle0.todo = <<>> /\ Idle0.asked = {} /\ Idle0.url = 1
            /\ ~Idle0.path /\ Idle0.sums /\ ~Idle0.fail /\ Idle0.why = {}
<1>1. Range(files) \subseteq Files
  BY DEF Range
<1>2. Idle0 \in ProcType
  BY DEF Idle0, ProcType, CacheTypes, None, States
<1>3. [Idle0 EXCEPT !.pc = "item", !.todo = files, !.asked = Range(files), !.want = tree] \in ProcType
  <2> HIDE DEF Idle0
  <2> QED
    BY <1>1, <1>2 DEF ProcType, CacheTypes, States
<1> QED
  BY <1>2, <1>3 DEF Idle0

\* The mark left on the processes that work with a file.
LEMMA TouchedFields ==
  ASSUME NEW ps \in [Procs -> ProcType], NEW p, NEW f,
         NEW q \in Procs
  PROVE  LET t == Touched(p, f, ps)
         IN /\ t \in [Procs -> ProcType]
            /\ t[q].pc = ps[q].pc /\ t[q].todo = ps[q].todo /\ t[q].asked = ps[q].asked
            /\ t[q].want = ps[q].want /\ t[q].url = ps[q].url /\ t[q].got = ps[q].got
            /\ t[q].path = ps[q].path /\ t[q].sums = ps[q].sums /\ t[q].fail = ps[q].fail
            /\ t[q].linked = ps[q].linked
            /\ t[q].why \in {ps[q].why, ps[q].why \cup {"shared"}}
            /\ q # p /\ f \in proc[q].asked => "shared" \in t[q].why
            /\ q = p => t[q] = ps[q]
<1>1. ASSUME NEW r \in Procs
      PROVE  LET y == [ps[r] EXCEPT !.why = @ \cup {"shared"}]
             IN /\ y \in ProcType
                /\ y.pc = ps[r].pc /\ y.todo = ps[r].todo /\ y.asked = ps[r].asked
                /\ y.want = ps[r].want /\ y.url = ps[r].url /\ y.got = ps[r].got
                /\ y.path = ps[r].path /\ y.sums = ps[r].sums /\ y.fail = ps[r].fail
                /\ y.linked = ps[r].linked /\ y.why = ps[r].why \cup {"shared"}
  <2>1. ps[r] \in ProcType
    OBVIOUS
  <2> QED
    BY <2>1 DEF ProcType, Reasons
<1>2. \A r \in Procs : Touched(p, f, ps)[r] =
        IF r # p /\ f \in proc[r].asked THEN [ps[r] EXCEPT !.why = @ \cup {"shared"}] ELSE ps[r]
  BY DEF Touched
<1>3. \A r \in Procs : Touched(p, f, ps)[r] \in ProcType
  BY <1>1, <1>2
<1>4. Touched(p, f, ps) \in [Procs -> ProcType]
  BY <1>3 DEF Touched
<1>5. CASE q # p /\ f \in proc[q].asked
  <2>1. Touched(p, f, ps)[q] = [ps[q] EXCEPT !.why = @ \cup {"shared"}]
    BY <1>2, <1>5
  <2> QED
    BY <1>1, <1>4, <1>5, <2>1
<1>6. CASE ~(q # p /\ f \in proc[q].asked)
  BY <1>2, <1>4, <1>6
<1> QED
  BY <1>5, <1>6

-----------------------------------------------------------------------------
(* What the others do to a process.                                        *)

\* The locals of p stay but for the mark; with no mark left, so does what the
\* cache holds of its files, and no other process starts to write its file.
Frame(p) ==
  /\ proc'[p].pc = proc[p].pc /\ proc'[p].todo = proc[p].todo
  /\ proc'[p].asked = proc[p].asked /\ proc'[p].want = proc[p].want
  /\ proc'[p].url = proc[p].url /\ proc'[p].got = proc[p].got
  /\ proc'[p].path = proc[p].path /\ proc'[p].sums = proc[p].sums
  /\ proc'[p].fail = proc[p].fail
  /\ proc'[p].why \in {proc[p].why, proc[p].why \cup {"shared"}}
  /\ proc'[p].linked =>
       proc[p].linked /\ (proc[p].pc = "copy" => cache'[Item(p)] # None \/ cache[Item(p)] = None)
  /\ "shared" \notin proc'[p].why =>
       /\ proc'[p].linked = proc[p].linked
       /\ \A f \in proc[p].asked :
            /\ cache'[f] = cache[f] /\ last'[f] = last[f]
            /\ \A q \in Others(p, f)' : proc'[q].linked => q \in Others(p, f) /\ proc[q].linked

LEMMA ItemAsked ==
  ASSUME CacheTypes, NEW p \in Procs, Working(p), proc[p].todo # <<>>
  PROVE  Item(p) \in proc[p].asked /\ Item(p) \in Files
         /\ proc[p].asked \subseteq Files
<1>1. proc[p] \in ProcType
  BY DEF CacheTypes
<1>2. proc[p].todo \in Seq(Files) /\ proc[p].asked \subseteq Files
  BY <1>1 DEF ProcType
<1>3. Head(proc[p].todo) \in Range(proc[p].todo)
  BY <1>2, HeadTail
<1> QED
  BY <1>2, <1>3 DEF Working, Item

LEMMA FrameCareful ==
  ASSUME CacheTypes, CacheTypes', NEW p \in Procs, Careful(p), Frame(p), client' = client
  PROVE  Careful(p)'
<1>1. Working(p)'
  BY DEF Careful, Frame, Working
<1>2. Item(p)' = Item(p)
  BY DEF Frame, Item
<1>3. Shared(p)' \/ (~Shared(p) /\ proc'[p].why = proc[p].why)
  BY DEF Frame, Shared
<1>4. Alone(p)'
  <2> SUFFICES ASSUME proc'[p].pc \in {"try", "copy"}, ~Shared(p)', NEW q \in Others(p, Item(p))',
                      proc'[q].linked
               PROVE  FALSE
    BY <1>2 DEF Alone
  <2>1. Item(p) \in proc[p].asked
    BY ItemAsked DEF Careful, Frame, Working
  <2>2. "shared" \notin proc'[p].why
    BY DEF Shared
  <2>3. q \in Others(p, Item(p)) /\ proc[q].linked
    BY <1>2, <2>1, <2>2 DEF Frame
  <2> QED
    BY <1>3, <2>3 DEF Careful, Alone, Frame
<1>5. Copying(p)'
  <2> SUFFICES ASSUME proc'[p].pc = "copy" PROVE Copying(p)'
    BY DEF Copying
  <2>0. proc[p].pc = "copy" /\ Item(p) \in proc[p].asked
    BY ItemAsked DEF Careful, Frame, Working
  <2>1. ~Shared(p)' => proc'[p].linked /\ last'[Item(p)] = p
    BY <1>3, <2>0 DEF Careful, Copying, Frame, Shared
  <2>2. proc'[p].linked => cache'[Item(p)] # None
    BY <2>0 DEF Careful, Copying, Frame
  <2>3. "sync" \notin proc'[p].why => proc'[p].got = proc'[p].want[Item(p)]
    BY <2>0 DEF Careful, Copying, Frame
  <2> QED
    BY <1>2, <2>0, <2>1, <2>2, <2>3 DEF Careful, Copying, Frame
<1>6. Flags(p)'
  BY DEF Careful, Flags, Frame
<1>7. Verifying(p)'
  <2> SUFFICES ASSUME proc'[p].pc = "verify", ~Shared(p)' PROVE Verifying(p)'
    BY DEF Verifying
  <2>1. Item(p) \in proc[p].asked
    BY ItemAsked DEF Careful, Frame, Working
  <2>2. cache'[Item(p)] = cache[Item(p)] /\ proc'[p].why = proc[p].why /\ ~Shared(p)
    BY <1>3, <2>1 DEF Frame, Shared
  <2> QED
    BY <1>2, <2>2 DEF Careful, Verifying, Frame, Trusts
<1>8. Verified(p)'
  BY <1>3 DEF Careful, Verified, Frame, Trusts, Shared
<1>9. Reasoned(p)'
  BY DEF Careful, Reasoned, Frame
<1> QED
  BY <1>1, <1>4, <1>5, <1>6, <1>7, <1>8, <1>9 DEF Careful

\* A step of one process that leaves the cache alone and opens no file.
LEMMA FrameStep ==
  ASSUME CacheTypes, NEW p \in Procs, NEW q \in Procs \ {p}, NEW y \in ProcType,
         proc' = [proc EXCEPT ![q] = y], y.pc # "copy", UNCHANGED <<cache, last>>
  PROVE  Frame(p)
<1>1. proc'[p] = proc[p] /\ proc'[q] = y
  BY DEF CacheTypes
<1>2. \A f : \A r \in Others(p, f)' : r \in Others(p, f) /\ proc'[r] = proc[r]
  BY <1>1 DEF Others, CacheTypes, Item
<1> QED
  BY <1>1, <1>2 DEF Frame

\* A step of no process that leaves the cache alone.
LEMMA FrameStutter ==
  ASSUME NEW p \in Procs, UNCHANGED <<proc, cache, last>>
  PROVE  Frame(p)
BY DEF Frame, Others, Item

\* The record of a process that starts a copy.
Opened(p) ==
  [proc[p] EXCEPT !.pc = "copy", !.got = served[Item(p)], !.linked = TRUE,
     !.why = IF served[Item(p)] = proc[p].want[Item(p)] THEN @ ELSE @ \cup {"sync"}]

\* The records of a process that starts a copy, and of one that ends it.
LEMMA CopyFields ==
  ASSUME CacheTypes, NEW p \in Procs, Item(p) \in Files
  PROVE  LET a == Opened(p)
             c == [proc[p] EXCEPT !.pc = "verify", !.path = PathSet, !.sums = client # "docker"]
         IN /\ a \in ProcType /\ c \in ProcType
            /\ a.pc = "copy" /\ a.got = served[Item(p)] /\ a.linked
            /\ a.why = IF served[Item(p)] = proc[p].want[Item(p)] THEN proc[p].why
                       ELSE proc[p].why \cup {"sync"}
            /\ c.pc = "verify" /\ c.path /\ c.sums = (client # "docker")
            /\ c.why = proc[p].why /\ c.linked = proc[p].linked /\ c.got = proc[p].got
            /\ \A x \in {a, c} :
                 /\ x.todo = proc[p].todo /\ x.asked = proc[p].asked /\ x.want = proc[p].want
                 /\ x.url = proc[p].url /\ x.fail = proc[p].fail
            /\ a.path = proc[p].path /\ a.sums = proc[p].sums
<1>1. proc[p] \in ProcType /\ served[Item(p)] \in Releases
  BY DEF CacheTypes
<1> DEFINE w == IF served[Item(p)] = proc[p].want[Item(p)] THEN proc[p].why
                ELSE proc[p].why \cup {"sync"}
           g == served[Item(p)]
           s == client # "docker"
<1>2. w \in SUBSET Reasons /\ g \in Nat /\ s \in BOOLEAN
  BY <1>1 DEF ProcType, Reasons, Releases
<1>3. Opened(p) = [proc[p] EXCEPT !.pc = "copy", !.got = g, !.linked = TRUE, !.why = w]
  BY Zenon DEF Opened
<1> HIDE DEF w, g, s
<1>4. [proc[p] EXCEPT !.pc = "copy", !.got = g, !.linked = TRUE, !.why = w] \in ProcType
  BY <1>1, <1>2 DEF ProcType, States
<1>5. [proc[p] EXCEPT !.pc = "verify", !.path = PathSet, !.sums = s] \in ProcType
  BY <1>1, <1>2 DEF ProcType, States, PathSet
<1>6. LET a == [proc[p] EXCEPT !.pc = "copy", !.got = g, !.linked = TRUE, !.why = w]
      IN /\ a.pc = "copy" /\ a.got = g /\ a.linked /\ a.why = w
         /\ a.todo = proc[p].todo /\ a.asked = proc[p].asked /\ a.want = proc[p].want
         /\ a.url = proc[p].url /\ a.fail = proc[p].fail
         /\ a.path = proc[p].path /\ a.sums = proc[p].sums
  BY <1>1 DEF ProcType
<1>7. LET c == [proc[p] EXCEPT !.pc = "verify", !.path = PathSet, !.sums = s]
      IN /\ c.pc = "verify" /\ c.path /\ c.sums = s
         /\ c.why = proc[p].why /\ c.linked = proc[p].linked /\ c.got = proc[p].got
         /\ c.todo = proc[p].todo /\ c.asked = proc[p].asked /\ c.want = proc[p].want
         /\ c.url = proc[p].url /\ c.fail = proc[p].fail
  BY <1>1 DEF ProcType, PathSet
<1> QED
  BY <1>3, <1>4, <1>5, <1>6, <1>7 DEF w, g, s

\* A step of q on the file f, that leaves its mark.
LEMMA FrameTouched ==
  ASSUME CacheTypes, NEW p \in Procs, NEW q \in Procs \ {p}, NEW f \in Files, NEW c \in Nat,
         cache' = [cache EXCEPT ![f] = c], c # None \/ cache[f] = None,
         last' = [last EXCEPT ![f] = last'[f]],
         NEW y \in ProcType, y.todo = proc[q].todo, y.pc = "copy" => Item(q) = f,
         proc' = Touched(q, f, [proc EXCEPT ![q] = y])
  PROVE  Frame(p)
<1> DEFINE ps == [proc EXCEPT ![q] = y]
<1>1. ps \in [Procs -> ProcType] /\ ps[p] = proc[p] /\ \A r \in Procs \ {q} : ps[r] = proc[r]
  BY DEF CacheTypes
<1>2. ps[q] = y /\ proc' = Touched(q, f, ps) /\ proc[p].asked \subseteq Files
  BY DEF CacheTypes, ProcType
<1> HIDE DEF ps
<1>3. \A r \in Procs \ {q} : proc'[r].pc = proc[r].pc /\ proc'[r].todo = proc[r].todo
                             /\ proc'[r].linked = proc[r].linked
  BY <1>1, <1>2, TouchedFields
<1>4. proc'[q].pc = y.pc /\ proc'[q].todo = proc[q].todo
  BY <1>1, <1>2, TouchedFields
<1>5. ASSUME f \notin proc[p].asked, NEW g \in proc[p].asked, NEW r \in Others(p, g)',
             proc'[r].linked
      PROVE  r \in Others(p, g) /\ proc[r].linked
  <2>1. r \in Procs \ {p} /\ proc'[r].pc = "copy" /\ Head(proc'[r].todo) = g
    BY DEF Others, Item
  <2>2. r # q
    BY <1>4, <1>5, <2>1 DEF Item
  <2> QED
    BY <1>3, <1>5, <2>1, <2>2 DEF Others, Item
<1>6. \A g \in proc[p].asked : f \notin proc[p].asked => cache'[g] = cache[g] /\ last'[g] = last[g]
  BY <1>2 DEF CacheTypes
<1>7. cache'[Item(p)] # None \/ cache[Item(p)] = None
  BY DEF CacheTypes
<1>8. /\ proc'[p].pc = proc[p].pc /\ proc'[p].todo = proc[p].todo
      /\ proc'[p].asked = proc[p].asked /\ proc'[p].want = proc[p].want
      /\ proc'[p].url = proc[p].url /\ proc'[p].got = proc[p].got
      /\ proc'[p].path = proc[p].path /\ proc'[p].sums = proc[p].sums
      /\ proc'[p].fail = proc[p].fail /\ proc'[p].linked = proc[p].linked
      /\ proc'[p].why \in {proc[p].why, proc[p].why \cup {"shared"}}
      /\ f \in proc[p].asked => "shared" \in proc'[p].why
  <2> DEFINE t == Touched(q, f, ps)
  <2>1. /\ t[p].pc = ps[p].pc /\ t[p].todo = ps[p].todo /\ t[p].asked = ps[p].asked
        /\ t[p].want = ps[p].want /\ t[p].url = ps[p].url /\ t[p].got = ps[p].got
        /\ t[p].path = ps[p].path /\ t[p].sums = ps[p].sums /\ t[p].fail = ps[p].fail
        /\ t[p].linked = ps[p].linked
        /\ t[p].why \in {ps[p].why, ps[p].why \cup {"shared"}}
        /\ f \in proc[p].asked => "shared" \in t[p].why
    BY <1>1, TouchedFields
  <2> HIDE DEF t
  <2>2. proc' = t /\ ps[p] = proc[p]
    BY <1>1, <1>2 DEF t
  <2> QED
    BY <2>1, <2>2
<1> QED
  BY <1>5, <1>6, <1>7, <1>8 DEF Frame

LEMMA FrameClean ==
  ASSUME CacheTypes, NEW p \in Procs, Working(p), NEW f \in Files, Clean(f)
  PROVE  Frame(p) /\ proc' \in [Procs -> ProcType]
<1> DEFINE ps == [q \in Procs |->
       IF q \in Others("none", f) THEN [proc[q] EXCEPT !.linked = FALSE] ELSE proc[q]]
<1>1. ASSUME NEW r \in Procs
      PROVE  LET y == [proc[r] EXCEPT !.linked = FALSE]
             IN /\ y \in ProcType
                /\ y.pc = proc[r].pc /\ y.todo = proc[r].todo /\ y.asked = proc[r].asked
                /\ y.want = proc[r].want /\ y.url = proc[r].url /\ y.got = proc[r].got
                /\ y.path = proc[r].path /\ y.sums = proc[r].sums /\ y.fail = proc[r].fail
                /\ y.linked = FALSE /\ y.why = proc[r].why
  <2>1. proc[r] \in ProcType
    BY DEF CacheTypes
  <2> QED
    BY <2>1 DEF ProcType
<1>2. \A r \in Procs : ps[r] = IF r \in Others("none", f)
                                 THEN [proc[r] EXCEPT !.linked = FALSE] ELSE proc[r]
  OBVIOUS
<1>3. \A r \in Procs : ps[r] \in ProcType
  BY <1>1, <1>2 DEF CacheTypes
<1>4. ps \in [Procs -> ProcType]
  BY <1>3
<1>5. proc' = Touched("none", f, ps)
  BY DEF Clean
<1>6. ASSUME NEW r \in Procs
      PROVE  /\ ps[r].pc = proc[r].pc /\ ps[r].todo = proc[r].todo /\ ps[r].asked = proc[r].asked
             /\ ps[r].want = proc[r].want /\ ps[r].url = proc[r].url /\ ps[r].got = proc[r].got
             /\ ps[r].path = proc[r].path /\ ps[r].sums = proc[r].sums
             /\ ps[r].fail = proc[r].fail /\ ps[r].why = proc[r].why
             /\ ps[r].linked => proc[r].linked /\ r \notin Others("none", f)
             /\ r \notin Others("none", f) => ps[r].linked = proc[r].linked
  BY <1>1, <1>2
<1> HIDE DEF ps
<1>7. ASSUME NEW r \in Procs
      PROVE  /\ proc'[r].pc = proc[r].pc /\ proc'[r].todo = proc[r].todo
             /\ proc'[r].asked = proc[r].asked
             /\ proc'[r].want = proc[r].want /\ proc'[r].url = proc[r].url
             /\ proc'[r].got = proc[r].got
             /\ proc'[r].path = proc[r].path /\ proc'[r].sums = proc[r].sums
             /\ proc'[r].fail = proc[r].fail
             /\ proc'[r].why \in {proc[r].why, proc[r].why \cup {"shared"}}
             /\ f \in proc[r].asked => "shared" \in proc'[r].why
             /\ proc'[r].linked => proc[r].linked /\ r \notin Others("none", f)
             /\ r \notin Others("none", f) => proc'[r].linked = proc[r].linked
  <2>1. r # "none"
    BY DEF Procs
  <2> QED
    BY <1>4, <1>5, <1>6, <2>1, TouchedFields
<1>8. cache' = [cache EXCEPT ![f] = None] /\ last' = [last EXCEPT ![f] = "none"]
  BY DEF Clean
<1>9. proc'[p].linked /\ proc[p].pc = "copy" => cache'[Item(p)] # None \/ cache[Item(p)] = None
  BY <1>7, <1>8 DEF Others, Procs, CacheTypes
<1>10. \A g : \A r \in Others(p, g)' : proc'[r].linked => r \in Others(p, g) /\ proc[r].linked
  BY <1>7 DEF Others, Item
<1>11. \A g \in proc[p].asked : f \notin proc[p].asked => cache'[g] = cache[g] /\ last'[g] = last[g]
  BY <1>8 DEF CacheTypes, ProcType
<1>12. p \in Others("none", f) => f \in proc[p].asked
  BY ItemAsked DEF Others, Working
<1>13. Frame(p)
  BY <1>7, <1>9, <1>10, <1>11, <1>12 DEF Frame
<1>14. proc' \in [Procs -> ProcType]
  <2>1. PICK q \in Procs : TRUE
    BY DEF Procs
  <2> QED
    BY <1>4, <1>5, TouchedFields
<1> QED
  BY <1>13, <1>14

-----------------------------------------------------------------------------
(* What a process does itself.                                             *)

\* The next artifact: after an error there is a reason, and after none the
\* file is the release of the tree.
LEMMA NextItemCareful ==
  ASSUME CacheTypes, CacheTypes', NEW p \in Procs, Careful(p), proc[p].todo # <<>>,
         NEW bad \in BOOLEAN,
         \/ proc'[p] = NextItem(p, bad)
         \/ proc'[p] = [NextItem(p, bad) EXCEPT !.why = @ \cup {"fault"}],
         UNCHANGED <<client, cache>>,
         bad /\ Urls > 0 => proc'[p].why # {},
         ~proc'[p].fail /\ ~Shared(p)' /\ (client # "docker" \/ Trusts(p)')
           => cache[Item(p)] = proc[p].want[Item(p)]
  PROVE  Careful(p)'
<1> DEFINE y == NextItem(p, bad)
<1>1. /\ proc'[p].pc = "item" /\ proc'[p].todo = Tail(proc[p].todo) /\ proc'[p].url = 1
      /\ ~proc'[p].path /\ proc'[p].fail = (proc[p].fail \/ bad)
      /\ proc'[p].asked = proc[p].asked /\ proc'[p].want = proc[p].want
      /\ proc[p].why \subseteq proc'[p].why /\ proc'[p].sums
  <2>1. /\ y \in ProcType
        /\ y.pc = "item" /\ y.todo = Tail(proc[p].todo) /\ y.url = 1 /\ y.path = FALSE
        /\ y.fail = (proc[p].fail \/ bad)
        /\ y.asked = proc[p].asked /\ y.want = proc[p].want /\ y.why = proc[p].why
        /\ y.sums = TRUE
    BY NextItemFields
  <2> HIDE DEF y
  <2>2. CASE proc'[p] = y
    BY <2>1, <2>2
  <2>3. CASE proc'[p] = [y EXCEPT !.why = @ \cup {"fault"}]
    BY <2>1, <2>3 DEF ProcType
  <2> QED
    BY <2>2, <2>3 DEF y
<1> HIDE DEF y
<1>2. proc[p].todo \in Seq(Files)
  BY DEF CacheTypes, ProcType
<1>3. /\ Range(Tail(proc[p].todo)) \subseteq Range(proc[p].todo)
      /\ Range(proc[p].todo) = Range(Tail(proc[p].todo)) \cup {Item(p)}
  BY <1>2, HeadTail DEF Item
<1>4. Working(p)'
  BY <1>1, <1>3 DEF Careful, Working
<1>5. Alone(p)' /\ Copying(p)' /\ Flags(p)' /\ Verifying(p)'
  BY <1>1 DEF Alone, Copying, Flags, Verifying
<1>6. Verified(p)'
  <2> SUFFICES ASSUME ~proc'[p].fail, ~Shared(p)', client # "docker" \/ Trusts(p)',
                      NEW f \in proc[p].asked \ Range(Tail(proc[p].todo))
               PROVE  cache[f] = proc[p].want[f]
    BY <1>1 DEF Verified
  <2>1. ~proc[p].fail /\ ~Shared(p) /\ (client # "docker" \/ Trusts(p))
    BY <1>1 DEF Shared, Trusts
  <2> QED
    BY <1>3, <2>1 DEF Careful, Verified
<1>7. Reasoned(p)'
  BY <1>1 DEF Careful, Reasoned
<1> QED
  BY <1>4, <1>5, <1>6, <1>7 DEF Careful

\* The next url: the fault is a reason, and the file stays.
LEMMA NextUrlCareful ==
  ASSUME CacheTypes, CacheTypes', NEW p \in Procs, Careful(p), proc[p].todo # <<>>,
         NEW q \in BOOLEAN,
         proc'[p] = IF q THEN [NextUrl(p) EXCEPT !.path = TRUE, !.sums = FALSE] ELSE NextUrl(p),
         q => client = "docker", proc[p].pc \in {"try", "copy"},
         UNCHANGED <<client, cache>>,
         \A r \in Procs \ {p} : proc'[r] = proc[r]
  PROVE  Careful(p)'
<1>1. /\ proc'[p].pc = "try" /\ proc'[p].todo = proc[p].todo /\ proc'[p].asked = proc[p].asked
      /\ proc'[p].want = proc[p].want /\ proc'[p].why = proc[p].why \cup {"fault"}
      /\ proc'[p].fail = proc[p].fail
      /\ client # "docker" => proc'[p].sums = proc[p].sums
  BY NextUrlFields
<1>2. Working(p)'
  BY <1>1 DEF Careful, Working
<1>3. Item(p)' = Item(p)
  BY <1>1 DEF Item
<1>4. Alone(p)'
  <2>1. \A r \in Others(p, Item(p))' : r \in Others(p, Item(p)) /\ proc'[r] = proc[r]
    BY <1>3 DEF Others, Item
  <2> QED
    BY <1>1, <1>3, <2>1 DEF Careful, Alone, Shared
<1>5. Copying(p)' /\ Flags(p)' /\ Verifying(p)'
  BY <1>1 DEF Careful, Copying, Flags, Verifying
<1>6. Verified(p)' /\ Reasoned(p)'
  BY <1>1 DEF Careful, Verified, Reasoned, Shared, Trusts
<1> QED
  BY <1>2, <1>4, <1>5, <1>6 DEF Careful

\* A record without work: of a process that is idle or begins.
LEMMA BeginCareful ==
  ASSUME NEW p \in Procs,
         proc'[p].pc \in {"idle", "item"}, proc'[p].asked = Range(proc'[p].todo),
         proc'[p].url = 1, ~proc'[p].path, proc'[p].sums, ~proc'[p].fail
  PROVE  Careful(p)'
BY DEF Careful, Working, Alone, Copying, Flags, Verifying, Verified, Reasoned

LEMMA PhaseCareful ==
  ASSUME CacheTypes, NEW p \in Procs, Careful(p), Phase(p)
  PROVE  Careful(p)' /\ proc'[p] \in ProcType /\ proc'[p].pc # "copy"
         /\ proc' = [proc EXCEPT ![p] = proc'[p]]
<1>1. proc[p] \in ProcType
  BY DEF CacheTypes
<1>2. PICK to \in {"failed", "ready"} :
        /\ proc' = [proc EXCEPT ![p] = [proc[p] EXCEPT !.pc = to]]
        /\ to = "ready" => ~proc[p].fail
  BY DEF Phase, Step
<1>3. /\ proc'[p] = [proc[p] EXCEPT !.pc = to] /\ proc[p].todo = <<>>
      /\ UNCHANGED <<cache, client>>
  BY <1>2 DEF Phase, CacheTypes
<1>4. proc'[p] \in ProcType
  BY <1>1, <1>3 DEF ProcType, States
<1>5. /\ proc'[p].pc = to /\ proc'[p].todo = proc[p].todo /\ proc'[p].asked = proc[p].asked
      /\ proc'[p].want = proc[p].want /\ proc'[p].why = proc[p].why
      /\ proc'[p].url = proc[p].url /\ proc'[p].fail = proc[p].fail
      /\ proc'[p].sums = proc[p].sums
  BY <1>1, <1>3 DEF ProcType
<1>6. Working(p)'
  BY <1>2, <1>3, <1>5 DEF Careful, Working
<1>7. Alone(p)' /\ Copying(p)' /\ Flags(p)' /\ Verifying(p)'
  BY <1>3, <1>5 DEF Careful, Alone, Copying, Flags, Verifying
<1>8. Verified(p)' /\ Reasoned(p)'
  BY <1>3, <1>5 DEF Careful, Verified, Reasoned, Shared, Trusts
<1> QED
  BY <1>2, <1>3, <1>4, <1>5, <1>6, <1>7, <1>8 DEF Careful

\* A file of the cache is a reason, and what it holds is not trusted.
LEMMA CachedCareful ==
  ASSUME CacheTypes, NEW p \in Procs, Careful(p), Cached(p)
  PROVE  Careful(p)' /\ proc'[p] \in ProcType /\ proc'[p].pc # "copy"
         /\ proc' = [proc EXCEPT ![p] = proc'[p]]
<1>1. proc[p] \in ProcType
  BY DEF CacheTypes
<1> DEFINE b == client # "docker"
           w == proc[p].why \cup {"cached"}
<1>2. proc' = [proc EXCEPT ![p] = [proc[p] EXCEPT !.pc = "verify", !.path = b, !.sums = b, !.why = w]]
  BY DEF Cached, Step
<1>3. /\ proc'[p] = [proc[p] EXCEPT !.pc = "verify", !.path = b, !.sums = b, !.why = w]
      /\ proc[p].todo # <<>> /\ UNCHANGED <<cache, client>>
  BY <1>2 DEF Cached, CacheTypes, Looking
<1>4. b \in BOOLEAN /\ w \in SUBSET Reasons
  BY <1>1 DEF ProcType, Reasons
<1>5. "cached" \in w /\ (b <=> client # "docker")
      /\ w \cap {"fault", "sync"} = proc[p].why \cap {"fault", "sync"}
      /\ proc[p].why \subseteq w /\ ("shared" \in w => "shared" \in proc[p].why)
  OBVIOUS
<1> HIDE DEF b, w
<1>6. proc'[p] \in ProcType
  BY <1>1, <1>3, <1>4 DEF ProcType, States
<1>7. /\ proc'[p].pc = "verify" /\ proc'[p].todo = proc[p].todo /\ proc'[p].asked = proc[p].asked
      /\ proc'[p].want = proc[p].want /\ proc'[p].why = w
      /\ proc'[p].url = proc[p].url /\ proc'[p].fail = proc[p].fail
      /\ proc'[p].sums = b /\ proc'[p].path = b
  BY <1>1, <1>3 DEF ProcType
<1>8. Working(p)'
  BY <1>3, <1>7 DEF Careful, Working
<1>9. Alone(p)' /\ Copying(p)' /\ Flags(p)'
  BY <1>3, <1>5, <1>7 DEF Careful, Alone, Copying, Flags
<1>10. Verifying(p)'
  BY <1>3, <1>5, <1>7 DEF Verifying
<1>11. Verified(p)' /\ Reasoned(p)'
  BY <1>3, <1>5, <1>7 DEF Careful, Verified, Reasoned, Shared, Trusts
<1>12. proc' = [proc EXCEPT ![p] = proc'[p]]
  BY <1>2, <1>3 DEF b, w
<1> QED
  BY <1>6, <1>7, <1>8, <1>9, <1>10, <1>11, <1>12 DEF Careful

\* Who finds no file has nobody write it: a copy that goes on has a file.
LEMMA MissingCareful ==
  ASSUME CacheTypes, NEW p \in Procs, \A q \in Procs : Careful(q), Missing(p)
  PROVE  Careful(p)' /\ proc'[p] \in ProcType /\ proc'[p].pc # "copy"
         /\ proc' = [proc EXCEPT ![p] = proc'[p]]
<1>1. proc[p] \in ProcType
  BY DEF CacheTypes
<1>2. /\ proc' = [proc EXCEPT ![p] = [proc[p] EXCEPT !.pc = "try"]]
      /\ proc'[p] = [proc[p] EXCEPT !.pc = "try"]
      /\ proc[p].todo # <<>> /\ proc[p].pc = "item" /\ UNCHANGED <<cache, client>>
      /\ cache[Item(p)] = None
  BY DEF Missing, Step, Looking, InCache, At, CacheTypes
<1>3. proc'[p] \in ProcType
  BY <1>1, <1>2 DEF ProcType, States
<1>4. /\ proc'[p].pc = "try" /\ proc'[p].todo = proc[p].todo /\ proc'[p].asked = proc[p].asked
      /\ proc'[p].want = proc[p].want /\ proc'[p].why = proc[p].why
      /\ proc'[p].url = proc[p].url /\ proc'[p].fail = proc[p].fail
      /\ proc'[p].sums = proc[p].sums /\ proc'[p].path = proc[p].path
  BY <1>1, <1>2 DEF ProcType
<1>5. Alone(p)'
  <2>1. ASSUME NEW q \in Others(p, Item(p))', proc'[q].linked PROVE FALSE
    <3>1. q \in Procs \ {p} /\ proc'[q].pc = "copy" /\ Head(proc'[q].todo) = Item(p)
      BY <1>4, <2>1 DEF Others, Item
    <3>2. proc'[q] = proc[q]
      BY <1>2, <3>1 DEF CacheTypes
    <3>3. cache[Item(q)] # None /\ Item(q) = Item(p)
      BY <2>1, <3>1, <3>2 DEF Careful, Copying, Item
    <3> QED
      BY <1>2, <3>3
  <2> QED
    BY <2>1 DEF Alone
<1>6. Working(p)'
  BY <1>2, <1>4 DEF Careful, Working
<1>7. Copying(p)' /\ Flags(p)' /\ Verifying(p)'
  BY <1>2, <1>4 DEF Careful, Copying, Flags, Verifying
<1>8. Verified(p)' /\ Reasoned(p)'
  BY <1>2, <1>4 DEF Careful, Verified, Reasoned, Shared, Trusts
<1> QED
  BY <1>2, <1>3, <1>4, <1>5, <1>6, <1>7, <1>8 DEF Careful

\* A url answers: the process has opened the file last and nobody else has it
\* open, or the file was shared.
LEMMA AnswersCareful ==
  ASSUME CacheTypes, NEW p \in Procs, Careful(p), Answers(p)
  PROVE  /\ Careful(p)' /\ proc' \in [Procs -> ProcType]
         /\ \A q \in Procs \ {p} : Frame(q)
<1> DEFINE f == Item(p)
           y == Opened(p)
           ps == [proc EXCEPT ![p] = y]
<1>1. /\ proc[p].pc = "try" /\ f \in Files /\ f \in Range(proc[p].todo)
      /\ cache' = [cache EXCEPT ![f] = Part] /\ last' = [last EXCEPT ![f] = p]
      /\ proc' = Touched(p, f, ps) /\ client' = client
  <2>1. proc[p].pc = "try" /\ proc[p].todo # <<>> /\ proc[p].todo \in Seq(Files)
    BY DEF Answers, At, Careful, Working, CacheTypes, ProcType
  <2>2. proc' = Touched(p, f, ps)
    BY DEF Answers, Opened
  <2> QED
    BY <2>1, <2>2, ItemAsked, HeadTail DEF Answers, Careful, Item
<1>2. /\ y \in ProcType
      /\ y.pc = "copy" /\ y.got = served[f] /\ y.linked
      /\ y.why = IF served[f] = proc[p].want[f] THEN proc[p].why ELSE proc[p].why \cup {"sync"}
      /\ y.todo = proc[p].todo /\ y.asked = proc[p].asked /\ y.want = proc[p].want
      /\ y.url = proc[p].url /\ y.fail = proc[p].fail
      /\ y.path = proc[p].path /\ y.sums = proc[p].sums
  BY <1>1, CopyFields
<1>3. served[f] \in Releases /\ Part \in Nat /\ Part # None
  BY <1>1 DEF CacheTypes, Part, None
<1> HIDE DEF y
<1>4. ps \in [Procs -> ProcType] /\ ps[p] = y /\ \A q \in Procs \ {p} : ps[q] = proc[q]
  BY <1>2 DEF CacheTypes
<1> HIDE DEF ps
<1>5. proc' \in [Procs -> ProcType] /\ proc'[p] = y
  BY <1>1, <1>4, TouchedFields
<1>6. ASSUME NEW q \in Procs \ {p} PROVE Frame(q)
  <2>1. last' = [last EXCEPT ![f] = last'[f]]
    BY <1>1 DEF CacheTypes
  <2> QED
    BY <1>1, <1>2, <1>3, <2>1, FrameTouched DEF ps
<1>7. \A q \in Procs \ {p} : proc'[q].pc = proc[q].pc /\ proc'[q].todo = proc[q].todo
                             /\ proc'[q].linked = proc[q].linked
  BY <1>1, <1>4, TouchedFields
<1>8. Item(p)' = f
  BY <1>2, <1>5 DEF Item
<1>9. Working(p)'
  BY <1>1, <1>2, <1>5 DEF Careful, Working
<1>10. Alone(p)'
  <2>1. ASSUME NEW r \in Others(p, f)'
        PROVE  r \in Others(p, f) /\ proc'[r].linked = proc[r].linked
    <3>1. r \in Procs \ {p} /\ proc'[r].pc = "copy" /\ Head(proc'[r].todo) = f
      BY <1>8 DEF Others, Item
    <3> QED
      BY <1>7, <3>1 DEF Others, Item
  <2> QED
    BY <1>1, <1>2, <1>5, <1>8, <2>1 DEF Careful, Alone, Shared
<1>11. Copying(p)'
  BY <1>1, <1>2, <1>3, <1>5, <1>8 DEF Copying, CacheTypes
<1>12. Flags(p)' /\ Verifying(p)'
  BY <1>1, <1>2, <1>5 DEF Careful, Flags, Verifying
<1>13. Verified(p)'
  <2>1. \A g \in proc[p].asked \ Range(proc[p].todo) : cache'[g] = cache[g]
    BY <1>1 DEF CacheTypes
  <2> QED
    BY <1>1, <1>2, <1>5, <2>1 DEF Careful, Verified, Shared, Trusts
<1>14. Reasoned(p)'
  BY <1>2, <1>5 DEF Careful, Reasoned
<1> QED
  BY <1>5, <1>6, <1>9, <1>10, <1>11, <1>12, <1>13, <1>14 DEF Careful

\* The copy ends: alone with the file, the process leaves the release it got.
LEMMA CopiedCareful ==
  ASSUME CacheTypes, NEW p \in Procs, Careful(p), Copied(p)
  PROVE  /\ Careful(p)' /\ proc' \in [Procs -> ProcType] /\ cache' \in [Files -> Nat]
         /\ \A q \in Procs \ {p} : Frame(q)
<1> DEFINE f == Item(p)
           c == IF proc[p].linked THEN Written(p, f, proc[p].got) ELSE cache[f]
           y == [proc[p] EXCEPT !.pc = "verify", !.path = PathSet, !.sums = client # "docker"]
           ps == [proc EXCEPT ![p] = y]
<1>1. /\ proc[p].pc = "copy" /\ f \in Files /\ f \in Range(proc[p].todo)
      /\ cache' = [cache EXCEPT ![f] = c] /\ last' = last
      /\ proc' = Touched(p, f, ps) /\ client' = client
  <2>1. proc[p].pc = "copy" /\ proc[p].todo # <<>> /\ proc[p].todo \in Seq(Files)
    BY DEF Copied, At, Careful, Working, CacheTypes, ProcType
  <2>2. proc' = Touched(p, f, ps)
    BY DEF Copied
  <2> QED
    BY <2>1, <2>2, ItemAsked, HeadTail DEF Copied, Careful, Item
<1>2. /\ y \in ProcType
      /\ y.pc = "verify" /\ y.path /\ y.sums = (client # "docker") /\ y.why = proc[p].why
      /\ y.todo = proc[p].todo /\ y.asked = proc[p].asked /\ y.want = proc[p].want
      /\ y.url = proc[p].url /\ y.fail = proc[p].fail
  BY <1>1, CopyFields
<1>3. c \in Nat /\ (c # None \/ cache[f] = None)
  <2>1. proc[p].got \in Releases /\ cache[f] \in Nat
    BY <1>1 DEF Careful, Copying, CacheTypes
  <2> QED
    BY <2>1 DEF Written, Part, None, Releases
<1>4. ~Shared(p) => c = proc[p].got
  BY <1>1 DEF Careful, Copying, Alone, Written
<1> HIDE DEF y, c
<1>5. ps \in [Procs -> ProcType] /\ ps[p] = y
  BY <1>2 DEF CacheTypes
<1> HIDE DEF ps
<1>6. proc' \in [Procs -> ProcType] /\ proc'[p] = y
  BY <1>1, <1>5, TouchedFields
<1>7. ASSUME NEW q \in Procs \ {p} PROVE Frame(q)
  <2>1. last' = [last EXCEPT ![f] = last'[f]]
    BY <1>1 DEF CacheTypes
  <2> QED
    BY <1>1, <1>2, <1>3, <2>1, FrameTouched DEF ps
<1>8. Item(p)' = f
  BY <1>2, <1>6 DEF Item
<1>9. Working(p)'
  BY <1>1, <1>2, <1>6 DEF Careful, Working
<1>10. Alone(p)' /\ Copying(p)' /\ Flags(p)'
  BY <1>1, <1>2, <1>6 DEF Careful, Alone, Copying, Flags
<1>11. Verifying(p)'
  <2>1. cache'[f] = c
    BY <1>1 DEF CacheTypes
  <2>2. "sync" \notin proc[p].why => proc[p].got = proc[p].want[f]
    BY <1>1 DEF Careful, Copying
  <2> QED
    BY <1>2, <1>4, <1>6, <1>8, <2>1, <2>2 DEF Verifying, Trusts, Shared
<1>12. Verified(p)'
  <2>1. \A g \in proc[p].asked \ Range(proc[p].todo) : cache'[g] = cache[g]
    BY <1>1 DEF CacheTypes
  <2> QED
    BY <1>1, <1>2, <1>6, <2>1 DEF Careful, Verified, Shared, Trusts
<1>13. Reasoned(p)'
  BY <1>2, <1>6 DEF Careful, Reasoned
<1>14. cache' \in [Files -> Nat]
  BY <1>1, <1>3 DEF CacheTypes
<1> QED
  BY <1>6, <1>7, <1>9, <1>10, <1>11, <1>12, <1>13, <1>14 DEF Careful

\* What the steps without a copy that ends or starts have in common.
Stays(p) ==
  /\ Careful(p)' /\ proc'[p] \in ProcType /\ proc'[p].pc # "copy"
  /\ proc' = [proc EXCEPT ![p] = proc'[p]]
  /\ UNCHANGED <<client, cache, last>>

\* The urls are used up: one of them had failed.
LEMMA NoUrlCareful ==
  ASSUME CacheTypes, NEW p \in Procs, Careful(p), NoUrl(p)
  PROVE  Stays(p)
<1>1. /\ proc[p] \in ProcType /\ proc[p].pc = "try" /\ proc[p].url > Urls
      /\ proc[p].todo # <<>> /\ proc[p].url \in Nat /\ Urls \in Nat
      /\ UNCHANGED <<client, cache, last>>
  BY FetchAssumption DEF NoUrl, At, CacheTypes, ProcType, Careful, Working, FetchAssumption
<1>2. CASE client = "docker" \/ Urls = 0
  <2>1. /\ proc' = [proc EXCEPT ![p] = [proc[p] EXCEPT !.pc = "verify"]]
        /\ proc'[p] = [proc[p] EXCEPT !.pc = "verify"]
    BY <1>2 DEF NoUrl, Step, CacheTypes
  <2>2. proc'[p] \in ProcType
    BY <1>1, <2>1 DEF ProcType, States
  <2>3. /\ proc'[p].pc = "verify" /\ proc'[p].todo = proc[p].todo
        /\ proc'[p].asked = proc[p].asked /\ proc'[p].want = proc[p].want
        /\ proc'[p].why = proc[p].why /\ proc'[p].url = proc[p].url
        /\ proc'[p].fail = proc[p].fail /\ proc'[p].sums = proc[p].sums
        /\ proc'[p].path = proc[p].path
    BY <1>1, <2>1 DEF ProcType
  <2>4. Working(p)'
    BY <1>1, <2>3 DEF Careful, Working
  <2>5. Alone(p)' /\ Copying(p)' /\ Flags(p)'
    BY <1>1, <2>3 DEF Careful, Alone, Copying, Flags
  <2>6. Verifying(p)'
    BY <1>1, <2>3 DEF Careful, Flags, Verifying, Trusts
  <2>7. Verified(p)' /\ Reasoned(p)'
    BY <1>1, <2>3 DEF Careful, Verified, Reasoned, Shared, Trusts
  <2> QED
    BY <1>1, <2>1, <2>2, <2>3, <2>4, <2>5, <2>6, <2>7 DEF Careful, Stays
<1>3. CASE ~(client = "docker" \/ Urls = 0)
  <2>1. /\ proc' = [proc EXCEPT ![p] = NextItem(p, TRUE)]
        /\ proc'[p] = NextItem(p, TRUE)
    BY <1>3 DEF NoUrl, Step, CacheTypes
  <2>2. /\ NextItem(p, TRUE) \in ProcType /\ NextItem(p, TRUE).pc = "item"
        /\ NextItem(p, TRUE).why = proc[p].why /\ NextItem(p, TRUE).fail
    BY <1>1, NextItemFields
  <2>3. proc' \in [Procs -> ProcType]
    BY <2>1, <2>2 DEF CacheTypes
  <2>4. CacheTypes'
    BY <1>1, <2>3 DEF CacheTypes, NoUrl
  <2>5. proc[p].why # {}
    BY <1>1, <1>3 DEF Careful, Flags
  <2>6. Careful(p)'
    BY <1>1, <2>1, <2>2, <2>4, <2>5, NextItemCareful
  <2> QED
    BY <1>1, <2>1, <2>2, <2>6 DEF Stays
<1> QED
  BY <1>2, <1>3

LEMMA RefusesCareful ==
  ASSUME CacheTypes, NEW p \in Procs, Careful(p), Refuses(p)
  PROVE  Stays(p)
<1>1. /\ proc[p].pc = "try" /\ proc[p].todo # <<>> /\ UNCHANGED <<client, cache, last>>
  BY DEF Refuses, At, Careful, Working
<1>2. proc' = [proc EXCEPT ![p] = NextUrl(p)] /\ proc'[p] = NextUrl(p)
      /\ \A q \in Procs \ {p} : proc'[q] = proc[q]
  BY DEF Refuses, Step, CacheTypes
<1>3. NextUrl(p) \in ProcType /\ NextUrl(p).pc = "try"
  BY NextUrlFields
<1>4. CacheTypes'
  <2>1. proc' \in [Procs -> ProcType]
    BY <1>2, <1>3 DEF CacheTypes
  <2> QED
    BY <1>1, <2>1 DEF CacheTypes, Refuses
<1>5. Careful(p)'
  BY <1>1, <1>2, <1>4, NextUrlCareful
<1> QED
  BY <1>1, <1>2, <1>3, <1>5 DEF Stays

LEMMA CopyFailsCareful ==
  ASSUME CacheTypes, NEW p \in Procs, Careful(p), CopyFails(p)
  PROVE  Stays(p)
<1>1. /\ proc[p].pc = "copy" /\ proc[p].todo # <<>> /\ UNCHANGED <<client, cache, last>>
  BY DEF CopyFails, At, Careful, Working
<1> DEFINE x == [NextItem(p, TRUE) EXCEPT !.why = @ \cup {"fault"}]
           z == [NextUrl(p) EXCEPT !.path = TRUE, !.sums = FALSE]
<1>2. client \in {"disk", "http", "docker"}
  BY FetchAssumption DEF FetchAssumption, CacheTypes
<1>3. PICK y : /\ proc' = [proc EXCEPT ![p] = y]
               /\ client = "http" => y = x
               /\ client = "disk" => y = NextUrl(p)
               /\ client = "docker" => y = z
  BY DEF CopyFails, Step
<1>4. /\ x \in ProcType /\ NextUrl(p) \in ProcType /\ z \in ProcType
      /\ NextUrl(p).pc = "try" /\ z.pc = "try"
  BY <1>1, NextItemFields, NextUrlFields
<1>5. x.pc = "item" /\ x.why # {}
  <2>1. NextItem(p, TRUE) \in ProcType /\ NextItem(p, TRUE).pc = "item"
    BY <1>1, NextItemFields
  <2> QED
    BY <2>1 DEF ProcType
<1>6. NextItem(p, TRUE).fail /\ x.fail
  <2>1. NextItem(p, TRUE) \in ProcType /\ NextItem(p, TRUE).fail
    BY <1>1, NextItemFields
  <2> QED
    BY <2>1 DEF ProcType
<1> HIDE DEF x, z
<1>7. y \in ProcType /\ proc'[p] = y /\ y.pc # "copy" /\ \A q \in Procs \ {p} : proc'[q] = proc[q]
  BY <1>2, <1>3, <1>4, <1>5 DEF CacheTypes
<1>8. CacheTypes'
  <2>1. proc' \in [Procs -> ProcType]
    BY <1>3, <1>7 DEF CacheTypes
  <2> QED
    BY <1>1, <2>1 DEF CacheTypes, CopyFails
<1>9. CASE client = "http"
  <2>1. Careful(p)'
    BY <1>1, <1>3, <1>5, <1>6, <1>7, <1>8, <1>9, NextItemCareful DEF x
  <2> QED
    BY <1>1, <1>3, <1>7, <2>1 DEF Stays
<1>10. CASE client = "disk"
  <2>1. Careful(p)'
    BY <1>1, <1>3, <1>7, <1>8, <1>10, NextUrlCareful
  <2> QED
    BY <1>1, <1>3, <1>7, <2>1 DEF Stays
<1>11. CASE client = "docker"
  <2>1. Careful(p)'
    BY <1>1, <1>3, <1>7, <1>8, <1>11, NextUrlCareful DEF z
  <2> QED
    BY <1>1, <1>3, <1>7, <2>1 DEF Stays
<1> QED
  BY <1>2, <1>9, <1>10, <1>11

\* Verify: an error has a reason, and without one the file is the release.
LEMMA VerifyCareful ==
  ASSUME CacheTypes, NEW p \in Procs, Careful(p), Verify(p)
  PROVE  Stays(p)
<1> DEFINE bad == ~(proc[p].path /\ cache[Item(p)] # None /\ Same(p))
<1>1. /\ proc[p].pc = "verify" /\ proc[p].todo # <<>> /\ UNCHANGED <<client, cache, last>>
      /\ Item(p) \in Files /\ proc[p].want[Item(p)] \in Releases
  <2>1. proc[p].pc = "verify" /\ proc[p].todo # <<>>
    BY DEF Verify, At, Careful, Working
  <2> QED
    BY <2>1, ItemAsked DEF Verify, Careful, CacheTypes, ProcType
<1>2. /\ proc' = [proc EXCEPT ![p] = NextItem(p, bad)] /\ proc'[p] = NextItem(p, bad)
      /\ bad \in BOOLEAN
  BY DEF Verify, Step, CacheTypes
<1>3. /\ NextItem(p, bad) \in ProcType /\ NextItem(p, bad).pc = "item"
      /\ NextItem(p, bad).why = proc[p].why /\ NextItem(p, bad).fail = (proc[p].fail \/ bad)
  BY <1>1, <1>2, NextItemFields
<1>4. bad /\ Urls > 0 => proc[p].why # {}
  BY <1>1 DEF Careful, Verifying, Trusts, Shared, Same, Releases, None
<1>5. ~bad /\ ~Shared(p) /\ (client # "docker" \/ Trusts(p))
        => cache[Item(p)] = proc[p].want[Item(p)]
  BY <1>1 DEF Careful, Verifying, Flags, Same
<1> HIDE DEF bad
<1>6. proc' \in [Procs -> ProcType]
  BY <1>2, <1>3 DEF CacheTypes
<1>7. CacheTypes'
  BY <1>1, <1>6 DEF CacheTypes, Verify
<1>8. Shared(p)' = Shared(p) /\ Trusts(p)' = Trusts(p) /\ proc'[p].why = proc[p].why
      /\ (~proc'[p].fail => ~bad)
  BY <1>2, <1>3 DEF Shared, Trusts
<1>9. Careful(p)'
  BY <1>1, <1>2, <1>4, <1>5, <1>7, <1>8, NextItemCareful
<1> QED
  BY <1>1, <1>2, <1>3, <1>9 DEF Stays

\* A process that ends, or starts with the checksums of the tree.
LEMMA EndsCareful ==
  ASSUME CacheTypes, NEW p \in Procs, Exit(p) \/ Crash(p)
  PROVE  Stays(p)
<1>1. proc' = [proc EXCEPT ![p] = Idle0] /\ proc'[p] = Idle0 /\ UNCHANGED <<client, cache, last>>
  BY DEF Exit, Crash, Step, CacheTypes
<1>2. /\ Idle0 \in ProcType /\ Idle0.pc = "idle" /\ Idle0.todo = <<>> /\ Idle0.asked = {}
      /\ Idle0.url = 1 /\ ~Idle0.path /\ Idle0.sums /\ ~Idle0.fail
  <2>1. <<>> \in Seq(Files)
    OBVIOUS
  <2> QED
    BY <2>1, BeginFields
<1>3. Range(<<>>) = {}
  BY DEF Range
<1>4. Careful(p)'
  BY <1>1, <1>2, <1>3, BeginCareful
<1> QED
  BY <1>1, <1>2, <1>4 DEF Stays

LEMMA StartsCareful ==
  ASSUME CacheTypes, NEW p \in Procs, NEW files \in Seq(Files), Begin(p, files),
         UNCHANGED <<client, cache, last>>
  PROVE  Stays(p)
<1> DEFINE y == [Idle0 EXCEPT !.pc = "item", !.todo = files, !.asked = Range(files),
                              !.want = tree]
<1>1. proc' = [proc EXCEPT ![p] = y] /\ proc'[p] = y
  BY DEF Begin, Step, CacheTypes
<1>2. /\ y \in ProcType /\ y.pc = "item" /\ y.todo = files /\ y.asked = Range(files)
      /\ y.url = 1 /\ ~y.path /\ y.sums /\ ~y.fail
  BY BeginFields
<1> HIDE DEF y
<1>3. Careful(p)'
  BY <1>1, <1>2, BeginCareful
<1> QED
  BY <1>1, <1>2, <1>3 DEF Stays

-----------------------------------------------------------------------------
(* The invariant.                                                          *)

LEMMA FetchInit == ASSUME Init PROVE FetchInv
<1>1. Idle0 \in ProcType
  <2>1. tree \in [Files -> Releases]
    BY DEF Init, Releases
  <2> QED
    BY <2>1 DEF Idle0, ProcType, None, States
<1>2. CacheTypes
  BY <1>1 DEF Init, CacheTypes, None, Releases
<1>3. ASSUME NEW p \in Procs PROVE Careful(p)
  <2>1. proc[p] = Idle0
    BY DEF Init
  <2>2. /\ proc[p].pc = "idle" /\ proc[p].todo = <<>> /\ proc[p].asked = {}
        /\ proc[p].url = 1 /\ ~proc[p].path /\ proc[p].sums /\ ~proc[p].fail
    BY <2>1 DEF Idle0
  <2>3. Range(<<>>) = {}
    BY DEF Range
  <2> QED
    BY <2>2, <2>3 DEF Careful, Working, Alone, Copying, Flags, Verifying, Verified, Reasoned
<1> QED
  BY <1>2, <1>3, SearchInit DEF FetchInv

\* One process moves, the others see it within Frame.
LEMMA StaysAll ==
  ASSUME CacheTypes, \A q \in Procs : Careful(q), NEW p \in Procs, Stays(p),
         served' \in [Files -> Releases], tree' \in [Files -> Releases]
  PROVE  CacheTypes' /\ \A q \in Procs : Careful(q)'
<1>1. proc' \in [Procs -> ProcType]
  BY DEF Stays, CacheTypes
<1>2. CacheTypes'
  BY <1>1 DEF Stays, CacheTypes
<1>3. ASSUME NEW q \in Procs \ {p} PROVE Careful(q)'
  <2>1. Frame(q)
    BY FrameStep DEF Stays
  <2> QED
    BY <1>2, <2>1, FrameCareful DEF Stays
<1> QED
  BY <1>2, <1>3 DEF Stays

LEMMA DownloadStep ==
  ASSUME CacheTypes, \A q \in Procs : Careful(q), NEW p \in Procs, Download(p)
  PROVE  CacheTypes' /\ \A q \in Procs : Careful(q)'
<1>1. UNCHANGED <<client, served, tree>>
  BY DEF Download, Phase, Exit, Cached, Missing, Answers, Refuses, NoUrl, Copied, CopyFails,
         Crash, Verify
<1>2. CASE Answers(p) \/ Copied(p)
  <2>1. /\ Careful(p)' /\ proc' \in [Procs -> ProcType]
        /\ \A q \in Procs \ {p} : Frame(q)
    BY <1>2, AnswersCareful, CopiedCareful
  <2>2. cache' \in [Files -> Nat] /\ last' \in [Files -> Procs \cup {"none"}]
    <3>1. CASE Answers(p)
      BY <3>1 DEF Answers, CacheTypes, Part
    <3>2. CASE Copied(p)
      BY <3>2, CopiedCareful DEF Copied, CacheTypes
    <3> QED
      BY <1>2, <3>1, <3>2
  <2>3. CacheTypes'
    BY <1>1, <2>1, <2>2 DEF CacheTypes
  <2> QED
    BY <1>1, <2>1, <2>3, FrameCareful
<1>3. CASE ~(Answers(p) \/ Copied(p))
  <2>1. CASE Phase(p) \/ Cached(p) \/ Missing(p)
    <3>1. UNCHANGED <<client, cache, last>>
      BY <2>1 DEF Phase, Cached, Missing
    <3>2. Stays(p)
      BY <2>1, <3>1, PhaseCareful, CachedCareful, MissingCareful DEF Stays
    <3> QED
      BY <1>1, <3>2, StaysAll DEF CacheTypes
  <2>2. CASE Exit(p) \/ Refuses(p) \/ NoUrl(p) \/ CopyFails(p) \/ Crash(p) \/ Verify(p)
    <3>1. Stays(p)
      BY <2>2, EndsCareful, RefusesCareful, NoUrlCareful, CopyFailsCareful, VerifyCareful
    <3> QED
      BY <1>1, <3>1, StaysAll DEF CacheTypes
  <2> QED
    BY <1>3, <2>1, <2>2 DEF Download
<1> QED
  BY <1>2, <1>3

\* A step that no process takes: a search, a publication, a sync.
LEMMA OutsideStep ==
  ASSUME CacheTypes, \A q \in Procs : Careful(q), UNCHANGED <<client, proc, cache, last>>,
         served' \in [Files -> Releases], tree' \in [Files -> Releases]
  PROVE  CacheTypes' /\ \A q \in Procs : Careful(q)'
<1>1. CacheTypes'
  BY DEF CacheTypes
<1> QED
  BY <1>1, FrameStutter, FrameCareful

LEMMA FetchStep == ASSUME FetchInv, [Next]_vars PROVE FetchInv'
<1> USE DEF FetchInv
<1> DEFINE Others0 == CacheTypes' /\ \A q \in Procs : Careful(q)'
<1>0. served \in [Files -> Releases] /\ tree \in [Files -> Releases]
  BY DEF CacheTypes
<1>1. CASE SearchNext /\ UNCHANGED fetchVars
  BY <1>0, <1>1, SearchStep, OutsideStep DEF fetchVars
<1>2. CASE MinerSearch
  <2>1. Others0
    BY <1>0, <1>2, OutsideStep DEF MinerSearch, fetchVars
  <2>2. SearchTypes'
    <3> DEFINE x == [routine[1] EXCEPT !.pc = "done"]
    <3>1. routine' = [routine EXCEPT ![1] = x] /\ search' = search
      BY <1>2 DEF MinerSearch
    <3>2. routine' \in Routines(search)
      <4>1. ASSUME 1 \in DOMAIN Repos PROVE x \in RoutineType(Seq(Arts(search)))
        <5>1. routine[1] \in RoutineType(Seq(Arts(search)))
          BY <4>1 DEF SearchTypes, Routines, Repos
        <5> QED
          BY <5>1, RoutineUpdates, Zenon
      <4> QED
        BY <3>1, <4>1 DEF SearchTypes, Routines, Repos
    <3>3. ASSUME search.miner PROVE res' \in Seq(Arts(search)) /\ 1 \in DOMAIN Repos
      <4>1. 1 \in DOMAIN search.repos
        BY <3>3, MinerRepos DEF SearchTypes
      <4>2. routine[1] \in RoutineType(Seq(Arts(search)))
        BY <4>1 DEF SearchTypes, Routines
      <4>3. routine[1].acc \in Seq(Arts(search))
        BY <4>2, RoutineUpdates, Zenon
      <4> QED
        BY <1>2, <3>3, <4>1, <4>3 DEF MinerSearch, SearchTypes, Repos
    <3>4. search.miner => main' \in [pc : {"direct", "done"}, at : {1}]
      BY <1>2 DEF MinerSearch, SearchTypes
    <3> QED
      BY <3>1, <3>2, <3>3, <3>4 DEF SearchTypes
  <2> QED
    BY <2>1, <2>2
<1>3. CASE StartMiner
  <2> DEFINE files == [i \in DOMAIN res |-> res[i].file]
  <2>1. res \in Seq(Arts(search)) /\ search \in Searches
    BY <1>3 DEF StartMiner, SearchTypes
  <2>2. \A a \in Arts(search) : a.file \in Files
    BY <2>1, FetchAssumption DEF FetchAssumption, Arts
  <2>3. files \in Seq(Files)
    BY <2>1, <2>2
  <2>4. Begin("miner", files) /\ UNCHANGED <<client, cache, last, served, tree>>
        /\ UNCHANGED searchVars
    BY <1>3 DEF StartMiner
  <2>5. Stays("miner")
    BY <2>3, <2>4, StartsCareful DEF Procs
  <2> QED
    BY <1>0, <2>4, <2>5, StaysAll DEF Procs, searchVars, SearchTypes
<1>4. ASSUME NEW files \in Wanted, StartInstall(files) PROVE FetchInv'
  <2>1. files \in Seq(Files)
    BY FetchAssumption DEF FetchAssumption
  <2>2. Begin("install", files) /\ UNCHANGED <<client, cache, last, served, tree>>
        /\ UNCHANGED searchVars
    BY <1>4 DEF StartInstall
  <2>3. Stays("install")
    BY <2>1, <2>2, StartsCareful DEF Procs
  <2> QED
    BY <1>0, <2>2, <2>3, StaysAll DEF Procs, searchVars, SearchTypes
<1>5. ASSUME NEW p \in Procs, Download(p) PROVE FetchInv'
  <2>1. UNCHANGED searchVars
    BY <1>5 DEF Download, Phase, Exit, Cached, Missing, Answers, Refuses, NoUrl, Copied,
                CopyFails, Crash, Verify
  <2> QED
    BY <1>5, <2>1, DownloadStep DEF searchVars, SearchTypes
<1>6. ASSUME NEW f \in Files, Clean(f) PROVE FetchInv'
  <2>1. \A q \in Procs : Frame(q) /\ proc' \in [Procs -> ProcType]
    BY <1>6, FrameClean DEF Careful
  <2>2. CacheTypes'
    <3>1. proc' \in [Procs -> ProcType]
      BY <2>1 DEF Procs
    <3> QED
      BY <1>6, <3>1 DEF Clean, CacheTypes, None
  <2>3. \A q \in Procs : Careful(q)'
    BY <1>6, <2>1, <2>2, FrameCareful DEF Clean
  <2> QED
    BY <1>6, <2>2, <2>3 DEF Clean, searchVars, SearchTypes
<1>7. ASSUME NEW f \in Files, Publish(f) PROVE FetchInv'
  <2>1. served' \in [Files -> Releases]
    BY <1>0, <1>7 DEF Publish, Releases
  <2> QED
    BY <1>0, <1>7, <2>1, OutsideStep DEF Publish, searchVars, SearchTypes
<1>8. CASE Sync
  BY <1>0, <1>8, OutsideStep DEF Sync, searchVars, SearchTypes
<1>9. CASE UNCHANGED vars
  BY <1>0, <1>9, OutsideStep DEF vars, fetchVars, searchVars, SearchTypes
<1> QED
  BY <1>1, <1>2, <1>3, <1>4, <1>5, <1>6, <1>7, <1>8, <1>9 DEF Next

\* The fairness of Spec is not used.
LEMMA FetchInvariant == Spec => []FetchInv
<1>1. Init => FetchInv
  BY FetchInit
<1>2. FetchInv /\ [Next]_vars => FetchInv'
  BY FetchStep
<1>3. Spec => Init /\ [][Next]_vars
  BY PTL DEF Spec
<1> QED
  BY <1>1, <1>2, <1>3, PTL

-----------------------------------------------------------------------------
\* FailsForAReason: a process that records an error has met a fault, a file of
\* the cache, a release that its tree does not know or another process.
THEOREM FailsForAReasonCorrect == Spec => []FailsForAReason
<1>1. FetchInv => FailsForAReason
  BY DEF FetchInv, Careful, Reasoned, FailsForAReason
<1> QED
  BY <1>1, FetchInvariant, PTL

\* ReadyIsWhole: a transaction starts with every file as the tree has it,
\* whatever was downloaded after it, but for the cases the property names.
THEOREM ReadyIsWholeCorrect == Spec => []ReadyIsWhole
<1>1. ASSUME FetchInv, NEW p \in Procs, proc[p].pc = "ready", "shared" \notin proc[p].why,
             ~(client = "docker" /\ proc[p].why \cap {"fault", "sync"} # {}),
             NEW f \in proc[p].asked
      PROVE  cache[f] = proc[p].want[f]
  <2>1. proc[p].todo = <<>> /\ ~proc[p].fail
    BY <1>1 DEF FetchInv, Careful, Working
  <2>2. f \notin Range(proc[p].todo)
    BY <2>1 DEF Range
  <2> QED
    BY <1>1, <2>1, <2>2 DEF FetchInv, Careful, Verified, Shared, Trusts
<1>2. FetchInv => ReadyIsWhole
  BY <1>1 DEF ReadyIsWhole
<1> QED
  BY <1>2, FetchInvariant, PTL

-----------------------------------------------------------------------------
(* What the search finds.                                                  *)

\* The categories before n whose results are taken, and what they hold.
Gathered(r, n) ==
  UNION {Range(Result(r, c)) : c \in {d \in DOMAIN Cats(r) : d < n /\ ~Skipped(Cats(r)[d])}}

\* What a repository answers when it does not fail.
Answered(r) ==
  IF ~Repos[r].identity THEN {}
  ELSE Gathered(r, Len(Cats(r)) + 1) \cup IF Opts.only THEN Providers(r) ELSE {}

\* The workers of the categories that are read, and only they, have a result,
\* which is taken once.
Reads(r) ==
  \A c \in DOMAIN Cats(r) :
    /\ worker[r][c] \in {"scan", "send"} => ~Skipped(Cats(r)[c])
    /\ worker[r][c] = "done" =>
         \/ Skipped(Cats(r)[c])
         \/ routine[r].pc \in {"answer", "done"}
         \/ routine[r].pc = "collect" /\ c < routine[r].next

\* A routine has the results of the categories before the next.
Gathers(r) ==
  /\ routine[r].pc \in {"idle", "start", "spawn"} => routine[r].acc = <<>>
  /\ routine[r].pc \in {"spawn", "collect"} => Repos[r].identity
  /\ routine[r].pc = "collect" =>
       Range(routine[r].acc) = Gathered(r, routine[r].next) /\ Once(routine[r].acc)
  /\ routine[r].pc \in {"answer", "done"} =>
       IF routine[r].bad THEN routine[r].acc = <<>>
       ELSE Range(routine[r].acc) = Answered(r) /\ Once(routine[r].acc)

\* The repositories whose answer the caller waits for, and those that sent it.
Asking == {r \in DOMAIN Repos : Used(r)}
Sent == {r \in DOMAIN Repos : routine[r].pc = "done"}

Launches ==
  main.pc = "launch" =>
    /\ main.at \in 1 .. Len(Repos) + 1
    /\ \A r \in DOMAIN Repos : routine[r].pc # "idle" <=> r < main.at /\ Used(r)
    /\ Cardinality(Sent) = Len(ch)

Receives ==
  main.pc = "receive" =>
    /\ main.at \in Nat
    /\ \A r \in DOMAIN Repos : routine[r].pc # "idle" <=> Used(r)
    /\ Cardinality(Sent) + main.at = Cardinality(Asking) + Len(ch)

\* What was sent is in the channel or received, an error too, and no two
\* answers share a package.
Flow ==
  main.pc \in {"launch", "receive"} =>
    /\ ~search.miner
    /\ res \in Seq(Arts(search))
    /\ Range(res) \cup UNION {Range(ch[i].arts) : i \in DOMAIN ch}
         = UNION {Range(routine[r].acc) : r \in Sent}
    /\ \A r \in Sent : routine[r].bad => err \/ \E i \in DOMAIN ch : ch[i].bad
    /\ \A i \in DOMAIN ch : ch[i].bad => ch[i].arts = <<>>

Apart ==
  main.pc \in {"launch", "receive"} =>
    /\ Once(res)
    /\ \A i \in DOMAIN ch :
         /\ Once(ch[i].arts)
         /\ Range(res) \cap Range(ch[i].arts) = {}
         /\ \A j \in DOMAIN ch : i # j => Range(ch[i].arts) \cap Range(ch[j].arts) = {}

Shapes ==
  /\ DOMAIN worker = DOMAIN Repos /\ \A r \in DOMAIN Repos : DOMAIN worker[r] = DOMAIN Cats(r)
  /\ ch \in Seq([arts : Seq(Arts(search)), bad : BOOLEAN])
  /\ main.pc = "direct" => search.miner
  /\ main.pc = "installed" => Repos = <<>>

Calling == Launches /\ Receives /\ Flow /\ Apart /\ NothingLost

SearchInv ==
  Shapes /\ (\A r \in DOMAIN Repos : Reads(r) /\ Gathers(r)) /\ Calling

LEMMA RangeConcat ==
  ASSUME NEW T, NEW s \in Seq(T), NEW t \in Seq(T)
  PROVE  Range(s \o t) = Range(s) \cup Range(t)
<1>1. /\ DOMAIN (s \o t) = 1 .. Len(s) + Len(t) /\ Len(s) \in Nat /\ Len(t) \in Nat
      /\ DOMAIN s = 1 .. Len(s) /\ DOMAIN t = 1 .. Len(t)
      /\ \A i \in DOMAIN s : (s \o t)[i] = s[i]
      /\ \A i \in DOMAIN t : (s \o t)[Len(s) + i] = t[i]
  OBVIOUS
<1>2. ASSUME NEW i \in DOMAIN (s \o t) PROVE (s \o t)[i] \in Range(s) \cup Range(t)
  <2>1. CASE i <= Len(s)
    BY <1>1, <2>1 DEF Range
  <2>2. CASE i > Len(s)
    <3>1. i - Len(s) \in DOMAIN t /\ (s \o t)[i] = t[i - Len(s)]
      BY <1>1, <2>2
    <3> QED
      BY <3>1 DEF Range
  <2> QED
    BY <1>1, <2>1, <2>2
<1>3. \A i \in DOMAIN s : i \in DOMAIN (s \o t)
  BY <1>1
<1>4. \A i \in DOMAIN t : Len(s) + i \in DOMAIN (s \o t)
  BY <1>1
<1> QED
  BY <1>1, <1>2, <1>3, <1>4 DEF Range

LEMMA OnceConcat ==
  ASSUME NEW T, NEW s \in Seq(T), NEW t \in Seq(T), Once(s), Once(t),
         Range(s) \cap Range(t) = {}
  PROVE  Once(s \o t)
<1>1. /\ DOMAIN (s \o t) = 1 .. Len(s) + Len(t) /\ Len(s) \in Nat /\ Len(t) \in Nat
      /\ DOMAIN s = 1 .. Len(s) /\ DOMAIN t = 1 .. Len(t)
      /\ \A i \in DOMAIN s : (s \o t)[i] = s[i]
      /\ \A i \in DOMAIN t : (s \o t)[Len(s) + i] = t[i]
  OBVIOUS
<1>2. ASSUME NEW i \in DOMAIN (s \o t)
      PROVE  \/ i \in DOMAIN s /\ (s \o t)[i] = s[i]
             \/ i - Len(s) \in DOMAIN t /\ (s \o t)[i] = t[i - Len(s)] /\ i \notin DOMAIN s
  BY <1>1
<1>3. \A i \in DOMAIN s, j \in DOMAIN t : s[i] # t[j]
  BY DEF Range
<1> SUFFICES ASSUME NEW i \in DOMAIN (s \o t), NEW j \in DOMAIN (s \o t), (s \o t)[i] = (s \o t)[j]
             PROVE  i = j \/ (s \o t)[i].listed > 1
  BY DEF Once
<1>4. i \in Int /\ j \in Int /\ Len(s) \in Int
  BY <1>1
<1>5. CASE i \in DOMAIN s /\ j \in DOMAIN s
  BY <1>1, <1>5 DEF Once
<1>6. CASE i \notin DOMAIN s /\ j \notin DOMAIN s
  <2>1. i - Len(s) \in DOMAIN t /\ j - Len(s) \in DOMAIN t
        /\ (s \o t)[i] = t[i - Len(s)] /\ (s \o t)[j] = t[j - Len(s)]
    BY <1>2, <1>6
  <2>2. i - Len(s) = j - Len(s) \/ t[i - Len(s)].listed > 1
    BY <2>1 DEF Once
  <2> QED
    BY <1>4, <2>1, <2>2
<1>7. CASE i \in DOMAIN s /\ j \notin DOMAIN s
  BY <1>2, <1>3, <1>7
<1>8. CASE i \notin DOMAIN s /\ j \in DOMAIN s
  BY <1>2, <1>3, <1>8
<1> QED
  BY <1>5, <1>6, <1>7, <1>8

LEMMA OnceEmpty == Range(<<>>) = {} /\ Once(<<>>)
BY DEF Range, Once

\* What a category sends: its packages that match, each once.
LEMMA ResultFacts ==
  ASSUME SearchTypes, NEW r \in DOMAIN Repos, NEW c \in DOMAIN Cats(r)
  PROVE  /\ Range(Result(r, c)) =
              IF Cats(r)[c].ok THEN {a \in Cats(r)[c].arts : Directory(a) /\ Matches(a)} ELSE {}
         /\ Range(Result(r, c)) \subseteq Cats(r)[c].arts
         /\ Once(Result(r, c))
<1> DEFINE S == {a \in Cats(r)[c].arts : Directory(a) /\ Matches(a)}
<1>1. IsFiniteSet(Cats(r)[c].arts) /\ S \subseteq Cats(r)[c].arts
  BY SearchAssumption DEF SearchTypes, SearchAssumption, Repos, Cats
<1>2. IsFiniteSet(S)
  BY <1>1, FS_Subset
<1> HIDE DEF S
<1>3. Range(SetToSeq(S)) = S /\ IsInjective(SetToSeq(S))
  BY <1>2, SetToSeqFacts
<1>4. Once(SetToSeq(S))
  BY <1>3 DEF Once, IsInjective
<1>5. Result(r, c) = IF Cats(r)[c].ok THEN SetToSeq(S) ELSE <<>>
  BY DEF Result, S
<1>6. Range(Result(r, c)) = IF Cats(r)[c].ok THEN S ELSE {}
  BY <1>3, <1>5, OnceEmpty
<1>7. Once(Result(r, c))
  BY <1>4, <1>5, OnceEmpty
<1> QED
  BY <1>1, <1>6, <1>7 DEF S

\* The packages of a repository.
Of(r) == UNION {Cats(r)[c].arts : c \in DOMAIN Cats(r)}

\* No package is in two categories.
LEMMA PackagesApart ==
  ASSUME SearchTypes, NEW r \in DOMAIN Repos, NEW q \in DOMAIN Repos
  PROVE  /\ \A c \in DOMAIN Cats(r), d \in DOMAIN Cats(r) :
              c # d => Cats(r)[c].arts \cap Cats(r)[d].arts = {}
         /\ r # q => Of(r) \cap Of(q) = {}
<1>1. \A c \in DOMAIN Cats(r), d \in DOMAIN Cats(q) :
        r # q \/ c # d => Cats(r)[c].arts \cap Cats(q)[d].arts = {}
  BY TreeAssumption DEF SearchTypes, TreeAssumption, Repos, Cats
<1>2. \A c \in DOMAIN Cats(r), d \in DOMAIN Cats(r) :
        c # d => Cats(r)[c].arts \cap Cats(r)[d].arts = {}
  BY TreeAssumption DEF SearchTypes, TreeAssumption, Repos, Cats
<1>3. r # q => Of(r) \cap Of(q) = {}
  BY <1>1 DEF Of
<1> QED
  BY <1>2, <1>3

\* The result of one more category.
LEMMA GatheredNext ==
  ASSUME SearchTypes, NEW r \in DOMAIN Repos, NEW n \in DOMAIN Cats(r)
  PROVE  /\ Skipped(Cats(r)[n]) => Gathered(r, n + 1) = Gathered(r, n)
         /\ ~Skipped(Cats(r)[n]) => Gathered(r, n + 1) = Gathered(r, n) \cup Range(Result(r, n))
         /\ Gathered(r, n) \cap Range(Result(r, n)) = {}
<1> DEFINE T(m) == {d \in DOMAIN Cats(r) : d < m /\ ~Skipped(Cats(r)[d])}
<1>1. DOMAIN Cats(r) \subseteq Nat
  BY SearchAssumption DEF SearchTypes, SearchAssumption, Repos, Cats
<1>2. \A d \in DOMAIN Cats(r) : d < n + 1 <=> d < n \/ d = n
  BY <1>1
<1>3. T(n + 1) = IF Skipped(Cats(r)[n]) THEN T(n) ELSE T(n) \cup {n}
  BY <1>2
<1>4. \A d \in T(n) : d \in DOMAIN Cats(r) /\ d # n
  BY <1>1
<1>5. \A m : Gathered(r, m) = UNION {Range(Result(r, c)) : c \in T(m)}
  BY DEF Gathered
<1> HIDE DEF T
<1>6. \A d \in T(n) : Range(Result(r, d)) \cap Range(Result(r, n)) = {}
  <2> SUFFICES ASSUME NEW d \in T(n) PROVE Range(Result(r, d)) \cap Range(Result(r, n)) = {}
    OBVIOUS
  <2>1. d \in DOMAIN Cats(r) /\ d # n
    BY <1>4
  <2>2. Cats(r)[d].arts \cap Cats(r)[n].arts = {}
    BY <2>1, PackagesApart
  <2>3. Range(Result(r, d)) \subseteq Cats(r)[d].arts /\ Range(Result(r, n)) \subseteq Cats(r)[n].arts
    BY <2>1, ResultFacts
  <2> QED
    BY <2>2, <2>3
<1>7. Gathered(r, n) \cap Range(Result(r, n)) = {}
  BY <1>5, <1>6
<1>8. CASE Skipped(Cats(r)[n])
  BY <1>3, <1>5, <1>7, <1>8
<1>9. CASE ~Skipped(Cats(r)[n])
  BY <1>3, <1>5, <1>7, <1>9
<1> QED
  BY <1>8, <1>9

LEMMA GatheredEnds ==
  ASSUME SearchTypes, NEW r \in DOMAIN Repos, NEW n \in Nat, n > Len(Cats(r))
  PROVE  Gathered(r, 1) = {} /\ Gathered(r, n) = Gathered(r, Len(Cats(r)) + 1)
<1>1. DOMAIN Cats(r) = 1 .. Len(Cats(r)) /\ Len(Cats(r)) \in Nat
  BY SearchAssumption DEF SearchTypes, SearchAssumption, Repos, Cats
<1>2. \A d \in DOMAIN Cats(r) : ~(d < 1) /\ d < n /\ d < Len(Cats(r)) + 1
  BY <1>1
<1> QED
  BY <1>2 DEF Gathered

LEMMA AnsweredIn ==
  ASSUME SearchTypes, NEW r \in DOMAIN Repos
  PROVE  (\A n : Gathered(r, n) \subseteq Of(r)) /\ Answered(r) \subseteq Of(r)
<1>1. \A c \in DOMAIN Cats(r) : Range(Result(r, c)) \subseteq Of(r)
  BY ResultFacts DEF Of
<1>2. \A n : Gathered(r, n) \subseteq Of(r)
  BY <1>1 DEF Gathered
<1>3. Providers(r) \subseteq Of(r)
  BY DEF Providers, Of
<1> QED
  BY <1>2, <1>3 DEF Answered

\* The categories left out hold what a search should find only where
\* provides.yaml lists it.
LEMMA SkippedListed ==
  ASSUME SearchTypes, NEW r \in DOMAIN Repos, NEW c \in DOMAIN Cats(r), Skipped(Cats(r)[c]),
         NEW a \in Sought(r, c)
  PROVE  Opts.only /\ a \in Providers(r)
<1>1. /\ ~Cats(r)[c].matched => "categories" \notin a.sat
      /\ ~Cats(r)[c].asked /\ "packages" \in a.sat => a.listed > 0
  BY TreeAssumption DEF SearchTypes, TreeAssumption, Repos, Cats, Sought
<1>2. Directory(a) /\ Matches(a) /\ (Opts.only /\ ~Cats(r)[c].asked => "packages" \in a.sat)
      /\ a \in Cats(r)[c].arts
  BY DEF Sought
<1>3. CASE Opts.only /\ ~Cats(r)[c].asked
  BY <1>1, <1>2, <1>3 DEF Providers
<1>4. CASE Opts.and /\ "categories" \in Opts.kinds /\ ~Cats(r)[c].matched
  <2>1. "categories" \in a.sat
    BY <1>2, <1>4 DEF Directory
  <2> QED
    BY <1>1, <1>4, <2>1
<1> QED
  BY <1>3, <1>4 DEF Skipped

LEMMA AnsweredExpected ==
  ASSUME SearchTypes, NEW r \in DOMAIN Repos, search.miner \/ Used(r)
  PROVE  Answered(r) = Expected(r)
<1> DEFINE n == Len(Cats(r)) + 1
           G == Gathered(r, n)
           S == UNION {Sought(r, c) : c \in {d \in DOMAIN Cats(r) : Cats(r)[d].ok}}
           P == IF Opts.only THEN Providers(r) ELSE {}
<1>1. \A c \in DOMAIN Cats(r) : c < n
  BY SearchAssumption DEF SearchTypes, SearchAssumption, Repos, Cats
<1>2. ASSUME NEW c \in DOMAIN Cats(r), ~Skipped(Cats(r)[c])
      PROVE  Range(Result(r, c)) = IF Cats(r)[c].ok THEN Sought(r, c) ELSE {}
  BY <1>2, ResultFacts DEF Sought, Skipped
<1>3. \A a : a \in G <=> \E c \in DOMAIN Cats(r) : ~Skipped(Cats(r)[c]) /\ a \in Range(Result(r, c))
  BY <1>1 DEF Gathered
<1>4. \A a : a \in S <=> \E c \in DOMAIN Cats(r) : Cats(r)[c].ok /\ a \in Sought(r, c)
  OBVIOUS
<1> HIDE DEF G, S
<1>5. G \subseteq S
  BY <1>2, <1>3, <1>4
<1>6. S \subseteq G \cup P
  <2> SUFFICES ASSUME NEW c \in DOMAIN Cats(r), Cats(r)[c].ok, NEW a \in Sought(r, c)
               PROVE  a \in G \cup P
    BY <1>4
  <2>1. CASE Skipped(Cats(r)[c])
    BY <2>1, SkippedListed
  <2>2. CASE ~Skipped(Cats(r)[c])
    BY <1>2, <1>3, <2>2
  <2> QED
    BY <2>1, <2>2
<1>7. G \cup P = S \cup P
  BY <1>5, <1>6
<1>8. Answered(r) = IF ~Repos[r].identity THEN {} ELSE G \cup P
  BY DEF Answered, G, P
<1>9. Expected(r) = IF ~Repos[r].identity THEN {} ELSE S \cup P
  BY DEF Expected, S, P
<1> QED
  BY <1>7, <1>8, <1>9

-----------------------------------------------------------------------------
(* What the search finds: the routines.                                    *)

\* The search does not change.
LEMMA SearchFixed ==
  ASSUME UNCHANGED search
  PROVE  /\ Repos' = Repos /\ Opts' = Opts /\ Arts(search)' = Arts(search) /\ Asking' = Asking
         /\ \A r : Cats(r)' = Cats(r) /\ Used(r)' = Used(r)
         /\ \A r : Answered(r)' = Answered(r) /\ Expected(r)' = Expected(r)
         /\ \A c : Skipped(c)' = Skipped(c)
         /\ \A r, n : Gathered(r, n)' = Gathered(r, n)
<1>1. /\ Repos' = Repos /\ Opts' = Opts /\ Arts(search)' = Arts(search)
      /\ search.miner' = search.miner
  BY DEF Repos, Opts
<1>2. \A r : Cats(r)' = Cats(r) /\ Used(r)' = Used(r)
  BY <1>1 DEF Cats, Used
<1>3. Asking' = Asking
  BY <1>1, <1>2 DEF Asking
<1>4. \A c : Skipped(c)' = Skipped(c)
  BY <1>1 DEF Skipped
<1>5. \A a : Directory(a)' = Directory(a)
  BY <1>1 DEF Directory
<1>6. \A a : Matches(a)' = Matches(a)
  BY <1>1 DEF Matches, ByOptions, Asked, LastAsked, SelectLastInSeq
<1>7. \A r, c : Result(r, c)' = Result(r, c) /\ Sought(r, c)' = Sought(r, c)
  BY <1>1, <1>2, <1>5, <1>6 DEF Result, Sought
<1>8. \A r : Providers(r)' = Providers(r)
  BY <1>2, <1>6 DEF Providers
<1>9. \A r, n : Gathered(r, n)' = Gathered(r, n)
  BY <1>2, <1>4, <1>7 DEF Gathered
<1>10. \A r : Answered(r)' = Answered(r)
  BY <1>1, <1>2, <1>8, <1>9 DEF Answered
<1>11. \A r : Expected(r)' = Expected(r)
  BY <1>1, <1>2, <1>7, <1>8 DEF Expected
<1> QED
  BY <1>1, <1>2, <1>3, <1>4, <1>9, <1>10, <1>11

LEMMA OthersKeep ==
  ASSUME UNCHANGED search, NEW r, UNCHANGED <<routine[r], worker[r]>>, Reads(r), Gathers(r)
  PROVE  Reads(r)' /\ Gathers(r)'
<1>1. Reads(r)'
  BY SearchFixed DEF Reads
<1>2. Gathers(r)'
  BY SearchFixed DEF Gathers
<1> QED
  BY <1>1, <1>2

LEMMA RoutineIs ==
  ASSUME SearchTypes, NEW r \in DOMAIN Repos
  PROVE  routine[r] \in RoutineType(Seq(Arts(search))) /\ DOMAIN routine = DOMAIN Repos
BY DEF SearchTypes, Routines, Repos

\* The fields of a routine after its steps.
LEMMA RoutineFields ==
  ASSUME NEW A, NEW x \in RoutineType(A)
  PROVE  /\ \A s : LET y == [x EXCEPT !.pc = s] IN
              y.pc = s /\ y.acc = x.acc /\ y.next = x.next /\ y.bad = x.bad
         /\ \A n : LET y == [x EXCEPT !.pc = "collect", !.next = n] IN
              y.pc = "collect" /\ y.acc = x.acc /\ y.next = n
         /\ \A n : LET y == [x EXCEPT !.next = n] IN
              y.pc = x.pc /\ y.acc = x.acc /\ y.next = n /\ y.bad = x.bad
         /\ \A n, k : LET y == [x EXCEPT !.next = n, !.free = k] IN
              y.pc = x.pc /\ y.acc = x.acc /\ y.next = n /\ y.bad = x.bad
         /\ \A k : LET y == [x EXCEPT !.free = k] IN
              y.pc = x.pc /\ y.acc = x.acc /\ y.next = x.next /\ y.bad = x.bad
         /\ \A n, a, k : LET y == [x EXCEPT !.next = n, !.acc = a, !.free = k] IN
              y.pc = x.pc /\ y.acc = a /\ y.next = n /\ y.bad = x.bad
         /\ \A a, b : LET y == [x EXCEPT !.pc = "answer", !.acc = a, !.bad = b] IN
              y.pc = "answer" /\ y.acc = a /\ y.bad = b
BY DEF RoutineType

\* Where a category is read and none is taken, its routine changes only its pc.
LEMMA WaitsStep ==
  ASSUME UNCHANGED <<search, worker>>, NEW r \in DOMAIN Repos, Reads(r),
         routine[r].pc \in {"idle", "start", "spawn"} \/ routine'[r].pc \in {"answer", "done"}
  PROVE  Reads(r)'
BY SearchFixed DEF Reads

LEMMA OpenGathers ==
  ASSUME SearchTypes, NEW r \in DOMAIN Repos, Reads(r), Gathers(r), Open(r)
  PROVE  Reads(r)' /\ Gathers(r)'
<1> DEFINE x == routine[r]
           y == routine'[r]
<1>1. x \in RoutineType(Seq(Arts(search))) /\ DOMAIN routine = DOMAIN Repos
  BY RoutineIs
<1>2. x.pc = "start" /\ x.acc = <<>> /\ UNCHANGED <<search, worker>>
  BY DEF Open, Gathers
<1>3. Reads(r)'
  BY <1>2, WaitsStep
<1>4. CASE ~Repos[r].identity
  <2>1. y = [x EXCEPT !.pc = "answer", !.acc = <<>>, !.bad = FALSE]
    BY <1>1, <1>4 DEF Open, Answer
  <2>2. y.pc = "answer" /\ y.acc = <<>> /\ ~y.bad
    BY <1>1, <2>1, RoutineFields
  <2>3. Answered(r) = {}
    BY <1>4 DEF Answered
  <2> QED
    BY <1>2, <1>3, <2>2, <2>3, SearchFixed, OnceEmpty DEF Gathers
<1>5. CASE y = [x EXCEPT !.pc = "answer", !.acc = <<>>, !.bad = TRUE]
  <2>1. y.pc = "answer" /\ y.acc = <<>> /\ y.bad
    BY <1>1, <1>5, RoutineFields
  <2> QED
    BY <1>2, <1>3, <2>1 DEF Gathers
<1>6. CASE Repos[r].identity /\ y = [x EXCEPT !.pc = "spawn"]
  <2>1. y.pc = "spawn" /\ y.acc = <<>>
    BY <1>1, <1>2, <1>6, RoutineFields
  <2> QED
    BY <1>2, <1>3, <1>6, <2>1, SearchFixed DEF Gathers
<1> QED
  BY <1>1, <1>4, <1>5, <1>6 DEF Open, Answer

LEMMA SpawnGathers ==
  ASSUME SearchTypes, Shapes, NEW r \in DOMAIN Repos, Reads(r), Gathers(r),
         Spawn(r) \/ Spawned(r)
  PROVE  Reads(r)' /\ Gathers(r)'
<1> DEFINE x == routine[r]
           y == routine'[r]
           c == routine[r].next
<1>1. x \in RoutineType(Seq(Arts(search))) /\ DOMAIN routine = DOMAIN Repos
  BY RoutineIs
<1>2. x.pc = "spawn" /\ x.acc = <<>> /\ UNCHANGED search /\ Repos[r].identity
  BY DEF Spawn, Spawned, Gathers
<1>3. \A d \in DOMAIN Cats(r) : worker[r][d] = "done" => Skipped(Cats(r)[d])
  BY <1>2 DEF Reads
<1>4. CASE Spawned(r)
  <2>1. y = [x EXCEPT !.pc = "collect", !.next = 1]
    BY <1>1, <1>4 DEF Spawned
  <2>2. y.pc = "collect" /\ y.acc = <<>> /\ y.next = 1
    BY <1>1, <1>2, <2>1, RoutineFields
  <2>3. Gathered(r, 1) = {}
    <3>1. Len(Cats(r)) + 1 \in Nat /\ Len(Cats(r)) + 1 > Len(Cats(r))
      BY SearchAssumption DEF SearchTypes, SearchAssumption, Repos, Cats
    <3> QED
      BY <3>1, GatheredEnds
  <2>4. Gathers(r)'
    BY <1>2, <2>2, <2>3, SearchFixed, OnceEmpty DEF Gathers
  <2>5. UNCHANGED worker
    BY <1>4 DEF Spawned
  <2> QED
    BY <1>2, <2>4, <2>5, WaitsStep
<1>5. CASE Spawn(r)
  <2>1. y.pc = "spawn" /\ y.acc = <<>>
    <3>1. CASE routine' = [routine EXCEPT ![r].next = @ + 1]
      <4>1. y = [x EXCEPT !.next = x.next + 1]
        BY <1>1, <3>1
      <4> QED
        BY <1>1, <1>2, <4>1, RoutineFields
    <3>2. CASE routine' = [routine EXCEPT ![r] = [routine[r] EXCEPT !.next = @ + 1, !.free = @ - 1]]
      <4>1. y = [x EXCEPT !.next = x.next + 1, !.free = x.free - 1]
        BY <1>1, <3>2
      <4> QED
        BY <1>1, <1>2, <4>1, RoutineFields
    <3> QED
      BY <1>5, <3>1, <3>2 DEF Spawn
  <2>2. Gathers(r)'
    BY <1>2, <2>1, SearchFixed DEF Gathers
  <2>3. \A d \in DOMAIN Cats(r) : d # c => worker'[r][d] = worker[r][d]
    BY <1>5 DEF Spawn, Shapes
  <2>4. c \in DOMAIN Cats(r)
    <3>1. c \in Nat \ {0} /\ c <= Len(Cats(r)) /\ DOMAIN Cats(r) = 1 .. Len(Cats(r))
          /\ Len(Cats(r)) \in Nat
      BY <1>1, <1>5, SearchAssumption
      DEF RoutineType, Spawn, SearchTypes, SearchAssumption, Repos, Cats
    <3> QED
      BY <3>1
  <2>5. \/ Skipped(Cats(r)[c]) /\ worker'[r][c] = "done"
        \/ ~Skipped(Cats(r)[c]) /\ worker'[r][c] = "scan"
    BY <1>5, <2>4 DEF Spawn, Shapes, Category
  <2>6. Reads(r)'
    <3>1. ASSUME NEW d \in DOMAIN Cats(r)
          PROVE  /\ worker'[r][d] \in {"scan", "send"} => ~Skipped(Cats(r)[d])
                 /\ worker'[r][d] = "done" => Skipped(Cats(r)[d])
      <4>1. CASE d = c
        BY <2>5, <4>1
      <4>2. CASE d # c
        BY <1>3, <2>3, <4>2 DEF Reads
      <4> QED
        BY <4>1, <4>2
    <3> QED
      BY <1>2, <3>1, SearchFixed DEF Reads
  <2> QED
    BY <2>2, <2>6
<1> QED
  BY <1>4, <1>5

LEMMA CollectGathers ==
  ASSUME SearchTypes, Shapes, NEW r \in DOMAIN Repos, Reads(r), Gathers(r), Collect(r)
  PROVE  Reads(r)' /\ Gathers(r)'
<1> DEFINE x == routine[r]
           y == routine'[r]
           c == routine[r].next
<1>1. x \in RoutineType(Seq(Arts(search))) /\ DOMAIN routine = DOMAIN Repos
  BY RoutineIs
<1>2. /\ x.pc = "collect" /\ UNCHANGED search /\ Repos[r].identity
      /\ Range(x.acc) = Gathered(r, c) /\ Once(x.acc) /\ x.acc \in Seq(Arts(search))
  BY <1>1 DEF Collect, Gathers, RoutineType
<1>3. /\ c \in Nat \ {0} /\ c <= Len(Cats(r)) /\ DOMAIN Cats(r) = 1 .. Len(Cats(r))
      /\ Len(Cats(r)) \in Nat
  BY <1>1, SearchAssumption
  DEF RoutineType, Collect, SearchTypes, SearchAssumption, Repos, Cats
<1>4. c \in DOMAIN Cats(r) /\ c + 1 \in Nat
  BY <1>3
<1>5. \A d \in DOMAIN Cats(r) : d \in Nat /\ (d < c + 1 <=> d < c \/ d = c)
  BY <1>3
<1> HIDE DEF c
<1>6. CASE worker[r][c] = "done" /\ routine' = [routine EXCEPT ![r].next = @ + 1] /\ UNCHANGED worker
  <2>1. y = [x EXCEPT !.next = c + 1]
    BY <1>1, <1>6 DEF c
  <2>2. y.pc = "collect" /\ y.acc = x.acc /\ y.next = c + 1
    BY <1>1, <1>2, <2>1, RoutineFields
  <2>3. Skipped(Cats(r)[c])
    BY <1>2, <1>3, <1>4, <1>6 DEF Reads, c
  <2>4. Gathered(r, c + 1) = Gathered(r, c)
    BY <1>4, <2>3, GatheredNext
  <2>5. Gathers(r)'
    BY <1>2, <2>2, <2>4, SearchFixed DEF Gathers
  <2>6. \A d \in DOMAIN Cats(r) :
          worker[r][d] = "done" => Skipped(Cats(r)[d]) \/ d < c + 1
    BY <1>2, <1>5 DEF Reads, c
  <2>7. Reads(r)'
    BY <1>2, <1>6, <2>2, <2>6, SearchFixed DEF Reads
  <2> QED
    BY <2>5, <2>7
<1>7. CASE /\ worker[r][c] = "send"
           /\ worker' = [worker EXCEPT ![r][c] = "done"]
           /\ routine' = [routine EXCEPT ![r] =
                [routine[r] EXCEPT !.next = @ + 1, !.acc = Collected(r, c),
                                   !.free = Place(r, "collect")]]
  <2>1. y = [x EXCEPT !.next = c + 1, !.acc = Collected(r, c), !.free = Place(r, "collect")]
    BY <1>1, <1>7 DEF c
  <2>2. y.pc = "collect" /\ y.acc = x.acc \o Result(r, c) /\ y.next = c + 1
    BY <1>1, <1>2, <2>1, RoutineFields DEF Collected
  <2>3. ~Skipped(Cats(r)[c])
    BY <1>4, <1>7 DEF Reads
  <2>4. /\ Gathered(r, c + 1) = Gathered(r, c) \cup Range(Result(r, c))
        /\ Gathered(r, c) \cap Range(Result(r, c)) = {}
    BY <1>4, <2>3, GatheredNext
  <2>5. Result(r, c) \in Seq(Arts(search)) /\ Once(Result(r, c))
    BY <1>4, ResultType, ResultFacts
  <2>6. Range(y.acc) = Gathered(r, c + 1) /\ Once(y.acc)
    <3>1. Range(x.acc \o Result(r, c)) = Range(x.acc) \cup Range(Result(r, c))
      BY <1>2, <2>5, RangeConcat
    <3>2. Once(x.acc \o Result(r, c))
      BY <1>2, <2>4, <2>5, OnceConcat
    <3> QED
      BY <1>2, <2>2, <2>4, <3>1, <3>2
  <2>7. Gathers(r)'
    BY <1>2, <2>2, <2>6, SearchFixed DEF Gathers
  <2>8. /\ worker'[r][c] = "done"
        /\ \A d \in DOMAIN Cats(r) : d # c => worker'[r][d] = worker[r][d]
    BY <1>4, <1>7 DEF Shapes
  <2>9. ASSUME NEW d \in DOMAIN Cats(r)
        PROVE  /\ worker'[r][d] \in {"scan", "send"} => ~Skipped(Cats(r)[d])
               /\ worker'[r][d] = "done" => Skipped(Cats(r)[d]) \/ d < c + 1
    <3>1. CASE d = c
      BY <1>5, <2>8, <3>1
    <3>2. CASE d # c
      BY <1>2, <1>5, <2>8, <3>2 DEF Reads, c
    <3> QED
      BY <3>1, <3>2
  <2>10. Reads(r)'
    BY <1>2, <2>2, <2>9, SearchFixed DEF Reads
  <2> QED
    BY <2>7, <2>10
<1> QED
  BY <1>6, <1>7 DEF Collect, c

LEMMA ProvideGathers ==
  ASSUME SearchTypes, NEW r \in DOMAIN Repos, Reads(r), Gathers(r), Provide(r)
  PROVE  Reads(r)' /\ Gathers(r)'
<1> DEFINE x == routine[r]
           y == routine'[r]
           a == x.acc \o Provided(r, Range(x.acc))
<1>1. x \in RoutineType(Seq(Arts(search))) /\ DOMAIN routine = DOMAIN Repos
  BY RoutineIs
<1>2. /\ x.pc = "collect" /\ UNCHANGED <<search, worker>> /\ Repos[r].identity
      /\ Range(x.acc) = Gathered(r, x.next) /\ Once(x.acc)
      /\ x.acc \in Seq(Arts(search)) /\ x.next \in Nat /\ x.next > Len(Cats(r))
  BY <1>1 DEF Provide, Gathers, RoutineType
<1>3. Range(x.acc) = Gathered(r, Len(Cats(r)) + 1)
  BY <1>2, GatheredEnds
<1>4. \E s, b : Answer(r, s, b)
  BY DEF Provide
<1>5. y.pc = "answer"
  BY <1>1, <1>4, RoutineFields DEF Answer
<1>6. Reads(r)'
  BY <1>2, <1>5, WaitsStep
<1>7. CASE ~Opts.only
  <2>1. y = [x EXCEPT !.pc = "answer", !.acc = x.acc, !.bad = FALSE]
    BY <1>1, <1>7 DEF Provide, Answer
  <2>2. y.pc = "answer" /\ y.acc = x.acc /\ ~y.bad
    BY <1>1, <2>1, RoutineFields
  <2>3. Range(x.acc) = Answered(r)
    BY <1>2, <1>3, <1>7 DEF Answered
  <2> QED
    BY <1>2, <1>6, <2>2, <2>3, SearchFixed DEF Gathers
<1>8. CASE Opts.only /\ ~Repos[r].provides
  <2>1. y = [x EXCEPT !.pc = "answer", !.acc = <<>>, !.bad = TRUE]
    BY <1>1, <1>8 DEF Provide, Answer
  <2>2. y.pc = "answer" /\ y.acc = <<>> /\ y.bad
    BY <1>1, <2>1, RoutineFields
  <2> QED
    BY <1>6, <2>2 DEF Gathers
<1>9. CASE Opts.only /\ Repos[r].provides
  <2>1. y = [x EXCEPT !.pc = "answer", !.acc = a, !.bad = FALSE]
    BY <1>1, <1>9 DEF Provide, Answer
  <2> HIDE DEF a
  <2>2. y.pc = "answer" /\ y.acc = a /\ ~y.bad
    BY <1>1, <2>1, RoutineFields
  <2> DEFINE t == Provided(r, Range(x.acc))
  <2>3. t \in Seq(Arts(search)) /\ Range(t) = Providers(r) \ Range(x.acc) /\ Once(t)
    BY ProvidedFacts
  <2> HIDE DEF t
  <2>4. Range(x.acc \o t) = Range(x.acc) \cup Range(t) /\ Once(x.acc \o t)
    BY <1>2, <2>3, RangeConcat, OnceConcat
  <2>5. Range(a) = Answered(r) /\ Once(a)
    BY <1>2, <1>3, <1>9, <2>3, <2>4 DEF Answered, t, a
  <2> QED
    BY <1>2, <1>6, <2>2, <2>5, SearchFixed DEF Gathers
<1> QED
  BY <1>7, <1>8, <1>9

\* The routine starts, or its answer is taken.
LEMMA EdgeGathers ==
  ASSUME SearchTypes, NEW r \in DOMAIN Repos, Reads(r), Gathers(r), UNCHANGED <<search, worker>>,
         \/ routine[r].pc = "idle" /\ routine' = [routine EXCEPT ![r].pc = "start"]
         \/ routine[r].pc = "answer" /\ routine' = [routine EXCEPT ![r].pc = "done"]
  PROVE  Reads(r)' /\ Gathers(r)'
<1>1. routine[r] \in RoutineType(Seq(Arts(search))) /\ DOMAIN routine = DOMAIN Repos
  BY RoutineIs
<1>2. \/ routine[r].pc = "idle" /\ routine'[r].pc = "start"
      \/ routine[r].pc = "answer" /\ routine'[r].pc = "done"
  BY <1>1 DEF RoutineType
<1>3. routine'[r].acc = routine[r].acc /\ routine'[r].bad = routine[r].bad
  BY <1>1 DEF RoutineType
<1>4. Reads(r)'
  BY <1>2, WaitsStep
<1> QED
  BY <1>2, <1>3, <1>4, SearchFixed DEF Gathers

LEMMA ScanGathers ==
  ASSUME SearchTypes, Shapes, NEW r \in DOMAIN Repos, Reads(r), Gathers(r),
         NEW c \in DOMAIN Cats(r), Scan(r, c)
  PROVE  Reads(r)' /\ Gathers(r)'
<1>1. routine[r] \in RoutineType(Seq(Arts(search))) /\ DOMAIN routine = DOMAIN Repos
  BY RoutineIs
<1>2. routine'[r] = [routine[r] EXCEPT !.free = Place(r, "scan")] /\ UNCHANGED search
  BY <1>1 DEF Scan
<1>3. LET y == routine'[r] IN y.pc = routine[r].pc /\ y.acc = routine[r].acc
                              /\ y.next = routine[r].next /\ y.bad = routine[r].bad
  BY <1>1, <1>2, RoutineFields
<1>4. /\ worker[r][c] = "scan" /\ worker'[r][c] = "send"
      /\ \A d \in DOMAIN Cats(r) : d # c => worker'[r][d] = worker[r][d]
  BY DEF Scan, Shapes
<1>5. Gathers(r)'
  BY <1>2, <1>3, SearchFixed DEF Gathers
<1>6. Reads(r)'
  <2>1. ASSUME NEW d \in DOMAIN Cats(r)
        PROVE  /\ worker'[r][d] \in {"scan", "send"} => ~Skipped(Cats(r)[d])
               /\ worker'[r][d] = "done" =>
                    \/ Skipped(Cats(r)[d])
                    \/ routine[r].pc \in {"answer", "done"}
                    \/ routine[r].pc = "collect" /\ d < routine[r].next
    BY <1>4 DEF Reads
  <2> QED
    BY <1>2, <1>3, <2>1, SearchFixed DEF Reads
<1> QED
  BY <1>5, <1>6

-----------------------------------------------------------------------------
(* What the search finds: the caller.                                      *)

LEMMA LostStutter ==
  ASSUME UNCHANGED <<search, main, res, err>>, NothingLost
  PROVE  NothingLost'
BY SearchFixed DEF NothingLost

LEMMA FiniteRepos ==
  ASSUME SearchTypes
  PROVE  IsFiniteSet(Sent) /\ IsFiniteSet(Asking)
         /\ Cardinality(Sent) \in Nat /\ Cardinality(Asking) \in Nat
<1>1. IsFiniteSet(DOMAIN Repos)
  <2>1. DOMAIN Repos = 1 .. Len(Repos) /\ Len(Repos) \in Int /\ 1 \in Int
    BY SearchAssumption DEF SearchTypes, SearchAssumption, Repos
  <2> QED
    BY <2>1, FS_Interval
<1>2. Sent \subseteq DOMAIN Repos /\ Asking \subseteq DOMAIN Repos
  BY DEF Sent, Asking
<1> QED
  BY <1>1, <1>2, FS_Subset, FS_CardinalityType

\* Flow after a step, from its parts.
LEMMA FlowAfter ==
  ASSUME UNCHANGED search, ~search.miner, res' \in Seq(Arts(search)),
         Range(res') \cup UNION {Range(ch'[i].arts) : i \in DOMAIN ch'}
           = UNION {Range(routine'[r].acc) : r \in Sent'},
         \A r \in Sent' : routine'[r].bad => err' \/ \E i \in DOMAIN ch' : ch'[i].bad,
         \A i \in DOMAIN ch' : ch'[i].bad => ch'[i].arts = <<>>
  PROVE  Flow'
BY SearchFixed DEF Flow

\* A step inside a routine is not seen by the caller.
LEMMA LocalStep ==
  ASSUME Calling, UNCHANGED <<search, main, ch, res, err>>,
         \A r \in DOMAIN Repos :
           /\ routine'[r].pc = "idle" <=> routine[r].pc = "idle"
           /\ routine'[r].pc = "done" <=> routine[r].pc = "done"
           /\ routine[r].pc = "done" =>
                routine'[r].acc = routine[r].acc /\ routine'[r].bad = routine[r].bad
  PROVE  Calling'
<1>1. Sent' = Sent
  BY SearchFixed DEF Sent
<1>2. \A r \in Sent : routine'[r].acc = routine[r].acc /\ routine'[r].bad = routine[r].bad
  BY DEF Sent
<1>3. Launches' /\ Receives'
  BY <1>1, SearchFixed DEF Calling, Launches, Receives
<1>4. UNION {Range(routine'[r].acc) : r \in Sent} = UNION {Range(routine[r].acc) : r \in Sent}
  BY <1>2
<1>5. Flow'
  <2>1. CASE main.pc \in {"launch", "receive"}
    <3>1. /\ ~search.miner /\ res \in Seq(Arts(search))
          /\ Range(res) \cup UNION {Range(ch[i].arts) : i \in DOMAIN ch}
               = UNION {Range(routine[r].acc) : r \in Sent}
          /\ \A r \in Sent : routine[r].bad => err \/ \E i \in DOMAIN ch : ch[i].bad
          /\ \A i \in DOMAIN ch : ch[i].bad => ch[i].arts = <<>>
      BY <2>1 DEF Calling, Flow
    <3>2. \A r \in Sent' : routine'[r].bad => err' \/ \E i \in DOMAIN ch' : ch'[i].bad
      BY <1>1, <1>2, <3>1
    <3>3. Range(res') \cup UNION {Range(ch'[i].arts) : i \in DOMAIN ch'}
            = UNION {Range(routine'[r].acc) : r \in Sent'}
      BY <1>1, <1>4, <3>1
    <3> QED
      BY <3>1, <3>2, <3>3, FlowAfter
  <2> QED
    BY <2>1 DEF Flow
<1>6. Apart'
  BY DEF Calling, Apart
<1> QED
  BY <1>3, <1>5, <1>6, LostStutter DEF Calling

LEMMA InsideStep ==
  ASSUME SearchTypes, Calling, NEW r \in DOMAIN Repos,
         \/ Open(r) \/ Spawn(r) \/ Spawned(r) \/ Collect(r) \/ Provide(r)
         \/ \E c \in DOMAIN Cats(r) : Scan(r, c)
  PROVE  Calling'
<1> DEFINE x == routine[r]
           y == routine'[r]
<1>1. x \in RoutineType(Seq(Arts(search))) /\ DOMAIN routine = DOMAIN Repos
  BY RoutineIs
<1>2. UNCHANGED <<search, main, ch, res, err>>
  BY DEF Open, Spawn, Spawned, Collect, Provide, Scan
<1>3. ASSUME x.pc \notin {"idle", "done"}, y.pc \notin {"idle", "done"},
             \A q \in DOMAIN Repos \ {r} : routine'[q] = routine[q]
      PROVE  Calling'
  <2>1. ASSUME NEW q \in DOMAIN Repos
        PROVE  /\ routine'[q].pc = "idle" <=> routine[q].pc = "idle"
               /\ routine'[q].pc = "done" <=> routine[q].pc = "done"
               /\ routine[q].pc = "done" =>
                    routine'[q].acc = routine[q].acc /\ routine'[q].bad = routine[q].bad
    BY <1>3
  <2> QED
    BY <1>2, <2>1, LocalStep
<1>4. ASSUME NEW s, NEW b, Answer(r, s, b), x.pc \notin {"idle", "done"} PROVE Calling'
  <2>1. y = [x EXCEPT !.pc = "answer", !.acc = s, !.bad = b]
        /\ \A q \in DOMAIN Repos \ {r} : routine'[q] = routine[q]
    BY <1>1, <1>4 DEF Answer
  <2>2. y.pc = "answer"
    BY <1>1, <2>1, RoutineFields
  <2> QED
    BY <1>3, <1>4, <2>1, <2>2
<1>5. CASE Open(r)
  <2>1. x.pc = "start"
    BY <1>5 DEF Open
  <2>2. CASE \E s, b : Answer(r, s, b)
    BY <1>4, <2>1, <2>2
  <2>3. CASE routine' = [routine EXCEPT ![r].pc = "spawn"]
    <3>1. y = [x EXCEPT !.pc = "spawn"] /\ \A q \in DOMAIN Repos \ {r} : routine'[q] = routine[q]
      BY <1>1, <2>3
    <3>2. y.pc = "spawn"
      BY <1>1, <3>1, RoutineFields
    <3> QED
      BY <1>3, <2>1, <3>1, <3>2
  <2> QED
    BY <1>5, <2>2, <2>3 DEF Open
<1>7. CASE Provide(r)
  <2>1. x.pc = "collect" /\ \E s, b : Answer(r, s, b)
    BY <1>7 DEF Provide
  <2> QED
    BY <1>4, <2>1
<1>8. CASE Spawned(r)
  <2>1. /\ x.pc = "spawn" /\ y = [x EXCEPT !.pc = "collect", !.next = 1]
        /\ \A q \in DOMAIN Repos \ {r} : routine'[q] = routine[q]
    BY <1>1, <1>8 DEF Spawned
  <2>2. y.pc = "collect"
    BY <1>1, <2>1, RoutineFields
  <2> QED
    BY <1>3, <2>1, <2>2
<1>9. CASE routine' = [routine EXCEPT ![r].next = @ + 1] /\ x.pc \in {"spawn", "collect"}
  <2>1. y = [x EXCEPT !.next = x.next + 1] /\ \A q \in DOMAIN Repos \ {r} : routine'[q] = routine[q]
    BY <1>1, <1>9
  <2>2. y.pc = x.pc
    BY <1>1, <2>1, RoutineFields
  <2> QED
    BY <1>3, <1>9, <2>1, <2>2
<1>10. CASE Spawn(r)
  <2>1. x.pc = "spawn"
    BY <1>10 DEF Spawn
  <2>2. CASE routine' = [routine EXCEPT ![r] = [routine[r] EXCEPT !.next = @ + 1, !.free = @ - 1]]
    <3>1. y = [x EXCEPT !.next = x.next + 1, !.free = x.free - 1]
          /\ \A q \in DOMAIN Repos \ {r} : routine'[q] = routine[q]
      BY <1>1, <2>2
    <3>2. y.pc = "spawn"
      BY <1>1, <2>1, <3>1, RoutineFields
    <3> QED
      BY <1>3, <2>1, <3>1, <3>2
  <2> QED
    BY <1>9, <1>10, <2>1, <2>2 DEF Spawn
<1>11. CASE Collect(r)
  <2>1. x.pc = "collect"
    BY <1>11 DEF Collect
  <2>2. ASSUME NEW c, routine' = [routine EXCEPT ![r] =
                 [routine[r] EXCEPT !.next = @ + 1, !.acc = Collected(r, c),
                                    !.free = Place(r, "collect")]]
        PROVE  Calling'
    <3>1. y = [x EXCEPT !.next = x.next + 1, !.acc = Collected(r, c), !.free = Place(r, "collect")]
          /\ \A q \in DOMAIN Repos \ {r} : routine'[q] = routine[q]
      BY <1>1, <2>2
    <3>2. y.pc = "collect"
      BY <1>1, <2>1, <3>1, RoutineFields
    <3> QED
      BY <1>3, <2>1, <3>1, <3>2
  <2> QED
    BY <1>9, <1>11, <2>1, <2>2 DEF Collect
<1>6. CASE \E c \in DOMAIN Cats(r) : Scan(r, c)
  <2>1. \A q \in DOMAIN Repos \ {r} : routine'[q] = routine[q]
    BY <1>1, <1>6 DEF Scan
  <2>2. \E n : y = [x EXCEPT !.free = n]
    BY <1>1, <1>6 DEF Scan
  <2>3. y.pc = x.pc /\ y.acc = x.acc /\ y.bad = x.bad
    BY <1>1, <2>2, RoutineFields
  <2> QED
    BY <1>2, <2>1, <2>3, LocalStep
<1> QED
  BY <1>5, <1>6, <1>7, <1>8, <1>10, <1>11

\* The answer of a repository joins those in the channel.
LEMMA SendStep ==
  ASSUME SearchTypes, Shapes, Calling, \A q \in DOMAIN Repos : Gathers(q),
         NEW r \in DOMAIN Repos, Send(r)
  PROVE  Shapes' /\ Calling'
<1> DEFINE x == routine[r]
           T == Seq(Arts(search))
           m == [arts |-> x.acc, bad |-> x.bad]
           n == Len(ch) + 1
<1>1. x \in RoutineType(T) /\ DOMAIN routine = DOMAIN Repos
  BY RoutineIs
<1>2. /\ x.pc = "answer" /\ x.acc \in T /\ x.bad \in BOOLEAN /\ ch' = Append(ch, m)
      /\ UNCHANGED <<search, main, worker, res, err>>
  BY <1>1 DEF Send, RoutineType
<1>3. /\ routine'[r].pc = "done" /\ routine'[r].acc = x.acc /\ routine'[r].bad = x.bad
      /\ \A q \in DOMAIN Repos \ {r} : routine'[q] = routine[q]
  <2>1. routine'[r] = [x EXCEPT !.pc = "done"] /\ \A q \in DOMAIN Repos \ {r} : routine'[q] = routine[q]
    BY <1>1 DEF Send
  <2> QED
    BY <1>1, <2>1, RoutineFields
<1>4. m \in [arts : T, bad : BOOLEAN] /\ m.arts = x.acc /\ m.bad = x.bad
  BY <1>2
<1> HIDE DEF m
<1>5. ch \in Seq([arts : T, bad : BOOLEAN]) /\ ch' \in Seq([arts : T, bad : BOOLEAN])
  BY <1>2, <1>4 DEF Shapes
<1>6. /\ DOMAIN ch = 1 .. Len(ch) /\ Len(ch) \in Nat /\ Len(ch') = n /\ DOMAIN ch' = 1 .. n
      /\ \A i \in DOMAIN ch : ch'[i] = ch[i]
      /\ ch'[n] = m
  BY <1>2, <1>5
<1>7. n \in DOMAIN ch' /\ n \notin DOMAIN ch /\ \A i : i \in DOMAIN ch' <=> i \in DOMAIN ch \/ i = n
  BY <1>6
<1>8. Shapes'
  BY <1>2, <1>5, SearchFixed DEF Shapes
<1>9. Sent' = Sent \cup {r} /\ r \notin Sent
  BY <1>2, <1>3, SearchFixed DEF Sent
<1>10. Cardinality(Sent') = Cardinality(Sent) + 1 /\ Cardinality(Sent) \in Nat
  BY <1>9, FiniteRepos, FS_AddElement
<1>11. Launches'
  BY <1>2, <1>3, <1>6, <1>10, SearchFixed DEF Calling, Launches
<1>12. Receives'
  <2>1. CASE main.pc = "receive"
    <3>1. Cardinality(Asking) \in Nat /\ main.at \in Nat
      BY <2>1, FiniteRepos DEF Calling, Receives
    <3>2. Cardinality(Sent)' + main.at = Cardinality(Asking) + Len(ch')
      <4>1. \A a, b, k, l, a1, l1 \in Nat :
              a + k = b + l /\ a1 = a + 1 /\ l1 = l + 1 => a1 + k = b + l1
        OBVIOUS
      <4>2. Cardinality(Sent) + main.at = Cardinality(Asking) + Len(ch)
        BY <2>1 DEF Calling, Receives
      <4>3. Cardinality(Sent)' = Cardinality(Sent) + 1 /\ Cardinality(Sent) \in Nat
            /\ Len(ch') = Len(ch) + 1 /\ Len(ch) \in Nat
            /\ Cardinality(Sent)' \in Nat /\ Len(ch') \in Nat
        BY <1>6, <1>10
      <4> QED
        BY <3>1, <4>1, <4>2, <4>3
    <3> QED
      BY <1>2, <1>3, <2>1, <3>2, SearchFixed DEF Calling, Receives
  <2> QED
    BY <1>2, <2>1 DEF Receives
<1> DEFINE Held == UNION {Range(ch[i].arts) : i \in DOMAIN ch}
           Gone == UNION {Range(routine[q].acc) : q \in Sent}
<1>13. UNION {Range(ch'[i].arts) : i \in DOMAIN ch'} = Held \cup Range(x.acc)
  BY <1>4, <1>6, <1>7
<1>14. \A q \in Sent : routine'[q] = routine[q]
  BY <1>3, <1>9 DEF Sent
<1>15. UNION {Range(routine'[q].acc) : q \in Sent'} = Gone \cup Range(x.acc)
  BY <1>3, <1>9, <1>14
<1>16. ASSUME NEW q \in DOMAIN Repos, routine[q].pc \in {"answer", "done"}
       PROVE  Range(routine[q].acc) \subseteq Of(q)
  BY <1>16, AnsweredIn, OnceEmpty DEF Gathers
<1>17. Gone \cap Range(x.acc) = {}
  <2> SUFFICES ASSUME NEW q \in Sent PROVE Range(routine[q].acc) \cap Range(x.acc) = {}
    OBVIOUS
  <2>1. q \in DOMAIN Repos /\ q # r /\ routine[q].pc = "done"
    BY <1>9 DEF Sent
  <2>2. Of(q) \cap Of(r) = {}
    BY <2>1, PackagesApart
  <2>3. Range(routine[q].acc) \subseteq Of(q) /\ Range(x.acc) \subseteq Of(r)
    BY <1>2, <1>16, <2>1
  <2> QED
    BY <2>2, <2>3
<1>18. Once(x.acc) /\ (x.bad => x.acc = <<>>)
  BY <1>2, OnceEmpty DEF Gathers
<1> HIDE DEF Gone, x
<1>19. CASE main.pc \in {"launch", "receive"}
  <2>1. Range(res) \cup Held = Gone
    BY <1>19 DEF Calling, Flow, Gone
  <2>2. /\ Range(res) \cap Range(x.acc) = {}
        /\ \A i \in DOMAIN ch : Range(ch[i].arts) \cap Range(x.acc) = {}
    BY <1>17, <2>1
  <2> HIDE DEF Held
  <2>3. Range(res) \cup UNION {Range(ch'[i].arts) : i \in DOMAIN ch'}
          = UNION {Range(routine'[q].acc) : q \in Sent'}
    BY <1>13, <1>15, <2>1
  <2>4. \A q \in Sent' : routine'[q].bad => err \/ \E i \in DOMAIN ch' : ch'[i].bad
    <3>1. routine'[r].bad => ch'[n].bad
      BY <1>3, <1>4, <1>6 DEF x
    <3>2. ASSUME NEW q \in Sent, routine'[q].bad PROVE err \/ \E i \in DOMAIN ch' : ch'[i].bad
      <4>1. err \/ \E i \in DOMAIN ch : ch[i].bad
        BY <1>14, <1>19, <3>2 DEF Calling, Flow
      <4> QED
        BY <1>6, <1>7, <4>1
    <3> QED
      BY <1>7, <1>9, <3>1, <3>2
  <2>5. \A i \in DOMAIN ch' : ch'[i].bad => ch'[i].arts = <<>>
    BY <1>4, <1>6, <1>7, <1>18, <1>19 DEF Calling, Flow
  <2>6. Flow'
    <3>1. ~search.miner /\ res' \in T /\ search' = search /\ res' = res /\ err' = err
      BY <1>2, <1>19 DEF Calling, Flow
    <3> QED
      BY <2>3, <2>4, <2>5, <3>1, FlowAfter
  <2>7. Once(res) /\ \A i \in DOMAIN ch :
                          /\ Once(ch[i].arts)
                          /\ Range(res) \cap Range(ch[i].arts) = {}
                          /\ \A j \in DOMAIN ch : i # j => Range(ch[i].arts) \cap Range(ch[j].arts) = {}
    BY <1>19 DEF Calling, Apart
  <2>8. Apart'
    <3>1. ASSUME NEW i \in DOMAIN ch'
          PROVE  Once(ch'[i].arts) /\ Range(res) \cap Range(ch'[i].arts) = {}
      <4>1. CASE i = n
        BY <1>4, <1>6, <1>18, <2>2, <4>1
      <4>2. CASE i \in DOMAIN ch
        BY <1>6, <2>7, <4>2
      <4> QED
        BY <1>7, <4>1, <4>2
    <3>2. ASSUME NEW i \in DOMAIN ch', NEW j \in DOMAIN ch', i # j
          PROVE  Range(ch'[i].arts) \cap Range(ch'[j].arts) = {}
      <4>1. CASE i = n
        <5>1. j \in DOMAIN ch
          BY <1>7, <3>2, <4>1
        <5> QED
          BY <1>4, <1>6, <2>2, <4>1, <5>1
      <4>2. CASE j = n
        <5>1. i \in DOMAIN ch
          BY <1>7, <3>2, <4>2
        <5> QED
          BY <1>4, <1>6, <2>2, <4>2, <5>1
      <4>3. CASE i \in DOMAIN ch /\ j \in DOMAIN ch
        BY <1>6, <2>7, <3>2, <4>3
      <4> QED
        BY <1>7, <4>1, <4>2, <4>3
    <3> QED
      BY <1>2, <2>7, <3>1, <3>2 DEF Apart
  <2> QED
    BY <1>2, <1>8, <1>11, <1>12, <2>6, <2>8, LostStutter DEF Calling
<1>20. CASE main.pc \notin {"launch", "receive"}
  <2>1. Flow' /\ Apart'
    BY <1>2, <1>20 DEF Flow, Apart
  <2> QED
    BY <1>2, <1>8, <1>11, <1>12, <2>1, LostStutter DEF Calling
<1> QED
  BY <1>19, <1>20

\* The caller takes the first of the channel.
LEMMA ReceiveStep ==
  ASSUME SearchTypes, Shapes, Calling, Receive
  PROVE  Shapes' /\ Calling'
<1> DEFINE T == Seq(Arts(search))
           m == Head(ch)
<1>1. /\ main.pc = "receive" /\ main.at > 0 /\ ch # <<>> /\ ch' = Tail(ch)
      /\ ch \in Seq([arts : T, bad : BOOLEAN]) /\ UNCHANGED <<search, routine, worker>>
      /\ main' = [main EXCEPT !.at = @ - 1]
  BY DEF Receive, Shapes
<1>2. /\ m = ch[1] /\ 1 \in DOMAIN ch /\ ch' \in Seq([arts : T, bad : BOOLEAN])
      /\ Len(ch') = Len(ch) - 1 /\ Len(ch) \in Nat
      /\ DOMAIN ch = 1 .. Len(ch) /\ DOMAIN ch' = 1 .. Len(ch) - 1
      /\ \A i \in 1 .. Len(ch) - 1 : ch'[i] = ch[i + 1]
  BY <1>1
<1>3. \A i \in DOMAIN ch' : i + 1 \in DOMAIN ch /\ i + 1 # 1 /\ ch'[i] = ch[i + 1]
  BY <1>2
<1>4. ASSUME NEW i \in DOMAIN ch, i # 1
      PROVE  \E j \in DOMAIN ch' : ch'[j] = ch[i]
  <2>1. i - 1 \in DOMAIN ch' /\ ch'[i - 1] = ch[i]
    BY <1>2, <1>4
  <2> QED
    BY <2>1
<1>5. \A i \in DOMAIN ch', j \in DOMAIN ch' : i # j => i + 1 # j + 1
  BY <1>2
<1> HIDE DEF m
<1>6. /\ ~search.miner /\ res \in T
      /\ \A r \in Sent : routine[r].bad => err \/ \E i \in DOMAIN ch : ch[i].bad
      /\ \A i \in DOMAIN ch : ch[i].bad => ch[i].arts = <<>>
      /\ Once(res)
      /\ \A i \in DOMAIN ch :
           /\ Once(ch[i].arts)
           /\ Range(res) \cap Range(ch[i].arts) = {}
           /\ \A j \in DOMAIN ch : i # j => Range(ch[i].arts) \cap Range(ch[j].arts) = {}
      /\ Range(res) \cup UNION {Range(ch[i].arts) : i \in DOMAIN ch}
           = UNION {Range(routine[r].acc) : r \in Sent}
  BY <1>1 DEF Calling, Flow, Apart
<1>7. m.arts \in T /\ m.bad \in BOOLEAN
  <2> HIDE DEF T
  <2>1. m \in [arts : T, bad : BOOLEAN]
    BY <1>1, HeadTail DEF m
  <2> QED
    BY <2>1
<1>8. /\ res' \in T /\ Once(res') /\ Range(res') = Range(res) \cup Range(m.arts)
      /\ m.bad \/ err => err'
  <2>1. CASE m.bad
    <3>1. err' = TRUE /\ res' = res
      BY <2>1 DEF Receive, m
    <3>2. m.arts = <<>>
      BY <1>2, <1>6, <2>1
    <3> QED
      BY <1>6, <3>1, <3>2, OnceEmpty
  <2>2. CASE ~m.bad
    <3>1. err' = err /\ res' = res \o m.arts
      BY <2>2 DEF Receive, m
    <3>2. Once(m.arts) /\ Range(res) \cap Range(m.arts) = {}
      BY <1>2, <1>6
    <3>3. Range(res \o m.arts) = Range(res) \cup Range(m.arts)
      BY <1>6, <1>7, RangeConcat
    <3>4. Once(res \o m.arts)
      BY <1>6, <1>7, <3>2, OnceConcat
    <3>5. res \o m.arts \in T
      BY <1>6, <1>7
    <3> QED
      BY <2>2, <3>1, <3>3, <3>4, <3>5
  <2> QED
    BY <1>7, <2>1, <2>2
<1>9. UNION {Range(ch[i].arts) : i \in DOMAIN ch}
        = Range(m.arts) \cup UNION {Range(ch'[i].arts) : i \in DOMAIN ch'}
  <2>1. ASSUME NEW a, NEW i \in DOMAIN ch, a \in Range(ch[i].arts)
        PROVE  a \in Range(m.arts) \/ \E j \in DOMAIN ch' : a \in Range(ch'[j].arts)
    BY <1>2, <1>4, <2>1
  <2>2. ASSUME NEW a, a \in Range(m.arts) \/ \E j \in DOMAIN ch' : a \in Range(ch'[j].arts)
        PROVE  \E i \in DOMAIN ch : a \in Range(ch[i].arts)
    BY <1>2, <1>3, <2>2
  <2> QED
    BY <2>1, <2>2
<1>10. main'.pc = "receive" /\ main'.at = main.at - 1
  <2>1. main.at \in Nat
    BY <1>1 DEF Calling, Receives
  <2> QED
    BY <1>1, <2>1 DEF Shapes
<1>11. Sent' = Sent
  BY <1>1, SearchFixed DEF Sent
<1>12. Receives'
  <2>1. Cardinality(Asking) \in Nat /\ Cardinality(Sent) \in Nat /\ main.at \in Nat
    BY <1>1, FiniteRepos DEF Calling, Receives
  <2>2. main'.at \in Nat /\ Cardinality(Sent) + main'.at = Cardinality(Asking) + Len(ch')
    <3>1. Cardinality(Sent) + main.at = Cardinality(Asking) + Len(ch)
      BY <1>1 DEF Calling, Receives
    <3>2. main.at > 0
      BY <1>1
    <3>3. Len(ch') = Len(ch) - 1 /\ Len(ch) \in Nat /\ Len(ch') \in Nat
      BY <1>2
    <3>4. main'.at = main.at - 1
      BY <1>10
    <3>5. main'.at \in Nat
      BY <2>1, <3>2, <3>4
    <3>6. \A a, b, k, l, k1, l1 \in Nat :
            a + k = b + l /\ k1 = k - 1 /\ l1 = l - 1 => a + k1 = b + l1
      OBVIOUS
    <3>7. Cardinality(Sent) + main'.at = Cardinality(Asking) + Len(ch')
      BY <2>1, <3>1, <3>3, <3>4, <3>5, <3>6, SMTT(30)
    <3> QED
      BY <3>5, <3>7
  <2> QED
    BY <1>1, <1>10, <1>11, <2>2, SearchFixed DEF Calling, Receives
<1>13. Flow'
  <2>1. \A r \in Sent : routine[r].bad => err' \/ \E i \in DOMAIN ch' : ch'[i].bad
    BY <1>2, <1>4, <1>6, <1>8
  <2>2. \A i \in DOMAIN ch' : ch'[i].bad => ch'[i].arts = <<>>
    BY <1>3, <1>6
  <2>3. Range(res') \cup UNION {Range(ch'[i].arts) : i \in DOMAIN ch'}
          = UNION {Range(routine[r].acc) : r \in Sent}
    BY <1>6, <1>8, <1>9
  <2> QED
    <3>1. search' = search /\ routine' = routine
      BY <1>1
    <3>2. \A r \in Sent' : routine'[r].bad => err' \/ \E i \in DOMAIN ch' : ch'[i].bad
      BY <1>11, <2>1, <3>1
    <3>3. Range(res') \cup UNION {Range(ch'[i].arts) : i \in DOMAIN ch'}
            = UNION {Range(routine'[r].acc) : r \in Sent'}
      BY <1>11, <2>3, <3>1
    <3>4. ~search.miner /\ res' \in Seq(Arts(search))
      BY <1>6, <1>8
    <3> QED
      BY <2>2, <3>1, <3>2, <3>3, <3>4, FlowAfter
<1>14. Apart'
  <2>1. ASSUME NEW i \in DOMAIN ch'
        PROVE  Once(ch'[i].arts) /\ Range(res') \cap Range(ch'[i].arts) = {}
    <3>1. i + 1 \in DOMAIN ch /\ i + 1 # 1 /\ ch'[i] = ch[i + 1]
      BY <1>3
    <3>2. Range(m.arts) \cap Range(ch[i + 1].arts) = {} /\ Range(res) \cap Range(ch[i + 1].arts) = {}
      BY <1>2, <1>6, <3>1
    <3> QED
      BY <1>6, <1>8, <3>1, <3>2
  <2>2. ASSUME NEW i \in DOMAIN ch', NEW j \in DOMAIN ch', i # j
        PROVE  Range(ch'[i].arts) \cap Range(ch'[j].arts) = {}
    BY <1>3, <1>5, <1>6, <2>2
  <2> QED
    BY <1>8, <2>1, <2>2 DEF Apart
<1>15. Launches' /\ NothingLost' /\ Shapes'
  BY <1>1, <1>2, <1>10, SearchFixed DEF Launches, NothingLost, Shapes
<1> QED
  BY <1>12, <1>13, <1>14, <1>15 DEF Calling

\* When all have answered nothing is missing.
LEMMA ReturnStep ==
  ASSUME SearchTypes, Shapes, Calling, \A q \in DOMAIN Repos : Gathers(q), Return
  PROVE  Shapes' /\ Calling'
<1>1. /\ main.pc = "receive" /\ main.at = 0 /\ main' = [main EXCEPT !.pc = "done"]
      /\ UNCHANGED <<search, routine, worker, ch, res, err>>
  BY DEF Return
<1>2. Sent \subseteq Asking
  BY <1>1 DEF Calling, Receives, Sent, Asking
<1>3. Len(ch) = 0 /\ Sent = Asking
  <2>1. Cardinality(Sent) <= Cardinality(Asking) /\ (Cardinality(Asking) = Cardinality(Sent) => Asking = Sent)
    BY <1>2, FiniteRepos, FS_Subset
  <2>2. Cardinality(Sent) + 0 = Cardinality(Asking) + Len(ch) /\ Len(ch) \in Nat
    BY <1>1 DEF Calling, Receives, Shapes
  <2> QED
    BY <2>1, <2>2, FiniteRepos
<1>4. DOMAIN ch = {}
  BY <1>3 DEF Shapes
<1>5. ASSUME ~err PROVE Range(res) = UNION {Expected(r) : r \in DOMAIN Repos} /\ Once(res)
  <2>1. Range(res) = UNION {Range(routine[r].acc) : r \in Asking} /\ Once(res) /\ ~search.miner
    BY <1>1, <1>3, <1>4 DEF Calling, Flow, Apart
  <2>2. ASSUME NEW r \in Asking PROVE Range(routine[r].acc) = Expected(r)
    <3>1. r \in DOMAIN Repos /\ Used(r) /\ routine[r].pc = "done"
      BY <1>3 DEF Asking, Sent
    <3>2. ~routine[r].bad
      BY <1>1, <1>3, <1>4, <1>5 DEF Calling, Flow
    <3>3. Range(routine[r].acc) = Answered(r)
      BY <3>1, <3>2 DEF Gathers
    <3> QED
      BY <3>1, <3>3, AnsweredExpected
  <2>3. ASSUME NEW r \in DOMAIN Repos, r \notin Asking PROVE Expected(r) = {}
    BY <2>1, <2>3 DEF Expected, Asking
  <2>4. Asking \subseteq DOMAIN Repos
    BY DEF Asking
  <2> QED
    BY <2>1, <2>2, <2>3, <2>4
<1>6. main'.pc \notin {"launch", "receive", "direct", "installed"}
  BY <1>1 DEF Calling, Receives
<1>7. NothingLost'
  BY <1>1, <1>5, SearchFixed DEF NothingLost
<1> QED
  BY <1>1, <1>6, <1>7, SearchFixed DEF Shapes, Calling, Launches, Receives, Flow, Apart

\* A repository that is not searched is passed over.
LEMMA LaunchStep ==
  ASSUME SearchTypes, Shapes, Calling, \A q \in DOMAIN Repos : Reads(q) /\ Gathers(q),
         NEW r \in DOMAIN Repos, Launch(r)
  PROVE  Shapes' /\ Calling' /\ \A q \in DOMAIN Repos : Reads(q)' /\ Gathers(q)'
<1>1. /\ main.pc = "launch" /\ main.at = r /\ UNCHANGED <<search, worker, ch, res>>
      /\ \A q \in DOMAIN Repos : routine[q].pc # "idle" <=> q < r /\ Used(q)
      /\ Cardinality(Sent) = Len(ch)
  BY DEF Launch, Launching, Calling, Launches
<1>2. DOMAIN Repos = 1 .. Len(Repos) /\ Len(Repos) \in Nat /\ r \in Nat
  BY SearchAssumption DEF SearchTypes, SearchAssumption, Repos
<1>3. routine[r].pc = "idle"
  BY <1>1, <1>2
<1>4. CASE /\ Next1(r) /\ UNCHANGED err
           /\ \/ ~Used(r) /\ UNCHANGED routine
              \/ Used(r) /\ routine' = [routine EXCEPT ![r].pc = "start"]
  <2>1. main'.pc = "launch" /\ main'.at = r + 1
    BY <1>1, <1>4 DEF Next1, Calling, Launches, Shapes
  <2>2. ASSUME NEW q \in DOMAIN Repos
        PROVE  /\ routine'[q].acc = routine[q].acc /\ routine'[q].bad = routine[q].bad
               /\ routine'[q].pc = IF q = r /\ Used(r) THEN "start" ELSE routine[q].pc
    <3>1. CASE ~Used(r) /\ UNCHANGED routine
      BY <3>1
    <3>2. CASE q # r /\ routine' = [routine EXCEPT ![r].pc = "start"]
      BY <3>2, RoutineIs
    <3>3. CASE q = r /\ Used(r) /\ routine' = [routine EXCEPT ![r].pc = "start"]
      <4>1. routine'[r] = [routine[r] EXCEPT !.pc = "start"]
        BY <3>3, RoutineIs
      <4> QED
        BY <3>3, <4>1, RoutineIs, RoutineFields
    <3> QED
      BY <1>4, <3>1, <3>2, <3>3
  <2>3. Sent' = Sent
    BY <1>1, <1>3, <2>2, SearchFixed DEF Sent
  <2>4. Launches'
    <3>1. \A q \in DOMAIN Repos : q < r + 1 <=> q < r \/ q = r
      BY <1>2
    <3>2. r + 1 \in 1 .. Len(Repos) + 1
      BY <1>2
    <3>3. \A q \in DOMAIN Repos : routine'[q].pc # "idle" <=> q < r + 1 /\ Used(q)
      BY <1>1, <1>3, <2>2, <3>1
    <3> QED
      BY <1>1, <2>1, <2>3, <3>2, <3>3, SearchFixed DEF Launches
  <2>5. UNION {Range(routine'[q].acc) : q \in Sent'} = UNION {Range(routine[q].acc) : q \in Sent}
    <3>1. \A q \in Sent : routine'[q].acc = routine[q].acc
      BY <2>2 DEF Sent
    <3> QED
      BY <2>3, <3>1
  <2>6. Flow'
    <3>1. /\ ~search.miner /\ res \in Seq(Arts(search))
          /\ Range(res) \cup UNION {Range(ch[i].arts) : i \in DOMAIN ch}
               = UNION {Range(routine[q].acc) : q \in Sent}
          /\ \A q \in Sent : routine[q].bad => err \/ \E i \in DOMAIN ch : ch[i].bad
          /\ \A i \in DOMAIN ch : ch[i].bad => ch[i].arts = <<>>
      BY <1>1 DEF Calling, Flow
    <3>2. \A q \in Sent' : routine'[q].bad => err' \/ \E i \in DOMAIN ch' : ch'[i].bad
      BY <1>1, <1>4, <2>2, <2>3, <3>1 DEF Sent
    <3>3. Range(res') \cup UNION {Range(ch'[i].arts) : i \in DOMAIN ch'}
            = UNION {Range(routine'[q].acc) : q \in Sent'}
      BY <1>1, <2>5, <3>1
    <3>4. search' = search /\ res' = res /\ ch' = ch
      BY <1>1
    <3> QED
      BY <3>1, <3>2, <3>3, <3>4, FlowAfter
  <2>7. Apart' /\ Receives' /\ NothingLost' /\ Shapes'
    BY <1>1, <2>1, SearchFixed DEF Calling, Apart, Receives, NothingLost, Shapes
  <2>8. \A q \in DOMAIN Repos : Reads(q)' /\ Gathers(q)'
    <3>1. CASE UNCHANGED routine
      BY <1>1, <3>1, OthersKeep
    <3>2. CASE routine' = [routine EXCEPT ![r].pc = "start"]
      <4>1. Reads(r)' /\ Gathers(r)'
        BY <1>1, <1>3, <3>2, EdgeGathers
      <4>2. \A q \in DOMAIN Repos \ {r} : routine'[q] = routine[q]
        BY <3>2, RoutineIs
      <4> QED
        BY <1>1, <4>1, <4>2, OthersKeep
    <3> QED
      BY <1>4, <3>1, <3>2
  <2> QED
    BY <2>4, <2>6, <2>7, <2>8 DEF Calling
<1>5. CASE main' = [main EXCEPT !.pc = "done"] /\ err' = TRUE /\ UNCHANGED routine
  <2>1. main'.pc \notin {"launch", "receive", "direct", "installed"}
    BY <1>1, <1>5
  <2>2. \A q \in DOMAIN Repos : Reads(q)' /\ Gathers(q)'
    BY <1>1, <1>5, OthersKeep
  <2> QED
    BY <1>1, <1>5, <2>1, <2>2, SearchFixed
    DEF Shapes, Calling, Launches, Receives, Flow, Apart, NothingLost
<1>6. CASE ~Repos[r].enable /\ Next1(r) /\ UNCHANGED <<routine, err>>
  BY <1>4, <1>6 DEF Used
<1>7. CASE Used(r) /\ Next1(r) /\ routine' = [routine EXCEPT ![r].pc = "start"] /\ UNCHANGED err
  BY <1>4, <1>7
<1> QED
  BY <1>5, <1>6, <1>7 DEF Launch

LEMMA LaunchedStep ==
  ASSUME SearchTypes, Shapes, Calling, Launched
  PROVE  Shapes' /\ Calling'
<1>1. /\ main.pc = "launch" /\ main.at > Len(Repos)
      /\ main'.pc = "receive" /\ main'.at = Cardinality(Asking)
      /\ UNCHANGED <<search, routine, worker, ch, res, err>>
  BY DEF Launched, Asking
<1>2. DOMAIN Repos = 1 .. Len(Repos) /\ Len(Repos) \in Nat /\ main.at \in 1 .. Len(Repos) + 1
  BY <1>1, SearchAssumption DEF SearchTypes, SearchAssumption, Repos, Calling, Launches
<1>3. \A q \in DOMAIN Repos : q < main.at
  BY <1>1, <1>2
<1>4. \A q \in DOMAIN Repos : routine[q].pc # "idle" <=> Used(q)
  BY <1>1, <1>3 DEF Calling, Launches
<1>5. Cardinality(Sent) + Cardinality(Asking) = Cardinality(Asking) + Len(ch)
      /\ Cardinality(Asking) \in Nat
  BY <1>1, FiniteRepos DEF Calling, Launches
<1>6. Sent' = Sent
  BY <1>1, SearchFixed DEF Sent
<1>7. Receives'
  BY <1>1, <1>4, <1>5, <1>6, SearchFixed DEF Receives
<1>8. Flow' /\ Apart'
  <2>1. Flow'
    <3>1. /\ ~search.miner /\ res \in Seq(Arts(search))
          /\ Range(res) \cup UNION {Range(ch[i].arts) : i \in DOMAIN ch}
               = UNION {Range(routine[r].acc) : r \in Sent}
          /\ \A r \in Sent : routine[r].bad => err \/ \E i \in DOMAIN ch : ch[i].bad
          /\ \A i \in DOMAIN ch : ch[i].bad => ch[i].arts = <<>>
      BY <1>1 DEF Calling, Flow
    <3>2. search' = search /\ res' = res /\ ch' = ch /\ routine' = routine /\ err' = err
      BY <1>1
    <3>3. \A r \in Sent' : routine'[r].bad => err' \/ \E i \in DOMAIN ch' : ch'[i].bad
      BY <1>6, <3>1, <3>2
    <3>4. Range(res') \cup UNION {Range(ch'[i].arts) : i \in DOMAIN ch'}
            = UNION {Range(routine'[r].acc) : r \in Sent'}
      BY <1>6, <3>1, <3>2
    <3>5. \A i \in DOMAIN ch' : ch'[i].bad => ch'[i].arts = <<>>
      BY <3>1, <3>2
    <3>6. ~search.miner /\ res' \in Seq(Arts(search))
      BY <3>1, <3>2
    <3> QED
      BY <3>2, <3>3, <3>4, <3>5, <3>6, FlowAfter
  <2>2. Apart'
    BY <1>1 DEF Calling, Apart
  <2> QED
    BY <2>1, <2>2
<1>9. Launches' /\ NothingLost' /\ Shapes'
  BY <1>1, SearchFixed DEF Launches, NothingLost, Shapes
<1> QED
  BY <1>7, <1>8, <1>9 DEF Calling

\* The search of what is installed reads no repository.
LEMMA InstalledStep ==
  ASSUME Shapes, Calling, Installed
  PROVE  Shapes' /\ Calling'
<1>1. /\ main.pc = "installed" /\ main' = [main EXCEPT !.pc = "done"] /\ Repos = <<>>
      /\ UNCHANGED <<search, routine, worker, ch, err>>
  BY DEF Installed, Shapes
<1>2. main'.pc \notin {"launch", "receive", "direct", "installed"}
  BY <1>1
<1> QED
  BY <1>1, <1>2, SearchFixed
  DEF Shapes, Calling, Launches, Receives, Flow, Apart, NothingLost

\* The miner takes the answer of its one repository.
LEMMA MinerStep ==
  ASSUME SearchTypes, Shapes, Calling, \A q \in DOMAIN Repos : Reads(q) /\ Gathers(q), MinerSearch
  PROVE  Shapes' /\ Calling' /\ \A q \in DOMAIN Repos : Reads(q)' /\ Gathers(q)'
<1>1. /\ main.pc = "direct" /\ routine[1].pc = "answer" /\ search.miner
      /\ main' = [main EXCEPT !.pc = "done"] /\ UNCHANGED <<search, worker, ch>>
      /\ routine' = [routine EXCEPT ![1].pc = "done"]
  BY DEF MinerSearch, Shapes
<1>2. DOMAIN Repos = {1}
  BY <1>1, FetchAssumption DEF FetchAssumption, SearchTypes, Repos
<1>3. Reads(1)' /\ Gathers(1)'
  BY <1>1, <1>2, EdgeGathers
<1>4. main'.pc \notin {"launch", "receive", "direct", "installed"}
  BY <1>1, <1>2, MinerRepos DEF SearchTypes
<1>5. NothingLost'
  <2>1. CASE routine[1].bad \/ ~Repos[1].identity
    BY <2>1 DEF MinerSearch, NothingLost
  <2>2. CASE ~(routine[1].bad \/ ~Repos[1].identity)
    <3>1. res' = routine[1].acc
      BY <2>2 DEF MinerSearch
    <3>2. Range(routine[1].acc) = Answered(1) /\ Once(routine[1].acc)
      BY <1>1, <1>2, <2>2 DEF Gathers
    <3>3. Answered(1) = Expected(1)
      BY <1>1, <1>2, AnsweredExpected
    <3>4. UNION {Expected(q) : q \in DOMAIN Repos} = Expected(1)
      BY <1>2
    <3> QED
      BY <1>1, <3>1, <3>2, <3>3, <3>4, SearchFixed DEF NothingLost
  <2> QED
    BY <2>1, <2>2
<1> QED
  BY <1>1, <1>2, <1>3, <1>4, <1>5, SearchFixed
  DEF Shapes, Calling, Launches, Receives, Flow, Apart

\* The channel and the results stay as they are in the routines.
LEMMA ShapesInside ==
  ASSUME Shapes, UNCHANGED <<search, main, ch>>, DOMAIN worker' = DOMAIN worker,
         \A r \in DOMAIN Repos : DOMAIN worker'[r] = DOMAIN worker[r]
  PROVE  Shapes'
BY SearchFixed DEF Shapes

\* A routine or one of its workers takes a step.
LEMMA RoutineSearch ==
  ASSUME SearchTypes, SearchInv, NEW r \in DOMAIN Repos,
         RepoRoutine(r) \/ \E c \in DOMAIN Cats(r) : Scan(r, c)
  PROVE  SearchInv'
<1>1. /\ UNCHANGED search
      /\ \A q \in DOMAIN Repos \ {r} : routine'[q] = routine[q] /\ worker'[q] = worker[q]
  <2>1. DOMAIN routine = DOMAIN Repos /\ DOMAIN worker = DOMAIN Repos
    BY RoutineIs DEF SearchInv, Shapes
  <2> QED
    BY <2>1 DEF RepoRoutine, Open, Answer, Spawn, Spawned, Collect, Provide, Send, Scan
<1>2. \A q \in DOMAIN Repos \ {r} : Reads(q)' /\ Gathers(q)'
  BY <1>1, OthersKeep DEF SearchInv
<1>3. Reads(r)' /\ Gathers(r)'
  <2>1. ASSUME Send(r) PROVE Reads(r)' /\ Gathers(r)'
    <3>1. /\ routine[r].pc = "answer" /\ routine' = [routine EXCEPT ![r].pc = "done"]
          /\ UNCHANGED <<search, worker>>
      BY <2>1 DEF Send
    <3> QED
      BY <3>1, EdgeGathers DEF SearchInv
  <2> QED
    BY <2>1, OpenGathers, SpawnGathers, CollectGathers, ProvideGathers, ScanGathers
    DEF SearchInv, RepoRoutine
<1>4. Shapes' /\ Calling'
  <2>1. CASE Send(r)
    BY <2>1, SendStep DEF SearchInv
  <2>2. CASE Open(r) \/ Spawn(r) \/ Spawned(r) \/ Collect(r) \/ Provide(r)
             \/ \E c \in DOMAIN Cats(r) : Scan(r, c)
    <3>1. Calling'
      BY <2>2, InsideStep DEF SearchInv
    <3>2. UNCHANGED <<search, main, ch>> /\ DOMAIN worker' = DOMAIN worker
          /\ \A q \in DOMAIN Repos : DOMAIN worker'[q] = DOMAIN worker[q]
      BY <2>2 DEF Open, Spawn, Spawned, Collect, Provide, Scan, SearchInv, Shapes
    <3> QED
      BY <3>1, <3>2, ShapesInside DEF SearchInv
  <2> QED
    BY <2>1, <2>2 DEF RepoRoutine
<1>5. Repos' = Repos
  BY <1>1, SearchFixed
<1> QED
  BY <1>2, <1>3, <1>4, <1>5 DEF SearchInv

LEMMA SearchInvInit == ASSUME Init PROVE SearchInv
<1>1. PICK s \in Searches : StartSearch(s)
  BY DEF Init
<1>2. /\ search = s /\ Repos = s.repos /\ ch = <<>> /\ res = <<>> /\ err = FALSE
      /\ \A r : Cats(r) = s.repos[r].cats
      /\ main = [pc |-> IF s.repos = <<>> THEN "installed"
                       ELSE IF s.miner THEN "direct" ELSE "launch", at |-> 1]
      /\ routine = [r \in DOMAIN s.repos |-> IF s.miner THEN [Idle EXCEPT !.pc = "start"] ELSE Idle]
      /\ worker = [r \in DOMAIN s.repos |-> [c \in DOMAIN s.repos[r].cats |-> "idle"]]
  BY <1>1 DEF StartSearch, Repos, Cats
<1>3. main.pc = "launch" => s.repos # <<>> /\ ~s.miner
  BY <1>2
<1>4. main.pc \in {"launch", "direct", "installed"} /\ main.at = 1
  BY <1>2
<1>5. \A r \in DOMAIN Repos :
        /\ routine[r].pc = IF s.miner THEN "start" ELSE "idle"
        /\ routine[r].acc = <<>>
  BY <1>2 DEF Idle
<1>6. \A r \in DOMAIN Repos : Reads(r) /\ Gathers(r)
  <2>1. \A r \in DOMAIN Repos : \A c \in DOMAIN Cats(r) : worker[r][c] = "idle"
    BY <1>2
  <2> QED
    BY <1>5, <2>1 DEF Reads, Gathers
<1>7. Sent = {} /\ Cardinality(Sent) = 0
  <2>1. Sent = {}
    BY <1>5 DEF Sent
  <2> QED
    BY <2>1, FS_EmptySet
<1>8. ch \in Seq([arts : Seq(Arts(search)), bad : BOOLEAN]) /\ res \in Seq(Arts(search))
      /\ Len(ch) = 0 /\ DOMAIN ch = {} /\ DOMAIN res = {}
  BY <1>2
<1>9. Shapes
  <2>1. main.pc = "direct" => search.miner
    BY <1>2
  <2>2. main.pc = "installed" => Repos = <<>>
    BY <1>2
  <2>3. DOMAIN worker = DOMAIN Repos /\ \A r \in DOMAIN Repos : DOMAIN worker[r] = DOMAIN Cats(r)
    BY <1>2
  <2> QED
    BY <1>8, <2>1, <2>2, <2>3 DEF Shapes
<1>10. Launches
  <2>1. DOMAIN Repos = 1 .. Len(Repos) /\ Len(Repos) \in Nat
    BY <1>2, SearchAssumption DEF SearchAssumption
  <2>2. 1 \in 1 .. Len(Repos) + 1 /\ \A r \in DOMAIN Repos : ~(r < 1)
    BY <2>1
  <2> QED
    BY <1>3, <1>4, <1>5, <1>7, <1>8, <2>2 DEF Launches
<1>11. Flow
  <2>1. Range(res) = {}
    BY <1>8 DEF Range
  <2> QED
    BY <1>2, <1>3, <1>4, <1>7, <1>8, <2>1 DEF Flow
<1>12. Apart
  BY <1>8 DEF Apart, Once
<1>13. Receives /\ NothingLost
  BY <1>4 DEF Receives, NothingLost
<1> QED
  BY <1>6, <1>9, <1>10, <1>11, <1>12, <1>13 DEF SearchInv, Calling

LEMMA SearchInvStep == ASSUME SearchTypes, SearchInv, [Next]_vars PROVE SearchInv'
<1>1. CASE \E r \in DOMAIN Repos : RepoRoutine(r) \/ \E c \in DOMAIN Cats(r) : Scan(r, c)
  BY <1>1, RoutineSearch
<1>2. ASSUME UNCHANGED <<search, routine, worker>>
      PROVE  \A q \in DOMAIN Repos : Reads(q)' /\ Gathers(q)'
  BY <1>2, OthersKeep DEF SearchInv
<1>3. CASE Launched \/ Receive \/ Return \/ Installed
  <2>1. UNCHANGED <<search, routine, worker>>
    BY <1>3 DEF Launched, Receive, Return, Installed
  <2>2. Shapes' /\ Calling'
    BY <1>3, LaunchedStep, ReceiveStep, ReturnStep, InstalledStep DEF SearchInv
  <2> QED
    BY <1>2, <2>1, <2>2, SearchFixed DEF SearchInv
<1>4. ASSUME NEW r \in DOMAIN Repos, Launch(r) PROVE SearchInv'
  <2>1. UNCHANGED search
    BY <1>4 DEF Launch
  <2> QED
    BY <1>4, <2>1, LaunchStep, SearchFixed DEF SearchInv
<1>5. CASE MinerSearch
  <2>1. UNCHANGED search
    BY <1>5 DEF MinerSearch
  <2> QED
    BY <1>5, <2>1, MinerStep, SearchFixed DEF SearchInv
<1>6. ASSUME UNCHANGED searchVars PROVE SearchInv'
  <2>1. UNCHANGED <<search, main, routine, worker, ch, res, err>>
    BY <1>6 DEF searchVars
  <2>2. Calling'
    BY <2>1, LocalStep DEF SearchInv
  <2>3. Shapes'
    BY <2>1, ShapesInside DEF SearchInv
  <2> QED
    BY <1>2, <2>1, <2>2, <2>3, SearchFixed DEF SearchInv
<1>7. CASE \E p \in Procs : Download(p)
  <2>1. UNCHANGED searchVars
    BY <1>7 DEF Download, Phase, Exit, Cached, Missing, Answers, Refuses, NoUrl, Copied,
                CopyFails, Crash, Verify
  <2> QED
    BY <1>6, <2>1
<1>8. CASE \/ StartMiner \/ \E files \in Wanted : StartInstall(files)
           \/ \E f \in Files : Clean(f) \/ Publish(f)
           \/ Sync
  <2>1. UNCHANGED searchVars
    BY <1>8 DEF StartMiner, StartInstall, Clean, Publish, Sync
  <2> QED
    BY <1>6, <2>1
<1>9. CASE UNCHANGED vars
  BY <1>6, <1>9 DEF vars
<1> QED
  BY <1>1, <1>3, <1>4, <1>5, <1>7, <1>8, <1>9 DEF Next, SearchNext, Caller

\* NothingLost: whatever the order of the goroutines, a search without an error
\* has each package that it looks for, once; so has the miner.
THEOREM NothingLostCorrect == Spec => []NothingLost
<1>1. Init => SearchInv
  BY SearchInvInit
<1>2. FetchInv => SearchTypes
  BY DEF FetchInv
<1>3. SearchTypes /\ SearchInv /\ [Next]_vars => SearchInv'
  BY SearchInvStep
<1>4. SearchInv => NothingLost
  BY DEF SearchInv, Calling
<1>5. Spec => Init /\ [][Next]_vars
  BY PTL DEF Spec
<1> QED
  BY <1>1, <1>2, <1>3, <1>4, <1>5, FetchInvariant, PTL

-----------------------------------------------------------------------------
(***************************************************************************)
(* The search never gets stuck.  Each place that is not free belongs to a  *)
(* worker that reads (Places), and a category waits to be collected only   *)
(* when it has a worker (Turns), so the routine that waits for a place or  *)
(* for a result waits for a worker that reads.                             *)
(***************************************************************************)

Reading(r) == {c \in DOMAIN Cats(r) : worker[r][c] = "scan"}

Places(r) == routine[r].free + Cardinality(Reading(r)) = Concurrency

\* The categories from the next one on have no worker yet.
Turns(r) ==
  /\ \A c \in DOMAIN Cats(r) : worker[r][c] \in {"idle", "scan", "send", "done"}
  /\ routine[r].pc \in {"idle", "start"} =>
       routine[r].next = 1 /\ \A c \in DOMAIN Cats(r) : worker[r][c] = "idle"
  /\ routine[r].pc = "spawn" =>
       \A c \in DOMAIN Cats(r) : worker[r][c] = "idle" <=> c >= routine[r].next
  /\ routine[r].pc = "collect" => \A c \in DOMAIN Cats(r) : worker[r][c] # "idle"

PoolInv ==
  /\ \A r \in DOMAIN Repos : Places(r) /\ Turns(r)
  /\ Len(ch) <= Concurrency
  /\ main.pc = "direct" => \E r \in DOMAIN Repos : Running(r)

LEMMA CategoryNumbers ==
  ASSUME SearchTypes, NEW r \in DOMAIN Repos
  PROVE  /\ DOMAIN Cats(r) = 1 .. Len(Cats(r)) /\ Len(Cats(r)) \in Nat
         /\ \A S \in SUBSET DOMAIN Cats(r) : IsFiniteSet(S) /\ Cardinality(S) \in Nat
<1>1. DOMAIN Cats(r) = 1 .. Len(Cats(r)) /\ Len(Cats(r)) \in Nat
  BY SearchAssumption DEF SearchTypes, SearchAssumption, Repos, Cats
<1>2. IsFiniteSet(DOMAIN Cats(r))
  <2>1. Len(Cats(r)) \in Int /\ 1 \in Int
    BY <1>1
  <2> QED
    BY <1>1, <2>1, FS_Interval
<1> QED
  BY <1>1, <1>2, FS_Subset, FS_CardinalityType

\* The places after the steps of a routine.
LEMMA RoutinePlaces ==
  ASSUME NEW A, NEW x \in RoutineType(A)
  PROVE  /\ \A s : [x EXCEPT !.pc = s].free = x.free
         /\ \A n : [x EXCEPT !.pc = "collect", !.next = n].free = x.free
         /\ \A n : [x EXCEPT !.next = n].free = x.free
         /\ \A n, k : [x EXCEPT !.next = n, !.free = k].free = k
         /\ \A k : [x EXCEPT !.free = k].free = k
         /\ \A n, a, k : [x EXCEPT !.next = n, !.acc = a, !.free = k].free = k
         /\ \A a, b : [x EXCEPT !.pc = "answer", !.acc = a, !.bad = b].free = x.free
BY DEF RoutineType

\* A step of the routine that starts and ends no reading.
LEMMA SameReading ==
  ASSUME UNCHANGED search, NEW r \in DOMAIN Repos, Places(r), Turns(r),
         UNCHANGED worker[r], routine'[r].free = routine[r].free,
         \/ routine'[r].pc \in {"answer", "done"}
         \/ routine'[r].next = routine[r].next /\ routine'[r].pc = routine[r].pc
         \/ routine'[r].next = routine[r].next /\ routine[r].pc = "idle" /\ routine'[r].pc = "start"
         \/ routine[r].pc = "collect" /\ routine'[r].pc = "collect"
  PROVE  Places(r)' /\ Turns(r)'
<1>1. Reading(r)' = Reading(r)
  BY SearchFixed DEF Reading
<1> QED
  BY <1>1, SearchFixed DEF Places, Turns

LEMMA OpenPool ==
  ASSUME SearchTypes, NEW r \in DOMAIN Repos, Places(r), Turns(r), Open(r)
  PROVE  Places(r)' /\ Turns(r)' /\ Running(r)'
<1> DEFINE x == routine[r]
           y == routine'[r]
<1>1. x \in RoutineType(Seq(Arts(search))) /\ DOMAIN routine = DOMAIN Repos
  BY RoutineIs
<1>2. x.pc = "start" /\ UNCHANGED <<search, worker>>
  BY DEF Open
<1>3. ASSUME NEW a, NEW b, y = [x EXCEPT !.pc = "answer", !.acc = a, !.bad = b]
      PROVE  Places(r)' /\ Turns(r)' /\ Running(r)'
  <2>1. y.pc = "answer" /\ y.free = x.free
    BY <1>1, <1>3, RoutineFields, RoutinePlaces
  <2> QED
    BY <1>2, <2>1, SameReading DEF Running
<1>4. CASE y = [x EXCEPT !.pc = "spawn"]
  <2>1. y.pc = "spawn" /\ y.free = x.free /\ y.next = x.next
    BY <1>1, <1>4, RoutineFields, RoutinePlaces
  <2>2. Reading(r)' = Reading(r)
    BY <1>2, SearchFixed DEF Reading
  <2>3. x.next = 1 /\ \A c \in DOMAIN Cats(r) : worker[r][c] = "idle" /\ c >= 1
    BY <1>2, CategoryNumbers DEF Turns
  <2> QED
    BY <1>2, <2>1, <2>2, <2>3, SearchFixed DEF Places, Turns, Running
<1>5. \/ y = [x EXCEPT !.pc = "answer", !.acc = <<>>, !.bad = FALSE]
      \/ y = [x EXCEPT !.pc = "answer", !.acc = <<>>, !.bad = TRUE]
      \/ y = [x EXCEPT !.pc = "spawn"]
  BY <1>1 DEF Open, Answer
<1> QED
  BY <1>3, <1>4, <1>5

LEMMA SpawnPool ==
  ASSUME SearchTypes, Shapes, NEW r \in DOMAIN Repos, Places(r), Turns(r), Spawn(r)
  PROVE  Places(r)' /\ Turns(r)' /\ Running(r)'
<1> DEFINE x == routine[r]
           y == routine'[r]
           c == routine[r].next
<1>1. x \in RoutineType(Seq(Arts(search))) /\ DOMAIN routine = DOMAIN Repos
  BY RoutineIs
<1>2. /\ x.pc = "spawn" /\ UNCHANGED search /\ c \in Nat /\ c \in DOMAIN Cats(r)
      /\ DOMAIN Cats(r) = 1 .. Len(Cats(r)) /\ Len(Cats(r)) \in Nat /\ x.free \in Nat
  BY <1>1, CategoryNumbers DEF Spawn, RoutineType
<1>3. worker[r][c] = "idle" /\ \A d \in DOMAIN Cats(r) : worker[r][d] = "idle" <=> d >= c
  BY <1>2 DEF Turns
<1>4. \A d \in DOMAIN Cats(r) : d # c => worker'[r][d] = worker[r][d]
  BY DEF Spawn, Shapes
<1>5. IsFiniteSet(Reading(r)) /\ Cardinality(Reading(r)) \in Nat /\ c \notin Reading(r)
  BY <1>3, CategoryNumbers DEF Reading
<1>6. ASSUME y.pc = "spawn", y.next = c + 1, worker'[r][c] \in {"done", "scan"}
      PROVE  Turns(r)' /\ Running(r)'
  <2>1. \A d \in DOMAIN Cats(r) : worker'[r][d] = "idle" <=> d >= c + 1
    BY <1>2, <1>3, <1>4, <1>6
  <2>2. \A d \in DOMAIN Cats(r) : worker'[r][d] \in {"idle", "scan", "send", "done"}
    BY <1>4, <1>6 DEF Turns
  <2> QED
    BY <1>2, <1>6, <2>1, <2>2, SearchFixed DEF Turns, Running
<1>7. CASE /\ worker' = [worker EXCEPT ![r][c] = "done"]
           /\ routine' = [routine EXCEPT ![r].next = @ + 1]
  <2>1. y = [x EXCEPT !.next = x.next + 1]
    BY <1>1, <1>7
  <2>2. y.pc = "spawn" /\ y.next = c + 1 /\ y.free = x.free
    BY <1>1, <1>2, <2>1, RoutineFields, RoutinePlaces
  <2>3. worker'[r][c] = "done"
    BY <1>2, <1>7 DEF Shapes
  <2>4. Reading(r)' = Reading(r)
    BY <1>2, <1>3, <1>4, <2>3, SearchFixed DEF Reading
  <2> QED
    BY <1>6, <2>2, <2>3, <2>4 DEF Places
<1>8. CASE /\ x.free > 0 /\ worker' = [worker EXCEPT ![r][c] = "scan"]
           /\ routine' = [routine EXCEPT ![r] = [routine[r] EXCEPT !.next = @ + 1, !.free = @ - 1]]
  <2>1. y = [x EXCEPT !.next = x.next + 1, !.free = x.free - 1]
    BY <1>1, <1>8
  <2>2. y.pc = "spawn" /\ y.next = c + 1 /\ y.free = x.free - 1
    BY <1>1, <1>2, <2>1, RoutineFields, RoutinePlaces
  <2>3. worker'[r][c] = "scan"
    BY <1>2, <1>8 DEF Shapes
  <2>4. Reading(r)' = Reading(r) \cup {c}
    BY <1>2, <1>3, <1>4, <2>3, SearchFixed DEF Reading
  <2>5. Cardinality(Reading(r)') = Cardinality(Reading(r)) + 1
    BY <1>5, <2>4, FS_AddElement
  <2>6. Places(r)'
    BY <1>2, <1>5, <2>2, <2>5 DEF Places
  <2> QED
    BY <1>6, <2>2, <2>3, <2>6
<1> QED
  BY <1>7, <1>8 DEF Spawn

LEMMA SpawnedPool ==
  ASSUME SearchTypes, NEW r \in DOMAIN Repos, Places(r), Turns(r), Spawned(r)
  PROVE  Places(r)' /\ Turns(r)' /\ Running(r)'
<1> DEFINE x == routine[r]
           y == routine'[r]
<1>1. x \in RoutineType(Seq(Arts(search))) /\ DOMAIN routine = DOMAIN Repos
  BY RoutineIs
<1>2. /\ x.pc = "spawn" /\ x.next > Len(Cats(r)) /\ x.next \in Nat
      /\ UNCHANGED <<search, worker>>
  BY <1>1 DEF Spawned, RoutineType
<1>3. y = [x EXCEPT !.pc = "collect", !.next = 1]
  BY <1>1 DEF Spawned
<1>4. y.pc = "collect" /\ y.free = x.free
  BY <1>1, <1>3, RoutineFields, RoutinePlaces
<1>5. \A c \in DOMAIN Cats(r) : worker[r][c] # "idle"
  BY <1>2, CategoryNumbers DEF Turns
<1>6. Reading(r)' = Reading(r)
  BY <1>2, SearchFixed DEF Reading
<1> QED
  BY <1>2, <1>4, <1>5, <1>6, SearchFixed DEF Places, Turns, Running

LEMMA ScanPool ==
  ASSUME SearchTypes, Shapes, NEW r \in DOMAIN Repos, Places(r), Turns(r),
         NEW c \in DOMAIN Cats(r), Scan(r, c)
  PROVE  Places(r)' /\ Turns(r)' /\ (Running(r) => Running(r)')
<1> DEFINE x == routine[r]
           y == routine'[r]
<1>1. x \in RoutineType(Seq(Arts(search))) /\ DOMAIN routine = DOMAIN Repos
  BY RoutineIs
<1>2. /\ worker[r][c] = "scan" /\ worker'[r][c] = "send" /\ UNCHANGED search
      /\ \A d \in DOMAIN Cats(r) : d # c => worker'[r][d] = worker[r][d]
  BY DEF Scan, Shapes
<1>3. y = [x EXCEPT !.free = x.free + 1]
  BY <1>1 DEF Scan, Place
<1>4. y.pc = x.pc /\ y.next = x.next /\ y.free = x.free + 1 /\ x.free \in Nat
  BY <1>1, <1>3, RoutineFields, RoutinePlaces DEF RoutineType
<1>5. Reading(r)' = Reading(r) \ {c} /\ c \in Reading(r)
  BY <1>2, SearchFixed DEF Reading
<1>6. Cardinality(Reading(r)') = Cardinality(Reading(r)) - 1 /\ Cardinality(Reading(r)) \in Nat
  <2>1. IsFiniteSet(Reading(r)) /\ Cardinality(Reading(r)) \in Nat
    BY CategoryNumbers DEF Reading
  <2> QED
    BY <1>5, <2>1, FS_RemoveElement
<1>7. Places(r)'
  BY <1>4, <1>6 DEF Places
<1>8. Turns(r)'
  <2>1. \A d \in DOMAIN Cats(r) :
          /\ worker'[r][d] = "idle" <=> worker[r][d] = "idle"
          /\ worker'[r][d] \in {"idle", "scan", "send", "done"}
    BY <1>2 DEF Turns
  <2> QED
    BY <1>2, <1>4, <2>1, SearchFixed DEF Turns
<1> QED
  BY <1>4, <1>7, <1>8 DEF Running

LEMMA CollectPool ==
  ASSUME SearchTypes, Shapes, NEW r \in DOMAIN Repos, Places(r), Turns(r), Collect(r)
  PROVE  Places(r)' /\ Turns(r)' /\ Running(r)'
<1> DEFINE x == routine[r]
           y == routine'[r]
           c == routine[r].next
<1>1. x \in RoutineType(Seq(Arts(search))) /\ DOMAIN routine = DOMAIN Repos
  BY RoutineIs
<1>2. x.pc = "collect" /\ UNCHANGED search /\ c \in DOMAIN Cats(r)
  BY <1>1, CategoryNumbers DEF Collect, RoutineType
<1>3. CASE worker[r][c] = "done" /\ UNCHANGED worker
           /\ routine' = [routine EXCEPT ![r].next = @ + 1]
  <2>1. y = [x EXCEPT !.next = x.next + 1]
    BY <1>1, <1>3
  <2>2. y.pc = "collect" /\ y.free = x.free
    BY <1>1, <1>2, <2>1, RoutineFields, RoutinePlaces
  <2> QED
    BY <1>2, <1>3, <2>2, SameReading DEF Running
<1>4. CASE /\ worker[r][c] = "send" /\ worker' = [worker EXCEPT ![r][c] = "done"]
           /\ routine' = [routine EXCEPT ![r] =
                [routine[r] EXCEPT !.next = @ + 1, !.acc = Collected(r, c),
                                   !.free = Place(r, "collect")]]
  <2>1. y = [x EXCEPT !.next = x.next + 1, !.acc = Collected(r, c), !.free = x.free]
    BY <1>1, <1>4 DEF Place
  <2>2. y.pc = "collect" /\ y.free = x.free
    BY <1>1, <1>2, <2>1, RoutineFields, RoutinePlaces
  <2>3. /\ worker'[r][c] = "done"
        /\ \A d \in DOMAIN Cats(r) : d # c => worker'[r][d] = worker[r][d]
    BY <1>2, <1>4 DEF Shapes
  <2>4. Reading(r)' = Reading(r)
    BY <1>2, <1>4, <2>3, SearchFixed DEF Reading
  <2>5. \A d \in DOMAIN Cats(r) : worker'[r][d] \in {"scan", "send", "done"}
    BY <1>2, <2>3 DEF Turns
  <2> QED
    BY <1>2, <2>2, <2>4, <2>5, SearchFixed DEF Places, Turns, Running
<1> QED
  BY <1>3, <1>4 DEF Collect

LEMMA AnswerPool ==
  ASSUME SearchTypes, NEW r \in DOMAIN Repos, Places(r), Turns(r), Provide(r) \/ Send(r)
  PROVE  Places(r)' /\ Turns(r)' /\ (~Send(r) => Running(r)')
<1> DEFINE x == routine[r]
           y == routine'[r]
<1>1. x \in RoutineType(Seq(Arts(search))) /\ DOMAIN routine = DOMAIN Repos
  BY RoutineIs
<1>2. UNCHANGED <<search, worker>>
  BY DEF Provide, Send
<1>3. CASE Send(r)
  <2>1. y = [x EXCEPT !.pc = "done"]
    BY <1>1, <1>3 DEF Send
  <2>2. y.pc = "done" /\ y.free = x.free
    BY <1>1, <2>1, RoutineFields, RoutinePlaces
  <2>3. Places(r)' /\ Turns(r)'
    BY <1>2, <2>2, SameReading
  <2> QED
    BY <1>3, <2>3
<1>4. ASSUME NEW a, NEW b, y = [x EXCEPT !.pc = "answer", !.acc = a, !.bad = b]
      PROVE  Places(r)' /\ Turns(r)' /\ Running(r)'
  <2>1. y.pc = "answer" /\ y.free = x.free
    BY <1>1, <1>4, RoutineFields, RoutinePlaces
  <2> QED
    BY <1>2, <2>1, SameReading DEF Running
<1>5. CASE Provide(r)
  <2>1. \/ y = [x EXCEPT !.pc = "answer", !.acc = x.acc, !.bad = FALSE]
        \/ y = [x EXCEPT !.pc = "answer", !.acc = <<>>, !.bad = TRUE]
        \/ y = [x EXCEPT !.pc = "answer",
                         !.acc = x.acc \o Provided(r, Range(x.acc)), !.bad = FALSE]
    BY <1>1, <1>5 DEF Provide, Answer
  <2> QED
    BY <1>4, <2>1
<1> QED
  BY <1>3, <1>5

LEMMA OthersPool ==
  ASSUME UNCHANGED search, NEW r, UNCHANGED <<routine[r], worker[r]>>, Places(r), Turns(r)
  PROVE  Places(r)' /\ Turns(r)'
<1>1. Reading(r)' = Reading(r)
  BY SearchFixed DEF Reading
<1> QED
  BY <1>1, SearchFixed DEF Places, Turns

\* A routine or one of its workers takes a step.
LEMMA RoutinePool ==
  ASSUME SearchTypes, Shapes, PoolInv, NEW r \in DOMAIN Repos,
         RepoRoutine(r) \/ \E c \in DOMAIN Cats(r) : Scan(r, c)
  PROVE  PoolInv'
<1>1. /\ UNCHANGED <<search, main>>
      /\ \A q \in DOMAIN Repos \ {r} : routine'[q] = routine[q] /\ worker'[q] = worker[q]
  <2>1. DOMAIN routine = DOMAIN Repos /\ DOMAIN worker = DOMAIN Repos
    BY RoutineIs DEF Shapes
  <2> QED
    BY <2>1 DEF RepoRoutine, Open, Answer, Spawn, Spawned, Collect, Provide, Send, Scan
<1>2. \A q \in DOMAIN Repos \ {r} : Places(q)' /\ Turns(q)'
  BY <1>1, OthersPool DEF PoolInv
<1>3. Places(r)' /\ Turns(r)' /\ (Running(r) /\ ~Send(r) => Running(r)')
  BY OpenPool, SpawnPool, SpawnedPool, CollectPool, AnswerPool, ScanPool
  DEF PoolInv, RepoRoutine
<1>4. Len(ch') <= Concurrency /\ (Send(r) => main.pc # "direct")
  <2>1. CASE Send(r)
    <3>1. Len(ch') = Len(ch) + 1 /\ Len(ch) \in Nat /\ Len(ch) < Concurrency
      BY <2>1 DEF Send, Shapes
    <3> QED
      BY <2>1, <3>1, SearchAssumption DEF Send, SearchAssumption
  <2>2. CASE ~Send(r)
    <3>1. UNCHANGED ch
      BY <2>2 DEF RepoRoutine, Open, Spawn, Spawned, Collect, Provide, Scan
    <3> QED
      BY <2>2, <3>1 DEF PoolInv
  <2> QED
    BY <2>1, <2>2
<1>5. main.pc = "direct" => \E q \in DOMAIN Repos : Running(q)'
  <2>1. SUFFICES ASSUME main.pc = "direct" PROVE \E q \in DOMAIN Repos : Running(q)'
    OBVIOUS
  <2>2. PICK q \in DOMAIN Repos : Running(q)
    BY <2>1 DEF PoolInv
  <2>3. CASE q = r
    BY <1>3, <1>4, <2>1, <2>2, <2>3
  <2>4. CASE q # r
    BY <1>1, <2>2, <2>4 DEF Running
  <2> QED
    BY <2>3, <2>4
<1> QED
  BY <1>1, <1>2, <1>3, <1>4, <1>5, SearchFixed DEF PoolInv

LEMMA PoolInit == ASSUME Init PROVE PoolInv
<1>1. PICK s \in Searches : StartSearch(s)
  BY DEF Init
<1>2. /\ search = s /\ Repos = s.repos /\ ch = <<>>
      /\ \A r : Cats(r) = s.repos[r].cats
      /\ main = [pc |-> IF s.repos = <<>> THEN "installed"
                       ELSE IF s.miner THEN "direct" ELSE "launch", at |-> 1]
      /\ routine = [r \in DOMAIN s.repos |-> IF s.miner THEN [Idle EXCEPT !.pc = "start"] ELSE Idle]
      /\ worker = [r \in DOMAIN s.repos |-> [c \in DOMAIN s.repos[r].cats |-> "idle"]]
  BY <1>1 DEF StartSearch, Repos, Cats
<1>3. Concurrency \in Nat /\ Concurrency > 0
  BY SearchAssumption DEF SearchAssumption
<1>4. ASSUME NEW r \in DOMAIN Repos PROVE Places(r) /\ Turns(r)
  <2>1. /\ routine[r].pc = IF s.miner THEN "start" ELSE "idle"
        /\ routine[r].next = 1 /\ routine[r].free = Concurrency
        /\ \A c \in DOMAIN Cats(r) : worker[r][c] = "idle"
    BY <1>2 DEF Idle
  <2>2. Cardinality(Reading(r)) = 0
    <3>1. Reading(r) = {}
      BY <2>1 DEF Reading
    <3> QED
      BY <3>1, FS_EmptySet
  <2> QED
    BY <1>3, <2>1, <2>2 DEF Places, Turns
<1>5. main.pc = "direct" => \E r \in DOMAIN Repos : Running(r)
  <2>1. SUFFICES ASSUME main.pc = "direct" PROVE \E r \in DOMAIN Repos : Running(r)
    OBVIOUS
  <2>2. s.miner /\ DOMAIN Repos = {1}
    BY <1>2, <2>1, FetchAssumption DEF FetchAssumption
  <2>3. routine[1].pc = "start"
    BY <1>2, <2>2 DEF Idle
  <2> QED
    BY <2>2, <2>3 DEF Running
<1>6. Len(ch) = 0
  BY <1>2
<1> QED
  BY <1>3, <1>4, <1>5, <1>6 DEF PoolInv

LEMMA PoolStep ==
  ASSUME SearchTypes, SearchInv, PoolInv, [Next]_vars PROVE PoolInv'
<1>1. Shapes' /\ Concurrency \in Nat
  BY SearchInvStep, SearchAssumption DEF SearchInv, SearchAssumption
<1>2. CASE \E r \in DOMAIN Repos : RepoRoutine(r) \/ \E c \in DOMAIN Cats(r) : Scan(r, c)
  BY <1>2, RoutinePool DEF SearchInv
<1>3. ASSUME UNCHANGED <<search, routine, worker>>, Len(ch') <= Concurrency, main'.pc # "direct"
      PROVE  PoolInv'
  BY <1>3, OthersPool, SearchFixed DEF PoolInv
<1>4. CASE Launched \/ Receive \/ Return \/ Installed
  <2>1. UNCHANGED <<search, routine, worker>>
    BY <1>4 DEF Launched, Receive, Return, Installed
  <2>2. Len(ch') <= Concurrency
    <3>1. CASE Receive
      <4>1. Len(ch') = Len(ch) - 1 /\ Len(ch) \in Nat
        BY <3>1 DEF Receive, SearchInv, Shapes
      <4> QED
        BY <1>1, <4>1 DEF PoolInv
    <3>2. CASE ~Receive
      BY <1>4, <3>2 DEF Launched, Return, Installed, PoolInv
    <3> QED
      BY <3>1, <3>2
  <2>3. main'.pc # "direct"
    <3>1. CASE Installed
      <4>1. Repos = <<>>
        BY <3>1 DEF Installed, SearchInv, Shapes
      <4>2. ~search.miner
        BY <4>1, FetchAssumption DEF FetchAssumption, SearchTypes, Repos
      <4> QED
        BY <1>1, <2>1, <4>2 DEF Shapes
    <3>2. CASE ~Installed
      <4>1. ~search.miner
        BY <1>4, <3>2 DEF Launched, Receive, Return, SearchInv, Calling, Flow
      <4> QED
        BY <1>1, <2>1, <4>1 DEF Shapes
    <3> QED
      BY <3>1, <3>2
  <2> QED
    BY <1>3, <2>1, <2>2, <2>3
<1>5. ASSUME NEW r \in DOMAIN Repos, Launch(r) PROVE PoolInv'
  <2>1. /\ UNCHANGED <<search, worker, ch>> /\ main.pc = "launch" /\ main.at = r
        /\ routine' = routine \/ routine' = [routine EXCEPT ![r].pc = "start"]
    BY <1>5 DEF Launch, Launching
  <2>2. routine[r].pc = "idle"
    <3>1. r \in Nat
      BY SearchAssumption DEF SearchAssumption, SearchTypes, Repos
    <3> QED
      BY <2>1, <3>1 DEF SearchInv, Calling, Launches
  <2>3. ~search.miner /\ main'.pc # "direct"
    BY <1>1, <2>1 DEF SearchInv, Calling, Flow, Shapes
  <2>4. CASE routine' = routine
    BY <1>3, <2>1, <2>3, <2>4 DEF PoolInv
  <2>5. CASE routine' = [routine EXCEPT ![r].pc = "start"]
    <3>1. /\ routine'[r] = [routine[r] EXCEPT !.pc = "start"]
          /\ \A q \in DOMAIN Repos \ {r} : routine'[q] = routine[q]
      BY <2>5, RoutineIs
    <3>2. /\ routine'[r].pc = "start" /\ routine'[r].next = routine[r].next
          /\ routine'[r].free = routine[r].free
      BY <3>1, RoutineIs, RoutineFields, RoutinePlaces
    <3>3. Places(r)' /\ Turns(r)'
      BY <2>1, <2>2, <3>2, SameReading DEF PoolInv
    <3>4. \A q \in DOMAIN Repos \ {r} : Places(q)' /\ Turns(q)'
      BY <2>1, <3>1, OthersPool DEF PoolInv
    <3> QED
      BY <2>1, <2>3, <3>3, <3>4, SearchFixed DEF PoolInv
  <2> QED
    BY <2>1, <2>4, <2>5
<1>6. CASE MinerSearch
  <2>1. /\ main.pc = "direct" /\ search.miner /\ main' = [main EXCEPT !.pc = "done"]
        /\ UNCHANGED <<search, worker, ch>> /\ routine' = [routine EXCEPT ![1].pc = "done"]
    BY <1>6 DEF MinerSearch, SearchInv, Shapes
  <2>2. DOMAIN Repos = {1} /\ main'.pc = "done"
    BY <2>1, FetchAssumption DEF FetchAssumption, SearchTypes, Repos
  <2>3. routine'[1] = [routine[1] EXCEPT !.pc = "done"]
    BY <2>1, <2>2, RoutineIs
  <2>4. routine'[1].pc = "done" /\ routine'[1].free = routine[1].free
    BY <2>2, <2>3, RoutineIs, RoutineFields, RoutinePlaces
  <2>5. Places(1)' /\ Turns(1)'
    BY <2>1, <2>2, <2>4, SameReading DEF PoolInv
  <2> QED
    BY <2>1, <2>2, <2>5, SearchFixed DEF PoolInv
<1>7. ASSUME UNCHANGED searchVars PROVE PoolInv'
  <2>1. UNCHANGED <<search, main, routine, worker, ch>>
    BY <1>7 DEF searchVars
  <2> QED
    BY <2>1, OthersPool, SearchFixed DEF PoolInv, Running
<1>8. CASE \E p \in Procs : Download(p)
  <2>1. UNCHANGED searchVars
    BY <1>8 DEF Download, Phase, Exit, Cached, Missing, Answers, Refuses, NoUrl, Copied,
                CopyFails, Crash, Verify
  <2> QED
    BY <1>7, <2>1
<1>9. CASE \/ StartMiner \/ \E files \in Wanted : StartInstall(files)
           \/ \E f \in Files : Clean(f) \/ Publish(f)
           \/ Sync
  <2>1. UNCHANGED searchVars
    BY <1>9 DEF StartMiner, StartInstall, Clean, Publish, Sync
  <2> QED
    BY <1>7, <2>1
<1>10. CASE UNCHANGED vars
  BY <1>7, <1>10 DEF vars
<1> QED
  BY <1>2, <1>4, <1>5, <1>6, <1>8, <1>9, <1>10 DEF Next, SearchNext, Caller

LEMMA StuckNever == ASSUME SearchTypes, SearchInv, PoolInv PROVE NeverStuck
<1>1. ASSUME NEW r \in DOMAIN Repos, Running(r)
      PROVE  Moves(r) \/ (routine[r].pc = "answer" /\ Len(ch) = Concurrency)
  <2> DEFINE c == routine[r].next
  <2>1. /\ routine[r].pc \in {"start", "spawn", "collect", "answer"}
        /\ c \in Nat \ {0} /\ routine[r].free \in Nat
        /\ DOMAIN Cats(r) = 1 .. Len(Cats(r)) /\ Len(Cats(r)) \in Nat
    BY <1>1, RoutineIs, CategoryNumbers DEF RoutineType, Running
  <2>2. CASE routine[r].pc = "spawn"
    <3>1. CASE routine[r].free > 0 \/ c > Len(Cats(r))
      BY <2>2, <3>1 DEF Moves
    <3>2. CASE routine[r].free = 0
      <4>1. Concurrency \in Nat \ {0} /\ Cardinality(Reading(r)) \in Nat
        <5>1. Reading(r) \in SUBSET DOMAIN Cats(r)
          BY DEF Reading
        <5> QED
          BY <5>1, CategoryNumbers, SearchAssumption DEF SearchAssumption
      <4>2. Cardinality(Reading(r)) = Concurrency
        BY <3>2, <4>1 DEF PoolInv, Places
      <4>3. Reading(r) # {}
        BY <4>1, <4>2, FS_EmptySet
      <4> QED
        BY <4>3 DEF Reading, Moves
    <3> QED
      BY <2>1, <3>1, <3>2
  <2>3. CASE routine[r].pc = "collect"
    <3>1. CASE c > Len(Cats(r))
      BY <2>3, <3>1 DEF Moves
    <3>2. CASE c \in DOMAIN Cats(r)
      <4>1. worker[r][c] \in {"scan", "send", "done"}
        BY <2>3, <3>2 DEF PoolInv, Turns
      <4> QED
        BY <2>3, <3>2, <4>1 DEF Moves
    <3> QED
      BY <2>1, <3>1, <3>2
  <2>4. CASE routine[r].pc = "answer"
    <3>1. Len(ch) \in Nat /\ Concurrency \in Nat /\ Len(ch) <= Concurrency
      BY SearchAssumption DEF PoolInv, SearchInv, Shapes, SearchAssumption
    <3> QED
      BY <2>4, <3>1 DEF Moves
  <2> QED
    BY <2>1, <2>2, <2>3, <2>4 DEF Moves
<1>2. ASSUME main.pc = "receive"
      PROVE  Sent \subseteq Asking /\ Cardinality(Sent) <= Cardinality(Asking)
  <2>1. Sent \subseteq Asking
    BY <1>2 DEF SearchInv, Calling, Receives, Sent, Asking
  <2> QED
    BY <2>1, FiniteRepos, FS_Subset
<1>3. ASSUME main.pc = "receive", main.at > 0, ch = <<>>
      PROVE  \E r \in DOMAIN Repos : Running(r)
  <2>1. Cardinality(Sent) + main.at = Cardinality(Asking) /\ main.at \in Nat
    <3>1. Len(ch) = 0
      BY <1>3
    <3> QED
      BY <1>3, <3>1, FiniteRepos DEF SearchInv, Calling, Receives
  <2>2. Sent # Asking
    BY <1>3, <2>1, FiniteRepos
  <2>3. PICK r \in Asking : r \notin Sent
    BY <1>2, <1>3, <2>2
  <2> QED
    BY <1>3, <2>3 DEF SearchInv, Calling, Receives, Sent, Asking, Running
<1>4. ASSUME main.pc = "receive", ch # <<>> PROVE main.at > 0
  <2>1. Len(ch) \in Nat /\ Len(ch) > 0
    BY <1>4 DEF SearchInv, Shapes
  <2>2. Cardinality(Sent) + main.at = Cardinality(Asking) + Len(ch) /\ main.at \in Nat
    BY <1>4 DEF SearchInv, Calling, Receives
  <2> QED
    BY <1>2, <1>4, <2>1, <2>2, FiniteRepos
<1> QED
  BY <1>1, <1>3, <1>4 DEF NeverStuck, PoolInv

\* Deadlock: whatever the concurrency and the number of repositories and of
\* categories, no goroutine of a search waits for one that waits.
THEOREM NeverStuckCorrect == Spec => []NeverStuck
<1>1. Init => SearchInv /\ PoolInv
  BY SearchInvInit, PoolInit
<1>2. FetchInv => SearchTypes
  BY DEF FetchInv
<1>3. SearchTypes /\ SearchInv /\ PoolInv /\ [Next]_vars => SearchInv' /\ PoolInv'
  BY SearchInvStep, PoolStep
<1>4. SearchTypes /\ SearchInv /\ PoolInv => NeverStuck
  BY StuckNever
<1>5. Spec => Init /\ [][Next]_vars
  BY PTL DEF Spec
<1> QED
  BY <1>1, <1>2, <1>3, <1>4, <1>5, FetchInvariant, PTL

================================================================================
