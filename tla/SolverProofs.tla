------------------------------ MODULE SolverProofs ------------------------------
(***************************************************************************)
(* The answer of the solver, for all packages, repositories, systems and   *)
(* orders of the Go maps.  An install honours the conflicts, answers a     *)
(* name that is installed only as a provider, needs all that it answers,   *)
(* and is closed when the repositories hold one version of each name; an   *)
(* upgrade does not go back to an older version by itself, replaces what   *)
(* it removes, and closes too.  The invariants say what the pending calls  *)
(* have established: Tried of the versions of each of them, Keyed of the   *)
(* names that they are found under, Linked of the requires between them.   *)
(***************************************************************************)
EXTENDS SolverUpgrade, FiniteSetTheorems, SequenceTheorems, WellFoundedInduction, TLAPS

-----------------------------------------------------------------------------
(* Facts of the problem, which no step changes.                            *)

\* The versions that resolvePackage bans.
Conflicting == {a \in Repo : ~problem.noConflicts /\ InConflict(a)}

\* A name that is not installed, or may be answered as a provider.
Explained ==
  {m \in Names : OfName(World, m) # {} =>
     \E b \in OfName(Repo, m) : \E n \in Provides[b] :
       \/ Providers(World, n) = {}
       \/ \E a \in Repo, q \in Providers(World, n) : <<a, q, n>> \in Refuses}

\* A name of which resolvePackage may choose an older version.
Excused == {m \in Names : m \in Installed /\ Plain(m) => RefusesOld(m)}

\* The names that resolvePackage is called for.
Callable == IF problem.kind = "install" THEN Explained ELSE Excused

\* One version of each name may be answered.
Single == ~problem.force /\ OneVersionEach /\ (problem.kind = "install" \/ OneUpgradeEach)

LEMMA SameProblem ==
  ASSUME UNCHANGED problem
  PROVE  /\ Repo' = Repo /\ World' = World /\ Outer' = Outer
         /\ Conflicting' = Conflicting /\ Explained' = Explained /\ Excused' = Excused
         /\ Callable' = Callable /\ Single' = Single
         /\ \A n : Versions(n)' = Versions(n)
<1>1. Repo' = Repo /\ World' = World /\ Outer' = Outer
  BY DEF Repo, World, Outer
<1>2. Conflicting' = Conflicting
  BY <1>1 DEF Conflicting, InConflict
<1>3. Explained' = Explained
  BY <1>1 DEF Explained
<1>4. \A n : Versions(n)' = Versions(n)
  BY <1>1 DEF Versions
<1>5. Excused' = Excused
  BY <1>1, <1>4 DEF Excused, Installed, Plain, RefusesOld, Old
<1>6. Single' = Single
  BY <1>1, <1>4 DEF Single, OneVersionEach, OneUpgradeEach
<1> QED BY <1>1, <1>2, <1>3, <1>4, <1>5, <1>6 DEF Callable

-----------------------------------------------------------------------------
(* The first of a sorted list.                                             *)

LEMMA RepoOrder ==
  ASSUME SolverAssumption, problem \in Problems
  PROVE  /\ Repo \subseteq Pkgs /\ IsFiniteSet(Repo)
         /\ \A a, b \in Repo : a = b \/ Precedes(a, b) \/ Precedes(b, a)
         /\ \A a, b \in Repo : Precedes(a, b) => ~Precedes(b, a) /\ a # b
         /\ \A a, b, c \in Repo : Precedes(a, b) /\ Precedes(b, c) => Precedes(a, c)
<1>1. Repo \subseteq Pkgs /\ IsFiniteSet(Repo)
      /\ \A a, b \in Repo : NameOf[a] = NameOf[b] /\ Rank[a] = Rank[b] => a = b
  BY DEF SolverAssumption, Repo
<1>2. \A a \in Repo : NameOf[a] \in Names /\ Rank[a] \in Nat /\ NameOrder[NameOf[a]] \in Nat
  BY <1>1 DEF SolverAssumption
<1>3. \A a, b \in Repo : NameOrder[NameOf[a]] = NameOrder[NameOf[b]] => NameOf[a] = NameOf[b]
  BY <1>2 DEF SolverAssumption
<1> QED BY <1>1, <1>2, <1>3 DEF Precedes

LEMMA LeastNumber ==
  ASSUME NEW T, T \subseteq Nat, T # {}
  PROVE  \E k \in T : \A j \in T : k <= j
<1> DEFINE less == {s2 \in Nat \X Nat : s2[1] < s2[2]}
<1>1. IsWellFoundedOn(less, Nat)
  BY NatLessThanWellFounded DEF OpToRel
<1>2. \E k \in T : \A j \in T : <<j, k>> \notin less
  <2> HIDE DEF less
  <2> QED BY <1>1, WFMin
<1>3. \A k, j \in T : <<j, k>> \notin less => k <= j
  OBVIOUS
<1> QED BY <1>2, <1>3

LEMMA BestFirst ==
  ASSUME SolverAssumption, problem \in Problems, NEW S \in SUBSET Repo, S # {}
  PROVE  Best(S) \in S /\ \A b \in S : b = Best(S) \/ Precedes(Best(S), b)
<1> DEFINE before(a) == {b \in S : Precedes(b, a)}
           sizes == {Cardinality(before(a)) : a \in S}
<1>1. IsFiniteSet(S)
  BY RepoOrder, FS_Subset
<1>2. ASSUME NEW a \in S PROVE IsFiniteSet(before(a)) /\ Cardinality(before(a)) \in Nat
  <2>1. before(a) \in SUBSET S
    OBVIOUS
  <2> HIDE DEF before
  <2>2. IsFiniteSet(before(a))
    BY <1>1, <2>1, FS_Subset
  <2> QED BY <2>2, FS_CardinalityType
<1>3. sizes \subseteq Nat /\ sizes # {}
  <2> HIDE DEF before
  <2> QED BY <1>2
<1>4. PICK k \in sizes : \A j \in sizes : k <= j
  <2> HIDE DEF sizes
  <2> QED BY <1>3, LeastNumber
<1>5. k \in Nat /\ sizes \subseteq Nat
  BY <1>3
<1>6. PICK a \in S : k = Cardinality(before(a))
  OBVIOUS
<1>7. ASSUME NEW b \in before(a) PROVE FALSE
  <2>1. before(b) \subseteq before(a) /\ b \notin before(b) /\ b \in S
    BY RepoOrder
  <2>2. before(b) # before(a)
    BY <2>1, <1>7
  <2>3. Cardinality(before(b)) <= Cardinality(before(a))
        /\ Cardinality(before(b)) # Cardinality(before(a))
    <3>1. IsFiniteSet(before(a)) /\ before(b) \in SUBSET before(a)
      BY <1>2, <2>1
    <3> HIDE DEF before
    <3> QED BY <2>2, <3>1, FS_Subset
  <2>4. Cardinality(before(b)) \in sizes
    BY <2>1
  <2>5. b \in S /\ Cardinality(before(b)) \in Nat /\ Cardinality(before(a)) \in Nat
    BY <1>2, <2>1
  <2>6. k <= Cardinality(before(b))
    BY <1>4, <2>4
  <2> HIDE DEF before, sizes
  <2> QED BY <1>6, <2>3, <2>5, <2>6
<1>8. \A b \in S : a = b \/ Precedes(a, b)
  BY <1>7, RepoOrder
<1> QED BY <1>6, <1>8 DEF Best

-----------------------------------------------------------------------------
(* The invariant of the pending calls.                                     *)

FrameTypes ==
  [name : Names, all : SUBSET Pkgs, todo : SUBSET Pkgs, banned : SUBSET Nat,
   equal : BOOLEAN, art : Pkgs \cup {NoPkg}, deps : Seq(Names)]

MapTypes ==
  /\ avail \in [Names -> SUBSET Pkgs] /\ \A n \in Names : avail[n] \subseteq Versions(n)
  /\ cand \in [Names -> Pkgs \cup {NoPkg}]
  /\ pList \subseteq Names

\* What an install knows of the names that are installed.
Installing ==
  problem.kind = "install" =>
    /\ pc # "analyse" /\ {p \in World : Provides[p] # {}} \subseteq prov
    /\ \A n \in Names : avail[n] # {} => n \in Explained /\ avail[n] \subseteq OfName(Repo, n)

Types == problem \in Problems /\ frames \in Seq(FrameTypes) /\ MapTypes /\ Installing

\* A call that called another is at a require of the version it tries.
Waiting == \A i \in DOMAIN frames : i > 1 => frames[i].art # NoPkg /\ frames[i].deps # <<>>

\* The versions tried are the first ones; a version in conflict is banned, the
\* one that is tried is not.
Tried(f) ==
  /\ f.all \subseteq Repo /\ f.todo \subseteq f.all
  /\ problem.kind = "install" => f.all \subseteq OfName(Repo, f.name)
  /\ \A b \in f.all \ f.todo : b \in Conflicting => Rank[b] \in f.banned
  /\ f.art # NoPkg =>
       /\ f.art \in f.all \ f.todo /\ Rank[f.art] \notin f.banned
       /\ Range(f.deps) \subseteq Range(Requires[f.art])
       /\ \A b \in f.todo : Precedes(f.art, b)

\* The call of an upgrade: a version that is tried is not an older one.
Outermost(f) ==
  /\ f.all \subseteq Versions(f.name) /\ f.todo \subseteq f.all
  /\ f.art # NoPkg => f.art \in f.all
  /\ ~problem.deep /\ f.name \notin Excused /\ f.art # NoPkg =>
       Rank[f.art] \notin f.banned /\ Rank[f.art] >= Rank[Old(f.name)]

Fine(f, inner) == IF inner THEN Tried(f) /\ f.name \in Callable ELSE Outermost(f)

Calls == \A i \in DOMAIN frames : Fine(frames[i], i <= Len(frames) - Outer)

StackInv == Types /\ Waiting /\ Calls

\* The version kept for a name is not in conflict, is answered for a name that
\* an install may answer, and is not an older one unless it is excused.
Fit(n, a) ==
  IF problem.kind = "install" THEN a \in OfName(Repo, n) \ Conflicting /\ n \in Explained
  ELSE problem.deep \/ n \in Excused \/ Rank[a] >= Rank[Old(n)]

Answers == \A n \in Names : cand[n] # NoPkg => Fit(n, cand[n])

SolverInv == StackInv /\ Answers

-----------------------------------------------------------------------------
(* What becomes of the calls.                                              *)

Pushed(f) == frames' = <<f>> \o frames
Popped(f) == frames' = <<f>> \o SubSeq(frames, 3, Len(frames))

LEMMA PushedAt ==
  ASSUME frames \in Seq(FrameTypes), NEW f \in FrameTypes, Pushed(f)
  PROVE  /\ frames' \in Seq(FrameTypes) /\ Len(frames') = Len(frames) + 1
         /\ DOMAIN frames' = 1 .. Len(frames) + 1 /\ frames'[1] = f
         /\ \A i \in 2 .. Len(frames) + 1 : frames'[i] = frames[i - 1] /\ i - 1 \in DOMAIN frames
         /\ \A i \in DOMAIN frames : i + 1 \in DOMAIN frames' /\ frames'[i + 1] = frames[i]
BY DEF Pushed

LEMMA ToppedAt ==
  ASSUME frames \in Seq(FrameTypes), frames # <<>>, NEW f \in FrameTypes, SetTop(f)
  PROVE  /\ frames' \in Seq(FrameTypes) /\ Len(frames') = Len(frames)
         /\ DOMAIN frames' = 1 .. Len(frames) /\ frames'[1] = f
         /\ \A i \in 2 .. Len(frames) : frames'[i] = frames[i] /\ i \in DOMAIN frames
<1>1. /\ Tail(frames) \in Seq(FrameTypes) /\ Len(Tail(frames)) = Len(frames) - 1
      /\ \A i \in 1 .. Len(frames) - 1 : Tail(frames)[i] = frames[i + 1]
      /\ Len(frames) \in Nat \ {0} /\ DOMAIN frames = 1 .. Len(frames)
  OBVIOUS
<1>2. frames' = <<f>> \o Tail(frames)
  BY DEF SetTop
<1>3. /\ frames' \in Seq(FrameTypes) /\ Len(frames') = Len(frames)
      /\ DOMAIN frames' = 1 .. Len(frames) /\ frames'[1] = f
      /\ \A i \in 2 .. Len(frames) : frames'[i] = Tail(frames)[i - 1]
  <2> DEFINE t == Tail(frames)
  <2>1. frames' = <<f>> \o t /\ t \in Seq(FrameTypes) /\ Len(t) = Len(frames) - 1
    BY <1>1, <1>2
  <2> HIDE DEF t
  <2>2. /\ frames' \in Seq(FrameTypes) /\ Len(frames') = Len(t) + 1 /\ DOMAIN frames' = 1 .. Len(t) + 1
        /\ frames'[1] = f /\ \A i \in 2 .. Len(t) + 1 : frames'[i] = t[i - 1]
    BY <2>1
  <2> QED BY <1>1, <2>1, <2>2 DEF t
<1> QED BY <1>1, <1>3

LEMMA PoppedAt ==
  ASSUME frames \in Seq(FrameTypes), Len(frames) >= 2, NEW f \in FrameTypes, Popped(f)
  PROVE  /\ frames' \in Seq(FrameTypes) /\ Len(frames') = Len(frames) - 1
         /\ DOMAIN frames' = 1 .. Len(frames) - 1 /\ frames'[1] = f
         /\ \A i \in 2 .. Len(frames) - 1 : frames'[i] = frames[i + 1] /\ i + 1 \in DOMAIN frames
<1> DEFINE t == SubSeq(frames, 3, Len(frames))
<1>1. /\ t \in Seq(FrameTypes) /\ Len(t) = Len(frames) - 2
      /\ \A i \in 1 .. Len(frames) - 2 : t[i] = frames[i + 2]
      /\ Len(frames) \in Nat /\ DOMAIN frames = 1 .. Len(frames)
  <2>1. /\ Len(frames) \in Nat /\ DOMAIN frames = 1 .. Len(frames) /\ 3 \in Int /\ Len(frames) \in Int
        /\ \A i \in 3 .. Len(frames) : frames[i] \in FrameTypes
    OBVIOUS
  <2>2. /\ t \in Seq(FrameTypes)
        /\ Len(t) = IF 3 <= Len(frames) THEN Len(frames) - 3 + 1 ELSE 0
        /\ \A i \in 1 .. Len(frames) - 3 + 1 : t[i] = frames[3 + i - 1]
    <3> HIDE DEF FrameTypes
    <3> QED BY <2>1, SubSeqProperties
  <2>3. \A i \in 1 .. Len(frames) - 2 : t[i] = frames[i + 2]
    <3> SUFFICES ASSUME NEW i \in 1 .. Len(frames) - 2 PROVE t[i] = frames[i + 2]
      OBVIOUS
    <3>1. 3 + i - 1 = i + 2 /\ i \in 1 .. Len(frames) - 3 + 1
      BY <2>1
    <3> HIDE DEF t
    <3> QED BY <2>2, <3>1
  <2>4. Len(t) = Len(frames) - 2
    <3>1. CASE Len(frames) = 2
      <4> HIDE DEF t
      <4> QED BY <2>2, <3>1
    <3>2. CASE Len(frames) # 2
      <4>1. Len(frames) - 3 + 1 = Len(frames) - 2 /\ 3 <= Len(frames)
        BY <2>1, <3>2
      <4> HIDE DEF t
      <4> QED BY <2>2, <4>1
    <3> QED BY <3>1, <3>2
  <2> HIDE DEF t
  <2> QED BY <2>1, <2>2, <2>3, <2>4
<1>2. frames' = <<f>> \o t
  BY DEF Popped
<1> HIDE DEF t
<1>3. /\ frames' \in Seq(FrameTypes) /\ Len(frames') = Len(t) + 1 /\ DOMAIN frames' = 1 .. Len(t) + 1
      /\ frames'[1] = f /\ \A i \in 2 .. Len(t) + 1 : frames'[i] = t[i - 1]
  BY <1>1, <1>2
<1> QED BY <1>1, <1>3

LEMMA SameCalls ==
  ASSUME UNCHANGED problem,
         \A i \in DOMAIN frames' : Fine(frames'[i], i <= Len(frames') - Outer)
  PROVE  Calls'
BY SameProblem DEF Calls, Fine, Tried, Outermost, Old

LEMMA PushKeeps ==
  ASSUME StackInv, UNCHANGED problem, NEW f \in FrameTypes, Pushed(f),
         frames # <<>> => frames[1].art # NoPkg /\ frames[1].deps # <<>>,
         Fine(f, Len(frames) >= Outer)
  PROVE  Waiting' /\ Calls'
<1>1. /\ frames \in Seq(FrameTypes) /\ Len(frames) \in Nat /\ DOMAIN frames = 1 .. Len(frames)
      /\ Outer \in {0, 1}
  BY DEF StackInv, Types, Outer
<1>2. /\ Len(frames') = Len(frames) + 1 /\ DOMAIN frames' = 1 .. Len(frames) + 1 /\ frames'[1] = f
      /\ \A i \in 2 .. Len(frames) + 1 : frames'[i] = frames[i - 1] /\ i - 1 \in DOMAIN frames
  BY <1>1, PushedAt
<1>3. Waiting'
  <2> SUFFICES ASSUME NEW i \in DOMAIN frames', i > 1
               PROVE  frames'[i].art # NoPkg /\ frames'[i].deps # <<>>
    BY DEF Waiting
  <2>1. frames'[i] = frames[i - 1] /\ i - 1 \in DOMAIN frames /\ i \in Nat
    BY <1>1, <1>2
  <2>2. CASE i = 2
    BY <1>1, <2>1, <2>2
  <2>3. CASE i # 2
    BY <1>1, <2>1, <2>3 DEF StackInv, Waiting
  <2> QED BY <2>2, <2>3
<1>4. ASSUME NEW i \in DOMAIN frames' PROVE Fine(frames'[i], i <= Len(frames') - Outer)
  <2>1. CASE i = 1
    <3>1. i <= Len(frames') - Outer <=> Len(frames) >= Outer
      BY <1>1, <1>2, <2>1
    <3> QED BY <1>2, <2>1, <3>1 DEF Fine
  <2>2. CASE i # 1
    <3>1. /\ frames'[i] = frames[i - 1] /\ i - 1 \in DOMAIN frames
          /\ i <= Len(frames') - Outer <=> i - 1 <= Len(frames) - Outer
      BY <1>1, <1>2, <2>2
    <3> QED BY <3>1 DEF StackInv, Calls, Fine
  <2> QED BY <2>1, <2>2
<1> QED BY <1>3, <1>4, SameCalls

LEMMA TopKeeps ==
  ASSUME StackInv, UNCHANGED problem, frames # <<>>, NEW f \in FrameTypes, SetTop(f),
         f.name = Top.name, IF Len(frames) > Outer THEN Tried(f) ELSE Outermost(f)
  PROVE  Waiting' /\ Calls'
<1>1. /\ frames \in Seq(FrameTypes) /\ Len(frames) \in Nat /\ DOMAIN frames = 1 .. Len(frames)
      /\ Outer \in {0, 1} /\ Top = frames[1] /\ Len(frames) > 0
  BY DEF StackInv, Types, Outer, Top
<1>2. /\ Len(frames') = Len(frames) /\ DOMAIN frames' = 1 .. Len(frames) /\ frames'[1] = f
      /\ \A i \in 2 .. Len(frames) : frames'[i] = frames[i] /\ i \in DOMAIN frames
  BY <1>1, ToppedAt
<1>3. Waiting'
  <2> SUFFICES ASSUME NEW i \in DOMAIN frames', i > 1
               PROVE  frames'[i].art # NoPkg /\ frames'[i].deps # <<>>
    BY DEF Waiting
  <2>1. frames'[i] = frames[i] /\ i \in DOMAIN frames
    BY <1>1, <1>2
  <2> QED BY <2>1 DEF StackInv, Waiting
<1>4. ASSUME NEW i \in DOMAIN frames' PROVE Fine(frames'[i], i <= Len(frames') - Outer)
  <2>1. CASE i = 1
    <3>1. 1 \in DOMAIN frames /\ (1 <= Len(frames) - Outer <=> Len(frames) > Outer)
      BY <1>1, <1>2, <2>1
    <3>2. Len(frames) > Outer => frames[1].name \in Callable
      BY <3>1 DEF StackInv, Calls, Fine
    <3> QED BY <1>1, <1>2, <2>1, <3>1, <3>2 DEF Fine
  <2>2. CASE i # 1
    <3>1. frames'[i] = frames[i] /\ i \in DOMAIN frames
      BY <1>1, <1>2, <2>2
    <3> QED BY <1>2, <3>1 DEF StackInv, Calls
  <2> QED BY <2>1, <2>2
<1> QED BY <1>3, <1>4, SameCalls

LEMMA PopKeeps ==
  ASSUME StackInv, UNCHANGED problem, Len(frames) >= 2, NEW f \in FrameTypes, Popped(f),
         f.name = frames[2].name, IF Len(frames) - 1 > Outer THEN Tried(f) ELSE Outermost(f)
  PROVE  Waiting' /\ Calls'
<1>1. /\ frames \in Seq(FrameTypes) /\ Len(frames) \in Nat /\ DOMAIN frames = 1 .. Len(frames)
      /\ Outer \in {0, 1}
  BY DEF StackInv, Types, Outer
<1>2. /\ Len(frames') = Len(frames) - 1 /\ DOMAIN frames' = 1 .. Len(frames) - 1 /\ frames'[1] = f
      /\ \A i \in 2 .. Len(frames) - 1 : frames'[i] = frames[i + 1] /\ i + 1 \in DOMAIN frames
  BY <1>1, PoppedAt
<1>3. Waiting'
  <2> SUFFICES ASSUME NEW i \in DOMAIN frames', i > 1
               PROVE  frames'[i].art # NoPkg /\ frames'[i].deps # <<>>
    BY DEF Waiting
  <2>1. frames'[i] = frames[i + 1] /\ i + 1 \in DOMAIN frames /\ i + 1 > 1
    BY <1>1, <1>2
  <2> QED BY <2>1 DEF StackInv, Waiting
<1>4. ASSUME NEW i \in DOMAIN frames' PROVE Fine(frames'[i], i <= Len(frames') - Outer)
  <2>1. CASE i = 1
    <3>1. /\ 2 \in DOMAIN frames
          /\ 2 <= Len(frames) - Outer <=> Len(frames) - 1 > Outer
          /\ 1 <= Len(frames') - Outer <=> Len(frames) - 1 > Outer
      BY <1>1, <1>2, <2>1
    <3>2. Len(frames) - 1 > Outer => frames[2].name \in Callable
      BY <3>1 DEF StackInv, Calls, Fine
    <3> QED BY <1>2, <2>1, <3>1, <3>2 DEF Fine
  <2>2. CASE i # 1
    <3>1. /\ frames'[i] = frames[i + 1] /\ i + 1 \in DOMAIN frames
          /\ i <= Len(frames') - Outer <=> i + 1 <= Len(frames) - Outer
      BY <1>1, <1>2, <2>2
    <3> QED BY <3>1 DEF StackInv, Calls, Fine
  <2> QED BY <2>1, <2>2
<1> QED BY <1>3, <1>4, SameCalls

-----------------------------------------------------------------------------
(* The steps of resolvePackage.                                            *)

LEMMA TopType ==
  ASSUME StackInv, frames # <<>>
  PROVE  Top \in FrameTypes /\ Top = frames[1] /\ 1 \in DOMAIN frames
BY DEF StackInv, Types, Top

LEMMA StackShape ==
  ASSUME StackInv
  PROVE  /\ frames \in Seq(FrameTypes) /\ Len(frames) \in Nat /\ DOMAIN frames = 1 .. Len(frames)
         /\ Outer \in {0, 1} /\ problem \in Problems
         /\ frames # <<>> <=> Len(frames) > 0
BY DEF StackInv, Types, Outer

LEMMA TopFine ==
  ASSUME StackInv, frames # <<>>
  PROVE  /\ Len(frames) > Outer => Tried(Top) /\ Top.name \in Callable
         /\ Len(frames) <= Outer => Outermost(Top)
<1>1. Fine(Top, 1 <= Len(frames) - Outer)
  BY TopType DEF StackInv, Calls
<1>2. 1 <= Len(frames) - Outer <=> Len(frames) > Outer
  BY StackShape
<1> QED BY <1>1, <1>2, StackShape DEF Fine

\* The version a is passed over, banned as r, or tried; it is given up, or one
\* of its requires is settled.
Passed(f, a) == [f EXCEPT !.todo = @ \ {a}]
Banned(f, a, r) == [Passed(f, a) EXCEPT !.banned = @ \cup {r}]
Taken(f, a) == [Passed(f, a) EXCEPT !.art = a, !.deps = Requires[a]]
GivenUp(f) == [f EXCEPT !.art = NoPkg]
Settled(f) == [f EXCEPT !.deps = Tail(@)]

LEMMA TryNext ==
  ASSUME SolverAssumption, problem \in Problems, NEW f \in FrameTypes, f.art = NoPkg, f.todo # {},
         f.all \subseteq Repo, f.todo \subseteq f.all, NEW r \in Nat
  PROVE  LET a == Best(f.todo)
             g == Passed(f, a)
             h == Banned(f, a, r)
             t == Taken(f, a)
         IN
         /\ a \in f.todo /\ a \in f.all /\ a \in Repo /\ a \in Pkgs
         /\ g \in FrameTypes /\ h \in FrameTypes /\ t \in FrameTypes
         /\ g.name = f.name /\ h.name = f.name /\ t.name = f.name
         /\ g.all = f.all /\ h.all = f.all /\ t.all = f.all
         /\ Tried(f) /\ (a \in Conflicting => Rank[a] \in f.banned) => Tried(g)
         /\ Tried(f) /\ (a \in Conflicting => r = Rank[a]) => Tried(h)
         /\ Tried(f) /\ a \notin Conflicting /\ Rank[a] \notin f.banned => Tried(t)
<1> DEFINE a == Best(f.todo)
           g == Passed(f, a)
           h == Banned(f, a, r)
           t == Taken(f, a)
<1>1. a \in f.todo /\ \A b \in f.todo : b = a \/ Precedes(a, b)
  BY BestFirst
<1>2. a \in Repo /\ a \in Pkgs /\ Requires[a] \in Seq(Names) /\ a # NoPkg
  BY <1>1, RepoOrder DEF SolverAssumption
<1>3. g \in FrameTypes /\ h \in FrameTypes /\ t \in FrameTypes
  <2> HIDE DEF a
  <2> QED BY <1>2 DEF FrameTypes, Passed, Banned, Taken
<1>4. /\ g.name = f.name /\ g.all = f.all /\ g.todo = f.todo \ {a} /\ g.banned = f.banned /\ g.art = NoPkg
      /\ h.name = f.name /\ h.all = f.all /\ h.todo = f.todo \ {a} /\ h.banned = f.banned \cup {r}
      /\ h.art = NoPkg
      /\ t.name = f.name /\ t.all = f.all /\ t.todo = f.todo \ {a} /\ t.banned = f.banned /\ t.art = a
      /\ t.deps = Requires[a]
  <2> HIDE DEF a
  <2> QED BY DEF FrameTypes, Passed, Banned, Taken
<1> HIDE DEF a, g, h, t
<1>5. Tried(f) /\ (a \in Conflicting => Rank[a] \in f.banned) => Tried(g)
  BY <1>4 DEF Tried
<1>6. Tried(f) /\ (a \in Conflicting => r = Rank[a]) => Tried(h)
  BY <1>4 DEF Tried
<1>7. Tried(f) /\ a \notin Conflicting /\ Rank[a] \notin f.banned => Tried(t)
  BY <1>1, <1>4 DEF Tried
<1>8. f.todo \subseteq f.all
  OBVIOUS
<1> QED BY <1>1, <1>2, <1>3, <1>4, <1>5, <1>6, <1>7, <1>8 DEF a, g, h, t

LEMMA Settle ==
  ASSUME NEW f \in FrameTypes, f.deps # <<>>
  PROVE  LET g == GivenUp(f)
             h == Settled(f)
         IN
         /\ g \in FrameTypes /\ h \in FrameTypes
         /\ g.name = f.name /\ g.all = f.all /\ g.todo = f.todo /\ g.banned = f.banned /\ g.art = NoPkg
         /\ h.name = f.name /\ h.all = f.all /\ h.todo = f.todo /\ h.banned = f.banned /\ h.art = f.art
         /\ h.deps = Tail(f.deps)
         /\ g.deps = f.deps /\ Range(h.deps) \subseteq Range(f.deps)
         /\ Tried(f) => Tried(g) /\ Tried(h)
<1> DEFINE g == GivenUp(f)
           h == Settled(f)
<1>1. f.deps \in Seq(Names)
  BY DEF FrameTypes
<1>2. Tail(f.deps) \in Seq(Names) /\ Range(Tail(f.deps)) \subseteq Range(f.deps)
  <2> DEFINE d == f.deps
  <2>1. d \in Seq(Names) /\ d # <<>>
    BY <1>1
  <2> HIDE DEF d
  <2>2. Tail(d) \in Seq(Names) /\ \A i \in DOMAIN Tail(d) : i + 1 \in DOMAIN d /\ Tail(d)[i] = d[i + 1]
    BY <2>1
  <2>3. Range(Tail(d)) \subseteq Range(d)
    BY <2>2 DEF Range
  <2> QED BY <2>2, <2>3 DEF d
<1>3. /\ g \in FrameTypes /\ h \in FrameTypes
      /\ g.name = f.name /\ g.all = f.all /\ g.todo = f.todo /\ g.banned = f.banned /\ g.art = NoPkg
      /\ h.name = f.name /\ h.all = f.all /\ h.todo = f.todo /\ h.banned = f.banned /\ h.art = f.art
      /\ h.deps = Tail(f.deps) /\ g.deps = f.deps
  BY <1>2 DEF FrameTypes, GivenUp, Settled
<1> HIDE DEF g, h
<1>4. Tried(f) => Tried(g) /\ Tried(h)
  BY <1>2, <1>3 DEF Tried
<1> QED BY <1>2, <1>3, <1>4 DEF g, h

\* The first version kept is one of those that were tried.
LEMMA FirstTried ==
  ASSUME SolverAssumption, problem \in Problems, NEW f, Tried(f), f.art # NoPkg
  PROVE  /\ Best(Valid(f)) \in f.all \ f.todo /\ Best(Valid(f)) \in Repo
         /\ Rank[Best(Valid(f))] \notin f.banned
<1>1. Valid(f) \in SUBSET Repo /\ f.art \in Valid(f)
  BY DEF Tried, Valid
<1>2. Best(Valid(f)) \in Valid(f)
      /\ \A b \in Valid(f) : b = Best(Valid(f)) \/ Precedes(Best(Valid(f)), b)
  BY <1>1, BestFirst
<1>3. Best(Valid(f)) \in f.all /\ Rank[Best(Valid(f))] \notin f.banned /\ Best(Valid(f)) \in Repo
  BY <1>1, <1>2 DEF Valid
<1>4. ASSUME Best(Valid(f)) \in f.todo PROVE FALSE
  <2>1. Precedes(f.art, Best(Valid(f))) /\ f.art \in Repo /\ f.art \notin f.todo
    BY <1>4 DEF Tried
  <2>2. f.art = Best(Valid(f)) \/ Precedes(Best(Valid(f)), f.art)
    BY <1>1, <1>2
  <2> QED BY <1>3, <1>4, <2>1, <2>2, RepoOrder
<1> QED BY <1>3, <1>4

LEMMA FrameStart ==
  ASSUME NEW n \in Names, NEW S, S \in [Names -> SUBSET Pkgs], S[n] \subseteq Repo,
         problem.kind = "install" => S[n] \subseteq OfName(Repo, n)
  PROVE  /\ Frame(n, S) \in FrameTypes /\ Tried(Frame(n, S))
         /\ Frame(n, S).name = n /\ Frame(n, S).all = S[n] /\ Frame(n, S).todo = S[n]
         /\ Frame(n, S).art = NoPkg
<1>1. <<>> \in Seq(Names)
  OBVIOUS
<1>2. Frame(n, S) \in FrameTypes
  BY <1>1 DEF Frame, FrameTypes
<1> QED BY <1>2 DEF Frame, Tried

LEMMA NoFrames == ASSUME frames' = <<>> PROVE frames' \in Seq(FrameTypes) /\ Waiting' /\ Calls'
BY DEF Waiting, Calls

LEMMA KeptFrames ==
  ASSUME StackInv, UNCHANGED <<problem, frames>>
  PROVE  frames' \in Seq(FrameTypes) /\ Waiting' /\ Calls'
BY SameCalls, SameProblem DEF StackInv, Types, Waiting, Calls

LEMMA DoneKeeps ==
  ASSUME StackInv, UNCHANGED problem, DepDone, frames # <<>> => frames[1].deps # <<>>
  PROVE  frames' \in Seq(FrameTypes) /\ Waiting' /\ Calls'
<1>1. CASE frames = <<>>
  BY <1>1, NoFrames DEF DepDone
<1>2. CASE frames # <<>>
  <2> DEFINE h == Settled(Top)
  <2>1. SetTop(h)
    BY <1>2 DEF DepDone, SetTop, Top, Settled
  <2>2. Top.deps # <<>> /\ Top \in FrameTypes /\ Top = frames[1]
    BY <1>2, TopType
  <2>3. h \in FrameTypes /\ h.name = Top.name /\ (Tried(Top) => Tried(h))
    BY <2>2, Settle
  <2>4. IF Len(frames) > Outer THEN Tried(Top) ELSE Outermost(Top)
    BY <1>2, <2>2, StackShape, TopFine
  <2>5. IF Len(frames) > Outer THEN Tried(h) ELSE Outermost(h)
    BY <2>2, <2>3, <2>4, Settle DEF Outermost
  <2> HIDE DEF h
  <2>6. frames' \in Seq(FrameTypes)
    BY <1>2, <2>1, <2>3, StackShape, ToppedAt
  <2>7. Waiting' /\ Calls'
    BY <1>2, <2>1, <2>3, <2>5, TopKeeps
  <2> QED BY <2>6, <2>7
<1> QED BY <1>1, <1>2

LEMMA CallKeeps ==
  ASSUME StackInv, UNCHANGED problem, NEW n \in Names, NEW S, Call(n, S),
         S \in [Names -> SUBSET Pkgs], S[n] \subseteq Versions(n), S[n] # {} => n \in Callable,
         problem.kind = "install" => S[n] \subseteq OfName(Repo, n),
         frames = <<>> => Outer = 0,
         frames # <<>> => frames[1].art # NoPkg /\ frames[1].deps # <<>>
  PROVE  frames' \in Seq(FrameTypes) /\ Waiting' /\ Calls'
<1>1. CASE DepDone
  BY <1>1, DoneKeeps
<1>2. CASE GiveUp
  BY <1>2, NoFrames DEF GiveUp
<1>3. CASE Pushed(Frame(n, S)) /\ S[n] # {}
  <2> DEFINE f == Frame(n, S)
  <2>1. f \in FrameTypes /\ Tried(f) /\ f.name \in Callable
    BY <1>3, FrameStart DEF Versions
  <2>2. Pushed(f)
    BY <1>3
  <2> HIDE DEF f
  <2>3. frames' \in Seq(FrameTypes)
    BY <2>1, <2>2, StackShape, PushedAt
  <2>4. Len(frames) >= Outer
    BY StackShape
  <2>5. Fine(f, Len(frames) >= Outer)
    BY <2>1, <2>4 DEF Fine
  <2> QED BY <2>1, <2>2, <2>3, <2>5, PushKeeps
<1> QED BY <1>1, <1>2, <1>3 DEF Call, Pushed

LEMMA KeptTypes ==
  ASSUME Types, UNCHANGED <<problem, avail, cand, pList>>, prov \subseteq prov',
         pc' = "analyse" => pc = "analyse", frames' \in Seq(FrameTypes)
  PROVE  Types'
<1>1. MapTypes'
  BY SameProblem DEF Types, MapTypes
<1>2. Installing'
  BY SameProblem DEF Types, Installing
<1> QED BY <1>1, <1>2 DEF Types

LEMMA KeptAnswers == ASSUME Answers, UNCHANGED <<problem, cand>> PROVE Answers'
BY SameProblem DEF Answers, Fit, Old

LEMMA NewAnswer ==
  ASSUME Answers, UNCHANGED problem, cand \in [Names -> Pkgs \cup {NoPkg}],
         NEW n \in Names, NEW a, Fit(n, a), cand' = [cand EXCEPT ![n] = a]
  PROVE  Answers'
<1>1. \A m \in Names : cand'[m] # NoPkg => Fit(m, cand'[m])
  BY DEF Answers
<1> QED BY <1>1, SameProblem DEF Answers, Fit, Old

LEMMA AddedFits ==
  ASSUME SolverAssumption, Types, NEW found \in SUBSET Repo,
         problem.kind = "install" => NamesIn(found) \subseteq Explained
  PROVE  LET S == Added(avail, found)
         IN /\ S \in [Names -> SUBSET Pkgs] /\ \A n \in Names : S[n] \subseteq Versions(n)
            /\ problem.kind = "install" =>
                 \A n \in Names : S[n] # {} => n \in Explained /\ S[n] \subseteq OfName(Repo, n)
<1> DEFINE S == Added(avail, found)
<1>1. \A n \in Names : S[n] = avail[n] \cup OfName(found, n)
  BY DEF Added
<1>2. found \subseteq Pkgs
  BY RepoOrder DEF Types
<1>3. S \in [Names -> SUBSET Pkgs]
  BY <1>2 DEF Added, OfName, Types, MapTypes
<1> HIDE DEF S
<1>4. \A n \in Names : S[n] \subseteq Versions(n)
  BY <1>1 DEF Types, MapTypes, OfName, Versions
<1>5. ASSUME problem.kind = "install", NEW n \in Names, S[n] # {}
      PROVE  n \in Explained /\ S[n] \subseteq OfName(Repo, n)
  <2>1. S[n] = avail[n] \cup OfName(found, n)
    BY <1>1
  <2>2. avail[n] # {} => n \in Explained /\ avail[n] \subseteq OfName(Repo, n)
    BY <1>5 DEF Types, Installing
  <2>3. OfName(found, n) \subseteq OfName(Repo, n)
    BY DEF OfName
  <2>4. OfName(found, n) # {} => n \in NamesIn(found)
    BY DEF OfName, NamesIn
  <2> QED BY <1>5, <2>1, <2>2, <2>3, <2>4
<1> QED BY <1>3, <1>4, <1>5 DEF S

LEMMA GrownTypes ==
  ASSUME SolverAssumption, Types, NEW found \in SUBSET Repo,
         problem.kind = "install" => NamesIn(found) \subseteq Explained,
         UNCHANGED <<problem, cand, pList>>, avail' = Added(avail, found), prov \subseteq prov',
         pc' # "analyse", frames' \in Seq(FrameTypes)
  PROVE  Types'
<1>1. MapTypes'
  BY AddedFits, SameProblem DEF Types, MapTypes
<1>2. Installing'
  BY AddedFits, SameProblem DEF Types, Installing
<1> QED BY <1>1, <1>2 DEF Types

\* What TryVersion makes of the innermost call.
LEMMA VersionTried ==
  ASSUME SolverAssumption, SolverInv, TryVersion
  PROVE  /\ frames # <<>> /\ StackInv
         /\ \E f \in FrameTypes : SetTop(f) /\ f.name = Top.name /\ f.all = Top.all /\ Tried(f)
<1> DEFINE a == Best(Top.todo)
           g == Passed(Top, a)
           h == Banned(Top, a, Rank[a])
           t == Taken(Top, a)
<1>0. StackInv
  BY DEF SolverInv
<1>1. /\ Len(frames) > Outer /\ Top.art = NoPkg /\ Top.todo # {}
      /\ UNCHANGED <<problem, avail, cand, pList, prov, pc>>
      /\ SetTop(IF Rank[a] \in Top.banned THEN g
                ELSE IF ~problem.noConflicts /\ InConflict(a) THEN h
                ELSE IF AdmitByQueue(a) THEN t ELSE g)
  BY DEF TryVersion, Resolving, Rest, Passed, Banned, Taken
<1>2. frames # <<>> /\ Top \in FrameTypes /\ Top = frames[1] /\ 1 \in DOMAIN frames
  BY <1>0, <1>1, StackShape, TopType
<1>3. Tried(Top)
  BY <1>0, <1>1, <1>2, TopFine
<1>4. a \in Repo /\ Rank[a] \in Nat
  <2>1. a \in Repo
    BY <1>1, <1>3, <1>0, StackShape, BestFirst DEF Tried
  <2> QED BY <2>1, <1>0, StackShape, RepoOrder DEF SolverAssumption
<1>5. /\ g \in FrameTypes /\ h \in FrameTypes /\ t \in FrameTypes
      /\ g.name = Top.name /\ h.name = Top.name /\ t.name = Top.name
      /\ g.all = Top.all /\ h.all = Top.all /\ t.all = Top.all
      /\ (a \in Conflicting => Rank[a] \in Top.banned) => Tried(g)
      /\ Tried(h)
      /\ a \notin Conflicting /\ Rank[a] \notin Top.banned => Tried(t)
  <2>1. Top.all \subseteq Repo /\ Top.todo \subseteq Top.all
    BY <1>3 DEF Tried
  <2>2. problem \in Problems
    BY <1>0, StackShape
  <2>3. Top \in FrameTypes /\ Top.art = NoPkg /\ Top.todo # {}
    BY <1>1, <1>2
  <2> QED BY <1>3, <1>4, <2>1, <2>2, <2>3, TryNext
<1>6. \E f \in {g, h, t} : SetTop(f) /\ Tried(f)
  <2>1. ~(~problem.noConflicts /\ InConflict(a)) => a \notin Conflicting
    BY DEF Conflicting
  <2> HIDE DEF a, g, h, t
  <2> QED BY <1>1, <1>5, <2>1
<1>7. \A f \in {g, h, t} : f \in FrameTypes /\ f.name = Top.name /\ f.all = Top.all
  BY <1>5
<1> HIDE DEF a, g, h, t
<1> QED BY <1>0, <1>2, <1>6, <1>7

LEMMA TryVersionKeeps == ASSUME SolverAssumption, SolverInv, TryVersion PROVE SolverInv'
<1>1. StackInv /\ frames # <<>> /\ Len(frames) > Outer /\ UNCHANGED <<problem, avail, cand, pList, prov, pc>>
  BY VersionTried DEF TryVersion, Resolving
<1>2. PICK f \in FrameTypes : SetTop(f) /\ f.name = Top.name /\ Tried(f)
  BY VersionTried
<1>3. frames' \in Seq(FrameTypes)
  BY <1>1, <1>2, StackShape, ToppedAt
<1>4. Waiting' /\ Calls'
  BY <1>1, <1>2, TopKeeps
<1>5. Types'
  BY <1>1, <1>3, KeptTypes DEF StackInv
<1> QED BY <1>1, <1>4, <1>5, KeptAnswers DEF StackInv, SolverInv

LEMMA MergeKeeps ==
  ASSUME SolverAssumption, SolverInv, NEW k \in Names, MergeProvides(k)
  PROVE  SolverInv'
<1>1. /\ UNCHANGED <<problem, pList, cand, prov, frames, pc>> /\ pc = "merge"
      /\ \E drop \in SUBSET Names : avail' = [m \in Names |-> IF m \in drop THEN {} ELSE avail[m]]
  <2> DEFINE names == NamesIn(Providers(Found, k))
  <2>1. names \subseteq Names
    <3>1. Found \subseteq Pkgs
      BY RepoOrder DEF SolverInv, StackInv, Types, Found
    <3> QED BY <3>1 DEF NamesIn, Providers, SolverAssumption
  <2>2. /\ UNCHANGED <<problem, pList, cand, prov, frames, pc>> /\ pc = "merge"
        /\ \/ avail' = [m \in Names |-> IF m \in names THEN {} ELSE avail[m]]
           \/ \E keep \in names :
                avail' = [m \in Names |-> IF m \in names \ {keep} THEN {} ELSE avail[m]]
    BY DEF MergeProvides
  <2> HIDE DEF names
  <2>3. names \in SUBSET Names /\ \A keep \in names : names \ {keep} \in SUBSET Names
    BY <2>1
  <2> QED BY <2>2, <2>3
<1>2. avail' \in [Names -> SUBSET Pkgs] /\ \A n \in Names : avail'[n] \in {{}, avail[n]}
  <2>1. avail \in [Names -> SUBSET Pkgs]
    BY DEF SolverInv, StackInv, Types, MapTypes
  <2> QED BY <1>1, <2>1
<1>3. frames' \in Seq(FrameTypes) /\ Waiting' /\ Calls'
  BY <1>1, KeptFrames DEF SolverInv
<1>4. MapTypes'
  BY <1>1, <1>2, SameProblem DEF SolverInv, StackInv, Types, MapTypes
<1>5. Installing'
  <2>1. \A n \in Names : avail'[n] # {} => avail'[n] = avail[n]
    BY <1>2
  <2> QED BY <1>1, <2>1, SameProblem DEF SolverInv, StackInv, Types, Installing
<1> QED BY <1>1, <1>3, <1>4, <1>5, KeptAnswers DEF SolverInv, StackInv, Types

\* A step that changes neither the calls nor the maps.
LEMMA StillKeeps ==
  ASSUME SolverInv, UNCHANGED <<problem, avail, cand, prov, frames>>, pList' \subseteq Names,
         pc' # "analyse"
  PROVE  SolverInv'
<1>1. frames' \in Seq(FrameTypes) /\ Waiting' /\ Calls'
  BY KeptFrames DEF SolverInv
<1>2. MapTypes'
  BY SameProblem DEF SolverInv, StackInv, Types, MapTypes
<1>3. Installing'
  BY SameProblem DEF SolverInv, StackInv, Types, Installing
<1> QED BY <1>1, <1>2, <1>3, KeptAnswers DEF SolverInv, StackInv, Types

LEMMA CallEnds ==
  ASSUME NEW n, NEW S, Call(n, S), pc = "solve"
  PROVE  pc' # "analyse"
BY DEF Call, DepDone, GiveUp

LEMMA KindOf ==
  ASSUME SolverAssumption, problem \in Problems
  PROVE  /\ problem.kind \in {"install", "upgrade"}
         /\ Outer = 0 <=> problem.kind = "install"
         /\ problem.kind = "install" => Callable = Explained
         /\ problem.kind = "upgrade" => Callable = Excused
BY DEF SolverAssumption, Outer, Callable

LEMMA PickKeeps == ASSUME SolverAssumption, SolverInv, Pick PROVE SolverInv'
<1>1. PICK n \in pList : pList' = pList \ {n} /\ Call(n, avail)
  BY DEF Pick
<1>2. /\ pc = "solve" /\ frames = <<>> /\ Outer = 0 /\ UNCHANGED <<problem, avail, merge, cand, prov>>
      /\ StackInv /\ problem \in Problems /\ n \in Names
  BY DEF Pick, SolverInv, StackInv, Types, MapTypes
<1>3. problem.kind = "install" /\ Callable = Explained
  BY <1>2, KindOf
<1>4. /\ avail \in [Names -> SUBSET Pkgs] /\ avail[n] \subseteq Versions(n)
      /\ avail[n] # {} => n \in Callable
      /\ problem.kind = "install" => avail[n] \subseteq OfName(Repo, n)
  BY <1>2, <1>3 DEF StackInv, Types, MapTypes, Installing
<1>5. frames' \in Seq(FrameTypes) /\ Waiting' /\ Calls'
  BY <1>1, <1>2, <1>4, CallKeeps
<1>6. pc' # "analyse" /\ pList' \subseteq Names
  BY <1>1, <1>2, CallEnds DEF StackInv, Types, MapTypes
<1>7. MapTypes'
  BY <1>2, <1>6, SameProblem DEF StackInv, Types, MapTypes
<1>8. Installing'
  BY <1>2, <1>6, SameProblem DEF StackInv, Types, Installing
<1> QED BY <1>2, <1>5, <1>7, <1>8, KeptAnswers DEF SolverInv, StackInv, Types

LEMMA NoVersionKeeps == ASSUME SolverAssumption, SolverInv, NoVersion PROVE SolverInv'
<1>1. /\ Len(frames) > Outer /\ pc = "solve" /\ UNCHANGED <<problem, avail, merge, pList, cand, prov>>
      /\ StackInv
  BY DEF NoVersion, Resolving, SolverInv
<1>2. frames' \in Seq(FrameTypes) /\ Waiting' /\ Calls' /\ pc' # "analyse"
  <2>1. CASE GiveUp
    BY <1>1, <2>1, NoFrames DEF GiveUp
  <2>2. CASE Len(frames) # Outer + 1 /\ Popped(GivenUp(frames[2])) /\ UNCHANGED pc
    <3>1. Len(frames) >= 2 /\ 2 \in DOMAIN frames /\ Len(frames) - 1 > Outer /\ frames[2] \in FrameTypes
      BY <1>1, <2>2, StackShape
    <3> DEFINE f == GivenUp(frames[2])
    <3>2. frames[2].deps # <<>> /\ Fine(frames[2], 2 <= Len(frames) - Outer)
      BY <1>1, <3>1 DEF StackInv, Waiting, Calls
    <3>3. 2 <= Len(frames) - Outer
      BY <1>1, <3>1, StackShape
    <3>4. Tried(frames[2])
      BY <3>2, <3>3 DEF Fine
    <3>5. f \in FrameTypes /\ f.name = frames[2].name /\ Tried(f)
      BY <3>1, <3>2, <3>4, Settle
    <3>6. Popped(f)
      BY <2>2
    <3> HIDE DEF f
    <3>7. frames' \in Seq(FrameTypes)
      BY <1>1, <3>1, <3>5, <3>6, StackShape, PoppedAt
    <3>8. Waiting' /\ Calls'
      BY <1>1, <3>1, <3>5, <3>6, PopKeeps
    <3> QED BY <1>1, <2>2, <3>7, <3>8
  <2> QED BY <2>1, <2>2 DEF NoVersion, Popped, GivenUp
<1>3. Types'
  BY <1>1, <1>2, KeptTypes DEF StackInv
<1> QED BY <1>1, <1>2, <1>3, KeptAnswers DEF SolverInv, StackInv

LEMMA DependShape ==
  ASSUME SolverAssumption, StackInv, Depend
  PROVE  /\ frames # <<>> /\ pc = "solve" /\ Top \in FrameTypes /\ Top = frames[1]
         /\ frames[1].art # NoPkg /\ frames[1].deps # <<>> /\ Head(Top.deps) \in Names
         /\ Tried(Top) /\ Top.name \in Callable /\ Top.art \in Repo
         /\ Head(Top.deps) \in Range(Requires[Top.art])
<1>1. Len(frames) > Outer /\ Top.art # NoPkg /\ Top.deps # <<>> /\ pc = "solve"
  BY DEF Depend, Resolving
<1>2. frames # <<>> /\ Top \in FrameTypes /\ Top = frames[1]
  BY <1>1, StackShape, TopType
<1>3. Tried(Top) /\ Top.name \in Callable
  BY <1>1, <1>2, TopFine
<1>4. Top.deps \in Seq(Names)
  BY <1>2 DEF FrameTypes
<1>5. Head(Top.deps) \in Names /\ Head(Top.deps) \in Range(Top.deps)
  <2> DEFINE d == Top.deps
  <2>1. d \in Seq(Names) /\ d # <<>>
    BY <1>1, <1>4
  <2> HIDE DEF d
  <2>2. 1 \in DOMAIN d /\ Head(d) = d[1] /\ Head(d) \in Names
    BY <2>1
  <2>3. Head(d) \in Range(d)
    BY <2>2 DEF Range
  <2> QED BY <2>2, <2>3 DEF d
<1> QED BY <1>1, <1>2, <1>3, <1>5 DEF Tried

LEMMA SettledKeeps ==
  ASSUME SolverAssumption, SolverInv, DepDone, UNCHANGED <<problem, avail, pList, cand, prov>>,
         frames # <<>>, frames[1].deps # <<>>
  PROVE  SolverInv'
<1>1. StackInv
  BY DEF SolverInv
<1>2. frames' \in Seq(FrameTypes) /\ Waiting' /\ Calls'
  BY <1>1, DoneKeeps
<1>3. Types'
  BY <1>1, <1>2, KeptTypes DEF DepDone, StackInv
<1> QED BY <1>2, <1>3, KeptAnswers DEF SolverInv, StackInv

LEMMA StuckKeeps == ASSUME SolverAssumption, SolverInv, DepStuck PROVE SolverInv'
<1> DEFINE f == GivenUp(Top)
<1>1. /\ StackInv /\ Depend /\ UNCHANGED <<problem, avail, pList, cand, prov, pc>>
      /\ Len(frames) > Outer
  BY DEF DepStuck, SolverInv, Depend, Resolving
<1>2. SetTop(f)
  BY DEF DepStuck, GivenUp
<1>3. frames # <<>> /\ Top \in FrameTypes /\ Top.deps # <<>> /\ Tried(Top)
  BY <1>1, DependShape
<1>4. f \in FrameTypes /\ f.name = Top.name /\ Tried(f)
  BY <1>3, Settle
<1> HIDE DEF f
<1>5. frames' \in Seq(FrameTypes) /\ Waiting' /\ Calls'
  BY <1>1, <1>2, <1>3, <1>4, StackShape, ToppedAt, TopKeeps
<1>6. Types'
  BY <1>1, <1>5, KeptTypes DEF StackInv
<1> QED BY <1>1, <1>5, <1>6, KeptAnswers DEF SolverInv, StackInv

\* The search for a require, and the names that it may be resolved by.
Searched(n) == IF avail[n] # {} THEN {} ELSE Search(n, Top.art)
Named(n, found) == LET other == NamesIn(found) \ {n} IN IF other = {} THEN {n} ELSE other

LEMMA SearchNames ==
  ASSUME SolverAssumption, StackInv, Depend, NEW n \in Names, n = Head(Top.deps),
         ~OnSystem(n), ~Stuck(n), ~IsProvided(n)
  PROVE  /\ Searched(n) \in SUBSET Repo
         /\ problem.kind = "install" => NamesIn(Searched(n)) \subseteq Explained
         /\ \A m \in Named(n, Searched(n)) :
              m \in Names /\ (Added(avail, Searched(n))[m] # {} => m \in Callable)
<1>1. /\ problem \in Problems /\ Top.art \in Repo /\ n \in Range(Requires[Top.art])
      /\ Repo \subseteq Pkgs
  BY DependShape, StackShape, RepoOrder
<1>2. Searched(n) \in SUBSET Repo /\ \A b \in Searched(n) : NameOf[b] # n => n \in Provides[b]
  BY DEF Searched, Search
<1>3. NamesIn(Searched(n)) \subseteq Names
  BY <1>1, <1>2 DEF NamesIn, SolverAssumption
<1>4. \A m \in Names : Added(avail, Searched(n))[m] = avail[m] \cup OfName(Searched(n), m)
  BY DEF Added
<1>5. ASSUME problem.kind = "install", NEW m \in NamesIn(Searched(n)) PROVE m \in Explained
  <2>1. PICK b \in Searched(n) : NameOf[b] = m
    BY DEF NamesIn
  <2>2. avail[n] = {} /\ Searched(n) = Search(n, Top.art)
    BY <2>1 DEF Searched
  <2>3. OfName(World, n) = {}
    BY <2>2 DEF Stuck
  <2>4. CASE m = n
    BY <1>3, <2>3, <2>4 DEF Explained
  <2>5. CASE m # n
    <3>1. n \in Provides[b] /\ b \in OfName(Repo, m)
      BY <1>2, <2>1, <2>5 DEF OfName
    <3>2. ASSUME NEW q \in Providers(World, n) PROVE <<Top.art, q, n>> \in Refuses
      <4>1. q \in World /\ n \in Provides[q]
        BY DEF Providers
      <4>2. q \in Providers(prov, n)
        BY <1>5, <4>1 DEF StackInv, Types, Installing, Providers
      <4> QED BY <4>1, <4>2 DEF IsProvided
    <3> QED BY <1>1, <1>3, <3>1, <3>2 DEF Explained
  <2> QED BY <2>4, <2>5
<1>6. ASSUME NEW m \in NamesIn(Searched(n)), m # n, problem.kind = "upgrade" PROVE m \in Excused
  <2>1. PICK b \in Searched(n) : NameOf[b] = m
    BY DEF NamesIn
  <2>2. b \in Versions(m) /\ n \in Provides[b]
    BY <1>2, <1>6, <2>1 DEF Versions
  <2> QED BY <1>3, <2>2 DEF Excused, Plain
<1>7. ASSUME problem.kind = "upgrade" PROVE n \in Excused
  <2>1. ASSUME n \in Installed PROVE RefusesOld(n)
    <3>1. \E w \in World : NameOf[w] = n
      BY <2>1 DEF Installed, NamesIn
    <3>2. Old(n) \in World /\ NameOf[Old(n)] = n
      BY <3>1 DEF Old
    <3>3. Old(n) \in OfName(World, n)
      BY <3>2 DEF OfName
    <3>4. ~Admit(Top.art, Old(n))
      BY <3>3 DEF OnSystem
    <3> QED BY <1>1, <3>4 DEF RefusesOld
  <2> QED BY <2>1 DEF Excused
<1>8. ASSUME problem.kind = "install", avail[n] # {} PROVE n \in Explained
  BY <1>8 DEF StackInv, Types, Installing
<1>9. ASSUME problem.kind = "install", NamesIn(Searched(n)) \ {n} = {}, Added(avail, Searched(n))[n] # {}
      PROVE  n \in Explained
  <2>1. avail[n] # {} \/ OfName(Searched(n), n) # {}
    BY <1>4, <1>9
  <2>2. OfName(Searched(n), n) # {} => n \in NamesIn(Searched(n))
    BY DEF OfName, NamesIn
  <2> QED BY <1>5, <1>8, <1>9, <2>1, <2>2
<1>10. ASSUME NEW m \in Named(n, Searched(n)), Added(avail, Searched(n))[m] # {}
       PROVE  m \in Callable
  <2>1. CASE problem.kind = "install"
    <3>1. CASE NamesIn(Searched(n)) \ {n} = {}
      BY <1>1, <1>9, <1>10, <2>1, <3>1, KindOf DEF Named
    <3>2. CASE NamesIn(Searched(n)) \ {n} # {}
      BY <1>1, <1>5, <1>10, <2>1, <3>2, KindOf DEF Named
    <3> QED BY <3>1, <3>2
  <2>2. CASE problem.kind = "upgrade"
    <3>1. CASE m = n
      BY <1>1, <1>7, <2>2, <3>1, KindOf
    <3>2. CASE m # n
      BY <1>1, <1>6, <1>10, <2>2, <3>2, KindOf DEF Named
    <3> QED BY <3>1, <3>2
  <2> QED BY <1>1, <2>1, <2>2, KindOf
<1>11. \A m \in Named(n, Searched(n)) : m \in Names
  BY <1>3 DEF Named
<1> QED BY <1>2, <1>5, <1>10, <1>11

LEMMA ResolveKeeps == ASSUME SolverAssumption, SolverInv, DepResolve PROVE SolverInv'
<1> DEFINE n == Head(Top.deps)
<1>1. /\ StackInv /\ Depend /\ ~OnSystem(n) /\ ~Stuck(n) /\ ~IsProvided(n)
      /\ avail' = Added(avail, Searched(n)) /\ UNCHANGED <<problem, merge, pList, cand, prov>>
      /\ \E m \in Named(n, Searched(n)) : Call(m, avail')
  BY DEF DepResolve, SolverInv, Named, Searched
<1>2. /\ frames # <<>> /\ pc = "solve" /\ frames[1].art # NoPkg /\ frames[1].deps # <<>>
      /\ n \in Names /\ problem \in Problems /\ n = Head(Top.deps)
  BY <1>1, DependShape, StackShape
<1> HIDE DEF n
<1>3. PICK m \in Named(n, Searched(n)) : Call(m, avail')
  BY <1>1
<1>4. /\ Searched(n) \in SUBSET Repo
      /\ problem.kind = "install" => NamesIn(Searched(n)) \subseteq Explained
      /\ m \in Names /\ (avail'[m] # {} => m \in Callable)
  BY <1>1, <1>2, <1>3, SearchNames
<1>5. /\ avail' \in [Names -> SUBSET Pkgs] /\ avail'[m] \subseteq Versions(m)
      /\ problem.kind = "install" => avail'[m] \subseteq OfName(Repo, m)
  <2>1. Types
    BY <1>1 DEF StackInv
  <2>2. \A k \in Names : k \in DOMAIN avail'
    BY <1>1 DEF Added
  <2>3. problem.kind = "install" => avail'[m] = {} \/ avail'[m] \subseteq OfName(Repo, m)
    BY <1>1, <1>4, <2>1, AddedFits
  <2> QED BY <1>1, <1>4, <2>1, <2>3, AddedFits
<1>6. frames' \in Seq(FrameTypes) /\ Waiting' /\ Calls'
  <2> DEFINE S == avail'
  <2>1. Call(m, S) /\ S \in [Names -> SUBSET Pkgs] /\ S[m] \subseteq Versions(m)
        /\ (S[m] # {} => m \in Callable)
        /\ (problem.kind = "install" => S[m] \subseteq OfName(Repo, m))
    BY <1>3, <1>4, <1>5
  <2> HIDE DEF S
  <2> QED BY <1>1, <1>2, <1>4, <2>1, CallKeeps
<1>7. pc' # "analyse"
  BY <1>2, <1>3, CallEnds
<1>8. Types'
  BY <1>1, <1>4, <1>6, <1>7, GrownTypes DEF StackInv
<1> QED BY <1>1, <1>6, <1>8, KeptAnswers DEF SolverInv, StackInv

LEMMA ChosenKeeps ==
  ASSUME SolverAssumption, SolverInv, UNCHANGED <<problem, avail, pList>>, prov \subseteq prov',
         NEW n \in Names, NEW a \in Pkgs, Fit(n, a), cand' = [cand EXCEPT ![n] = a],
         pc' # "analyse", frames' \in Seq(FrameTypes), Waiting', Calls'
  PROVE  SolverInv'
<1>1. /\ cand \in [Names -> Pkgs \cup {NoPkg}] /\ cand' \in [Names -> Pkgs \cup {NoPkg}]
      /\ StackInv /\ Types
  BY DEF SolverInv, StackInv, Types, MapTypes
<1>2. Answers'
  BY <1>1, NewAnswer DEF SolverInv
<1>3. MapTypes'
  BY <1>1, SameProblem DEF Types, MapTypes
<1>4. Installing'
  BY <1>1, SameProblem DEF Types, Installing
<1> QED BY <1>1, <1>2, <1>3, <1>4 DEF SolverInv, StackInv, Types

LEMMA ResolvedKeeps == ASSUME SolverAssumption, SolverInv, Resolved PROVE SolverInv'
<1> DEFINE first == Best(Valid(Top))
<1>1. /\ StackInv /\ Len(frames) > Outer /\ pc = "solve" /\ Top.art # NoPkg /\ Top.deps = <<>>
      /\ UNCHANGED <<problem, avail, merge, pList, pc>> /\ cand' = [cand EXCEPT ![Top.name] = first]
      /\ prov' = IF Provides[first] # {} THEN prov \cup {first} ELSE prov
      /\ IF Len(frames) = 1 THEN frames' = <<>> ELSE Popped(Settled(frames[2]))
  BY DEF Resolved, Resolving, SolverInv, Popped, Settled
<1>2. /\ Top \in FrameTypes /\ Tried(Top) /\ Top.name \in Callable /\ Top.name \in Names
      /\ problem \in Problems
  <2>1. frames # <<>>
    BY <1>1, StackShape
  <2>2. Top \in FrameTypes /\ Tried(Top) /\ Top.name \in Callable
    BY <1>1, <2>1, TopType, TopFine
  <2> QED BY <1>1, <2>2, StackShape DEF FrameTypes
<1>3. first \in Top.all \ Top.todo /\ first \in Repo /\ Rank[first] \notin Top.banned
  BY <1>1, <1>2, FirstTried
<1>4. first \in Pkgs
  BY <1>2, <1>3, RepoOrder
<1>5. Fit(Top.name, first)
  <2>1. CASE problem.kind = "install"
    BY <1>2, <1>3, <2>1, KindOf DEF Fit, Tried
  <2>2. CASE problem.kind = "upgrade"
    BY <1>2, <2>2, KindOf DEF Fit
  <2> QED BY <1>2, <2>1, <2>2, KindOf
<1>6. frames' \in Seq(FrameTypes) /\ Waiting' /\ Calls'
  <2>1. CASE Len(frames) = 1
    BY <1>1, <2>1, NoFrames
  <2>2. CASE Len(frames) # 1
    <3>1. Len(frames) >= 2 /\ 2 \in DOMAIN frames /\ frames[2] \in FrameTypes
      BY <1>1, <2>2, StackShape
    <3> DEFINE f == Settled(frames[2])
    <3>2. frames[2].deps # <<>> /\ Fine(frames[2], 2 <= Len(frames) - Outer)
      BY <1>1, <3>1 DEF StackInv, Waiting, Calls
    <3>3. 2 <= Len(frames) - Outer <=> Len(frames) - 1 > Outer
      BY <1>1, <3>1, StackShape
    <3>4. /\ f \in FrameTypes /\ f.name = frames[2].name /\ f.all = frames[2].all
          /\ f.todo = frames[2].todo /\ f.banned = frames[2].banned /\ f.art = frames[2].art
          /\ (Tried(frames[2]) => Tried(f))
      BY <3>1, <3>2, Settle
    <3>5. Popped(f)
      BY <1>1, <2>2
    <3> HIDE DEF f
    <3>6. IF Len(frames) - 1 > Outer THEN Tried(f) ELSE Outermost(f)
      BY <3>2, <3>3, <3>4 DEF Fine, Outermost
    <3>7. frames' \in Seq(FrameTypes)
      BY <1>1, <3>1, <3>4, <3>5, StackShape, PoppedAt
    <3>8. Waiting' /\ Calls'
      BY <1>1, <3>1, <3>4, <3>5, <3>6, PopKeeps
    <3> QED BY <3>7, <3>8
  <2> QED BY <2>1, <2>2
<1> HIDE DEF first
<1> QED BY <1>1, <1>2, <1>4, <1>5, <1>6, ChosenKeeps

-----------------------------------------------------------------------------
(* The steps of an upgrade.                                                *)

LEMMA AnalyseKeeps ==
  ASSUME SolverAssumption, SolverInv, NEW n \in Names, Analyse(n)
  PROVE  SolverInv'
<1>1. /\ pc = "analyse" /\ UNCHANGED <<problem, merge, pList, cand, prov, frames, pc>>
      /\ avail' \in {[avail EXCEPT ![n] = Versions(n)], avail}
      /\ StackInv /\ problem \in Problems
  BY DEF Analyse, SolverInv, StackInv, Types
<1>2. frames' \in Seq(FrameTypes) /\ Waiting' /\ Calls'
  BY <1>1, KeptFrames
<1>3. Versions(n) \subseteq Pkgs
  BY <1>1, RepoOrder DEF Versions
<1>4. avail \in [Names -> SUBSET Pkgs] /\ \A m \in Names : avail[m] \subseteq Versions(m)
  BY <1>1 DEF StackInv, Types, MapTypes
<1>5. avail' \in [Names -> SUBSET Pkgs] /\ \A m \in Names : avail'[m] \subseteq Versions(m)
  <2>1. CASE avail' = avail
    BY <1>4, <2>1
  <2>2. CASE avail' = [avail EXCEPT ![n] = Versions(n)]
    <3>1. avail' \in [Names -> SUBSET Pkgs]
      BY <1>3, <1>4, <2>2
    <3>2. \A m \in Names : avail'[m] \in {avail[m], Versions(m)}
      BY <1>4, <2>2
    <3> QED BY <1>4, <3>1, <3>2
  <2> QED BY <1>1, <2>1, <2>2
<1>6. MapTypes'
  BY <1>1, <1>5, SameProblem DEF StackInv, Types, MapTypes
<1>7. Installing'
  BY <1>1, SameProblem DEF StackInv, Types, Installing
<1> QED BY <1>1, <1>2, <1>6, <1>7, KeptAnswers DEF SolverInv, StackInv, Types

LEMMA AnalysedKeeps == ASSUME SolverAssumption, SolverInv, Analysed PROVE SolverInv'
<1>1. UNCHANGED <<problem, avail, cand, prov, frames>> /\ pc' # "analyse"
  BY DEF Analysed
<1>2. ASSUME NEW n \in Names, NEW a \in avail[n] PROVE NameOf[a] \in Names
  BY DEF SolverAssumption, SolverInv, StackInv, Types, MapTypes
<1>3. pList' \subseteq Names
  BY <1>2 DEF Analysed
<1> QED BY <1>1, <1>3, StillKeeps

LEMMA CheckKeeps == ASSUME SolverAssumption, SolverInv, Check PROVE SolverInv'
<1>1. PICK n \in pList \ checked :
        frames' = IF cand[n] = NoPkg THEN <<Frame(n, avail)>> ELSE <<>>
  BY DEF Check
<1>2. /\ StackInv /\ frames = <<>> /\ Outer = 1 /\ n \in Names
      /\ UNCHANGED <<problem, avail, merge, pList, cand, prov, pc>>
      /\ avail \in [Names -> SUBSET Pkgs] /\ avail[n] \subseteq Versions(n)
  BY DEF Check, SolverInv, StackInv, Types, MapTypes
<1>3. frames' \in Seq(FrameTypes) /\ Waiting' /\ Calls'
  <2>1. CASE cand[n] # NoPkg
    BY <1>1, <2>1, NoFrames
  <2>2. CASE cand[n] = NoPkg
    <3> DEFINE f == Frame(n, avail)
    <3>1. /\ f \in FrameTypes /\ f.name = n /\ f.all = avail[n] /\ f.todo = avail[n] /\ f.art = NoPkg
      <4>1. avail[n] \subseteq Repo
        BY <1>2 DEF Versions
      <4>2. problem.kind # "install"
        BY <1>2 DEF Outer
      <4>3. n \in Names /\ avail \in [Names -> SUBSET Pkgs]
        BY <1>2
      <4> QED BY <4>1, <4>2, <4>3, FrameStart
    <3>2. Pushed(f)
      BY <1>1, <1>2, <2>2 DEF Pushed
    <3> HIDE DEF f
    <3>3. Fine(f, Len(frames) >= Outer)
      BY <1>2, <3>1 DEF Fine, Outermost
    <3>4. frames' \in Seq(FrameTypes)
      BY <1>2, <3>1, <3>2, StackShape, PushedAt
    <3>5. Waiting' /\ Calls'
      BY <1>2, <3>1, <3>2, <3>3, PushKeeps
    <3> QED BY <3>4, <3>5
  <2> QED BY <2>1, <2>2
<1>4. Types'
  BY <1>2, <1>3, KeptTypes DEF StackInv
<1> QED BY <1>2, <1>3, <1>4, KeptAnswers DEF SolverInv, StackInv

\* The outer call is in place.
LEMMA UpShape ==
  ASSUME SolverAssumption, SolverInv, Upgrading
  PROVE  /\ StackInv /\ pc = "solve" /\ Outer = 1 /\ Len(frames) = 1 /\ frames # <<>>
         /\ Top \in FrameTypes /\ Top = frames[1] /\ Top.name \in Names /\ Outermost(Top)
         /\ problem \in Problems /\ problem.kind = "upgrade"
         /\ Top.all \subseteq Repo /\ Top.todo \subseteq Top.all /\ Repo \subseteq Pkgs
<1>1. StackInv /\ pc = "solve" /\ Outer = 1 /\ Len(frames) = 1
  BY DEF Upgrading, SolverInv
<1>2. frames # <<>> /\ problem \in Problems
  BY <1>1, StackShape
<1>3. Top \in FrameTypes /\ Top = frames[1] /\ Outermost(Top)
  BY <1>1, <1>2, TopType, TopFine
<1>4. problem.kind = "upgrade"
  BY <1>1 DEF Outer
<1>5. Top.name \in Names
  BY <1>3 DEF FrameTypes
<1>6. Top.all \subseteq Repo /\ Top.todo \subseteq Top.all
  BY <1>3 DEF Outermost, Versions
<1> QED BY <1>1, <1>2, <1>3, <1>4, <1>5, <1>6, RepoOrder

LEMMA UpTopKeeps ==
  ASSUME SolverAssumption, SolverInv, Upgrading, NEW f \in FrameTypes, SetTop(f), f.name = Top.name,
         Outermost(f), UNCHANGED <<problem, avail, pList, cand, prov, pc>>
  PROVE  SolverInv'
<1>1. frames' \in Seq(FrameTypes)
  BY UpShape, StackShape, ToppedAt
<1>2. Waiting' /\ Calls'
  <2>1. Len(frames) = 1 /\ Outer = 1 /\ StackInv /\ frames # <<>>
    BY UpShape
  <2>2. ~(Len(frames) > Outer)
    BY <2>1
  <2> QED BY <2>1, <2>2, TopKeeps
<1>3. Types'
  BY <1>1, UpShape, KeptTypes DEF StackInv
<1> QED BY <1>2, <1>3, KeptAnswers DEF SolverInv, StackInv

\* An installed name that no provides touches and that is not refused is
\* compared by the versions of its own packages.
LEMMA OwnRank ==
  ASSUME SolverAssumption, problem \in Problems, NEW n \in Names, n \notin Excused
  PROVE  /\ Rank[Old(n)] \in Nat
         /\ \A a \in Versions(n) : NameOf[a] = n /\ RankAs(a, n) = Rank[a] /\ Rank[a] \in Nat
<1>1. n \in Installed /\ Plain(n)
  BY DEF Excused
<1>2. \E w \in World : NameOf[w] = n
  BY <1>1 DEF Installed, NamesIn
<1>3. Old(n) \in World /\ World \subseteq Pkgs
  BY <1>2 DEF Old, World, SolverAssumption
<1>4. Versions(n) \subseteq Pkgs
  BY RepoOrder DEF Versions
<1> QED BY <1>1, <1>3, <1>4 DEF Plain, RankAs, SolverAssumption

\* What TryUpgrade makes of the outer call.
LEMMA UpgradeTried ==
  ASSUME SolverAssumption, UpgradeAssumption, SolverInv, TryUpgrade
  PROVE  \E f \in FrameTypes : /\ SetTop(f) /\ f.name = Top.name /\ f.all = Top.all /\ Outermost(f)
                               /\ f.art # NoPkg => f.deps = Requires[f.art]
<1> DEFINE a == Best(Top.todo)
           r == RankAs(a, Top.name)
           i == Rank[Old(Top.name)]
           f1 == Passed(Top, a)
           f2 == Banned(Top, a, r)
           f3 == Taken(Top, a)
           f4 == [f3 EXCEPT !.equal = TRUE]
           f5 == [f2 EXCEPT !.todo = {}, !.equal = TRUE]
<1>1. /\ Upgrading /\ Top.art = NoPkg /\ Top.todo # {}
      /\ UNCHANGED <<problem, avail, merge, pList, cand, prov, pc>>
  BY DEF TryUpgrade
<1>2. a \in Top.todo /\ a \in Top.all /\ a \in Repo /\ a \in Pkgs
  BY <1>1, UpShape, BestFirst
<1>3. r \in Nat /\ Requires[a] \in Seq(Names)
  BY <1>2 DEF RankAs, SolverAssumption, UpgradeAssumption
<1>4. \/ SetTop(f1)
      \/ SetTop(f2)
      \/ SetTop(f3) /\ r \notin Top.banned /\ (r > i \/ problem.deep)
      \/ SetTop(f4) /\ r \notin Top.banned /\ r = i
      \/ SetTop(f5)
  <2>1. SetTop(IF r \in Top.banned THEN Rest(a)
               ELSE IF r > i THEN TryNewer(a)
               ELSE IF r = i THEN TrySame(a) ELSE TryOlder(a))
    BY DEF TryUpgrade
  <2>2. Rest(a) = f1 /\ Ban(a) = f2 /\ Take(a) = f3
    BY DEF Rest, Ban, Take, Passed, Banned, Taken
  <2>3. TryNewer(a) \in {f1, f2, f3}
    BY <2>2 DEF TryNewer
  <2>4. TrySame(a) \in {f4, f5}
    BY <2>2 DEF TrySame
  <2>5. TryOlder(a) = f2 \/ (TryOlder(a) = f3 /\ problem.deep)
    BY <2>2 DEF TryOlder
  <2> HIDE DEF a, r, i, f1, f2, f3, f4, f5
  <2> QED BY <2>1, <2>2, <2>3, <2>4, <2>5
<1>5. Top \in FrameTypes /\ Outermost(Top) /\ Top.todo \subseteq Top.all /\ Top.name \in Names
      /\ problem \in Problems
  BY <1>1, UpShape
<1>6. \A f \in {f1, f2, f3, f4, f5} :
        f \in FrameTypes /\ f.name = Top.name /\ f.all = Top.all /\ f.todo \subseteq Top.all
  <2> HIDE DEF a, r
  <2>1. f1 \in FrameTypes /\ f1.name = Top.name /\ f1.all = Top.all /\ f1.todo = Top.todo \ {a}
    BY <1>5 DEF FrameTypes, Passed
  <2>2. f2 \in FrameTypes /\ f2.name = Top.name /\ f2.all = Top.all /\ f2.todo = Top.todo \ {a}
    BY <1>3, <1>5 DEF FrameTypes, Passed, Banned
  <2>3. f3 \in FrameTypes /\ f3.name = Top.name /\ f3.all = Top.all /\ f3.todo = Top.todo \ {a}
    BY <1>2, <1>3, <1>5 DEF FrameTypes, Passed, Taken
  <2> HIDE DEF f1, f2, f3
  <2>4. f4 \in FrameTypes /\ f4.name = Top.name /\ f4.all = Top.all /\ f4.todo = Top.todo \ {a}
    BY <2>3 DEF FrameTypes
  <2>5. f5 \in FrameTypes /\ f5.name = Top.name /\ f5.all = Top.all /\ f5.todo = {}
    BY <2>2 DEF FrameTypes
  <2> HIDE DEF f4, f5
  <2> QED BY <1>5, <2>1, <2>2, <2>3, <2>4, <2>5
<1>7. /\ f1.art = NoPkg /\ f2.art = NoPkg /\ f5.art = NoPkg
      /\ f3.art = a /\ f3.banned = Top.banned /\ f4.art = a /\ f4.banned = Top.banned
      /\ f3.deps = Requires[a] /\ f4.deps = Requires[a]
  <2> HIDE DEF a, r
  <2> QED BY <1>1, <1>5 DEF FrameTypes, Passed, Banned, Taken
<1>8. \A f \in {f1, f2, f5} : Outermost(f)
  <2> HIDE DEF a, r, i, f1, f2, f3, f4, f5
  <2> QED BY <1>5, <1>6, <1>7 DEF Outermost
<1>9. ASSUME r \notin Top.banned, r > i \/ r = i \/ problem.deep PROVE Outermost(f3) /\ Outermost(f4)
  <2>1. ASSUME Top.name \notin Excused, ~problem.deep
        PROVE  Rank[a] = r /\ Rank[a] \notin Top.banned /\ Rank[a] >= i
    <3>1. a \in Versions(Top.name)
      BY <1>2, <1>5 DEF Outermost
    <3>2. i \in Nat /\ RankAs(a, Top.name) = Rank[a] /\ Rank[a] \in Nat
      BY <1>5, <2>1, <3>1, OwnRank
    <3>3. r = Rank[a]
      BY <3>2
    <3> HIDE DEF r, i, a
    <3> QED BY <1>9, <2>1, <3>2, <3>3
  <2>2. i = Rank[Old(Top.name)]
    OBVIOUS
  <2>3. Top.all \subseteq Versions(Top.name)
    BY <1>5 DEF Outermost
  <2> HIDE DEF a, r, i, f1, f2, f3, f4, f5
  <2> QED BY <1>2, <1>6, <1>7, <2>1, <2>2, <2>3 DEF Outermost
<1> HIDE DEF a, r, i, f1, f2, f3, f4, f5
<1>10. \E f \in {f1, f2, f3, f4, f5} : SetTop(f) /\ Outermost(f)
  BY <1>4, <1>8, <1>9
<1> QED BY <1>6, <1>7, <1>10

LEMMA TryUpgradeKeeps ==
  ASSUME SolverAssumption, UpgradeAssumption, SolverInv, TryUpgrade
  PROVE  SolverInv'
<1>1. Upgrading /\ UNCHANGED <<problem, avail, pList, cand, prov, pc>>
  BY DEF TryUpgrade
<1> QED BY <1>1, UpgradeTried, UpTopKeeps

\* The outer call ends.
LEMMA StayKeeps == ASSUME SolverAssumption, SolverInv, Stay PROVE SolverInv'
<1>1. UNCHANGED <<problem, avail, pList, cand, prov, pc>> /\ frames' = <<>>
  BY DEF Stay
<1>2. frames' \in Seq(FrameTypes) /\ Waiting' /\ Calls'
  BY <1>1, NoFrames
<1>3. Types'
  BY <1>1, <1>2, KeptTypes DEF SolverInv, StackInv
<1> QED BY <1>1, <1>2, <1>3, KeptAnswers DEF SolverInv, StackInv

\* What UpGiveUp makes of the outer call.
LEMMA UpgradeGivenUp ==
  ASSUME SolverAssumption, UpgradeAssumption, SolverInv, UpGiveUp
  PROVE  \E f \in FrameTypes : /\ SetTop(f) /\ f.name = Top.name /\ f.all = Top.all /\ Outermost(f)
                               /\ f.art = NoPkg
<1> DEFINE a == Top.art
           g == Banned(Top, a, RankAs(a, Top.name))
           h(f) == [f EXCEPT !.art = NoPkg, !.deps = <<>>]
<1>1. /\ Upgrading /\ Top.art # NoPkg /\ UNCHANGED <<problem, avail, pList, cand, prov, pc>>
      /\ SetTop(h(Top)) \/ SetTop(h(g))
  BY DEF UpGiveUp, UpDepend, Ban, Rest, Banned, Passed
<1>2. /\ Top \in FrameTypes /\ Outermost(Top) /\ Top.todo \subseteq Top.all /\ a \in Pkgs
  BY <1>1, UpShape DEF FrameTypes
<1>3. RankAs(a, Top.name) \in Nat
  BY <1>2 DEF RankAs, SolverAssumption, UpgradeAssumption
<1>4. g \in FrameTypes /\ g.name = Top.name /\ g.all = Top.all /\ g.todo = Top.todo \ {a}
  <2> HIDE DEF a
  <2> QED BY <1>2, <1>3 DEF FrameTypes, Passed, Banned
<1>5. <<>> \in Seq(Names)
  OBVIOUS
<1>6. ASSUME NEW f \in FrameTypes
      PROVE  /\ h(f) \in FrameTypes /\ h(f).name = f.name /\ h(f).all = f.all /\ h(f).todo = f.todo
             /\ h(f).art = NoPkg
  BY <1>5 DEF FrameTypes
<1> HIDE DEF g, h
<1>7. Outermost(h(Top)) /\ Outermost(h(g))
  <2>1. Outermost(h(Top))
    BY <1>2, <1>6 DEF Outermost
  <2>2. h(g).name = Top.name /\ h(g).all = Top.all /\ h(g).todo \subseteq Top.all /\ h(g).art = NoPkg
    BY <1>2, <1>4, <1>6
  <2> QED BY <1>2, <2>1, <2>2 DEF Outermost
<1>8. CASE SetTop(h(Top))
  BY <1>2, <1>6, <1>7, <1>8
<1>9. CASE SetTop(h(g))
  BY <1>4, <1>6, <1>7, <1>9
<1> QED BY <1>1, <1>8, <1>9

LEMMA UpGiveUpKeeps ==
  ASSUME SolverAssumption, UpgradeAssumption, SolverInv, UpGiveUp
  PROVE  SolverInv'
<1>1. Upgrading /\ UNCHANGED <<problem, avail, pList, cand, prov, pc>>
  BY DEF UpGiveUp, UpDepend
<1> QED BY <1>1, UpgradeGivenUp, UpTopKeeps

LEMMA UpDependShape ==
  ASSUME SolverAssumption, SolverInv, UpDepend
  PROVE  /\ StackInv /\ pc = "solve" /\ frames # <<>> /\ frames[1].art # NoPkg /\ frames[1].deps # <<>>
         /\ Head(Top.deps) \in Names /\ problem \in Problems /\ problem.kind = "upgrade"
         /\ Upgrading
<1>1. Upgrading /\ Top.art # NoPkg /\ Top.deps # <<>>
  BY DEF UpDepend
<1>2. /\ StackInv /\ pc = "solve" /\ frames # <<>> /\ Top \in FrameTypes /\ Top = frames[1]
      /\ problem \in Problems /\ problem.kind = "upgrade"
  BY <1>1, UpShape
<1>3. Top.deps \in Seq(Names)
  BY <1>2 DEF FrameTypes
<1>4. Head(Top.deps) \in Names
  <2> DEFINE d == Top.deps
  <2>1. d \in Seq(Names) /\ d # <<>>
    BY <1>1, <1>3
  <2> HIDE DEF d
  <2>2. Head(d) \in Names
    BY <2>1
  <2> QED BY <2>2 DEF d
<1> QED BY <1>1, <1>2, <1>4

LEMMA UpSettledKeeps == ASSUME SolverAssumption, SolverInv, UpSettled PROVE SolverInv'
<1>1. UpDepend /\ DepDone /\ UNCHANGED <<problem, avail, pList, cand, prov>>
  BY DEF UpSettled
<1> QED BY <1>1, UpDependShape, SettledKeeps

LEMMA UpResolveKeeps == ASSUME SolverAssumption, SolverInv, UpResolve PROVE SolverInv'
<1> DEFINE n == Head(Top.deps)
           found == Search(n, Top.art)
<1>1. /\ UpDepend /\ OfName(World, n) = {}
      /\ avail' = Added(avail, found) /\ UNCHANGED <<problem, pList, cand, prov>>
      /\ \E m \in Named(n, found) : Call(m, avail')
  BY DEF UpResolve, Named
<1>2. /\ StackInv /\ pc = "solve" /\ frames # <<>> /\ frames[1].art # NoPkg /\ frames[1].deps # <<>>
      /\ n \in Names /\ problem \in Problems /\ problem.kind = "upgrade" /\ Types
  BY <1>1, UpDependShape DEF StackInv
<1>3. PICK m \in Named(n, found) : Call(m, avail')
  BY <1>1
<1>4. found \in SUBSET Repo /\ \A b \in found : NameOf[b] # n => n \in Provides[b]
  BY DEF Search
<1>5. m \in Names /\ m \in Excused
  <2>1. CASE m = n
    <3>1. n \notin Installed
      BY <1>1 DEF OfName, Installed, NamesIn
    <3> QED BY <1>2, <2>1, <3>1 DEF Excused
  <2>2. CASE m # n
    <3>1. PICK b \in found : NameOf[b] = m
      BY <1>3, <2>2 DEF Named, NamesIn
    <3>2. b \in Versions(m) /\ n \in Provides[b] /\ b \in Pkgs
      BY <1>2, <1>4, <2>2, <3>1, RepoOrder DEF Versions
    <3>3. m \in Names
      BY <3>1, <3>2 DEF SolverAssumption
    <3> QED BY <3>2, <3>3 DEF Excused, Plain
  <2> QED BY <2>1, <2>2
<1> HIDE DEF n, found
<1>6. problem.kind # "install" /\ Callable = Excused
  BY <1>2, KindOf
<1>7. avail' \in [Names -> SUBSET Pkgs] /\ avail'[m] \subseteq Versions(m)
  BY <1>1, <1>2, <1>4, <1>5, <1>6, AddedFits
<1>8. frames' \in Seq(FrameTypes) /\ Waiting' /\ Calls'
  <2> DEFINE S == avail'
  <2>1. Call(m, S) /\ S \in [Names -> SUBSET Pkgs] /\ S[m] \subseteq Versions(m) /\ m \in Callable
    BY <1>3, <1>5, <1>6, <1>7
  <2> HIDE DEF S
  <2> QED BY <1>1, <1>2, <1>5, <1>6, <2>1, CallKeeps
<1>9. pc' # "analyse"
  BY <1>2, <1>3, CallEnds
<1>10. Types'
  BY <1>1, <1>2, <1>4, <1>6, <1>8, <1>9, GrownTypes
<1> QED BY <1>1, <1>8, <1>10, KeptAnswers DEF SolverInv, StackInv

LEMMA UpgradedKeeps == ASSUME SolverAssumption, SolverInv, Upgraded PROVE SolverInv'
<1> DEFINE first == Best(Valid(Top))
<1>1. /\ Upgrading /\ Top.art # NoPkg /\ UNCHANGED <<problem, avail, pList>> /\ frames' = <<>>
      /\ \/ /\ Valid(Top) # {} /\ cand' = [cand EXCEPT ![Top.name] = first] /\ UNCHANGED pc
            /\ prov' = IF Provides[first] # {} THEN prov \cup {first} ELSE prov
         \/ pc' = "failed" /\ UNCHANGED <<cand, prov>>
  BY DEF Upgraded, Kept
<1>2. /\ StackInv /\ pc = "solve" /\ Top.name \in Names /\ Outermost(Top) /\ Top \in FrameTypes
      /\ problem \in Problems /\ problem.kind = "upgrade" /\ Top.all \subseteq Repo /\ Repo \subseteq Pkgs
  BY <1>1, UpShape
<1>3. frames' \in Seq(FrameTypes) /\ Waiting' /\ Calls'
  BY <1>1, NoFrames
<1>4. CASE pc' = "failed" /\ UNCHANGED <<cand, prov>>
  <2>1. Types'
    BY <1>1, <1>2, <1>3, <1>4, KeptTypes DEF StackInv
  <2> QED BY <1>1, <1>3, <1>4, <2>1, KeptAnswers DEF SolverInv, StackInv
<1>5. CASE /\ Valid(Top) # {} /\ cand' = [cand EXCEPT ![Top.name] = first] /\ UNCHANGED pc
           /\ prov' = IF Provides[first] # {} THEN prov \cup {first} ELSE prov
  <2>1. Valid(Top) \in SUBSET Repo
    BY <1>2 DEF Valid
  <2>2. first \in Valid(Top) /\ \A b \in Valid(Top) : b = first \/ Precedes(first, b)
    BY <1>2, <1>5, <2>1, BestFirst
  <2>3. ASSUME ~problem.deep, Top.name \notin Excused PROVE Rank[first] >= Rank[Old(Top.name)]
    <3>1. /\ Top.art \in Valid(Top) /\ Rank[Top.art] >= Rank[Old(Top.name)]
          /\ Top.all \subseteq Versions(Top.name)
      BY <1>1, <1>2, <2>3 DEF Outermost, Valid
    <3>2. \A b \in Valid(Top) : NameOf[b] = Top.name /\ Rank[b] \in Nat
      BY <1>2, <2>3, <3>1, OwnRank DEF Valid
    <3>3. Rank[Old(Top.name)] \in Nat
      BY <1>2, <2>3, OwnRank
    <3>4. first = Top.art \/ Precedes(first, Top.art)
      BY <2>2, <3>1
    <3>5. NameOrder[Top.name] \in Nat
      BY <1>2 DEF SolverAssumption
    <3> HIDE DEF first
    <3> QED BY <2>2, <3>1, <3>2, <3>3, <3>4, <3>5 DEF Precedes
  <2>4. Fit(Top.name, first) /\ first \in Pkgs
    BY <1>2, <2>1, <2>2, <2>3 DEF Fit
  <2> HIDE DEF first
  <2> QED BY <1>1, <1>2, <1>3, <1>5, <2>4, ChosenKeeps
<1> QED BY <1>1, <1>4, <1>5

-----------------------------------------------------------------------------
(* The invariant of the specification.                                     *)

LEMMA FoundNames ==
  ASSUME SolverAssumption, problem \in Problems
  PROVE  Found \in SUBSET Repo /\ NamesIn(Found) \subseteq Explained
<1>1. Found \in SUBSET Repo /\ Repo \subseteq Pkgs
  BY RepoOrder DEF Found
<1>2. ASSUME NEW a \in Found PROVE NameOf[a] \in Explained
  <2>1. NameOf[a] \in Names /\ a \in OfName(Repo, NameOf[a])
    BY <1>1 DEF SolverAssumption, OfName
  <2>2. CASE NameOf[a] \in Requested
    BY <2>1, <2>2 DEF Requested, Explained
  <2>3. CASE Provides[a] \cap Requested # {}
    BY <2>1, <2>3 DEF Requested, Explained
  <2> QED BY <2>2, <2>3 DEF Found
<1> QED BY <1>1, <1>2 DEF NamesIn

LEMMA InitHolds == ASSUME SolverAssumption, UpgradeInit PROVE SolverInv
<1>1. /\ problem \in Problems /\ frames = <<>> /\ pList = {} /\ cand = [n \in Names |-> NoPkg]
      /\ avail = Added([n \in Names |-> {}], Found) /\ prov = {p \in World : Provides[p] # {}}
      /\ problem.kind = "install" => pc # "analyse"
  BY DEF UpgradeInit, Init
<1>2. /\ Found \in SUBSET Repo /\ Found \in SUBSET Pkgs /\ NamesIn(Found) \subseteq Explained
  BY <1>1, FoundNames, RepoOrder
<1>3. \A n \in Names : avail[n] = OfName(Found, n)
  BY <1>1 DEF Added
<1>4. avail \in [Names -> SUBSET Pkgs]
  <2>1. avail = [n \in Names |-> {} \cup OfName(Found, n)]
    BY <1>1 DEF Added
  <2> QED BY <1>2, <2>1 DEF OfName
<1>5. \A n \in Names : avail[n] \subseteq Versions(n) /\ avail[n] \subseteq OfName(Repo, n)
  BY <1>2, <1>3 DEF OfName, Versions
<1>6. ASSUME NEW n \in Names, avail[n] # {} PROVE n \in Explained
  BY <1>2, <1>3, <1>6 DEF OfName, NamesIn
<1>7. MapTypes
  BY <1>1, <1>4, <1>5 DEF MapTypes
<1>8. Installing
  BY <1>1, <1>5, <1>6 DEF Installing
<1>9. Waiting /\ Calls /\ frames \in Seq(FrameTypes)
  BY <1>1 DEF Waiting, Calls
<1>10. Answers
  BY <1>1 DEF Answers
<1> QED BY <1>1, <1>7, <1>8, <1>9, <1>10 DEF SolverInv, StackInv, Types

LEMMA NextKeeps ==
  ASSUME SolverAssumption, UpgradeAssumption, SolverInv, [UpgradeNext]_upgradeVars
  PROVE  SolverInv'
<1>1. CASE Next
  <2>1. CASE \E n \in Names : MergeProvides(n)
    BY <2>1, MergeKeeps
  <2>2. CASE Merged
    <3>1. pList' \subseteq Names /\ pc' # "analyse" /\ UNCHANGED <<problem, avail, cand, prov, frames>>
      BY <2>2 DEF Merged
    <3> QED BY <3>1, StillKeeps
  <2>3. CASE Pick
    BY <2>3, PickKeeps
  <2>4. CASE TryVersion
    BY <2>4, TryVersionKeeps
  <2>5. CASE NoVersion
    BY <2>5, NoVersionKeeps
  <2>6. CASE DepSettled
    <3>1. Depend /\ DepDone /\ UNCHANGED <<problem, avail, pList, cand, prov>> /\ StackInv
      BY <2>6 DEF DepSettled, SolverInv
    <3> QED BY <3>1, DependShape, SettledKeeps
  <2>7. CASE DepStuck
    BY <2>7, StuckKeeps
  <2>8. CASE DepResolve
    BY <2>8, ResolveKeeps
  <2>9. CASE Resolved
    BY <2>9, ResolvedKeeps
  <2>10. CASE Done
    <3>1. pList' \subseteq Names /\ pc' # "analyse" /\ UNCHANGED <<problem, avail, cand, prov, frames>>
      BY <2>10 DEF Done, SolverInv, StackInv, Types, MapTypes
    <3> QED BY <3>1, StillKeeps
  <2> QED BY <1>1, <2>1, <2>2, <2>3, <2>4, <2>5, <2>6, <2>7, <2>8, <2>9, <2>10 DEF Next
<1>2. CASE \E n \in Names : Analyse(n)
  BY <1>2, AnalyseKeeps
<1>3. CASE Analysed
  BY <1>3, AnalysedKeeps
<1>4. CASE Check
  BY <1>4, CheckKeeps
<1>5. CASE TryUpgrade
  BY <1>5, TryUpgradeKeeps
<1>6. CASE Stay
  BY <1>6, StayKeeps
<1>7. CASE UpSettled
  BY <1>7, UpSettledKeeps
<1>8. CASE UpGiveUp
  BY <1>8, UpGiveUpKeeps
<1>9. CASE UpResolve
  BY <1>9, UpResolveKeeps
<1>10. CASE Upgraded
  BY <1>10, UpgradedKeeps
<1>11. CASE UpgradeDone
  <2>1. pList' \subseteq Names /\ pc' # "analyse" /\ UNCHANGED <<problem, avail, cand, prov, frames>>
    BY <1>11 DEF UpgradeDone, SolverInv, StackInv, Types, MapTypes
  <2> QED BY <2>1, StillKeeps
<1>12. CASE UNCHANGED upgradeVars
  <2>1. UNCHANGED <<problem, avail, pList, cand, prov, frames, pc>> /\ StackInv /\ Types
    BY <1>12 DEF upgradeVars, vars, SolverInv, StackInv
  <2>2. frames' \in Seq(FrameTypes) /\ Waiting' /\ Calls'
    BY <2>1, KeptFrames
  <2>3. Types'
    BY <2>1, <2>2, KeptTypes
  <2> QED BY <2>1, <2>2, <2>3, KeptAnswers DEF SolverInv, StackInv
<1> QED BY <1>1, <1>2, <1>3, <1>4, <1>5, <1>6, <1>7, <1>8, <1>9, <1>10, <1>11, <1>12 DEF UpgradeNext

\* What the pending calls of the solver and its answers keep, in every
\* install and upgrade.
THEOREM SolverInvariant == UpgradeSpec => []SolverInv
<1>1. UpgradeInit => SolverInv
  BY SolverAssumption, InitHolds
<1>2. SolverInv /\ [UpgradeNext]_upgradeVars => SolverInv'
  BY SolverAssumption, UpgradeAssumption, NextKeeps
<1> QED BY <1>1, <1>2, PTL DEF UpgradeSpec

\* No package of an install's answer is in conflict with what is installed,
\* for all repositories and systems: the version kept was itself tried.
THEOREM HonoursConflictsCorrect == UpgradeSpec => []HonoursConflicts
<1>1. SolverInv => HonoursConflicts
  <2> SUFFICES ASSUME SolverInv, Installs, ~problem.noConflicts, NEW p \in Candidates
               PROVE  ~InConflict(p)
    BY DEF HonoursConflicts
  <2>1. PICK n \in Names : p = cand[n] /\ cand[n] # NoPkg
    BY DEF Candidates
  <2>2. p \in Repo /\ p \notin Conflicting
    BY <2>1 DEF SolverInv, Answers, Fit, Installs, OfName
  <2> QED BY <2>2 DEF Conflicting
<1> QED BY <1>1, SolverInvariant, PTL

\* An install answers an installed name only for a version that provides what
\* the system does not provide or what was refused of it.
THEOREM InstalledOnlyAsProviderCorrect == UpgradeSpec => []InstalledOnlyAsProvider
<1>1. SolverInv => InstalledOnlyAsProvider
  <2> SUFFICES ASSUME SolverInv, Installs, NEW p \in Candidates, OfName(World, NameOf[p]) # {}
               PROVE  \E b \in OfName(Repo, NameOf[p]) : \E n \in Provides[b] :
                        \/ Providers(World, n) = {}
                        \/ \E a \in Repo, q \in Providers(World, n) : <<a, q, n>> \in Refuses
    BY DEF InstalledOnlyAsProvider
  <2>1. PICK n \in Names : p = cand[n] /\ cand[n] # NoPkg
    BY DEF Candidates
  <2>2. NameOf[p] = n /\ n \in Explained
    BY <2>1 DEF SolverInv, Answers, Fit, Installs, OfName
  <2> QED BY <2>2 DEF Explained
<1> QED BY <1>1, SolverInvariant, PTL

\* Without --deep an upgrade does not go back to an older version by itself:
\* the version kept is not older than the one that was tried, and that one is
\* not older than the installed one.
THEOREM NoDowngradeCorrect == UpgradeSpec => []NoDowngrade
<1>1. SolverInv => NoDowngrade
  <2> SUFFICES ASSUME SolverInv, Answered, ~problem.deep, NEW n \in Installed \cap Chosen,
                      Plain(n), ~RefusesOld(n)
               PROVE  Rank[cand[n]] >= Rank[Old(n)]
    BY DEF NoDowngrade
  <2>1. n \in Names /\ cand[n] # NoPkg /\ problem.kind = "upgrade"
    BY DEF Chosen, Answered
  <2>2. n \notin Excused
    BY DEF Excused
  <2> QED BY <2>1, <2>2 DEF SolverInv, Answers, Fit
<1> QED BY <1>1, SolverInvariant, PTL

-----------------------------------------------------------------------------
(* The versions of a call: those of one that was there, or what is known of *)
(* its name when it starts.                                                *)

Descends ==
  /\ \A i \in DOMAIN frames' :
       \/ \E j \in DOMAIN frames : frames'[i].name = frames[j].name /\ frames'[i].all = frames[j].all
       \/ frames'[i].name \in Names /\ frames'[i].all = avail'[frames'[i].name]
  /\ frames # <<>> /\ frames' # <<>> => frames'[Len(frames')].name = frames[Len(frames)].name

LEMMA SameDescends == ASSUME UNCHANGED frames PROVE Descends
BY DEF Descends

LEMMA NoneDescends == ASSUME frames' = <<>> PROVE Descends
BY DEF Descends

LEMMA TopDescends ==
  ASSUME StackInv, frames # <<>>, NEW f \in FrameTypes, SetTop(f), f.name = Top.name, f.all = Top.all
  PROVE  Descends
<1>1. /\ DOMAIN frames' = 1 .. Len(frames) /\ frames'[1] = f /\ Len(frames') = Len(frames)
      /\ \A i \in 2 .. Len(frames) : frames'[i] = frames[i] /\ i \in DOMAIN frames
  BY StackShape, ToppedAt
<1>2. Top = frames[1] /\ 1 \in DOMAIN frames /\ Len(frames) \in Nat
  BY TopType, StackShape
<1>3. ASSUME NEW i \in DOMAIN frames'
      PROVE  \E j \in DOMAIN frames : frames'[i].name = frames[j].name /\ frames'[i].all = frames[j].all
  <2>1. CASE i = 1
    BY <1>1, <1>2, <2>1
  <2>2. CASE i # 1
    BY <1>1, <1>2, <2>2
  <2> QED BY <2>1, <2>2
<1>4. frames'[Len(frames')].name = frames[Len(frames)].name
  <2>1. CASE Len(frames) = 1
    BY <1>1, <1>2, <2>1
  <2>2. CASE Len(frames) # 1
    <3> DEFINE k == Len(frames)
    <3>1. k \in Nat /\ k > 0 /\ k # 1
      BY <2>2, StackShape
    <3>2. Len(frames') = k /\ \A i \in 2 .. k : frames'[i] = frames[i]
      BY <1>1
    <3> HIDE DEF k
    <3>3. k \in 2 .. k
      BY <3>1
    <3>4. frames'[k] = frames[k]
      BY <3>2, <3>3
    <3> QED BY <3>2, <3>4 DEF k
  <2> QED BY <2>1, <2>2
<1> QED BY <1>3, <1>4 DEF Descends

LEMMA PopDescends ==
  ASSUME StackInv, Len(frames) >= 2, NEW f \in FrameTypes, Popped(f),
         f.name = frames[2].name, f.all = frames[2].all
  PROVE  Descends
<1>1. /\ DOMAIN frames' = 1 .. Len(frames) - 1 /\ frames'[1] = f /\ Len(frames') = Len(frames) - 1
      /\ \A i \in 2 .. Len(frames) - 1 : frames'[i] = frames[i + 1] /\ i + 1 \in DOMAIN frames
  BY StackShape, PoppedAt
<1>2. Len(frames) \in Nat /\ 2 \in DOMAIN frames
  BY StackShape
<1>3. ASSUME NEW i \in DOMAIN frames'
      PROVE  \E j \in DOMAIN frames : frames'[i].name = frames[j].name /\ frames'[i].all = frames[j].all
  <2>1. CASE i = 1
    BY <1>1, <1>2, <2>1
  <2>2. CASE i # 1
    BY <1>1, <1>2, <2>2
  <2> QED BY <2>1, <2>2
<1>4. frames'[Len(frames')].name = frames[Len(frames)].name
  <2>1. CASE Len(frames) = 2
    BY <1>1, <1>2, <2>1
  <2>2. CASE Len(frames) # 2
    <3> DEFINE k == Len(frames)
    <3>1. k \in Nat /\ k >= 2 /\ k # 2
      BY <1>2, <2>2
    <3>2. /\ Len(frames') = k - 1 /\ frames[k] = frames[Len(frames)]
          /\ \A i \in 2 .. k - 1 : frames'[i] = frames[i + 1]
      BY <1>1
    <3> HIDE DEF k
    <3>3. k - 1 \in 2 .. k - 1 /\ k - 1 + 1 = k
      BY <3>1
    <3>4. frames'[k - 1] = frames[k]
      BY <3>2, <3>3
    <3> QED BY <3>2, <3>4
  <2> QED BY <2>1, <2>2
<1> QED BY <1>3, <1>4 DEF Descends

LEMMA PushDescends ==
  ASSUME StackInv, NEW f \in FrameTypes, Pushed(f), f.name \in Names, f.all = avail'[f.name]
  PROVE  Descends
<1>1. /\ DOMAIN frames' = 1 .. Len(frames) + 1 /\ frames'[1] = f /\ Len(frames') = Len(frames) + 1
      /\ \A i \in 2 .. Len(frames) + 1 : frames'[i] = frames[i - 1] /\ i - 1 \in DOMAIN frames
  BY StackShape, PushedAt
<1>2. Len(frames) \in Nat
  BY StackShape
<1>3. ASSUME NEW i \in DOMAIN frames', i # 1
      PROVE  \E j \in DOMAIN frames : frames'[i].name = frames[j].name /\ frames'[i].all = frames[j].all
  BY <1>1, <1>2, <1>3
<1>4. ASSUME frames # <<>> PROVE frames'[Len(frames')].name = frames[Len(frames)].name
  <2>1. Len(frames) + 1 \in 2 .. Len(frames) + 1 /\ Len(frames) + 1 - 1 = Len(frames)
    BY <1>2, <1>4, StackShape
  <2> QED BY <1>1, <2>1
<1> QED BY <1>1, <1>3, <1>4 DEF Descends

LEMMA DoneDescends ==
  ASSUME StackInv, DepDone, frames # <<>> => frames[1].deps # <<>>
  PROVE  Descends
<1>1. CASE frames = <<>>
  BY <1>1, NoneDescends DEF DepDone
<1>2. CASE frames # <<>>
  <2> DEFINE h == Settled(Top)
  <2>1. SetTop(h)
    BY <1>2 DEF DepDone, SetTop, Top, Settled
  <2>2. Top.deps # <<>> /\ Top \in FrameTypes
    BY <1>2, TopType
  <2>3. h \in FrameTypes /\ h.name = Top.name /\ h.all = Top.all
    BY <2>2, Settle
  <2> HIDE DEF h
  <2> QED BY <1>2, <2>1, <2>3, TopDescends
<1> QED BY <1>1, <1>2

LEMMA CallDescends ==
  ASSUME StackInv, NEW n \in Names, Call(n, avail'), avail' \in [Names -> SUBSET Pkgs],
         avail'[n] \subseteq Repo, problem.kind = "install" => avail'[n] \subseteq OfName(Repo, n),
         frames # <<>> => frames[1].deps # <<>>
  PROVE  Descends
<1> DEFINE S == avail'
           f == Frame(n, S)
<1>1. CASE DepDone
  BY <1>1, DoneDescends
<1>2. CASE GiveUp
  BY <1>2, NoneDescends DEF GiveUp
<1>3. CASE Pushed(f)
  <2>1. f \in FrameTypes /\ f.name = n /\ f.all = avail'[n]
    BY FrameStart
  <2> HIDE DEF f, S
  <2> QED BY <1>3, <2>1, PushDescends
<1>4. DepDone \/ GiveUp \/ Pushed(f)
  BY DEF Call, Pushed
<1> QED BY <1>1, <1>2, <1>3, <1>4

LEMMA NamedNames ==
  ASSUME SolverAssumption, problem \in Problems, NEW n \in Names, NEW found \in SUBSET Repo,
         NEW m \in Named(n, found)
  PROVE  m \in Names
<1>1. m = n \/ \E b \in found : m = NameOf[b]
  BY DEF Named, NamesIn
<1>2. \A b \in found : b \in Pkgs
  BY RepoOrder
<1> QED BY <1>1, <1>2 DEF SolverAssumption

LEMMA MapsAfter ==
  ASSUME SolverInv', UNCHANGED problem, NEW n \in Names
  PROVE  /\ avail' \in [Names -> SUBSET Pkgs] /\ avail'[n] \subseteq Repo
         /\ problem.kind = "install" => avail'[n] \subseteq OfName(Repo, n)
<1>1. MapTypes' /\ Installing'
  BY DEF SolverInv, StackInv, Types
<1>2. avail' \in [Names -> SUBSET Pkgs] /\ avail'[n] \subseteq Versions(n)
  BY <1>1, SameProblem DEF MapTypes
<1>3. problem.kind = "install" => avail'[n] = {} \/ avail'[n] \subseteq OfName(Repo, n)
  BY <1>1, SameProblem DEF Installing
<1> QED BY <1>2, <1>3 DEF Versions

LEMMA NextDescends ==
  ASSUME SolverAssumption, UpgradeAssumption, SolverInv, [UpgradeNext]_upgradeVars
  PROVE  Descends
<1>0. SolverInv' /\ StackInv /\ problem \in Problems
  BY NextKeeps, StackShape DEF SolverInv
<1>1. CASE Next
  <2>1. CASE (\E n \in Names : MergeProvides(n)) \/ Merged \/ Done
    BY <2>1, SameDescends DEF MergeProvides, Merged, Done
  <2>2. CASE Pick
    <3>1. PICK n \in pList : Call(n, avail)
      BY <2>2 DEF Pick
    <3>2. n \in Names /\ frames = <<>> /\ UNCHANGED <<problem, avail>>
      BY <1>0, <2>2 DEF Pick, StackInv, Types, MapTypes
    <3>3. Call(n, avail')
      BY <3>1, <3>2
    <3> QED BY <1>0, <3>2, <3>3, MapsAfter, CallDescends
  <2>3. CASE TryVersion
    BY <2>3, VersionTried, TopDescends
  <2>4. CASE NoVersion
    <3>1. GiveUp \/ (Len(frames) # Outer + 1 /\ Len(frames) > Outer /\ Popped(GivenUp(frames[2])))
      BY <2>4 DEF NoVersion, Popped, GivenUp, Resolving
    <3>2. CASE GiveUp
      BY <3>2, NoneDescends DEF GiveUp
    <3>3. CASE Len(frames) # Outer + 1 /\ Len(frames) > Outer /\ Popped(GivenUp(frames[2]))
      <4>1. Len(frames) >= 2 /\ 2 \in DOMAIN frames /\ frames[2] \in FrameTypes
        BY <1>0, <3>3, StackShape
      <4>2. frames[2].deps # <<>>
        BY <1>0, <4>1 DEF StackInv, Waiting
      <4> DEFINE f == GivenUp(frames[2])
      <4>3. f \in FrameTypes /\ f.name = frames[2].name /\ f.all = frames[2].all /\ Popped(f)
        BY <3>3, <4>1, <4>2, Settle
      <4> HIDE DEF f
      <4> QED BY <1>0, <4>1, <4>3, PopDescends
    <3> QED BY <3>1, <3>2, <3>3
  <2>5. CASE DepSettled
    <3>1. Depend /\ DepDone
      BY <2>5 DEF DepSettled
    <3> QED BY <1>0, <3>1, DependShape, DoneDescends
  <2>6. CASE DepStuck
    <3>1. Depend /\ SetTop(GivenUp(Top))
      BY <2>6 DEF DepStuck, GivenUp
    <3>2. frames # <<>> /\ Top \in FrameTypes /\ Top.deps # <<>>
      BY <1>0, <3>1, DependShape
    <3> DEFINE f == GivenUp(Top)
    <3>3. f \in FrameTypes /\ f.name = Top.name /\ f.all = Top.all /\ SetTop(f)
      BY <3>1, <3>2, Settle
    <3> HIDE DEF f
    <3> QED BY <1>0, <3>2, <3>3, TopDescends
  <2>7. CASE DepResolve
    <3> DEFINE n == Head(Top.deps)
    <3>1. Depend /\ UNCHANGED problem /\ \E m \in Named(n, Searched(n)) : Call(m, avail')
      BY <2>7 DEF DepResolve, Named, Searched
    <3>2. n \in Names /\ frames[1].deps # <<>> /\ Searched(n) \in SUBSET Repo
      BY <1>0, <3>1, DependShape DEF Searched, Search
    <3> HIDE DEF n
    <3>3. PICK m \in Named(n, Searched(n)) : Call(m, avail')
      BY <3>1
    <3>4. m \in Names
      BY <1>0, <3>2, <3>3, NamedNames
    <3> QED BY <1>0, <3>1, <3>2, <3>3, <3>4, MapsAfter, CallDescends
  <2>8. CASE Resolved
    <3>1. frames' = <<>> \/ (Len(frames) # 1 /\ Len(frames) > Outer /\ Popped(Settled(frames[2])))
      BY <2>8 DEF Resolved, Resolving, Popped, Settled
    <3>2. CASE frames' = <<>>
      BY <3>2, NoneDescends
    <3>3. CASE Len(frames) # 1 /\ Len(frames) > Outer /\ Popped(Settled(frames[2]))
      <4>1. Len(frames) >= 2 /\ 2 \in DOMAIN frames /\ frames[2] \in FrameTypes
        BY <1>0, <3>3, StackShape
      <4>2. frames[2].deps # <<>>
        BY <1>0, <4>1 DEF StackInv, Waiting
      <4> DEFINE f == Settled(frames[2])
      <4>3. f \in FrameTypes /\ f.name = frames[2].name /\ f.all = frames[2].all /\ Popped(f)
        BY <3>3, <4>1, <4>2, Settle
      <4> HIDE DEF f
      <4> QED BY <1>0, <4>1, <4>3, PopDescends
    <3> QED BY <3>1, <3>2, <3>3
  <2> QED BY <1>1, <2>1, <2>2, <2>3, <2>4, <2>5, <2>6, <2>7, <2>8 DEF Next
<1>2. CASE (\E n \in Names : Analyse(n)) \/ Analysed \/ UpgradeDone
  BY <1>2, SameDescends DEF Analyse, Analysed, UpgradeDone
<1>3. CASE Check
  <2>1. PICK n \in pList : frames' = IF cand[n] = NoPkg THEN <<Frame(n, avail)>> ELSE <<>>
    BY <1>3 DEF Check
  <2>2. n \in Names /\ frames = <<>> /\ UNCHANGED <<problem, avail>>
    BY <1>0, <1>3 DEF Check, StackInv, Types, MapTypes
  <2>3. CASE frames' = <<>>
    BY <2>3, NoneDescends
  <2>4. CASE frames' = <<Frame(n, avail)>>
    <3> DEFINE S == avail'
               f == Frame(n, S)
    <3>1. f \in FrameTypes /\ f.name = n /\ f.all = avail'[n]
      BY <1>0, <2>2, MapsAfter, FrameStart
    <3>2. Pushed(f)
      BY <2>2, <2>4 DEF Pushed
    <3> HIDE DEF f, S
    <3> QED BY <1>0, <2>2, <3>1, <3>2, PushDescends
  <2> QED BY <2>1, <2>3, <2>4
<1>4. CASE TryUpgrade
  <2>1. Upgrading
    BY <1>4 DEF TryUpgrade
  <2> QED BY <1>4, <2>1, UpgradeTried, UpShape, TopDescends
<1>5. CASE Stay \/ Upgraded
  BY <1>5, NoneDescends DEF Stay, Upgraded
<1>6. CASE UpSettled
  <2>1. UpDepend /\ DepDone
    BY <1>6 DEF UpSettled
  <2> QED BY <2>1, UpDependShape, DoneDescends
<1>7. CASE UpGiveUp
  <2>1. Upgrading
    BY <1>7 DEF UpGiveUp, UpDepend
  <2> QED BY <1>7, <2>1, UpgradeGivenUp, UpShape, TopDescends
<1>8. CASE UpResolve
  <2> DEFINE n == Head(Top.deps)
             found == Search(n, Top.art)
  <2>1. UpDepend /\ UNCHANGED problem /\ \E m \in Named(n, found) : Call(m, avail')
    BY <1>8 DEF UpResolve, Named
  <2>2. n \in Names /\ frames[1].deps # <<>> /\ found \in SUBSET Repo
    BY <2>1, UpDependShape DEF Search
  <2> HIDE DEF n, found
  <2>3. PICK m \in Named(n, found) : Call(m, avail')
    BY <2>1
  <2>4. m \in Names
    BY <1>0, <2>2, <2>3, NamedNames
  <2> QED BY <1>0, <2>1, <2>2, <2>3, <2>4, MapsAfter, CallDescends
<1>9. CASE UNCHANGED upgradeVars
  BY <1>9, SameDescends DEF upgradeVars, vars
<1> QED BY <1>1, <1>2, <1>3, <1>4, <1>5, <1>6, <1>7, <1>8, <1>9 DEF UpgradeNext

\* What becomes of the answers.
Answering ==
  \/ UNCHANGED cand
  \/ /\ frames # <<>> /\ Top.name \in Names /\ Top = frames[1] /\ 1 \in DOMAIN frames
     /\ \E first \in Top.all : first \in Repo /\ cand' = [cand EXCEPT ![Top.name] = first]

LEMMA NextAnswering ==
  ASSUME SolverAssumption, UpgradeAssumption, SolverInv, [UpgradeNext]_upgradeVars
  PROVE  Answering
<1>1. CASE Resolved
  <2> DEFINE first == Best(Valid(Top))
  <2>1. /\ StackInv /\ Len(frames) > Outer /\ Top.art # NoPkg /\ cand' = [cand EXCEPT ![Top.name] = first]
    BY <1>1 DEF Resolved, Resolving, SolverInv
  <2>2. frames # <<>> /\ problem \in Problems
    BY <2>1, StackShape
  <2>3. Top \in FrameTypes /\ Top = frames[1] /\ 1 \in DOMAIN frames /\ Tried(Top)
    BY <2>1, <2>2, TopType, TopFine
  <2>4. first \in Top.all /\ first \in Repo
    BY <2>1, <2>2, <2>3, FirstTried
  <2>5. Top.name \in Names
    BY <2>3 DEF FrameTypes
  <2> HIDE DEF first
  <2> QED BY <2>1, <2>2, <2>3, <2>4, <2>5 DEF Answering
<1>2. CASE Upgraded
  <2> DEFINE first == Best(Valid(Top))
  <2>1. Upgrading /\ (UNCHANGED cand \/ (Valid(Top) # {} /\ cand' = [cand EXCEPT ![Top.name] = first]))
    BY <1>2 DEF Upgraded, Kept
  <2>2. /\ frames # <<>> /\ problem \in Problems /\ Top = frames[1] /\ Top.name \in Names /\ StackInv
        /\ Top.all \subseteq Repo
    BY <2>1, UpShape
  <2>3. 1 \in DOMAIN frames
    BY <2>2, TopType
  <2>4. CASE Valid(Top) # {} /\ cand' = [cand EXCEPT ![Top.name] = first]
    <3>1. Valid(Top) \in SUBSET Repo
      BY <2>2 DEF Valid
    <3>2. first \in Valid(Top)
      BY <2>2, <2>4, <3>1, BestFirst
    <3> HIDE DEF first
    <3>3. first \in Top.all /\ first \in Repo
      BY <3>1, <3>2 DEF Valid
    <3> QED BY <2>2, <2>3, <2>4, <3>3 DEF Answering
  <2> QED BY <2>1, <2>4 DEF Answering
<1>3. ASSUME ~Resolved, ~Upgraded PROVE UNCHANGED cand
  BY <1>3 DEF UpgradeNext, Next, upgradeVars, vars, MergeProvides, Merged, Pick, TryVersion, NoVersion,
              DepSettled, DepStuck, DepResolve, Done, Analyse, Analysed, Check, TryUpgrade,
              Stay, UpSettled, UpGiveUp, UpResolve, UpgradeDone
<1> QED BY <1>1, <1>2, <1>3 DEF Answering

LEMMA SameProblemNext == ASSUME [UpgradeNext]_upgradeVars PROVE UNCHANGED problem
BY DEF UpgradeNext, Next, upgradeVars, vars, MergeProvides, Merged, Pick, TryVersion, NoVersion,
       DepSettled, DepStuck, DepResolve, Resolved, Done, Analyse, Analysed, Check, TryUpgrade,
       Stay, UpSettled, UpGiveUp, UpResolve, Upgraded, UpgradeDone

-----------------------------------------------------------------------------
(* Under which keys a package is found.                                    *)

\* Under an installed name there is also what provides it.
Keyed(n) == {a \in Repo : NameOf[a] = n \/ (n \in Installed /\ n \in Provides[a])}

KeyInv ==
  /\ \A n \in Names : avail[n] \subseteq Keyed(n)
  /\ \A i \in DOMAIN frames : frames[i].all \subseteq Keyed(frames[i].name)
  /\ \A n \in Names : cand[n] # NoPkg => cand[n] \in Keyed(n)

LEMMA SameKeys == ASSUME UNCHANGED problem PROVE \A n : Keyed(n)' = Keyed(n)
BY SameProblem DEF Keyed, Installed

LEMMA AddedKeys ==
  ASSUME NEW found \in SUBSET Repo, \A n \in Names : avail[n] \subseteq Keyed(n),
         avail' = Added(avail, found)
  PROVE  \A n \in Names : avail'[n] \subseteq Keyed(n)
BY DEF Added, OfName, Keyed

LEMMA AvailKeys ==
  ASSUME SolverAssumption, SolverInv, KeyInv, [UpgradeNext]_upgradeVars
  PROVE  \A n \in Names : avail'[n] \subseteq Keyed(n)
<1>0. /\ \A n \in Names : avail[n] \subseteq Keyed(n)
      /\ avail \in [Names -> SUBSET Pkgs]
  BY DEF KeyInv, SolverInv, StackInv, Types, MapTypes
<1>1. CASE \E n \in Names : MergeProvides(n)
  <2>1. \A m \in Names : avail'[m] = {} \/ avail'[m] = avail[m]
    BY <1>1 DEF MergeProvides
  <2> QED BY <1>0, <2>1
<1>2. CASE DepResolve
  <2>1. avail' = Added(avail, Searched(Head(Top.deps)))
    BY <1>2 DEF DepResolve, Searched
  <2>2. Searched(Head(Top.deps)) \in SUBSET Repo
    BY DEF Searched, Search
  <2> QED BY <1>0, <2>1, <2>2, AddedKeys
<1>3. CASE UpResolve
  <2>1. avail' = Added(avail, Search(Head(Top.deps), Top.art))
    BY <1>3 DEF UpResolve
  <2>2. Search(Head(Top.deps), Top.art) \in SUBSET Repo
    BY DEF Search
  <2> QED BY <1>0, <2>1, <2>2, AddedKeys
<1>4. CASE \E n \in Names : Analyse(n)
  <2>1. PICK n \in Names : n \in Installed /\ (avail' = avail \/ avail' = [avail EXCEPT ![n] = Versions(n)])
    BY <1>4 DEF Analyse
  <2>2. Versions(n) \subseteq Keyed(n)
    BY <2>1 DEF Versions, Keyed
  <2> QED BY <1>0, <2>1, <2>2
<1>5. ASSUME ~(\E n \in Names : MergeProvides(n)), ~DepResolve, ~UpResolve, ~(\E n \in Names : Analyse(n))
      PROVE  UNCHANGED avail
  BY <1>5 DEF UpgradeNext, Next, upgradeVars, vars, Merged, Pick, TryVersion, NoVersion,
              DepSettled, DepStuck, Resolved, Done, Analysed, Check, TryUpgrade,
              Stay, UpSettled, UpGiveUp, Upgraded, UpgradeDone
<1> QED BY <1>0, <1>1, <1>2, <1>3, <1>4, <1>5

LEMMA KeyNext ==
  ASSUME SolverAssumption, UpgradeAssumption, SolverInv, KeyInv, [UpgradeNext]_upgradeVars
  PROVE  KeyInv'
<1>1. (\A n : Keyed(n)' = Keyed(n)) /\ \A n \in Names : avail'[n] \subseteq Keyed(n)
  BY SameProblemNext, SameKeys, AvailKeys
<1>2. \A i \in DOMAIN frames' : frames'[i].all \subseteq Keyed(frames'[i].name)
  BY <1>1, NextDescends DEF Descends, KeyInv
<1>3. \A n \in Names : cand'[n] # NoPkg => cand'[n] \in Keyed(n)
  <2>1. CASE UNCHANGED cand
    BY <2>1 DEF KeyInv
  <2>2. CASE ~UNCHANGED cand
    <3>1. PICK first \in Top.all : cand' = [cand EXCEPT ![Top.name] = first]
      BY <2>2, NextAnswering DEF Answering
    <3>2. Top.all \subseteq Keyed(Top.name)
      BY <2>2, NextAnswering DEF Answering, KeyInv
    <3>3. cand \in [Names -> Pkgs \cup {NoPkg}]
      BY DEF SolverInv, StackInv, Types, MapTypes
    <3> QED BY <3>1, <3>2, <3>3 DEF KeyInv
  <2> QED BY <2>1, <2>2
<1> QED BY <1>1, <1>2, <1>3 DEF KeyInv

LEMMA KeyInit == ASSUME SolverAssumption, UpgradeInit PROVE KeyInv
<1>1. /\ problem \in Problems /\ frames = <<>> /\ cand = [n \in Names |-> NoPkg]
      /\ avail = Added([n \in Names |-> {}], Found)
  BY DEF UpgradeInit, Init
<1>2. \A n \in Names : avail[n] = OfName(Found, n)
  BY <1>1 DEF Added
<1>3. Found \in SUBSET Repo
  BY DEF Found
<1>4. \A n \in Names : avail[n] \subseteq Keyed(n)
  BY <1>2, <1>3 DEF OfName, Keyed
<1>5. DOMAIN frames = {}
  BY <1>1
<1> QED BY <1>1, <1>4, <1>5 DEF KeyInv

-----------------------------------------------------------------------------
(* The packs of the answer, for the names ns that are answered.            *)

LEMMA AnswerTypes ==
  ASSUME SolverAssumption, SolverInv, KeyInv, NEW ns \in SUBSET Chosen, NEW n \in ns
  PROVE  n \in Names /\ n \in Chosen /\ cand[n] \in Pkgs /\ cand[n] \in Keyed(n)
BY DEF Chosen, KeyInv, SolverInv, StackInv, Types, MapTypes

LEMMA FiniteInstalls ==
  ASSUME SolverAssumption, NEW ns \in SUBSET Chosen, NEW a
  PROVE  IsFiniteSet(InstallsOf(a, ns)) /\ Cardinality(InstallsOf(a, ns)) \in Nat
<1>1. InstallsOf(a, ns) \in SUBSET Names /\ IsFiniteSet(Names)
  BY DEF InstallsOf, Chosen, SolverAssumption
<1>2. IsFiniteSet(InstallsOf(a, ns))
  BY <1>1, FS_Subset
<1> QED BY <1>2, FS_CardinalityType

\* Each name is answered by a package, or by another version of it in vain.
LEMMA NameAnswered ==
  ASSUME SolverAssumption, SolverInv, KeyInv, NEW ns \in SUBSET Chosen, NEW m \in ns
  PROVE  \/ cand[m] \in Updates(ns)
         \/ Cardinality(InstallsOf(cand[m], ns)) > 0
         \/ NameOf[cand[m]] # m /\ NameOf[cand[m]] \in Chosen
<1> DEFINE a == cand[m]
<1>1. a \in Pkgs /\ a \in Keyed(m)
  BY AnswerTypes
<1>2. CASE m \in Installed /\ NameOf[a] = m
  BY <1>2 DEF Updates
<1>3. CASE m \in InstallsOf(a, ns)
  <2> HIDE DEF a
  <2>1. InstallsOf(a, ns) # {} /\ IsFiniteSet(InstallsOf(a, ns)) /\ Cardinality(InstallsOf(a, ns)) \in Nat
    BY <1>3, FiniteInstalls
  <2>2. Cardinality(InstallsOf(a, ns)) # 0
    BY <2>1, FS_EmptySet
  <2>3. Cardinality(InstallsOf(a, ns)) > 0
    BY <2>1, <2>2
  <2> QED BY <2>3 DEF a
<1>4. CASE m \in Installed /\ NameOf[a] # m /\ NameOf[a] \in Chosen
  BY <1>4
<1>5. m \notin Installed => m \in InstallsOf(a, ns)
  BY DEF InstallsOf
<1>6. m \in Installed /\ NameOf[a] # m /\ NameOf[a] \notin Chosen => m \in InstallsOf(a, ns)
  BY DEF InstallsOf
<1> HIDE DEF a
<1>7. QED BY <1>2, <1>3, <1>4, <1>5, <1>6 DEF a

\* The keys of what is to install: its own name, not installed, or an installed
\* name that it replaces.
LEMMA InstallKeys ==
  ASSUME SolverAssumption, SolverInv, KeyInv, NEW ns \in SUBSET Chosen, NEW a \in Pkgs,
         NEW n \in InstallsOf(a, ns)
  PROVE  /\ n \in ns /\ cand[n] = a
         /\ \/ n \notin Installed /\ NameOf[a] = n
            \/ n \in Installed /\ NameOf[a] # n /\ NameOf[a] \notin Chosen /\ n \in Provides[a]
<1>1. n \in ns /\ cand[n] = a /\ (n \notin Installed \/ {NameOf[a]} \cap ({n} \cup Chosen) = {})
  BY DEF InstallsOf
<1>2. a \in Keyed(n)
  BY <1>1, AnswerTypes
<1> QED BY <1>1, <1>2 DEF Keyed

\* What is to install is not to update, and stands under one name unless it
\* replaces several.
LEMMA InstallsApart ==
  ASSUME SolverAssumption, SolverInv, KeyInv, NEW ns \in SUBSET Chosen, NEW a \in Pkgs,
         Cardinality(InstallsOf(a, ns)) > 0
  PROVE  /\ a \notin Updates(ns)
         /\ Cardinality(InstallsOf(a, ns)) = 1 \/ Cardinality(Provides[a] \cap Installed) > 1
<1> DEFINE I == InstallsOf(a, ns)
           P == Provides[a] \cap Installed
<1>1. IsFiniteSet(I) /\ Cardinality(I) \in Nat /\ I \subseteq ns /\ ns \subseteq Chosen
  <2>1. IsFiniteSet(I) /\ Cardinality(I) \in Nat
    BY FiniteInstalls
  <2>2. I \subseteq ns
    BY DEF InstallsOf
  <2> QED BY <2>1, <2>2
<1>2. \A n \in I : \/ n \notin Installed /\ NameOf[a] = n
                   \/ n \in Installed /\ NameOf[a] # n /\ NameOf[a] \notin Chosen /\ n \in Provides[a]
  BY InstallKeys
<1>3. I # {}
  <2> SUFFICES ASSUME I = {} PROVE FALSE
    OBVIOUS
  <2>1. Cardinality(I) = 0
    BY FS_EmptySet
  <2> QED BY <2>1
<1>4. a \notin Updates(ns)
  <2> SUFFICES ASSUME NEW m \in ns, m \in Installed, cand[m] = a, NameOf[a] = m PROVE FALSE
    BY DEF Updates
  <2>1. PICK n \in I : TRUE
    BY <1>3
  <2> QED BY <1>1, <1>2, <2>1
<1>5. CASE \E n \in I : I = {n}
  <2> HIDE DEF I
  <2>1. Cardinality(I) = 1
    BY <1>5, FS_Singleton
  <2> QED BY <1>4, <2>1 DEF I
<1>6. CASE ~\E n \in I : I = {n}
  <2>0. PICK n \in I : TRUE
    BY <1>3
  <2>1. PICK m \in I : n # m
    <3> HIDE DEF I
    <3>1. I # {n} /\ n \in I
      BY <1>6
    <3> QED BY <3>1
  <2>2. n \in P /\ m \in P
    BY <1>1, <1>2, <2>1
  <2>3. IsFiniteSet(P)
    <3>1. Provides[a] \in SUBSET Names /\ IsFiniteSet(Names)
      BY DEF SolverAssumption
    <3> QED BY <3>1, FS_Subset
  <2>4. Cardinality({n}) = 1
    BY FS_Singleton
  <2>5. {n} \in SUBSET P /\ {n} # P
    BY <2>1, <2>2
  <2> HIDE DEF P, I
  <2>6. Cardinality({n}) <= Cardinality(P) /\ Cardinality({n}) # Cardinality(P)
    BY <2>3, <2>5, FS_Subset
  <2>7. Cardinality(P) \in Nat
    BY <2>3, FS_CardinalityType
  <2>8. Cardinality(P) > 1
    BY <2>4, <2>6, <2>7
  <2> QED BY <1>4, <2>8 DEF P
<1> QED BY <1>5, <1>6

PlanInv == SolverInv /\ KeyInv /\ PlanForInstaller

LEMMA PacksFit ==
  ASSUME SolverAssumption, SolverInv, KeyInv, UNCHANGED <<problem, cand>>,
         NEW ns \in SUBSET Chosen, NEW remove,
         remove = Removals(ns) \/ remove = ns \cap Installed,
         answer' = Packs(remove, ns)
  PROVE  PlanForInstaller'
<1>0. UNCHANGED <<Installed, Chosen>>
  BY SameProblem DEF Installed, Chosen
<1>1. /\ answer'.remove = remove /\ answer'.update = Updates(ns)
      /\ \A a \in Pkgs : answer'.install[a] = Cardinality(InstallsOf(a, ns))
  BY DEF Packs
<1>2. ASSUME NEW n \in remove
      PROVE  (\E p \in New' : n = NameOf[p] \/ n \in Provides[p]) \/ ReplacedInVain(n)'
  <2>1. PICK m \in ns : n = m \/ n \in Provides[cand[m]]
    <3>1. n \in ns \/ n \in UNION {Provides[cand[k]] : k \in ns}
      BY DEF Removals
    <3> QED BY <3>1
  <2>2. m \in Chosen /\ cand[m] \in Pkgs /\ cand[m] \in Keyed(m)
    BY AnswerTypes
  <2>3. n = NameOf[cand[m]] \/ n \in Provides[cand[m]]
    BY <2>1, <2>2 DEF Keyed
  <2>4. CASE cand[m] \in Updates(ns) \/ Cardinality(InstallsOf(cand[m], ns)) > 0
    <3>1. cand[m] \in New'
      BY <1>1, <2>2, <2>4 DEF New
    <3> QED BY <2>3, <3>1
  <2>5. CASE NameOf[cand[m]] # m /\ NameOf[cand[m]] \in Chosen
    BY <1>0, <2>1, <2>2, <2>5 DEF ReplacedInVain
  <2> QED BY <2>4, <2>5, NameAnswered
<1>3. RemovedIsReplaced'
  BY <1>1, <1>2 DEF RemovedIsReplaced
<1>4. InstalledOnce'
  <2> SUFFICES ASSUME NEW a \in Pkgs, answer'.install[a] > 0
               PROVE  /\ a \notin answer'.update
                      /\ answer'.install[a] = 1 \/ Cardinality(Provides[a] \cap Installed') > 1
    BY DEF InstalledOnce
  <2>1. Cardinality(InstallsOf(a, ns)) > 0
    BY <1>1
  <2>2. /\ a \notin Updates(ns)
        /\ Cardinality(InstallsOf(a, ns)) = 1 \/ Cardinality(Provides[a] \cap Installed) > 1
    BY <2>1, InstallsApart
  <2> QED BY <1>0, <1>1, <2>2
<1>5. UpdatesRemoved'
  <2>1. remove \subseteq Installed /\ ns \cap Installed \subseteq remove
    BY DEF Removals
  <2>2. \A a \in Updates(ns) : NameOf[a] \in ns \cap Installed
    BY DEF Updates
  <2> QED BY <1>0, <1>1, <2>1, <2>2 DEF UpdatesRemoved, NamesIn
\* A package that comes is a candidate under its own name, or a replacer.
<1>6. ASSUME NEW a \in Pkgs, Cardinality(InstallsOf(a, ns)) > 0
      PROVE  \/ NameOf[a] \notin Installed /\ NameOf[a] \in Chosen /\ cand[NameOf[a]] = a
             \/ NameOf[a] \notin Chosen /\ a \in Replacers
  <2>1. PICK n \in InstallsOf(a, ns) : TRUE
    <3>1. InstallsOf(a, ns) # {}
      <4> SUFFICES ASSUME InstallsOf(a, ns) = {} PROVE FALSE
        OBVIOUS
      <4>1. Cardinality(InstallsOf(a, ns)) = 0
        BY FS_EmptySet
      <4> QED BY <1>6, <4>1
    <3> QED BY <3>1
  <2>2. /\ n \in Chosen /\ cand[n] = a
        /\ \/ n \notin Installed /\ NameOf[a] = n
           \/ n \in Installed /\ NameOf[a] # n /\ NameOf[a] \notin Chosen
    BY InstallKeys
  <2> QED BY <2>2 DEF Replacers
<1>7. ASSUME NEW a, a \in New'
      PROVE  \/ NameOf[a] \in Chosen /\ cand[NameOf[a]] = a
             \/ NameOf[a] \notin Chosen /\ a \in Replacers
  <2>1. a \in Updates(ns) \/ (a \in Pkgs /\ Cardinality(InstallsOf(a, ns)) > 0)
    BY <1>1, <1>7 DEF New
  <2>2. CASE a \in Updates(ns)
    BY <2>2 DEF Updates
  <2>3. CASE a \in Pkgs /\ Cardinality(InstallsOf(a, ns)) > 0
    BY <1>6, <2>3
  <2> QED BY <2>1, <2>2, <2>3
<1>8. Replacers' = Replacers
  BY <1>0 DEF Replacers
<1>9. NamesApart'
  <2>1. \A a, b \in New' : NameOf[a] = NameOf[b] /\ a # b => {a, b} \subseteq Replacers
    BY <1>7
  <2>2. \A a \in Pkgs : answer'.install[a] > 0 /\ NameOf[a] \in Installed => a \in Replacers
    BY <1>1, <1>6
  <2> QED BY <1>0, <1>8, <2>1, <2>2 DEF NamesApart
<1> QED BY <1>3, <1>4, <1>5, <1>9 DEF PlanForInstaller

\* The answer of an upgrade gives the system its packages in place of what is
\* removed, and each of them once: UpgradeDone, the only step that answers,
\* over what is found under each key.
LEMMA PlanNext ==
  ASSUME SolverAssumption, UpgradeAssumption, PlanInv, [UpgradeNext]_upgradeVars
  PROVE  PlanInv'
<1>1. SolverInv' /\ KeyInv'
  BY NextKeeps, KeyNext DEF PlanInv
<1>2. CASE UpgradeDone
  <2>1. UNCHANGED <<problem, cand>>
    BY <1>2 DEF UpgradeDone
  <2>2. ASSUME answer' = Packs(Removals(Chosen), Chosen) PROVE PlanForInstaller'
    BY <2>1, <2>2, PacksFit DEF PlanInv
  <2>3. ASSUME pList \subseteq Chosen, answer' = Packs(pList \cap Installed, pList)
        PROVE PlanForInstaller'
    BY <2>1, <2>3, PacksFit DEF PlanInv
  <2>4. ASSUME pc' = "failed" PROVE PlanForInstaller'
    BY <2>4 DEF PlanForInstaller, UpdatesRemoved, NamesApart, RemovedIsReplaced, InstalledOnce,
       Answered
  <2>5. PlanForInstaller'
    BY <1>2, <2>2, <2>3, <2>4 DEF UpgradeDone
  <2> QED BY <1>1, <2>5 DEF PlanInv
<1>3. CASE UNCHANGED upgradeVars
  <2>1. UNCHANGED <<problem, cand, pc, answer>>
    BY <1>3 DEF upgradeVars, vars
  <2>2. Installed' = Installed /\ Replacers' = Replacers /\ New' = New /\ Answered' = Answered
    BY <2>1, SameProblem DEF Installed, Replacers, Chosen, New, Answered, NamesIn
  <2>3. UpdatesRemoved' /\ NamesApart'
    BY <2>1, <2>2 DEF PlanInv, PlanForInstaller, UpdatesRemoved, NamesApart, NamesIn
  <2>4. RemovedIsReplaced' /\ InstalledOnce'
    BY <2>1, <2>2, SameProblem DEF PlanInv, PlanForInstaller, RemovedIsReplaced, InstalledOnce,
       Answered, New, ReplacedInVain, Chosen, Installed
  <2>5. PlanForInstaller'
    BY <2>3, <2>4 DEF PlanForInstaller
  <2> QED BY <1>1, <2>5 DEF PlanInv
<1>4. CASE ~UpgradeDone /\ ~UNCHANGED upgradeVars
  <2>1. pc # "done" /\ (pc' # "done" \/ Done)
    BY <1>4 DEF UpgradeNext, Next, MergeProvides, Merged, Pick, TryVersion, NoVersion,
       DepSettled, DepStuck, DepResolve, Resolved, Resolving, Depend, Done, Call, GiveUp, DepDone,
       Analyse, Analysed, Check, TryUpgrade, Upgrading,
       Stay, UpSettled, UpDepend, UpGiveUp, UpResolve, Upgraded
  <2>2. UNCHANGED problem
    BY SameProblemNext
  <2>3. PlanForInstaller'
    BY <2>1, <2>2 DEF PlanForInstaller, UpdatesRemoved, NamesApart, RemovedIsReplaced,
       InstalledOnce, Answered, Done, Outer
  <2> QED BY <1>1, <2>3 DEF PlanInv
<1> QED BY <1>2, <1>3, <1>4

\* PlanForInstaller: what an upgrade removes is installed, contains the names
\* it updates and is replaced, but in the one case of ReplacedInVain; what it
\* adds comes once, has distinct names and names that are free, but for
\* replacers (the three packs of Upgrade).
THEOREM PlanForInstallerCorrect == UpgradeSpec => []PlanForInstaller
<1>1. UpgradeInit => PlanInv
  <2> SUFFICES ASSUME UpgradeInit PROVE PlanInv
    OBVIOUS
  <2>1. SolverInv /\ KeyInv
    BY SolverAssumption, UpgradeAssumption, InitHolds, KeyInit
  <2>2. pc # "done"
    BY DEF UpgradeInit, Init
  <2> QED BY <2>1, <2>2 DEF PlanInv, PlanForInstaller, UpdatesRemoved, NamesApart,
             RemovedIsReplaced, InstalledOnce, Answered
<1>2. PlanInv /\ [UpgradeNext]_upgradeVars => PlanInv'
  BY SolverAssumption, UpgradeAssumption, PlanNext
<1>3. PlanInv => PlanForInstaller
  BY DEF PlanInv
<1> QED BY <1>1, <1>2, <1>3, PTL DEF UpgradeSpec

-----------------------------------------------------------------------------
(* What the requested names may need: the chain of Needed grows inside a    *)
(* finite set, so that its last set is closed.                             *)

\* The names that those of N may need in one step.
RequiredBy(N) == UNION {Range(Requires[a]) : a \in {b \in Repo : NameOf[b] \in N}}
OneMore(N) == N \cup RequiredBy(N) \cup NamesIn({a \in Repo : Provides[a] \cap RequiredBy(N) # {}})

Chained(f, n) == f = [k \in 0 .. n |-> IF k = 0 THEN NamesIn(Found) ELSE OneMore(f[k - 1])]

LEMMA ChainExists == ASSUME NEW n \in Nat PROVE \E f : Chained(f, n)
<1> DEFINE T == {m \in Nat : ~\E f : Chained(f, m)}
<1> SUFFICES ASSUME T # {} PROVE FALSE
  OBVIOUS
<1>1. PICK m \in T : \A j \in T : m <= j
  <2>1. T \subseteq Nat
    OBVIOUS
  <2> HIDE DEF T
  <2> QED BY <2>1, LeastNumber
<1>2. CASE m = 0
  <2> DEFINE f == [k \in 0 .. 0 |-> NamesIn(Found)]
  <2>1. f = [k \in 0 .. 0 |-> IF k = 0 THEN NamesIn(Found) ELSE OneMore(f[k - 1])]
    OBVIOUS
  <2>2. Chained(f, 0)
    BY <2>1 DEF Chained
  <2> QED BY <1>1, <1>2, <2>2
<1>3. CASE m # 0
  <2>1. m \in Nat /\ m - 1 \in Nat /\ m - 1 \notin T
    BY <1>1, <1>3
  <2>2. PICK f : Chained(f, m - 1)
    BY <2>1
  <2> DEFINE g == [k \in 0 .. m |-> IF k = m THEN OneMore(f[m - 1]) ELSE f[k]]
  <2>3. ASSUME NEW k \in 0 .. m
        PROVE  g[k] = IF k = 0 THEN NamesIn(Found) ELSE OneMore(g[k - 1])
    <3>1. CASE k = m
      <4>1. k # 0 /\ k - 1 \in 0 .. m /\ k - 1 # m /\ k - 1 = m - 1
        BY <1>3, <2>1, <3>1
      <4>2. g[k - 1] = f[m - 1] /\ g[k] = OneMore(f[m - 1])
        BY <3>1, <4>1
      <4> HIDE DEF g
      <4> QED BY <4>1, <4>2
    <3>2. CASE k # m
      <4>1. k \in 0 .. m - 1 /\ g[k] = f[k]
        BY <2>1, <3>2
      <4>2. f[k] = IF k = 0 THEN NamesIn(Found) ELSE OneMore(f[k - 1])
        BY <2>1, <2>2, <4>1 DEF Chained
      <4>3. k # 0 => k - 1 \in 0 .. m /\ k - 1 # m
        BY <2>1, <4>1
      <4>4. k # 0 => g[k - 1] = f[k - 1]
        BY <4>3
      <4> HIDE DEF g
      <4> QED BY <4>1, <4>2, <4>4
    <3> QED BY <3>1, <3>2
  <2>4. g = [k \in 0 .. m |-> g[k]]
    OBVIOUS
  <2> HIDE DEF g
  <2>5. g = [k \in 0 .. m |-> IF k = 0 THEN NamesIn(Found) ELSE OneMore(g[k - 1])]
    BY <2>3, <2>4
  <2>6. Chained(g, m)
    BY <2>5 DEF Chained
  <2> QED BY <1>1, <2>6
<1> QED BY <1>2, <1>3

LEMMA NeededChain ==
  ASSUME SolverAssumption
  PROVE  Cardinality(Names) \in Nat /\ Chained(Needed, Cardinality(Names))
<1>1. Cardinality(Names) \in Nat
  BY FS_CardinalityType DEF SolverAssumption
<1>2. Needed = CHOOSE f : Chained(f, Cardinality(Names))
  BY DEF Needed, Chained, OneMore, RequiredBy
<1> QED BY <1>1, <1>2, ChainExists

\* A set of names with those requested that holds what its packages require.
Closed(N) ==
  /\ N \subseteq Names /\ NamesIn(Found) \subseteq N /\ RequiredBy(N) \subseteq N
  /\ NamesIn({a \in Repo : Provides[a] \cap RequiredBy(N) # {}}) \subseteq N

LEMMA NeededClosed ==
  ASSUME SolverAssumption, problem \in Problems
  PROVE  Closed(Needed[Cardinality(Names)])
<1> DEFINE C == Cardinality(Names)
           F == Needed
<1>1. C \in Nat /\ F[0] = NamesIn(Found) /\ \A k \in 1 .. C : F[k] = OneMore(F[k - 1])
  <2>1. C \in Nat /\ F = [k \in 0 .. C |-> IF k = 0 THEN NamesIn(Found) ELSE OneMore(F[k - 1])]
    BY NeededChain DEF Chained
  <2> HIDE DEF F, C
  <2> QED BY <2>1
<1> HIDE DEF F, C
<1>2. NamesIn(Found) \subseteq Names /\ \A N \in SUBSET Names : OneMore(N) \subseteq Names /\ N \subseteq OneMore(N)
  <2>1. Repo \subseteq Pkgs
    BY RepoOrder
  <2>2. \A a \in Repo : NameOf[a] \in Names /\ Range(Requires[a]) \subseteq Names
    BY <2>1 DEF SolverAssumption, Range
  <2> QED BY <2>1, <2>2 DEF NamesIn, Found, OneMore, RequiredBy
<1>3. ASSUME NEW k \in 0 .. C
      PROVE  F[k] \subseteq Names /\ NamesIn(Found) \subseteq F[k]
  <2> DEFINE T == {j \in 0 .. C : ~(F[j] \subseteq Names /\ NamesIn(Found) \subseteq F[j])}
  <2> SUFFICES ASSUME T # {} PROVE FALSE
    OBVIOUS
  <2>1. PICK m \in T : \A j \in T : m <= j
    <3>1. T \subseteq Nat
      BY <1>1
    <3> HIDE DEF T
    <3> QED BY <3>1, LeastNumber
  <2>2. m # 0
    BY <1>1, <1>2
  <2>3. m \in 1 .. C /\ m - 1 \in 0 .. C /\ m - 1 \notin T
    BY <1>1, <2>1, <2>2
  <2>4. F[m - 1] \in SUBSET Names /\ NamesIn(Found) \subseteq F[m - 1]
    BY <2>3
  <2>5. F[m] = OneMore(F[m - 1])
    BY <1>1, <2>3
  <2>6. F[m] \subseteq Names /\ NamesIn(Found) \subseteq F[m]
    BY <1>2, <2>4, <2>5
  <2> QED BY <2>1, <2>6
<1>4. CASE \E k \in 0 .. C : OneMore(F[k]) = F[k]
  <2>1. PICK k \in 0 .. C : OneMore(F[k]) = F[k]
    BY <1>4
  <2> DEFINE T == {j \in k .. C : F[j] # F[k]}
  <2>2. CASE T = {}
    <3>1. F[C] = F[k]
      <4>1. C \in k .. C
        BY <1>1
      <4> QED BY <2>2, <4>1
    <3>2. OneMore(F[C]) = F[C]
      BY <2>1, <3>1
    <3>3. C \in 0 .. C
      BY <1>1
    <3>4. F[C] \subseteq Names /\ NamesIn(Found) \subseteq F[C]
      BY <1>3, <3>3
    <3>5. Closed(F[C])
      BY <3>2, <3>4 DEF Closed, OneMore
    <3> QED BY <3>5 DEF F, C
  <2>3. CASE T # {}
    <3>1. PICK m \in T : \A j \in T : m <= j
      <4>1. T \subseteq Nat
        BY <1>1
      <4> HIDE DEF T
      <4> QED BY <2>3, <4>1, LeastNumber
    <3>2. m # k /\ m \in 1 .. C /\ m - 1 \in k .. C /\ m - 1 \notin T
      BY <1>1, <3>1
    <3>3. F[m - 1] = F[k]
      BY <3>2
    <3> QED BY <1>1, <2>1, <3>1, <3>2, <3>3
  <2> QED BY <2>2, <2>3
<1>5. CASE \A k \in 0 .. C : OneMore(F[k]) # F[k]
  <2>1. ASSUME NEW S \in SUBSET Names PROVE IsFiniteSet(S) /\ Cardinality(S) \in Nat
    <3>1. IsFiniteSet(S)
      BY FS_Subset DEF SolverAssumption
    <3> QED BY <3>1, FS_CardinalityType
  <2>2. ASSUME NEW k \in 0 .. C, ~(Cardinality(F[k]) >= k) PROVE FALSE
    <3> DEFINE T == {j \in 0 .. C : ~(Cardinality(F[j]) >= j)}
    <3>1. PICK m \in T : \A j \in T : m <= j
      <4>1. T \subseteq Nat /\ k \in T
        BY <1>1, <2>2
      <4> HIDE DEF T
      <4> QED BY <4>1, LeastNumber
    <3>2. m # 0
      BY <1>1, <1>3, <2>1, <3>1
    <3>3. m \in 1 .. C /\ m - 1 \in 0 .. C /\ m - 1 \notin T
      BY <1>1, <3>1, <3>2
    <3>4. Cardinality(F[m - 1]) >= m - 1
      BY <3>3
    <3>5. F[m - 1] \in SUBSET F[m] /\ F[m - 1] # F[m] /\ F[m] \in SUBSET Names
      BY <1>1, <1>2, <1>3, <1>5, <3>3
    <3>6. Cardinality(F[m - 1]) <= Cardinality(F[m]) /\ Cardinality(F[m - 1]) # Cardinality(F[m])
      BY <2>1, <3>5, FS_Subset
    <3>7. Cardinality(F[m - 1]) \in Nat /\ Cardinality(F[m]) \in Nat
      BY <1>3, <2>1, <3>3, <3>5
    <3>8. Cardinality(F[m]) >= m
      BY <3>3, <3>4, <3>6, <3>7
    <3> QED BY <3>1, <3>8
  <2>3. F[C] \in SUBSET Names /\ Cardinality(F[C]) >= C /\ OneMore(F[C]) # F[C]
    <3>1. C \in 0 .. C
      BY <1>1
    <3> QED BY <1>3, <1>5, <2>2, <3>1
  <2>4. Cardinality(F[C]) <= C /\ (C = Cardinality(F[C]) => Names = F[C])
    <3> DEFINE S == F[C]
    <3>1. IsFiniteSet(Names) /\ S \in SUBSET Names
      BY <2>3 DEF SolverAssumption
    <3> HIDE DEF S
    <3>2. Cardinality(S) <= Cardinality(Names) /\ (Cardinality(Names) = Cardinality(S) => Names = S)
      BY <3>1, FS_Subset
    <3> QED BY <3>2 DEF S, C
  <2>5. F[C] = Names
    <3>1. Cardinality(F[C]) \in Nat
      BY <2>1, <2>3
    <3>2. Cardinality(F[C]) = C
      BY <1>1, <2>3, <2>4, <3>1
    <3> QED BY <2>4, <3>2
  <2>6. OneMore(Names) = Names
    <3>1. Names \in SUBSET Names
      OBVIOUS
    <3>2. OneMore(Names) \subseteq Names /\ Names \subseteq OneMore(Names)
      BY <1>2, <3>1
    <3> QED BY <3>2
  <2> QED BY <2>3, <2>5, <2>6
<1> QED BY <1>4, <1>5

-----------------------------------------------------------------------------
(* An install looks only for names of each closed set.                     *)

Within(N) ==
  /\ \A n \in Names : avail[n] # {} => n \in N
  /\ \A i \in DOMAIN frames : frames[i].all # {} => frames[i].name \in N
  /\ \A n \in Names : cand[n] # NoPkg => n \in N

NeedInv == problem.kind = "install" => \A N \in SUBSET Names : Closed(N) => Within(N)

\* What a version of a name of N requires is of N, and so is what provides it.
LEMMA SearchWithin ==
  ASSUME SolverAssumption, SolverInv, problem.kind = "install", NEW N \in SUBSET Names,
         Closed(N), Within(N), Depend
  PROVE  LET n == Head(Top.deps) IN n \in N /\ NamesIn(Searched(n)) \subseteq N
<1> DEFINE n == Head(Top.deps)
<1>1. StackInv /\ Len(frames) > Outer /\ Top.art # NoPkg /\ Top.deps # <<>> /\ frames # <<>>
  BY DependShape DEF SolverInv, Depend, Resolving
<1>2. Tried(Top) /\ Top = frames[1] /\ 1 \in DOMAIN frames /\ Top \in FrameTypes
  BY <1>1, TopFine, TopType
<1>3. Top.art \in Top.all /\ Top.all \subseteq OfName(Repo, Top.name)
      /\ Range(Top.deps) \subseteq Range(Requires[Top.art])
  BY <1>1, <1>2 DEF Tried
<1>4. Top.name \in N
  BY <1>2, <1>3 DEF Within
<1>5. n \in Range(Top.deps)
  <2>1. Top.deps \in Seq(Names)
    BY <1>2 DEF FrameTypes
  <2>2. Top.deps # <<>> /\ n = Head(Top.deps)
    BY <1>1
  <2> HIDE DEF n
  <2> QED BY <2>1, <2>2 DEF Range
<1> HIDE DEF n
<1>6. n \in RequiredBy(N)
  BY <1>3, <1>4, <1>5 DEF RequiredBy, OfName
<1>7. n \in N /\ NamesIn({a \in Repo : Provides[a] \cap RequiredBy(N) # {}}) \subseteq N
  BY <1>6 DEF Closed
<1>8. ASSUME NEW a \in Searched(n) PROVE NameOf[a] \in N
  <2>1. a \in Repo /\ (NameOf[a] = n \/ n \in Provides[a])
    BY DEF Searched, Search
  <2> QED BY <1>6, <1>7, <2>1 DEF NamesIn
<1>9. NamesIn(Searched(n)) \subseteq N
  BY <1>8 DEF NamesIn
<1> QED BY <1>7, <1>9 DEF n

LEMMA AvailWithin ==
  ASSUME SolverAssumption, SolverInv, problem.kind = "install", NEW N \in SUBSET Names,
         Closed(N), Within(N), [UpgradeNext]_upgradeVars
  PROVE  \A n \in Names : avail'[n] # {} => n \in N
<1>1. CASE \E n \in Names : MergeProvides(n)
  <2>1. \A m \in Names : avail'[m] = {} \/ avail'[m] = avail[m]
    BY <1>1 DEF MergeProvides
  <2> QED BY <2>1 DEF Within
<1>2. CASE DepResolve
  <2> DEFINE found == Searched(Head(Top.deps))
  <2>1. avail' = Added(avail, found) /\ Depend
    BY <1>2 DEF DepResolve, Searched
  <2>2. NamesIn(found) \subseteq N
    BY <2>1, SearchWithin
  <2> HIDE DEF found
  <2> QED BY <2>1, <2>2 DEF Added, OfName, NamesIn, Within
<1>3. pc # "analyse" /\ Outer = 0
  BY DEF SolverInv, StackInv, Types, Installing, Outer
<1>4. ASSUME ~(\E n \in Names : MergeProvides(n)), ~DepResolve
      PROVE  UNCHANGED avail
  BY <1>3, <1>4 DEF UpgradeNext, Next, upgradeVars, vars, Merged, Pick, TryVersion, NoVersion,
              DepSettled, DepStuck, Resolved, Done, Analyse, Analysed, Check, TryUpgrade,
              Stay, UpSettled, UpGiveUp, UpDepend, Upgrading, UpResolve, Upgraded, UpgradeDone
<1> QED BY <1>1, <1>2, <1>4 DEF Within

LEMMA SameClosed ==
  ASSUME UNCHANGED problem, NEW N, Closed(N)'
  PROVE  Closed(N)
<1>1. Repo' = Repo /\ Found' = Found
  BY SameProblem DEF Found, Requested
<1>2. RequiredBy(N)' = RequiredBy(N)
  BY <1>1 DEF RequiredBy
<1> QED BY <1>1, <1>2 DEF Closed

LEMMA NeedNext ==
  ASSUME SolverAssumption, UpgradeAssumption, SolverInv, NeedInv, [UpgradeNext]_upgradeVars
  PROVE  NeedInv'
<1> SUFFICES ASSUME problem'.kind = "install", NEW N \in SUBSET Names, Closed(N)'
             PROVE  Within(N)'
  BY DEF NeedInv
<1>1. problem.kind = "install" /\ Closed(N) /\ Within(N)
  <2>1. UNCHANGED problem
    BY SameProblemNext
  <2> QED BY <2>1, SameClosed DEF NeedInv
<1>2. \A n \in Names : avail'[n] # {} => n \in N
  BY <1>1, AvailWithin
<1>3. \A i \in DOMAIN frames' : frames'[i].all # {} => frames'[i].name \in N
  BY <1>1, <1>2, NextDescends DEF Descends, Within
<1>4. \A n \in Names : cand'[n] # NoPkg => n \in N
  <2>1. CASE UNCHANGED cand
    BY <1>1, <2>1 DEF Within
  <2>2. CASE ~UNCHANGED cand
    <3>1. PICK first \in Top.all : cand' = [cand EXCEPT ![Top.name] = first]
      BY <2>2, NextAnswering DEF Answering
    <3>2. Top.name \in N
      BY <1>1, <2>2, <3>1, NextAnswering DEF Answering, Within
    <3>3. cand \in [Names -> Pkgs \cup {NoPkg}]
      BY DEF SolverInv, StackInv, Types, MapTypes
    <3> QED BY <1>1, <3>1, <3>2, <3>3 DEF Within
  <2> QED BY <2>1, <2>2
<1> QED BY <1>2, <1>3, <1>4 DEF Within

LEMMA NeedInit == ASSUME SolverAssumption, UpgradeInit PROVE NeedInv
<1>1. /\ problem \in Problems /\ frames = <<>> /\ cand = [n \in Names |-> NoPkg]
      /\ avail = Added([n \in Names |-> {}], Found)
  BY DEF UpgradeInit, Init
<1>2. \A n \in Names : avail[n] = OfName(Found, n)
  BY <1>1 DEF Added
<1>3. \A n \in Names : avail[n] # {} => n \in NamesIn(Found)
  <2> SUFFICES ASSUME NEW n \in Names, avail[n] # {} PROVE n \in NamesIn(Found)
    OBVIOUS
  <2>1. PICK a \in Found : NameOf[a] = n
    BY <1>2 DEF OfName
  <2> QED BY <2>1 DEF NamesIn
<1>4. DOMAIN frames = {} /\ \A n \in Names : cand[n] = NoPkg
  BY <1>1
<1> QED BY <1>3, <1>4 DEF NeedInv, Within, Closed

\* An install answers only names that the requested ones may need, in one or
\* more steps (resolvePackage follows the requires of what it found).
THEOREM NothingUnneededCorrect == UpgradeSpec => []NothingUnneeded
<1>1. UpgradeInit => SolverInv /\ NeedInv
  BY SolverAssumption, InitHolds, NeedInit
<1>2. SolverInv /\ NeedInv /\ [UpgradeNext]_upgradeVars => SolverInv' /\ NeedInv'
  BY SolverAssumption, UpgradeAssumption, NextKeeps, NeedNext
<1>3. SolverInv /\ NeedInv => NothingUnneeded
  <2> SUFFICES ASSUME SolverInv, NeedInv, Installs, NEW p \in Candidates
               PROVE  NameOf[p] \in Needed[Cardinality(Names)]
    BY DEF NothingUnneeded, NamesIn
  <2> DEFINE N == Needed[Cardinality(Names)]
  <2>1. Closed(N)
    BY SolverAssumption, NeededClosed DEF SolverInv, StackInv, Types
  <2> HIDE DEF N
  <2>2. Within(N)
    BY <2>1 DEF NeedInv, Installs, Closed
  <2>3. PICK n \in Names : p = cand[n] /\ cand[n] # NoPkg
    BY DEF Candidates
  <2>4. NameOf[p] = n
    BY <2>3 DEF SolverInv, Answers, Fit, Installs, OfName
  <2> QED BY <2>2, <2>3, <2>4 DEF Within, N
<1> QED BY <1>1, <1>2, <1>3, PTL DEF UpgradeSpec

-----------------------------------------------------------------------------
(* The outer calls of an upgrade are for installed names.                  *)

UpgradeKeys ==
  problem.kind = "upgrade" =>
    /\ pc # "merge" /\ pList \subseteq Installed
    /\ frames # <<>> => frames[Len(frames)].name \in Installed
    /\ pc = "analyse" => frames = <<>> /\ \A n \in Names : avail[n] # {} => n \in Installed

LEMMA UpgradeKeysInit == ASSUME SolverAssumption, UpgradeAssumption, UpgradeInit PROVE UpgradeKeys
<1> SUFFICES ASSUME problem.kind = "upgrade" PROVE UpgradeKeys
  BY DEF UpgradeKeys
<1>1. problem \in Problems /\ pc = "analyse" /\ pList = {} /\ frames = <<>>
      /\ avail = Added([n \in Names |-> {}], Found)
  BY DEF UpgradeInit, Init
<1>2. Requested = {}
  BY <1>1 DEF UpgradeAssumption, Requested
<1>3. Found = {}
  BY <1>2 DEF Found
<1>4. \A n \in Names : avail[n] = {}
  BY <1>1, <1>3 DEF Added, OfName
<1> QED BY <1>1, <1>4 DEF UpgradeKeys

LEMMA UpgradeKeysNext ==
  ASSUME SolverAssumption, UpgradeAssumption, SolverInv, UpgradeKeys, [UpgradeNext]_upgradeVars
  PROVE  UpgradeKeys'
<1>0. UNCHANGED problem
  BY SameProblemNext
<1> SUFFICES ASSUME problem.kind = "upgrade" PROVE UpgradeKeys'
  BY <1>0 DEF UpgradeKeys
<1>1. /\ Outer = 1 /\ Installed' = Installed /\ pc # "merge" /\ pList \subseteq Installed
      /\ frames # <<>> => frames[Len(frames)].name \in Installed
      /\ pc = "analyse" => frames = <<>> /\ \A n \in Names : avail[n] # {} => n \in Installed
  BY <1>0, SameProblem DEF UpgradeKeys, Outer, Installed
<1>2. StackInv /\ avail \in [Names -> SUBSET Pkgs]
  BY DEF SolverInv, StackInv, Types, MapTypes
<1>3. CASE \E n \in Names : Analyse(n)
  <2>1. PICK n \in Names : Analyse(n)
    BY <1>3
  <2>2. /\ pc = "analyse" /\ UNCHANGED <<pList, frames, pc>> /\ n \in Installed
        /\ avail' = avail \/ avail' = [avail EXCEPT ![n] = Versions(n)]
    BY <2>1 DEF Analyse
  <2>3. \A m \in Names : avail'[m] # {} => m \in Installed
    BY <1>1, <1>2, <2>2
  <2> QED BY <1>1, <2>2, <2>3 DEF UpgradeKeys
<1>4. CASE Analysed
  <2> DEFINE keys == {n \in Names : avail[n] # {}}
  <2>1. /\ pc = "analyse" /\ pc' = "solve" /\ frames' = frames
        /\ pList' = UNION {{IF NameOf[a] \in keys THEN NameOf[a] ELSE n : a \in avail[n]} : n \in keys}
    BY <1>4 DEF Analysed
  <2>2. keys \subseteq Installed
    BY <1>1, <2>1
  <2>3. pList' \subseteq keys
    <3> HIDE DEF keys
    <3> QED BY <2>1
  <2> HIDE DEF keys
  <2> QED BY <1>1, <2>1, <2>2, <2>3 DEF UpgradeKeys
<1>5. CASE Check
  <2>1. PICK n \in pList : frames' = IF cand[n] = NoPkg THEN <<Frame(n, avail)>> ELSE <<>>
    BY <1>5 DEF Check
  <2>2. UNCHANGED <<pList, pc>> /\ pc = "solve"
    BY <1>5 DEF Check
  <2>3. frames' # <<>> => frames'[Len(frames')].name = n
    BY <2>1 DEF Frame
  <2> QED BY <1>1, <2>1, <2>2, <2>3 DEF UpgradeKeys
<1>6. CASE UNCHANGED upgradeVars
  <2>1. UNCHANGED <<avail, pList, frames, pc>>
    BY <1>6 DEF upgradeVars, vars
  <2> QED BY <1>1, <2>1 DEF UpgradeKeys
<1>7. CASE ~(\E n \in Names : Analyse(n)) /\ ~Analysed /\ ~Check /\ ~UNCHANGED upgradeVars
  <2>0. \/ TryVersion \/ NoVersion \/ DepSettled \/ DepStuck \/ DepResolve \/ Resolved
        \/ TryUpgrade \/ Stay \/ UpSettled \/ UpGiveUp \/ UpResolve \/ Upgraded \/ UpgradeDone
    BY <1>1, <1>7 DEF UpgradeNext, Next, MergeProvides, Merged, Pick, Done
  <2>1. pc = "solve" /\ pc' # "analyse" /\ pc' # "merge" /\ UNCHANGED pList
    <3>1. CASE DepResolve \/ UpResolve
      <4>1. pc = "solve" /\ UNCHANGED pList /\ \E m, S : Call(m, S)
        BY <3>1 DEF DepResolve, UpResolve, Depend, Resolving, UpDepend, Upgrading
      <4> QED BY <4>1 DEF Call, GiveUp, DepDone
    <3>2. CASE ~DepResolve /\ ~UpResolve
      BY <2>0, <3>2 DEF TryVersion, NoVersion, DepSettled, DepStuck, Resolved, Resolving, Depend,
         GiveUp, DepDone, TryUpgrade, Upgrading, Stay, UpSettled, UpDepend, UpGiveUp, Upgraded, UpgradeDone
    <3> QED BY <3>1, <3>2
  <2>2. ASSUME frames = <<>> PROVE frames' = <<>>
    <3>1. Len(frames) = 0 /\ ~Resolving /\ ~Upgrading
      BY <1>1, <2>2 DEF Resolving, Upgrading
    <3> QED BY <2>0, <2>2, <3>1 DEF TryVersion, NoVersion, DepSettled, DepStuck, DepResolve, Resolved,
       Depend, TryUpgrade, Stay, UpSettled, UpDepend, UpGiveUp, UpResolve, Upgraded, UpgradeDone
  <2>3. frames' # <<>> => frames'[Len(frames')].name \in Installed
    BY <1>1, <2>2, NextDescends DEF Descends
  <2> QED BY <1>1, <2>1, <2>3 DEF UpgradeKeys
<1> QED BY <1>3, <1>4, <1>5, <1>6, <1>7

-----------------------------------------------------------------------------
(* One version of each name: until a call is doomed, what the answer and   *)
(* the pending calls require is covered by the answer, the system and the  *)
(* calls, or still to be settled.                                          *)

OnCalls == {f.art : f \in Range(frames)} \ {NoPkg}

Serves(a, n) == n = NameOf[a] \/ n \in Provides[a]

\* An upgrade may lose it with the version that served it.
Lost(n) == problem.kind = "upgrade" /\ Abandonable(n)

Covered(n) == Lost(n) \/ \E w \in World \cup Candidates \cup OnCalls : Serves(w, n)

\* The innermost call has no version left, and so will have its callers.
Doomed == Len(frames) > Outer /\ Top.art = NoPkg /\ Top.todo = {}

\* A call serves the require that it was made for.
Linked ==
  \A i \in DOMAIN frames : i > 1 =>
    \A a \in frames[i - 1].all : Serves(a, Head(frames[i].deps))

Pending ==
  \A i \in DOMAIN frames : frames[i].art # NoPkg =>
    \A n \in Range(Requires[frames[i].art]) : Covered(n) \/ n \in Range(frames[i].deps)

Complete == \A p \in Candidates : \A n \in Range(Requires[p]) : Covered(n)

Closing == prov \subseteq World \cup Candidates /\ Linked /\ Pending /\ Complete

ClosedInv ==
  Single => /\ pc = "done" => frames = <<>>
            /\ pc = "failed" \/ Doomed \/ Closing

\* The versions that may be answered under n.
Under(n) == IF problem.kind = "install" THEN OfName(Repo, n) ELSE Keyed(n)

LEMMA UnderOne ==
  ASSUME SolverAssumption, problem \in Problems, Single, NEW n \in Names
  PROVE  /\ \A a, b \in Under(n) : a = b
         /\ OfName(Repo, n) \subseteq Under(n) /\ Under(n) \subseteq Repo
         /\ \A a \in Under(n) : Serves(a, n)
<1>1. \A a, b \in Repo : NameOf[a] = NameOf[b] => a = b
  BY DEF Single, OneVersionEach
<1>2. OfName(Repo, n) \subseteq Under(n) /\ Under(n) \subseteq Repo /\ \A a \in Under(n) : Serves(a, n)
  BY DEF Under, OfName, Keyed, Serves
<1>3. CASE problem.kind = "install" \/ n \notin Installed
  <2>1. Under(n) = OfName(Repo, n)
    BY <1>3 DEF Under, OfName, Keyed
  <2> QED BY <1>1, <1>2, <2>1 DEF OfName
<1>4. CASE problem.kind # "install" /\ n \in Installed
  <2>1. PICK w \in World : NameOf[w] = n
    BY <1>4 DEF Installed, NamesIn
  <2>2. \A a, b \in Versions(n) : a = b
    BY <1>4, <2>1 DEF Single, OneUpgradeEach
  <2>3. Under(n) \subseteq Versions(n)
    BY <1>4 DEF Under, Keyed, Versions
  <2> QED BY <1>2, <2>2, <2>3
<1> QED BY <1>3, <1>4

LEMMA SingleFacts ==
  ASSUME SolverAssumption, SolverInv, KeyInv, Single
  PROVE  /\ problem \in Problems /\ ~problem.force
         /\ \A a, b \in Repo : NameOf[a] = NameOf[b] => a = b
         /\ \A i \in DOMAIN frames :
              /\ frames[i].name \in Names /\ frames[i].all \subseteq Under(frames[i].name)
              /\ \A a, b \in frames[i].all : a = b
              /\ frames[i].art # NoPkg => frames[i].art \in frames[i].all
              /\ i <= Len(frames) - Outer =>
                   Tried(frames[i]) /\ (frames[i].art # NoPkg => frames[i].todo = {})
         /\ \A n \in Names : cand[n] # NoPkg => cand[n] \in Under(n)
         /\ \A n \in Names : avail[n] \subseteq Under(n)
<1>1. problem \in Problems /\ ~problem.force /\ StackInv
  BY DEF Single, SolverInv, StackInv, Types
<1>2. \A a, b \in Repo : NameOf[a] = NameOf[b] => a = b
  BY DEF Single, OneVersionEach
<1>3. ASSUME NEW i \in DOMAIN frames
      PROVE  /\ frames[i].name \in Names /\ frames[i].all \subseteq Under(frames[i].name)
             /\ \A a, b \in frames[i].all : a = b
             /\ frames[i].art # NoPkg => frames[i].art \in frames[i].all
             /\ i <= Len(frames) - Outer =>
                  Tried(frames[i]) /\ (frames[i].art # NoPkg => frames[i].todo = {})
  <2>0. frames[i] \in FrameTypes /\ Len(frames) \in Nat /\ i \in Nat /\ i <= Len(frames)
    BY <1>1, StackShape
  <2>1. Fine(frames[i], i <= Len(frames) - Outer) /\ frames[i].name \in Names
    BY <1>1, <2>0 DEF StackInv, Calls, FrameTypes
  <2>2. frames[i].all \subseteq Under(frames[i].name)
    <3>1. CASE problem.kind = "install"
      <4>1. Outer = 0
        BY <3>1 DEF Outer
      <4>2. i <= Len(frames) - Outer
        BY <2>0, <4>1
      <4> QED BY <2>1, <3>1, <4>2 DEF Fine, Tried, Under
    <3>2. CASE problem.kind # "install"
      BY <3>2 DEF KeyInv, Under
    <3> QED BY <3>1, <3>2
  <2>3. \A a, b \in frames[i].all : a = b
    BY <1>1, <2>1, <2>2, UnderOne
  <2>4. frames[i].art # NoPkg => frames[i].art \in frames[i].all
    BY <2>1 DEF Fine, Tried, Outermost
  <2>5. i <= Len(frames) - Outer => Tried(frames[i]) /\ (frames[i].art # NoPkg => frames[i].todo = {})
    BY <2>1, <2>3 DEF Fine, Tried
  <2> QED BY <2>1, <2>2, <2>3, <2>4, <2>5
<1>4. \A n \in Names : cand[n] # NoPkg => cand[n] \in Under(n)
  BY DEF SolverInv, Answers, Fit, KeyInv, Under
<1>5. \A n \in Names : avail[n] \subseteq Under(n)
  <2>1. CASE problem.kind = "install"
    BY <2>1 DEF SolverInv, StackInv, Types, Installing, Under
  <2>2. CASE problem.kind # "install"
    BY <2>2 DEF KeyInv, Under
  <2> QED BY <2>1, <2>2
<1> QED BY <1>1, <1>2, <1>3, <1>4, <1>5

\* What was covered stays covered.
LEMMA CoverKeeps ==
  ASSUME UNCHANGED problem, Candidates \subseteq Candidates', OnCalls \subseteq Candidates' \cup OnCalls'
  PROVE  \A n : Covered(n) => Covered(n)'
<1>1. \A n : Lost(n)' = Lost(n)
  BY SameProblem DEF Lost, Abandonable, Installed
<1> QED BY <1>1, SameProblem DEF Covered

LEMMA CallOnCalls ==
  ASSUME NEW i \in DOMAIN frames, frames[i].art # NoPkg
  PROVE  frames[i].art \in OnCalls
BY DEF OnCalls, Range

LEMMA LinkAt ==
  ASSUME Linked, NEW i \in DOMAIN frames, i > 1, NEW j, j = i - 1
  PROVE  \A a \in frames[j].all : Serves(a, Head(frames[i].deps))
BY DEF Linked

LEMMA SameCandidates == ASSUME UNCHANGED cand PROVE Candidates' = Candidates
BY DEF Candidates

LEMMA StillClosing ==
  ASSUME UNCHANGED <<problem, cand, prov, frames>>
  PROVE  (Closing => Closing') /\ (Doomed => Doomed')
<1>1. OnCalls' = OnCalls /\ Candidates' = Candidates /\ World' = World
  BY SameProblem DEF OnCalls, Candidates
<1>2. \A n : Covered(n) => Covered(n)'
  BY <1>1, CoverKeeps
<1>3. Doomed => Doomed'
  BY SameProblem DEF Doomed, Top
<1>4. Closing => Linked' /\ Pending' /\ Complete'
  BY <1>1, <1>2 DEF Closing, Linked, Pending, Complete
<1> QED BY <1>1, <1>3, <1>4 DEF Closing

\* A call is added.
LEMMA PushCloses ==
  ASSUME SolverAssumption, SolverInv, Closing, UNCHANGED <<problem, cand, prov>>,
         NEW f \in FrameTypes, Pushed(f), f.art = NoPkg,
         frames # <<>> => \A a \in f.all : Serves(a, Head(frames[1].deps))
  PROVE  Closing'
<1>1. /\ Len(frames) \in Nat /\ DOMAIN frames = 1 .. Len(frames) /\ frames \in Seq(FrameTypes)
      /\ frames # <<>> <=> Len(frames) > 0
  BY StackShape DEF SolverInv
<1>2. /\ DOMAIN frames' = 1 .. Len(frames) + 1 /\ frames'[1] = f
      /\ \A i \in 2 .. Len(frames) + 1 : frames'[i] = frames[i - 1] /\ i - 1 \in DOMAIN frames
  BY <1>1, PushedAt
<1>3. Candidates' = Candidates /\ OnCalls \subseteq OnCalls' /\ World' = World
  <2>1. \A i \in DOMAIN frames : i + 1 \in DOMAIN frames' /\ frames'[i + 1] = frames[i]
    BY <1>1, PushedAt
  <2>2. Range(frames) \subseteq Range(frames')
    BY <2>1 DEF Range
  <2> QED BY <2>2, SameCandidates, SameProblem DEF OnCalls
<1>4. \A n : Covered(n) => Covered(n)'
  BY <1>3, CoverKeeps
<1>5. ASSUME NEW i \in DOMAIN frames', i > 1, NEW a \in frames'[i - 1].all
      PROVE  Serves(a, Head(frames'[i].deps))
  <2>1. CASE i = 2
    BY <1>1, <1>2, <1>5, <2>1
  <2>2. CASE i # 2
    <3>1. /\ frames'[i] = frames[i - 1] /\ frames'[i - 1] = frames[i - 1 - 1] /\ i - 1 > 1
          /\ i - 1 \in DOMAIN frames
      BY <1>1, <1>2, <1>5, <2>2
    <3> QED BY <1>5, <3>1 DEF Closing, Linked
  <2> QED BY <2>1, <2>2
<1>6. ASSUME NEW i \in DOMAIN frames', frames'[i].art # NoPkg,
             NEW n \in Range(Requires[frames'[i].art])
      PROVE  Covered(n)' \/ n \in Range(frames'[i].deps)
  <2>1. i # 1
    BY <1>2, <1>6
  <2>2. frames'[i] = frames[i - 1] /\ i - 1 \in DOMAIN frames
    BY <1>1, <1>2, <2>1
  <2> QED BY <1>4, <1>6, <2>2 DEF Closing, Pending
<1>7. Complete'
  BY <1>3, <1>4 DEF Closing, Complete
<1>8. Linked'
  BY <1>5 DEF Linked, Serves
<1>9. Pending'
  BY <1>6 DEF Pending
<1> QED BY <1>3, <1>7, <1>8, <1>9 DEF Closing

\* The innermost call goes on: it keeps its versions, and what its version
\* requires is covered or left.
LEMMA TopCloses ==
  ASSUME SolverAssumption, SolverInv, Closing, frames # <<>>, UNCHANGED <<problem, cand, prov>>,
         NEW f \in FrameTypes, SetTop(f), f.all = Top.all, Top.art # NoPkg => f.art = Top.art,
         f.art # NoPkg => \A n \in Range(Requires[f.art]) : Covered(n) \/ n \in Range(f.deps)
  PROVE  Closing'
<1>1. /\ Len(frames) \in Nat /\ DOMAIN frames = 1 .. Len(frames) /\ frames \in Seq(FrameTypes)
      /\ Top = frames[1] /\ Len(frames) > 0
  BY StackShape, TopType DEF SolverInv
<1>2. /\ DOMAIN frames' = 1 .. Len(frames) /\ frames'[1] = f
      /\ \A i \in 2 .. Len(frames) : frames'[i] = frames[i] /\ i \in DOMAIN frames
  BY <1>1, ToppedAt
<1>3. Candidates' = Candidates /\ OnCalls \subseteq OnCalls' /\ World' = World
  <2>1. ASSUME NEW i \in DOMAIN frames, frames[i].art # NoPkg
        PROVE  i \in DOMAIN frames' /\ frames'[i].art = frames[i].art
    <3>1. CASE i = 1
      BY <1>1, <1>2, <2>1, <3>1
    <3>2. CASE i # 1
      <4>1. i \in 2 .. Len(frames)
        BY <1>1, <3>2
      <4> QED BY <1>2, <4>1
    <3> QED BY <3>1, <3>2
  <2>2. ASSUME NEW a \in OnCalls PROVE a \in OnCalls'
    <3>1. PICK i \in DOMAIN frames : a = frames[i].art /\ a # NoPkg
      BY DEF OnCalls, Range
    <3>2. i \in DOMAIN frames' /\ a = frames'[i].art
      BY <2>1, <3>1
    <3> QED BY <3>1, <3>2 DEF OnCalls, Range
  <2> QED BY <2>2, SameCandidates, SameProblem
<1>4. \A n : Covered(n) => Covered(n)'
  BY <1>3, CoverKeeps
<1>5. ASSUME NEW i \in DOMAIN frames', i > 1, NEW a \in frames'[i - 1].all
      PROVE  Serves(a, Head(frames'[i].deps))
  <2>1. frames'[i] = frames[i] /\ i \in DOMAIN frames
    BY <1>1, <1>2, <1>5
  <2>2. frames'[i - 1].all = frames[i - 1].all
    <3>1. CASE i = 2
      BY <1>1, <1>2, <3>1
    <3>2. CASE i # 2
      BY <1>1, <1>2, <1>5, <3>2
    <3> QED BY <3>1, <3>2
  <2> QED BY <1>5, <2>1, <2>2 DEF Closing, Linked
<1>6. ASSUME NEW i \in DOMAIN frames', frames'[i].art # NoPkg,
             NEW n \in Range(Requires[frames'[i].art])
      PROVE  Covered(n)' \/ n \in Range(frames'[i].deps)
  <2>1. CASE i = 1
    BY <1>2, <1>4, <1>6, <2>1
  <2>2. CASE i # 1
    <3>1. frames'[i] = frames[i] /\ i \in DOMAIN frames
      BY <1>1, <1>2, <2>2
    <3> QED BY <1>4, <1>6, <3>1 DEF Closing, Pending
  <2> QED BY <2>1, <2>2
<1>7. Complete'
  BY <1>3, <1>4 DEF Closing, Complete
<1>8. Linked'
  BY <1>5 DEF Linked, Serves
<1>9. Pending'
  BY <1>6 DEF Pending
<1> QED BY <1>3, <1>7, <1>8, <1>9 DEF Closing

LEMMA HeadOrTail ==
  ASSUME NEW d \in Seq(Names), d # <<>>, NEW n \in Range(d)
  PROVE  n = Head(d) \/ n \in Range(Tail(d))
<1>1. PICK i \in DOMAIN d : n = d[i]
  BY DEF Range
<1>2. i \in 1 .. Len(d) /\ Len(d) \in Nat /\ DOMAIN Tail(d) = 1 .. Len(d) - 1 /\ Head(d) = d[1]
      /\ \A j \in DOMAIN Tail(d) : Tail(d)[j] = d[j + 1]
  OBVIOUS
<1>3. CASE i = 1
  BY <1>1, <1>2, <1>3
<1>4. CASE i # 1
  <2>1. i - 1 \in DOMAIN Tail(d) /\ i - 1 + 1 = i
    BY <1>2, <1>4
  <2>2. Tail(d)[i - 1] = n
    BY <1>1, <1>2, <2>1
  <2> QED BY <2>1, <2>2 DEF Range
<1> QED BY <1>3, <1>4

\* The require at the head of the innermost call is settled.
LEMMA DoneCloses ==
  ASSUME SolverAssumption, SolverInv, KeyInv, Single, Closing, DepDone, UNCHANGED <<problem, cand, prov>>,
         frames # <<>>, frames[1].deps # <<>>, Covered(Head(Top.deps))
  PROVE  Closing'
<1> DEFINE f == Settled(Top)
<1>1. Top \in FrameTypes /\ Top = frames[1] /\ 1 \in DOMAIN frames
  BY TopType DEF SolverInv
<1>2. SetTop(f)
  BY DEF DepDone, SetTop, Top, Settled
<1>3. f \in FrameTypes /\ f.all = Top.all /\ f.art = Top.art /\ f.deps = Tail(Top.deps)
  BY <1>1, Settle
<1>4. ASSUME f.art # NoPkg, NEW n \in Range(Requires[f.art])
      PROVE  Covered(n) \/ n \in Range(f.deps)
  <2>1. Covered(n) \/ n \in Range(Top.deps)
    BY <1>1, <1>3, <1>4 DEF Closing, Pending
  <2>2. Top.deps \in Seq(Names) /\ Top.deps # <<>>
    BY <1>1 DEF FrameTypes
  <2>3. n \in Range(Top.deps) => n = Head(Top.deps) \/ n \in Range(Tail(Top.deps))
    BY <2>2, HeadOrTail
  <2> QED BY <1>3, <2>1, <2>3
<1> HIDE DEF f
<1> QED BY <1>2, <1>3, <1>4, TopCloses

LEMMA DoomedAfter ==
  ASSUME UNCHANGED problem, frames'[1].art = NoPkg, frames'[1].todo = {}, Len(frames') > Outer
  PROVE  Doomed'
BY SameProblem DEF Doomed, Top

LEMMA TryCloses ==
  ASSUME SolverAssumption, SolverInv, KeyInv, Single, Closing, TryVersion
  PROVE  Closing' \/ Doomed'
<1> DEFINE a == Best(Top.todo)
           g == Passed(Top, a)
           h == Banned(Top, a, Rank[a])
           t == Taken(Top, a)
<1>1. /\ Len(frames) > Outer /\ Top.art = NoPkg /\ Top.todo # {}
      /\ UNCHANGED <<problem, avail, cand, pList, prov, pc>>
      /\ SetTop(g) \/ SetTop(h) \/ SetTop(t)
  BY DEF TryVersion, Resolving, Rest, Passed, Banned, Taken
<1>2. /\ StackInv /\ frames # <<>> /\ Top \in FrameTypes /\ Top = frames[1] /\ 1 \in DOMAIN frames
      /\ frames \in Seq(FrameTypes) /\ 1 <= Len(frames) - Outer
  BY <1>1, StackShape, TopType DEF SolverInv
<1>3. Tried(Top) /\ \A b \in Top.all : \A c \in Top.all : b = c
  BY <1>2, SingleFacts
<1>4. a \in Top.todo /\ a \in Repo /\ a \in Pkgs
  <2>1. Top.todo \in SUBSET Repo /\ problem \in Problems /\ Repo \subseteq Pkgs
    BY <1>2, <1>3, StackShape, RepoOrder DEF Tried
  <2>2. a \in Top.todo
    BY <1>1, <2>1, BestFirst
  <2> HIDE DEF a
  <2> QED BY <2>1, <2>2
<1>5. Top.todo \ {a} = {}
  BY <1>3, <1>4 DEF Tried
<1>6. Rank[a] \in Nat /\ Requires[a] \in Seq(Names)
  BY <1>4 DEF SolverAssumption
<1>7. /\ g \in FrameTypes /\ g.art = NoPkg /\ g.todo = {}
      /\ h \in FrameTypes /\ h.art = NoPkg /\ h.todo = {}
      /\ t \in FrameTypes /\ t.art = a /\ t.all = Top.all /\ t.deps = Requires[a]
  <2> HIDE DEF a
  <2> QED BY <1>1, <1>2, <1>4, <1>5, <1>6 DEF FrameTypes, Passed, Banned, Taken
<1> HIDE DEF a, g, h, t
<1>8. ASSUME NEW f \in FrameTypes, SetTop(f), f.art = NoPkg, f.todo = {} PROVE Doomed'
  <2>1. frames'[1] = f /\ Len(frames') = Len(frames)
    BY <1>2, <1>8, ToppedAt
  <2> QED BY <1>1, <1>8, <2>1, DoomedAfter
<1>9. CASE SetTop(t)
  BY <1>1, <1>2, <1>7, <1>9, TopCloses
<1> QED BY <1>1, <1>7, <1>8, <1>9

LEMMA StuckCloses ==
  ASSUME SolverAssumption, SolverInv, KeyInv, Single, DepStuck
  PROVE  Doomed'
<1> DEFINE f == GivenUp(Top)
<1>1. StackInv /\ Depend /\ SetTop(f) /\ UNCHANGED problem /\ Len(frames) > Outer
  BY DEF DepStuck, Depend, Resolving, SolverInv, GivenUp
<1>2. /\ frames # <<>> /\ Top \in FrameTypes /\ Top = frames[1] /\ frames[1].art # NoPkg
      /\ 1 \in DOMAIN frames /\ frames \in Seq(FrameTypes) /\ Len(frames) \in Nat
      /\ Top.deps # <<>> /\ 1 <= Len(frames) - Outer
  BY <1>1, DependShape, TopType, StackShape
<1>3. Top.todo = {}
  BY <1>2, SingleFacts
<1>4. f \in FrameTypes /\ f.art = NoPkg /\ f.todo = {}
  BY <1>2, <1>3, Settle
<1> HIDE DEF f
<1>5. frames'[1] = f /\ Len(frames') = Len(frames)
  BY <1>1, <1>2, <1>4, ToppedAt
<1> QED BY <1>1, <1>4, <1>5, DoomedAfter

\* The callers of a doomed call are doomed, and with the first the solve fails.
LEMMA NoVersionCloses ==
  ASSUME SolverAssumption, SolverInv, KeyInv, Single, NoVersion
  PROVE  pc' = "failed" \/ Doomed'
<1>1. Len(frames) > Outer /\ StackInv /\ ~problem.force /\ UNCHANGED problem
  BY DEF NoVersion, Resolving, SolverInv, KeyInv, Single
<1>2. CASE GiveUp
  BY <1>1, <1>2 DEF GiveUp
<1>3. CASE Len(frames) # Outer + 1 /\ Popped(GivenUp(frames[2]))
  <2> DEFINE f == GivenUp(frames[2])
  <2>1. /\ Len(frames) >= 2 /\ 2 \in DOMAIN frames /\ frames[2] \in FrameTypes /\ frames \in Seq(FrameTypes)
        /\ 2 <= Len(frames) - Outer /\ Len(frames) - 1 > Outer
    BY <1>1, <1>3, StackShape
  <2>2. frames[2].art # NoPkg /\ frames[2].deps # <<>>
    BY <1>1, <2>1 DEF StackInv, Waiting
  <2>3. frames[2].todo = {}
    BY <2>1, <2>2, SingleFacts
  <2>4. f \in FrameTypes /\ f.art = NoPkg /\ f.todo = {}
    BY <2>1, <2>2, <2>3, Settle
  <2>5. Popped(f)
    BY <1>3
  <2> HIDE DEF f
  <2>6. frames'[1] = f /\ Len(frames') = Len(frames) - 1
    BY <2>1, <2>4, <2>5, PoppedAt
  <2> QED BY <1>1, <2>1, <2>4, <2>6, DoomedAfter
<1> QED BY <1>2, <1>3 DEF NoVersion, Popped, GivenUp

\* A call that is settled at once, started or given up.
LEMMA CallCloses ==
  ASSUME SolverAssumption, SolverInv, KeyInv, Single, Closing, UNCHANGED <<problem, cand, prov>>,
         NEW m \in Names, NEW S, Call(m, S), S \in [Names -> SUBSET Pkgs], S[m] \subseteq Under(m),
         pc = "solve",
         frames # <<>> =>
           /\ frames[1].deps # <<>>
           /\ m \in OnStack \/ cand[m] # NoPkg => Covered(Head(Top.deps))
           /\ \A a \in S[m] : Serves(a, Head(frames[1].deps))
  PROVE  pc' \in {"solve", "failed"} /\ (pc' = "failed" \/ Closing')
<1>1. CASE GiveUp
  BY <1>1 DEF GiveUp, Single
<1>2. CASE DepDone /\ (m \in OnStack \/ cand[m] # NoPkg)
  <2>1. CASE frames = <<>>
    <3>1. frames' = frames
      BY <1>2, <2>1 DEF DepDone
    <3> QED BY <1>2, <3>1, StillClosing DEF DepDone
  <2>2. CASE frames # <<>>
    <3>1. Covered(Head(Top.deps)) /\ frames[1].deps # <<>>
      BY <1>2, <2>2
    <3> QED BY <1>2, <2>2, <3>1, DoneCloses DEF DepDone
  <2> QED BY <2>1, <2>2
<1>3. CASE Pushed(Frame(m, S)) /\ UNCHANGED pc
  <2> DEFINE f == Frame(m, S)
  <2>1. f \in FrameTypes /\ f.art = NoPkg /\ f.all = S[m]
    <3>1. S[m] \subseteq Repo /\ (problem.kind = "install" => S[m] \subseteq OfName(Repo, m))
      BY SingleFacts, UnderOne DEF Under
    <3> QED BY <3>1, FrameStart
  <2>2. Pushed(f)
    BY <1>3
  <2> HIDE DEF f
  <2>3. Closing'
    BY <2>1, <2>2, PushCloses
  <2> QED BY <1>3, <2>3
<1> QED BY <1>1, <1>2, <1>3 DEF Call, Pushed

LEMMA PickCloses ==
  ASSUME SolverAssumption, SolverInv, KeyInv, Single, Closing, Pick
  PROVE  pc' \in {"solve", "failed"} /\ (pc' = "failed" \/ Closing')
<1>1. PICK n \in pList : Call(n, avail)
  BY DEF Pick
<1>2. /\ pc = "solve" /\ frames = <<>> /\ UNCHANGED <<problem, cand, prov>> /\ n \in Names
      /\ avail \in [Names -> SUBSET Pkgs]
  BY DEF Pick, SolverInv, StackInv, Types, MapTypes
<1>3. avail[n] \subseteq Under(n)
  BY <1>2, SingleFacts
<1> QED BY <1>1, <1>2, <1>3, CallCloses

\* What a require is settled by serves it.
LEMMA SettledCovered ==
  ASSUME SolverAssumption, SolverInv, KeyInv, Single, Closing, NEW n \in Names,
         OnSystem(n) \/ IsProvided(n) \/ cand[n] # NoPkg \/ n \in OnStack
  PROVE  Covered(n)
<1>1. CASE OnSystem(n)
  BY <1>1 DEF OnSystem, OfName, Covered, Serves
<1>2. CASE IsProvided(n)
  <2>1. PICK q \in Providers(prov, n) : TRUE
    BY <1>2 DEF IsProvided
  <2>2. q \in World \cup Candidates /\ n \in Provides[q]
    BY <2>1 DEF Providers, Closing
  <2> QED BY <2>2 DEF Covered, Serves
<1>3. CASE cand[n] # NoPkg
  <2>1. cand[n] \in Candidates /\ Serves(cand[n], n)
    BY <1>3, SingleFacts, UnderOne DEF Candidates
  <2> QED BY <2>1 DEF Covered
<1>4. CASE n \in OnStack
  <2>1. PICK a \in OnCalls : NameOf[a] = n
    BY <1>4 DEF OnStack, OnCalls
  <2> QED BY <2>1 DEF Covered, Serves
<1> QED BY <1>1, <1>2, <1>3, <1>4

LEMMA DepSettledCloses ==
  ASSUME SolverAssumption, SolverInv, KeyInv, Single, Closing, DepSettled
  PROVE  pc' = "solve" /\ Closing'
<1> DEFINE n == Head(Top.deps)
<1>1. /\ Depend /\ StackInv /\ DepDone /\ UNCHANGED <<problem, cand, prov>>
      /\ OnSystem(n) \/ IsProvided(n) \/ cand[n] # NoPkg \/ n \in OnStack
  BY DEF DepSettled, SolverInv
<1>2. n \in Names /\ frames # <<>> /\ frames[1].deps # <<>> /\ pc = "solve"
  BY <1>1, DependShape
<1>3. Covered(n)
  <2> HIDE DEF n
  <2> QED BY <1>1, <1>2, SettledCovered
<1> QED BY <1>1, <1>2, <1>3, DoneCloses DEF DepDone

\* What a require is searched by serves it.
LEMMA NamedServes ==
  ASSUME SolverAssumption, SolverInv, KeyInv, Single, NEW n \in Names, NEW found \in SUBSET Repo,
         \A b \in found : NameOf[b] # n => n \in Provides[b], NEW m \in Named(n, found),
         avail' = Added(avail, found)
  PROVE  /\ m \in Names /\ avail' \in [Names -> SUBSET Pkgs] /\ avail'[m] \subseteq Under(m)
         /\ \A a \in Under(m) : Serves(a, n)
         /\ m \in OnStack \/ cand[m] # NoPkg => Covered(n)
<1>1. m \in Names /\ problem \in Problems
  BY NamedNames, SingleFacts
<1>2. OfName(Repo, m) \subseteq Under(m) /\ avail[m] \subseteq Under(m) /\ avail \in [Names -> SUBSET Pkgs]
  BY <1>1, UnderOne, SingleFacts DEF SolverInv, StackInv, Types, MapTypes
<1>3. avail' \in [Names -> SUBSET Pkgs]
  BY <1>1, <1>2, RepoOrder DEF Added, OfName
<1>4. avail'[m] \subseteq Under(m)
  BY <1>1, <1>2 DEF Added, OfName
<1>5. ASSUME NEW a \in Under(m) PROVE Serves(a, n)
  <2>1. CASE m = n
    BY <1>1, <2>1, UnderOne
  <2>2. CASE m # n
    <3>1. PICK b \in found : NameOf[b] = m
      BY <2>2 DEF Named, NamesIn
    <3>2. b \in Under(m) /\ n \in Provides[b]
      BY <1>2, <2>2, <3>1 DEF OfName
    <3>3. a = b
      BY <1>1, <3>2, UnderOne
    <3> QED BY <3>2, <3>3 DEF Serves
  <2> QED BY <2>1, <2>2
<1>6. CASE m \in OnStack
  <2>1. PICK i \in DOMAIN frames : frames[i].art # NoPkg /\ NameOf[frames[i].art] = m
    BY <1>6 DEF OnStack, Range
  <2>2. frames[i].art \in Repo /\ frames[i].art \in OnCalls
    <3>1. frames[i].name \in Names /\ frames[i].art \in Under(frames[i].name)
      BY <2>1, SingleFacts
    <3>2. Under(frames[i].name) \subseteq Repo
      BY <1>1, <3>1, UnderOne
    <3> QED BY <2>1, <3>1, <3>2, CallOnCalls
  <2>3. frames[i].art \in Under(m)
    BY <1>2, <2>1, <2>2 DEF OfName
  <2>4. Covered(n)
    BY <1>5, <2>2, <2>3 DEF Covered
  <2> QED BY <1>1, <1>3, <1>4, <1>5, <2>4
<1>7. CASE cand[m] # NoPkg
  <2>1. cand[m] \in Under(m) /\ cand[m] \in Candidates
    BY <1>1, <1>7, SingleFacts DEF Candidates
  <2>2. Covered(n)
    BY <1>5, <2>1 DEF Covered
  <2> QED BY <1>1, <1>3, <1>4, <1>5, <2>2
<1> QED BY <1>1, <1>3, <1>4, <1>5, <1>6, <1>7

LEMMA SearchCloses ==
  ASSUME SolverAssumption, SolverInv, KeyInv, Single, Closing, UNCHANGED <<problem, cand, prov>>,
         NEW n \in Names, n = Head(Top.deps), Top = frames[1], frames[1].deps # <<>>, pc = "solve",
         NEW found \in SUBSET Repo, \A b \in found : NameOf[b] # n => n \in Provides[b],
         avail' = Added(avail, found), \E m \in Named(n, found) : Call(m, avail')
  PROVE  pc' \in {"solve", "failed"} /\ (pc' = "failed" \/ Closing')
<1>1. PICK m \in Named(n, found) : Call(m, avail')
  OBVIOUS
<1>2. /\ m \in Names /\ avail' \in [Names -> SUBSET Pkgs] /\ avail'[m] \subseteq Under(m)
      /\ \A a \in Under(m) : Serves(a, n)
      /\ m \in OnStack \/ cand[m] # NoPkg => Covered(n)
  BY NamedServes
<1> DEFINE S == avail'
<1>3. /\ Call(m, S) /\ S \in [Names -> SUBSET Pkgs] /\ S[m] \subseteq Under(m)
      /\ \A a \in S[m] : Serves(a, Head(frames[1].deps))
      /\ m \in OnStack \/ cand[m] # NoPkg => Covered(Head(Top.deps))
  BY <1>1, <1>2
<1> HIDE DEF S
<1> QED BY <1>2, <1>3, CallCloses

LEMMA ResolveCloses ==
  ASSUME SolverAssumption, SolverInv, KeyInv, Single, Closing, DepResolve
  PROVE  pc' \in {"solve", "failed"} /\ (pc' = "failed" \/ Closing')
<1> DEFINE n == Head(Top.deps)
<1>1. /\ StackInv /\ Depend
      /\ avail' = Added(avail, Searched(n)) /\ UNCHANGED <<problem, cand, prov>>
      /\ \E m \in Named(n, Searched(n)) : Call(m, avail')
  BY DEF DepResolve, SolverInv, Named, Searched
<1>2. /\ pc = "solve" /\ frames[1].deps # <<>> /\ Top = frames[1] /\ n \in Names
      /\ n = Head(Top.deps)
  BY <1>1, DependShape
<1>3. Searched(n) \in SUBSET Repo /\ \A b \in Searched(n) : NameOf[b] # n => n \in Provides[b]
  BY DEF Searched, Search
<1> HIDE DEF n
<1> QED BY <1>1, <1>2, <1>3, SearchCloses

LEMMA CandidatesGrow ==
  ASSUME SolverAssumption, SolverInv, KeyInv, Single, NEW n \in Names, NEW first \in Under(n),
         first # NoPkg, cand' = [cand EXCEPT ![n] = first]
  PROVE  Candidates' = Candidates \cup {first}
<1>1. cand \in [Names -> Pkgs \cup {NoPkg}]
  BY DEF SolverInv, StackInv, Types, MapTypes
<1>2. cand'[n] = first /\ \A k \in Names : k # n => cand'[k] = cand[k]
  BY <1>1
<1>3. cand[n] # NoPkg => cand[n] = first
  BY SingleFacts, UnderOne
<1>4. \A k \in Names : cand'[k] = NoPkg \/ cand'[k] \in Candidates \cup {first}
  BY <1>2 DEF Candidates
<1>5. \A k \in Names : cand[k] # NoPkg => cand[k] \in Candidates'
  BY <1>2, <1>3 DEF Candidates
<1>6. first \in Candidates' /\ Candidates' \subseteq Candidates \cup {first}
  BY <1>2, <1>4 DEF Candidates
<1>7. ASSUME NEW c \in Candidates PROVE c \in Candidates'
  <2>1. PICK k \in Names : c = cand[k] /\ c # NoPkg
    BY DEF Candidates
  <2> QED BY <1>5, <2>1
<1> QED BY <1>6, <1>7

\* The last call ends.
LEMMA LastCloses ==
  ASSUME SolverAssumption, SolverInv, KeyInv, Single, Closing, Len(frames) = 1, frames' = <<>>,
         UNCHANGED problem, Top.art # NoPkg, Top.deps = <<>>, Candidates' = Candidates \cup {Top.art},
         prov' \subseteq prov \cup {Top.art}
  PROVE  Closing'
<1>1. /\ DOMAIN frames = 1 .. 1 /\ Top = frames[1] /\ 1 \in DOMAIN frames
  BY StackShape, TopType DEF SolverInv
<1>2. OnCalls \subseteq {Top.art}
  BY <1>1 DEF OnCalls, Range
<1>3. \A n : Covered(n) => Covered(n)'
  BY <1>2, CoverKeeps
<1>4. Range(Top.deps) = {}
  BY DEF Range
<1>5. \A n \in Range(Requires[Top.art]) : Covered(n)
  <2>1. \A n \in Range(Requires[frames[1].art]) : Covered(n) \/ n \in Range(frames[1].deps)
    BY <1>1 DEF Closing, Pending
  <2> QED BY <1>1, <1>4, <2>1
<1>6. Complete'
  BY <1>3, <1>5 DEF Closing, Complete
<1>7. Linked' /\ Pending'
  BY DEF Linked, Pending
<1>8. prov' \subseteq World' \cup Candidates'
  BY SameProblem DEF Closing
<1> QED BY <1>6, <1>7, <1>8 DEF Closing

\* A call ends: its version is in the answer, and serves the caller's require.
LEMMA ResolvedCloses ==
  ASSUME SolverAssumption, SolverInv, KeyInv, Single, Closing, Resolved
  PROVE  pc' = "solve" /\ Closing'
<1> DEFINE first == Best(Valid(Top))
<1>1. /\ StackInv /\ Len(frames) > Outer /\ pc = "solve" /\ Top.art # NoPkg /\ Top.deps = <<>>
      /\ UNCHANGED <<problem, avail, merge, pList, pc>> /\ cand' = [cand EXCEPT ![Top.name] = first]
      /\ prov' = IF Provides[first] # {} THEN prov \cup {first} ELSE prov
      /\ IF Len(frames) = 1 THEN frames' = <<>> ELSE Popped(Settled(frames[2]))
  BY DEF Resolved, Resolving, SolverInv, Popped, Settled
<1>2. /\ frames \in Seq(FrameTypes) /\ Len(frames) \in Nat /\ DOMAIN frames = 1 .. Len(frames)
      /\ frames # <<>> /\ Top = frames[1] /\ 1 \in DOMAIN frames /\ Top \in FrameTypes
      /\ problem \in Problems /\ Top.name \in Names
  <2>1. frames # <<>>
    BY <1>1, StackShape
  <2>2. Top \in FrameTypes /\ Top = frames[1] /\ 1 \in DOMAIN frames
    BY <1>1, <2>1, TopType
  <2> QED BY <1>1, <2>1, <2>2, StackShape DEF FrameTypes
<1>3. /\ Tried(Top) /\ Top.art \in Top.all /\ Top.all \subseteq Under(Top.name)
      /\ \A a, b \in Top.all : a = b
  <2>1. 1 <= Len(frames) - Outer
    BY <1>1, <1>2, StackShape
  <2> QED BY <1>1, <1>2, <2>1, SingleFacts
<1>4. first = Top.art /\ first \in Under(Top.name) /\ first # NoPkg
  <2>1. first \in Top.all
    BY <1>1, <1>2, <1>3, FirstTried
  <2> HIDE DEF first
  <2> QED BY <1>1, <1>3, <2>1
<1> HIDE DEF first
<1>5. Candidates' = Candidates \cup {first}
  BY <1>1, <1>2, <1>4, CandidatesGrow
<1>6. prov' \subseteq World' \cup Candidates'
  BY <1>1, <1>5, SameProblem DEF Closing
<1>7. \A n \in Range(Requires[first]) : Covered(n)
  <2>1. Range(Top.deps) = {}
    BY <1>1 DEF Range
  <2> QED BY <1>1, <1>2, <1>4, <2>1 DEF Closing, Pending
<1>8. CASE Len(frames) = 1
  BY <1>1, <1>4, <1>5, <1>8, LastCloses
<1>9. CASE Len(frames) # 1
  <2> DEFINE f == Settled(frames[2])
  <2>1. Len(frames) >= 2 /\ 2 \in DOMAIN frames /\ frames[2] \in FrameTypes
    BY <1>2, <1>9
  <2>2. frames[2].deps # <<>> /\ frames[2].deps \in Seq(Names)
    BY <1>1, <2>1 DEF StackInv, Waiting, FrameTypes
  <2>3. f \in FrameTypes /\ f.all = frames[2].all /\ f.art = frames[2].art /\ f.deps = Tail(frames[2].deps)
    BY <2>1, <2>2, Settle
  <2>4. Popped(f)
    BY <1>1, <1>9
  <2> HIDE DEF f
  <2>5. /\ DOMAIN frames' = 1 .. Len(frames) - 1 /\ frames'[1] = f
        /\ \A i \in 2 .. Len(frames) - 1 : frames'[i] = frames[i + 1] /\ i + 1 \in DOMAIN frames
    BY <1>2, <2>1, <2>3, <2>4, PoppedAt
  <2>6. OnCalls \subseteq Candidates' \cup OnCalls'
    <3>1. ASSUME NEW i \in DOMAIN frames, frames[i].art # NoPkg
          PROVE  frames[i].art = first \/ \E j \in DOMAIN frames' : frames'[j].art = frames[i].art
      <4>1. CASE i = 1
        BY <1>2, <1>4, <4>1
      <4>2. CASE i = 2
        <5>1. 1 \in DOMAIN frames' /\ frames'[1].art = frames[i].art
          BY <1>2, <2>1, <2>3, <2>5, <4>2
        <5> QED BY <5>1
      <4>3. CASE i # 1 /\ i # 2
        <5>0. i \in 1 .. Len(frames) /\ Len(frames) \in Nat
          BY <1>2
        <5>1. i - 1 \in 2 .. Len(frames) - 1 /\ i = (i - 1) + 1
          BY <4>3, <5>0
        <5>2. PICK j \in 2 .. Len(frames) - 1 : i = j + 1
          BY <5>1
        <5>3. j \in 1 .. Len(frames) - 1
          BY <5>0, <5>2
        <5>4. j \in DOMAIN frames' /\ frames'[j] = frames[i]
          BY <2>5, <5>2, <5>3
        <5> QED BY <5>4
      <4> QED BY <4>1, <4>2, <4>3
    <3>2. ASSUME NEW a \in OnCalls PROVE a \in Candidates' \cup OnCalls'
      <4>1. PICK i \in DOMAIN frames : a = frames[i].art /\ a # NoPkg
        BY DEF OnCalls, Range
      <4>2. a = first \/ \E j \in DOMAIN frames' : frames'[j].art = a
        BY <3>1, <4>1
      <4> QED BY <1>5, <4>1, <4>2 DEF OnCalls, Range
    <3> QED BY <3>2
  <2>7. \A n : Covered(n) => Covered(n)'
    BY <1>1, <1>5, <2>6, CoverKeeps
  <2>8. Complete'
    BY <1>5, <1>7, <2>7 DEF Closing, Complete
  <2>9. ASSUME NEW i \in DOMAIN frames', i > 1, NEW a \in frames'[i - 1].all
        PROVE  Serves(a, Head(frames'[i].deps))
    <3>1. i \in 2 .. Len(frames) - 1
      BY <1>2, <2>5, <2>9
    <3>4. frames'[i] = frames[i + 1] /\ i + 1 \in DOMAIN frames
      BY <2>5, <3>1
    <3>2. frames'[i - 1].all = frames[i].all
      <4>1. CASE i = 2
        BY <2>3, <2>5, <4>1
      <4>2. CASE i # 2
        <5>1. i - 1 \in 2 .. Len(frames) - 1 /\ i - 1 + 1 = i
          BY <1>2, <2>5, <2>9, <4>2
        <5>2. frames'[i - 1] = frames[i]
          BY <2>5, <5>1
        <5> QED BY <5>2
      <4> QED BY <4>1, <4>2
    <3>3. PICK k \in DOMAIN frames : k = i + 1
      BY <3>4
    <3>5. k > 1 /\ i = k - 1
      BY <1>2, <3>1, <3>3
    <3>6. \A b \in frames[i].all : Serves(b, Head(frames[k].deps))
      BY <3>5, LinkAt DEF Closing
    <3> QED BY <2>9, <3>2, <3>3, <3>4, <3>6
  <2>10. ASSUME NEW i \in DOMAIN frames', frames'[i].art # NoPkg,
                NEW n \in Range(Requires[frames'[i].art])
         PROVE  Covered(n)' \/ n \in Range(frames'[i].deps)
    <3>1. CASE i = 1
      <4>1. Covered(n) \/ n \in Range(frames[2].deps)
        BY <2>1, <2>3, <2>5, <2>10, <3>1 DEF Closing, Pending
      <4>2. n \in Range(frames[2].deps) => n = Head(frames[2].deps) \/ n \in Range(f.deps)
        BY <2>2, <2>3, HeadOrTail
      <4>3. Serves(first, Head(frames[2].deps))
        <5>1. 2 > 1 /\ 1 = 2 - 1
          OBVIOUS
        <5>2. \A a \in frames[1].all : Serves(a, Head(frames[2].deps))
          BY <2>1, <5>1, LinkAt DEF Closing
        <5> QED BY <1>2, <1>3, <1>4, <5>2
      <4>4. n = Head(frames[2].deps) => Covered(n)'
        BY <1>5, <4>3 DEF Covered, Serves
      <4> QED BY <2>5, <2>7, <3>1, <4>1, <4>2, <4>4
    <3>2. CASE i # 1
      <4>1. frames'[i] = frames[i + 1] /\ i + 1 \in DOMAIN frames
        BY <1>2, <2>5, <3>2
      <4> QED BY <2>7, <2>10, <4>1 DEF Closing, Pending
    <3> QED BY <3>1, <3>2
  <2>11. Linked'
    BY <2>9 DEF Linked, Serves
  <2>12. Pending'
    BY <2>10 DEF Pending
  <2> QED BY <1>1, <1>6, <2>8, <2>11, <2>12 DEF Closing
<1> QED BY <1>8, <1>9

LEMMA CheckCloses ==
  ASSUME SolverAssumption, SolverInv, KeyInv, Single, Closing, Check
  PROVE  pc' = "solve" /\ Closing'
<1>1. PICK n \in pList : frames' = IF cand[n] = NoPkg THEN <<Frame(n, avail)>> ELSE <<>>
  BY DEF Check
<1>2. /\ frames = <<>> /\ Outer = 1 /\ n \in Names /\ pc' = "solve"
      /\ UNCHANGED <<problem, cand, prov>> /\ avail \in [Names -> SUBSET Pkgs]
  BY DEF Check, SolverInv, StackInv, Types, MapTypes
<1>3. CASE frames' = <<>>
  BY <1>2, <1>3, StillClosing
<1>4. CASE frames' = <<Frame(n, avail)>>
  <2> DEFINE f == Frame(n, avail)
  <2>1. avail[n] \subseteq Repo /\ problem.kind # "install"
    <3>1. problem \in Problems /\ avail[n] \subseteq Under(n)
      BY <1>2, SingleFacts
    <3>2. Under(n) \subseteq Repo
      BY <1>2, <3>1, UnderOne
    <3>3. problem.kind # "install"
      BY <1>2 DEF Outer
    <3> QED BY <3>1, <3>2, <3>3
  <2>2. f \in FrameTypes /\ f.art = NoPkg
    BY <1>2, <2>1, FrameStart
  <2>3. Pushed(f)
    BY <1>2, <1>4 DEF Pushed
  <2> HIDE DEF f
  <2> QED BY <1>2, <2>2, <2>3, PushCloses
<1> QED BY <1>1, <1>2, <1>3, <1>4

LEMMA TryUpgradeCloses ==
  ASSUME SolverAssumption, UpgradeAssumption, SolverInv, KeyInv, Single, Closing, TryUpgrade
  PROVE  pc' = "solve" /\ Closing'
<1>1. /\ Upgrading /\ Top.art = NoPkg /\ UNCHANGED <<problem, cand, prov>> /\ pc' = "solve"
  BY DEF TryUpgrade, Upgrading
<1>2. PICK f \in FrameTypes : SetTop(f) /\ f.all = Top.all /\ (f.art # NoPkg => f.deps = Requires[f.art])
  BY UpgradeTried
<1>3. frames # <<>>
  BY <1>1, UpShape
<1> QED BY <1>1, <1>2, <1>3, TopCloses

\* The outer call ends without a version, or gives up the one it tries: what
\* only this one served is lost.
LEMMA LostCloses ==
  ASSUME SolverAssumption, SolverInv, KeyInv, Single, UpgradeKeys, Closing, Upgrading,
         UNCHANGED <<problem, cand, prov>>,
         frames' = <<>> \/ (DOMAIN frames' = 1 .. 1 /\ frames'[1].art = NoPkg)
  PROVE  Closing'
<1>1. /\ DOMAIN frames = 1 .. 1 /\ Len(frames) = 1 /\ Top = frames[1] /\ frames # <<>>
      /\ problem.kind = "upgrade" /\ Outermost(Top)
  BY UpShape, StackShape
<1>2. Top.name \in Installed
  BY <1>1 DEF UpgradeKeys
<1>3. \A n : Lost(n)' = Lost(n)
  BY SameProblem DEF Lost, Abandonable, Installed
<1>4. Candidates' = Candidates /\ World' = World
  BY SameCandidates, SameProblem
<1>5. ASSUME NEW n, Covered(n) PROVE Covered(n)'
  <2>1. CASE Lost(n) \/ \E w \in World \cup Candidates : Serves(w, n)
    BY <1>3, <1>4, <2>1 DEF Covered
  <2>2. CASE \E w \in OnCalls : Serves(w, n)
    <3>1. PICK w \in OnCalls : Serves(w, n)
      BY <2>2
    <3>2. w = Top.art /\ w # NoPkg
      BY <1>1 DEF OnCalls, Range
    <3>3. w \in Versions(Top.name) /\ w \in Repo
      BY <1>1, <3>2 DEF Outermost, Versions
    <3>4. CASE n \in Installed
      <4>1. PICK x \in World : NameOf[x] = n
        BY <3>4 DEF Installed, NamesIn
      <4> QED BY <1>4, <4>1 DEF Covered, Serves
    <3>5. CASE n \notin Installed
      <4>1. w \in OfName(Repo, n) \cup Providers(Repo, n)
        BY <3>1, <3>3 DEF Serves, OfName, Providers
      <4>2. Lost(n)
        BY <1>1, <1>2, <3>3, <3>5, <4>1 DEF Lost, Abandonable
      <4> QED BY <1>3, <4>2 DEF Covered
    <3> QED BY <3>4, <3>5
  <2> QED BY <1>5, <2>1, <2>2 DEF Covered
<1>6. Complete'
  BY <1>4, <1>5 DEF Closing, Complete
<1>7. Linked' /\ Pending'
  BY DEF Linked, Pending
<1> QED BY <1>4, <1>6, <1>7 DEF Closing

LEMMA UpGiveUpCloses ==
  ASSUME SolverAssumption, UpgradeAssumption, SolverInv, KeyInv, Single, UpgradeKeys, Closing, UpGiveUp
  PROVE  pc' = "solve" /\ Closing'
<1>1. Upgrading /\ UNCHANGED <<problem, cand, prov>> /\ pc' = "solve"
  BY DEF UpGiveUp, UpDepend, Upgrading
<1>2. PICK f \in FrameTypes : SetTop(f) /\ f.art = NoPkg
  BY UpgradeGivenUp
<1>3. frames \in Seq(FrameTypes) /\ frames # <<>> /\ Len(frames) = 1
  BY <1>1, UpShape, StackShape
<1>4. DOMAIN frames' = 1 .. Len(frames) /\ frames'[1] = f
  BY <1>2, <1>3, ToppedAt
<1> QED BY <1>1, <1>2, <1>3, <1>4, LostCloses

LEMMA UpSettledCloses ==
  ASSUME SolverAssumption, SolverInv, KeyInv, Single, Closing, UpSettled
  PROVE  pc' = "solve" /\ Closing'
<1> DEFINE n == Head(Top.deps)
<1>1. /\ UpDepend /\ DepDone /\ UNCHANGED <<problem, cand, prov>>
      /\ OfName(World, n) # {} \/ IsProvided(n) \/ cand[n] # NoPkg \/ n \in OnStack
  BY DEF UpSettled
<1>2. n \in Names /\ frames # <<>> /\ frames[1].deps # <<>> /\ pc = "solve"
  BY <1>1, UpDependShape
<1>3. Covered(n)
  <2> HIDE DEF n
  <2>1. CASE OfName(World, n) # {}
    BY <2>1 DEF OfName, Covered, Serves
  <2> QED BY <1>1, <1>2, <2>1, SettledCovered
<1> QED BY <1>1, <1>2, <1>3, DoneCloses DEF DepDone

LEMMA UpResolveCloses ==
  ASSUME SolverAssumption, SolverInv, KeyInv, Single, Closing, UpResolve
  PROVE  pc' \in {"solve", "failed"} /\ (pc' = "failed" \/ Closing')
<1> DEFINE n == Head(Top.deps)
           found == Search(n, Top.art)
<1>1. /\ UpDepend /\ avail' = Added(avail, found) /\ UNCHANGED <<problem, cand, prov>>
      /\ \E m \in Named(n, found) : Call(m, avail')
  BY DEF UpResolve, Named
<1>2. /\ pc = "solve" /\ frames[1].deps # <<>> /\ n \in Names /\ n = Head(Top.deps) /\ Top = frames[1]
  BY <1>1, UpDependShape, UpShape
<1>3. found \in SUBSET Repo /\ \A b \in found : NameOf[b] # n => n \in Provides[b]
  BY DEF Search
<1> HIDE DEF n, found
<1> QED BY <1>1, <1>2, <1>3, SearchCloses

LEMMA UpgradedCloses ==
  ASSUME SolverAssumption, SolverInv, KeyInv, Single, Closing, Upgraded
  PROVE  pc' \in {"solve", "failed"} /\ (pc' = "failed" \/ Closing')
<1> DEFINE first == Best(Valid(Top))
<1>1. /\ Upgrading /\ Top.art # NoPkg /\ Top.deps = <<>> /\ UNCHANGED problem /\ frames' = <<>>
      /\ \/ /\ Valid(Top) # {} /\ cand' = [cand EXCEPT ![Top.name] = first] /\ UNCHANGED pc
            /\ prov' = IF Provides[first] # {} THEN prov \cup {first} ELSE prov
         \/ pc' = "failed"
  BY DEF Upgraded, Kept
<1>2. /\ pc = "solve" /\ Top.name \in Names /\ Top = frames[1] /\ Len(frames) = 1 /\ 1 \in DOMAIN frames
      /\ problem \in Problems /\ Top.all \subseteq Repo
  BY <1>1, UpShape, TopType
<1>3. CASE /\ Valid(Top) # {} /\ cand' = [cand EXCEPT ![Top.name] = first] /\ UNCHANGED pc
           /\ prov' = IF Provides[first] # {} THEN prov \cup {first} ELSE prov
  <2>1. Valid(Top) \in SUBSET Repo /\ Valid(Top) \subseteq Top.all
    BY <1>2 DEF Valid
  <2>2. first \in Top.all
    BY <1>2, <1>3, <2>1, BestFirst
  <2> HIDE DEF first
  <2>3. first = Top.art /\ first \in Under(Top.name) /\ first # NoPkg
    BY <1>1, <1>2, <2>2, SingleFacts
  <2>4. Candidates' = Candidates \cup {first}
    BY <1>2, <1>3, <2>3, CandidatesGrow
  <2> QED BY <1>1, <1>2, <1>3, <2>3, <2>4, LastCloses
<1> QED BY <1>1, <1>3

LEMMA ClosedInit == ASSUME SolverAssumption, UpgradeInit PROVE ClosedInv
<1>1. /\ frames = <<>> /\ cand = [n \in Names |-> NoPkg] /\ prov = {p \in World : Provides[p] # {}}
  BY DEF UpgradeInit, Init
<1>2. Linked /\ Pending
  BY <1>1 DEF Linked, Pending
<1>3. Complete
  BY <1>1 DEF Complete, Candidates
<1> QED BY <1>1, <1>2, <1>3 DEF ClosedInv, Closing

LEMMA ClosedNext ==
  ASSUME SolverAssumption, UpgradeAssumption, SolverInv, KeyInv, UpgradeKeys, ClosedInv,
         [UpgradeNext]_upgradeVars
  PROVE  ClosedInv'
<1> SUFFICES ASSUME Single'
             PROVE  (pc' = "done" => frames' = <<>>) /\ (pc' = "failed" \/ Doomed' \/ Closing')
  BY DEF ClosedInv
<1>1. UNCHANGED problem /\ Single
  BY SameProblemNext, SameProblem
<1>2. Outer \in {0, 1} /\ (frames = <<>> => Len(frames) = 0)
  BY DEF Outer
<1>3. (pc = "done" => frames = <<>>) /\ (pc = "failed" \/ Doomed \/ Closing)
  BY <1>1 DEF ClosedInv
<1>4. ASSUME UNCHANGED <<cand, prov, frames>>, pc' = "done" => frames = <<>>, pc = "failed" => pc' = pc
      PROVE  (pc' = "done" => frames' = <<>>) /\ (pc' = "failed" \/ Doomed' \/ Closing')
  BY <1>1, <1>3, <1>4, StillClosing
<1>5. CASE Next
  <2>1. CASE \E n \in Names : MergeProvides(n)
    <3>1. UNCHANGED <<cand, prov, frames, pc>>
      BY <2>1 DEF MergeProvides
    <3> QED BY <1>3, <1>4, <3>1
  <2>2. CASE Merged
    <3>1. UNCHANGED <<cand, prov, frames>> /\ pc = "merge" /\ pc' = "solve"
      BY <2>2 DEF Merged
    <3> QED BY <1>4, <3>1
  <2>3. CASE Pick
    <3>1. Closing
      BY <1>2, <1>3, <2>3 DEF Pick, Doomed
    <3> QED BY <1>1, <2>3, <3>1, PickCloses
  <2>4. CASE TryVersion
    <3>1. Closing /\ pc' = "solve"
      BY <1>3, <2>4 DEF TryVersion, Resolving, Doomed
    <3> QED BY <1>1, <2>4, <3>1, TryCloses
  <2>5. CASE NoVersion
    <3>1. pc' # "done"
      BY <2>5 DEF NoVersion, Resolving, GiveUp
    <3> QED BY <1>1, <2>5, <3>1, NoVersionCloses
  <2>6. CASE DepSettled
    <3>1. Closing
      BY <1>3, <2>6 DEF DepSettled, Depend, Resolving, Doomed
    <3> QED BY <1>1, <2>6, <3>1, DepSettledCloses
  <2>7. CASE DepStuck
    <3>1. pc' = "solve"
      BY <2>7 DEF DepStuck, Depend, Resolving
    <3> QED BY <1>1, <2>7, <3>1, StuckCloses
  <2>8. CASE DepResolve
    <3>1. Closing
      BY <1>3, <2>8 DEF DepResolve, Depend, Resolving, Doomed
    <3> QED BY <1>1, <2>8, <3>1, ResolveCloses
  <2>9. CASE Resolved
    <3>1. Closing
      BY <1>3, <2>9 DEF Resolved, Resolving, Doomed
    <3> QED BY <1>1, <2>9, <3>1, ResolvedCloses
  <2>10. CASE Done
    <3>1. UNCHANGED <<cand, prov, frames>> /\ frames = <<>> /\ pc = "solve"
      BY <2>10 DEF Done
    <3> QED BY <1>4, <3>1
  <2> QED BY <1>5, <2>1, <2>2, <2>3, <2>4, <2>5, <2>6, <2>7, <2>8, <2>9, <2>10 DEF Next
<1>6. CASE (\E n \in Names : Analyse(n)) \/ Analysed \/ UpgradeDone
  <2>1. UNCHANGED <<cand, prov, frames>> /\ pc # "failed" /\ (pc' = "done" => frames = <<>>)
    BY <1>6 DEF Analyse, Analysed, UpgradeDone
  <2> QED BY <1>4, <2>1
<1>7. CASE Check \/ TryUpgrade \/ Stay \/ UpSettled \/ UpGiveUp \/ UpResolve \/ Upgraded
  <2>1. Outer = 1 /\ Len(frames) <= 1 /\ pc = "solve"
    <3>1. CASE Check
      <4>1. Outer = 1 /\ frames = <<>> /\ pc = "solve"
        BY <3>1 DEF Check
      <4> QED BY <4>1
    <3>2. CASE TryUpgrade \/ Stay \/ UpSettled \/ UpGiveUp \/ UpResolve \/ Upgraded
      <4>1. Upgrading
        BY <3>2 DEF TryUpgrade, Stay, UpSettled, UpDepend, UpGiveUp, UpResolve, Upgraded
      <4> QED BY <4>1 DEF Upgrading
    <3> QED BY <1>7, <3>1, <3>2
  <2>2. Closing
    BY <1>3, <2>1 DEF Doomed
  <2>3. CASE Check
    BY <1>1, <2>2, <2>3, CheckCloses
  <2>4. CASE TryUpgrade
    BY <1>1, <2>2, <2>4, TryUpgradeCloses
  <2>5. CASE Stay
    <3>1. Upgrading /\ frames' = <<>> /\ UNCHANGED <<problem, cand, prov, pc>>
      BY <2>5 DEF Stay
    <3> QED BY <1>1, <2>1, <2>2, <3>1, LostCloses
  <2>6. CASE UpSettled
    BY <1>1, <2>2, <2>6, UpSettledCloses
  <2>7. CASE UpGiveUp
    BY <1>1, <2>2, <2>7, UpGiveUpCloses
  <2>8. CASE UpResolve
    BY <1>1, <2>2, <2>8, UpResolveCloses
  <2>9. CASE Upgraded
    BY <1>1, <2>2, <2>9, UpgradedCloses
  <2> QED BY <1>7, <2>3, <2>4, <2>5, <2>6, <2>7, <2>8, <2>9
<1>8. CASE UNCHANGED upgradeVars
  <2>1. UNCHANGED <<cand, prov, frames, pc>>
    BY <1>8 DEF upgradeVars, vars
  <2> QED BY <1>3, <1>4, <2>1
<1> QED BY <1>5, <1>6, <1>7, <1>8 DEF UpgradeNext

ClosingInv == SolverInv /\ KeyInv /\ UpgradeKeys /\ ClosedInv

\* No answer is complete by what a pending or failed attempt leaves.
LEMMA ClosingInvariant == UpgradeSpec => []ClosingInv
<1>1. UpgradeInit => ClosingInv
  BY SolverAssumption, UpgradeAssumption, InitHolds, KeyInit, UpgradeKeysInit, ClosedInit DEF ClosingInv
<1>2. ClosingInv /\ [UpgradeNext]_upgradeVars => ClosingInv'
  BY SolverAssumption, UpgradeAssumption, NextKeeps, KeyNext, UpgradeKeysNext, ClosedNext DEF ClosingInv
<1> QED BY <1>1, <1>2, PTL DEF UpgradeSpec

LEMMA AnswerCovered ==
  ASSUME ClosedInv, Single, pc = "done", NEW p \in Candidates, NEW n \in Range(Requires[p])
  PROVE  Lost(n) \/ \E w \in World \cup Candidates : Serves(w, n)
<1>1. frames = <<>> /\ (pc = "failed" \/ Doomed \/ Closing)
  BY DEF ClosedInv
<1>2. Len(frames) = 0 /\ Outer \in {0, 1}
  BY <1>1 DEF Outer
<1>3. Closing
  BY <1>1, <1>2 DEF Doomed
<1>4. OnCalls = {}
  BY <1>1 DEF OnCalls, Range
<1> QED BY <1>3, <1>4 DEF Closing, Complete, Covered

\* When the repositories hold one version of each name, an install that
\* succeeds without --force has found all that its answer requires: a failed
\* attempt leaves nothing, and the cycles of requires are closed too.
THEOREM ClosedWhenSingleCorrect == UpgradeSpec => []ClosedWhenSingle
<1>1. ClosingInv => ClosedWhenSingle
  <2> SUFFICES ASSUME ClosingInv, Installs, ~problem.force, OneVersionEach,
                      NEW p \in Candidates, NEW n \in Range(Requires[p])
               PROVE  \E w \in World \cup Candidates : n = NameOf[w] \/ n \in Provides[w]
    BY DEF ClosedWhenSingle, HasRequires
  <2>1. Single /\ pc = "done" /\ ClosedInv /\ ~Lost(n)
    BY DEF Single, Installs, ClosingInv, Lost
  <2> QED BY <2>1, AnswerCovered DEF Serves
<1> QED BY <1>1, ClosingInvariant, PTL

-----------------------------------------------------------------------------
(* The system after an upgrade with its dependencies.                      *)

AnswerInv == Answered /\ ~problem.nodeps => answer = Packs(Removals(Chosen), Chosen)

LEMMA AnswerNext == ASSUME AnswerInv, [UpgradeNext]_upgradeVars PROVE AnswerInv'
<1>0. UNCHANGED <<problem, Outer>>
  BY SameProblemNext, SameProblem
<1>1. CASE UpgradeDone
  <2>1. UNCHANGED <<problem, cand>>
    BY <1>1 DEF UpgradeDone
  <2>2. UNCHANGED <<Chosen, Removals(Chosen)>>
    BY <2>1, SameProblem DEF Chosen, Removals, Installed
  <2>3. UNCHANGED Packs(Removals(Chosen), Chosen)
    BY <2>1, <2>2, SameProblem DEF Packs, Updates, InstallsOf, Installed, Chosen
  <2>4. pc' = "failed" \/ problem.nodeps \/ answer' = Packs(Removals(Chosen), Chosen)
    BY <1>1 DEF UpgradeDone
  <2> QED BY <2>1, <2>3, <2>4 DEF AnswerInv, Answered
<1>2. CASE UNCHANGED upgradeVars
  <2>1. UNCHANGED <<problem, cand, pc, answer>>
    BY <1>2 DEF upgradeVars, vars
  <2>2. UNCHANGED <<Chosen, Removals(Chosen)>>
    BY <2>1, SameProblem DEF Chosen, Removals, Installed
  <2>3. UNCHANGED Packs(Removals(Chosen), Chosen)
    BY <2>1, <2>2, SameProblem DEF Packs, Updates, InstallsOf, Installed, Chosen
  <2> QED BY <2>1, <2>3 DEF AnswerInv, Answered
<1>3. CASE ~UpgradeDone /\ ~UNCHANGED upgradeVars
  <2>1. pc' # "done" \/ Done
    BY <1>3 DEF UpgradeNext, Next, MergeProvides, Merged, Pick, TryVersion, NoVersion,
       DepSettled, DepStuck, DepResolve, Resolved, Resolving, Depend, Done, Call, GiveUp, DepDone,
       Analyse, Analysed, Check, TryUpgrade, Upgrading,
       Stay, UpSettled, UpDepend, UpGiveUp, UpResolve, Upgraded
  <2> QED BY <1>0, <2>1 DEF AnswerInv, Answered, Done, Outer
<1> QED BY <1>1, <1>2, <1>3

LEMMA AllAnswered ==
  ASSUME SolverAssumption, SolverInv, KeyInv, Single, problem.kind = "upgrade",
         answer = Packs(Removals(Chosen), Chosen)
  PROVE  New = Candidates
<1>1. /\ answer.update = Updates(Chosen)
      /\ \A a \in Pkgs : answer.install[a] = Cardinality(InstallsOf(a, Chosen))
  BY DEF Packs
<1>2. Chosen \subseteq Names /\ \A m \in Chosen : cand[m] \in Candidates /\ cand[m] \in Pkgs /\ cand[m] \in Under(m)
  BY AnswerTypes, SingleFacts DEF Chosen, Candidates
<1>3. ASSUME NEW a \in New PROVE a \in Candidates
  <2>1. CASE a \in answer.update
    BY <1>1, <1>2, <2>1 DEF Updates
  <2>2. CASE a \in Pkgs /\ answer.install[a] > 0
    <3>1. Cardinality(InstallsOf(a, Chosen)) > 0
      BY <1>1, <2>2
    <3>2. InstallsOf(a, Chosen) # {}
      <4> SUFFICES ASSUME InstallsOf(a, Chosen) = {} PROVE FALSE
        OBVIOUS
      <4>1. Cardinality(InstallsOf(a, Chosen)) = 0
        BY FS_EmptySet
      <4> QED BY <3>1, <4>1
    <3> QED BY <1>2, <3>2 DEF InstallsOf
  <2> QED BY <2>1, <2>2 DEF New
<1>4. ASSUME NEW c \in Candidates PROVE c \in New
  <2>1. PICK m \in Chosen : cand[m] = c
    BY DEF Candidates, Chosen
  <2>2. CASE c \in Updates(Chosen) \/ Cardinality(InstallsOf(c, Chosen)) > 0
    BY <1>1, <1>2, <2>1, <2>2 DEF New
  <2>3. CASE NameOf[c] # m /\ NameOf[c] \in Chosen
    <3> DEFINE k == NameOf[c]
    <3>1. cand[k] \in Under(k) /\ c \in OfName(Repo, k)
      <4>1. c \in Repo
        BY <2>1, AnswerTypes DEF Keyed
      <4> QED BY <1>2, <2>3, <4>1 DEF OfName
    <3>2. cand[k] = c
      BY <1>2, <2>3, <3>1, UnderOne, SingleFacts
    <3>3. c \in Updates(Chosen) \/ Cardinality(InstallsOf(c, Chosen)) > 0
      <4>1. k \in Chosen /\ Chosen \in SUBSET Chosen
        BY <2>3
      <4> HIDE DEF k
      <4>2. \/ cand[k] \in Updates(Chosen) \/ Cardinality(InstallsOf(cand[k], Chosen)) > 0
            \/ NameOf[cand[k]] # k
        BY <4>1, NameAnswered
      <4> QED BY <3>2, <4>2 DEF k
    <3> QED BY <2>2, <3>3
  <2> QED BY <2>1, <2>2, <2>3, NameAnswered
<1> QED BY <1>3, <1>4

\* A candidate serves all that a removed package does.
LEMMA RemovedServed ==
  ASSUME SolverAssumption, SolverInv, KeyInv, OneUpgradeEach,
         NEW w \in World, NameOf[w] \in Removals(Chosen)
  PROVE  \E c \in Candidates : \A n : Serves(w, n) => Serves(c, n)
<1>1. PICK m \in Chosen : NameOf[w] = m \/ NameOf[w] \in Provides[cand[m]]
  BY DEF Removals
<1>2. cand[m] \in Candidates /\ cand[m] \in Keyed(m)
  BY AnswerTypes DEF Chosen, Candidates
<1>3. cand[m] \in Versions(NameOf[w])
  BY <1>1, <1>2 DEF Keyed, Versions
<1>4. Provides[w] \subseteq {NameOf[cand[m]]} \cup Provides[cand[m]]
  BY <1>3 DEF OneUpgradeEach
<1> QED BY <1>2, <1>3, <1>4 DEF Serves, Versions

LEMMA StillServed ==
  ASSUME SolverAssumption, SolverInv, KeyInv, Single, problem.kind = "upgrade",
         answer = Packs(Removals(Chosen), Chosen), NEW n,
         NEW x \in World \cup Candidates, Serves(x, n)
  PROVE  \E w \in Stays \cup New : n = NameOf[w] \/ n \in Provides[w]
<1>1. New = Candidates /\ answer.remove = Removals(Chosen) /\ OneUpgradeEach
  BY AllAnswered DEF Packs, Single
<1>2. CASE x \in Candidates \/ x \in Stays
  BY <1>1, <1>2 DEF Serves
<1>3. CASE x \in World /\ x \notin Stays
  <2>1. NameOf[x] \in Removals(Chosen)
    BY <1>1, <1>3 DEF Stays
  <2> QED BY <1>1, <1>3, <2>1, RemovedServed DEF Serves
<1> QED BY <1>2, <1>3

\* After an upgrade without --nodeps and --force each require has a package, of
\* the system or of the answer, when the repositories hold one version of each
\* name and one upgrade of each installed one (checkCandidate2Upgrade); only
\* what a version of an installed name served may be lost, when it is given up.
THEOREM UpgradeClosesCorrect == UpgradeSpec => []UpgradeCloses
<1>1. ClosingInv /\ AnswerInv => UpgradeCloses
  <2> SUFFICES ASSUME ClosingInv, AnswerInv, Answered, ~problem.nodeps, ~problem.force,
                      OneVersionEach, OneUpgradeEach,
                      \A w \in World : \A n \in Range(Requires[w]) :
                        \E x \in World : n = NameOf[x] \/ n \in Provides[x],
                      NEW p \in Stays \cup New, NEW n \in Range(Requires[p])
               PROVE  Abandonable(n) \/ \E w \in Stays \cup New : n = NameOf[w] \/ n \in Provides[w]
    BY DEF UpgradeCloses, StillRequires
  <2>1. /\ SolverInv /\ KeyInv /\ ClosedInv /\ Single /\ pc = "done" /\ problem.kind = "upgrade"
        /\ answer = Packs(Removals(Chosen), Chosen)
    BY DEF ClosingInv, AnswerInv, Answered, Single
  <2>2. New = Candidates
    BY <2>1, SolverAssumption, AllAnswered
  <2>3. Abandonable(n) \/ \E x \in World \cup Candidates : Serves(x, n)
    <3>1. CASE p \in Stays
      BY <3>1 DEF Stays, Serves
    <3>2. CASE p \in Candidates
      BY <2>1, <3>2, AnswerCovered DEF Lost
    <3> QED BY <2>2, <3>1, <3>2
  <2> QED BY <2>1, <2>3, SolverAssumption, StillServed
<1>2. UpgradeInit => AnswerInv
  <2>1. UpgradeInit => pc # "done"
    BY DEF UpgradeInit, Init
  <2> QED BY <2>1 DEF AnswerInv, Answered
<1>3. AnswerInv /\ [UpgradeNext]_upgradeVars => AnswerInv'
  BY AnswerNext
<1>4. UpgradeSpec => []AnswerInv
  BY <1>2, <1>3, PTL DEF UpgradeSpec
<1> QED BY <1>1, <1>4, ClosingInvariant, PTL
================================================================================
