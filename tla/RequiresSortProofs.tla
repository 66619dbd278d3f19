----------------------------- MODULE RequiresSortProofs ---------------------------
(***************************************************************************)
(* The sort by requires and what anise and anise-build do with it, for     *)
(* every number of names, graph of requires, tree of specifications and    *)
(* plan, in whatever order Go iterates the maps.                           *)
(*  - The order of operations is complete, removes before it adds, and     *)
(*    without a cycle adds a package after its requires.  SortInv follows  *)
(*    each package through the sort (list, queue, answer), MergeInv the    *)
(*    operations through the merge, CutInv and StallInv say what the       *)
(*    breaks of a cycle leave of the requires and when one is made.        *)
(*  - The solutions of anise-build are closed and ordered: BuildInv.       *)
(*  - The packages that anise-build writes hold the specifications of now: *)
(*    TaskInv, over the contents that the hashes of the images stand for.  *)
(***************************************************************************)
EXTENDS OpsOrder, BuildManager, FunctionTheorems, FiniteSetTheorems, SequenceTheorems,
        WellFoundedInduction, TLAPS

-----------------------------------------------------------------------------
(* Parts of a sequence.                                                    *)

LEMMA HeadAndTail ==
  ASSUME NEW T, NEW s \in Seq(T), s # <<>>
  PROVE  Head(s) \in T /\ Tail(s) \in Seq(T) /\ Range(s) = {Head(s)} \cup Range(Tail(s))
<1>1. /\ Head(s) \in T /\ Tail(s) \in Seq(T) /\ Head(s) = s[1] /\ Len(s) \in Nat \ {0}
      /\ DOMAIN s = 1 .. Len(s) /\ DOMAIN Tail(s) = 1 .. Len(s) - 1
      /\ \A i \in 1 .. Len(s) - 1 : Tail(s)[i] = s[i + 1]
  BY HeadTailProperties, LenProperties, EmptySeq
<1>2. ASSUME NEW x \in Range(s), x # s[1] PROVE x \in Range(Tail(s))
  <2>1. PICK i \in 1 .. Len(s) : x = s[i]
    BY <1>1, <1>2 DEF Range
  <2>2. i - 1 \in 1 .. Len(s) - 1 /\ (i - 1) + 1 = i
    BY <1>1, <1>2, <2>1
  <2>3. Tail(s)[i - 1] = x
    BY <1>1, <2>1, <2>2
  <2> QED BY <1>1, <2>2, <2>3 DEF Range
<1>3. ASSUME NEW x \in Range(Tail(s)) PROVE x \in Range(s)
  <2>1. PICK i \in 1 .. Len(s) - 1 : x = Tail(s)[i]
    BY <1>1, <1>3 DEF Range
  <2>2. i + 1 \in 1 .. Len(s) /\ x = s[i + 1]
    BY <1>1, <2>1
  <2> QED BY <1>1, <2>2 DEF Range
<1>4. s[1] \in Range(s)
  BY <1>1 DEF Range
<1> QED BY <1>1, <1>2, <1>3, <1>4

LEMMA RangeOfConcat ==
  ASSUME NEW T, NEW s \in Seq(T), NEW t \in Seq(T)
  PROVE  s \o t \in Seq(T) /\ Range(s \o t) = Range(s) \cup Range(t)
<1> DEFINE c == s \o t
<1>1. /\ c \in Seq(T) /\ Len(s) \in Nat /\ Len(t) \in Nat /\ DOMAIN c = 1 .. Len(s) + Len(t)
      /\ DOMAIN s = 1 .. Len(s) /\ DOMAIN t = 1 .. Len(t)
      /\ \A i \in 1 .. Len(s) : c[i] = s[i]
      /\ \A i \in 1 .. Len(t) : c[Len(s) + i] = t[i]
  BY ConcatProperties, LenProperties
<1> HIDE DEF c
<1>2. ASSUME NEW x \in Range(c) PROVE x \in Range(s) \cup Range(t)
  <2>1. PICK i \in 1 .. Len(s) + Len(t) : x = c[i]
    BY <1>1, <1>2 DEF Range
  <2>2. CASE i \in 1 .. Len(s)
    BY <1>1, <2>1, <2>2 DEF Range
  <2>3. CASE i \notin 1 .. Len(s)
    <3>1. i - Len(s) \in 1 .. Len(t) /\ Len(s) + (i - Len(s)) = i
      BY <1>1, <2>1, <2>3
    <3>2. x = t[i - Len(s)]
      BY <1>1, <2>1, <3>1
    <3> QED BY <1>1, <3>1, <3>2 DEF Range
  <2> QED BY <2>2, <2>3
<1>3. ASSUME NEW x \in Range(s) PROVE x \in Range(c)
  BY <1>1, <1>3 DEF Range
<1>4. ASSUME NEW x \in Range(t) PROVE x \in Range(c)
  <2>1. PICK i \in 1 .. Len(t) : x = t[i]
    BY <1>1, <1>4 DEF Range
  <2>2. Len(s) + i \in 1 .. Len(s) + Len(t) /\ c[Len(s) + i] = x
    BY <1>1, <2>1
  <2> QED BY <1>1, <2>2 DEF Range
<1>5. Range(c) = Range(s) \cup Range(t)
  BY <1>2, <1>3, <1>4
<1> QED BY <1>1, <1>5 DEF c

-----------------------------------------------------------------------------
(* Sequences without repetition.                                           *)

LEMMA TailOfInjective ==
  ASSUME NEW T, NEW s \in Seq(T), s # <<>>, IsInjective(s)
  PROVE  /\ Head(s) \in T /\ Tail(s) \in Seq(T) /\ IsInjective(Tail(s))
         /\ Head(s) \in Range(s) /\ Range(Tail(s)) = Range(s) \ {Head(s)}
<1>1. /\ Head(s) \in T /\ Tail(s) \in Seq(T) /\ Len(Tail(s)) = Len(s) - 1 /\ Head(s) = s[1]
      /\ Len(s) \in Nat \ {0}
      /\ DOMAIN s = 1 .. Len(s) /\ DOMAIN Tail(s) = 1 .. Len(s) - 1
      /\ \A i \in 1 .. Len(s) - 1 : Tail(s)[i] = s[i + 1]
  BY HeadTailProperties, LenProperties, EmptySeq
<1>2. IsInjective(Tail(s)) /\ Head(s) \in Range(s)
  BY <1>1 DEF IsInjective, Range
<1>3. ASSUME NEW x \in Range(Tail(s)) PROVE x \in Range(s) \ {Head(s)}
  BY <1>1 DEF Range, IsInjective
<1>4. ASSUME NEW x \in Range(s) \ {Head(s)} PROVE x \in Range(Tail(s))
  <2>1. PICK i \in 1 .. Len(s) : x = s[i]
    BY <1>1, <1>4 DEF Range
  <2>2. i # 1 /\ i - 1 \in 1 .. Len(s) - 1
    BY <1>1, <1>4, <2>1
  <2>3. Tail(s)[i - 1] = x
    BY <1>1, <2>1, <2>2
  <2> QED
    BY <1>1, <2>2, <2>3 DEF Range
<1> QED
  BY <1>1, <1>2, <1>3, <1>4

LEMMA AppendToInjective ==
  ASSUME NEW T, NEW s \in Seq(T), NEW x \in T, IsInjective(s), x \notin Range(s)
  PROVE  /\ Append(s, x) \in Seq(T) /\ IsInjective(Append(s, x))
         /\ Range(Append(s, x)) = Range(s) \cup {x}
<1> DEFINE a == Append(s, x)
<1>1. /\ a \in Seq(T) /\ Len(s) \in Nat
      /\ DOMAIN s = 1 .. Len(s) /\ DOMAIN a = 1 .. Len(s) + 1
      /\ \A i \in 1 .. Len(s) : a[i] = s[i]
      /\ a[Len(s) + 1] = x
  BY LenProperties
<1> HIDE DEF a
<1>2. IsInjective(a)
  BY <1>1 DEF IsInjective, Range
<1>3. Range(a) = Range(s) \cup {x}
  <2>1. ASSUME NEW y \in Range(a) PROVE y \in Range(s) \cup {x}
    BY <1>1, <2>1 DEF Range
  <2>2. ASSUME NEW y \in Range(s) PROVE y \in Range(a)
    BY <1>1, <2>2 DEF Range
  <2>3. x \in Range(a)
    BY <1>1 DEF Range
  <2> QED
    BY <2>1, <2>2, <2>3
<1> QED
  BY <1>1, <1>2, <1>3 DEF a

\* A sequence of all the elements of a set, each once.
LEMMA SetAsSeq ==
  ASSUME NEW T, NEW S \in SUBSET T, IsFiniteSet(S), NEW s \in SetToSeqs(S)
  PROVE  /\ s \in Seq(T) /\ IsInjective(s) /\ Range(s) = S
         /\ Cardinality(S) \in Nat /\ DOMAIN s = 1 .. Cardinality(S)
<1> DEFINE D == 1 .. Cardinality(S)
<1>1. s \in [D -> S] /\ \A i, j \in D : i # j => s[i] # s[j]
  BY DEF SetToSeqs
<1>2. Cardinality(S) \in Nat
  BY FS_CardinalityType
<1>3. IsFiniteSet(D) /\ Cardinality(D) = Cardinality(S)
  BY <1>2, FS_Interval
<1>4. s \in Injection(D, S)
  BY <1>1, Fun_IsInj
<1>5. s \in Surjection(D, S)
  BY <1>3, <1>4, FS_Injection
<1>6. Range(s) = S
  BY <1>5, Fun_SurjectionProperties
<1>7. s \in Seq(T)
  BY <1>1, <1>2
<1>8. DOMAIN s = D
  BY <1>1
<1>9. IsInjective(s)
  BY <1>1, <1>8 DEF IsInjective
<1> QED
  BY <1>2, <1>6, <1>7, <1>8, <1>9

LEMMA NamesFinite == \A S \in SUBSET Names : IsFiniteSet(S)
<1>1. 1 \in Int /\ N \in Int
  BY NamesAssumption DEF NamesAssumption
<1>2. IsFiniteSet(1 .. N)
  BY <1>1, FS_Interval
<1> QED
  BY <1>2, FS_Subset DEF Names

-----------------------------------------------------------------------------
(* Induction, from the least number of a set.                              *)

LEMMA LeastNumber ==
  ASSUME NEW T, T \subseteq Nat, T # {}
  PROVE  \E k \in T : \A j \in T : k <= j
<1> DEFINE less == {s \in Nat \X Nat : s[1] < s[2]}
<1>1. IsWellFoundedOn(less, Nat)
  BY NatLessThanWellFounded DEF OpToRel
<1>2. \E k \in T : \A j \in T : <<j, k>> \notin less
  <2> HIDE DEF less
  <2> QED BY <1>1, WFMin
<1>3. \A k, j \in T : <<j, k>> \notin less => k <= j
  OBVIOUS
<1> QED BY <1>2, <1>3

\* A set that holds 0 and, with each number below n, the next one.
LEMMA UpTo ==
  ASSUME NEW n \in Nat, NEW T, 0 \in T, \A k \in 0 .. n - 1 : k \in T => k + 1 \in T
  PROVE  \A k \in 0 .. n : k \in T
<1> DEFINE Rest == {k \in 0 .. n : k \notin T}
<1> SUFFICES ASSUME Rest # {} PROVE FALSE
  OBVIOUS
<1>1. Rest \subseteq Nat
  OBVIOUS
<1>2. PICK k \in Rest : \A j \in Rest : k <= j
  <2> HIDE DEF Rest
  <2> QED BY <1>1, LeastNumber
<1>3. k \in 0 .. n /\ k \notin T /\ k # 0 /\ k - 1 \in 0 .. n - 1 /\ k = (k - 1) + 1
  OBVIOUS
<1>4. k - 1 \notin T
  BY <1>3
<1>5. k - 1 \in Rest
  BY <1>3, <1>4
<1>6. k <= k - 1
  BY <1>2, <1>5
<1> QED BY <1>3, <1>6

\* The recursive functions of the model exist: each value is given by the one before.
Chain(f, n, a, G, X) ==
  f \in [0 .. n -> X] /\ f[0] = a /\ \A k \in 1 .. n : f[k] = G[<<k, f[k - 1]>>]

LEMMA ChainExists ==
  ASSUME NEW X, NEW a \in X, NEW n \in Nat, NEW G \in [(1 .. n) \X X -> X]
  PROVE  \E f : Chain(f, n, a, G, X)
<1> DEFINE Made(f, m) == f[0] = a /\ \A k \in 1 .. m : f[k] = G[<<k, f[k - 1]>>]
           T == {m \in 0 .. n : \E f \in [0 .. m -> X] : Made(f, m)}
<1>1. 0 \in T
  <2> DEFINE f == [i \in 0 .. 0 |-> a]
  <2>1. f \in [0 .. 0 -> X] /\ f[0] = a
    OBVIOUS
  <2> HIDE DEF f
  <2>2. Made(f, 0)
    BY <2>1
  <2> QED BY <2>1, <2>2
<1>2. ASSUME NEW m \in 0 .. n - 1, m \in T PROVE m + 1 \in T
  <2>1. PICK f \in [0 .. m -> X] : Made(f, m)
    BY <1>2
  <2> DEFINE v == G[<<m + 1, f[m]>>]
             g == [i \in 0 .. m + 1 |-> IF i = m + 1 THEN v ELSE f[i]]
  <2>2. v \in X
    <3>1. m + 1 \in 1 .. n /\ f[m] \in X
      OBVIOUS
    <3> QED BY <3>1
  <2> HIDE DEF v
  <2>3. g \in [0 .. m + 1 -> X] /\ g[m + 1] = v /\ \A i \in 0 .. m : g[i] = f[i]
    BY <2>2
  <2> HIDE DEF g
  <2>4. ASSUME NEW k \in 1 .. m + 1 PROVE g[k] = G[<<k, g[k - 1]>>]
    <3>1. CASE k = m + 1
      <4>1. k - 1 = m /\ g[m] = f[m]
        BY <2>3, <3>1
      <4> QED BY <2>3, <3>1, <4>1 DEF v
    <3>2. CASE k # m + 1
      <4>1. k \in 1 .. m /\ k - 1 \in 0 .. m /\ k \in 0 .. m
        BY <3>2
      <4> QED BY <2>1, <2>3, <4>1
    <3> QED BY <3>1, <3>2
  <2>5. g[0] = a
    BY <2>1, <2>3
  <2>6. m + 1 \in 0 .. n
    OBVIOUS
  <2> QED BY <2>3, <2>4, <2>5, <2>6
<1>3. \A k \in 0 .. n : k \in T
  <2> HIDE DEF T
  <2> QED BY <1>1, <1>2, UpTo
<1>4. n \in T
  <2> HIDE DEF T
  <2> QED BY <1>3
<1> QED BY <1>4 DEF Chain

-----------------------------------------------------------------------------
(* What is left of a sequence.                                             *)

Keeps(f, n, s, S) ==
  f = [i \in 0 .. n |-> IF i = 0 THEN <<>>
                        ELSE IF s[i] \in S THEN f[i - 1] ELSE Append(f[i - 1], s[i])]

LEMMA KeepsExists == ASSUME NEW s, NEW S, NEW n \in Nat PROVE \E f : Keeps(f, n, s, S)
<1> DEFINE T == {m \in 0 .. n : \E f : Keeps(f, m, s, S)}
<1>1. 0 \in T
  <2> DEFINE f == [i \in 0 .. 0 |-> <<>>]
  <2>1. f = [i \in 0 .. 0 |-> IF i = 0 THEN <<>>
                        ELSE IF s[i] \in S THEN f[i - 1] ELSE Append(f[i - 1], s[i])]
    OBVIOUS
  <2> HIDE DEF f
  <2> QED BY <2>1 DEF Keeps
<1>2. ASSUME NEW m \in 0 .. n - 1, m \in T PROVE m + 1 \in T
  <2>1. PICK f : Keeps(f, m, s, S)
    BY <1>2
  <2> DEFINE v == IF s[m + 1] \in S THEN f[m] ELSE Append(f[m], s[m + 1])
             g == [i \in 0 .. m + 1 |-> IF i = m + 1 THEN v ELSE f[i]]
  <2>2. f = [i \in 0 .. m |-> IF i = 0 THEN <<>>
                        ELSE IF s[i] \in S THEN f[i - 1] ELSE Append(f[i - 1], s[i])]
    BY <2>1 DEF Keeps
  <2>3. ASSUME NEW i \in 0 .. m + 1
        PROVE  g[i] = IF i = 0 THEN <<>>
                      ELSE IF s[i] \in S THEN g[i - 1] ELSE Append(g[i - 1], s[i])
    <3>1. CASE i = m + 1
      <4>1. i # 0 /\ g[i] = v /\ i - 1 = m /\ g[m] = f[m] /\ g[i - 1] = f[m]
        BY <3>1
      <4> HIDE DEF g
      <4> QED BY <3>1, <4>1
    <3>2. CASE i # m + 1
      <4>1. i \in 0 .. m /\ g[i] = f[i] /\ (i # 0 => i - 1 \in 0 .. m /\ g[i - 1] = f[i - 1])
        BY <3>2
      <4>2. f[i] = IF i = 0 THEN <<>>
                   ELSE IF s[i] \in S THEN f[i - 1] ELSE Append(f[i - 1], s[i])
        BY <2>2, <4>1
      <4> HIDE DEF g
      <4> QED BY <4>1, <4>2
    <3> QED BY <3>1, <3>2
  <2>4. g = [i \in 0 .. m + 1 |-> IF i = 0 THEN <<>>
                      ELSE IF s[i] \in S THEN g[i - 1] ELSE Append(g[i - 1], s[i])]
    BY <2>3
  <2>5. Keeps(g, m + 1, s, S)
    <3> HIDE DEF g
    <3> QED BY <2>4 DEF Keeps
  <2> QED BY <2>5
<1>3. \A k \in 0 .. n : k \in T
  <2> HIDE DEF T
  <2> QED BY <1>1, <1>2, UpTo
<1> QED BY <1>3

LEMMA RangeOfAppend ==
  ASSUME NEW T, NEW s \in Seq(T), NEW x \in T
  PROVE  Append(s, x) \in Seq(T) /\ Range(Append(s, x)) = Range(s) \cup {x}
<1> DEFINE a == Append(s, x)
<1>1. /\ a \in Seq(T) /\ Len(s) \in Nat
      /\ DOMAIN s = 1 .. Len(s) /\ DOMAIN a = 1 .. Len(s) + 1
      /\ \A i \in 1 .. Len(s) : a[i] = s[i]
      /\ a[Len(s) + 1] = x
  BY LenProperties
<1> HIDE DEF a
<1>2. ASSUME NEW y \in Range(a) PROVE y \in Range(s) \cup {x}
  BY <1>1, <1>2 DEF Range
<1>3. ASSUME NEW y \in Range(s) PROVE y \in Range(a)
  BY <1>1, <1>3 DEF Range
<1>4. x \in Range(a)
  BY <1>1 DEF Range
<1>5. Range(a) = Range(s) \cup {x}
  BY <1>2, <1>3, <1>4
<1> QED BY <1>1, <1>5 DEF a

LEMMA WithoutKeeps ==
  ASSUME NEW T, NEW s \in Seq(T), NEW S
  PROVE  Without(s, S) \in Seq(T) /\ Range(Without(s, S)) = Range(s) \ S
<1> DEFINE L == Len(s)
           kept[i \in 0 .. Len(s)] ==
             IF i = 0 THEN <<>>
             ELSE IF s[i] \in S THEN kept[i - 1] ELSE Append(kept[i - 1], s[i])
<1>1. Without(s, S) = kept[L]
  BY DEF Without
<1>2. L \in Nat /\ DOMAIN s = 1 .. L /\ \A i \in 1 .. L : s[i] \in T
  BY LenProperties, ElementOfSeq
<1>3. \E f : Keeps(f, L, s, S)
  BY <1>2, KeepsExists
<1>4. kept = [i \in 0 .. L |-> IF i = 0 THEN <<>>
             ELSE IF s[i] \in S THEN kept[i - 1] ELSE Append(kept[i - 1], s[i])]
  BY <1>3 DEF Keeps
<1> HIDE DEF kept, L
<1> DEFINE Good == {k \in 0 .. L : /\ kept[k] \in Seq(T)
                                        /\ Range(kept[k]) = {s[j] : j \in 1 .. k} \ S}
<1>5. 0 \in Good
  BY <1>2, <1>4 DEF Range
<1>6. ASSUME NEW k \in 0 .. L - 1, k \in Good PROVE k + 1 \in Good
  <2>1. k + 1 \in 0 .. L /\ k + 1 # 0 /\ (k + 1) - 1 = k /\ k + 1 \in 1 .. L
    BY <1>2
  <2>2. kept[k + 1] = IF s[k + 1] \in S THEN kept[k] ELSE Append(kept[k], s[k + 1])
    BY <1>4, <2>1
  <2>3. {s[j] : j \in 1 .. k + 1} = {s[j] : j \in 1 .. k} \cup {s[k + 1]}
    BY <1>2
  <2>4. s[k + 1] \in T
    BY <1>2, <2>1
  <2>5. kept[k] \in Seq(T) /\ Range(kept[k]) = {s[j] : j \in 1 .. k} \ S
    BY <1>6
  <2>6. CASE s[k + 1] \in S
    BY <2>1, <2>2, <2>3, <2>5, <2>6
  <2>7. CASE s[k + 1] \notin S
    <3>1. /\ Append(kept[k], s[k + 1]) \in Seq(T)
          /\ Range(Append(kept[k], s[k + 1])) = Range(kept[k]) \cup {s[k + 1]}
      BY <2>4, <2>5, RangeOfAppend
    <3>2. kept[k + 1] = Append(kept[k], s[k + 1])
      BY <2>2, <2>7
    <3>3. {s[j] : j \in 1 .. k + 1} \ S = ({s[j] : j \in 1 .. k} \ S) \cup {s[k + 1]}
      BY <2>3, <2>7
    <3>4. kept[k + 1] \in Seq(T) /\ Range(kept[k + 1]) = {s[j] : j \in 1 .. k + 1} \ S
      BY <2>5, <3>1, <3>2, <3>3
    <3> QED BY <2>1, <3>4
  <2> QED BY <2>6, <2>7
<1>7. \A k \in 0 .. L : k \in Good
  <2> HIDE DEF Good
  <2> QED BY <1>2, <1>5, <1>6, UpTo
<1>8. L \in Good
  <2>1. L \in 0 .. L
    BY <1>2
  <2> HIDE DEF Good
  <2> QED BY <1>7, <2>1
<1> QED BY <1>1, <1>2, <1>8 DEF Range

-----------------------------------------------------------------------------
(* The sort.                                                               *)

\* The packages of the list that the sort has still to look at; the list
\* of the cycle detector holds packages of the queue.
Listed == IF pc \in {"first", "drain"} THEN Range(elems) ELSE {}

Sorting == {"first", "drain", "size", "detect", "pass", "sorted"}

SortInv(S) ==
  /\ elems \in Seq(Names) /\ IsInjective(elems)
  /\ ans \in Seq(Names) /\ IsInjective(ans)
  /\ pc \in Sorting => Listed \cup queue \cup Range(ans) = S
  /\ Listed \cap (queue \cup Range(ans)) = {}
  /\ pc \in {"first", "size", "detect"} => queue \cap Range(ans) = {}
  /\ pc \in {"drain", "pass"} => left \subseteq queue \ Range(ans)
  /\ pc \in {"size", "pass"} => elems = <<>>
  /\ pc = "sorted" => queue = {}

\* A package that is appended was in the list or in the queue.
LEMMA FirstKeeps ==
  ASSUME NEW S \in SUBSET Names, SortInv(S), First
  PROVE  SortInv(S)'
<1> DEFINE p == Head(elems)
<1>1. /\ pc = "first" /\ elems # <<>> /\ elems' = Tail(elems)
      /\ \/ ans' = Append(ans, p) /\ left' = queue /\ pc' = "drain" /\ queue' = queue
         \/ queue' = queue \cup {p} /\ UNCHANGED <<ans, left, pc>>
  BY DEF First
<1>3. /\ elems \in Seq(Names) /\ IsInjective(elems) /\ ans \in Seq(Names) /\ IsInjective(ans)
      /\ Range(elems) \cup queue \cup Range(ans) = S
      /\ Range(elems) \cap (queue \cup Range(ans)) = {} /\ queue \cap Range(ans) = {}
  BY <1>1 DEF SortInv, Listed, Sorting
<1>4. /\ p \in Names /\ Tail(elems) \in Seq(Names) /\ IsInjective(Tail(elems))
      /\ p \in Range(elems) /\ Range(Tail(elems)) = Range(elems) \ {p}
  BY <1>1, <1>3, TailOfInjective
<1>5. /\ Append(ans, p) \in Seq(Names) /\ IsInjective(Append(ans, p))
      /\ Range(Append(ans, p)) = Range(ans) \cup {p}
  BY <1>3, <1>4, AppendToInjective
<1> HIDE DEF p
<1>6. Listed' = Range(elems) \ {p}
  BY <1>1, <1>4 DEF Listed
<1>7. CASE ans' = Append(ans, p) /\ left' = queue /\ pc' = "drain" /\ queue' = queue
  BY <1>1, <1>3, <1>4, <1>5, <1>6, <1>7 DEF SortInv
<1>8. CASE queue' = queue \cup {p} /\ UNCHANGED <<ans, left, pc>>
  BY <1>1, <1>3, <1>4, <1>6, <1>8 DEF SortInv
<1> QED
  BY <1>1, <1>7, <1>8

LEMMA VisitKeeps ==
  ASSUME NEW S \in SUBSET Names, SortInv(S), NEW k \in Names, Drain(k) \/ Pass(k)
  PROVE  SortInv(S)'
<1>1. /\ pc \in {"drain", "pass"} /\ k \in left /\ left' = left \ {k}
      /\ ans' = Append(ans, k) \/ ans' = ans
      /\ UNCHANGED <<elems, queue, pc>>
  BY DEF Drain, Pass
<1>2. Listed' = Listed
  BY <1>1 DEF Listed
<1>3. /\ k \in queue /\ k \notin Range(ans) /\ ans \in Seq(Names) /\ IsInjective(ans)
  BY <1>1 DEF SortInv
<1>4. /\ Append(ans, k) \in Seq(Names) /\ IsInjective(Append(ans, k))
      /\ Range(Append(ans, k)) = Range(ans) \cup {k}
  BY <1>3, AppendToInjective
<1> QED
  BY <1>1, <1>2, <1>3, <1>4 DEF SortInv, Sorting

LEMMA EndPassKeeps ==
  ASSUME NEW S \in SUBSET Names, SortInv(S), EndPass
  PROVE  SortInv(S)'
<1>1. /\ pc \in {"drain", "pass"} /\ queue' = queue \ Range(ans)
      /\ pc' = IF elems # <<>> THEN "first" ELSE "size"
      /\ UNCHANGED <<elems, ans>>
  BY DEF EndPass, Pinject
<1>3. CASE elems = <<>>
  <2>1. Range(elems) = {}
    BY <1>3 DEF Range
  <2> QED
    BY <1>1, <1>3, <2>1 DEF SortInv, Listed, Sorting
<1>4. CASE elems # <<>>
  BY <1>1, <1>4 DEF SortInv, Listed, Sorting
<1> QED
  BY <1>3, <1>4

LEMMA HeadKeeps ==
  ASSUME NEW S \in SUBSET Names, SortInv(S), EndFirst \/ LoopHead
  PROVE  SortInv(S)'
<1>1. UNCHANGED <<queue, ans>>
  BY DEF EndFirst, LoopHead
<1>2. CASE EndFirst
  <2>1. pc = "first" /\ elems = <<>> /\ pc' = "size" /\ UNCHANGED <<elems, left>>
    BY <1>2 DEF EndFirst
  <2>2. Range(elems) = {}
    BY <2>1 DEF Range
  <2> QED
    BY <1>1, <2>1, <2>2 DEF SortInv, Listed, Sorting
<1>3. CASE LoopHead
  <2>1. pc = "size" /\ elems = <<>> /\ queue \cup Range(ans) = S /\ queue \cap Range(ans) = {}
    BY <1>3 DEF LoopHead, SortInv, Listed, Sorting
  <2>2. CASE queue = {} /\ pc' = "sorted" /\ UNCHANGED <<elems, left>>
    BY <1>1, <2>1, <2>2 DEF SortInv, Listed, Sorting
  <2>3. CASE left' = queue /\ pc' = "pass" /\ UNCHANGED elems
    BY <1>1, <2>1, <2>3 DEF SortInv, Listed, Sorting
  <2>4. CASE elems' \in SortedByRequires(queue, reqs) /\ pc' \in {"error", "detect"}
    <3>1. queue \in SUBSET Names /\ elems' \in SetToSeqs(queue)
      BY <2>1, <2>4 DEF SortedByRequires
    <3>2. elems' \in Seq(Names) /\ IsInjective(elems')
      BY <3>1, NamesFinite, SetAsSeq
    <3> QED
      BY <1>1, <2>1, <2>4, <3>2 DEF SortInv, Listed, Sorting
  <2> QED
    BY <1>3, <2>2, <2>3, <2>4 DEF LoopHead, StartPass
<1> QED
  BY <1>2, <1>3

LEMMA DetectKeeps ==
  ASSUME NEW S \in SUBSET Names, SortInv(S), Detect
  PROVE  SortInv(S)'
<1>1. UNCHANGED <<queue, ans>> /\ pc = "detect"
  BY DEF Detect
<1>2. CASE elems # <<>> /\ elems' = Tail(elems) /\ UNCHANGED <<left, pc>>
  <2>1. elems' \in Seq(Names) /\ IsInjective(elems')
    BY <1>2, TailOfInjective DEF SortInv
  <2> QED
    BY <1>1, <1>2, <2>1 DEF SortInv, Listed, Sorting
<1>3. CASE UNCHANGED <<elems, left>> /\ pc' \in {pc, "error"}
  BY <1>1, <1>3 DEF SortInv, Listed, Sorting
<1>4. CASE elems = <<>> /\ left' = queue /\ pc' = "pass" /\ UNCHANGED elems
  BY <1>1, <1>4 DEF SortInv, Listed, Sorting
<1> QED
  BY <1>2, <1>3, <1>4 DEF Detect

LEMMA SortKeeps ==
  ASSUME NEW S \in SUBSET Names, SortInv(S), SortStep
  PROVE  SortInv(S)'
BY FirstKeeps, VisitKeeps, EndPassKeeps, HeadKeeps, DetectKeeps DEF SortStep

-----------------------------------------------------------------------------
(* What the breaks of the detector leave of the requires.                  *)

\* Only requires among the packages sorted are cut, and only by the detector;
\* r are the requires at the start.
CutInv(S, r) ==
  /\ reqs \in [Names -> Seq(Names)] /\ agenda \in Seq(Names) /\ stack \subseteq S
  /\ \A p \in Names : /\ Range(reqs[p]) \subseteq Range(r[p])
                      /\ Range(r[p]) \subseteq Range(reqs[p]) \cup S
  /\ ~detected => reqs = r
  /\ pc = "detect" => detected

LEMMA BreakCuts ==
  ASSUME NEW p \in Names, reqs \in [Names -> Seq(Names)]
  PROVE  LET cut1 == BreakCycles(p)
         IN /\ cut1 \in [Names -> Seq(Names)]
            /\ \A q \in Names : /\ Range(cut1[q]) \subseteq Range(reqs[q])
                                /\ Range(reqs[q]) \subseteq Range(cut1[q]) \cup stack
<1>1. reqs[p] \in Seq(Names)
  OBVIOUS
<1>2. /\ Without(reqs[p], stack) \in Seq(Names)
      /\ Range(Without(reqs[p], stack)) = Range(reqs[p]) \ stack
  BY <1>1, WithoutKeeps
<1>3. CASE p \in stack
  <2> DEFINE w == Without(reqs[p], stack)
             f == [reqs EXCEPT ![p] = w]
  <2>1. BreakCycles(p) = f
    BY <1>3 DEF BreakCycles
  <2>2. w \in Seq(Names) /\ Range(w) = Range(reqs[p]) \ stack
    BY <1>2
  <2> HIDE DEF w
  <2>3. f \in [Names -> Seq(Names)] /\ f[p] = w /\ \A q \in Names : q # p => f[q] = reqs[q]
    BY <2>2
  <2> HIDE DEF f
  <2>4. \A q \in Names : /\ Range(f[q]) \subseteq Range(reqs[q])
                         /\ Range(reqs[q]) \subseteq Range(f[q]) \cup stack
    BY <2>2, <2>3
  <2> QED BY <2>1, <2>3, <2>4
<1>4. CASE p \notin stack
  BY <1>4 DEF BreakCycles
<1> QED BY <1>3, <1>4

\* A visit of the detector.
LEMMA VisitCuts ==
  ASSUME NEW S \in SUBSET Names, NEW r \in [Names -> Seq(Names)], SortInv(S), CutInv(S, r),
         Detect, agenda # <<>>
  PROVE  LET p == Head(agenda)
         IN /\ pc = "detect" /\ p \in Names /\ Range(agenda) = {p} \cup Range(Tail(agenda))
            /\ UNCHANGED <<elems, left, queue, ans>>
            /\ \/ /\ p \in queue /\ reqs' = BreakCycles(p) /\ stack' = stack \cup {p}
                  /\ reqs' \in [Names -> Seq(Names)]
                  /\ \A q \in Names : /\ Range(reqs'[q]) \subseteq Range(reqs[q])
                                      /\ Range(reqs[q]) \subseteq Range(reqs'[q]) \cup S
                  /\ agenda' \in Seq(Names)
                  /\ Range(agenda') = Range(reqs'[p]) \cup Range(Tail(agenda))
                  /\ pc' = pc
               \/ /\ p \notin queue /\ UNCHANGED <<reqs, stack>>
                  /\ agenda' = Tail(agenda) /\ agenda' \in Seq(Names)
                  /\ pc' = IF p \in Range(ans) THEN pc ELSE "error"
<1> DEFINE p == Head(agenda)
<1>1. pc = "detect" /\ UNCHANGED <<elems, left, queue, ans>>
  BY DEF Detect
<1>2. p \in Names /\ Tail(agenda) \in Seq(Names) /\ Range(agenda) = {p} \cup Range(Tail(agenda))
  BY HeadAndTail DEF CutInv
<1>3. CASE p \in queue
  <2>1. /\ reqs' = BreakCycles(p) /\ agenda' = reqs'[p] \o Tail(agenda)
        /\ stack' = stack \cup {p} /\ pc' = pc
    BY <1>3 DEF Detect
  <2>2. reqs \in [Names -> Seq(Names)] /\ stack \subseteq S
    BY DEF CutInv
  <2> HIDE DEF p
  <2>3. /\ reqs' \in [Names -> Seq(Names)]
        /\ \A q \in Names : /\ Range(reqs'[q]) \subseteq Range(reqs[q])
                            /\ Range(reqs[q]) \subseteq Range(reqs'[q]) \cup stack
    BY <1>2, <2>1, <2>2, BreakCuts
  <2>4. reqs'[p] \in Seq(Names)
    BY <1>2, <2>3
  <2>5. agenda' \in Seq(Names) /\ Range(agenda') = Range(reqs'[p]) \cup Range(Tail(agenda))
    <3> DEFINE mine == reqs'[p]
               rest == Tail(agenda)
    <3>1. mine \in Seq(Names) /\ rest \in Seq(Names)
      BY <1>2, <2>4
    <3>2. agenda' = mine \o rest
      BY <2>1
    <3> HIDE DEF mine, rest
    <3>3. mine \o rest \in Seq(Names) /\ Range(mine \o rest) = Range(mine) \cup Range(rest)
      BY <3>1, RangeOfConcat
    <3>4. agenda' \in Seq(Names) /\ Range(agenda') = Range(mine) \cup Range(rest)
      BY <3>2, <3>3
    <3> QED BY <3>4 DEF mine, rest
  <2>6. \A q \in Names : Range(reqs[q]) \subseteq Range(reqs'[q]) \cup S
    BY <2>2, <2>3
  <2> QED BY <1>1, <1>2, <1>3, <2>1, <2>3, <2>5, <2>6 DEF p
<1>4. CASE p \notin queue
  <2>1. /\ agenda' = Tail(agenda) /\ UNCHANGED <<reqs, stack>>
        /\ pc' = IF p \in Range(ans) THEN pc ELSE "error"
    BY <1>4 DEF Detect, Pinject
  <2> QED BY <1>1, <1>2, <1>4, <2>1
<1> QED BY <1>3, <1>4

LEMMA CutKeeps ==
  ASSUME NEW S \in SUBSET Names, NEW r \in [Names -> Seq(Names)], SortInv(S), CutInv(S, r),
         SortStep
  PROVE  CutInv(S, r)'
<1>1. CASE First \/ EndFirst \/ EndPass \/ \E k \in Names : Drain(k) \/ Pass(k)
  <2>1. UNCHANGED <<reqs, agenda, stack, detected>> /\ pc' # "detect"
    BY <1>1 DEF First, EndFirst, EndPass, Drain, Pass, loop, dfs
  <2> QED BY <2>1 DEF CutInv
<1>2. CASE LoopHead
  <2>1. UNCHANGED <<reqs, agenda, stack>> /\ (detected' = detected \/ detected' = TRUE)
    BY <1>2 DEF LoopHead, StartPass, loop, dfs
  <2>2. pc' = "detect" => detected'
    BY <1>2 DEF LoopHead, StartPass, loop, dfs
  <2> QED BY <2>1, <2>2 DEF CutInv
<1>3. CASE Detect
  <2>0. pc = "detect" /\ detected /\ detected' = detected /\ queue \subseteq S
    BY <1>3 DEF Detect, loop, CutInv, SortInv, Sorting
  <2>1. CASE agenda = <<>> /\ elems # <<>>
    <3>1. /\ agenda' = <<Head(elems)>> /\ stack' = {} /\ UNCHANGED <<reqs, pc>>
      BY <1>3, <2>1 DEF Detect
    <3>2. Head(elems) \in Names
      BY <2>1, TailOfInjective DEF SortInv
    <3> QED BY <2>0, <3>1, <3>2 DEF CutInv
  <2>2. CASE agenda = <<>> /\ elems = <<>>
    <3>1. UNCHANGED <<reqs, agenda, stack>> /\ pc' = "pass"
      BY <1>3, <2>2 DEF Detect, dfs
    <3> QED BY <2>0, <3>1 DEF CutInv
  <2>3. CASE agenda # <<>>
    <3> DEFINE p == Head(agenda)
    <3>1. /\ p \in Names
          /\ \/ /\ p \in queue /\ stack' = stack \cup {p}
                /\ reqs' \in [Names -> Seq(Names)]
                /\ \A q \in Names : /\ Range(reqs'[q]) \subseteq Range(reqs[q])
                                    /\ Range(reqs[q]) \subseteq Range(reqs'[q]) \cup S
                /\ agenda' \in Seq(Names)
             \/ /\ UNCHANGED <<reqs, stack>> /\ agenda' \in Seq(Names)
      BY <1>3, <2>3, VisitCuts
    <3> HIDE DEF p
    <3>2. CASE /\ p \in queue /\ stack' = stack \cup {p}
                /\ reqs' \in [Names -> Seq(Names)]
                /\ \A q \in Names : /\ Range(reqs'[q]) \subseteq Range(reqs[q])
                                    /\ Range(reqs[q]) \subseteq Range(reqs'[q]) \cup S
                /\ agenda' \in Seq(Names)
      <4>1. stack' \subseteq S
        BY <2>0, <3>2 DEF CutInv
      <4>2. \A q \in Names : /\ Range(reqs'[q]) \subseteq Range(r[q])
                             /\ Range(r[q]) \subseteq Range(reqs'[q]) \cup S
        BY <3>2 DEF CutInv
      <4> QED BY <2>0, <3>2, <4>1, <4>2 DEF CutInv
    <3>3. CASE UNCHANGED <<reqs, stack>> /\ agenda' \in Seq(Names)
      BY <2>0, <3>3 DEF CutInv
    <3> QED BY <3>1, <3>2, <3>3
  <2> QED BY <2>1, <2>2, <2>3
<1> QED BY <1>1, <1>2, <1>3 DEF SortStep

-----------------------------------------------------------------------------
(* The order of the sort.                                                  *)

\* No cycle: each set of packages has one that requires none of the set.
Acyclical(S, r) == \A Q \in SUBSET S : Q # {} => \E p \in Q : Range(r[p]) \cap Q = {}

\* Everything that an element of s requires is in s before it.
InOrder(s, r) == \A i \in DOMAIN s : \A x \in Range(r[s[i]]) : \E j \in 1 .. i - 1 : s[j] = x

\* A require that is neither sorted nor queued is still to be visited.
Unmet ==
  \E p \in queue : \E x \in Range(reqs[p]) \ (queue \cup Range(ans)) :
    p \in Range(elems) \/ p \in Range(agenda) \/ x \in Range(agenda)

\* Without a cycle a queue that does not shrink holds no package that is ready,
\* so one of them waits for a require that never comes, and the detector stops.
StallInv ==
  /\ detected => pc \in {"detect", "error"}
  /\ pc \in {"first", "drain"} => lastSize = 0
  /\ pc = "size" /\ Cardinality(queue) = lastSize => \A k \in queue : ~Ready(k)
  /\ pc = "pass" => /\ lastSize = Cardinality(queue)
                    /\ queue \cap Range(ans) # {} \/ \A k \in queue \ left : ~Ready(k)
  /\ pc = "detect" => Unmet

LEMMA AppendInOrder ==
  ASSUME NEW T, NEW s \in Seq(T), NEW x \in T, NEW r, InOrder(s, r), Range(r[x]) \subseteq Range(s)
  PROVE  InOrder(Append(s, x), r)
<1> DEFINE a == Append(s, x)
           L == Len(s)
<1>1. /\ L \in Nat /\ DOMAIN s = 1 .. L /\ DOMAIN a = 1 .. L + 1
      /\ \A i \in 1 .. L : a[i] = s[i]
      /\ a[L + 1] = x
  BY LenProperties
<1> HIDE DEF a, L
<1>2. SUFFICES ASSUME NEW i \in 1 .. L + 1, NEW y \in Range(r[a[i]])
               PROVE  \E j \in 1 .. i - 1 : a[j] = y
  BY <1>1 DEF InOrder, a
<1>3. CASE i = L + 1
  <2>1. y \in Range(s)
    BY <1>1, <1>2, <1>3
  <2>2. PICK j \in 1 .. L : s[j] = y
    BY <1>1, <2>1 DEF Range
  <2> QED BY <1>1, <1>3, <2>2
<1>4. CASE i # L + 1
  <2>1. i \in 1 .. L /\ a[i] = s[i]
    BY <1>1, <1>4
  <2>2. PICK j \in 1 .. i - 1 : s[j] = y
    BY <1>1, <1>2, <2>1 DEF InOrder
  <2>3. j \in 1 .. L
    BY <1>1, <2>1, <2>2
  <2> QED BY <1>1, <2>2, <2>3
<1> QED BY <1>3, <1>4

\* Without a cycle nothing is broken: a package is appended when it is ready.
LEMMA OnlyReady ==
  ASSUME NEW S \in SUBSET Names, NEW r \in [Names -> Seq(Names)], Acyclical(S, r),
         reqs = r, queue \subseteq S, NEW k \in queue, Breakable(k)
  PROVE  Ready(k)
<1> SUFFICES ASSUME ~Ready(k) PROVE FALSE
  OBVIOUS
<1> DEFINE missing == Without(reqs[k], Pinject)
           h == Head(missing)
<1>1. k \in Names /\ reqs[k] \in Seq(Names)
  OBVIOUS
<1>2. missing \in Seq(Names) /\ Range(missing) = Range(reqs[k]) \ Pinject
  BY <1>1, WithoutKeeps
<1>3. h \in queue /\ k \in Range(reqs[h])
  BY DEF Breakable
<1> HIDE DEF missing
<1>4. missing # <<>>
  <2>1. Range(missing) # {}
    BY <1>2 DEF Ready
  <2>2. Range(<<>>) = {}
    BY DEF Range
  <2> QED BY <2>1, <2>2
<1>5. h \in Range(missing)
  BY <1>2, <1>4, HeadAndTail
<1> HIDE DEF h
<1>6. h \in S /\ k \in S /\ h \in Range(r[k]) /\ k \in Range(r[h])
  BY <1>2, <1>3, <1>5
<1>7. {k, h} \in SUBSET S /\ {k, h} # {}
  BY <1>6
<1>8. PICK p \in {k, h} : Range(r[p]) \cap {k, h} = {}
  BY <1>7 DEF Acyclical
<1> QED BY <1>6, <1>8

\* A package that waits in vain makes the detector fail.
LEMMA DetectorFails ==
  ASSUME NEW S \in SUBSET Names, NEW r \in [Names -> Seq(Names)], SortInv(S), CutInv(S, r),
         StallInv, Detect
  PROVE  StallInv'
<1>1. pc = "detect" /\ UNCHANGED <<queue, ans, lastSize, detected>> /\ queue \subseteq S
  BY DEF Detect, loop, SortInv, Sorting
<1>2. PICK p \in queue : \E x \in Range(reqs[p]) \ (queue \cup Range(ans)) :
          p \in Range(elems) \/ p \in Range(agenda) \/ x \in Range(agenda)
  BY <1>1 DEF StallInv, Unmet
<1>3. PICK x \in Range(reqs[p]) \ (queue \cup Range(ans)) :
          p \in Range(elems) \/ p \in Range(agenda) \/ x \in Range(agenda)
  BY <1>2
<1>4. Range(<<>>) = {}
  BY DEF Range
<1>5. SUFFICES pc' # "error" =>
        /\ pc' = "detect"
        /\ x \in Range(reqs'[p])
        /\ p \in Range(elems') \/ p \in Range(agenda') \/ x \in Range(agenda')
  <2>1. CASE pc' = "error"
    BY <1>1, <2>1 DEF StallInv
  <2>2. CASE pc' # "error"
    <3>1. /\ pc' = "detect" /\ p \in queue' /\ x \in Range(reqs'[p]) \ (queue' \cup Range(ans'))
          /\ p \in Range(elems') \/ p \in Range(agenda') \/ x \in Range(agenda')
      BY <1>1, <1>3, <1>5, <2>2
    <3>2. Unmet'
      BY <3>1 DEF Unmet
    <3> QED BY <3>1, <3>2 DEF StallInv
  <2> QED BY <2>1, <2>2
<1>6. CASE agenda = <<>> /\ elems # <<>>
  <2>1. /\ agenda' = <<Head(elems)>> /\ elems' = Tail(elems) /\ UNCHANGED <<reqs, pc>>
    BY <1>6 DEF Detect
  <2>2. elems \in Seq(Names)
    BY DEF SortInv
  <2>3. Range(elems) = {Head(elems)} \cup Range(Tail(elems)) /\ Head(elems) \in Names
    BY <1>6, <2>2, HeadAndTail
  <2>4. Range(<<Head(elems)>>) = {Head(elems)}
    BY <2>3 DEF Range
  <2> QED BY <1>1, <1>3, <1>4, <1>6, <2>1, <2>3, <2>4
<1>7. CASE agenda = <<>> /\ elems = <<>>
  BY <1>3, <1>4, <1>7
<1>8. CASE agenda # <<>>
  <2> DEFINE h == Head(agenda)
  <2>1. /\ h \in Names /\ Range(agenda) = {h} \cup Range(Tail(agenda)) /\ elems' = elems
        /\ \/ /\ h \in queue
              /\ \A q \in Names : /\ Range(reqs'[q]) \subseteq Range(reqs[q])
                                  /\ Range(reqs[q]) \subseteq Range(reqs'[q]) \cup S
              /\ Range(agenda') = Range(reqs'[h]) \cup Range(Tail(agenda))
              /\ pc' = pc
           \/ /\ h \notin queue /\ UNCHANGED reqs
              /\ agenda' = Tail(agenda)
              /\ pc' = IF h \in Range(ans) THEN pc ELSE "error"
    BY <1>8, VisitCuts
  <2> HIDE DEF h
  <2>2. p \in Names /\ x \notin S
    BY <1>1, <1>3 DEF SortInv, Sorting, Listed
  <2>3. CASE /\ h \in queue
             /\ \A q \in Names : /\ Range(reqs'[q]) \subseteq Range(reqs[q])
                                 /\ Range(reqs[q]) \subseteq Range(reqs'[q]) \cup S
             /\ Range(agenda') = Range(reqs'[h]) \cup Range(Tail(agenda))
             /\ pc' = pc
    <3>1. x \in Range(reqs'[p])
      BY <1>3, <2>2, <2>3
    <3> QED BY <1>1, <1>3, <2>1, <2>3, <3>1
  <2>4. CASE /\ h \notin queue /\ UNCHANGED reqs
             /\ agenda' = Tail(agenda)
             /\ pc' = IF h \in Range(ans) THEN pc ELSE "error"
    <3>1. CASE h = x
      BY <1>1, <1>3, <2>4, <3>1
    <3>2. CASE h # x
      BY <1>1, <1>3, <2>1, <2>4, <3>2
    <3> QED BY <3>1, <3>2
  <2> QED BY <2>1, <2>3, <2>4
<1> QED BY <1>6, <1>7, <1>8

LEMMA QueueShrinks ==
  ASSUME NEW Q \in SUBSET Names, NEW X
  PROVE  /\ Cardinality(Q) \in Nat
         /\ Cardinality(Q) = 0 => Q = {}
         /\ Cardinality(Q \ X) = Cardinality(Q) => Q \cap X = {}
<1>1. IsFiniteSet(Q)
  BY NamesFinite
<1>2. Q \ X \in SUBSET Q
  OBVIOUS
<1>3. Cardinality(Q \ X) = Cardinality(Q) => Q \ X = Q
  BY <1>1, <1>2, FS_Subset
<1> QED BY <1>1, <1>3, FS_CardinalityType, FS_EmptySet

LEMMA StallKeeps ==
  ASSUME NEW S \in SUBSET Names, NEW r \in [Names -> Seq(Names)], SortInv(S), CutInv(S, r),
         Acyclical(S, r), StallInv, InOrder(ans, r), SortStep
  PROVE  StallInv' /\ InOrder(ans, r)'
<1>0. pc \in Sorting => queue \subseteq S
  BY DEF SortInv
<1>1. CASE First
  <2> DEFINE p == Head(elems)
  <2>1. /\ pc = "first" /\ pc' \in {"first", "drain"} /\ elems # <<>>
        /\ UNCHANGED <<reqs, lastSize, detected>>
        /\ \/ Ready(p) /\ ans' = Append(ans, p)
           \/ ans' = ans
    BY <1>1 DEF First, loop
  <2>2. elems \in Seq(Names) /\ ans \in Seq(Names)
    BY DEF SortInv
  <2>3. p \in Names
    BY <2>1, <2>2, HeadAndTail
  <2> HIDE DEF p
  <2>4. ~detected /\ lastSize = 0 /\ reqs = r
    BY <2>1 DEF StallInv, CutInv
  <2>5. StallInv'
    BY <2>1, <2>4 DEF StallInv
  <2>6. CASE Ready(p) /\ ans' = Append(ans, p)
    <3>1. Range(r[p]) \subseteq Range(ans)
      BY <2>4, <2>6 DEF Ready, Pinject
    <3>2. InOrder(Append(ans, p), r)
      BY <2>2, <2>3, <3>1, AppendInOrder
    <3> QED BY <2>5, <2>6, <3>2
  <2>7. CASE ans' = ans
    BY <2>5, <2>7
  <2> QED BY <2>1, <2>6, <2>7
<1>2. ASSUME NEW k \in Names, Drain(k) \/ Pass(k) PROVE StallInv' /\ InOrder(ans, r)'
  <2>1. /\ pc \in {"drain", "pass"} /\ k \in left /\ left' = left \ {k}
        /\ UNCHANGED <<reqs, queue, lastSize, detected, pc>>
        /\ \/ (Ready(k) \/ Breakable(k)) /\ ans' = Append(ans, k)
           \/ ans' = ans /\ ~Ready(k)
    BY <1>2 DEF Drain, Pass, loop, Breakable
  <2>2. k \in queue /\ k \notin Range(ans) /\ ans \in Seq(Names) /\ queue \subseteq S
    BY <1>0, <2>1 DEF SortInv, Sorting
  <2>3. ~detected /\ reqs = r
    BY <2>1 DEF StallInv, CutInv
  <2>4. CASE (Ready(k) \/ Breakable(k)) /\ ans' = Append(ans, k)
    <3>1. Ready(k)
      BY <2>2, <2>3, <2>4, OnlyReady
    <3>2. Range(r[k]) \subseteq Range(ans)
      BY <2>3, <3>1 DEF Ready, Pinject
    <3>3. InOrder(Append(ans, k), r)
      BY <2>2, <3>2, AppendInOrder
    <3>4. Range(Append(ans, k)) = Range(ans) \cup {k}
      BY <2>2, RangeOfAppend
    <3>5. k \in queue' \cap Range(ans')
      BY <2>1, <2>2, <2>4, <3>4
    <3>6. StallInv'
      BY <2>1, <2>3, <3>5 DEF StallInv
    <3> QED BY <2>4, <3>3, <3>6
  <2>5. CASE ans' = ans /\ ~Ready(k)
    <3>1. \A j \in Names : Ready(j)' <=> Ready(j)
      BY <2>1, <2>5 DEF Ready, Pinject
    <3>2. queue \subseteq Names
      BY <2>2
    <3>3. StallInv'
      BY <2>1, <2>2, <2>3, <2>5, <3>1, <3>2 DEF StallInv
    <3> QED BY <2>5, <3>3
  <2> QED BY <2>1, <2>4, <2>5
<1>3. CASE EndPass
  <2>1. /\ pc \in {"drain", "pass"} /\ left = {} /\ queue' = queue \ Range(ans)
        /\ pc' \in {"first", "size"} /\ (pc' = "first" => elems # <<>>)
        /\ UNCHANGED <<reqs, ans, lastSize, detected>>
    BY <1>3 DEF EndPass, Pinject, loop
  <2>2. pc = "pass" => pc' = "size"
    BY <1>3, <2>1 DEF EndPass, SortInv
  <2>3. queue \subseteq Names /\ ~detected
    BY <1>0, <2>1 DEF StallInv, Sorting
  <2>4. \A k \in Names : Ready(k)' <=> Ready(k)
    BY <2>1 DEF Ready, Pinject
  <2>5. ASSUME pc' = "size", Cardinality(queue') = lastSize' PROVE \A k \in queue' : ~Ready(k)'
    <3>1. CASE pc = "drain"
      <4>1. Cardinality(queue') = 0 /\ queue' \subseteq Names
        BY <2>1, <2>3, <2>5, <3>1 DEF StallInv
      <4>2. queue' = {}
        BY <4>1, QueueShrinks
      <4> QED BY <4>2
    <3>2. CASE pc = "pass"
      <4>1. Cardinality(queue \ Range(ans)) = Cardinality(queue)
        BY <2>1, <2>5, <3>2 DEF StallInv
      <4>2. queue \cap Range(ans) = {}
        BY <2>3, <4>1, QueueShrinks
      <4>3. \A k \in queue : ~Ready(k)
        BY <2>1, <3>2, <4>2 DEF StallInv
      <4> QED BY <2>1, <2>3, <2>4, <4>3
    <3> QED BY <2>1, <3>1, <3>2
  <2>6. pc' = "first" => lastSize' = 0
    BY <2>1, <2>2 DEF StallInv
  <2>7. StallInv'
    BY <2>1, <2>3, <2>5, <2>6 DEF StallInv
  <2> QED BY <2>1, <2>7
<1>4. CASE EndFirst
  <2>1. /\ pc = "first" /\ pc' = "size" /\ UNCHANGED <<reqs, ans, queue, lastSize, detected>>
    BY <1>4 DEF EndFirst, loop
  <2>2. lastSize = 0 /\ ~detected /\ queue \subseteq Names
    BY <1>0, <2>1 DEF StallInv, Sorting
  <2>3. Cardinality(queue') = lastSize' => queue' = {}
    BY <2>1, <2>2, QueueShrinks
  <2>4. StallInv'
    BY <2>1, <2>2, <2>3 DEF StallInv
  <2> QED BY <2>1, <2>4
<1>5. CASE LoopHead
  <2>1. pc = "size" /\ UNCHANGED <<reqs, ans, queue>> /\ ~detected
    BY <1>5 DEF LoopHead, StallInv
  <2>2. queue \subseteq S /\ queue \cup Range(ans) = S
    BY <2>1 DEF SortInv, Sorting, Listed
  <2>3. CASE queue = {} /\ pc' = "sorted" /\ UNCHANGED <<lastSize, detected>>
    BY <2>1, <2>3 DEF StallInv
  <2>4. CASE /\ lastSize' = Cardinality(queue) /\ left' = queue /\ pc' = "pass"
             /\ UNCHANGED detected
    BY <2>1, <2>4 DEF StallInv
  <2>5. CASE /\ queue # {} /\ Cardinality(queue) = lastSize
             /\ elems' \in SortedByRequires(queue, reqs)
             /\ pc' = "detect" /\ UNCHANGED lastSize
    <3>1. \A k \in queue : ~Ready(k)
      BY <2>1, <2>5 DEF StallInv
    <3>2. reqs = r
      BY <2>1 DEF CutInv
    <3>3. queue \in SUBSET S
      BY <2>2
    <3>4. PICK p \in queue : Range(r[p]) \cap queue = {}
      BY <2>5, <3>3 DEF Acyclical
    <3>5. PICK x \in Range(reqs[p]) : x \notin Range(ans)
      BY <3>1 DEF Ready, Pinject
    <3>6. elems' \in SetToSeqs(queue) /\ queue \in SUBSET Names
      BY <2>2, <2>5 DEF SortedByRequires
    <3>7. Range(elems') = queue
      BY <3>6, NamesFinite, SetAsSeq
    <3>8. p \in queue' /\ x \in Range(reqs'[p]) \ (queue' \cup Range(ans')) /\ p \in Range(elems')
      BY <2>1, <3>2, <3>4, <3>5, <3>7
    <3>9. Unmet'
      BY <3>8 DEF Unmet
    <3> QED BY <2>1, <2>5, <3>9 DEF StallInv
  <2> QED BY <1>5, <2>1, <2>3, <2>4, <2>5 DEF LoopHead, StartPass, loop
<1>6. CASE Detect
  <2>1. UNCHANGED ans
    BY <1>6 DEF Detect
  <2> QED BY <1>6, <2>1, DetectorFails
<1> QED BY <1>1, <1>2, <1>3, <1>4, <1>5, <1>6 DEF SortStep

-----------------------------------------------------------------------------
(* The merge of the removals.                                              *)

PlanType == plan \in [Names -> Todos]

LEMMA SortInit == Init => PlanType /\ SortInv(Adds) /\ pc = "first"
<1> SUFFICES ASSUME Init PROVE PlanType /\ SortInv(Adds) /\ pc = "first"
  OBVIOUS
<1>1. PlanType /\ pc = "first" /\ queue = {} /\ ans = <<>>
  BY OpsOrderAssumption DEF Init, OpsOrderAssumption, PlanType
<1>2. elems \in SetToSeqs(Adds) /\ Adds \in SUBSET Names
  BY DEF Init, SortedByRequires, Adds
<1>3. elems \in Seq(Names) /\ IsInjective(elems) /\ Range(elems) = Adds
  BY <1>2, NamesFinite, SetAsSeq
<1>4. ans \in Seq(Names) /\ Range(ans) = {} /\ IsInjective(ans)
  BY <1>1 DEF Range, IsInjective
<1> QED
  BY <1>1, <1>3, <1>4 DEF SortInv, Listed

Operations == [act : Todos \ {"none"}, name : Names]

\* Every operation of the list is the removal of an earlier version or of a
\* name that goes, or the addition of a package merged already.
Merged(S) ==
  {Del(n) : n \in Gone} \cup {Add(n) : n \in S} \cup {Del(n) : n \in S \cap Removed}

Removals == Cardinality(Gone)

OldFirst ==
  \A i, j \in DOMAIN ops : i < j /\ ops[j].act = "D" => ops[i].name # ops[j].name

GoneFirst ==
  /\ Removals \in Nat /\ Removals <= Len(ops)
  /\ \A i \in DOMAIN ops : IF i <= Removals THEN ops[i].name \in Gone
                           ELSE ops[i].name \in Adds \ Range(elems)

MergeInv ==
  /\ elems \in Seq(Names) /\ IsInjective(elems) /\ Range(elems) \subseteq Adds
  /\ ops \in Seq(Operations) /\ IsInjective(ops)
  /\ Range(ops) = Merged(Adds \ Range(elems))
  /\ GoneFirst /\ OldFirst
  /\ pc = "done" => elems = <<>>

OrderInv ==
  /\ PlanType
  /\ pc \in Sorting \cup {"error", "merge", "done"}
  /\ IF pc \in {"merge", "done"} THEN MergeInv ELSE SortInv(Adds)

LEMMA PureMerges ==
  ASSUME PlanType, SortInv(Adds), Pure
  PROVE  MergeInv' /\ PlanType' /\ pc' = "merge"
<1>1. /\ pc = "sorted" /\ pc' = "merge" /\ elems' = ans /\ UNCHANGED plan
      /\ \E s \in SetToSeqs(Gone) : ops' = [i \in DOMAIN s |-> Del(s[i])]
  BY DEF Pure, input
<1>2. PICK s \in SetToSeqs(Gone) : ops' = [i \in DOMAIN s |-> Del(s[i])]
  BY <1>1
<1>3. /\ Adds' = Adds /\ Gone' = Gone /\ Removed' = Removed /\ Removals' = Removals
      /\ \A n \in Names : Add(n)' = Add(n)
  BY <1>1 DEF Adds, Gone, Removed, Add, Removals
<1>4. ans \in Seq(Names) /\ IsInjective(ans) /\ Range(ans) = Adds
  BY <1>1 DEF SortInv, Listed, Sorting
<1>5. Gone \in SUBSET Names
  BY DEF Gone
<1>6. /\ s \in Seq(Names) /\ IsInjective(s) /\ Range(s) = Gone
      /\ Removals \in Nat /\ DOMAIN s = 1 .. Removals
  BY <1>5, NamesFinite, SetAsSeq DEF Removals
<1>7. /\ DOMAIN ops' = 1 .. Removals
      /\ \A i \in 1 .. Removals : ops'[i] = Del(s[i]) /\ s[i] \in Gone /\ s[i] \in Names
  BY <1>2, <1>5, <1>6 DEF Range
<1>8. ops' \in Seq(Operations) /\ Len(ops') = Removals
  <2>1. \A n \in Names : Del(n) \in Operations
    BY DEF Del, Operations, Todos
  <2>2. ops' \in [1 .. Removals -> Operations]
    BY <1>2, <1>6, <1>7, <2>1
  <2> QED
    BY <1>6, <2>2
<1>9. IsInjective(ops')
  BY <1>6, <1>7 DEF IsInjective, Del
<1>10. Range(ops') = Merged(Adds \ Range(elems))'
  <2>1. Merged({}) = {Del(n) : n \in Gone}
    BY DEF Merged
  <2>2. Range(ops') = {Del(n) : n \in Gone}
    BY <1>6, <1>7 DEF Range
  <2>3. Merged(Adds \ Range(elems))' = Merged({})
    BY <1>1, <1>3, <1>4 DEF Merged, Del, Add
  <2> QED
    BY <2>1, <2>2, <2>3
<1>11. GoneFirst' /\ OldFirst'
  <2>1. \A i \in DOMAIN ops' : ops'[i].name = s[i]
    BY <1>7 DEF Del
  <2> QED
    BY <1>3, <1>6, <1>7, <1>8, <2>1 DEF GoneFirst, OldFirst, IsInjective
<1> QED
  BY <1>1, <1>3, <1>4, <1>8, <1>9, <1>10, <1>11 DEF MergeInv, PlanType

\* The list after InsertRemoval, by position.
LEMMA InsertedOps ==
  ASSUME NEW n \in Names, NEW pos \in 1 .. Len(ops) + 1, ops \in Seq(Operations),
         Add(n) \in Operations
  PROVE  LET s == InsertRemoval(n, pos)
         IN /\ s \in Seq(Operations) /\ Len(s) = Len(ops) + 2
            /\ \A i \in 1 .. pos - 1 : s[i] = ops[i]
            /\ s[pos] = Del(n)
            /\ \A i \in pos + 1 .. Len(ops) + 1 : s[i] = ops[i - 1]
            /\ s[Len(ops) + 2] = Add(n)
<1> DEFINE before == SubSeq(ops, 1, pos - 1)
           after == SubSeq(ops, pos, Len(ops))
           s1 == before \o <<Del(n)>>
           s2 == s1 \o after
           L == Len(ops)
<1>0. Del(n) \in Operations
  BY DEF Del, Operations, Todos
<1>1. L \in Nat /\ \A i \in 1 .. L : ops[i] \in Operations
  BY LenProperties, ElementOfSeq
<1>2. /\ before \in Seq(Operations) /\ Len(before) = pos - 1
      /\ \A i \in 1 .. pos - 1 : before[i] = ops[i]
  BY <1>1, SubSeqProperties
<1>3. /\ after \in Seq(Operations) /\ Len(after) = L - pos + 1
      /\ \A i \in 1 .. L - pos + 1 : after[i] = ops[pos + i - 1]
  BY <1>1, SubSeqProperties
<1>4. <<Del(n)>> \in Seq(Operations) /\ <<Add(n)>> \in Seq(Operations)
  BY <1>0
<1> HIDE DEF before, after
<1>5. /\ s1 \in Seq(Operations) /\ Len(s1) = pos
      /\ \A i \in 1 .. pos - 1 : s1[i] = ops[i]
      /\ s1[pos] = Del(n)
  BY <1>1, <1>2, <1>4, ConcatProperties
<1> HIDE DEF s1
<1>6. /\ s2 \in Seq(Operations) /\ Len(s2) = L + 1
      /\ \A i \in 1 .. pos : s2[i] = s1[i]
      /\ \A i \in pos + 1 .. L + 1 : s2[i] = ops[i - 1]
  <2>1. /\ s2 \in Seq(Operations) /\ Len(s2) = L + 1
        /\ \A i \in 1 .. pos : s2[i] = s1[i]
        /\ \A i \in pos + 1 .. L + 1 : s2[i] = after[i - pos]
    BY <1>1, <1>3, <1>5, ConcatProperties
  <2>2. \A i \in pos + 1 .. L + 1 : i - pos \in 1 .. L - pos + 1 /\ pos + (i - pos) - 1 = i - 1
    BY <1>1
  <2> QED
    BY <1>3, <2>1, <2>2
<1> HIDE DEF s2
<1>7. InsertRemoval(n, pos) = s2 \o <<Add(n)>>
  BY <1>4, <1>5, <1>3, ConcatAssociative DEF InsertRemoval, s2, s1, before, after
<1> DEFINE s == s2 \o <<Add(n)>>
<1>8. /\ s \in Seq(Operations) /\ Len(s) = L + 2
      /\ \A i \in 1 .. L + 1 : s[i] = s2[i]
      /\ s[L + 2] = Add(n)
  BY <1>1, <1>4, <1>6, ConcatProperties
<1> HIDE DEF s
<1>9. /\ \A i \in 1 .. pos - 1 : s[i] = ops[i]
      /\ s[pos] = Del(n)
      /\ \A i \in pos + 1 .. L + 1 : s[i] = ops[i - 1]
  BY <1>1, <1>5, <1>6, <1>8
<1> QED
  BY <1>7, <1>8, <1>9 DEF s

\* What is known of the package whose operations are added next.
LEMMA NextPackage ==
  ASSUME PlanType, MergeInv, elems # <<>>
  PROVE  LET n == Head(elems)
             done == Adds \ Range(elems)
         IN /\ n \in Names /\ n \in Adds /\ n \notin Gone /\ (n \in Removed <=> plan[n] = "U")
            /\ Add(n) \in Operations /\ Add(n).act \in {"N", "U"}
            /\ Tail(elems) \in Seq(Names) /\ IsInjective(Tail(elems))
            /\ Range(Tail(elems)) = Range(elems) \ {n}
            /\ Adds \ Range(Tail(elems)) = done \cup {n}
            /\ \A i \in DOMAIN ops : ops[i].name # n
            /\ Merged(done \cup {n}) =
                 Merged(done) \cup {Add(n)} \cup (IF plan[n] = "U" THEN {Del(n)} ELSE {})
<1> DEFINE n == Head(elems)
           done == Adds \ Range(elems)
<1>1. /\ n \in Names /\ Tail(elems) \in Seq(Names) /\ IsInjective(Tail(elems))
      /\ n \in Range(elems) /\ Range(Tail(elems)) = Range(elems) \ {n}
  BY TailOfInjective DEF MergeInv
<1>2. n \in Adds /\ Adds \ Range(Tail(elems)) = done \cup {n}
  BY <1>1 DEF MergeInv
<1> HIDE DEF n
<1>3. plan[n] \in {"N", "U"}
  BY <1>2 DEF Adds
<1>4. /\ n \notin Gone /\ (n \in Removed <=> plan[n] = "U")
      /\ Add(n) \in Operations /\ Add(n).act \in {"N", "U"}
  BY <1>1, <1>3 DEF Gone, Removed, Add, Operations, Todos
<1>5. \A i \in DOMAIN ops : ops[i].name # n
  BY <1>1, <1>4 DEF MergeInv, GoneFirst
<1>6. Merged(done \cup {n}) =
        Merged(done) \cup {Add(n)} \cup (IF plan[n] = "U" THEN {Del(n)} ELSE {})
  <2>1. {Add(k) : k \in done \cup {n}} = {Add(k) : k \in done} \cup {Add(n)}
    OBVIOUS
  <2>2. CASE plan[n] = "U"
    <3>1. {Del(k) : k \in (done \cup {n}) \cap Removed} = {Del(k) : k \in done \cap Removed} \cup {Del(n)}
      BY <1>4, <2>2
    <3> QED
      BY <2>1, <2>2, <3>1 DEF Merged
  <2>3. CASE plan[n] # "U"
    <3>1. (done \cup {n}) \cap Removed = done \cap Removed
      BY <1>4, <2>3
    <3> QED
      BY <2>1, <2>3, <3>1 DEF Merged
  <2> QED
    BY <2>2, <2>3
<1> QED
  BY <1>1, <1>2, <1>4, <1>5, <1>6 DEF n

LEMMA MergeMerges ==
  ASSUME PlanType, MergeInv, Merge
  PROVE  MergeInv' /\ PlanType' /\ pc' = "merge"
<1> DEFINE n == Head(elems)
           done == Adds \ Range(elems)
           L == Len(ops)
<1>1. /\ elems # <<>> /\ elems' = Tail(elems) /\ pc' = "merge" /\ UNCHANGED plan
      /\ \/ /\ plan[n] = "U"
            /\ \E pos \in Refusers \cup {L + 1} : ops' = InsertRemoval(n, pos)
         \/ plan[n] # "U" /\ ops' = Append(ops, Add(n))
  BY DEF Merge, input
<1>2. Adds' = Adds /\ Gone' = Gone /\ Removed' = Removed /\ Removals' = Removals
  BY <1>1 DEF Adds, Gone, Removed, Removals
<1>3. /\ n \in Names /\ n \in Adds /\ n \notin Gone
      /\ Add(n) \in Operations /\ Add(n).act \in {"N", "U"}
      /\ Tail(elems) \in Seq(Names) /\ IsInjective(Tail(elems))
      /\ Range(Tail(elems)) = Range(elems) \ {n}
      /\ Adds \ Range(Tail(elems)) = done \cup {n}
      /\ \A i \in DOMAIN ops : ops[i].name # n
      /\ Merged(done \cup {n}) =
           Merged(done) \cup {Add(n)} \cup (IF plan[n] = "U" THEN {Del(n)} ELSE {})
  BY <1>1, NextPackage
<1>4. /\ ops \in Seq(Operations) /\ IsInjective(ops) /\ Range(ops) = Merged(done)
      /\ GoneFirst /\ OldFirst /\ Range(elems) \subseteq Adds
      /\ L \in Nat /\ DOMAIN ops = 1 .. L /\ Removals \in Nat /\ Removals <= L
      /\ \A i \in 1 .. L : IF i <= Removals THEN ops[i].name \in Gone
                          ELSE ops[i].name \in Adds \ Range(elems)
  BY LenProperties DEF MergeInv, GoneFirst
<1>5. /\ Add(n).name = n /\ Del(n).name = n /\ Del(n).act = "D" /\ Add(n) # Del(n)
      /\ Add(n).act # "D"
  BY <1>3 DEF Add, Del
<1>6. Add(n) \notin Range(ops) /\ Del(n) \notin Range(ops)
  BY <1>3, <1>5 DEF Range
<1> HIDE DEF n, done
<1>7. SUFFICES /\ ops' \in Seq(Operations) /\ IsInjective(ops')
               /\ Range(ops') = Range(ops) \cup {Add(n)} \cup (IF plan[n] = "U" THEN {Del(n)} ELSE {})
               /\ L <= Len(ops')
               /\ \A i \in DOMAIN ops' : IF i <= Removals THEN ops'[i].name \in Gone
                                        ELSE ops'[i].name \in (Adds \ Range(elems)) \cup {n}
               /\ OldFirst'
  <2>1. Merged(Adds \ Range(elems))' = Merged(done \cup {n})
    BY <1>1, <1>3, <1>2 DEF Merged, Add, Del
  <2>2. Range(ops') = Merged(Adds \ Range(elems))'
    BY <1>3, <1>4, <1>7, <2>1
  <2>3. Len(ops') \in Nat
    BY <1>7, LenProperties
  <2>4. GoneFirst'
    BY <1>1, <1>2, <1>3, <1>4, <1>7, <2>3 DEF GoneFirst
  <2> QED
    BY <1>1, <1>2, <1>3, <1>4, <1>7, <2>2, <2>4 DEF MergeInv, PlanType
<1>8. CASE plan[n] # "U" /\ ops' = Append(ops, Add(n))
  <2>1. /\ ops' \in Seq(Operations) /\ IsInjective(ops') /\ Range(ops') = Range(ops) \cup {Add(n)}
    BY <1>3, <1>4, <1>6, <1>8, AppendToInjective
  <2>2. /\ Len(ops') = L + 1 /\ DOMAIN ops' = 1 .. L + 1
        /\ \A i \in 1 .. L : ops'[i] = ops[i]
        /\ ops'[L + 1] = Add(n)
    BY <1>3, <1>4, <1>8
  <2>3. \A i \in DOMAIN ops' : IF i <= Removals THEN ops'[i].name \in Gone
                              ELSE ops'[i].name \in (Adds \ Range(elems)) \cup {n}
    BY <1>4, <1>5, <2>2
  <2>4. OldFirst'
    BY <1>4, <1>5, <2>2 DEF OldFirst
  <2> QED
    BY <1>4, <1>8, <2>1, <2>2, <2>3, <2>4
<1>9. ASSUME NEW pos \in Refusers \cup {L + 1}, plan[n] = "U", ops' = InsertRemoval(n, pos)
      PROVE  /\ ops' \in Seq(Operations) /\ IsInjective(ops')
             /\ Range(ops') = Range(ops) \cup {Add(n), Del(n)}
             /\ L <= Len(ops')
             /\ \A i \in DOMAIN ops' : IF i <= Removals THEN ops'[i].name \in Gone
                                      ELSE ops'[i].name \in (Adds \ Range(elems)) \cup {n}
             /\ OldFirst'
  <2>1. pos \in 1 .. L + 1 /\ pos > Removals
    BY <1>4 DEF Refusers, Removals
  <2>2. /\ ops' \in Seq(Operations) /\ Len(ops') = L + 2 /\ DOMAIN ops' = 1 .. L + 2
        /\ \A i \in 1 .. pos - 1 : ops'[i] = ops[i]
        /\ ops'[pos] = Del(n)
        /\ \A i \in pos + 1 .. L + 1 : ops'[i] = ops[i - 1]
        /\ ops'[L + 2] = Add(n)
    BY <1>3, <1>4, <1>9, <2>1, InsertedOps, LenProperties
  <2> DEFINE was(i) == IF i < pos THEN i ELSE i - 1
  <2>3. \A i \in 1 .. L + 2 : \/ i = pos /\ ops'[i] = Del(n)
                              \/ i = L + 2 /\ ops'[i] = Add(n)
                              \/ /\ i # pos /\ i # L + 2 /\ was(i) \in 1 .. L
                                 /\ ops'[i] = ops[was(i)] /\ ops'[i] \in Range(ops)
    <3>1. TAKE i \in 1 .. L + 2
    <3>2. CASE i \notin {pos, L + 2}
      <4>1. was(i) \in 1 .. L
        BY <1>4, <2>1, <3>2
      <4>2. ops'[i] = ops[was(i)]
        BY <1>4, <2>1, <2>2, <3>2
      <4> HIDE DEF was
      <4>3. ops[was(i)] \in Range(ops)
        BY <1>4, <4>1 DEF Range
      <4>4. i # pos /\ i # L + 2
        BY <3>2
      <4> QED
        BY <4>1, <4>2, <4>3, <4>4
    <3>3. CASE i = pos
      BY <2>2, <3>3
    <3>4. CASE i = L + 2
      BY <2>2, <3>4
    <3> QED
      BY <3>2, <3>3, <3>4
  <2>4. \A i \in 1 .. L : \E j \in 1 .. L + 2 : ops'[j] = ops[i]
    <3>1. TAKE i \in 1 .. L
    <3>2. CASE i < pos
      BY <1>4, <2>1, <2>2, <3>2
    <3>3. CASE ~(i < pos)
      <4>1. i + 1 \in pos + 1 .. L + 1 /\ (i + 1) - 1 = i /\ i + 1 \in 1 .. L + 2
        BY <1>4, <2>1, <3>3
      <4>2. ops'[i + 1] = ops[i]
        BY <2>2, <4>1
      <4> QED
        BY <4>1, <4>2
    <3> QED
      BY <3>2, <3>3
  <2>5. Range(ops') = Range(ops) \cup {Add(n), Del(n)}
    <3>1. ASSUME NEW x \in Range(ops') PROVE x \in Range(ops) \cup {Add(n), Del(n)}
      BY <2>2, <2>3, <3>1 DEF Range
    <3>2. ASSUME NEW x \in Range(ops) PROVE x \in Range(ops')
      BY <1>4, <2>2, <2>4, <3>2 DEF Range
    <3>3. Add(n) \in Range(ops') /\ Del(n) \in Range(ops')
      BY <1>4, <2>1, <2>2 DEF Range
    <3> QED
      BY <3>1, <3>2, <3>3
  <2>6. IsInjective(ops')
    <3>1. SUFFICES ASSUME NEW i \in 1 .. L + 2, NEW j \in 1 .. L + 2, ops'[i] = ops'[j]
                   PROVE  i = j
      BY <2>2 DEF IsInjective
    <3>2. CASE i \in {pos, L + 2} \/ j \in {pos, L + 2}
      BY <1>5, <1>6, <2>1, <2>2, <2>3, <3>1, <3>2
    <3>3. CASE i \notin {pos, L + 2} /\ j \notin {pos, L + 2}
      <4>1. was(i) = was(j)
        BY <1>4, <2>3, <3>1, <3>3 DEF IsInjective
      <4> QED
        BY <1>4, <2>1, <3>3, <4>1
    <3> QED
      BY <3>2, <3>3
  <2>7. \A i \in DOMAIN ops' : IF i <= Removals THEN ops'[i].name \in Gone
                              ELSE ops'[i].name \in (Adds \ Range(elems)) \cup {n}
    <3>1. SUFFICES ASSUME NEW i \in 1 .. L + 2
                   PROVE  IF i <= Removals THEN ops'[i].name \in Gone
                          ELSE ops'[i].name \in (Adds \ Range(elems)) \cup {n}
      BY <2>2
    <3>2. CASE i <= Removals
      BY <1>4, <2>1, <2>2, <3>2
    <3>3. CASE ~(i <= Removals)
      <4>1. CASE i \in {pos, L + 2}
        BY <1>5, <2>2, <3>3, <4>1
      <4>2. CASE i \notin {pos, L + 2}
        <5>1. was(i) \in 1 .. L /\ ~(was(i) <= Removals) /\ ops'[i] = ops[was(i)]
          BY <1>4, <2>1, <2>3, <3>3, <4>2
        <5> HIDE DEF was
        <5> QED
          BY <1>4, <3>3, <5>1
      <4> QED
        BY <4>1, <4>2
    <3> QED
      BY <3>2, <3>3
  <2>8. OldFirst'
    <3>1. SUFFICES ASSUME NEW i \in 1 .. L + 2, NEW j \in 1 .. L + 2, i < j, ops'[j].act = "D"
                   PROVE  ops'[i].name # ops'[j].name
      BY <2>2 DEF OldFirst
    <3>2. j # L + 2 /\ i # L + 2
      BY <1>4, <1>5, <2>2, <3>1
    <3>3. CASE j = pos
      <4>1. i \in 1 .. L /\ ops'[i] = ops[i]
        BY <1>4, <2>1, <2>2, <3>1, <3>3
      <4> QED
        BY <1>3, <1>4, <1>5, <2>2, <3>3, <4>1
    <3>4. CASE j # pos /\ i = pos
      <4>1. was(j) \in 1 .. L /\ ops'[j] = ops[was(j)]
        BY <2>3, <3>2, <3>4
      <4> HIDE DEF was
      <4> QED
        BY <1>3, <1>4, <1>5, <2>2, <3>4, <4>1
    <3>5. CASE j # pos /\ i # pos
      <4>1. /\ was(i) \in 1 .. L /\ ops'[i] = ops[was(i)]
            /\ was(j) \in 1 .. L /\ ops'[j] = ops[was(j)]
        BY <2>3, <3>2, <3>5
      <4>2. was(i) < was(j)
        BY <1>4, <2>1, <3>1, <3>5
      <4> HIDE DEF was
      <4> QED
        BY <1>4, <3>1, <4>1, <4>2 DEF OldFirst
    <3> QED
      BY <3>3, <3>4, <3>5
  <2> QED
    BY <1>4, <2>2, <2>5, <2>6, <2>7, <2>8
<1>10. CASE plan[n] = "U" /\ \E pos \in Refusers \cup {L + 1} : ops' = InsertRemoval(n, pos)
  <2>1. PICK pos \in Refusers \cup {L + 1} : ops' = InsertRemoval(n, pos)
    BY <1>10
  <2> QED
    BY <1>9, <1>10, <2>1
<1> QED
  BY <1>1, <1>8, <1>10 DEF n

-----------------------------------------------------------------------------
(* The order of the additions.                                             *)

\* The packages merged have all their requires before them.
AddsInOrder(r) ==
  \A n \in Adds \ Range(elems) : \A x \in Range(r[n]) :
    /\ x \in Adds \ Range(elems)
    /\ \A i, j \in DOMAIN ops : ops[i] = Add(x) /\ ops[j] = Add(n) => i < j

\* The others wait only for packages merged or before them in the list.
RestInOrder(r) ==
  \A i \in DOMAIN elems : \A x \in Range(r[elems[i]]) :
    x \in Adds \ Range(elems) \/ \E j \in 1 .. i - 1 : elems[j] = x

\* Where a merge moves the operations, with the sequence f of their old places.
Moves(n, f) ==
  /\ \A i \in DOMAIN ops' :
       \/ ops'[i] = Del(n)
       \/ i = Len(ops') /\ ops'[i] = Add(n)
       \/ i < Len(ops') /\ f[i] \in DOMAIN ops /\ ops'[i] = ops[f[i]]
  /\ \A i, j \in DOMAIN ops' : f[i] < f[j] => i < j

LEMMA MergeMoves ==
  ASSUME PlanType, MergeInv, Merge
  PROVE  \E f : Moves(Head(elems), f)
<1> DEFINE n == Head(elems)
           L == Len(ops)
<1>1. /\ elems # <<>>
      /\ \/ \E pos \in Refusers \cup {L + 1} : ops' = InsertRemoval(n, pos)
         \/ ops' = Append(ops, Add(n))
  BY DEF Merge
<1>2. /\ n \in Names /\ Add(n) \in Operations /\ ops \in Seq(Operations)
      /\ L \in Nat /\ Removals \in Nat /\ DOMAIN ops = 1 .. L
  BY <1>1, NextPackage, LenProperties DEF MergeInv, GoneFirst
<1> HIDE DEF n, L
<1>3. CASE ops' = Append(ops, Add(n))
  <2> DEFINE f == [i \in 1 .. L + 1 |-> i]
  <2>1. /\ Len(ops') = L + 1 /\ DOMAIN ops' = 1 .. L + 1
        /\ \A i \in 1 .. L : ops'[i] = ops[i]
        /\ ops'[L + 1] = Add(n)
    BY <1>2, <1>3 DEF L
  <2>2. \A i \in 1 .. L + 1 : f[i] = i
    OBVIOUS
  <2> HIDE DEF f
  <2>3. \A i \in 1 .. L + 1 : i = L + 1 \/ (i \in 1 .. L /\ i < L + 1)
    <3>1. L \in Nat
      BY <1>2
    <3> QED BY <3>1
  <2>4. Moves(n, f)
    BY <1>2, <2>1, <2>2, <2>3 DEF Moves
  <2> QED BY <2>4 DEF n
<1>4. ASSUME NEW pos \in Refusers \cup {L + 1}, ops' = InsertRemoval(n, pos)
      PROVE  \E f : Moves(n, f)
  <2> DEFINE f == [i \in 1 .. L + 2 |-> IF i < pos THEN i ELSE i - 1]
  <2>1. pos \in 1 .. L + 1
    BY <1>2 DEF Refusers, Removals, L
  <2>2. /\ Len(ops') = L + 2 /\ DOMAIN ops' = 1 .. L + 2
        /\ \A i \in 1 .. pos - 1 : ops'[i] = ops[i]
        /\ ops'[pos] = Del(n)
        /\ \A i \in pos + 1 .. L + 1 : ops'[i] = ops[i - 1]
        /\ ops'[L + 2] = Add(n)
    BY <1>2, <1>4, <2>1, InsertedOps, LenProperties DEF L
  <2>3. \A i \in 1 .. L + 2 : f[i] = IF i < pos THEN i ELSE i - 1
    OBVIOUS
  <2> HIDE DEF f
  <2>4. ASSUME NEW i \in 1 .. L + 2
        PROVE  \/ ops'[i] = Del(n)
               \/ i = L + 2 /\ ops'[i] = Add(n)
               \/ i < L + 2 /\ f[i] \in 1 .. L /\ ops'[i] = ops[f[i]]
    <3>1. CASE i < pos
      BY <1>2, <2>1, <2>2, <2>3, <3>1
    <3>2. CASE i = pos
      BY <2>2, <3>2
    <3>3. CASE i = L + 2
      BY <2>2, <3>3
    <3>4. CASE i > pos /\ i # L + 2
      <4>1. i \in pos + 1 .. L + 1 /\ f[i] = i - 1 /\ i - 1 \in 1 .. L /\ i < L + 2
        BY <1>2, <2>1, <2>3, <3>4
      <4> QED BY <2>2, <4>1
    <3> QED BY <1>2, <2>1, <3>1, <3>2, <3>3, <3>4
  <2>5. \A i, j \in 1 .. L + 2 : f[i] < f[j] => i < j
    BY <1>2, <2>1, <2>3
  <2>6. Moves(n, f)
    BY <1>2, <2>2, <2>4, <2>5 DEF Moves
  <2> QED BY <2>6
<1> QED BY <1>1, <1>3, <1>4 DEF n, L

LEMMA MergeKeepsOrder ==
  ASSUME PlanType, MergeInv, Merge, NEW r \in [Names -> Seq(Names)], AddsInOrder(r), RestInOrder(r)
  PROVE  AddsInOrder(r)' /\ RestInOrder(r)'
<1> DEFINE n == Head(elems)
<1>1. elems # <<>> /\ elems' = Tail(elems) /\ UNCHANGED plan
  BY DEF Merge, input
<1>2. Adds' = Adds /\ \A x \in Names : Add(x)' = Add(x)
  BY <1>1 DEF Adds, Add
<1>3. /\ n \in Names /\ n \in Adds /\ Range(Tail(elems)) = Range(elems) \ {n}
      /\ Adds \ Range(Tail(elems)) = (Adds \ Range(elems)) \cup {n}
  BY <1>1, NextPackage
<1>4. PICK f : Moves(n, f)
  BY MergeMoves
<1>5. /\ elems \in Seq(Names) /\ n = elems[1] /\ Len(elems) \in Nat \ {0}
      /\ DOMAIN elems = 1 .. Len(elems) /\ DOMAIN elems' = 1 .. Len(elems) - 1
      /\ \A i \in 1 .. Len(elems) - 1 : elems'[i] = elems[i + 1]
  BY <1>1, HeadTailProperties, LenProperties, EmptySeq DEF MergeInv
<1>6. n \in Range(elems) /\ Adds \subseteq Names
  <2>1. 1 \in DOMAIN elems
    BY <1>5
  <2>2. elems[1] \in Range(elems)
    BY <2>1 DEF Range
  <2> QED BY <1>5, <2>2 DEF Adds
<1> HIDE DEF n
<1>7. ASSUME NEW x \in Adds, NEW i \in DOMAIN ops', ops'[i] = Add(x)
      PROVE  \/ x = n /\ i = Len(ops')
             \/ i < Len(ops') /\ f[i] \in DOMAIN ops /\ ops[f[i]] = Add(x)
  <2>1. Add(x) # Del(n) /\ (Add(x) = Add(n) => x = n)
    BY DEF Adds, Add, Del
  <2> QED BY <1>4, <1>7, <2>1 DEF Moves
<1>8. Len(ops') \in Nat /\ DOMAIN ops' = 1 .. Len(ops')
  <2>1. MergeInv'
    BY MergeMerges
  <2> QED BY <2>1, LenProperties DEF MergeInv
<1>9. \A i \in DOMAIN ops : ops[i].name # n
  BY <1>1, NextPackage DEF n
<1>10. AddsInOrder(r)'
  <2>1. SUFFICES ASSUME NEW m \in (Adds \ Range(elems)) \cup {n}, NEW x \in Range(r[m])
                 PROVE  /\ x \in (Adds \ Range(elems)) \cup {n}
                        /\ \A i, j \in DOMAIN ops' : ops'[i] = Add(x) /\ ops'[j] = Add(m) => i < j
    <3>1. \A m \in (Adds \ Range(elems)) \cup {n} : Add(m)' = Add(m)
      BY <1>2, <1>3, <1>6
    <3> QED BY <1>1, <1>2, <1>3, <2>1, <3>1 DEF AddsInOrder
  <2>2. x \in Adds \ Range(elems)
    <3>1. CASE m = n
      <4>1. 1 \in DOMAIN elems /\ x \in Range(r[elems[1]])
        BY <1>5, <2>1, <3>1
      <4> QED BY <4>1 DEF RestInOrder
    <3>2. CASE m \in Adds \ Range(elems)
      BY <2>1, <3>2 DEF AddsInOrder
    <3> QED BY <3>1, <3>2
  <2>3. ASSUME NEW i \in DOMAIN ops', NEW j \in DOMAIN ops', ops'[i] = Add(x), ops'[j] = Add(m)
        PROVE  i < j
    <3>1. x # n /\ i < Len(ops') /\ f[i] \in DOMAIN ops /\ ops[f[i]] = Add(x)
      BY <1>6, <1>7, <2>2, <2>3
    <3>2. CASE m = n
      <4>1. j = Len(ops')
        <5>1. \A k \in DOMAIN ops : ops[k] # Add(n)
          BY <1>9 DEF Add
        <5> QED BY <1>3, <1>7, <2>3, <3>2, <5>1
      <4> QED BY <3>1, <4>1
    <3>3. CASE m \in Adds \ Range(elems)
      <4>1. f[j] \in DOMAIN ops /\ ops[f[j]] = Add(m)
        BY <1>6, <1>7, <2>3, <3>3
      <4>2. f[i] < f[j]
        BY <2>1, <3>1, <3>3, <4>1 DEF AddsInOrder
      <4> QED BY <1>4, <2>3, <4>2 DEF Moves
    <3> QED BY <3>2, <3>3
  <2> QED BY <2>2, <2>3
<1>11. RestInOrder(r)'
  <2>1. SUFFICES ASSUME NEW i \in 1 .. Len(elems) - 1, NEW x \in Range(r[elems[i + 1]])
                 PROVE  \/ x \in (Adds \ Range(elems)) \cup {n}
                        \/ \E j \in 1 .. i - 1 : elems'[j] = x
    <3>1. /\ (Adds \ Range(elems))' = (Adds \ Range(elems)) \cup {n}
          /\ \A i \in DOMAIN elems' : i \in 1 .. Len(elems) - 1 /\ elems'[i] = elems[i + 1]
      BY <1>1, <1>2, <1>3, <1>5
    <3> QED BY <2>1, <3>1 DEF RestInOrder
  <2>2. i + 1 \in DOMAIN elems
    BY <1>5
  <2>3. CASE x \in Adds \ Range(elems)
    BY <2>3
  <2>4. ASSUME NEW j \in 1 .. (i + 1) - 1, elems[j] = x
        PROVE  \/ x \in (Adds \ Range(elems)) \cup {n}
               \/ \E k \in 1 .. i - 1 : elems'[k] = x
    <3>1. CASE j = 1
      BY <1>5, <2>4, <3>1
    <3>2. CASE j # 1
      <4>1. j - 1 \in 1 .. i - 1 /\ j - 1 \in 1 .. Len(elems) - 1 /\ (j - 1) + 1 = j
        BY <1>5, <3>2
      <4>2. elems'[j - 1] = x
        BY <1>5, <2>4, <4>1
      <4> QED BY <4>1, <4>2
    <3> QED BY <3>1, <3>2
  <2> QED BY <2>1, <2>2, <2>3, <2>4 DEF RestInOrder
<1> QED BY <1>10, <1>11

-----------------------------------------------------------------------------
(* Graphs.                                                                 *)

\* What is reached from an element of Q grows with each step and holds another
\* element reached in one step less, with all that this one reaches: with only
\* finitely many names one of them reaches itself.
Reaching(Q, W) ==
  /\ W \in [0 .. N -> [Q -> SUBSET Q]]
  /\ \A q \in Q : W[0][q] # {}
  /\ \A k \in 0 .. N - 1 : \A q \in Q : \E m \in Q :
       m \notin W[k][m] /\ W[k][m] \cup {m} \subseteq W[k + 1][q]

LEMMA ReachesItself ==
  ASSUME NEW Q \in SUBSET Names, Q # {}, NEW W, Reaching(Q, W)
  PROVE  FALSE
<1> USE DEF Reaching
<1>1. N \in Nat
  BY NamesAssumption DEF NamesAssumption
<1>2. \A S \in SUBSET Q : IsFiniteSet(S) /\ Cardinality(S) \in Nat
  BY NamesFinite, FS_CardinalityType
<1> DEFINE T == {k \in 0 .. N : \A q \in Q : Cardinality(W[k][q]) >= k + 1}
<1>3. 0 \in T
  <2>1. ASSUME NEW q \in Q PROVE Cardinality(W[0][q]) >= 1
    <3>1. W[0][q] \in SUBSET Q /\ W[0][q] # {}
      BY <1>1
    <3>2. Cardinality(W[0][q]) \in Nat /\ Cardinality(W[0][q]) # 0
      BY <1>2, <3>1, FS_EmptySet
    <3> QED BY <3>2
  <2> QED BY <1>1, <2>1
<1>4. ASSUME NEW k \in 0 .. N - 1, k \in T PROVE k + 1 \in T
  <2>1. ASSUME NEW q \in Q PROVE Cardinality(W[k + 1][q]) >= (k + 1) + 1
    <3>1. PICK m \in Q : m \notin W[k][m] /\ W[k][m] \cup {m} \subseteq W[k + 1][q]
      OBVIOUS
    <3> DEFINE A == W[k][m]
               B == W[k + 1][q]
    <3>2. A \in SUBSET Q /\ B \in SUBSET Q
      BY <1>1
    <3>3. Cardinality(A) >= k + 1
      BY <1>4
    <3>4. m \notin A /\ A \cup {m} \in SUBSET B
      BY <3>1
    <3> HIDE DEF A, B
    <3>5. IsFiniteSet(A) /\ IsFiniteSet(B) /\ Cardinality(A) \in Nat /\ Cardinality(B) \in Nat
      BY <1>2, <3>2
    <3>6. Cardinality(A \cup {m}) = Cardinality(A) + 1
      BY <3>4, <3>5, FS_AddElement
    <3>7. Cardinality(A \cup {m}) <= Cardinality(B)
      BY <3>4, <3>5, FS_Subset
    <3>8. Cardinality(B) >= (k + 1) + 1
      BY <1>1, <3>3, <3>5, <3>6, <3>7
    <3> QED BY <3>8 DEF B
  <2> QED BY <1>1, <2>1
<1>5. \A k \in 0 .. N : k \in T
  <2> HIDE DEF T
  <2> QED BY <1>1, <1>3, <1>4, UpTo
<1>6. PICK q \in Q : TRUE
  OBVIOUS
<1>7. Cardinality(W[N][q]) >= N + 1
  <2>1. N \in T
    <3> HIDE DEF T
    <3> QED BY <1>1, <1>5
  <2> QED BY <2>1
<1>8. W[N][q] \in SUBSET Names
  BY <1>1
<1>9. IsFiniteSet(Names) /\ Cardinality(Names) = N
  BY <1>1, FS_Interval DEF Names
<1>10. Cardinality(W[N][q]) <= N /\ Cardinality(W[N][q]) \in Nat
  BY <1>8, <1>9, FS_Subset, FS_CardinalityType
<1> QED BY <1>1, <1>7, <1>10

-----------------------------------------------------------------------------
(* Plans without a cycle.                                                  *)

Joined(R) ==
  R \cup {e \in Adds \X Adds : \E m \in Adds : <<e[1], m>> \in R /\ <<m, e[2]>> \in R}

ArePaths(p) ==
  p = [k \in 0 .. N |->
         IF k = 0 THEN Edges
         ELSE LET R == p[k - 1]
              IN R \cup {e \in Adds \X Adds : \E m \in Adds : <<e[1], m>> \in R /\ <<m, e[2]>> \in R}]

LEMMA PathsJoin ==
  /\ Paths[0] = Edges
  /\ \A k \in 0 .. N - 1 : Paths[k + 1] = Joined(Paths[k])
<1> DEFINE X == SUBSET (Adds \X Adds)
           G == [k \in (1 .. N) \X X |-> Joined(k[2])]
<1>0. N \in Nat
  BY NamesAssumption DEF NamesAssumption
<1>1. Edges \in X
  BY DEF Edges
<1>2. \A R \in X : Joined(R) \in X
  BY DEF Joined
<1>3. G \in [(1 .. N) \X X -> X]
  BY <1>2
<1>4. \A k \in 1 .. N : \A R \in X : G[<<k, R>>] = Joined(R)
  OBVIOUS
<1> HIDE DEF X, G
<1>5. PICK f : Chain(f, N, Edges, G, X)
  BY <1>0, <1>1, <1>3, ChainExists
<1>6. \A k \in 1 .. N : f[k] = Joined(f[k - 1])
  <2>1. TAKE k \in 1 .. N
  <2>2. k - 1 \in 0 .. N
    BY <1>0
  <2>3. f[k - 1] \in X
    BY <1>5, <2>2 DEF Chain
  <2> QED BY <1>4, <1>5, <2>3 DEF Chain
<1>7. ASSUME NEW k \in 0 .. N
      PROVE  f[k] = IF k = 0 THEN Edges ELSE Joined(f[k - 1])
  <2>1. CASE k = 0
    BY <1>5, <2>1 DEF Chain
  <2>2. CASE k # 0
    <3>1. k \in 1 .. N
      BY <1>0, <2>2
    <3> QED BY <1>6, <2>2, <3>1
  <2> QED BY <2>1, <2>2
<1>8. f = [k \in 0 .. N |-> IF k = 0 THEN Edges ELSE Joined(f[k - 1])]
  <2>1. f = [k \in 0 .. N |-> f[k]]
    BY <1>5 DEF Chain
  <2> QED BY <1>7, <2>1
<1>9. \E p : ArePaths(p)
  BY <1>8, Zenon DEF ArePaths, Joined
<1>10. \A k \in 0 .. N : Paths[k] = IF k = 0 THEN Edges ELSE Joined(Paths[k - 1])
  <2>1. ArePaths(Paths)
    BY <1>9, Zenon DEF ArePaths, Paths
  <2>2. Paths = [k \in 0 .. N |-> IF k = 0 THEN Edges ELSE Joined(Paths[k - 1])]
    BY <2>1, Zenon DEF ArePaths, Joined
  <2> QED BY <2>2
<1>11. ASSUME NEW k \in 0 .. N - 1 PROVE Paths[k + 1] = Joined(Paths[k])
  <2>1. k + 1 \in 0 .. N /\ k + 1 # 0 /\ (k + 1) - 1 = k
    BY <1>0
  <2> QED BY <1>10, <2>1
<1>12. Paths[0] = Edges
  <2>1. 0 \in 0 .. N
    BY <1>0
  <2> QED BY <1>10, <2>1
<1> QED BY <1>11, <1>12

LEMMA PathsGrow ==
  \A k \in 0 .. N : Edges \subseteq Paths[k] /\ Paths[k] \subseteq Paths[N]
<1>0. N \in Nat
  BY NamesAssumption DEF NamesAssumption
<1>1. ASSUME NEW k \in 0 .. N - 1 PROVE Paths[k] \subseteq Paths[k + 1]
  BY PathsJoin DEF Joined
<1>2. ASSUME NEW k \in 0 .. N, NEW n \in Nat, k + n <= N PROVE Paths[k] \subseteq Paths[k + n]
  <2> DEFINE T == {j \in 0 .. n : Paths[k] \subseteq Paths[k + j]}
  <2>1. 0 \in T
    OBVIOUS
  <2>2. ASSUME NEW j \in 0 .. n - 1, j \in T PROVE j + 1 \in T
    <3>1. k + j \in 0 .. N - 1 /\ (k + j) + 1 = k + (j + 1) /\ j + 1 \in 0 .. n
      BY <1>0, <1>2
    <3>2. Paths[k + j] \subseteq Paths[(k + j) + 1]
      BY <1>1, <3>1
    <3>3. Paths[k] \subseteq Paths[k + j]
      BY <2>2
    <3>4. Paths[k] \subseteq Paths[k + (j + 1)]
      BY <3>1, <3>2, <3>3
    <3> QED BY <3>1, <3>4
  <2>3. \A j \in 0 .. n : j \in T
    <3> HIDE DEF T
    <3> QED BY <2>1, <2>2, UpTo
  <2>4. n \in T
    <3> HIDE DEF T
    <3> QED BY <2>3
  <2> QED BY <2>4
<1>3. ASSUME NEW k \in 0 .. N PROVE Edges \subseteq Paths[k] /\ Paths[k] \subseteq Paths[N]
  <2>1. 0 \in 0 .. N /\ k \in Nat /\ 0 + k <= N /\ 0 + k = k
    BY <1>0
  <2>2. N - k \in Nat /\ k + (N - k) <= N /\ k + (N - k) = N
    BY <1>0
  <2>3. Paths[0] \subseteq Paths[k]
    BY <1>2, <2>1
  <2>4. Paths[k] \subseteq Paths[N]
    BY <1>2, <2>2
  <2> QED BY <2>3, <2>4, PathsJoin
<1> QED BY <1>3

LEMMA ThinEdges ==
  ASSUME requires \in [Names -> Seq(Names)]
  PROVE  /\ ThinRequires \in [Names -> Seq(Names)]
         /\ \A p \in Names : Range(ThinRequires[p]) = Range(requires[p]) \cap Adds
         /\ \A p, x \in Adds : x \in Range(ThinRequires[p]) <=> <<p, x>> \in Edges
<1> DEFINE rest == Names \ Adds
<1>1. Adds \subseteq Names
  BY DEF Adds
<1>2. ASSUME NEW p \in Names
      PROVE  /\ Without(requires[p], rest) \in Seq(Names)
             /\ Range(Without(requires[p], rest)) = Range(requires[p]) \cap Adds
  <2>1. requires[p] \in Seq(Names)
    OBVIOUS
  <2> HIDE DEF rest
  <2>2. /\ Without(requires[p], rest) \in Seq(Names)
        /\ Range(Without(requires[p], rest)) = Range(requires[p]) \ rest
    BY <2>1, WithoutKeeps
  <2>3. Range(requires[p]) \subseteq Names
    <3>1. DOMAIN requires[p] = 1 .. Len(requires[p]) /\ \A i \in 1 .. Len(requires[p]) : requires[p][i] \in Names
      BY <2>1, LenProperties, ElementOfSeq
    <3> QED BY <3>1 DEF Range
  <2> QED BY <1>1, <2>2, <2>3 DEF rest
<1>3. ThinRequires = [p \in Names |-> Without(requires[p], rest)]
  BY DEF ThinRequires
<1> HIDE DEF rest
<1>4. /\ ThinRequires \in [Names -> Seq(Names)]
      /\ \A p \in Names : Range(ThinRequires[p]) = Range(requires[p]) \cap Adds
  BY <1>2, <1>3
<1>5. \A p, x \in Adds : x \in Range(requires[p]) <=> <<p, x>> \in Edges
  BY DEF Edges
<1> QED BY <1>1, <1>4, <1>5

LEMMA NoPathNoCycle ==
  ASSUME requires \in [Names -> Seq(Names)], \A p \in Adds : <<p, p>> \notin Paths[N]
  PROVE  Acyclical(Adds, ThinRequires)
<1>0. N \in Nat
  BY NamesAssumption DEF NamesAssumption
<1>1. SUFFICES ASSUME NEW Q \in SUBSET Adds, Q # {}, \A p \in Q : Range(ThinRequires[p]) \cap Q # {}
               PROVE  FALSE
  BY DEF Acyclical
<1> DEFINE W == [k \in 0 .. N |-> [q \in Q |-> {m \in Q : <<q, m>> \in Paths[k]}]]
<1>2. \A q \in Q : \E m \in Q : <<q, m>> \in Edges
  BY <1>1, ThinEdges
<1>3. /\ W \in [0 .. N -> [Q -> SUBSET Q]]
      /\ \A k \in 0 .. N : \A q, m \in Q : m \in W[k][q] <=> <<q, m>> \in Paths[k]
  OBVIOUS
<1>4. \A k \in 0 .. N : \A q \in Q : W[k][q] \subseteq Q
  OBVIOUS
<1> HIDE DEF W
<1>5. \A q \in Q : W[0][q] # {}
  <2>1. 0 \in 0 .. N
    BY <1>0
  <2> QED BY <1>2, <1>3, <2>1, PathsJoin
<1>6. ASSUME NEW k \in 0 .. N - 1, NEW q \in Q
      PROVE  \E m \in Q : m \notin W[k][m] /\ W[k][m] \cup {m} \subseteq W[k + 1][q]
  <2>1. PICK m \in Q : <<q, m>> \in Edges
    BY <1>2
  <2>2. k \in 0 .. N /\ k + 1 \in 0 .. N
    BY <1>0
  <2>3. <<q, m>> \in Paths[k] /\ <<q, m>> \in Paths[k + 1] /\ Paths[k] \subseteq Paths[N]
    BY <2>1, <2>2, PathsGrow
  <2>4. m \notin W[k][m]
    BY <1>3, <2>2, <2>3
  <2>5. ASSUME NEW x \in W[k][m] PROVE x \in W[k + 1][q]
    <3>1. x \in Q /\ <<m, x>> \in Paths[k]
      BY <1>3, <1>4, <2>2
    <3>2. <<q, x>> \in Joined(Paths[k])
      <4>1. <<q, x>> \in Adds \X Adds /\ m \in Adds /\ <<q, x>>[1] = q /\ <<q, x>>[2] = x
        BY <3>1
      <4> QED BY <2>3, <3>1, <4>1 DEF Joined
    <3>3. <<q, x>> \in Paths[k + 1]
      BY <3>2, PathsJoin
    <3> QED BY <1>3, <2>2, <3>1, <3>3
  <2>6. m \in W[k + 1][q]
    BY <1>3, <2>2, <2>3
  <2> QED BY <2>4, <2>5, <2>6
<1>7. Q \in SUBSET Names
  <2>1. Adds \subseteq Names
    BY DEF Adds
  <2> QED BY <2>1
<1>8. Reaching(Q, W)
  BY <1>3, <1>5, <1>6 DEF Reaching
<1> QED BY <1>1, <1>7, <1>8, ReachesItself

-----------------------------------------------------------------------------
(* Every step.                                                             *)

LEMMA InitOrder == Init => OrderInv
BY SortInit DEF OrderInv, Sorting

\* A step of the sort ends in a state of the sort, or in its error.
LEMMA SortSteps ==
  ASSUME SortStep, pc \in Sorting
  PROVE  pc' \in Sorting \cup {"error"} /\ pc \notin {"merge", "done", "error"}
BY DEF SortStep, First, EndFirst, EndPass, LoopHead, StartPass, Detect, Drain, Pass, Sorting

LEMMA SortWorks == SortStep => pc \in Sorting
BY DEF SortStep, First, EndFirst, EndPass, LoopHead, StartPass, Detect, Drain, Pass, Sorting

LEMMA NextOrder == OrderInv /\ [Next]_vars => OrderInv'
<1> SUFFICES ASSUME OrderInv, [Next]_vars PROVE OrderInv'
  OBVIOUS
<1>1. CASE Sort
  <2>1. SortStep /\ UNCHANGED plan
    BY <1>1 DEF Sort
  <2>2. pc \in Sorting /\ pc' \in Sorting \cup {"error"} /\ SortInv(Adds) /\ PlanType
    BY <2>1, SortSteps, SortWorks DEF OrderInv, Sorting
  <2>3. SortInv(Adds)'
    <3>1. Adds \in SUBSET Names /\ Adds' = Adds
      BY <2>1 DEF Adds
    <3> HIDE DEF Adds
    <3> QED BY <2>1, <2>2, <3>1, SortKeeps
  <2>4. PlanType'
    BY <2>1, <2>2 DEF PlanType
  <2> QED
    BY <2>2, <2>3, <2>4 DEF OrderInv, Sorting
<1>2. CASE Pure
  <2>1. pc = "sorted"
    BY <1>2 DEF Pure
  <2> QED
    BY <1>2, <2>1, PureMerges DEF OrderInv
<1>3. CASE Merge
  <2>1. pc = "merge"
    BY <1>3 DEF Merge
  <2> QED
    BY <1>3, <2>1, MergeMerges DEF OrderInv
<1>4. CASE EndMerge
  <2>1. /\ pc = "merge" /\ pc' = "done" /\ elems = <<>>
        /\ UNCHANGED <<plan, elems, ops>>
    BY <1>4 DEF EndMerge, input
  <2>2. MergeInv'
    BY <2>1 DEF OrderInv, MergeInv, GoneFirst, OldFirst, Merged, Adds, Gone, Removed, Removals,
       Add, Del
  <2> QED
    BY <2>1, <2>2 DEF OrderInv, PlanType
<1>5. CASE UNCHANGED vars
  <2>1. UNCHANGED <<plan, elems, ops, ans, queue, left, pc>>
    BY <1>5 DEF vars, sortVars, input
  <2>2. UNCHANGED <<MergeInv, SortInv(Adds), PlanType>>
    BY <2>1 DEF SortInv, Listed, PlanType, MergeInv, GoneFirst, OldFirst, Merged, Adds, Gone,
       Removed, Removals, Add, Del
  <2> QED
    BY <2>1, <2>2 DEF OrderInv
<1> QED
  BY <1>1, <1>2, <1>3, <1>4, <1>5 DEF Next

LEMMA DoneOrder == OrderInv => OpsComplete /\ RemovalsInOrder
<1> SUFFICES ASSUME OrderInv, pc = "done"
             PROVE  OpsComplete /\ RemovalsInOrder
  BY DEF OpsComplete, RemovalsInOrder
<1>1. MergeInv /\ Range(elems) = {}
  BY DEF OrderInv, MergeInv, Range
<1>2. OpsComplete
  <2>1. Removed = Gone \cup (Adds \cap Removed)
    BY DEF OrderInv, PlanType, Removed, Gone, Adds
  <2>2. {Del(n) : n \in Removed} = {Del(n) : n \in Gone} \cup {Del(n) : n \in Adds \cap Removed}
    BY <2>1
  <2>3. Range(ops) = Merged(Adds)
    BY <1>1 DEF MergeInv
  <2>4. Merged(Adds) = {Add(n) : n \in Adds} \cup {Del(n) : n \in Removed}
    BY <2>2 DEF Merged
  <2> QED
    BY <1>1, <2>3, <2>4 DEF OpsComplete, MergeInv
<1>3. RemovalsInOrder
  <2>1. SUFFICES ASSUME NEW i \in DOMAIN ops, NEW j \in DOMAIN ops, i < j, ops[j].act = "D"
                 PROVE  /\ ops[i].name # ops[j].name
                        /\ ops[j].name \in Gone => ops[i].name \in Gone
    BY DEF RemovalsInOrder
  <2>2. ops[i].name # ops[j].name
    BY <1>1, <2>1 DEF MergeInv, OldFirst
  <2>3. ASSUME ops[j].name \in Gone PROVE ops[i].name \in Gone
    <3>1. DOMAIN ops = 1 .. Len(ops) /\ Len(ops) \in Nat /\ Removals \in Nat
      BY <1>1, LenProperties DEF MergeInv, GoneFirst
    <3>2. ops[j].name \notin Adds
      BY <2>3 DEF Gone, Adds
    <3>3. j <= Removals
      BY <1>1, <3>2 DEF MergeInv, GoneFirst
    <3> QED
      BY <1>1, <2>1, <3>1, <3>3 DEF MergeInv, GoneFirst
  <2> QED
    BY <2>2, <2>3
<1> QED
  BY <1>2, <1>3

\* OpsComplete: the order of OrderOperations adds each package of the plan and
\* removes each version that goes, all of them once.
THEOREM OpsCompleteCorrect == Spec => []OpsComplete
BY InitOrder, NextOrder, DoneOrder, PTL DEF Spec

\* RemovalsInOrder, what the transaction engine relies on: names that are not
\* added again are removed first, and an old version before its new one.
THEOREM RemovalsInOrderCorrect == Spec => []RemovalsInOrder
BY InitOrder, NextOrder, DoneOrder, PTL DEF Spec

-----------------------------------------------------------------------------
(* Requires come first.                                                    *)

RequireInv ==
  /\ requires \in [Names -> Seq(Names)]
  /\ pc \in Sorting =>
       /\ CutInv(Adds, ThinRequires)
       /\ Acyclical(Adds, ThinRequires) => StallInv /\ InOrder(ans, ThinRequires)
  /\ pc \in {"merge", "done"} /\ Acyclical(Adds, ThinRequires) =>
       AddsInOrder(ThinRequires) /\ RestInOrder(ThinRequires)

LEMMA InitRequire == Init => RequireInv
<1> SUFFICES ASSUME Init PROVE RequireInv
  OBVIOUS
<1>1. /\ requires \in [Names -> Seq(Names)] /\ reqs = ThinRequires /\ pc = "first"
      /\ agenda = <<>> /\ stack = {} /\ ans = <<>> /\ lastSize = 0 /\ detected = FALSE
  BY OpsOrderAssumption DEF Init, OpsOrderAssumption
<1>2. ThinRequires \in [Names -> Seq(Names)]
  BY <1>1, ThinEdges
<1>3. CutInv(Adds, ThinRequires)
  BY <1>1, <1>2 DEF CutInv
<1>4. StallInv /\ InOrder(ans, ThinRequires)
  BY <1>1 DEF StallInv, InOrder
<1> QED BY <1>1, <1>3, <1>4 DEF RequireInv

LEMMA NextRequire == OrderInv /\ RequireInv /\ [Next]_vars => RequireInv'
<1> SUFFICES ASSUME OrderInv, RequireInv, [Next]_vars PROVE RequireInv'
  OBVIOUS
<1> DEFINE A == Adds
           R == ThinRequires
<1>1. ASSUME UNCHANGED <<plan, requires>> PROVE A' = A /\ R' = R
  BY <1>1 DEF Adds, ThinRequires
<1>2. R \in [Names -> Seq(Names)]
  BY ThinEdges DEF RequireInv
<1>3. A \in SUBSET Names
  BY DEF Adds
<1>4. CASE Sort
  <2>1. SortStep /\ UNCHANGED <<plan, requires>>
    BY <1>4 DEF Sort
  <2>2. A' = A /\ R' = R
    BY <1>1, <2>1
  <2>3. pc \in Sorting /\ pc' \in Sorting \cup {"error"} /\ SortInv(A)
    BY <2>1, SortSteps, SortWorks DEF OrderInv, Sorting
  <2>4. CutInv(A, R) /\ (Acyclical(A, R) => StallInv /\ InOrder(ans, R))
    BY <2>3 DEF RequireInv
  <2> HIDE DEF A, R
  <2>5. CutInv(A, R)'
    BY <1>2, <1>3, <2>1, <2>2, <2>3, <2>4, CutKeeps
  <2>6. ASSUME Acyclical(A, R)' PROVE StallInv' /\ InOrder(ans, R)'
    <3>1. Acyclical(A, R)
      BY <2>2, <2>6 DEF Acyclical
    <3> QED BY <1>2, <1>3, <2>1, <2>2, <2>3, <2>4, <3>1, StallKeeps
  <2>7. (requires \in [Names -> Seq(Names)])'
    BY <2>1 DEF RequireInv
  <2> QED BY <2>3, <2>5, <2>6, <2>7 DEF RequireInv, A, R, Sorting
<1>5. CASE Pure
  <2>1. /\ pc = "sorted" /\ pc' = "merge" /\ elems' = ans /\ UNCHANGED <<plan, requires>>
    BY <1>5 DEF Pure, input
  <2>2. A' = A /\ R' = R
    BY <1>1, <2>1
  <2>3. Range(ans) = A /\ (Acyclical(A, R) => InOrder(ans, R))
    BY <2>1 DEF OrderInv, SortInv, Listed, Sorting, RequireInv
  <2>4. ASSUME Acyclical(A, R)' PROVE AddsInOrder(R)' /\ RestInOrder(R)'
    <3>1. InOrder(ans, R)
      BY <2>2, <2>3, <2>4 DEF Acyclical
    <3>2. Adds' \ Range(elems') = {}
      BY <2>1, <2>2, <2>3
    <3>3. AddsInOrder(R)'
      BY <3>2 DEF AddsInOrder
    <3>4. RestInOrder(R)'
      <4> HIDE DEF R
      <4> QED BY <2>1, <2>2, <3>1 DEF RestInOrder, InOrder
    <3> QED BY <3>3, <3>4
  <2> QED BY <2>1, <2>4 DEF RequireInv, Sorting
<1>6. CASE Merge
  <2>1. /\ pc = "merge" /\ pc' = "merge" /\ UNCHANGED <<plan, requires>>
    BY <1>6 DEF Merge, input
  <2>2. A' = A /\ R' = R
    BY <1>1, <2>1
  <2>3. PlanType /\ MergeInv
    BY <2>1 DEF OrderInv
  <2>4. ASSUME Acyclical(A, R)' PROVE AddsInOrder(R)' /\ RestInOrder(R)'
    <3>1. Acyclical(A, R)
      BY <2>2, <2>4 DEF Acyclical
    <3>2. AddsInOrder(R) /\ RestInOrder(R)
      BY <2>1, <3>1 DEF RequireInv
    <3> HIDE DEF A, R
    <3> QED BY <1>2, <1>6, <2>2, <2>3, <3>2, MergeKeepsOrder
  <2> QED BY <2>1, <2>4 DEF RequireInv, Sorting
<1>7. CASE EndMerge
  <2>1. /\ pc = "merge" /\ pc' = "done" /\ UNCHANGED <<plan, requires, elems, ops>>
    BY <1>7 DEF EndMerge, input
  <2>2. A' = A /\ R' = R
    BY <1>1, <2>1
  <2>3. ASSUME Acyclical(A, R)' PROVE AddsInOrder(R)' /\ RestInOrder(R)'
    <3>1. Acyclical(A, R)
      BY <2>2, <2>3 DEF Acyclical
    <3>2. AddsInOrder(R) /\ RestInOrder(R)
      BY <2>1, <3>1 DEF RequireInv
    <3> HIDE DEF R
    <3> QED BY <2>1, <2>2, <3>2 DEF AddsInOrder, RestInOrder, Adds, Add
  <2> QED BY <2>1, <2>3 DEF RequireInv, Sorting
<1>8. CASE UNCHANGED vars
  <2>1. UNCHANGED <<plan, requires, elems, ops, ans, sortVars, pc>>
    BY <1>8 DEF vars, sortVars, input
  <2>2. A' = A /\ R' = R
    BY <1>1, <2>1
  <2> HIDE DEF R
  <2>3. UNCHANGED <<CutInv(A, R), StallInv, InOrder(ans, R), AddsInOrder(R), RestInOrder(R), Acyclical(A, R)>>
    BY <2>1, <2>2 DEF CutInv, StallInv, Unmet, Ready, Pinject, InOrder, AddsInOrder, RestInOrder,
       Adds, Add, Acyclical, sortVars, loop, dfs
  <2> QED BY <2>1, <2>3 DEF RequireInv, R
<1> QED BY <1>4, <1>5, <1>6, <1>7, <1>8 DEF Next

LEMMA DoneRequire == OrderInv /\ RequireInv => RequiresFirst
<1> SUFFICES ASSUME OrderInv, RequireInv, pc = "done", \A p \in Adds : <<p, p>> \notin Paths[N],
                    NEW e \in Edges
             PROVE  AddedAt(e[2]) < AddedAt(e[1])
  BY DEF RequiresFirst
<1> DEFINE p == e[1]
           x == e[2]
<1>1. Acyclical(Adds, ThinRequires)
  BY NoPathNoCycle DEF RequireInv
<1>2. AddsInOrder(ThinRequires) /\ MergeInv /\ OpsComplete
  BY <1>1, DoneOrder DEF RequireInv, OrderInv
<1>3. p \in Adds /\ x \in Adds /\ e = <<p, x>>
  BY DEF Edges
<1>4. Range(elems) = {}
  BY <1>2 DEF MergeInv, Range
<1> HIDE DEF p, x
<1>5. p \in Adds \ Range(elems) /\ x \in Range(ThinRequires[p])
  BY <1>3, <1>4, ThinEdges DEF RequireInv
<1>6. ASSUME NEW n \in Adds PROVE AddedAt(n) \in DOMAIN ops /\ ops[AddedAt(n)] = Add(n)
  <2>1. Add(n) \in Range(ops)
    BY <1>2 DEF OpsComplete
  <2>2. \E i \in DOMAIN ops : ops[i] = Add(n)
    BY <2>1 DEF Range
  <2> QED BY <2>2 DEF AddedAt
<1>7. AddedAt(x) < AddedAt(p)
  BY <1>2, <1>3, <1>5, <1>6 DEF AddsInOrder
<1> QED BY <1>7 DEF p, x

\* RequiresFirst: without a dependency cycle OrderOperations adds every package
\* after all its requires, in whatever order Go iterates the queue.
THEOREM RequiresFirstCorrect == Spec => []RequiresFirst
BY InitOrder, NextOrder, InitRequire, NextRequire, DoneRequire, PTL DEF Spec

-----------------------------------------------------------------------------
(* What the solver of anise-build loads.                                   *)

LoadedFor(g, names, p) ==
  IF NameOf(p) \in names THEN {}
  ELSE {p} \cup UNION {g[names \cup {NameOf(p)}][q] : q \in Deps(p)}

Loaded(g) == [names \in SUBSET Names |-> [p \in forest.pkgs |-> LoadedFor(g, names, p)]]

LEMMA DepsLoaded == \A p : Deps(p) \subseteq forest.pkgs
BY DEF Deps, Search

LEMMA OneMoreName ==
  ASSUME NEW names \in SUBSET Names, NEW n \in Names, n \notin names
  PROVE  names \cup {n} \in SUBSET Names /\ Cardinality(names \cup {n}) = Cardinality(names) + 1
<1>1. IsFiniteSet(names)
  BY NamesFinite
<1> QED BY <1>1, FS_AddElement

LEMMA NamesCounted ==
  ASSUME NEW names \in SUBSET Names
  PROVE  /\ Cardinality(names) \in 0 .. N /\ N \in Nat
         /\ Cardinality(names) = N => names = Names
<1>1. N \in Nat
  BY NamesAssumption DEF NamesAssumption
<1>2. IsFiniteSet(Names) /\ Cardinality(Names) = N
  BY <1>1, FS_Interval DEF Names
<1>3. IsFiniteSet(names) /\ Cardinality(names) <= N /\ (Cardinality(names) = N => names = Names)
  BY <1>2, FS_Subset
<1> QED BY <1>1, <1>3, FS_CardinalityType

\* The recursion ends, because each call has one name more on its stack.
LEMMA LoadEnds ==
  ASSUME forest.pkgs \subseteq Names \X Nat
  PROVE  Load = Loaded(Load)
<1> DEFINE Y == [forest.pkgs -> SUBSET forest.pkgs]
           X == [SUBSET Names -> Y]
           G == [k \in (1 .. N + 1) \X X |-> Loaded(k[2])]
           none == [names \in SUBSET Names |-> [p \in forest.pkgs |-> {}]]
<1>0. N \in Nat /\ N + 1 \in Nat
  BY NamesAssumption DEF NamesAssumption
<1>a. \A p \in forest.pkgs : NameOf(p) \in Names
  BY DEF NameOf
<1>1. none \in X
  OBVIOUS
<1>2. ASSUME NEW g \in X PROVE Loaded(g) \in X
  <2>1. ASSUME NEW names \in SUBSET Names, NEW p \in forest.pkgs
        PROVE  {p} \cup UNION {g[names \cup {NameOf(p)}][q] : q \in Deps(p)} \in SUBSET forest.pkgs
    <3>1. names \cup {NameOf(p)} \in SUBSET Names
      BY <1>a
    <3> DEFINE h == g[names \cup {NameOf(p)}]
    <3>2. h \in Y
      BY <3>1
    <3> HIDE DEF h
    <3>3. \A q \in Deps(p) : h[q] \subseteq forest.pkgs
      BY <3>2, DepsLoaded
    <3>4. {p} \cup UNION {h[q] : q \in Deps(p)} \in SUBSET forest.pkgs
      BY <3>3
    <3> QED BY <3>4 DEF h
  <2>2. \A names \in SUBSET Names : \A p \in forest.pkgs :
          LoadedFor(g, names, p) \in SUBSET forest.pkgs
    BY <2>1 DEF LoadedFor
  <2> QED BY <2>2 DEF Loaded
<1>3. G \in [(1 .. N + 1) \X X -> X]
  BY <1>2
<1>4. \A k \in 1 .. N + 1 : \A g \in X : G[<<k, g>>] = Loaded(g)
  OBVIOUS
<1> HIDE DEF X, G
<1>5. PICK g : Chain(g, N + 1, none, G, X)
  BY <1>0, <1>1, <1>3, ChainExists
<1>6. /\ g \in [0 .. N + 1 -> X] /\ g[0] = none
      /\ \A k \in 0 .. N : g[k + 1] = Loaded(g[k])
  <2>1. g \in [0 .. N + 1 -> X] /\ g[0] = none /\ \A k \in 1 .. N + 1 : g[k] = G[<<k, g[k - 1]>>]
    BY <1>5 DEF Chain
  <2>2. ASSUME NEW k \in 0 .. N PROVE g[k + 1] = Loaded(g[k])
    <3>1. k + 1 \in 1 .. N + 1 /\ (k + 1) - 1 = k /\ k \in 0 .. N + 1
      BY <1>0
    <3>2. g[k] \in X
      BY <2>1, <3>1
    <3>3. g[k + 1] = G[<<k + 1, g[k]>>]
      BY <2>1, <3>1
    <3>4. G[<<k + 1, g[k]>>] = Loaded(g[k])
      BY <1>4, <3>1, <3>2
    <3> QED BY <3>3, <3>4
  <2> QED BY <2>1, <2>2
<1> DEFINE T == {k \in 0 .. N : \A names \in SUBSET Names :
                   Cardinality(names) >= N - k => g[k + 1][names] = g[k][names]}
<1>7. 0 \in T
  <2>1. ASSUME NEW names \in SUBSET Names, Cardinality(names) >= N - 0
        PROVE  g[0 + 1][names] = g[0][names]
    <3>1. names = Names
      BY <2>1, NamesCounted
    <3>2. 0 \in 0 .. N
      BY <1>0
    <3>3. g[0 + 1] = Loaded(g[0])
      BY <1>6, <3>2
    <3>4. \A p \in forest.pkgs : LoadedFor(g[0], names, p) = {}
      BY <1>a, <3>1 DEF LoadedFor
    <3>5. g[0 + 1][names] = [p \in forest.pkgs |-> {}]
      BY <3>3, <3>4 DEF Loaded
    <3> QED BY <1>6, <3>5
  <2> QED BY <1>0, <2>1
<1>8. ASSUME NEW k \in 0 .. N - 1, k \in T PROVE k + 1 \in T
  <2>0. k + 1 \in 0 .. N /\ k \in 0 .. N
    BY <1>0
  <2>1. ASSUME NEW names \in SUBSET Names, Cardinality(names) >= N - (k + 1)
        PROVE  g[(k + 1) + 1][names] = g[k + 1][names]
    <3>1. /\ g[(k + 1) + 1] = Loaded(g[k + 1])
          /\ g[k + 1] = Loaded(g[k])
      BY <1>6, <2>0
    <3>2. ASSUME NEW p \in forest.pkgs, NameOf(p) \notin names
          PROVE  g[k + 1][names \cup {NameOf(p)}] = g[k][names \cup {NameOf(p)}]
      <4>1. /\ names \cup {NameOf(p)} \in SUBSET Names
            /\ Cardinality(names \cup {NameOf(p)}) = Cardinality(names) + 1
        BY <1>a, <3>2, OneMoreName
      <4>2. Cardinality(names \cup {NameOf(p)}) >= N - k
        BY <1>0, <2>1, <4>1, NamesCounted
      <4> QED BY <1>8, <4>1, <4>2
    <3>3. \A p \in forest.pkgs : LoadedFor(g[k + 1], names, p) = LoadedFor(g[k], names, p)
      BY <3>2 DEF LoadedFor
    <3>4. Loaded(g[k + 1])[names] = Loaded(g[k])[names]
      BY <3>3 DEF Loaded
    <3> QED BY <3>1, <3>4
  <2> QED BY <2>0, <2>1
<1>9. \A k \in 0 .. N : k \in T
  <2> HIDE DEF T
  <2> QED BY <1>0, <1>7, <1>8, UpTo
<1>10. g[N + 1] = g[N]
  <2>1. N \in T
    <3> HIDE DEF T
    <3> QED BY <1>0, <1>9
  <2>2. \A names \in SUBSET Names : g[N + 1][names] = g[N][names]
    BY <2>1, NamesCounted
  <2>3. g[N + 1] \in X /\ g[N] \in X
    BY <1>0, <1>6
  <2> QED BY <2>2, <2>3 DEF X
<1>11. g[N] = Loaded(g[N])
  <2>1. N \in 0 .. N
    BY <1>0
  <2> QED BY <1>6, <1>10, <2>1
<1>12. \E h : h = Loaded(h)
  BY <1>11
<1> QED BY <1>12, Zenon DEF Load, Loaded, LoadedFor

\* What is loaded are packages of the tree with other names than the stack.
LEMMA LoadIsFresh ==
  ASSUME forest.pkgs \subseteq Names \X Nat, NEW names \in SUBSET Names, NEW p \in forest.pkgs
  PROVE  Load[names][p] \subseteq {q \in forest.pkgs : NameOf(q) \notin names}
<1> DEFINE Fresh(S) == {q \in forest.pkgs : NameOf(q) \notin S}
           T == {k \in 0 .. N : \A S \in SUBSET Names : Cardinality(S) >= N - k =>
                   \A q \in forest.pkgs : Load[S][q] \subseteq Fresh(S)}
<1>0. N \in Nat /\ \A q \in forest.pkgs : NameOf(q) \in Names
  BY NamesAssumption DEF NamesAssumption, NameOf
<1>1. ASSUME NEW S \in SUBSET Names, NEW q \in forest.pkgs
      PROVE  Load[S][q] = IF NameOf(q) \in S THEN {}
                          ELSE {q} \cup UNION {Load[S \cup {NameOf(q)}][d] : d \in Deps(q)}
  <2>1. Load[S][q] = Loaded(Load)[S][q]
    BY LoadEnds
  <2> QED BY <2>1 DEF Loaded, LoadedFor
<1>2. 0 \in T
  <2>1. ASSUME NEW S \in SUBSET Names, Cardinality(S) >= N - 0, NEW q \in forest.pkgs
        PROVE  Load[S][q] \subseteq Fresh(S)
    <3>1. S = Names
      BY <2>1, NamesCounted
    <3> QED BY <1>0, <1>1, <3>1
  <2> QED BY <1>0, <2>1
<1>3. ASSUME NEW k \in 0 .. N - 1, k \in T PROVE k + 1 \in T
  <2>1. ASSUME NEW S \in SUBSET Names, Cardinality(S) >= N - (k + 1), NEW q \in forest.pkgs,
               NameOf(q) \notin S
        PROVE  Load[S][q] \subseteq Fresh(S)
    <3> DEFINE S1 == S \cup {NameOf(q)}
    <3>1. S1 \in SUBSET Names /\ Cardinality(S1) = Cardinality(S) + 1
      BY <1>0, <2>1, OneMoreName
    <3>2. Cardinality(S1) >= N - k
      BY <1>0, <2>1, <3>1, NamesCounted
    <3> HIDE DEF S1
    <3>3. \A d \in Deps(q) : Load[S1][d] \subseteq Fresh(S1)
      BY <1>3, <3>1, <3>2, DepsLoaded
    <3>4. Load[S][q] = {q} \cup UNION {Load[S1][d] : d \in Deps(q)}
      BY <1>1, <2>1 DEF S1
    <3>5. Fresh(S1) \subseteq Fresh(S) /\ q \in Fresh(S)
      BY <2>1 DEF S1
    <3> HIDE DEF Fresh
    <3> QED BY <3>3, <3>4, <3>5
  <2>2. ASSUME NEW S \in SUBSET Names, NEW q \in forest.pkgs, NameOf(q) \in S
        PROVE  Load[S][q] \subseteq Fresh(S)
    BY <1>1, <2>2
  <2>3. k + 1 \in 0 .. N
    BY <1>0
  <2> QED BY <2>1, <2>2, <2>3
<1>4. \A k \in 0 .. N : k \in T
  <2> HIDE DEF T
  <2> QED BY <1>0, <1>2, <1>3, UpTo
<1>5. N \in T
  <2> HIDE DEF T
  <2> QED BY <1>0, <1>4
<1>6. Cardinality(names) >= N - N
  BY NamesCounted
<1> QED BY <1>5, <1>6

LEMMA AvailableIsOther ==
  ASSUME forest.pkgs \subseteq Names \X Nat, NEW t \in forest.pkgs
  PROVE  \A q \in Available(t) : q \in forest.pkgs /\ NameOf(q) # NameOf(t)
<1>1. {NameOf(t)} \in SUBSET Names
  BY DEF NameOf
<1>2. \A q \in Deps(t) : Load[{NameOf(t)}][q] \subseteq
                           {d \in forest.pkgs : NameOf(d) \notin {NameOf(t)}}
  BY <1>1, DepsLoaded, LoadIsFresh
<1> QED BY <1>2 DEF Available

-----------------------------------------------------------------------------
(* The candidates.                                                         *)

VersionsOf(available, n) == {p \in available : NameOf(p) = n}

Prepared(t, available, n, acc) ==
  IF VersionsOf(available, n) = {} THEN acc
  ELSE IF \E q \in VersionsOf(available, n) : Valid(t, acc.cands, q)
    THEN [acc EXCEPT !.cands = @ \cup {Oldest(VersionsOf(available, n))}]
    ELSE [acc EXCEPT !.ok = FALSE]

ArePrepared(f, t, available) ==
  f = [n \in 0 .. N |-> IF n = 0 THEN [cands |-> {}, ok |-> TRUE]
                        ELSE Prepared(t, available, n, f[n - 1])]

OldestEach(C, available) == \A p \in C : p \in available /\ p = Oldest(VersionsOf(available, NameOf(p)))

LEMMA OldestIsOne ==
  ASSUME NEW S, S \subseteq Names \X Nat, S # {}
  PROVE  Oldest(S) \in S
<1> DEFINE V == {Version(p) : p \in S}
<1>1. V \subseteq Nat /\ V # {}
  BY DEF Version
<1>2. PICK v \in V : \A w \in V : v <= w
  <2> HIDE DEF V
  <2> QED BY <1>1, LeastNumber
<1>3. PICK p \in S : Version(p) = v
  OBVIOUS
<1>4. \A q \in S : Version(p) <= Version(q)
  BY <1>2, <1>3
<1> QED BY <1>4 DEF Oldest

LEMMA PrepareIsChain ==
  ASSUME NEW t, NEW available, available \subseteq Names \X Nat
  PROVE  \E f : /\ f[0] = [cands |-> {}, ok |-> TRUE]
                /\ \A n \in 0 .. N - 1 : f[n + 1] = Prepared(t, available, n + 1, f[n])
                /\ Prepare(t, available) = f[N]
<1> DEFINE X == [cands : SUBSET available, ok : BOOLEAN]
           G == [k \in (1 .. N) \X X |-> Prepared(t, available, k[1], k[2])]
           first == [cands |-> {}, ok |-> TRUE]
<1>0. N \in Nat
  BY NamesAssumption DEF NamesAssumption
<1>1. first \in X
  OBVIOUS
<1>2. ASSUME NEW n \in Names, NEW acc \in X PROVE Prepared(t, available, n, acc) \in X
  <2> DEFINE S == VersionsOf(available, n)
  <2>1. S \subseteq available
    BY DEF VersionsOf
  <2>2. S # {} => Oldest(S) \in available
    BY <2>1, OldestIsOne
  <2> HIDE DEF S
  <2>3. CASE S = {}
    BY <2>3 DEF Prepared, S
  <2>4. CASE S # {}
    <3>1. /\ acc.cands \cup {Oldest(S)} \in SUBSET available
          /\ [acc EXCEPT !.cands = @ \cup {Oldest(S)}] \in X
          /\ [acc EXCEPT !.ok = FALSE] \in X
      BY <2>2, <2>4
    <3> HIDE DEF X
    <3> QED BY <2>4, <3>1 DEF Prepared, S
  <2> QED BY <2>3, <2>4
<1>3. G \in [(1 .. N) \X X -> X]
  BY <1>2 DEF Names
<1>4. \A k \in 1 .. N : \A acc \in X : G[<<k, acc>>] = Prepared(t, available, k, acc)
  OBVIOUS
<1> HIDE DEF X, G, first
<1>5. PICK f : Chain(f, N, first, G, X)
  BY <1>0, <1>1, <1>3, ChainExists
<1>6. ASSUME NEW k \in 1 .. N PROVE f[k] = Prepared(t, available, k, f[k - 1])
  <2>1. k - 1 \in 0 .. N
    BY <1>0
  <2>2. f[k - 1] \in X /\ f[k] = G[<<k, f[k - 1]>>]
    BY <1>5, <2>1 DEF Chain
  <2> QED BY <1>4, <2>2
<1>7. ArePrepared(f, t, available)
  <2>1. f = [k \in 0 .. N |-> f[k]] /\ f[0] = first
    BY <1>5 DEF Chain
  <2>2. ASSUME NEW k \in 0 .. N
        PROVE  f[k] = IF k = 0 THEN [cands |-> {}, ok |-> TRUE]
                      ELSE Prepared(t, available, k, f[k - 1])
    <3>1. CASE k = 0
      BY <2>1, <3>1 DEF first
    <3>2. CASE k # 0
      <4>1. k \in 1 .. N
        BY <1>0, <3>2
      <4> QED BY <1>6, <3>2, <4>1
    <3> QED BY <3>1, <3>2
  <2> QED BY <2>1, <2>2 DEF ArePrepared
<1> DEFINE versions(n) == {p \in available : NameOf(p) = n}
           prep[n \in 0 .. N] ==
             IF n = 0 THEN [cands |-> {}, ok |-> TRUE]
             ELSE LET acc == prep[n - 1]
                  IN IF versions(n) = {} THEN acc
                     ELSE IF \E q \in versions(n) : Valid(t, acc.cands, q)
                       THEN [acc EXCEPT !.cands = @ \cup {Oldest(versions(n))}]
                       ELSE [acc EXCEPT !.ok = FALSE]
<1>8. Prepare(t, available) = prep[N]
  BY DEF Prepare
<1>9. ArePrepared(prep, t, available)
  BY <1>7, Zenon DEF ArePrepared, Prepared, VersionsOf
<1> HIDE DEF prep
<1>10. ASSUME NEW n \in 0 .. N
       PROVE  prep[n] = IF n = 0 THEN [cands |-> {}, ok |-> TRUE]
                        ELSE Prepared(t, available, n, prep[n - 1])
  BY <1>9 DEF ArePrepared
<1>11. prep[0] = [cands |-> {}, ok |-> TRUE]
  BY <1>0, <1>10
<1>12. ASSUME NEW n \in 0 .. N - 1 PROVE prep[n + 1] = Prepared(t, available, n + 1, prep[n])
  <2>1. n + 1 \in 0 .. N /\ n + 1 # 0 /\ (n + 1) - 1 = n
    BY <1>0
  <2> QED BY <1>10, <2>1
<1> QED BY <1>8, <1>11, <1>12

\* The candidates are versions loaded, one of each name.
LEMMA PrepareEach ==
  ASSUME NEW t, NEW available, available \subseteq Names \X Nat
  PROVE  OldestEach(Prepare(t, available).cands, available)
<1> DEFINE Ok(n, acc) == /\ acc = [cands |-> acc.cands, ok |-> acc.ok]
                         /\ OldestEach(acc.cands, available)
                         /\ \A p \in acc.cands : NameOf(p) \in 1 .. n
<1>0. N \in Nat
  BY NamesAssumption
<1>1. PICK f : /\ f[0] = [cands |-> {}, ok |-> TRUE]
               /\ \A n \in 0 .. N - 1 : f[n + 1] = Prepared(t, available, n + 1, f[n])
               /\ Prepare(t, available) = f[N]
  BY PrepareIsChain
<1> DEFINE T == {n \in 0 .. N : Ok(n, f[n])}
<1>2. 0 \in T
  BY <1>0, <1>1 DEF OldestEach
<1>3. ASSUME NEW n \in 0 .. N - 1, n \in T PROVE n + 1 \in T
  <2> DEFINE V == VersionsOf(available, n + 1)
             acc == f[n]
  <2>1. /\ n + 1 \in 0 .. N /\ Ok(n, acc) /\ f[n + 1] = Prepared(t, available, n + 1, acc)
        /\ \A x \in 1 .. n : x \in 1 .. n + 1
    BY <1>0, <1>1, <1>3
  <2>2. CASE f[n + 1].cands = acc.cands /\ f[n + 1] = [cands |-> f[n + 1].cands, ok |-> f[n + 1].ok]
    BY <2>1, <2>2
  <2>3. CASE V # {} /\ f[n + 1] = [acc EXCEPT !.cands = @ \cup {Oldest(V)}]
    <3>1. V \subseteq Names \X Nat /\ Oldest(V) \in V
      BY <2>3, OldestIsOne DEF VersionsOf
    <3>2. Oldest(V) \in available /\ NameOf(Oldest(V)) = n + 1
      BY <3>1 DEF VersionsOf
    <3>3. f[n + 1] = [cands |-> acc.cands \cup {Oldest(V)}, ok |-> acc.ok]
      BY <2>1, <2>3
    <3>4. n + 1 \in 1 .. n + 1
      BY <1>0
    <3> HIDE DEF V, acc
    <3>5. OldestEach(acc.cands \cup {Oldest(V)}, available)
      BY <2>1, <3>2 DEF OldestEach, V
    <3>6. /\ f[n + 1].cands = acc.cands \cup {Oldest(V)} /\ f[n + 1].ok = acc.ok
          /\ f[n + 1] = [cands |-> f[n + 1].cands, ok |-> f[n + 1].ok]
      BY <3>3
    <3>7. \A p \in acc.cands \cup {Oldest(V)} : NameOf(p) \in 1 .. n + 1
      BY <2>1, <3>2, <3>4
    <3> QED BY <2>1, <3>5, <3>6, <3>7
  <2>4. CASE V = {}
    BY <2>1, <2>2, <2>4 DEF Prepared
  <2>5. CASE V # {} /\ f[n + 1] # [acc EXCEPT !.cands = @ \cup {Oldest(V)}]
    <3>1. f[n + 1] = [acc EXCEPT !.ok = FALSE]
      BY <2>1, <2>5 DEF Prepared
    <3>2. f[n + 1] = [cands |-> acc.cands, ok |-> FALSE]
      BY <2>1, <3>1
    <3> QED BY <2>2, <3>2
  <2> QED BY <2>3, <2>4, <2>5
<1>4. N \in T
  <2> HIDE DEF T
  <2>1. \A k \in 0 .. N : k \in T
    BY <1>0, <1>2, <1>3, UpTo
  <2> QED BY <1>0, <2>1
<1> QED BY <1>1, <1>4

-----------------------------------------------------------------------------
(* The solutions.                                                          *)

Named(D) == {NameOf(p) : p \in D}

OneEach(D) == \A p, q \in D : NameOf(p) = NameOf(q) => p = q

\* The requires that the sort of the packages C starts with.
Wants(D) ==
  [n \in Names |-> LET c == {p \in D : NameOf(p) = n}
                   IN IF c = {} THEN <<>> ELSE Requires(CHOOSE p \in c : TRUE)]

\* A package sorted has its requires among those to sort, but for a cycle of two.
Sound(S, r) ==
  \A k \in Range(ans) :
    Range(r[k]) \subseteq S \/ \E m \in S : m \in Range(r[k]) /\ k \in Range(r[m])

\* A solution, with the order stated by the graph of its requires.
Good(s) ==
  /\ s \in Seq(forest.pkgs) /\ s # <<>>
  /\ \A i, j \in DOMAIN s : NameOf(s[i]) = NameOf(s[j]) => i = j
  /\ \A i \in 1 .. Len(s) - 1 :
       Range(Requires(s[i])) \subseteq Named(Range(s)) \/ Paired(s, i)
  /\ Acyclical(Named(Range(s)), Wants(Range(s))) =>
       \A i \in DOMAIN s : \A n \in Range(Requires(s[i])) \cap Named(Range(s)) :
         \E j \in 1 .. i - 1 : NameOf(s[j]) = n

\* While the candidates of a package are sorted.
SortOfChosen ==
  /\ todo # <<>> /\ Target \in forest.pkgs
  /\ chosen \subseteq forest.pkgs /\ OneEach(chosen) /\ NameOf(Target) \notin Named(chosen)
  /\ SortInv(Named(chosen)) /\ CutInv(Named(chosen), Wants(chosen))
  /\ Sound(Named(chosen), Wants(chosen))
  /\ Acyclical(Named(chosen), Wants(chosen)) => StallInv /\ InOrder(ans, Wants(chosen))

BuildInv ==
  /\ forest \in Forests /\ todo \in Seq(Names \X Nat)
  /\ solutions \in Seq(Seq(forest.pkgs)) /\ \A k \in DOMAIN solutions : Good(solutions[k])
  /\ pc \in Sorting \cup {"idle", "error"}
  /\ pc \in Sorting => SortOfChosen

LEMMA WantsRequires ==
  ASSUME NEW D, D \subseteq forest.pkgs, OneEach(D), forest \in Forests
  PROVE  /\ Wants(D) \in [Names -> Seq(Names)]
         /\ \A p \in D : Wants(D)[NameOf(p)] = Requires(p)
         /\ Named(D) \subseteq Names
         /\ \A p \in forest.pkgs : Requires(p) \in Seq(Names) /\ p \in Names \X Nat
         /\ \A p \in forest.pkgs : NameOf(p) \in Names
<1>1. ASSUME NEW p \in forest.pkgs
      PROVE  Requires(p) \in Seq(Names) /\ p \in Names \X Nat /\ NameOf(p) \in Names
  <2>1. /\ forest.requires[p] \in Seq(Names) /\ forest.copies[p] \in Seq(Names)
        /\ p \in Names \X Nat
    BY BuildSolverAssumption
  <2>2. Copies(p) \in Seq(Names)
    BY <2>1 DEF Copies
  <2>3. Requires(p) \in Seq(Names)
    BY <2>1, <2>2 DEF Requires
  <2> QED BY <2>1, <2>3 DEF NameOf
<1>2. ASSUME NEW p \in D PROVE Wants(D)[NameOf(p)] = Requires(p)
  <2> DEFINE c == {q \in D : NameOf(q) = NameOf(p)}
  <2>1. c = {p}
    BY DEF OneEach
  <2>2. NameOf(p) \in Names
    BY <1>1
  <2>3. (CHOOSE q \in c : TRUE) = p
    BY <2>1
  <2>4. Wants(D)[NameOf(p)] = IF c = {} THEN <<>> ELSE Requires(CHOOSE q \in c : TRUE)
    BY <2>2 DEF Wants
  <2> QED BY <2>1, <2>3, <2>4
<1>3. ASSUME NEW n \in Names PROVE Wants(D)[n] \in Seq(Names)
  <2> DEFINE c == {q \in D : NameOf(q) = n}
  <2>1. Wants(D)[n] = IF c = {} THEN <<>> ELSE Requires(CHOOSE q \in c : TRUE)
    BY DEF Wants
  <2>2. <<>> \in Seq(Names)
    OBVIOUS
  <2>3. c # {} => (CHOOSE q \in c : TRUE) \in D
    OBVIOUS
  <2> HIDE DEF c
  <2> QED BY <1>1, <2>1, <2>2, <2>3
<1>4. Wants(D) \in [Names -> Seq(Names)]
  BY <1>3 DEF Wants
<1> QED BY <1>1, <1>2, <1>4 DEF Named

\* The sort of the packages S starts.
LEMMA StartSorts ==
  ASSUME NEW S \in SUBSET Names, NEW r \in [Names -> Seq(Names)], StartSort(S, r)
  PROVE  /\ SortInv(S)' /\ CutInv(S, r)' /\ Sound(S, r)' /\ StallInv' /\ InOrder(ans, r)'
         /\ pc' = "first"
<1>1. IsFiniteSet(S) /\ elems' \in SetToSeqs(S)
  BY NamesFinite DEF StartSort, SortedByRequires
<1>2. elems' \in Seq(Names) /\ IsInjective(elems') /\ Range(elems') = S
  BY <1>1, SetAsSeq
<1>3. ans' = <<>> /\ DOMAIN ans' = {} /\ ans' \in Seq(Names) /\ IsInjective(ans') /\ Range(ans') = {}
  BY DEF StartSort, IsInjective, Range
<1>4. SortInv(S)'
  BY <1>2, <1>3 DEF StartSort, SortInv, Listed, Sorting
<1>5. CutInv(S, r)'
  BY DEF StartSort, CutInv
<1>6. StallInv'
  BY DEF StartSort, StallInv
<1>7. InOrder(ans, r)' /\ Sound(S, r)'
  BY <1>3 DEF InOrder, Sound
<1> QED BY <1>4, <1>5, <1>6, <1>7 DEF StartSort

LEMMA AppendSound ==
  ASSUME NEW S \in SUBSET Names, NEW r \in [Names -> Seq(Names)], SortInv(S), CutInv(S, r),
         pc \in Sorting, NEW k \in Names, Ready(k) \/ Breakable(k)
  PROVE  \/ Range(r[k]) \subseteq S
         \/ \E m \in S : m \in Range(r[k]) /\ k \in Range(r[m])
<1>1. /\ queue \subseteq S /\ Range(ans) \subseteq S /\ reqs[k] \in Seq(Names)
      /\ \A p \in Names : /\ Range(reqs[p]) \subseteq Range(r[p])
                          /\ Range(r[p]) \subseteq Range(reqs[p]) \cup S
  BY DEF SortInv, CutInv
<1>2. CASE Ready(k)
  BY <1>1, <1>2 DEF Ready, Pinject
<1>3. CASE ~Ready(k)
  <2> DEFINE missing == Without(reqs[k], Pinject)
  <2>1. Head(missing) \in queue /\ k \in Range(reqs[Head(missing)])
    BY <1>3 DEF Breakable
  <2>2. missing \in Seq(Names) /\ Range(missing) = Range(reqs[k]) \ Pinject
    BY <1>1, WithoutKeeps
  <2>3. missing # <<>>
    <3>1. Range(missing) # {}
      BY <1>3, <2>2 DEF Ready
    <3>2. Range(<<>>) = {}
      BY DEF Range
    <3> QED BY <3>1, <3>2
  <2> HIDE DEF missing
  <2>4. Head(missing) \in Names /\ Head(missing) \in Range(missing)
    BY <2>2, <2>3, HeadAndTail
  <2> QED BY <1>1, <2>1, <2>2, <2>4
<1> QED BY <1>2, <1>3

LEMMA SoundKeeps ==
  ASSUME NEW S \in SUBSET Names, NEW r \in [Names -> Seq(Names)], SortInv(S), CutInv(S, r),
         Sound(S, r), SortStep
  PROVE  Sound(S, r)'
<1> DEFINE Good1(k) == \/ Range(r[k]) \subseteq S
                       \/ \E m \in S : m \in Range(r[k]) /\ k \in Range(r[m])
<1>0. pc \in Sorting
  BY SortWorks
<1>1. CASE UNCHANGED ans
  BY <1>1 DEF Sound
<1>2. ASSUME NEW k \in Names, Ready(k) \/ Breakable(k), ans' = Append(ans, k) PROVE Sound(S, r)'
  <2>1. Good1(k)
    BY <1>0, <1>2, AppendSound
  <2>2. ans \in Seq(Names)
    BY DEF SortInv
  <2>3. Range(ans') = Range(ans) \cup {k}
    BY <1>2, <2>2, RangeOfAppend
  <2> QED BY <2>1, <2>3 DEF Sound
<1>3. CASE First
  <2>1. Head(elems) \in Names
    BY <1>3, HeadAndTail DEF First, SortInv
  <2>2. UNCHANGED ans \/ (ans' = Append(ans, Head(elems)) /\ Ready(Head(elems)))
    BY <1>3 DEF First
  <2> QED BY <1>1, <1>2, <2>1, <2>2
<1>4. ASSUME NEW k \in Names, Drain(k) \/ Pass(k) PROVE Sound(S, r)'
  <2>1. UNCHANGED ans \/ (ans' = Append(ans, k) /\ (Ready(k) \/ Breakable(k)))
    BY <1>4 DEF Drain, Pass
  <2> QED BY <1>1, <1>2, <2>1
<1>5. CASE EndFirst \/ EndPass \/ LoopHead \/ Detect
  <2>1. UNCHANGED ans
    BY <1>5 DEF EndFirst, EndPass, LoopHead, Detect
  <2> QED BY <1>1, <2>1
<1> QED BY <1>3, <1>4, <1>5 DEF SortStep

LEMMA ChosenSorts ==
  ASSUME NEW S, NEW r, Named(chosen)' = S, Wants(chosen)' = r,
         SortInv(S)', CutInv(S, r)', Sound(S, r)',
         Acyclical(S, r) => StallInv' /\ InOrder(ans, r)',
         (todo # <<>> /\ Target \in forest.pkgs /\ chosen \subseteq forest.pkgs /\ OneEach(chosen))',
         NameOf(Target)' \notin S
  PROVE  SortOfChosen'
<1>1. SortInv(Named(chosen))'
  BY DEF SortInv, Listed, Sorting
<1>2. CutInv(Named(chosen), Wants(chosen))'
  BY DEF CutInv
<1>3. Sound(Named(chosen), Wants(chosen))'
  BY DEF Sound
<1>4. (Acyclical(Named(chosen), Wants(chosen)) => StallInv /\ InOrder(ans, Wants(chosen)))'
  BY DEF Acyclical, InOrder
<1> QED BY <1>1, <1>2, <1>3, <1>4 DEF SortOfChosen

\* The candidates in the order of the sort, and the package itself.
LEMMA SolutionOfSort ==
  ASSUME BuildInv, pc = "sorted",
         NEW s, s = Append([i \in DOMAIN ans |-> Candidate(ans[i])], Target)
  PROVE  /\ s \in Seq(forest.pkgs) /\ Len(s) = Len(ans) + 1 /\ Len(ans) \in Nat
         /\ ans \in Seq(Names) /\ Range(ans) = Named(chosen)
         /\ DOMAIN ans = 1 .. Len(ans) /\ DOMAIN s = 1 .. Len(ans) + 1
         /\ \A i \in 1 .. Len(ans) : s[i] \in chosen /\ NameOf(s[i]) = ans[i]
         /\ s[Len(ans) + 1] = Target
         /\ Range(s) = chosen \cup {Target}
<1> DEFINE cands == [i \in DOMAIN ans |-> Candidate(ans[i])]
<1>1. /\ ans \in Seq(Names) /\ Range(ans) = Named(chosen) /\ OneEach(chosen)
      /\ chosen \subseteq forest.pkgs /\ Target \in forest.pkgs
  <2>1. pc \in Sorting
    BY DEF Sorting
  <2>2. SortOfChosen
    BY <2>1 DEF BuildInv
  <2> QED BY <2>1, <2>2 DEF SortOfChosen, SortInv, Listed
<1>2. DOMAIN ans = 1 .. Len(ans) /\ Len(ans) \in Nat
  BY <1>1
<1>3. ASSUME NEW i \in 1 .. Len(ans)
      PROVE  Candidate(ans[i]) \in chosen /\ NameOf(Candidate(ans[i])) = ans[i]
  <2>1. ans[i] \in Named(chosen)
    BY <1>1, <1>2 DEF Range
  <2> QED BY <2>1 DEF Candidate, Named
<1>4. cands \in Seq(forest.pkgs) /\ Len(cands) = Len(ans)
  BY <1>1, <1>2, <1>3
<1>5. /\ s \in Seq(forest.pkgs) /\ Len(s) = Len(ans) + 1
      /\ \A i \in 1 .. Len(ans) : s[i] = Candidate(ans[i])
      /\ s[Len(ans) + 1] = Target
  BY <1>1, <1>2, <1>4
<1> HIDE DEF cands
<1>6. /\ DOMAIN s = 1 .. Len(ans) + 1
      /\ \A i \in 1 .. Len(ans) : s[i] \in chosen /\ NameOf(s[i]) = ans[i]
  BY <1>2, <1>3, <1>5
<1>7. Range(s) = chosen \cup {Target}
  <2>1. ASSUME NEW x \in Range(s) PROVE x \in chosen \cup {Target}
    <3>1. PICK i \in DOMAIN s : x = s[i]
      BY DEF Range
    <3>2. i \in 1 .. Len(ans) \/ i = Len(ans) + 1
      BY <1>2, <1>6
    <3> QED BY <1>5, <1>6, <3>1, <3>2
  <2>2. ASSUME NEW p \in chosen PROVE p \in Range(s)
    <3>1. NameOf(p) \in Range(ans)
      BY <1>1 DEF Named
    <3>2. PICK i \in 1 .. Len(ans) : ans[i] = NameOf(p)
      BY <1>2, <3>1 DEF Range
    <3>3. s[i] = p
      BY <1>1, <1>6, <3>2 DEF OneEach
    <3>4. i \in DOMAIN s
      BY <1>2, <1>6
    <3> QED BY <3>3, <3>4 DEF Range
  <2>3. Target \in Range(s)
    <3>1. Len(ans) + 1 \in DOMAIN s
      BY <1>2, <1>6
    <3> QED BY <1>5, <3>1 DEF Range
  <2> QED BY <2>1, <2>2, <2>3
<1> QED BY <1>1, <1>2, <1>5, <1>6, <1>7

LEMMA SolvedIsGood ==
  ASSUME BuildInv, pc = "sorted"
  PROVE  Good(Append([i \in DOMAIN ans |-> Candidate(ans[i])], Target))
<1> DEFINE S == Named(chosen)
           r == Wants(chosen)
           D == chosen \cup {Target}
<1>1. PICK s : s = Append([i \in DOMAIN ans |-> Candidate(ans[i])], Target)
  OBVIOUS
<1>2. /\ s \in Seq(forest.pkgs) /\ Len(s) = Len(ans) + 1 /\ Len(ans) \in Nat
      /\ ans \in Seq(Names) /\ Range(ans) = S
      /\ DOMAIN ans = 1 .. Len(ans) /\ DOMAIN s = 1 .. Len(ans) + 1
      /\ \A i \in 1 .. Len(ans) : s[i] \in chosen /\ NameOf(s[i]) = ans[i]
      /\ s[Len(ans) + 1] = Target
      /\ Range(s) = D
  BY <1>1, SolutionOfSort
<1>3. /\ forest \in Forests /\ Target \in forest.pkgs /\ chosen \subseteq forest.pkgs
      /\ OneEach(chosen) /\ NameOf(Target) \notin S /\ IsInjective(ans) /\ Sound(S, r)
      /\ Acyclical(S, r) => InOrder(ans, r)
  <2>1. pc \in Sorting
    BY DEF Sorting
  <2> QED BY <2>1 DEF BuildInv, SortOfChosen, SortInv
<1>4. D \subseteq forest.pkgs /\ OneEach(D) /\ Named(D) = S \cup {NameOf(Target)}
  BY <1>3 DEF OneEach, Named
<1>5. /\ \A p \in D : Wants(D)[NameOf(p)] = Requires(p)
      /\ \A p \in chosen : r[NameOf(p)] = Requires(p)
  <2> HIDE DEF D
  <2> QED BY <1>3, <1>4, WantsRequires
<1> HIDE DEF S, r, D
<1>6. ASSUME NEW i \in DOMAIN s, NEW j \in DOMAIN s, NameOf(s[i]) = NameOf(s[j]) PROVE i = j
  <2>1. /\ i \in 1 .. Len(ans) \/ i = Len(ans) + 1
        /\ j \in 1 .. Len(ans) \/ j = Len(ans) + 1
    BY <1>2
  <2>2. \A m \in 1 .. Len(ans) : NameOf(s[m]) \in S /\ NameOf(s[m]) = ans[m]
    BY <1>2 DEF Range
  <2>3. \A m, n \in 1 .. Len(ans) : ans[m] = ans[n] => m = n
    BY <1>2, <1>3 DEF IsInjective
  <2> QED BY <1>2, <1>3, <1>6, <2>1, <2>2, <2>3
<1>7. ASSUME NEW i \in 1 .. Len(s) - 1
      PROVE  Range(Requires(s[i])) \subseteq Named(Range(s)) \/ Paired(s, i)
  <2>1. i \in 1 .. Len(ans) /\ ans[i] \in Range(ans)
    BY <1>2 DEF Range
  <2>2. r[ans[i]] = Requires(s[i])
    BY <1>2, <1>5, <2>1
  <2>3. CASE Range(r[ans[i]]) \subseteq S
    BY <1>2, <1>4, <2>2, <2>3
  <2>4. ASSUME NEW m \in S, m \in Range(r[ans[i]]), ans[i] \in Range(r[m]) PROVE Paired(s, i)
    <3>1. PICK j \in 1 .. Len(ans) : ans[j] = m
      BY <1>2 DEF Range
    <3>2. NameOf(s[j]) = m /\ r[m] = Requires(s[j]) /\ j \in 1 .. Len(s) - 1
      BY <1>2, <1>5, <3>1
    <3>3. NameOf(s[i]) = ans[i]
      BY <1>2, <2>1
    <3> QED BY <2>2, <2>4, <3>2, <3>3 DEF Paired
  <2> QED BY <1>2, <1>3, <2>1, <2>3, <2>4 DEF Sound
<1>8. ASSUME Acyclical(Named(Range(s)), Wants(Range(s))),
             NEW i \in DOMAIN s, NEW n \in Range(Requires(s[i])) \cap Named(Range(s))
      PROVE  \E j \in 1 .. i - 1 : NameOf(s[j]) = n
  <2>1. Acyclical(S \cup {NameOf(Target)}, Wants(D))
    BY <1>2, <1>4, <1>8
  <2>2. \A p \in S : Wants(D)[p] = r[p]
    BY <1>5 DEF S, D, Named
  <2>3. Acyclical(S, r)
    BY <2>1, <2>2 DEF Acyclical
  <2>4. CASE i \in 1 .. Len(ans)
    <3>1. n \in Range(r[ans[i]])
      BY <1>2, <1>5, <2>4
    <3>2. PICK j \in 1 .. i - 1 : ans[j] = n
      BY <1>2, <1>3, <2>3, <2>4, <3>1 DEF InOrder
    <3>3. j \in 1 .. Len(ans)
      BY <1>2, <2>4
    <3> QED BY <1>2, <3>2, <3>3
  <2>5. CASE i = Len(ans) + 1
    <3>1. Range(Wants(D)[NameOf(Target)]) \cap {NameOf(Target)} = {}
      <4>1. /\ {NameOf(Target)} \in SUBSET (S \cup {NameOf(Target)})
            /\ {NameOf(Target)} # {}
        OBVIOUS
      <4> QED BY <2>1, <4>1 DEF Acyclical
    <3>2. n \in Range(Wants(D)[NameOf(Target)])
      BY <1>2, <1>5, <2>5 DEF D
    <3>3. n \in Range(ans)
      BY <1>2, <1>4, <3>1, <3>2
    <3>4. PICK j \in 1 .. Len(ans) : ans[j] = n
      BY <1>2, <3>3 DEF Range
    <3>5. j \in 1 .. i - 1
      BY <1>2, <2>5
    <3> QED BY <1>2, <3>4, <3>5
  <2> QED BY <1>2, <2>4, <2>5
<1>9. s # <<>>
  BY <1>2
<1> QED BY <1>1, <1>2, <1>6, <1>7, <1>8, <1>9 DEF Good

-----------------------------------------------------------------------------
(* Solutions without a cycle.                                              *)

RequiresOf(s, n) == Range(Requires(CHOOSE q \in Range(s) : NameOf(q) = n))

OneMore(s, R) == R \cup ((UNION {RequiresOf(s, n) : n \in R}) \cap Named(Range(s)))

AreBelow(f, s, p) ==
  f = [k \in 0 .. N |-> IF k = 0 THEN Range(Requires(p)) \cap Named(Range(s))
                        ELSE OneMore(s, f[k - 1])]

\* What p requires in s, in more and more steps.
BelowChain(f, s, p) ==
  /\ f \in [0 .. N -> SUBSET Named(Range(s))]
  /\ f[0] = Range(Requires(p)) \cap Named(Range(s))
  /\ \A k \in 0 .. N - 1 : f[k + 1] = OneMore(s, f[k])
  /\ Below(s, p) = f[N]

LEMMA OneMoreHas ==
  ASSUME NEW s, NEW R
  PROVE  /\ R \subseteq OneMore(s, R)
         /\ \A x : x \in OneMore(s, R) <=>
                  x \in R \/ (x \in Named(Range(s)) /\ \E n \in R : x \in RequiresOf(s, n))
<1>1. ASSUME NEW x
      PROVE  x \in OneMore(s, R) <=>
               x \in R \/ (x \in Named(Range(s)) /\ \E n \in R : x \in RequiresOf(s, n))
  <2>1. x \in UNION {RequiresOf(s, n) : n \in R} <=> \E n \in R : x \in RequiresOf(s, n)
    OBVIOUS
  <2> QED BY <2>1, Zenon DEF OneMore
<1> QED BY <1>1

LEMMA BelowIsChain == ASSUME NEW s, NEW p PROVE \E f : BelowChain(f, s, p)
<1> DEFINE X == SUBSET Named(Range(s))
           first == Range(Requires(p)) \cap Named(Range(s))
           G == [k \in (1 .. N) \X X |-> OneMore(s, k[2])]
<1>0. N \in Nat
  BY NamesAssumption DEF NamesAssumption
<1>1. first \in X
  OBVIOUS
<1>2. \A R \in X : OneMore(s, R) \in X
  <2>1. TAKE R \in X
  <2>2. OneMore(s, R) \subseteq Named(Range(s))
    BY OneMoreHas
  <2> QED BY <2>2
<1>3. G \in [(1 .. N) \X X -> X]
  BY <1>2
<1>4. \A k \in 1 .. N : \A R \in X : G[<<k, R>>] = OneMore(s, R)
  OBVIOUS
<1> HIDE DEF X, G, first
<1>5. PICK f : Chain(f, N, first, G, X)
  BY <1>0, <1>1, <1>3, ChainExists
<1>6. ASSUME NEW k \in 1 .. N PROVE f[k] = OneMore(s, f[k - 1])
  <2>1. k - 1 \in 0 .. N
    BY <1>0
  <2>2. f[k - 1] \in X
    BY <1>5, <2>1 DEF Chain
  <2> QED BY <1>4, <1>5, <2>2 DEF Chain
<1>7. AreBelow(f, s, p)
  <2>1. f = [k \in 0 .. N |-> f[k]] /\ f[0] = first
    BY <1>5 DEF Chain
  <2>2. ASSUME NEW k \in 0 .. N
        PROVE  f[k] = IF k = 0 THEN Range(Requires(p)) \cap Named(Range(s))
                      ELSE OneMore(s, f[k - 1])
    <3>1. CASE k = 0
      BY <2>1, <3>1 DEF first
    <3>2. CASE k # 0
      <4>1. k \in 1 .. N
        BY <1>0, <3>2
      <4> QED BY <1>6, <3>2, <4>1
    <3> QED BY <3>1, <3>2
  <2> QED BY <2>1, <2>2 DEF AreBelow
<1> DEFINE requiresOf(n) == Range(Requires(CHOOSE q \in Range(s) : NameOf(q) = n))
           named == {NameOf(q) : q \in Range(s)}
           reach[k \in 0 .. N] ==
             IF k = 0 THEN Range(Requires(p)) \cap named
             ELSE LET R == reach[k - 1] IN R \cup ((UNION {requiresOf(n) : n \in R}) \cap named)
<1>8. Below(s, p) = reach[N]
  BY DEF Below
<1>9. AreBelow(reach, s, p)
  BY <1>7, Zenon DEF AreBelow, OneMore, RequiresOf, Named
<1> HIDE DEF reach
<1>10. ASSUME NEW k \in 0 .. N
       PROVE  reach[k] = IF k = 0 THEN Range(Requires(p)) \cap Named(Range(s))
                         ELSE OneMore(s, reach[k - 1])
  BY <1>9 DEF AreBelow
<1>11. reach[0] = Range(Requires(p)) \cap Named(Range(s))
  BY <1>0, <1>10
<1>12. ASSUME NEW k \in 0 .. N - 1 PROVE reach[k + 1] = OneMore(s, reach[k])
  <2>1. k + 1 \in 0 .. N /\ k + 1 # 0 /\ (k + 1) - 1 = k
    BY <1>0
  <2> QED BY <1>10, <2>1
<1>13. reach \in [0 .. N -> SUBSET Named(Range(s))]
  <2> DEFINE T == {k \in 0 .. N : reach[k] \subseteq Named(Range(s))}
  <2>1. 0 \in T
    BY <1>0, <1>11
  <2>2. ASSUME NEW k \in 0 .. N - 1, k \in T PROVE k + 1 \in T
    <3>1. k + 1 \in 0 .. N
      BY <1>0
    <3> QED BY <1>12, <2>2, <3>1, OneMoreHas
  <2> HIDE DEF T
  <2>3. \A k \in 0 .. N : k \in T
    BY <1>0, <2>1, <2>2, UpTo
  <2>4. \A k \in 0 .. N : reach[k] \subseteq Named(Range(s))
    BY <2>3 DEF T
  <2>5. reach = [k \in 0 .. N |-> reach[k]]
    BY <1>9 DEF AreBelow
  <2> QED BY <2>4, <2>5
<1>14. BelowChain(reach, s, p)
  BY <1>8, <1>11, <1>12, <1>13 DEF BelowChain
<1> QED BY <1>14

\* What p requires comes within one step more than what is required by its requires.
LEMMA BelowGrows ==
  ASSUME NEW s, NEW p, NEW m \in Range(s), NEW f, BelowChain(f, s, p),
         NEW g, BelowChain(g, s, m), NameOf(m) \in Range(Requires(p)),
         RequiresOf(s, NameOf(m)) = Range(Requires(m))
  PROVE  /\ \A k \in 0 .. N : f[k] \subseteq Below(s, p)
         /\ \A k \in 0 .. N - 1 : g[k] \cup {NameOf(m)} \subseteq f[k + 1]
<1>0. N \in Nat
  BY NamesAssumption DEF NamesAssumption
<1>1. \A k \in 0 .. N - 1 : k \in 0 .. N /\ k + 1 \in 0 .. N
  BY <1>0
<1>2. ASSUME NEW k \in 0 .. N - 1 PROVE f[k] \subseteq f[k + 1]
  BY OneMoreHas DEF BelowChain
<1>3. \A k \in 0 .. N : f[k] \subseteq Below(s, p)
  <2> DEFINE T == {k \in 0 .. N : f[N - k] \subseteq f[N]}
  <2>1. 0 \in T
    BY <1>0
  <2>2. ASSUME NEW k \in 0 .. N - 1, k \in T PROVE k + 1 \in T
    <3>1. N - (k + 1) \in 0 .. N - 1 /\ N - (k + 1) + 1 = N - k /\ k + 1 \in 0 .. N
      BY <1>0
    <3>2. f[N - (k + 1)] \subseteq f[N - k]
      BY <1>2, <3>1
    <3> QED BY <2>2, <3>1, <3>2
  <2> HIDE DEF T
  <2>3. \A k \in 0 .. N : k \in T
    BY <1>0, <2>1, <2>2, UpTo
  <2>4. ASSUME NEW k \in 0 .. N PROVE f[k] \subseteq f[N]
    <3>1. N - k \in 0 .. N /\ N - (N - k) = k
      BY <1>0
    <3>2. N - k \in T
      BY <2>3, <3>1
    <3> QED BY <3>1, <3>2 DEF T
  <2> QED BY <2>4 DEF BelowChain
<1>4. NameOf(m) \in f[0] /\ NameOf(m) \in Named(Range(s))
  BY DEF BelowChain, Named
<1> DEFINE T == {k \in 0 .. N : k < N => g[k] \cup {NameOf(m)} \subseteq f[k + 1]}
<1>5. 0 \in T
  <2>1. CASE N = 0
    BY <2>1
  <2>2. CASE N > 0
    <3>1. 0 \in 0 .. N - 1
      BY <1>0, <2>2
    <3>2. f[0 + 1] = OneMore(s, f[0])
      BY <3>1 DEF BelowChain
    <3>3. g[0] \subseteq RequiresOf(s, NameOf(m)) \cap Named(Range(s))
      BY DEF BelowChain
    <3>4. g[0] \cup {NameOf(m)} \subseteq OneMore(s, f[0])
      BY <1>4, <3>3, OneMoreHas
    <3> QED BY <1>0, <3>2, <3>4
  <2> QED BY <1>0, <2>1, <2>2
<1>6. ASSUME NEW k \in 0 .. N - 1, k \in T PROVE k + 1 \in T
  <2>1. k + 1 \in 0 .. N /\ k < N /\ (k + 1 < N => k + 1 \in 0 .. N - 1)
    BY <1>0
  <2>2. g[k] \cup {NameOf(m)} \subseteq f[k + 1]
    BY <1>6, <2>1
  <2>3. CASE k + 1 < N
    <3>1. g[k + 1] = OneMore(s, g[k]) /\ f[(k + 1) + 1] = OneMore(s, f[k + 1])
      BY <2>1, <2>3 DEF BelowChain
    <3>2. OneMore(s, g[k]) \cup {NameOf(m)} \subseteq OneMore(s, f[k + 1])
      BY <2>2, OneMoreHas
    <3> QED BY <2>1, <3>1, <3>2
  <2> QED BY <2>1, <2>3
<1> HIDE DEF T
<1>7. \A k \in 0 .. N : k \in T
  BY <1>0, <1>5, <1>6, UpTo
<1>8. ASSUME NEW k \in 0 .. N - 1 PROVE g[k] \cup {NameOf(m)} \subseteq f[k + 1]
  <2>1. k \in 0 .. N /\ k < N
    BY <1>0
  <2> QED BY <1>7, <2>1 DEF T
<1> QED BY <1>3, <1>8

LEMMA AcyclicIsAcyclical ==
  ASSUME forest \in Forests, NEW s \in Seq(forest.pkgs), Acyclic(s),
         \A i, j \in DOMAIN s : NameOf(s[i]) = NameOf(s[j]) => i = j
  PROVE  Acyclical(Named(Range(s)), Wants(Range(s)))
<1> DEFINE D == Range(s)
           pkg(q) == CHOOSE p \in D : NameOf(p) = q
<1>0. N \in Nat
  BY NamesAssumption DEF NamesAssumption
<1>1. D \subseteq forest.pkgs /\ OneEach(D)
  BY DEF Range, OneEach
<1>2. \A q \in Named(D) : pkg(q) \in D /\ NameOf(pkg(q)) = q
  BY DEF Named
<1>3. Named(D) \subseteq Names /\ \A q \in Named(D) : Wants(D)[q] = Requires(pkg(q))
  <2> HIDE DEF D, pkg
  <2> QED BY <1>1, <1>2, WantsRequires
<1>4. \A q \in Named(D) : RequiresOf(s, q) = Range(Requires(pkg(q)))
  BY DEF RequiresOf
<1>5. \A q \in Named(D) : q \notin Below(s, pkg(q))
  <2>1. TAKE q \in Named(D)
  <2>2. PICK i \in DOMAIN s : s[i] = pkg(q)
    BY <1>2 DEF Range
  <2> HIDE DEF D, pkg
  <2> QED BY <1>2, <2>2 DEF Acyclic
<1>6. SUFFICES ASSUME NEW Q \in SUBSET Named(D), Q # {},
                      \A p \in Q : Range(Wants(D)[p]) \cap Q # {}
               PROVE  FALSE
  BY DEF Acyclical
<1> DEFINE F == [q \in Q |-> CHOOSE f : BelowChain(f, s, pkg(q))]
           W == [k \in 0 .. N |-> [q \in Q |-> F[q][k] \cap Q]]
<1>7. ASSUME NEW q \in Q PROVE BelowChain(F[q], s, pkg(q))
  <2>1. \E f : BelowChain(f, s, pkg(q))
    BY BelowIsChain
  <2>2. F[q] = CHOOSE f : BelowChain(f, s, pkg(q))
    OBVIOUS
  <2> HIDE DEF F, pkg
  <2> QED BY <2>1, <2>2
<1>8. /\ W \in [0 .. N -> [Q -> SUBSET Q]]
      /\ \A k \in 0 .. N : \A q \in Q : W[k][q] = F[q][k] \cap Q
  OBVIOUS
<1> HIDE DEF D, pkg, F, W
<1>9. \A q \in Q : \E m \in Q : m \in Range(Requires(pkg(q)))
  BY <1>3, <1>6
<1>10. ASSUME NEW q \in Q PROVE W[0][q] # {}
  <2>1. PICK m \in Q : m \in Range(Requires(pkg(q)))
    BY <1>9
  <2>2. F[q][0] = Range(Requires(pkg(q))) \cap Named(D)
    BY <1>7 DEF BelowChain, D
  <2>3. 0 \in 0 .. N
    BY <1>0
  <2> QED BY <1>8, <2>1, <2>2, <2>3
<1>11. ASSUME NEW q \in Q, NEW m \in Q, m \in Range(Requires(pkg(q)))
       PROVE  /\ \A k \in 0 .. N : q \notin F[q][k]
              /\ \A k \in 0 .. N - 1 : F[m][k] \cup {m} \subseteq F[q][k + 1]
  <2>1. /\ BelowChain(F[q], s, pkg(q)) /\ BelowChain(F[m], s, pkg(m))
        /\ pkg(m) \in Range(s) /\ NameOf(pkg(m)) = m
        /\ NameOf(pkg(m)) \in Range(Requires(pkg(q)))
        /\ RequiresOf(s, NameOf(pkg(m))) = Range(Requires(pkg(m)))
    BY <1>2, <1>4, <1>7, <1>11 DEF D
  <2>2. /\ \A k \in 0 .. N : F[q][k] \subseteq Below(s, pkg(q))
        /\ \A k \in 0 .. N - 1 : F[m][k] \cup {NameOf(pkg(m))} \subseteq F[q][k + 1]
    BY <2>1, BelowGrows
  <2> QED BY <1>5, <2>1, <2>2
<1>12. ASSUME NEW k \in 0 .. N - 1, NEW q \in Q
       PROVE  \E m \in Q : m \notin W[k][m] /\ W[k][m] \cup {m} \subseteq W[k + 1][q]
  <2>1. PICK m \in Q : m \in Range(Requires(pkg(q)))
    BY <1>9
  <2>2. PICK l \in Q : l \in Range(Requires(pkg(m)))
    BY <1>9
  <2>3. k \in 0 .. N /\ k + 1 \in 0 .. N
    BY <1>0
  <2>4. m \notin F[m][k]
    BY <1>11, <2>2, <2>3
  <2>5. F[m][k] \cup {m} \subseteq F[q][k + 1]
    BY <1>11, <2>1
  <2> QED BY <1>8, <2>3, <2>4, <2>5
<1>13. Q \in SUBSET Names
  BY <1>3
<1>14. Reaching(Q, W)
  BY <1>8, <1>10, <1>12 DEF Reaching
<1> QED BY <1>6, <1>13, <1>14, ReachesItself

LEMMA GoodIsClosed ==
  ASSUME forest \in Forests, NEW s, Good(s)
  PROVE  LET names == [i \in DOMAIN s |-> NameOf(s[i])]
         IN /\ IsInjective(names)
            /\ \A i \in 1 .. Len(s) - 1 :
                 Range(Requires(s[i])) \subseteq Range(names) \/ Paired(s, i)
            /\ Acyclic(s) =>
                 \A i \in DOMAIN s : \A n \in Range(Requires(s[i])) \cap Range(names) :
                   Position(s, n) < i
<1> DEFINE names == [i \in DOMAIN s |-> NameOf(s[i])]
<1>1. /\ s \in Seq(forest.pkgs) /\ DOMAIN s = 1 .. Len(s) /\ Len(s) \in Nat
      /\ \A i, j \in DOMAIN s : NameOf(s[i]) = NameOf(s[j]) => i = j
  BY DEF Good
<1>2. IsInjective(names)
  BY <1>1 DEF IsInjective
<1>3. Range(names) = Named(Range(s))
  BY DEF Range, Named
<1>4. ASSUME Acyclic(s), NEW i \in DOMAIN s, NEW n \in Range(Requires(s[i])) \cap Range(names)
      PROVE  Position(s, n) < i
  <2>1. Acyclical(Named(Range(s)), Wants(Range(s)))
    BY <1>1, <1>4, AcyclicIsAcyclical
  <2>2. PICK j \in 1 .. i - 1 : NameOf(s[j]) = n
    BY <1>3, <2>1 DEF Good
  <2>3. j \in DOMAIN s /\ j < i
    BY <1>1
  <2>4. Position(s, n) = j
    BY <1>1, <2>2, <2>3 DEF Position
  <2> QED BY <2>3, <2>4
<1>5. \A i \in 1 .. Len(s) - 1 : Range(Requires(s[i])) \subseteq Range(names) \/ Paired(s, i)
  BY <1>3 DEF Good
<1> HIDE DEF names
<1> QED BY <1>2, <1>4, <1>5 DEF names

-----------------------------------------------------------------------------
(* The solver of anise-build, step by step.                                *)

LEMMA InitBuild == ManagerInit => BuildInv
<1> SUFFICES ASSUME ManagerInit PROVE BuildInv
  OBVIOUS
<1>1. forest \in Forests /\ todo \in Seq(Names \X Nat) /\ solutions = <<>> /\ pc = "idle"
  BY BuildSolverAssumption DEF ManagerInit, SolverInit, Idle
<1> QED BY <1>1 DEF BuildInv, Sorting

LEMMA GoodStays ==
  ASSUME NEW s, Good(s), UNCHANGED <<forest, mode>>
  PROVE  Good(s)'
<1>1. \A p : Requires(p)' = Requires(p)
  BY DEF Requires, Copies, Runtime
<1>2. \A i : Paired(s, i)' <=> Paired(s, i)
  BY <1>1 DEF Paired
<1>3. Wants(Range(s))' = Wants(Range(s))
  BY <1>1 DEF Wants
<1>4. Acyclical(Named(Range(s)), Wants(Range(s)))' <=> Acyclical(Named(Range(s)), Wants(Range(s)))
  BY <1>3 DEF Acyclical
<1>5. /\ (s \in Seq(forest.pkgs) /\ s # <<>>)'
      /\ \A i, j \in DOMAIN s : NameOf(s[i]) = NameOf(s[j]) => i = j
  BY DEF Good
<1>6. (\A i \in 1 .. Len(s) - 1 : Range(Requires(s[i])) \subseteq Named(Range(s)) \/ Paired(s, i))'
  BY <1>1, <1>2 DEF Good
<1>7. (Acyclical(Named(Range(s)), Wants(Range(s))) =>
        \A i \in DOMAIN s : \A n \in Range(Requires(s[i])) \cap Named(Range(s)) :
          \E j \in 1 .. i - 1 : NameOf(s[j]) = n)'
  BY <1>1, <1>4 DEF Good
<1> QED BY <1>5, <1>6, <1>7 DEF Good

\* Steps that change nothing of the solver but the state of the command.
LEMMA UnsolvedKeeps ==
  ASSUME BuildInv, UNCHANGED <<forest, mode, solutions>>, todo' \in Seq(Names \X Nat),
         pc' \in {"idle", "error"}
  PROVE  BuildInv'
<1>1. ASSUME NEW k \in DOMAIN solutions PROVE Good(solutions[k])'
  <2>1. Good(solutions[k])
    BY DEF BuildInv
  <2>2. UNCHANGED solutions
    OBVIOUS
  <2> QED BY <2>1, <2>2, GoodStays
<1> QED BY <1>1 DEF BuildInv, Sorting

LEMMA StillKeeps ==
  ASSUME BuildInv,
         UNCHANGED <<forest, mode, solutions, todo, chosen, reqs, elems, queue, ans, left,
                     lastSize, counter, detected, agenda, stack, pc>>
  PROVE  BuildInv'
<1>1. ASSUME NEW k \in DOMAIN solutions PROVE Good(solutions[k])'
  <2>1. Good(solutions[k])
    BY DEF BuildInv
  <2>2. UNCHANGED solutions
    OBVIOUS
  <2> QED BY <2>1, <2>2, GoodStays
<1>2. ASSUME pc \in Sorting PROVE SortOfChosen'
  <2>1. PICK S, r : S = Named(chosen) /\ r = Wants(chosen)
    OBVIOUS
  <2>2. SortOfChosen
    BY <1>2 DEF BuildInv
  <2>3. Named(chosen)' = S /\ Wants(chosen)' = r
    BY <2>1 DEF Named, Wants, Requires, Copies, Runtime
  <2>4. SortInv(S)' /\ CutInv(S, r)' /\ Sound(S, r)'
    BY <2>1, <2>2 DEF SortOfChosen, SortInv, CutInv, Sound, Listed
  <2>5. Acyclical(S, r) => StallInv' /\ InOrder(ans, r)'
    BY <2>1, <2>2 DEF SortOfChosen, StallInv, InOrder, Unmet, Ready, Pinject
  <2>6. (todo # <<>> /\ Target \in forest.pkgs /\ chosen \subseteq forest.pkgs /\ OneEach(chosen))'
    BY <2>2 DEF SortOfChosen, OneEach, Target
  <2>7. NameOf(Target)' \notin S
    BY <2>1, <2>2 DEF SortOfChosen, Target
  <2> QED BY <2>3, <2>4, <2>5, <2>6, <2>7, ChosenSorts
<1> QED BY <1>1, <1>2 DEF BuildInv

LEMMA ToSortStarts ==
  ASSUME NEW t, NEW prep, ToSort(t, prep), prep.ok
  PROVE  /\ chosen' = prep.cands /\ StartSort(Named(prep.cands), Wants(prep.cands))
         /\ UNCHANGED <<todo, status>>
<1> DEFINE needs == [n \in Names |->
                      LET c == {p \in prep.cands : NameOf(p) = n}
                      IN IF c = {} THEN <<>> ELSE Requires(CHOOSE p \in c : TRUE)]
           named == {NameOf(p) : p \in prep.cands}
<1>1. chosen' = prep.cands /\ StartSort(named, needs) /\ UNCHANGED <<todo, status>>
  BY DEF ToSort
<1>2. named = Named(prep.cands)
  BY Zenon DEF Named
<1>3. needs = Wants(prep.cands)
  BY Zenon DEF Wants
<1> HIDE DEF named, needs
<1> QED BY <1>1, <1>2, <1>3

LEMMA ResolveKeeps ==
  ASSUME BuildInv, Resolve
  PROVE  BuildInv'
<1> DEFINE all == IF Target \in forest.pkgs THEN Available(Target) ELSE {}
<1>1. ASSUME NEW e, End(e) PROVE BuildInv'
  <2>1. todo' = <<>> /\ todo' \in Seq(Names \X Nat) /\ UNCHANGED <<forest, mode, solutions>>
    BY <1>1 DEF End, Resolve
  <2>2. pc' = "idle"
    BY <1>1 DEF End, Resolve, sortVars
  <2> QED BY <2>1, <2>2, UnsolvedKeeps
<1>2. CASE Target \in forest.pkgs /\ ToSort(Target, Prepare(Target, Available(Target)))
  <2> DEFINE av == Available(Target)
             prep == Prepare(Target, av)
  <2>1. CASE ~prep.ok
    BY <1>1, <1>2, <2>1 DEF ToSort
  <2>2. CASE prep.ok
    <3>1. PICK D : D = prep.cands
      OBVIOUS
    <3>2. forest.pkgs \subseteq Names \X Nat /\ forest \in Forests
      BY BuildSolverAssumption DEF BuildInv
    <3>3. \A q \in av : q \in forest.pkgs /\ NameOf(q) # NameOf(Target)
      BY <1>2, <3>2, AvailableIsOther
    <3>4. av \subseteq Names \X Nat
      BY <3>2, <3>3
    <3> HIDE DEF av
    <3>5. OldestEach(D, av)
      BY <3>1, <3>4, PrepareEach
    <3> HIDE DEF prep
    <3>6. D \subseteq forest.pkgs /\ OneEach(D) /\ NameOf(Target) \notin Named(D)
      BY <3>3, <3>5 DEF OldestEach, OneEach, Named
    <3>7. PICK S, r : S = Named(D) /\ r = Wants(D)
      OBVIOUS
    <3>8. S \in SUBSET Names /\ r \in [Names -> Seq(Names)]
      BY <3>2, <3>6, <3>7, WantsRequires
    <3>9. /\ chosen' = D /\ StartSort(S, r)
          /\ UNCHANGED <<todo, status, forest, mode, solutions>>
      <4>1. /\ chosen' = D /\ StartSort(Named(D), Wants(D))
            /\ UNCHANGED <<todo, status>>
        <5>1. ToSort(Target, prep)
          BY <1>2 DEF prep, av
        <5> QED BY <2>2, <3>1, <5>1, ToSortStarts
      <4> QED BY <3>7, <4>1 DEF Resolve
    <3>10. /\ SortInv(S)' /\ CutInv(S, r)' /\ Sound(S, r)' /\ StallInv' /\ InOrder(ans, r)'
           /\ pc' = "first"
      BY <3>8, <3>9, StartSorts
    <3>11. Named(chosen)' = S /\ Wants(chosen)' = r
      BY <3>7, <3>9 DEF Named, Wants, Requires, Copies, Runtime
    <3>12. (todo # <<>> /\ Target \in forest.pkgs /\ chosen \subseteq forest.pkgs /\ OneEach(chosen))'
      BY <1>2, <3>6, <3>9 DEF Resolve, OneEach, Target
    <3>13. NameOf(Target)' \notin S
      BY <3>6, <3>7, <3>9 DEF Target
    <3>14. SortOfChosen'
      BY <3>10, <3>11, <3>12, <3>13, ChosenSorts
    <3>15. ASSUME NEW k \in DOMAIN solutions PROVE Good(solutions[k])'
      <4>1. Good(solutions[k])
        BY DEF BuildInv
      <4> QED BY <3>9, <4>1, GoodStays
    <3> QED BY <3>9, <3>10, <3>14, <3>15 DEF BuildInv, Sorting
  <2> QED BY <2>1, <2>2
<1>3. \/ End("error") \/ End("panic")
      \/ Target \in forest.pkgs /\ ToSort(Target, Prepare(Target, Available(Target)))
  BY Zenon DEF Resolve
<1> QED BY <1>1, <1>2, <1>3

LEMMA CandidatesKeep ==
  ASSUME BuildInv, SortCandidates
  PROVE  BuildInv'
<1>1. SortStep /\ UNCHANGED <<forest, mode, todo, chosen, solutions, status>>
  BY DEF SortCandidates
<1>2. pc \in Sorting /\ SortOfChosen
  BY <1>1, SortWorks DEF BuildInv
<1>3. pc' \in Sorting \cup {"error"}
  BY <1>1, <1>2, SortSteps
<1>4. PICK S, r : S = Named(chosen) /\ r = Wants(chosen)
  OBVIOUS
<1>5. S \in SUBSET Names /\ r \in [Names -> Seq(Names)]
  BY <1>2, <1>4, WantsRequires DEF SortOfChosen, BuildInv
<1>6. /\ SortInv(S) /\ CutInv(S, r) /\ Sound(S, r)
      /\ Acyclical(S, r) => StallInv /\ InOrder(ans, r)
  BY <1>2, <1>4 DEF SortOfChosen
<1>7. SortInv(S)' /\ CutInv(S, r)' /\ Sound(S, r)'
  BY <1>1, <1>5, <1>6, SortKeeps, CutKeeps, SoundKeeps
<1>8. Acyclical(S, r) => StallInv' /\ InOrder(ans, r)'
  BY <1>1, <1>5, <1>6, StallKeeps
<1>9. Named(chosen)' = S /\ Wants(chosen)' = r
  BY <1>1, <1>4 DEF Named, Wants, Requires, Copies, Runtime
<1>10. (todo # <<>> /\ Target \in forest.pkgs /\ chosen \subseteq forest.pkgs /\ OneEach(chosen))'
  BY <1>1, <1>2 DEF SortOfChosen, OneEach, Target
<1>11. NameOf(Target)' \notin S
  BY <1>1, <1>2, <1>4 DEF SortOfChosen, Target
<1>12. SortOfChosen'
  BY <1>7, <1>8, <1>9, <1>10, <1>11, ChosenSorts
<1>13. ASSUME NEW k \in DOMAIN solutions PROVE Good(solutions[k])'
  <2>1. Good(solutions[k])
    BY DEF BuildInv
  <2>2. UNCHANGED solutions
    BY <1>1
  <2> QED BY <1>1, <2>1, <2>2, GoodStays
<1> QED BY <1>1, <1>3, <1>12, <1>13 DEF BuildInv

LEMMA SolvedKeeps ==
  ASSUME BuildInv, Solved
  PROVE  BuildInv'
<1> DEFINE s == Append([i \in DOMAIN ans |-> Candidate(ans[i])], Target)
<1>1. /\ pc = "sorted" /\ pc' = "idle" /\ UNCHANGED <<forest, mode>>
      /\ solutions' = Append(solutions, s) /\ todo' = Tail(todo)
  BY DEF Solved
<1>2. Good(s)
  BY <1>1, SolvedIsGood
<1> HIDE DEF s
<1>3. todo' \in Seq(Names \X Nat)
  <2>1. todo \in Seq(Names \X Nat) /\ todo # <<>>
    BY <1>1 DEF BuildInv, Sorting, SortOfChosen
  <2> QED BY <1>1, <2>1
<1>4. PICK t : t = s
  OBVIOUS
<1>5. Good(t)'
  BY <1>1, <1>2, <1>4, GoodStays
<1>6. DOMAIN solutions = 1 .. Len(solutions) /\ \A k \in DOMAIN solutions : Good(solutions[k])
  BY DEF BuildInv
<1>7. /\ DOMAIN solutions' = 1 .. Len(solutions')
      /\ \A k \in DOMAIN solutions' : solutions'[k] = t \/ \E i \in DOMAIN solutions : solutions'[k] = solutions[i]
  BY <1>1, <1>4, <1>6
<1>8. ASSUME NEW k \in DOMAIN solutions' PROVE Good(solutions[k])'
  <2>1. PICK u : u = solutions'[k] /\ (u = t \/ \E i \in DOMAIN solutions : u = solutions[i])
    BY <1>7
  <2>2. Good(u)'
    BY <1>1, <1>5, <1>6, <2>1, GoodStays
  <2> QED BY <2>1, <2>2 DEF Good
<1>9. solutions' \in Seq(Seq(forest'.pkgs))
  <2>1. solutions \in Seq(Seq(forest.pkgs)) /\ s \in Seq(forest.pkgs)
    BY <1>2 DEF BuildInv, Good
  <2> QED BY <1>1, <2>1
<1> QED BY <1>1, <1>3, <1>8, <1>9 DEF BuildInv, Sorting

LEMMA NextBuildKeeps == BuildInv /\ [ManagerNext]_managerVars => BuildInv'
<1> SUFFICES ASSUME BuildInv, [ManagerNext]_managerVars PROVE BuildInv'
  OBVIOUS
<1>1. CASE Resolve
  BY <1>1, ResolveKeeps
<1>2. CASE SortCandidates
  BY <1>2, CandidatesKeep
<1>3. CASE SortFails
  <2>1. /\ pc = "error" /\ UNCHANGED <<pc, forest, mode, solutions>>
        /\ todo' = <<>> /\ todo' \in Seq(Names \X Nat)
    BY <1>3 DEF SortFails, End, sortVars
  <2> QED BY <2>1, UnsolvedKeeps
<1>4. CASE Solved
  BY <1>4, SolvedKeeps
<1>5. CASE Answer
  BY <1>5, StillKeeps DEF Answer, sortVars
<1>6. CASE StartBuild
  BY <1>6, StillKeeps DEF StartBuild, sortVars
<1>7. CASE Skip \/ CreateBuildImage \/ CreateFinalImage \/ GeneratePackage
  <2>1. UNCHANGED fixed
    BY <1>7, Zenon DEF Skip, CreateBuildImage, CreateFinalImage, GeneratePackage, fixed
  <2> QED BY <2>1, StillKeeps DEF fixed, sortVars
<1>8. CASE NewBuild
  <2>1. forest \in Forests /\ forest' = forest
    BY <1>8 DEF NewBuild, BuildInv
  <2>2. todo' \in Seq(Names \X Nat) /\ solutions' = <<>> /\ pc' = "idle"
    BY <1>8, BuildSolverAssumption DEF NewBuild
  <2> QED BY <2>1, <2>2 DEF BuildInv, Sorting
<1>9. CASE UNCHANGED managerVars
  BY <1>9, StillKeeps DEF managerVars, solverVars, sortVars
<1> QED BY <1>1, <1>2, <1>3, <1>4, <1>5, <1>6, <1>7, <1>8, <1>9
        DEF ManagerNext, Solve, SolverNext, Build, Finished

LEMMA DoneBuild == BuildInv => SolutionsClosed
<1> SUFFICES ASSUME BuildInv, NEW k \in DOMAIN solutions
             PROVE  LET s == solutions[k]
                        names == [i \in DOMAIN s |-> NameOf(s[i])]
                    IN /\ IsInjective(names)
                       /\ \A i \in 1 .. Len(s) - 1 :
                            Range(Requires(s[i])) \subseteq Range(names) \/ Paired(s, i)
                       /\ Acyclic(s) =>
                            \A i \in DOMAIN s : \A n \in Range(Requires(s[i])) \cap Range(names) :
                              Position(s, n) < i
  BY Zenon DEF SolutionsClosed
<1>1. Good(solutions[k]) /\ forest \in Forests
  BY DEF BuildInv
<1> QED BY <1>1, GoodIsClosed, Zenon

\* SolutionsClosed, what a build relies on: the solver of anise-build answers one
\* version of each name, with all that each of its dependencies requires or in a
\* cycle of two, and what is required first, whatever versions the tree holds.
THEOREM SolutionsClosedCorrect == ManagerSpec => []SolutionsClosed
<1>1. ManagerInit => BuildInv
  BY InitBuild
<1>2. BuildInv /\ [ManagerNext]_managerVars => BuildInv'
  BY NextBuildKeeps
<1>3. BuildInv => SolutionsClosed
  BY DoneBuild
<1> QED BY <1>1, <1>2, <1>3, PTL DEF ManagerSpec

-----------------------------------------------------------------------------
(* What a package is built from.                                           *)

Everything == {q \in forest.pkgs : Resolved(q)}

Holding(S, p) == p \in S /\ \A d \in S : Needs(d) \subseteq S

\* The solutions hold packages of the tree.
InTree == \A k \in DOMAIN solutions : solutions[k] \in Seq(forest.pkgs)

LEMMA BuiltForFirst ==
  ASSUME DOMAIN solutions = 1 .. Len(solutions), Len(solutions) \in Nat, NEW p, Resolved(p)
  PROVE  /\ BuiltFor(p) \in DOMAIN solutions /\ p \in Range(solutions[BuiltFor(p)])
         /\ \A j \in 1 .. BuiltFor(p) - 1 : p \notin Range(solutions[j])
<1> DEFINE T == {k \in DOMAIN solutions : p \in Range(solutions[k])}
<1>1. T \subseteq Nat /\ T # {}
  BY DEF Resolved
<1>2. PICK k \in T : \A j \in T : k <= j
  <2> HIDE DEF T
  <2> QED BY <1>1, LeastNumber
<1>3. k \in DOMAIN solutions /\ p \in Range(solutions[k])
  OBVIOUS
<1>4. ASSUME NEW j \in 1 .. k - 1 PROVE p \notin Range(solutions[j])
  <2>1. j \in DOMAIN solutions /\ ~(k <= j)
    BY <1>3
  <2> QED BY <1>2, <2>1
<1> HIDE DEF T
<1> QED BY <1>3, <1>4 DEF BuiltFor

LEMMA BuiltForIs ==
  ASSUME DOMAIN solutions = 1 .. Len(solutions), Len(solutions) \in Nat,
         NEW k \in DOMAIN solutions, NEW p \in Range(solutions[k]),
         \A j \in 1 .. k - 1 : p \notin Range(solutions[j])
  PROVE  Resolved(p) /\ BuiltFor(p) = k
<1>1. Resolved(p)
  BY DEF Resolved
<1>2. /\ BuiltFor(p) \in DOMAIN solutions /\ p \in Range(solutions[BuiltFor(p)])
      /\ \A j \in 1 .. BuiltFor(p) - 1 : p \notin Range(solutions[j])
  BY <1>1, BuiltForFirst
<1>3. ~(BuiltFor(p) < k)
  <2>1. BuiltFor(p) < k => BuiltFor(p) \in 1 .. k - 1
    BY <1>2
  <2> QED BY <1>2, <2>1
<1>4. ~(k < BuiltFor(p))
  <2>1. k < BuiltFor(p) => k \in 1 .. BuiltFor(p) - 1
    BY <1>2
  <2> QED BY <1>2, <2>1
<1> QED BY <1>1, <1>2, <1>3, <1>4

LEMMA NeedsResolved ==
  ASSUME DOMAIN solutions = 1 .. Len(solutions), Len(solutions) \in Nat, InTree,
         NEW p \in Everything
  PROVE  Needs(p) \subseteq Everything
<1>1. BuiltFor(p) \in DOMAIN solutions
  BY BuiltForFirst DEF Everything
<1>2. \A q \in Range(solutions[BuiltFor(p)]) : q \in forest.pkgs /\ Resolved(q)
  BY <1>1 DEF InTree, Range, Resolved
<1> QED BY <1>2 DEF Needs, Everything

LEMMA BuiltFromLeast ==
  ASSUME NEW p \in Everything
  PROVE  /\ BuiltFrom(p) \subseteq Everything /\ p \in BuiltFrom(p)
         /\ \A q \in Everything :
              q \in BuiltFrom(p) <=> \A S \in SUBSET Everything : Holding(S, p) => q \in S
<1>1. BuiltFrom(p) = {q \in Everything : \A S \in SUBSET Everything : Holding(S, p) => q \in S}
  BY Zenon DEF BuiltFrom, Everything, Holding
<1>2. \A S : Holding(S, p) => p \in S
  BY DEF Holding
<1> QED BY <1>1, <1>2

LEMMA BuiltFromNeeds ==
  ASSUME DOMAIN solutions = 1 .. Len(solutions), Len(solutions) \in Nat, InTree,
         NEW p \in Everything, NEW x
  PROVE  /\ Needs(p) \subseteq Everything
         /\ x \in BuiltFrom(p) <=> x = p \/ \E d \in Needs(p) : x \in BuiltFrom(d)
<1>1. Needs(p) \subseteq Everything
  BY NeedsResolved
<1>2. ASSUME NEW d \in Needs(p), x \in BuiltFrom(d) PROVE x \in BuiltFrom(p)
  <2>1. d \in Everything /\ x \in Everything
    BY <1>1, <1>2, BuiltFromLeast
  <2>2. ASSUME NEW S \in SUBSET Everything, Holding(S, p) PROVE x \in S
    <3>1. Holding(S, d)
      BY <2>2 DEF Holding
    <3> QED BY <1>2, <2>1, <3>1, BuiltFromLeast
  <2> QED BY <2>1, <2>2, BuiltFromLeast
<1>3. ASSUME x \in BuiltFrom(p), x # p PROVE \E d \in Needs(p) : x \in BuiltFrom(d)
  <2> DEFINE S == {q \in Everything : q = p \/ \E d \in Needs(p) : q \in BuiltFrom(d)}
  <2>1. S \in SUBSET Everything
    OBVIOUS
  <2>2. ASSUME NEW e \in S PROVE Needs(e) \subseteq S
    <3>1. CASE e = p
      <4>1. \A d \in Needs(p) : d \in BuiltFrom(d)
        BY <1>1, BuiltFromLeast
      <4> QED BY <1>1, <3>1, <4>1
    <3>2. ASSUME NEW d \in Needs(p), e \in BuiltFrom(d) PROVE Needs(e) \subseteq S
      <4>1. d \in Everything /\ e \in Everything
        BY <1>1
      <4>2. Needs(e) \subseteq Everything
        BY <4>1, NeedsResolved
      <4>3. ASSUME NEW q \in Needs(e) PROVE q \in BuiltFrom(d)
        <5>1. ASSUME NEW R \in SUBSET Everything, Holding(R, d) PROVE q \in R
          <6>1. e \in R
            BY <3>2, <4>1, <5>1, BuiltFromLeast
          <6> QED BY <5>1, <6>1 DEF Holding
        <5> QED BY <4>1, <4>2, <5>1, BuiltFromLeast
      <4> QED BY <4>2, <4>3
    <3> QED BY <3>1, <3>2
  <2>3. Holding(S, p)
    BY <2>2 DEF Holding
  <2> HIDE DEF S
  <2>4. x \in Everything
    BY <1>3, BuiltFromLeast
  <2>5. x \in S
    BY <1>3, <2>1, <2>3, <2>4, BuiltFromLeast
  <2> QED BY <1>3, <2>5 DEF S
<1>4. p \in BuiltFrom(p)
  BY BuiltFromLeast
<1> QED BY <1>1, <1>2, <1>3, <1>4

-----------------------------------------------------------------------------
(* What the images hold.                                                   *)

\* The content c is the one that the hash h stands for, when M gives the
\* contents of the hashes in it.
Fits(M, h, c) ==
  \/ \E p, r, ds :
       /\ h = <<"builder", p, r, ds>> /\ Range(ds) \subseteq DOMAIN M
       /\ \A x : x \in c <=> x = <<p, "prelude", r>> \/ \E d \in Range(ds) : x \in M[d]
  \/ \E p, r, s, ds :
       /\ h = <<"final", p, r, s, ds>> /\ <<"builder", p, r, ds>> \in DOMAIN M
       /\ \A x : x \in c <=> x = <<p, "steps", s>> \/ x \in M[<<"builder", p, r, ds>>]

Content(M) == \A h \in DOMAIN M : Fits(M, h, M[h])

Extends(M2, M) == DOMAIN M \subseteq DOMAIN M2 /\ \A h \in DOMAIN M : M2[h] = M[h]

Edited == edits \in Seq(forest.pkgs \X Parts)

\* Files are of a package that is in the content and no newer than the ones of
\* now, and a package that is in the content has files in it.
FilesFit(c) ==
  /\ \A x \in c : x[2] = "files" =>
       /\ x[3] \in 0 .. Rev(x[1], "files")
       /\ \E y \in Specified(c) : y[1] = x[1]
  /\ \A y \in Specified(c) : \E x \in c : x[1] = y[1] /\ x[2] = "files"

\* An image holds what its hash stands for; one that is not whole holds a part
\* of a package whose flatten was interrupted.
Holds(M, i) ==
  /\ i.tag \in DOMAIN M /\ Specified(i.made) = M[i.tag] /\ FilesFit(i.made)
  /\ ~i.whole => \E x \in Specified(i.made) : x[1] \in cut

Images(M) == Content(M) /\ Edited /\ \A i \in local \cup remote : Holds(M, i)

\* A revision is a natural number, and an edit does not lower it.
LEMMA RevNat ==
  ASSUME Edited, NEW p, NEW part
  PROVE  /\ Rev(p, part) \in Nat
         /\ IsFiniteSet({i \in DOMAIN edits : edits[i] = <<p, part>>})
<1>1. DOMAIN edits = 1 .. Len(edits) /\ Len(edits) \in Nat
  BY DEF Edited
<1>2. IsFiniteSet(1 .. Len(edits))
  BY <1>1, FS_Interval
<1>3. IsFiniteSet({i \in DOMAIN edits : edits[i] = <<p, part>>})
  BY <1>1, <1>2, FS_Subset
<1> QED BY <1>3, FS_CardinalityType DEF Rev

Grown == edits' = edits \/ \E e \in forest.pkgs \X Parts : edits' = Append(edits, e)

LEMMA RevGrows ==
  ASSUME Edited, Grown, UNCHANGED forest, NEW p, NEW part
  PROVE  Edited' /\ 0 .. Rev(p, part) \subseteq 0 .. Rev(p, part)'
<1> DEFINE old == {i \in DOMAIN edits : edits[i] = <<p, part>>}
           new == {i \in DOMAIN edits' : edits'[i] = <<p, part>>}
<1>1. Edited'
  BY DEF Edited, Grown
<1>2. DOMAIN edits \subseteq DOMAIN edits' /\ \A i \in DOMAIN edits : edits'[i] = edits[i]
  <2>1. CASE edits' = edits
    BY <2>1
  <2>2. ASSUME NEW e \in forest.pkgs \X Parts, edits' = Append(edits, e)
        PROVE  DOMAIN edits \subseteq DOMAIN edits' /\ \A i \in DOMAIN edits : edits'[i] = edits[i]
    BY <2>2 DEF Edited
  <2> QED BY <2>1, <2>2 DEF Grown
<1>3. old \subseteq new
  BY <1>2
<1>4. IsFiniteSet(old) /\ Cardinality(old) \in Nat /\ Rev(p, part) = Cardinality(old)
  BY RevNat DEF Rev
<1>5. IsFiniteSet(new) /\ Cardinality(new) \in Nat /\ Rev(p, part)' = Cardinality(new)
  <2>1. DOMAIN edits' = 1 .. Len(edits') /\ Len(edits') \in Nat
    BY <1>1 DEF Edited
  <2>2. IsFiniteSet(1 .. Len(edits'))
    BY <2>1, FS_Interval
  <2>3. IsFiniteSet(new)
    BY <2>1, <2>2, FS_Subset
  <2> QED BY <2>3, FS_CardinalityType DEF Rev
<1> HIDE DEF old, new
<1>6. Cardinality(old) <= Cardinality(new)
  BY <1>3, <1>5, FS_Subset
<1> QED BY <1>1, <1>4, <1>5, <1>6

LEMMA FilesFitStays ==
  ASSUME Edited, Grown, UNCHANGED forest, NEW c, FilesFit(c)
  PROVE  FilesFit(c)'
<1>1. \A x : 0 .. Rev(x[1], "files") \subseteq 0 .. Rev(x[1], "files")'
  BY RevGrows
<1>2. \A x \in c : x[2] = "files" => x[3] \in 0 .. Rev(x[1], "files")'
  BY <1>1 DEF FilesFit
<1> QED BY <1>2 DEF FilesFit, Specified

LEMMA FitsBuilder ==
  ASSUME NEW M, NEW p, NEW r, NEW ds, NEW c
  PROVE  Fits(M, <<"builder", p, r, ds>>, c) <=>
           /\ Range(ds) \subseteq DOMAIN M
           /\ \A x : x \in c <=> x = <<p, "prelude", r>> \/ \E d \in Range(ds) : x \in M[d]
  BY DEF Fits

LEMMA FitsFinal ==
  ASSUME NEW M, NEW p, NEW r, NEW s, NEW ds, NEW c
  PROVE  Fits(M, <<"final", p, r, s, ds>>, c) <=>
           /\ <<"builder", p, r, ds>> \in DOMAIN M
           /\ \A x : x \in c <=> x = <<p, "steps", s>> \/ x \in M[<<"builder", p, r, ds>>]
  BY DEF Fits

LEMMA FitsOne ==
  ASSUME NEW M, NEW h, NEW c, NEW d, Fits(M, h, c), Fits(M, h, d)
  PROVE  c = d
<1>1. ASSUME NEW p, NEW r, NEW ds, h = <<"builder", p, r, ds>> PROVE c = d
  <2>1. Fits(M, <<"builder", p, r, ds>>, c) /\ Fits(M, <<"builder", p, r, ds>>, d)
    BY <1>1
  <2>2. /\ \A x : x \in c <=> x = <<p, "prelude", r>> \/ \E e \in Range(ds) : x \in M[e]
        /\ \A x : x \in d <=> x = <<p, "prelude", r>> \/ \E e \in Range(ds) : x \in M[e]
    BY <2>1, FitsBuilder
  <2>3. \A x : x \in c <=> x \in d
    BY <2>2
  <2> QED BY <2>3
<1>2. ASSUME NEW p, NEW r, NEW s, NEW ds, h = <<"final", p, r, s, ds>> PROVE c = d
  <2>1. \A x : x \in c <=> x \in d
    BY <1>2, FitsFinal
  <2> QED BY <2>1
<1> QED BY <1>1, <1>2 DEF Fits

LEMMA FitsMore ==
  ASSUME NEW M, NEW M2, Extends(M2, M), NEW h, NEW c, Fits(M, h, c)
  PROVE  Fits(M2, h, c)
<1>1. ASSUME NEW p, NEW r, NEW ds, h = <<"builder", p, r, ds>> PROVE Fits(M2, h, c)
  <2>1. Fits(M, <<"builder", p, r, ds>>, c)
    BY <1>1
  <2>2. /\ Range(ds) \subseteq DOMAIN M
        /\ \A x : x \in c <=> x = <<p, "prelude", r>> \/ \E d \in Range(ds) : x \in M[d]
    BY <2>1, FitsBuilder
  <2>3. Range(ds) \subseteq DOMAIN M2 /\ \A d \in Range(ds) : M2[d] = M[d]
    BY <2>2 DEF Extends
  <2>4. \A x : x \in c <=> x = <<p, "prelude", r>> \/ \E d \in Range(ds) : x \in M2[d]
    BY <2>2, <2>3
  <2>5. Fits(M2, <<"builder", p, r, ds>>, c)
    BY <2>3, <2>4, FitsBuilder
  <2> QED BY <1>1, <2>5
<1>2. ASSUME NEW p, NEW r, NEW s, NEW ds, h = <<"final", p, r, s, ds>> PROVE Fits(M2, h, c)
  <2>1. Fits(M, <<"final", p, r, s, ds>>, c)
    BY <1>2
  <2>2. /\ <<"builder", p, r, ds>> \in DOMAIN M
        /\ \A x : x \in c <=> x = <<p, "steps", s>> \/ x \in M[<<"builder", p, r, ds>>]
    BY <2>1, FitsFinal
  <2>3. <<"builder", p, r, ds>> \in DOMAIN M2 /\ M2[<<"builder", p, r, ds>>] = M[<<"builder", p, r, ds>>]
    BY <2>2 DEF Extends
  <2>4. \A x : x \in c <=> x = <<p, "steps", s>> \/ x \in M2[<<"builder", p, r, ds>>]
    BY <2>2, <2>3
  <2>5. Fits(M2, <<"final", p, r, s, ds>>, c)
    BY <2>3, <2>4, FitsFinal
  <2> QED BY <1>2, <2>5
<1> QED BY <1>1, <1>2 DEF Fits

\* The contents known grow with a hash that is new.
LEMMA Fitted ==
  ASSUME NEW M, NEW h, NEW c, Content(M), Fits(M, h, c)
  PROVE  \E M2 : Content(M2) /\ Extends(M2, M) /\ h \in DOMAIN M2 /\ M2[h] = c
<1>1. CASE h \in DOMAIN M
  <2>1. M[h] = c
    BY <1>1, FitsOne DEF Content
  <2>2. Extends(M, M)
    BY DEF Extends
  <2> QED BY <1>1, <2>1, <2>2
<1>2. CASE h \notin DOMAIN M
  <2> DEFINE M2 == [k \in DOMAIN M \cup {h} |-> IF k = h THEN c ELSE M[k]]
  <2>1. Extends(M2, M) /\ h \in DOMAIN M2 /\ M2[h] = c /\ DOMAIN M2 = DOMAIN M \cup {h}
    BY <1>2 DEF Extends
  <2> HIDE DEF M2
  <2>2. ASSUME NEW k \in DOMAIN M2 PROVE Fits(M2, k, M2[k])
    <3>1. CASE k = h
      BY <2>1, <3>1, FitsMore
    <3>2. CASE k \in DOMAIN M
      <4>1. Fits(M, k, M[k]) /\ M2[k] = M[k]
        BY <2>1, <3>2 DEF Content, Extends
      <4> QED BY <2>1, <4>1, FitsMore
    <3> QED BY <2>1, <3>1, <3>2
  <2> QED BY <2>1, <2>2 DEF Content
<1> QED BY <1>1, <1>2

LEMMA HoldsMore ==
  ASSUME NEW M, NEW M2, Extends(M2, M), NEW i, Holds(M, i), cut \subseteq cut',
         Edited, Grown, UNCHANGED forest
  PROVE  Holds(M2, i)'
<1>1. FilesFit(i.made)'
  BY FilesFitStays DEF Holds
<1> QED BY <1>1 DEF Holds, Extends, Specified

LEMMA StoredImage ==
  ASSUME NEW t, Stored(t) # {}
  PROVE  /\ Image(t) \in local \cup remote /\ Image(t).tag = t
         /\ In(local, t) => Image(t) \in local
<1>1. \E i \in Stored(t) : In(local, t) => i \in local
  <2>1. CASE In(local, t)
    BY <2>1 DEF In, Stored
  <2>2. CASE ~In(local, t)
    BY <2>2
  <2> QED BY <2>1, <2>2
<1>2. Image(t) \in Stored(t) /\ (In(local, t) => Image(t) \in local)
  <2>1. Image(t) = CHOOSE i \in Stored(t) : In(local, t) => i \in local
    BY DEF Image
  <2> HIDE DEF Stored
  <2> QED BY <1>1, <2>1
<1> QED BY <1>2 DEF Stored

LEMMA PutKeeps ==
  ASSUME NEW store, NEW i
  PROVE  /\ \A h : In(store, h) => In(Put(store, i), h)
         /\ In(Put(store, i), i.tag)
         /\ \A j \in Put(store, i) : j = i \/ j \in store
<1>1. i \in Put(store, i) /\ \A j \in store : j.tag # i.tag => j \in Put(store, i)
  BY DEF Put
<1>2. \A j \in Put(store, i) : j = i \/ j \in store
  BY DEF Put
<1>3. ASSUME NEW h, In(store, h) PROVE In(Put(store, i), h)
  <2>1. PICK j \in store : j.tag = h
    BY <1>3 DEF In
  <2>2. CASE h = i.tag
    BY <1>1, <2>2 DEF In
  <2>3. CASE h # i.tag
    BY <1>1, <2>1, <2>3 DEF In
  <2> QED BY <2>2, <2>3
<1> QED BY <1>1, <1>2, <1>3 DEF In

\* The files of the package come with the parts, or a base has them.
FilesCome(M, bases, parts) ==
  "files" \in parts \/ \E t \in bases : \E r : <<P, "prelude", r>> \in M[t]

\* The image made of others: its hashed parts, and the files of its package.
LEMMA MakeMade ==
  ASSUME NEW tag, NEW bases, NEW parts, NEW M, Images(M), \A t \in bases : Stored(t) # {},
         NEW own \in parts \cap Hashed, FilesCome(M, bases, parts)
  PROVE  LET img == Make(tag, bases, parts)
         IN /\ img.tag = tag /\ bases \subseteq DOMAIN M
            /\ \A x : x \in Specified(img.made) <=>
                     \/ \E t \in bases : x \in M[t]
                     \/ \E part \in parts \cap Hashed : x = <<P, part, Rev(P, part)>>
            /\ ~img.whole => \E x \in Specified(img.made) : x[1] \in cut
            /\ FilesFit(img.made)
<1> DEFINE img == Make(tag, bases, parts)
           from == {Image(t) : t \in bases}
           added == {<<P, part, Rev(P, part)>> : part \in parts}
           gathered == UNION {i.made : i \in from}
<1>1. /\ img.tag = tag /\ img.made = gathered \cup added
      /\ img.whole = \A i \in from : i.whole
  BY Zenon DEF Make
<1>2. \A t \in bases : /\ Image(t) \in local \cup remote /\ Image(t).tag = t
                       /\ t \in DOMAIN M /\ Specified(Image(t).made) = M[t]
                       /\ FilesFit(Image(t).made)
                       /\ ~Image(t).whole => \E x \in M[t] : x[1] \in cut
  BY StoredImage DEF Images, Holds
<1>3. \A x : x \in gathered <=> \E i \in from : x \in i.made
  OBVIOUS
<1>4. \A x : x \in added <=> \E part \in parts : x = <<P, part, Rev(P, part)>>
  OBVIOUS
<1>5. \A i : i \in from <=> \E t \in bases : i = Image(t)
  OBVIOUS
<1> HIDE DEF from, added, gathered, img
<1>6. \A x : x \in gathered <=> \E t \in bases : x \in Image(t).made
  BY <1>3, <1>5
<1>7. \A x : x \in img.made <=> \/ \E t \in bases : x \in Image(t).made
                                \/ \E part \in parts : x = <<P, part, Rev(P, part)>>
  BY <1>1, <1>4, <1>6
<1>8. ASSUME NEW x
      PROVE  x \in Specified(img.made) <=>
               \/ \E t \in bases : x \in M[t]
               \/ \E part \in parts \cap Hashed : x = <<P, part, Rev(P, part)>>
  <2>1. \A t \in bases : x \in M[t] <=> x \in Image(t).made /\ x[2] \in Hashed
    BY <1>2 DEF Specified
  <2>2. x \in Specified(img.made) <=> x \in img.made /\ x[2] \in Hashed
    BY DEF Specified
  <2>3. \A part : x = <<P, part, Rev(P, part)>> => x[2] = part
    OBVIOUS
  <2> QED BY <1>7, <2>1, <2>2, <2>3
<1>9. ASSUME ~img.whole PROVE \E x \in Specified(img.made) : x[1] \in cut
  <2>1. PICK t \in bases : ~Image(t).whole
    BY <1>1, <1>5, <1>9
  <2>2. PICK x \in M[t] : x[1] \in cut
    BY <1>2, <2>1
  <2> QED BY <1>8, <2>2
<1>10. \E y \in Specified(img.made) : y[1] = P
  <2>1. <<P, own, Rev(P, own)>> \in Specified(img.made)
    BY <1>8
  <2> QED BY <2>1
<1>11. ASSUME NEW x \in img.made, x[2] = "files"
       PROVE  /\ x[3] \in 0 .. Rev(x[1], "files")
              /\ \E y \in Specified(img.made) : y[1] = x[1]
  <2>1. ASSUME NEW t \in bases, x \in Image(t).made
        PROVE  /\ x[3] \in 0 .. Rev(x[1], "files")
               /\ \E y \in Specified(img.made) : y[1] = x[1]
    <3>1. x[3] \in 0 .. Rev(x[1], "files") /\ \E y \in M[t] : y[1] = x[1]
      BY <1>2, <1>11, <2>1 DEF FilesFit
    <3> QED BY <1>8, <3>1
  <2>2. ASSUME NEW part \in parts, x = <<P, part, Rev(P, part)>>
        PROVE  /\ x[3] \in 0 .. Rev(x[1], "files")
               /\ \E y \in Specified(img.made) : y[1] = x[1]
    <3>1. part = "files" /\ x[1] = P /\ x[3] = Rev(P, "files")
      BY <1>11, <2>2
    <3>2. Rev(P, "files") \in Nat
      BY RevNat DEF Images
    <3> QED BY <1>10, <3>1, <3>2
  <2> QED BY <1>7, <2>1, <2>2
<1>12. ASSUME NEW y \in Specified(img.made)
       PROVE  \E x \in img.made : x[1] = y[1] /\ x[2] = "files"
  <2>1. ASSUME NEW t \in bases, NEW z \in M[t]
        PROVE  \E x \in img.made : x[1] = z[1] /\ x[2] = "files"
    <3>1. \E x \in Image(t).made : x[1] = z[1] /\ x[2] = "files"
      BY <1>2, <2>1 DEF FilesFit
    <3> QED BY <1>7, <3>1
  <2>2. \E x \in img.made : x[1] = P /\ x[2] = "files"
    <3>1. CASE "files" \in parts
      <4>1. <<P, "files", Rev(P, "files")>> \in img.made
        BY <1>7, <3>1
      <4> QED BY <4>1
    <3>2. ASSUME NEW t \in bases, NEW r, <<P, "prelude", r>> \in M[t]
          PROVE  \E x \in img.made : x[1] = P /\ x[2] = "files"
      <4>1. PICK z \in M[t] : z = <<P, "prelude", r>> /\ z[1] = P
        BY <3>2
      <4> QED BY <2>1, <4>1
    <3> QED BY <3>1, <3>2 DEF FilesCome
  <2>3. CASE \E t \in bases : y \in M[t]
    BY <2>1, <2>3
  <2>4. ASSUME NEW part, y = <<P, part, Rev(P, part)>> PROVE y[1] = P
    BY <2>4
  <2> QED BY <1>8, <2>2, <2>3, <2>4
<1>13. FilesFit(img.made)
  BY <1>11, <1>12 DEF FilesFit
<1> QED BY <1>1, <1>2, <1>8, <1>9, <1>13 DEF img

\* An image is one that is stored, or one just made of images that are.
Made(img, tag, bases, parts) ==
  \/ img \in local \cup remote
  \/ /\ \A t \in bases : Stored(t) # {}
     /\ img.tag = tag /\ img.made = Make(tag, bases, parts).made
     /\ ~img.whole => ~Make(tag, bases, parts).whole \/ P \in cut'

\* What a search for an image may do to the stores.
Gets(tag, bases, parts) ==
  /\ cut \subseteq cut'
  /\ local' = local \/ \E img : Made(img, tag, bases, parts) /\ local' = Put(local, img)
  /\ remote' = remote \/ \E img : Made(img, tag, bases, parts) /\ remote' = Put(remote, img)

LEMMA GetsKeeps ==
  ASSUME NEW M, NEW tag, NEW bases, NEW parts, NEW part \in parts \cap Hashed, Images(M),
         (\A t \in bases : Stored(t) # {}) =>
           /\ Fits(M, tag, Specified(Make(tag, bases, parts).made))
           /\ FilesCome(M, bases, parts),
         Gets(tag, bases, parts), UNCHANGED <<forest, edits>>
  PROVE  /\ \E M2 : Extends(M2, M) /\ Images(M2)'
         /\ \A h : In(local, h) => In(local', h)
<1> DEFINE ready == \A t \in bases : Stored(t) # {}
           made == Specified(Make(tag, bases, parts).made)
<1>1. \E M2 : /\ Content(M2) /\ Extends(M2, M)
              /\ ready => tag \in DOMAIN M2 /\ M2[tag] = made
  <2>1. CASE ready
    <3>1. Fits(M, tag, made) /\ Content(M)
      BY <2>1 DEF Images
    <3> HIDE DEF made, ready
    <3> QED BY <3>1, Fitted
  <2>2. CASE ~ready
    <3>1. Content(M) /\ Extends(M, M)
      BY DEF Images, Extends
    <3> HIDE DEF ready
    <3> QED BY <2>2, <3>1
  <2> QED BY <2>1, <2>2
<1>2. PICK M2 : /\ Content(M2) /\ Extends(M2, M)
                /\ ready => tag \in DOMAIN M2 /\ M2[tag] = made
  BY <1>1
<1>3. cut \subseteq cut' /\ Edited /\ Edited' /\ Grown
  BY DEF Gets, Images, Edited, Grown
<1>4. ASSUME NEW i, i \in local \cup remote PROVE Holds(M2, i)'
  <2>1. Holds(M, i)
    BY <1>4 DEF Images
  <2> QED BY <1>2, <1>3, <2>1, HoldsMore
<1>5. ASSUME NEW i, Made(i, tag, bases, parts) PROVE Holds(M2, i)'
  <2>1. CASE i \in local \cup remote
    BY <1>4, <2>1
  <2>2. CASE i \notin local \cup remote
    <3>1. /\ ready /\ i.tag = tag /\ i.made = Make(tag, bases, parts).made
          /\ ~i.whole => ~Make(tag, bases, parts).whole \/ P \in cut'
      BY <1>5, <2>2 DEF Made
    <3>2. /\ \A x : x \in made <=> \/ \E t \in bases : x \in M[t]
                                   \/ \E q \in parts \cap Hashed : x = <<P, q, Rev(P, q)>>
          /\ ~Make(tag, bases, parts).whole => \E x \in made : x[1] \in cut
          /\ FilesFit(i.made) /\ Specified(i.made) = made
      <4>1. (\A t \in bases : Stored(t) # {}) /\ FilesCome(M, bases, parts)
        BY <3>1
      <4>2. PICK img : img = Make(tag, bases, parts)
        OBVIOUS
      <4>3. /\ \A x : x \in Specified(img.made) <=>
                    \/ \E t \in bases : x \in M[t]
                    \/ \E q \in parts \cap Hashed : x = <<P, q, Rev(P, q)>>
            /\ ~img.whole => \E x \in Specified(img.made) : x[1] \in cut
            /\ FilesFit(img.made)
        BY <4>1, <4>2, MakeMade
      <4>4. made = Specified(img.made) /\ i.made = img.made /\ Make(tag, bases, parts).whole = img.whole
        BY <3>1, <4>2
      <4> QED BY <4>3, <4>4
    <3>3. <<P, part, Rev(P, part)>> \in made /\ <<P, part, Rev(P, part)>>[1] = P
      BY <3>2
    <3>4. FilesFit(i.made)'
      BY <1>3, <3>2, FilesFitStays
    <3> HIDE DEF made, ready
    <3>5. ~i.whole => \E x \in made : x[1] \in cut'
      BY <1>3, <3>1, <3>2, <3>3
    <3>6. i.tag \in DOMAIN M2 /\ Specified(i.made) = M2[i.tag]
      BY <1>2, <3>1, <3>2
    <3> QED BY <3>2, <3>4, <3>5, <3>6 DEF Holds, Specified
  <2> QED BY <2>1, <2>2
<1>6. ASSUME NEW i \in local' \cup remote' PROVE Holds(M2, i)'
  <2>1. i \in local \cup remote \/ Made(i, tag, bases, parts)
    BY PutKeeps DEF Gets
  <2> QED BY <1>4, <1>5, <2>1
<1>7. Images(M2)'
  BY <1>2, <1>3, <1>6 DEF Images, Content, Fits
<1>8. \A h : In(local, h) => In(local', h)
  BY PutKeeps DEF Gets
<1> QED BY <1>2, <1>7, <1>8

\* Each of the two searches.
LEMMA BuildImageGets ==
  ASSUME CreateBuildImage, status = "building",
         ~ \E n \in Range(Requires(P)) : \A q \in Range(Solution) : NameOf(q) # n
  PROVE  /\ Gets(BuildHash, Range(DepHashes), {"prelude", "files"})
         /\ \/ status' = "error" /\ UNCHANGED <<at, hashes, elaborated, dest>>
            \/ /\ In(local', BuildHash) /\ at' = [at EXCEPT !.stage = "final"]
               /\ UNCHANGED <<status, hashes, elaborated, dest>>
<1> DEFINE tag == BuildHash
           bases == Range(DepHashes)
           parts == {"prelude", "files"}
           Then == /\ at' = [at EXCEPT !.stage = "final"]
                   /\ UNCHANGED <<status, hashes, elaborated, dest>>
           Failed == status' = "error" /\ UNCHANGED <<at, hashes, elaborated, dest>>
<1>1. GetImage(tag, bases, parts, FALSE,
               /\ at' = [at EXCEPT !.stage = "final"]
               /\ UNCHANGED <<status, hashes, elaborated, dest>>)
  BY Zenon DEF CreateBuildImage
<1>2. PICK seen \in {In(local, tag)} \cup (IF May("list") THEN {FALSE} ELSE {}) :
        \/ seen /\ UNCHANGED <<local, cut>> /\ Push(Image(tag), FALSE, Then)
        \/ /\ ~seen /\ opts.pull /\ In(remote, tag)
           /\ LET img == CHOOSE i \in remote : i.tag = tag
              IN local' = Put(local, img) /\ Push(img, TRUE, Then)
           /\ UNCHANGED cut
        \/ /\ \A t \in bases : Stored(t) # {}
           /\ LET img == Make(tag, bases, parts)
              IN local' = Put(local, img) /\ Push(img, FALSE, Then)
           /\ UNCHANGED cut
        \/ UNCHANGED <<local, remote, cut>> /\ Failed
  BY <1>1, Zenon DEF GetImage, Fail
<1>3. seen => In(local, tag)
  <2>1. seen = In(local, tag) \/ seen = FALSE
    BY <1>2, Zenon
  <2> QED BY <2>1
<1>4. ASSUME NEW img, NEW pulled, Push(img, pulled, Then)
      PROVE  (remote' = remote \/ remote' = Put(remote, img)) /\ (Then \/ Failed)
  BY <1>4, Zenon DEF Push, Fail
<1> DEFINE Stores == Gets(tag, bases, parts)
           Found == In(local', tag)
<1>5. ASSUME NEW t, Stored(t) # {} PROVE Image(t) \in local \cup remote
  BY <1>5, StoredImage
<1>6. ASSUME seen, UNCHANGED <<local, cut>>, Push(Image(tag), FALSE, Then)
      PROVE  Stores /\ Found /\ (Then \/ Failed)
  <2>1. Stored(tag) # {} /\ In(local, tag)
    BY <1>3, <1>6 DEF In, Stored
  <2>2. Made(Image(tag), tag, bases, parts)
    BY <1>5, <2>1 DEF Made
  <2>3. (remote' = remote \/ remote' = Put(remote, Image(tag))) /\ (Then \/ Failed)
    BY <1>4, <1>6
  <2>4. Stores
    BY <1>6, <2>2, <2>3 DEF Gets
  <2>5. Found
    BY <1>6, <2>1
  <2> QED BY <2>3, <2>4, <2>5
<1>7. ASSUME ~seen, opts.pull, In(remote, tag), UNCHANGED cut, NEW img,
             img = CHOOSE i \in remote : i.tag = tag,
             local' = Put(local, img), Push(img, TRUE, Then)
      PROVE  Stores /\ Found /\ (Then \/ Failed)
  <2>1. img \in remote /\ img.tag = tag
    BY <1>7 DEF In
  <2>2. Made(img, tag, bases, parts)
    BY <2>1 DEF Made
  <2>3. (remote' = remote \/ remote' = Put(remote, img)) /\ (Then \/ Failed)
    BY <1>4, <1>7
  <2>4. Found
    BY <1>7, <2>1, PutKeeps
  <2> QED BY <1>7, <2>2, <2>3, <2>4 DEF Gets
<1>8. ASSUME \A t \in bases : Stored(t) # {}, UNCHANGED cut, NEW img,
             img = Make(tag, bases, parts), local' = Put(local, img), Push(img, FALSE, Then)
      PROVE  Stores /\ Found /\ (Then \/ Failed)
  <2>1. img.tag = tag
    BY <1>8 DEF Make
  <2>2. Made(img, tag, bases, parts)
    BY <1>8, <2>1 DEF Made
  <2>3. (remote' = remote \/ remote' = Put(remote, img)) /\ (Then \/ Failed)
    BY <1>4, <1>8
  <2>4. Found
    BY <1>8, <2>1, PutKeeps
  <2> QED BY <1>8, <2>2, <2>3, <2>4 DEF Gets
<1>9. ASSUME UNCHANGED <<local, remote, cut>>, Failed PROVE Stores /\ Failed
  BY <1>9 DEF Gets
<1> HIDE DEF Then, Failed, Stores, Found, tag, bases, parts
<1>10. CASE seen /\ UNCHANGED <<local, cut>> /\ Push(Image(tag), FALSE, Then)
  BY <1>6, <1>10 DEF Then, Failed, Stores, Found, tag, bases, parts
<1>11. CASE /\ ~seen /\ opts.pull /\ In(remote, tag)
            /\ LET img == CHOOSE i \in remote : i.tag = tag
               IN local' = Put(local, img) /\ Push(img, TRUE, Then)
            /\ UNCHANGED cut
  BY <1>7, <1>11 DEF Then, Failed, Stores, Found, tag, bases, parts
<1>12. CASE /\ \A t \in bases : Stored(t) # {}
            /\ LET img == Make(tag, bases, parts)
               IN local' = Put(local, img) /\ Push(img, FALSE, Then)
            /\ UNCHANGED cut
  BY <1>8, <1>12 DEF Then, Failed, Stores, Found, tag, bases, parts
<1>13. CASE UNCHANGED <<local, remote, cut>> /\ Failed
  BY <1>9, <1>13 DEF Then, Failed, Stores, Found, tag, bases, parts
<1> QED BY <1>2, <1>10, <1>11, <1>12, <1>13

LEMMA FinalImageGets ==
  ASSUME CreateFinalImage
  PROVE  /\ Gets(FinalHash, {BuildHash}, {"steps"})
         /\ \/ status' = "error" /\ UNCHANGED <<at, hashes, elaborated, dest>>
            \/ /\ In(local', FinalHash) /\ at' = [at EXCEPT !.stage = "package"]
               /\ hashes' = [hashes EXCEPT ![at.pos] = FinalHash]
               /\ UNCHANGED <<status, elaborated, dest>>
<1> DEFINE tag == FinalHash
           bases == {BuildHash}
           parts == {"steps"}
           Then == /\ at' = [at EXCEPT !.stage = "package"]
                   /\ hashes' = [hashes EXCEPT ![at.pos] = FinalHash]
                   /\ UNCHANGED <<status, elaborated, dest>>
           Failed == status' = "error" /\ UNCHANGED <<at, hashes, elaborated, dest>>
<1>1. GetImage(tag, bases, parts, P \in forest.flat,
               /\ at' = [at EXCEPT !.stage = "package"]
               /\ hashes' = [hashes EXCEPT ![at.pos] = FinalHash]
               /\ UNCHANGED <<status, elaborated, dest>>)
  BY Zenon DEF CreateFinalImage
<1>2. PICK seen \in {In(local, tag)} \cup (IF May("list") THEN {FALSE} ELSE {}) :
        \/ seen /\ UNCHANGED <<local, cut>> /\ Push(Image(tag), FALSE, Then)
        \/ /\ ~seen /\ opts.pull /\ In(remote, tag)
           /\ LET img == CHOOSE i \in remote : i.tag = tag
              IN local' = Put(local, img) /\ Push(img, TRUE, Then)
           /\ UNCHANGED cut
        \/ /\ \A t \in bases : Stored(t) # {}
           /\ LET img == Make(tag, bases, parts)
              IN local' = Put(local, img) /\ Push(img, FALSE, Then)
           /\ UNCHANGED cut
        \/ UNCHANGED <<local, remote, cut>> /\ Failed
        \/ /\ \A t \in bases : Stored(t) # {}
           /\ local' = Put(local, [Make(tag, bases, parts) EXCEPT !.whole = FALSE])
           /\ cut' = cut \cup {P}
           /\ UNCHANGED remote /\ Failed
  BY <1>1, Zenon DEF GetImage, Fail
<1>3. seen => In(local, tag)
  <2>1. seen = In(local, tag) \/ seen = FALSE
    BY <1>2, Zenon
  <2> QED BY <2>1
<1>4. ASSUME NEW img, NEW pulled, Push(img, pulled, Then)
      PROVE  (remote' = remote \/ remote' = Put(remote, img)) /\ (Then \/ Failed)
  BY <1>4, Zenon DEF Push, Fail
<1> DEFINE Stores == Gets(tag, bases, parts)
           Found == In(local', tag)
<1>5. ASSUME NEW t, Stored(t) # {} PROVE Image(t) \in local \cup remote
  BY <1>5, StoredImage
<1>6. ASSUME seen, UNCHANGED <<local, cut>>, Push(Image(tag), FALSE, Then)
      PROVE  Stores /\ Found /\ (Then \/ Failed)
  <2>1. Stored(tag) # {} /\ In(local, tag)
    BY <1>3, <1>6 DEF In, Stored
  <2>2. Made(Image(tag), tag, bases, parts)
    BY <1>5, <2>1 DEF Made
  <2>3. (remote' = remote \/ remote' = Put(remote, Image(tag))) /\ (Then \/ Failed)
    BY <1>4, <1>6
  <2>4. Stores
    BY <1>6, <2>2, <2>3 DEF Gets
  <2>5. Found
    BY <1>6, <2>1
  <2> QED BY <2>3, <2>4, <2>5
<1>7. ASSUME ~seen, opts.pull, In(remote, tag), UNCHANGED cut, NEW img,
             img = CHOOSE i \in remote : i.tag = tag,
             local' = Put(local, img), Push(img, TRUE, Then)
      PROVE  Stores /\ Found /\ (Then \/ Failed)
  <2>1. img \in remote /\ img.tag = tag
    BY <1>7 DEF In
  <2>2. Made(img, tag, bases, parts)
    BY <2>1 DEF Made
  <2>3. (remote' = remote \/ remote' = Put(remote, img)) /\ (Then \/ Failed)
    BY <1>4, <1>7
  <2>4. Found
    BY <1>7, <2>1, PutKeeps
  <2> QED BY <1>7, <2>2, <2>3, <2>4 DEF Gets
<1>8. ASSUME \A t \in bases : Stored(t) # {}, UNCHANGED cut, NEW img,
             img = Make(tag, bases, parts), local' = Put(local, img), Push(img, FALSE, Then)
      PROVE  Stores /\ Found /\ (Then \/ Failed)
  <2>1. img.tag = tag
    BY <1>8 DEF Make
  <2>2. Made(img, tag, bases, parts)
    BY <1>8, <2>1 DEF Made
  <2>3. (remote' = remote \/ remote' = Put(remote, img)) /\ (Then \/ Failed)
    BY <1>4, <1>8
  <2>4. Found
    BY <1>8, <2>1, PutKeeps
  <2> QED BY <1>8, <2>2, <2>3, <2>4 DEF Gets
<1>9. ASSUME UNCHANGED <<local, remote, cut>>, Failed PROVE Stores /\ Failed
  BY <1>9 DEF Gets
<1>14. ASSUME \A t \in bases : Stored(t) # {}, cut' = cut \cup {P}, UNCHANGED remote, NEW img,
              img = [Make(tag, bases, parts) EXCEPT !.whole = FALSE], local' = Put(local, img)
       PROVE  Stores
  <2>1. img.tag = tag /\ img.made = Make(tag, bases, parts).made
    <3>1. Make(tag, bases, parts) = [tag |-> tag, made |-> Make(tag, bases, parts).made,
                                     whole |-> Make(tag, bases, parts).whole]
      BY DEF Make
    <3> QED BY <1>14, <3>1 DEF Make
  <2>2. P \in cut'
    BY <1>14
  <2> HIDE DEF tag, bases, parts
  <2>3. Made(img, tag, bases, parts)
    BY <1>14, <2>1, <2>2 DEF Made
  <2> QED BY <1>14, <2>3 DEF Gets
<1> HIDE DEF Then, Failed, Stores, Found, tag, bases, parts
<1>10. CASE seen /\ UNCHANGED <<local, cut>> /\ Push(Image(tag), FALSE, Then)
  BY <1>6, <1>10 DEF Then, Failed, Stores, Found, tag, bases, parts
<1>11. CASE /\ ~seen /\ opts.pull /\ In(remote, tag)
            /\ LET img == CHOOSE i \in remote : i.tag = tag
               IN local' = Put(local, img) /\ Push(img, TRUE, Then)
            /\ UNCHANGED cut
  BY <1>7, <1>11 DEF Then, Failed, Stores, Found, tag, bases, parts
<1>12. CASE /\ \A t \in bases : Stored(t) # {}
            /\ LET img == Make(tag, bases, parts)
               IN local' = Put(local, img) /\ Push(img, FALSE, Then)
            /\ UNCHANGED cut
  BY <1>8, <1>12 DEF Then, Failed, Stores, Found, tag, bases, parts
<1>13. CASE UNCHANGED <<local, remote, cut>> /\ Failed
  BY <1>9, <1>13 DEF Then, Failed, Stores, Found, tag, bases, parts
<1>15. CASE /\ \A t \in bases : Stored(t) # {}
            /\ local' = Put(local, [Make(tag, bases, parts) EXCEPT !.whole = FALSE])
            /\ cut' = cut \cup {P}
            /\ UNCHANGED remote /\ Failed
  BY <1>14, <1>15 DEF Then, Failed, Stores, Found, tag, bases, parts
<1> QED BY <1>2, <1>10, <1>11, <1>12, <1>13, <1>15

-----------------------------------------------------------------------------
(* The packages built.                                                     *)

\* What the packages of S add to the images made from their specifications, in
\* hashed parts.
PartsOf(S) == {<<q, part, Rev(q, part)>> : q \in S, part \in Hashed}

\* The image h holds p and what p is built from, and docker has it.
BuiltAs(M, p, h) == h \in DOMAIN M /\ M[h] = PartsOf(BuiltFrom(p)) /\ In(local, h)

AllBuilt(M) == \A p \in DOMAIN elaborated : BuiltAs(M, p, elaborated[p])

\* The solutions before the one at work are built, and so are its packages
\* before the one at work; the ones after it have no hash.
Reached ==
  /\ at.task \in DOMAIN solutions /\ at.pos \in DOMAIN Solution
  /\ DOMAIN at = {"task", "pos", "stage"}
  /\ DOMAIN hashes = DOMAIN Solution
  /\ \A k \in 1 .. at.task - 1 : Range(solutions[k]) \subseteq DOMAIN elaborated
  /\ \A j \in 1 .. at.pos - 1 :
       Solution[j] \in DOMAIN elaborated /\ hashes[j] = elaborated[Solution[j]]
  /\ \A j \in at.pos + 1 .. Len(Solution) : hashes[j] = NoHash

\* Where the build of a package stands.
Standing(M) ==
  \/ at.stage = "next" /\ hashes[at.pos] = NoHash
  \/ /\ at.stage = "final" /\ hashes[at.pos] = NoHash /\ P \notin DOMAIN elaborated
     /\ Range(Requires(P)) \subseteq Named(Range(Solution))
  \/ at.stage = "package" /\ P \notin DOMAIN elaborated /\ BuiltAs(M, P, hashes[at.pos])

Wanted(p) == opts.onlyTarget => p = Last(solutions[BuiltFor(p)])

\* The destination holds the package p as it was built.
Delivered(p) ==
  /\ p \in DOMAIN dest /\ dest[p].meta = dest[p].tar
  /\ Specified(dest[p].tar.made) = PartsOf(BuiltFrom(p)) /\ FilesFit(dest[p].tar.made)
  /\ BuiltFrom(p) \cap cut = {} => dest[p].tar.whole

TaskInv(M) ==
  /\ Images(M)
  /\ pc \in Sorting => status = "none"
  /\ status = "none" => elaborated = <<>>
  /\ status = "building" => pc = "idle" /\ Reached /\ Standing(M) /\ AllBuilt(M)
  /\ \A p \in DOMAIN elaborated : p \in Everything /\ (Wanted(p) => Delivered(p))

LEMMA SolutionsAre ==
  ASSUME BuildInv
  PROVE  /\ DOMAIN solutions = 1 .. Len(solutions) /\ Len(solutions) \in Nat /\ InTree
         /\ \A k \in DOMAIN solutions :
              LET s == solutions[k]
              IN /\ s # <<>> /\ DOMAIN s = 1 .. Len(s) /\ Len(s) \in Nat \ {0}
                 /\ \A i \in DOMAIN s : s[i] \in forest.pkgs /\ s[i] \in Range(s)
                 /\ \A i, j \in DOMAIN s : NameOf(s[i]) = NameOf(s[j]) => i = j
<1>1. DOMAIN solutions = 1 .. Len(solutions) /\ \A k \in DOMAIN solutions : Good(solutions[k])
  BY DEF BuildInv
<1>2. Len(solutions) \in Nat
  BY <1>1
<1>3. InTree
  BY <1>1 DEF InTree, Good
<1>4. ASSUME NEW k \in DOMAIN solutions, NEW s, s = solutions[k]
      PROVE  /\ s # <<>> /\ DOMAIN s = 1 .. Len(s) /\ Len(s) \in Nat \ {0}
             /\ \A i \in DOMAIN s : s[i] \in forest.pkgs /\ s[i] \in Range(s)
             /\ \A i, j \in DOMAIN s : NameOf(s[i]) = NameOf(s[j]) => i = j
  <2>1. s \in Seq(forest.pkgs) /\ s # <<>>
    BY <1>1, <1>4 DEF Good
  <2>2. DOMAIN s = 1 .. Len(s) /\ Len(s) \in Nat \ {0}
    BY <2>1, EmptySeq, LenProperties
  <2>3. \A i \in DOMAIN s : s[i] \in forest.pkgs /\ s[i] \in Range(s)
    BY <2>1 DEF Range
  <2>4. \A i, j \in DOMAIN s : NameOf(s[i]) = NameOf(s[j]) => i = j
    BY <1>1, <1>4 DEF Good
  <2> QED BY <2>1, <2>2, <2>3, <2>4
<1> QED BY <1>1, <1>2, <1>3, <1>4, Zenon

LEMMA NoHashHoldsNothing ==
  ASSUME NEW M, Content(M)
  PROVE  NoHash \notin DOMAIN M
<1>1. ASSUME NEW c PROVE ~Fits(M, <<>>, c)
  <2>1. \A p, r, ds : <<>> # <<"builder", p, r, ds>>
    OBVIOUS
  <2>2. \A p, r, s, ds : <<>> # <<"final", p, r, s, ds>>
    OBVIOUS
  <2> QED BY <2>1, <2>2 DEF Fits
<1> QED BY <1>1 DEF Content, NoHash

\* The specifications, the solutions and what is built from what do not change.
LEMMA SameTree ==
  ASSUME UNCHANGED <<forest, mode, solutions>>, NEW p
  PROVE  /\ BuiltFor(p)' = BuiltFor(p) /\ BuiltFrom(p)' = BuiltFrom(p)
         /\ (p \in Everything)' <=> p \in Everything
         /\ Requires(p)' = Requires(p)
<1>1. \A q : Requires(q)' = Requires(q)
  BY DEF Requires, Copies, Runtime
<1>2. \A q : BuiltFor(q)' = BuiltFor(q)
  BY DEF BuiltFor
<1>3. \A q : Resolved(q)' <=> Resolved(q)
  BY DEF Resolved
<1>4. \A q : Needs(q)' = Needs(q)
  BY <1>1, <1>2 DEF Needs
<1>5. Everything' = Everything
  BY <1>3 DEF Everything
<1>6. BuiltFrom(p)' = BuiltFrom(p)
  <2>1. /\ BuiltFrom(p) = {q \in Everything : \A S \in SUBSET Everything :
                            p \in S /\ (\A d \in S : Needs(d) \subseteq S) => q \in S}
        /\ BuiltFrom(p)' = {q \in Everything' : \A S \in SUBSET Everything' :
                            p \in S /\ (\A d \in S : Needs(d)' \subseteq S) => q \in S}
    BY Zenon DEF BuiltFrom, Everything
  <2> QED BY <1>4, <1>5, <2>1
<1> QED BY <1>1, <1>2, <1>5, <1>6

LEMMA SameParts ==
  ASSUME UNCHANGED <<forest, mode, solutions, edits>>, NEW p
  PROVE  PartsOf(BuiltFrom(p))' = PartsOf(BuiltFrom(p))
<1>1. PICK S : S = BuiltFrom(p)
  OBVIOUS
<1>2. BuiltFrom(p)' = S
  BY <1>1, SameTree
<1>3. PartsOf(S)' = PartsOf(S)
  BY DEF PartsOf, Rev, Hashed
<1>4. PartsOf(BuiltFrom(p))' = PartsOf(S)'
  BY <1>2 DEF PartsOf
<1> QED BY <1>1, <1>3, <1>4

\* A final image that docker has holds all that its package is built from.
LEMMA FinalHolds ==
  ASSUME BuildInv, NEW M, TaskInv(M), status = "building", at.stage = "final",
         NEW M2, Extends(M2, M), Content(M2), FinalHash \in DOMAIN M2
  PROVE  M2[FinalHash] = PartsOf(BuiltFrom(P))
<1> DEFINE s == Solution
           r == Requires(P)
           where(i) == CHOOSE k \in DOMAIN s : NameOf(s[k]) = r[i]
           pre == Rev(P, "prelude")
           post == Rev(P, "steps")
<1>1. /\ Reached /\ AllBuilt(M) /\ hashes[at.pos] = NoHash /\ P \notin DOMAIN elaborated
      /\ Range(r) \subseteq Named(Range(s))
  BY Zenon DEF TaskInv, Standing
<1>2. /\ DOMAIN solutions = 1 .. Len(solutions) /\ Len(solutions) \in Nat /\ InTree
      /\ at.task \in DOMAIN solutions /\ DOMAIN s = 1 .. Len(s) /\ Len(s) \in Nat
      /\ at.pos \in DOMAIN s /\ P = s[at.pos] /\ P \in Range(s)
      /\ \A i, j \in DOMAIN s : NameOf(s[i]) = NameOf(s[j]) => i = j
  BY <1>1, SolutionsAre DEF Reached, Solution, P
<1>3. BuiltFor(P) = at.task /\ P \in Everything
  <2>1. \A j \in 1 .. at.task - 1 : P \notin Range(solutions[j])
    BY <1>1 DEF Reached
  <2>2. P \in Range(solutions[at.task])
    BY <1>2 DEF Solution
  <2>3. Resolved(P) /\ BuiltFor(P) = at.task
    BY <1>2, <2>1, <2>2, BuiltForIs
  <2>4. P \in forest.pkgs
    BY <1>2, SolutionsAre DEF Solution
  <2> QED BY <2>3, <2>4 DEF Everything
<1>4. Needs(P) = {q \in Range(s) : NameOf(q) \in Range(r)}
  BY <1>3 DEF Needs, Solution
<1>5. /\ BuildHash \in DOMAIN M2
      /\ \A x : x \in M2[FinalHash] <=> x = <<P, "steps", post>> \/ x \in M2[BuildHash]
  <2>1. Fits(M2, <<"final", P, pre, post, DepHashes>>, M2[FinalHash])
    BY DEF Content, FinalHash
  <2>2. BuildHash = <<"builder", P, pre, DepHashes>>
    BY DEF BuildHash
  <2> QED BY <2>1, <2>2, FitsFinal
<1>6. /\ Range(DepHashes) \subseteq DOMAIN M2
      /\ \A x : x \in M2[BuildHash] <=> \/ x = <<P, "prelude", pre>>
                                        \/ \E d \in Range(DepHashes) : x \in M2[d]
  <2>1. Fits(M2, <<"builder", P, pre, DepHashes>>, M2[BuildHash])
    BY <1>5 DEF Content, BuildHash
  <2> QED BY <2>1, FitsBuilder
<1>7. /\ DOMAIN DepHashes = DOMAIN r /\ \A i \in DOMAIN r : DepHashes[i] = hashes[where(i)]
      /\ \A n \in Range(r) : \E i \in DOMAIN r : r[i] = n
  BY DEF DepHashes, Range
<1>8. ASSUME NEW i \in DOMAIN r
      PROVE  /\ s[where(i)] \in Needs(P) /\ NameOf(s[where(i)]) = r[i]
             /\ M2[DepHashes[i]] = PartsOf(BuiltFrom(s[where(i)]))
  <2>1. PICK k : k = where(i)
    OBVIOUS
  <2>2. \E j \in DOMAIN s : NameOf(s[j]) = r[i]
    BY <1>1 DEF Named, Range
  <2>3. k \in DOMAIN s /\ NameOf(s[k]) = r[i]
    BY <2>1, <2>2
  <2>4. hashes[k] \in DOMAIN M2 /\ hashes[k] = DepHashes[i]
    BY <1>6, <1>7, <2>1 DEF Range
  <2>5. hashes[k] # NoHash
    BY <2>4, NoHashHoldsNothing
  <2>6. k \in 1 .. at.pos - 1
    <3>1. k # at.pos /\ k \notin at.pos + 1 .. Len(s)
      BY <1>1, <2>5 DEF Reached
    <3> QED BY <1>2, <2>3, <3>1
  <2>7. s[k] \in DOMAIN elaborated /\ hashes[k] = elaborated[s[k]]
    BY <1>1, <2>6 DEF Reached
  <2>8. hashes[k] \in DOMAIN M /\ M[hashes[k]] = PartsOf(BuiltFrom(s[k]))
    BY <1>1, <2>7 DEF AllBuilt, BuiltAs
  <2>9. M2[hashes[k]] = PartsOf(BuiltFrom(s[k]))
    BY <2>8 DEF Extends
  <2>10. s[k] \in Needs(P)
    BY <1>4, <2>3 DEF Range
  <2> QED BY <2>1, <2>3, <2>4, <2>9, <2>10
<1>9. ASSUME NEW d \in Needs(P)
      PROVE  \E i \in DOMAIN r : d = s[where(i)]
  <2>1. PICK j \in DOMAIN s : d = s[j] /\ NameOf(d) \in Range(r)
    BY <1>4 DEF Range
  <2>2. PICK i \in DOMAIN r : r[i] = NameOf(d)
    BY <1>7, <2>1
  <2>3. PICK k : k = where(i)
    OBVIOUS
  <2>4. k \in DOMAIN s /\ NameOf(s[k]) = r[i]
    BY <2>1, <2>2, <2>3
  <2>5. k = j
    BY <1>2, <2>1, <2>2, <2>4
  <2> QED BY <2>1, <2>3, <2>5
<1>10. ASSUME NEW x
       PROVE  (\E d \in Range(DepHashes) : x \in M2[d])
                <=> \E q \in Needs(P) : x \in PartsOf(BuiltFrom(q))
  <2> HIDE DEF where
  <2>1. (\E d \in Range(DepHashes) : x \in M2[d]) <=> \E i \in DOMAIN r : x \in M2[DepHashes[i]]
    BY <1>7 DEF Range
  <2> HIDE DEF r, s
  <2> QED BY <1>8, <1>9, <2>1
<1>11. ASSUME NEW x
       PROVE  x \in M2[FinalHash] <=> \/ x = <<P, "steps", post>> \/ x = <<P, "prelude", pre>>
                                      \/ \E q \in Needs(P) : x \in PartsOf(BuiltFrom(q))
  BY <1>5, <1>6, <1>10
<1>12. \A S, x : x \in PartsOf(S) <=> \E q \in S : \/ x = <<q, "prelude", Rev(q, "prelude")>>
                                                 \/ x = <<q, "steps", Rev(q, "steps")>>
  BY DEF PartsOf, Hashed
<1>13. \A q : q \in BuiltFrom(P) <=> q = P \/ \E d \in Needs(P) : q \in BuiltFrom(d)
  BY <1>2, <1>3, BuiltFromNeeds
<1>14. ASSUME NEW x PROVE x \in M2[FinalHash] <=> x \in PartsOf(BuiltFrom(P))
  BY <1>11, <1>12, <1>13
<1> QED BY <1>14

\* Steps of a build change neither the tree nor the solutions.
LEMMA BuiltStays ==
  ASSUME UNCHANGED <<forest, mode, solutions, edits>>, NEW M, NEW M2, Extends(M2, M),
         \A h : In(local, h) => In(local', h), NEW p, NEW h, BuiltAs(M, p, h)
  PROVE  BuiltAs(M2, p, h)'
<1>1. PartsOf(BuiltFrom(p))' = PartsOf(BuiltFrom(p))
  BY SameParts
<1>2. In(local, h)'
  BY DEF BuiltAs, In
<1> QED BY <1>1, <1>2 DEF BuiltAs, Extends

LEMMA DeliveredStays ==
  ASSUME UNCHANGED <<forest, mode, solutions, edits, opts>>, cut \subseteq cut', NEW p,
         dest' = dest \/ \E q, v : q # p /\ dest' = Assign(dest, q, v),
         p \in Everything, Wanted(p) => Delivered(p)
  PROVE  /\ (p \in Everything)'
         /\ Wanted(p)' => Delivered(p)'
<1>1. (p \in Everything)' /\ (Wanted(p)' <=> Wanted(p))
  BY SameTree DEF Wanted
<1>2. PartsOf(BuiltFrom(p))' = PartsOf(BuiltFrom(p)) /\ BuiltFrom(p)' = BuiltFrom(p)
  BY SameParts, SameTree
<1>3. p \in DOMAIN dest => p \in DOMAIN dest' /\ dest'[p] = dest[p]
  BY DEF Assign
<1>4. \A c : FilesFit(c)' = FilesFit(c) /\ Specified(c)' = Specified(c)
  BY DEF FilesFit, Specified, Rev
<1>5. Delivered(p) => Delivered(p)'
  <2>1. PICK c : c = dest[p].tar.made
    OBVIOUS
  <2>2. p \in DOMAIN dest => dest'[p].tar.made = c
    BY <1>3, <2>1
  <2>3. FilesFit(c)' = FilesFit(c) /\ Specified(c)' = Specified(c)
    BY <1>4
  <2>4. p \in DOMAIN dest => /\ Specified(dest[p].tar.made)' = Specified(dest[p].tar.made)
                            /\ FilesFit(dest[p].tar.made)' = FilesFit(dest[p].tar.made)
    BY <2>1, <2>2, <2>3 DEF FilesFit, Specified
  <2> QED BY <1>2, <1>3, <2>4 DEF Delivered
<1> QED BY <1>1, <1>5

\* The build goes on with the next package, when the one at work is built.
LEMMA GoKeeps ==
  ASSUME BuildInv, NEW M, NEW hs, Go(hs), status = "building", Reached,
         UNCHANGED <<fixed, local>>, DOMAIN hs = DOMAIN Solution,
         DOMAIN elaborated \subseteq DOMAIN elaborated',
         \A j \in 1 .. at.pos :
           Solution[j] \in DOMAIN elaborated' /\ hs[j] = elaborated'[Solution[j]],
         \A j \in at.pos + 1 .. Len(Solution) : hs[j] = NoHash,
         \A p \in DOMAIN elaborated' : BuiltAs(M, p, elaborated'[p])
  PROVE  /\ status' \in {"building", "ok"}
         /\ status' = "building" => Reached' /\ Standing(M)' /\ AllBuilt(M)'
<1>1. /\ DOMAIN solutions = 1 .. Len(solutions) /\ Len(solutions) \in Nat
      /\ at.task \in DOMAIN solutions /\ at.pos \in DOMAIN Solution
      /\ DOMAIN Solution = 1 .. Len(Solution) /\ Len(Solution) \in Nat
      /\ DOMAIN at = {"task", "pos", "stage"}
      /\ \A k \in 1 .. at.task - 1 : Range(solutions[k]) \subseteq DOMAIN elaborated
      /\ \A k \in DOMAIN solutions : DOMAIN solutions[k] = 1 .. Len(solutions[k]) /\ Len(solutions[k]) \in Nat \ {0}
  BY SolutionsAre DEF Reached, Solution
<1>2. /\ UNCHANGED <<forest, mode, solutions, edits>>
      /\ UNCHANGED local
  BY DEF fixed
<1>3. AllBuilt(M)'
  <2>1. ASSUME NEW p \in DOMAIN elaborated' PROVE BuiltAs(M, p, elaborated[p])'
    <3>1. PICK h : h = elaborated'[p] /\ BuiltAs(M, p, h)
      OBVIOUS
    <3>2. Extends(M, M)
      BY DEF Extends
    <3>3. BuiltAs(M, p, h)'
      BY <1>2, <3>1, <3>2, BuiltStays
    <3>4. elaborated[p]' = h
      BY <3>1
    <3> QED BY <3>3, <3>4 DEF BuiltAs
  <2> QED BY <2>1 DEF AllBuilt
<1>4. CASE /\ at.pos < Len(Solution)
           /\ at' = [at EXCEPT !.pos = @ + 1, !.stage = "next"]
           /\ UNCHANGED status
  <2>1. /\ at'.task = at.task /\ at'.pos = at.pos + 1 /\ at'.stage = "next"
        /\ DOMAIN at' = {"task", "pos", "stage"} /\ Solution' = Solution /\ hashes' = hs
    BY <1>1, <1>2, <1>4 DEF Go, Solution
  <2>2. at.task \in DOMAIN solutions' /\ at.pos + 1 \in DOMAIN Solution'
    BY <1>1, <1>2, <1>4, <2>1
  <2>3. ASSUME NEW k \in 1 .. at.task - 1
        PROVE  Range(solutions[k])' \subseteq DOMAIN elaborated'
    BY <1>1, <1>2
  <2>4. Reached'
    <3>1. \A j \in 1 .. at.pos :
            Solution'[j] \in DOMAIN elaborated' /\ hashes'[j] = elaborated'[Solution'[j]]
      BY <2>1
    <3>2. \A j \in at.pos + 2 .. Len(Solution') : hashes'[j] = NoHash
      BY <1>1, <2>1
    <3>3. (at.pos + 1) - 1 = at.pos /\ (at.pos + 1) + 1 = at.pos + 2
      BY <1>1
    <3> QED BY <2>1, <2>2, <2>3, <3>1, <3>2, <3>3 DEF Reached
  <2>5. Standing(M)'
    BY <1>1, <1>4, <2>1 DEF Standing
  <2> QED BY <1>3, <1>4, <2>4, <2>5
<1>5. CASE /\ at.pos = Len(Solution) /\ at.task < Len(solutions)
           /\ at' = [task |-> at.task + 1, pos |-> 1, stage |-> "next"]
           /\ UNCHANGED status
  <2>1. /\ at'.task = at.task + 1 /\ at'.pos = 1 /\ at'.stage = "next"
        /\ DOMAIN at' = {"task", "pos", "stage"} /\ Solution' = solutions[at.task + 1]
        /\ hashes' = NoHashes(at.task + 1)
    BY <1>2, <1>5 DEF Go, Solution
  <2>2. at.task + 1 \in DOMAIN solutions /\ 1 \in DOMAIN Solution'
    BY <1>1, <1>5, <2>1
  <2>3. DOMAIN hashes' = DOMAIN Solution' /\ \A j \in DOMAIN Solution' : hashes'[j] = NoHash
    BY <2>1 DEF NoHashes
  <2>4. ASSUME NEW k \in 1 .. at.task PROVE Range(solutions[k]) \subseteq DOMAIN elaborated'
    <3>1. CASE k = at.task
      BY <1>1, <1>5, <3>1 DEF Solution, Range
    <3>2. CASE k # at.task
      BY <1>1, <3>2
    <3> QED BY <3>1, <3>2
  <2>5. DOMAIN Solution' = 1 .. Len(Solution') /\ Len(Solution') \in Nat
    BY <1>1, <2>1, <2>2
  <2>6. \A k \in 1 .. at'.task - 1 : Range(solutions[k])' \subseteq DOMAIN elaborated'
    BY <1>1, <1>2, <2>1, <2>4
  <2>7. Reached'
    BY <1>1, <1>2, <2>1, <2>2, <2>3, <2>5, <2>6 DEF Reached
  <2>8. Standing(M)'
    BY <2>1, <2>2, <2>3 DEF Standing
  <2> QED BY <1>3, <1>5, <2>7, <2>8
<1>6. CASE status' = "ok"
  BY <1>6
<1> QED BY <1>4, <1>5, <1>6 DEF Go, Advance

LEMMA InitTask == ManagerInit => \E M : TaskInv(M)
<1> SUFFICES ASSUME ManagerInit PROVE \E M : TaskInv(M)
  OBVIOUS
<1>1. PICK M : M = [x \in {} |-> x]
  OBVIOUS
<1>2. /\ local = {} /\ remote = {} /\ elaborated = <<>> /\ status = "none"
  BY DEF ManagerInit, SolverInit, Idle
<1>3. Images(M)
  BY <1>1, <1>2 DEF Images, Content, Edited, ManagerInit
<1>4. DOMAIN elaborated = {}
  BY <1>2
<1> QED BY <1>2, <1>3, <1>4 DEF TaskInv

LEMMA ImagesStay ==
  ASSUME NEW M, Images(M), UNCHANGED <<cut, forest>>, Grown,
         \A i : i \in local' \cup remote' => i \in local \cup remote
  PROVE  Images(M)'
<1>1. ASSUME NEW i \in local' \cup remote' PROVE Holds(M, i)'
  <2>1. Holds(M, i) /\ Edited /\ Extends(M, M)
    BY DEF Images, Extends
  <2> QED BY <2>1, HoldsMore
<1>2. Content(M)'
  BY DEF Images, Content, Fits
<1>3. Edited'
  BY DEF Images, Edited, Grown
<1> QED BY <1>1, <1>2, <1>3 DEF Images

\* While the packages are resolved nothing is built yet.
LEMMA SolveTask ==
  ASSUME BuildInv, NEW M, TaskInv(M), Solve
  PROVE  TaskInv(M)'
<1>1. UNCHANGED buildVars
  BY DEF Solve
<1>2. Images(M)'
  <2>1. UNCHANGED <<local, remote, cut, forest>> /\ Grown
    BY <1>1 DEF buildVars, Grown, Solve, SolverNext, Resolve, SortCandidates, SortFails, Solved, Answer,
       ToSort, End
  <2> QED BY <2>1, ImagesStay DEF TaskInv
<1>3. status = "none" /\ status' # "building" /\ (pc' \in Sorting => status' = "none")
  <2>1. CASE Resolve
    <3>1. ASSUME NEW e, End(e), e # "building"
          PROVE  status = "none" /\ status' # "building" /\ (pc' \in Sorting => status' = "none")
      <4>1. pc' = "idle" /\ status' = e /\ status = "none"
        BY <2>1, <3>1 DEF Resolve, End, sortVars
      <4> QED BY <3>1, <4>1 DEF Sorting
    <3>2. CASE ToSort(Target, Prepare(Target, Available(Target)))
      <4>1. End("error") \/ UNCHANGED status
        BY <3>2 DEF ToSort
      <4>2. status = "none"
        BY <2>1 DEF Resolve
      <4> QED BY <3>1, <4>1, <4>2
    <3>3. End("error") \/ End("panic") \/ ToSort(Target, Prepare(Target, Available(Target)))
      BY <2>1, Zenon DEF Resolve
    <3> QED BY <3>1, <3>2, <3>3
  <2>2. CASE SortCandidates
    BY <2>2, SortWorks DEF SortCandidates, TaskInv
  <2>3. CASE SortFails
    <3>1. pc' = "error" /\ status' = "error" /\ status = "none"
      BY <2>3 DEF SortFails, End, sortVars
    <3> QED BY <3>1 DEF Sorting
  <2>4. CASE Solved
    BY <2>4 DEF Solved, TaskInv, Sorting
  <2>5. CASE Answer
    BY <2>5 DEF Answer, sortVars, Sorting
  <2> QED BY <2>1, <2>2, <2>3, <2>4, <2>5 DEF Solve, SolverNext
<1>4. elaborated' = <<>>
  BY <1>1, <1>3 DEF buildVars, TaskInv
<1>5. DOMAIN elaborated' = {}
  BY <1>4
<1> QED BY <1>2, <1>3, <1>4, <1>5 DEF TaskInv

LEMMA StartTask ==
  ASSUME BuildInv, NEW M, TaskInv(M), StartBuild
  PROVE  TaskInv(M)'
<1>1. /\ status = "none" /\ status' = "building" /\ pc = "idle" /\ pc' = pc
      /\ at' = [task |-> 1, pos |-> 1, stage |-> "next"] /\ hashes' = NoHashes(1)
      /\ UNCHANGED <<solutions, local, remote, cut, elaborated>> /\ solutions # <<>>
  BY DEF StartBuild, sortVars
<1>2. elaborated' = <<>> /\ DOMAIN elaborated' = {}
  BY <1>1 DEF TaskInv
<1>3. Images(M)'
  BY <1>1, ImagesStay DEF TaskInv, StartBuild, Grown
<1>4. 1 \in DOMAIN solutions
  <2>1. solutions \in Seq(Seq(forest.pkgs))
    BY DEF BuildInv
  <2> QED BY <1>1, <2>1, EmptySeq, LenProperties
<1>5. DOMAIN solutions[1] = 1 .. Len(solutions[1]) /\ Len(solutions[1]) \in Nat \ {0}
  BY <1>4, SolutionsAre
<1>6. /\ at'.task = 1 /\ at'.pos = 1 /\ at'.stage = "next" /\ DOMAIN at' = {"task", "pos", "stage"}
      /\ Solution' = solutions[1] /\ DOMAIN hashes' = DOMAIN solutions[1]
      /\ \A j \in DOMAIN solutions[1] : hashes'[j] = NoHash
  BY <1>1 DEF Solution, NoHashes
<1>7. Reached'
  BY <1>1, <1>4, <1>5, <1>6 DEF Reached
<1>8. Standing(M)'
  BY <1>5, <1>6 DEF Standing
<1>9. AllBuilt(M)'
  BY <1>2 DEF AllBuilt
<1> QED BY <1>1, <1>2, <1>3, <1>7, <1>8, <1>9 DEF TaskInv, Sorting

LEMMA SkipTask ==
  ASSUME BuildInv, NEW M, TaskInv(M), Skip
  PROVE  TaskInv(M)'
<1> DEFINE hs == Reused(elaborated[P])
<1>1. /\ status = "building" /\ at.stage = "next" /\ P \in DOMAIN elaborated /\ Go(hs)
      /\ UNCHANGED <<fixed, local, remote, dest, elaborated, cut>>
  BY DEF Skip, Building
<1>2. pc = "idle" /\ Reached /\ AllBuilt(M) /\ Images(M)
  BY <1>1 DEF TaskInv
<1>3. /\ DOMAIN hs = DOMAIN Solution
      /\ \A j \in 1 .. at.pos :
           Solution[j] \in DOMAIN elaborated' /\ hs[j] = elaborated'[Solution[j]]
      /\ \A j \in at.pos + 1 .. Len(Solution) : hs[j] = NoHash
  <2>1. /\ at.pos \in 1 .. Len(Solution) /\ Len(Solution) \in Nat
        /\ DOMAIN Solution = 1 .. Len(Solution)
    BY <1>2, SolutionsAre DEF Reached, Solution
  <2>2. DOMAIN hs = DOMAIN hashes /\ \A j \in DOMAIN hashes : hs[j] = IF j = at.pos THEN elaborated[P] ELSE hashes[j]
    BY DEF Reused
  <2> HIDE DEF hs
  <2> QED BY <1>1, <1>2, <2>1, <2>2 DEF Reached, P
<1> HIDE DEF hs
<1>4. \A p \in DOMAIN elaborated' : BuiltAs(M, p, elaborated'[p])
  BY <1>1, <1>2 DEF AllBuilt
<1>5. /\ status' \in {"building", "ok"}
      /\ status' = "building" => Reached' /\ Standing(M)' /\ AllBuilt(M)'
  BY <1>1, <1>2, <1>3, <1>4, GoKeeps
<1>6. Images(M)'
  BY <1>1, <1>2, ImagesStay DEF fixed, Grown
<1>7. pc' = "idle" /\ UNCHANGED <<forest, mode, solutions, edits, opts>>
  BY <1>1, <1>2 DEF fixed, sortVars
<1>8. \A p \in DOMAIN elaborated' : (p \in Everything)' /\ (Wanted(p)' => Delivered(p)')
  BY <1>1, <1>7, DeliveredStays DEF TaskInv
<1> QED BY <1>5, <1>6, <1>7, <1>8 DEF TaskInv, Sorting

\* A search for an image, after which the build fails or goes on.
LEMMA ImageTask ==
  ASSUME BuildInv, NEW M, TaskInv(M), status = "building", NEW M2, Extends(M2, M), Images(M2)',
         \A h : In(local, h) => In(local', h), cut \subseteq cut',
         UNCHANGED <<fixed, elaborated, dest>>,
         status' = "error" \/ (status' = "building" /\ Reached' /\ Standing(M2)')
  PROVE  TaskInv(M2)'
<1>1. pc' = "idle" /\ UNCHANGED <<forest, mode, solutions, edits, opts>>
  BY DEF fixed, sortVars, TaskInv
<1>2. \A p \in DOMAIN elaborated' : (p \in Everything)' /\ (Wanted(p)' => Delivered(p)')
  BY <1>1, DeliveredStays DEF TaskInv
<1>3. AllBuilt(M2)'
  <2>1. ASSUME NEW p \in DOMAIN elaborated' PROVE BuiltAs(M2, p, elaborated[p])'
    <3>1. PICK h : h = elaborated[p] /\ BuiltAs(M, p, h)
      BY DEF TaskInv, AllBuilt
    <3>2. BuiltAs(M2, p, h)'
      BY <1>1, <3>1, BuiltStays
    <3>3. elaborated[p]' = h
      BY <3>1
    <3> QED BY <3>2, <3>3 DEF BuiltAs
  <2> QED BY <2>1 DEF AllBuilt
<1> QED BY <1>1, <1>2, <1>3 DEF TaskInv, Sorting

LEMMA BuildImageTask ==
  ASSUME BuildInv, NEW M, TaskInv(M), CreateBuildImage
  PROVE  \E M2 : TaskInv(M2)'
<1>1. /\ status = "building" /\ at.stage = "next" /\ P \notin DOMAIN elaborated
      /\ UNCHANGED fixed
  BY DEF CreateBuildImage, Building
<1>2. Reached /\ Images(M) /\ hashes[at.pos] = NoHash
  BY <1>1 DEF TaskInv, Standing
<1>3. CASE \E n \in Range(Requires(P)) : \A q \in Range(Solution) : NameOf(q) # n
  <2>1. status' = "error" /\ UNCHANGED <<elaborated, dest, local, remote, cut>>
    BY <1>3, Zenon DEF CreateBuildImage, Fail
  <2>2. Images(M)' /\ Extends(M, M)
    BY <1>1, <1>2, <2>1, ImagesStay DEF Extends, fixed, Grown
  <2>3. cut \subseteq cut' /\ \A h : In(local, h) => In(local', h)
    BY <2>1
  <2> QED BY <1>1, <2>1, <2>2, <2>3, ImageTask
<1>4. CASE ~ \E n \in Range(Requires(P)) : \A q \in Range(Solution) : NameOf(q) # n
  <2>1. /\ Gets(BuildHash, Range(DepHashes), {"prelude", "files"})
        /\ \/ status' = "error" /\ UNCHANGED <<at, hashes, elaborated, dest>>
           \/ /\ at' = [at EXCEPT !.stage = "final"]
              /\ UNCHANGED <<status, hashes, elaborated, dest>>
    BY <1>1, <1>4, BuildImageGets
  <2>2. (\A t \in Range(DepHashes) : Stored(t) # {}) =>
          Fits(M, BuildHash, Specified(Make(BuildHash, Range(DepHashes), {"prelude", "files"}).made))
    <3>1. PICK bases, parts : bases = Range(DepHashes) /\ parts = {"prelude", "files"}
      OBVIOUS
    <3>2. SUFFICES ASSUME \A t \in bases : Stored(t) # {}
                   PROVE  Fits(M, BuildHash, Specified(Make(BuildHash, bases, parts).made))
      BY <3>1
    <3>3. PICK img, made : img = Make(BuildHash, bases, parts) /\ made = Specified(img.made)
      OBVIOUS
    <3>4. /\ "prelude" \in parts \cap Hashed /\ parts \cap Hashed = {"prelude"}
          /\ FilesCome(M, bases, parts)
      BY <3>1 DEF Hashed, FilesCome
    <3>5. /\ bases \subseteq DOMAIN M
          /\ \A x : x \in made <=>
                   \/ \E t \in bases : x \in M[t]
                   \/ \E part \in parts \cap Hashed : x = <<P, part, Rev(P, part)>>
      BY <1>2, <3>2, <3>3, <3>4, MakeMade
    <3>6. \A x : x \in made <=> x = <<P, "prelude", Rev(P, "prelude")>> \/ \E t \in bases : x \in M[t]
      BY <3>4, <3>5
    <3> QED BY <3>1, <3>3, <3>5, <3>6, FitsBuilder DEF BuildHash
  <2>3. /\ \E M2 : Extends(M2, M) /\ Images(M2)'
        /\ \A h : In(local, h) => In(local', h)
    <3>1. PICK parts : parts = {"prelude", "files"}
      OBVIOUS
    <3>2. "prelude" \in parts \cap Hashed /\ UNCHANGED <<forest, edits>>
      BY <1>1, <3>1 DEF Hashed, fixed
    <3>3. /\ Gets(BuildHash, Range(DepHashes), parts)
          /\ (\A t \in Range(DepHashes) : Stored(t) # {}) =>
               /\ Fits(M, BuildHash, Specified(Make(BuildHash, Range(DepHashes), parts).made))
               /\ FilesCome(M, Range(DepHashes), parts)
      BY <2>1, <2>2, <3>1 DEF FilesCome
    <3> QED BY <1>2, <3>2, <3>3, GetsKeeps
  <2>4. PICK M2 : Extends(M2, M) /\ Images(M2)'
    BY <2>3
  <2>5. ASSUME at' = [at EXCEPT !.stage = "final"], UNCHANGED <<status, hashes, elaborated, dest>>
        PROVE  status' = "building" /\ Reached' /\ Standing(M2)'
    <3>1. /\ at'.task = at.task /\ at'.pos = at.pos /\ at'.stage = "final"
          /\ DOMAIN at' = {"task", "pos", "stage"} /\ UNCHANGED <<forest, mode, solutions>>
      BY <1>1, <1>2, <2>5 DEF Reached, fixed
    <3>2. Solution' = Solution /\ P' = P
      BY <3>1 DEF Solution, P
    <3>3. Reached'
      BY <1>2, <2>5, <3>1, <3>2 DEF Reached
    <3>4. Range(Requires(P)) \subseteq Named(Range(Solution))
      BY <1>4 DEF Named
    <3>5. Requires(P)' = Requires(P)
      BY <3>1, <3>2 DEF Requires, Copies, Runtime
    <3>6. Range(Requires(P))' \subseteq Named(Range(Solution))'
      BY <3>2, <3>4, <3>5 DEF Named
    <3> QED BY <1>1, <1>2, <2>5, <3>1, <3>2, <3>3, <3>6 DEF Standing
  <2>6. cut \subseteq cut'
    BY <2>1 DEF Gets
  <2>7. UNCHANGED <<elaborated, dest>>
    BY <2>1
  <2>8. status' = "error" \/ (status' = "building" /\ Reached' /\ Standing(M2)')
    BY <2>1, <2>5, Zenon
  <2> QED BY <1>1, <2>3, <2>4, <2>6, <2>7, <2>8, ImageTask
<1> QED BY <1>3, <1>4

LEMMA FinalImageTask ==
  ASSUME BuildInv, NEW M, TaskInv(M), CreateFinalImage
  PROVE  \E M2 : TaskInv(M2)'
<1>1. status = "building" /\ at.stage = "final" /\ UNCHANGED fixed
  BY DEF CreateFinalImage, Building
<1>2. Reached /\ Images(M) /\ hashes[at.pos] = NoHash /\ P \notin DOMAIN elaborated
  BY <1>1 DEF TaskInv, Standing
<1>3. /\ Gets(FinalHash, {BuildHash}, {"steps"})
      /\ \/ status' = "error" /\ UNCHANGED <<at, hashes, elaborated, dest>>
         \/ /\ In(local', FinalHash) /\ at' = [at EXCEPT !.stage = "package"]
            /\ hashes' = [hashes EXCEPT ![at.pos] = FinalHash]
            /\ UNCHANGED <<status, elaborated, dest>>
  BY FinalImageGets
\* The build image has the files of the package.
<1>11. (\A t \in {BuildHash} : Stored(t) # {}) => \E t \in {BuildHash} : \E r : <<P, "prelude", r>> \in M[t]
  <2>1. ASSUME Stored(BuildHash) # {} PROVE <<P, "prelude", Rev(P, "prelude")>> \in M[BuildHash]
    <3>1. BuildHash \in DOMAIN M
      <4>1. Image(BuildHash) \in local \cup remote /\ Image(BuildHash).tag = BuildHash
        BY <2>1, StoredImage
      <4> QED BY <1>2, <4>1 DEF Images, Holds
    <3>2. Fits(M, <<"builder", P, Rev(P, "prelude"), DepHashes>>, M[BuildHash])
      BY <1>2, <3>1 DEF Images, Content, BuildHash
    <3> QED BY <3>2, FitsBuilder
  <2> QED BY <2>1
<1>4. (\A t \in {BuildHash} : Stored(t) # {}) =>
        Fits(M, FinalHash, Specified(Make(FinalHash, {BuildHash}, {"steps"}).made))
  <2>1. PICK base, parts : base = BuildHash /\ parts = {"steps"}
    OBVIOUS
  <2>2. SUFFICES ASSUME \A t \in {base} : Stored(t) # {}
                 PROVE  Fits(M, FinalHash, Specified(Make(FinalHash, {base}, parts).made))
    BY <2>1
  <2>3. PICK img, made : img = Make(FinalHash, {base}, parts) /\ made = Specified(img.made)
    OBVIOUS
  <2>4. "steps" \in parts \cap Hashed /\ parts \cap Hashed = {"steps"}
    BY <2>1 DEF Hashed
  <2>5. FilesCome(M, {base}, parts)
    BY <1>11, <2>1, <2>2 DEF FilesCome
  <2>6. /\ {base} \subseteq DOMAIN M
        /\ \A x : x \in made <=>
                 \/ \E t \in {base} : x \in M[t]
                 \/ \E part \in parts \cap Hashed : x = <<P, part, Rev(P, part)>>
    BY <1>2, <2>2, <2>3, <2>4, <2>5, MakeMade
  <2>7. \A x : x \in made <=> x = <<P, "steps", Rev(P, "steps")>> \/ x \in M[base]
    BY <2>4, <2>6
  <2>8. base = <<"builder", P, Rev(P, "prelude"), DepHashes>>
    BY <2>1 DEF BuildHash
  <2> QED BY <2>3, <2>6, <2>7, <2>8, FitsFinal DEF FinalHash
<1>5. /\ \E M2 : Extends(M2, M) /\ Images(M2)'
      /\ \A h : In(local, h) => In(local', h)
  <2>1. PICK parts, bases : parts = {"steps"} /\ bases = {BuildHash}
    OBVIOUS
  <2>2. "steps" \in parts \cap Hashed /\ UNCHANGED <<forest, edits>>
    BY <1>1, <2>1 DEF Hashed, fixed
  <2>3. /\ Gets(FinalHash, bases, parts)
        /\ (\A t \in bases : Stored(t) # {}) =>
             /\ Fits(M, FinalHash, Specified(Make(FinalHash, bases, parts).made))
             /\ FilesCome(M, bases, parts)
    BY <1>3, <1>4, <1>11, <2>1 DEF FilesCome
  <2> QED BY <1>2, <2>2, <2>3, GetsKeeps
<1>6. PICK M2 : Extends(M2, M) /\ Images(M2)'
  BY <1>5
<1>7. ASSUME In(local', FinalHash), at' = [at EXCEPT !.stage = "package"],
             hashes' = [hashes EXCEPT ![at.pos] = FinalHash],
             UNCHANGED <<status, elaborated, dest>>
      PROVE  status' = "building" /\ Reached' /\ Standing(M2)'
  <2>1. /\ at'.task = at.task /\ at'.pos = at.pos /\ at'.stage = "package"
        /\ DOMAIN at' = {"task", "pos", "stage"} /\ UNCHANGED <<forest, mode, solutions, edits>>
    BY <1>1, <1>2, <1>7 DEF Reached, fixed
  <2>2. Solution' = Solution /\ P' = P
    BY <2>1 DEF Solution, P
  <2>3. /\ at.pos \in DOMAIN Solution /\ DOMAIN Solution = 1 .. Len(Solution)
        /\ Len(Solution) \in Nat /\ DOMAIN hashes = DOMAIN Solution
    BY <1>2, SolutionsAre DEF Reached, Solution
  <2>4. PICK h : h = FinalHash
    OBVIOUS
  <2>5. /\ DOMAIN hashes' = DOMAIN hashes /\ hashes'[at.pos] = h
        /\ \A j \in DOMAIN hashes : j # at.pos => hashes'[j] = hashes[j]
    BY <1>7, <2>3, <2>4
  <2>6. Reached'
    BY <1>2, <1>7, <2>1, <2>2, <2>3, <2>5 DEF Reached
  <2>7. h \in DOMAIN M2 /\ Content(M2)
    <3>1. PICK i \in local' : i.tag = h
      BY <1>7, <2>4 DEF In
    <3>2. Content(M2)
      BY <1>6 DEF Images, Content, Fits
    <3> QED BY <1>6, <3>1, <3>2 DEF Images, Holds
  <2>8. M2[h] = PartsOf(BuiltFrom(P))
    BY <1>1, <1>6, <2>4, <2>7, FinalHolds
  <2>9. PICK p : p = P
    OBVIOUS
  <2>10. PartsOf(BuiltFrom(p))' = M2[h]
    BY <2>1, <2>8, <2>9, SameParts
  <2>11. BuiltAs(M2, p, h)'
    <3>1. In(local, h)'
      BY <1>7, <2>4 DEF In
    <3> QED BY <2>7, <2>10, <3>1 DEF BuiltAs
  <2>12. BuiltAs(M2, P, hashes[at.pos])'
    <3>1. P' = p /\ (hashes[at.pos])' = h
      BY <2>1, <2>2, <2>5, <2>9
    <3> QED BY <2>11, <3>1 DEF BuiltAs
  <2> QED BY <1>1, <1>2, <1>7, <2>1, <2>2, <2>6, <2>12 DEF Standing
<1>8. cut \subseteq cut'
  BY <1>3 DEF Gets
<1>9. UNCHANGED <<elaborated, dest>>
  BY <1>3
<1>10. status' = "error" \/ (status' = "building" /\ Reached' /\ Standing(M2)')
  BY <1>3, <1>7, Zenon
<1> QED BY <1>1, <1>5, <1>6, <1>8, <1>9, <1>10, ImageTask

\* The package at work is built for the solution at work.
LEMMA WorkIsFirst ==
  ASSUME BuildInv, Reached, P \notin DOMAIN elaborated
  PROVE  P \in Everything /\ BuiltFor(P) = at.task
<1>1. /\ DOMAIN solutions = 1 .. Len(solutions) /\ Len(solutions) \in Nat
      /\ at.task \in DOMAIN solutions /\ P \in Range(solutions[at.task]) /\ P \in forest.pkgs
  BY SolutionsAre DEF Reached, Solution, P
<1>2. \A j \in 1 .. at.task - 1 : P \notin Range(solutions[j])
  BY DEF Reached
<1>3. Resolved(P) /\ BuiltFor(P) = at.task
  BY <1>1, <1>2, BuiltForIs
<1> QED BY <1>1, <1>3 DEF Everything

\* The package that is made of a final image holds what it has to.
LEMMA PackageHolds ==
  ASSUME NEW M, Images(M), NEW p, NEW h, BuiltAs(M, p, h)
  PROVE  /\ Specified(Data(h).made) = PartsOf(BuiltFrom(p)) /\ FilesFit(Data(h).made)
         /\ BuiltFrom(p) \cap cut = {} => Data(h).whole
<1>1. Stored(h) # {} /\ In(local, h)
  BY DEF BuiltAs, In, Stored
<1>2. Image(h) \in local \cup remote /\ Image(h).tag = h
  BY <1>1, StoredImage
<1>3. PICK i : i = Image(h)
  OBVIOUS
<1>4. /\ Specified(i.made) = PartsOf(BuiltFrom(p)) /\ FilesFit(i.made)
      /\ ~i.whole => \E x \in Specified(i.made) : x[1] \in cut
  BY <1>2, <1>3 DEF Images, Holds, BuiltAs
<1>5. \A x \in PartsOf(BuiltFrom(p)) : x[1] \in BuiltFrom(p)
  BY DEF PartsOf
<1>6. Data(h).made = i.made /\ Data(h).whole = i.whole
  BY <1>3 DEF Data
<1> QED BY <1>4, <1>5, <1>6

LEMMA PackageTask ==
  ASSUME BuildInv, NEW M, TaskInv(M), GeneratePackage
  PROVE  TaskInv(M)'
<1>1. /\ status = "building" /\ at.stage = "package"
      /\ UNCHANGED <<fixed, local, remote, cut>>
  BY DEF GeneratePackage, Building
<1>2. /\ Reached /\ Images(M) /\ AllBuilt(M) /\ pc = "idle" /\ P \notin DOMAIN elaborated
      /\ BuiltAs(M, P, hashes[at.pos])
  BY <1>1 DEF TaskInv, Standing
<1>3. PICK h, p : h = hashes[at.pos] /\ p = P
  OBVIOUS
<1>4. /\ UNCHANGED <<forest, mode, solutions, edits, opts, cut>> /\ pc' = "idle"
  BY <1>1, <1>2 DEF fixed, sortVars
<1>5. Images(M)'
  BY <1>1, <1>2, ImagesStay DEF fixed, Grown
<1>6. /\ at.pos \in 1 .. Len(Solution) /\ Len(Solution) \in Nat
      /\ DOMAIN Solution = 1 .. Len(Solution) /\ Solution[at.pos] = p
      /\ \A i, j \in DOMAIN Solution : NameOf(Solution[i]) = NameOf(Solution[j]) => i = j
  BY <1>2, <1>3, SolutionsAre DEF Reached, Solution, P
<1>7. p \in Everything /\ BuiltFor(p) = at.task
  BY <1>2, <1>3, WorkIsFirst
<1> DEFINE v == [tar |-> Data(h), meta |-> Data(h)]
<1>8. \/ ~Generated /\ UNCHANGED dest /\ Elaborate
      \/ Generated /\ dest' = Assign(dest, p, v) /\ Elaborate
      \/ /\ status' = "error" /\ UNCHANGED <<at, hashes, elaborated>>
         /\ \E w : dest' = Assign(dest, p, w)
  <2>1. \/ ~Generated /\ UNCHANGED dest /\ Elaborate
        \/ Generated /\ dest' = Assign(dest, P, [tar |-> Data(hashes[at.pos]), meta |-> Data(hashes[at.pos])]) /\ Elaborate
        \/ dest' = Assign(dest, P, Files(NoFile)) /\ status' = "error" /\ UNCHANGED <<at, hashes, elaborated>>
        \/ /\ dest' = Assign(dest, P, Files(Data(hashes[at.pos]))) /\ status' = "error"
           /\ UNCHANGED <<at, hashes, elaborated>>
    BY Zenon DEF GeneratePackage
  <2> QED BY <1>3, <2>1
<1> HIDE DEF v
<1>9. ASSUME NEW q \in DOMAIN elaborated, dest' = dest \/ \E w : dest' = Assign(dest, p, w)
      PROVE  (q \in Everything)' /\ (Wanted(q)' => Delivered(q)')
  <2>1. q # p /\ q \in Everything /\ (Wanted(q) => Delivered(q))
    BY <1>2, <1>3 DEF TaskInv
  <2> QED BY <1>4, <1>9, <2>1, DeliveredStays
<1>10. CASE /\ status' = "error" /\ UNCHANGED <<at, hashes, elaborated>>
            /\ \E w : dest' = Assign(dest, p, w)
  BY <1>4, <1>5, <1>9, <1>10 DEF TaskInv, Sorting
<1>11. ASSUME Elaborate, dest' = dest \/ \E w : dest' = Assign(dest, p, w),
              Wanted(p) => dest' = Assign(dest, p, v)
       PROVE  TaskInv(M)'
  <2>1. /\ DOMAIN elaborated' = DOMAIN elaborated \cup {p} /\ elaborated'[p] = h
        /\ \A q \in DOMAIN elaborated : elaborated'[q] = elaborated[q]
        /\ Go(hashes)
    BY <1>2, <1>3, <1>11 DEF Elaborate, Assign
  <2>2. \A j \in 1 .. at.pos :
          Solution[j] \in DOMAIN elaborated' /\ hashes[j] = elaborated'[Solution[j]]
    <3>1. ASSUME NEW j \in 1 .. at.pos
          PROVE  Solution[j] \in DOMAIN elaborated' /\ hashes[j] = elaborated'[Solution[j]]
      <4>1. CASE j = at.pos
        BY <1>3, <1>6, <2>1, <4>1
      <4>2. CASE j # at.pos
        <5>1. j \in 1 .. at.pos - 1
          BY <1>6, <4>2
        <5> QED BY <1>2, <2>1, <5>1 DEF Reached
      <4> QED BY <4>1, <4>2
    <3> QED BY <3>1
  <2>3. \A q \in DOMAIN elaborated' : BuiltAs(M, q, elaborated'[q])
    BY <1>2, <1>3, <2>1 DEF AllBuilt
  <2>4. /\ status' \in {"building", "ok"}
        /\ status' = "building" => Reached' /\ Standing(M)' /\ AllBuilt(M)'
    <3>1. DOMAIN hashes = DOMAIN Solution /\ \A j \in at.pos + 1 .. Len(Solution) : hashes[j] = NoHash
      BY <1>2 DEF Reached
    <3>2. DOMAIN elaborated \subseteq DOMAIN elaborated' /\ UNCHANGED <<fixed, local>>
      BY <1>1, <2>1
    <3> QED BY <1>1, <1>2, <2>1, <2>2, <2>3, <3>1, <3>2, GoKeeps
  <2>5. (p \in Everything)' /\ (Wanted(p)' => Delivered(p)')
    <3>1. (p \in Everything)' /\ (Wanted(p)' <=> Wanted(p))
      BY <1>4, <1>7, SameTree DEF Wanted
    <3>2. PartsOf(BuiltFrom(p))' = PartsOf(BuiltFrom(p)) /\ BuiltFrom(p)' = BuiltFrom(p)
      BY <1>4, SameParts, SameTree
    <3>3. /\ Specified(Data(h).made) = PartsOf(BuiltFrom(p)) /\ FilesFit(Data(h).made)
          /\ BuiltFrom(p) \cap cut = {} => Data(h).whole
      BY <1>2, <1>3, PackageHolds
    <3>4. Wanted(p) => p \in DOMAIN dest' /\ dest'[p].tar = Data(h) /\ dest'[p].meta = Data(h)
      BY <1>11 DEF Assign, v
    <3>5. Wanted(p) => Delivered(p)'
      <4>1. PICK d : d = Data(h)
        OBVIOUS
      <4>2. /\ Specified(d.made)' = Specified(d.made)
            /\ FilesFit(d.made)' = FilesFit(d.made)
        BY <1>4 DEF Specified, FilesFit, Rev
      <4>3. ASSUME Wanted(p) PROVE Delivered(p)'
        <5>1. p \in DOMAIN dest' /\ dest'[p].tar = d /\ dest'[p].meta = d
          BY <3>4, <4>1, <4>3
        <5>2. /\ Specified(dest[p].tar.made)' = Specified(d.made)
              /\ FilesFit(dest[p].tar.made)' = FilesFit(d.made)
          BY <4>2, <5>1 DEF Specified, FilesFit
        <5> QED BY <1>4, <3>2, <3>3, <4>1, <5>1, <5>2 DEF Delivered
      <4> QED BY <4>3
    <3> QED BY <3>1, <3>5
  <2>6. \A q \in DOMAIN elaborated' : (q \in Everything)' /\ (Wanted(q)' => Delivered(q)')
    BY <1>9, <1>11, <2>1, <2>5
  <2> QED BY <1>4, <1>5, <2>4, <2>6 DEF TaskInv, Sorting
<1>12. CASE ~Generated /\ UNCHANGED dest /\ Elaborate
  <2>1. opts.onlyTarget /\ at.pos # Len(Solution)
    BY <1>12 DEF Generated
  <2>2. p # Last(solutions[BuiltFor(p)])
    <3>1. Last(solutions[BuiltFor(p)]) = Solution[Len(Solution)]
      BY <1>7 DEF Last, Solution
    <3> QED BY <1>6, <2>1, <3>1
  <2> QED BY <1>11, <1>12, <2>1, <2>2 DEF Wanted
<1>13. CASE Generated /\ dest' = Assign(dest, p, v) /\ Elaborate
  BY <1>11, <1>13
<1> QED BY <1>8, <1>10, <1>12, <1>13 DEF v

LEMMA NewTask ==
  ASSUME BuildInv, NEW M, TaskInv(M), NewBuild
  PROVE  TaskInv(M)'
<1>1. /\ status' = "none" /\ elaborated' = <<>> /\ pc' = "idle" /\ UNCHANGED <<remote, cut>>
      /\ local' \in {local, {}}
  BY DEF NewBuild
<1>2. DOMAIN elaborated' = {}
  BY <1>1
<1>3. \A i : i \in local' \cup remote' => i \in local \cup remote
  BY <1>1
<1>4. Images(M)'
  BY <1>1, <1>3, ImagesStay DEF TaskInv, NewBuild, Grown
<1> QED BY <1>1, <1>2, <1>4 DEF TaskInv

LEMMA StillTask ==
  ASSUME NEW M, TaskInv(M), UNCHANGED managerVars
  PROVE  TaskInv(M)'
<1>1. /\ UNCHANGED <<forest, mode, solutions, edits, opts, cut, local, remote, dest, elaborated>>
      /\ UNCHANGED <<hashes, at, status, pc>>
  BY DEF managerVars, solverVars, buildVars, sortVars
<1>2. Images(M)'
  BY <1>1, ImagesStay DEF TaskInv, Grown
<1>3. \A p \in DOMAIN elaborated' : (p \in Everything)' /\ (Wanted(p)' => Delivered(p)')
  BY <1>1, DeliveredStays DEF TaskInv
<1>4. Reached' <=> Reached
  BY <1>1 DEF Reached, Solution
<1>5. ASSUME NEW p, NEW h, BuiltAs(M, p, h) PROVE BuiltAs(M, p, h)'
  <2>1. Extends(M, M)
    BY DEF Extends
  <2> QED BY <1>1, <1>5, <2>1, BuiltStays
<1>6. AllBuilt(M) => AllBuilt(M)'
  <2>1. ASSUME AllBuilt(M), NEW p \in DOMAIN elaborated' PROVE BuiltAs(M, p, elaborated[p])'
    <3>1. PICK h : h = elaborated[p]
      OBVIOUS
    <3>2. BuiltAs(M, p, h)' /\ elaborated[p]' = h
      BY <1>1, <1>5, <2>1, <3>1 DEF AllBuilt
    <3> QED BY <3>2 DEF BuiltAs
  <2> QED BY <2>1 DEF AllBuilt
<1>7. Standing(M) => Standing(M)'
  <2>1. PICK p, h : p = P /\ h = hashes[at.pos]
    OBVIOUS
  <2>2. P' = p /\ hashes[at.pos]' = h /\ Solution' = Solution /\ Requires(p)' = Requires(p)
    BY <1>1, <2>1, SameTree DEF P, Solution
  <2>3. BuiltAs(M, P, hashes[at.pos]) => BuiltAs(M, P, hashes[at.pos])'
    <3>1. BuiltAs(M, P, hashes[at.pos]) => BuiltAs(M, p, h)'
      BY <1>5, <2>1
    <3> QED BY <2>2, <3>1 DEF BuiltAs
  <2>4. Range(Requires(P))' = Range(Requires(P))
    <3>1. Requires(P)' = Requires(p)'
      BY <2>2 DEF Requires, Copies
    <3> QED BY <2>1, <2>2, <3>1
  <2> QED BY <1>1, <2>1, <2>2, <2>3, <2>4 DEF Standing, Named
<1> QED BY <1>1, <1>2, <1>3, <1>4, <1>6, <1>7 DEF TaskInv

LEMMA NextTask ==
  BuildInv /\ (\E M : TaskInv(M)) /\ [ManagerNext]_managerVars => (\E M : TaskInv(M))'
<1> SUFFICES ASSUME BuildInv, NEW M, TaskInv(M), [ManagerNext]_managerVars
             PROVE  \E M2 : TaskInv(M2)'
  OBVIOUS
<1>1. CASE Solve
  BY <1>1, SolveTask
<1>2. CASE StartBuild
  BY <1>2, StartTask
<1>3. CASE Skip
  BY <1>3, SkipTask
<1>4. CASE CreateBuildImage
  BY <1>4, BuildImageTask
<1>5. CASE CreateFinalImage
  BY <1>5, FinalImageTask
<1>6. CASE GeneratePackage
  BY <1>6, PackageTask
<1>7. CASE NewBuild
  BY <1>7, NewTask
<1>8. CASE UNCHANGED managerVars
  BY <1>8, StillTask
<1> QED BY <1>1, <1>2, <1>3, <1>4, <1>5, <1>6, <1>7, <1>8 DEF ManagerNext, Build, Finished

LEMMA DoneFresh == (\E M : TaskInv(M)) => PackagesFresh
<1> SUFFICES ASSUME NEW M, TaskInv(M), NEW p \in Written
             PROVE  /\ p \in DOMAIN dest /\ dest[p].meta = dest[p].tar
                    /\ LET made == dest[p].tar.made
                       IN /\ Specified(made) = {<<q, part, Rev(q, part)>> : q \in BuiltFrom(p),
                                                                         part \in Hashed}
                          /\ {q \in forest.pkgs : FilesIn(made, q) # {}} = BuiltFrom(p)
                          /\ \A q \in BuiltFrom(p) : FilesIn(made, q) \subseteq 0 .. Rev(q, "files")
                    /\ BuiltFrom(p) \cap cut = {} => dest[p].tar.whole
  BY DEF PackagesFresh
<1>1. p \in DOMAIN elaborated /\ Wanted(p)
  BY DEF Written, Wanted
<1>2. Delivered(p)
  BY <1>1 DEF TaskInv
<1>3. PICK made : made = dest[p].tar.made
  OBVIOUS
<1>4. Specified(made) = PartsOf(BuiltFrom(p)) /\ FilesFit(made)
  BY <1>2, <1>3 DEF Delivered
<1>5. \A q, r : r \in FilesIn(made, q) <=> \E x \in made : x[1] = q /\ x[2] = "files" /\ r = x[3]
  BY DEF FilesIn
<1>6. ASSUME NEW q, FilesIn(made, q) # {} PROVE q \in BuiltFrom(p)
  <2>1. PICK x \in made : x[1] = q /\ x[2] = "files"
    BY <1>5, <1>6
  <2>2. PICK y \in Specified(made) : y[1] = q
    BY <1>4, <2>1 DEF FilesFit
  <2> QED BY <1>4, <2>2 DEF PartsOf
<1>7. ASSUME NEW q \in BuiltFrom(p) PROVE q \in forest.pkgs /\ FilesIn(made, q) # {}
  <2>1. <<q, "prelude", Rev(q, "prelude")>> \in PartsOf(BuiltFrom(p))
    BY DEF PartsOf, Hashed
  <2>2. PICK y \in Specified(made) : y = <<q, "prelude", Rev(q, "prelude")>> /\ y[1] = q
    BY <1>4, <2>1
  <2>3. PICK x \in made : x[1] = q /\ x[2] = "files"
    BY <1>4, <2>2 DEF FilesFit
  <2>4. q \in forest.pkgs
    BY DEF BuiltFrom
  <2> QED BY <1>5, <2>3, <2>4
<1>8. ASSUME NEW q, NEW r \in FilesIn(made, q) PROVE r \in 0 .. Rev(q, "files")
  BY <1>4, <1>5, <1>8 DEF FilesFit
<1>9. {q \in forest.pkgs : FilesIn(made, q) # {}} = BuiltFrom(p)
  BY <1>6, <1>7
<1> QED BY <1>2, <1>3, <1>4, <1>8, <1>9 DEF Delivered, PartsOf

LEMMA DoneReady == BuildInv /\ (\E M : TaskInv(M)) => DependenciesReady
<1> SUFFICES ASSUME BuildInv, NEW M, TaskInv(M), Building("next"), P \notin DOMAIN elaborated,
                    Acyclic(Solution), NEW k \in DOMAIN Solution,
                    NameOf(Solution[k]) \in Range(Requires(P))
             PROVE  In(local, hashes[k])
  BY DEF DependenciesReady
<1>1. status = "building" /\ Reached /\ AllBuilt(M)
  BY DEF Building, TaskInv
<1>2. PICK s : s = Solution
  OBVIOUS
<1>3. /\ at.task \in DOMAIN solutions /\ s = solutions[at.task] /\ Good(s) /\ forest \in Forests
      /\ at.pos \in DOMAIN s /\ P = s[at.pos] /\ DOMAIN s = 1 .. Len(s) /\ Len(s) \in Nat
      /\ \A i, j \in DOMAIN s : NameOf(s[i]) = NameOf(s[j]) => i = j
  BY <1>1, <1>2, SolutionsAre DEF Reached, BuildInv, Solution, P
<1> DEFINE names == [i \in DOMAIN s |-> NameOf(s[i])]
           n == NameOf(s[k])
<1>4. n \in Range(Requires(s[at.pos])) \cap Range(names)
  BY <1>2, <1>3 DEF Range
<1>5. \A i \in DOMAIN s : \A m \in Range(Requires(s[i])) \cap Range(names) : Position(s, m) < i
  BY <1>2, <1>3, GoodIsClosed
<1> HIDE DEF names
<1>6. Position(s, n) < at.pos
  BY <1>3, <1>4, <1>5
<1>7. Position(s, n) = k
  <2>1. \A i \in DOMAIN s : NameOf(s[i]) = n <=> i = k
    BY <1>2, <1>3
  <2>2. Position(s, n) = CHOOSE i \in DOMAIN s : NameOf(s[i]) = n
    BY DEF Position
  <2> HIDE DEF n
  <2> QED BY <1>2, <2>1, <2>2
<1>8. k \in 1 .. at.pos - 1
  BY <1>2, <1>3, <1>6, <1>7
<1>9. Solution[k] \in DOMAIN elaborated /\ hashes[k] = elaborated[Solution[k]]
  BY <1>1, <1>8 DEF Reached
<1> QED BY <1>1, <1>9 DEF AllBuilt, BuiltAs

LEMMA TaskAlways == ManagerSpec => [](BuildInv /\ \E M : TaskInv(M))
<1>1. ManagerInit => BuildInv
  BY InitBuild
<1>2. BuildInv /\ [ManagerNext]_managerVars => BuildInv'
  BY NextBuildKeeps
<1>3. ManagerInit => \E M : TaskInv(M)
  BY InitTask
<1>4. BuildInv /\ (\E M : TaskInv(M)) /\ [ManagerNext]_managerVars => (\E M : TaskInv(M))'
  BY NextTask
<1> QED BY <1>1, <1>2, <1>3, <1>4, PTL DEF ManagerSpec

\* PackagesFresh, what a command of anise-build promises: whatever images the
\* earlier commands, the repository and the failures left, the packages of a
\* build that succeeded hold what the hashes cover of their specifications, as
\* it is now, and that of all that they are built from; of what the hashes do
\* not cover (docker.go:103-116, 168-196) they hold some revision.
THEOREM PackagesFreshCorrect == ManagerSpec => []PackagesFresh
<1>1. BuildInv /\ (\E M : TaskInv(M)) => PackagesFresh
  BY DoneFresh
<1> QED BY <1>1, TaskAlways, PTL

\* DependenciesReady, what a Dockerfile of anise-build relies on: the images
\* that it names were made before, and docker has them, in each solution
\* without a cycle.
THEOREM DependenciesReadyCorrect == ManagerSpec => []DependenciesReady
<1>1. BuildInv /\ (\E M : TaskInv(M)) => DependenciesReady
  BY DoneReady
<1> QED BY <1>1, TaskAlways, PTL

=================================================================================
