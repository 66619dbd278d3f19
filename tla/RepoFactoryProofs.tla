--------------------------- MODULE RepoFactoryProofs ---------------------------
(***************************************************************************)
(* What create-repo publishes, proved for any number of versions,          *)
(* processes, changes of the tree, kills and seconds: after a create-repo  *)
(* that ran alone and succeeded the repository is consistent, a tarball    *)
(* written over a tree and an index that did not change lists what is      *)
(* built and in the tree, and a client that is told it is up to date has   *)
(* what is served.                                                         *)
(***************************************************************************)
EXTENDS RepoFactory, FiniteSetTheorems, WellFoundedInduction, TLAPS

-----------------------------------------------------------------------------
(* Types.                                                                  *)

Identities == [rev : Nat, date : Nat, sum : Nat, compiler : Nat, regular : BOOLEAN]
Trees == [vers : SUBSET Versions, rev : Nat]
Entries == [ver : Versions, defined : Versions, rev : Nat]
Tarballs == [id : Nat, entries : SUBSET Entries, whole : BOOLEAN, tidy : BOOLEAN,
             had : SUBSET Versions, seen : Trees]
Stages == {"idle", "load", "package", "fill", "sum", "identity", "write"}
Processes == [pc : Stages, opts : [reset : BOOLEAN, compiler : BOOLEAN],
              vers : SUBSET Versions, todo : SUBSET Versions, entries : SUBSET Entries,
              prev : Identities, sum : Nat, compiler : Nat, mine : BOOLEAN, alone : BOOLEAN,
              tidy : BOOLEAN, had : SUBSET Versions, seen : Trees]
Lasts == {"none", "running", "error", "killed", "shared", "ok"}
Pasts == [made : Nat, last : Lasts, odd : SUBSET Nat, indexed : Modes \cup {"none"}]
Clients == [pc : {"idle", "tree"}, id : Identities, new : Identities,
            entries : SUBSET Entries, whole : BOOLEAN]
Lefts == [creates : Nat, edits : Nat, indexes : Nat, kills : Nat, ticks : Nat]

TreeTypes ==
  /\ layout \in [file : {"definition", "collection"}, separate : BOOLEAN]
  /\ tree \in Trees
  /\ meta \in [Versions -> {"none", "torn", "ok"}]
  /\ index \in [Modes -> [state : {"none", "torn", "ok"}, vers : SUBSET Versions]]
  /\ gen \in [pc : {"idle", "open", "write"}, mode : Modes, vers : SUBSET Versions]
  /\ left \in Lefts

FactoryTypes ==
  /\ tarball \in Tarballs /\ compiler \in Nat /\ identity \in Identities
  /\ creator \in [Creators -> Processes]
  /\ client \in Clients /\ clock \in Nat /\ past \in Pasts

Types == TreeTypes /\ FactoryTypes

LEMMA StartValues ==
  Idle \in Processes /\ Part \in Tarballs /\ Absent \in Identities /\ Empty \in Identities
BY DEF Idle, Part, Absent, Empty, NoTree, Processes, Tarballs, Identities, Trees, Stages

LEMMA TypesInit ==
  ASSUME RepoFactoryAssumption, Init PROVE Types
<1>1. PICK s \in Scenarios : layout = s.layout /\ left = s.left
  BY DEF Init
<1>2. layout \in [file : {"definition", "collection"}, separate : BOOLEAN] /\ left \in Lefts
  BY <1>1 DEF RepoFactoryAssumption, Lefts
<1>3. tree \in Trees
  <2> DEFINE first == CHOOSE v \in Versions : \A w \in Versions : v <= w
  <2>1. \E v \in Versions : \A w \in Versions : v <= w
    <3> DEFINE less == {s2 \in Nat \X Nat : s2[1] < s2[2]}
    <3>1. IsWellFoundedOn(less, Nat)
      BY NatLessThanWellFounded DEF OpToRel
    <3>2. Versions \subseteq Nat /\ Versions # {}
      BY DEF RepoFactoryAssumption
    <3>3. \E v \in Versions : \A w \in Versions : <<w, v>> \notin less
      <4> HIDE DEF less
      <4> QED BY <3>1, <3>2, WFMin
    <3>4. \A v, w \in Versions : <<w, v>> \notin less => v <= w
      BY <3>2
    <3> QED BY <3>3, <3>4
  <2>2. first \in Versions
    BY <2>1
  <2> QED BY <2>2 DEF Init, Trees
<1>4. TreeTypes
  BY <1>2, <1>3 DEF Init, TreeTypes, NoIndexes, NoIndex, Modes, Trees
<1>5. FactoryTypes
  BY StartValues DEF Init, FactoryTypes, Pasts, Clients, Modes, Lasts
<1> QED BY <1>4, <1>5 DEF Types

LEMMA EditTypes == ASSUME Types, Edit PROVE Types'
<1>1. TreeTypes'
  BY DEF Types, TreeTypes, Edit, Trees, Lefts
<1>2. past' \in Pasts
  BY DEF Types, FactoryTypes, Edit, Pasts
<1>3. creator' \in [Creators -> Processes]
  <2> SUFFICES ASSUME NEW c \in Creators PROVE creator'[c] \in Processes
    BY DEF Edit
  <2> DEFINE b == creator[c].tidy /\ creator[c].pc = "idle"
  <2>1. creator'[c] = [creator[c] EXCEPT !.tidy = b] /\ b \in BOOLEAN
    BY DEF Edit
  <2>2. creator[c] \in Processes
    BY DEF Types, FactoryTypes
  <2> HIDE DEF b
  <2> QED BY <2>1, <2>2 DEF Processes
<1> QED BY <1>1, <1>2, <1>3 DEF Types, FactoryTypes, Edit

LEMMA GenTypes ==
  ASSUME Types, GenRead \/ GenOpen \/ GenWrite \/ GenKilled \/ PurgeIndex PROVE Types'
BY DEF Types, TreeTypes, FactoryTypes, GenRead, GenOpen, GenWrite, GenKilled, PurgeIndex,
       factoryVars, Trees, Lefts, Pasts, Modes, TornIndex, NoIndex, Detected

LEMMA BuildTypes == ASSUME Types, NEW v \in Versions, Build(v) PROVE Types'
<1>1. meta' \in [Versions -> {"none", "torn", "ok"}]
  BY DEF Types, TreeTypes, Build
<1>2. left' \in Lefts
  BY DEF Types, TreeTypes, Build, Lefts
<1> QED BY <1>1, <1>2 DEF Types, TreeTypes, FactoryTypes, Build, factoryVars

LEMMA StartTypes ==
  ASSUME RepoFactoryAssumption, Types, NEW c \in Creators, Start(c)
  PROVE  Types'
<1>1. left' \in Lefts /\ past' \in Pasts
  <2>1. left' = [left EXCEPT !.creates = left.creates - 1] /\ left.creates > 0
        /\ past' = [past EXCEPT !.last = "running"]
    BY DEF Start
  <2>2. left \in Lefts /\ past \in Pasts
    BY DEF Types, TreeTypes, FactoryTypes
  <2>3. left' \in Lefts
    BY <2>1, <2>2 DEF Lefts
  <2> QED BY <2>1, <2>2, <2>3 DEF Pasts, Lasts
<1>2. creator' \in [Creators -> Processes]
  <2>1. PICK o \in Options :
          creator' = [d \in Creators |->
            IF d = c THEN [Idle EXCEPT !.pc = "load", !.opts = o, !.alone = Active = {}]
            ELSE [creator[d] EXCEPT !.alone = @ /\ At(d, "idle")]]
    BY DEF Start
  <2>2. o \in [reset : BOOLEAN, compiler : BOOLEAN] /\ creator \in [Creators -> Processes]
    BY DEF RepoFactoryAssumption, Types, FactoryTypes
  <2>3. ASSUME NEW b \in BOOLEAN PROVE [Idle EXCEPT !.pc = "load", !.opts = o, !.alone = b] \in Processes
    BY <2>2, StartValues DEF Processes, Stages
  <2>4. (Active = {}) \in BOOLEAN
    OBVIOUS
  <2>5. creator'[c] \in Processes
    BY <2>1, <2>3, <2>4
  <2>6. ASSUME NEW d \in Creators, d # c PROVE creator'[d] \in Processes
    <3> DEFINE b == creator[d].alone /\ At(d, "idle")
    <3>1. creator'[d] = [creator[d] EXCEPT !.alone = b] /\ b \in BOOLEAN
      BY <2>1, <2>6
    <3>2. creator[d] \in Processes
      BY <2>2
    <3> HIDE DEF b
    <3> QED BY <3>1, <3>2 DEF Processes
  <2> QED BY <2>1, <2>5, <2>6
<1> QED BY <1>1, <1>2 DEF Types, TreeTypes, FactoryTypes, Start, treeVars

LEMMA EndTypes ==
  ASSUME FactoryTypes, NEW c \in Creators, NEW how \in {"error", "killed"}, End(c, how)
  PROVE  creator' \in [Creators -> Processes] /\ past' \in Pasts
BY StartValues DEF FactoryTypes, End, Step, Pasts, Lasts

\* The new record of a process that takes a step.
LEMMA StepTypes ==
  ASSUME FactoryTypes, NEW c \in Creators, NEW r \in Processes, Step(c, r)
  PROVE  /\ creator' \in [Creators -> Processes] /\ creator'[c] = r
         /\ \A d \in Creators \ {c} : creator'[d] = creator[d]
BY DEF FactoryTypes, Step

LEMMA LoadTypes == ASSUME Types, NEW c \in Creators, Load(c) PROVE Types'
<1>1. CASE Fails(c)
  BY <1>1, EndTypes DEF Types, TreeTypes, FactoryTypes, Load, fixed, treeVars, Fails
<1>2. CASE ~Fails(c)
  <2> DEFINE r == [creator[c] EXCEPT !.pc = "package", !.vers = index[Detected].vers,
                                     !.prev = Previous, !.todo = Built, !.had = Built,
                                     !.seen = tree, !.tidy = Current]
  <2>1. Step(c, r) /\ UNCHANGED <<fixed, tarball, compiler, identity, past>>
    BY <1>2 DEF Load
  <2>2. r \in Processes
    <3>1. creator[c] \in Processes /\ tree \in Trees /\ identity \in Identities
      BY DEF Types, TreeTypes, FactoryTypes
    <3>2. Previous \in Identities /\ Current \in BOOLEAN /\ Built \in SUBSET Versions
      BY <3>1, StartValues DEF Previous, Current, Built
    <3>3. index[Detected].vers \in SUBSET Versions
      BY DEF Types, TreeTypes, Detected, Modes
    <3>4. \A q \in Processes, vs \in SUBSET Versions, i \in Identities, b \in SUBSET Versions,
             t \in Trees, y \in BOOLEAN :
            [q EXCEPT !.pc = "package", !.vers = vs, !.prev = i, !.todo = b, !.had = b,
                      !.seen = t, !.tidy = y] \in Processes
      <4> SUFFICES ASSUME NEW q \in Processes, NEW vs \in SUBSET Versions, NEW i \in Identities,
                          NEW b \in SUBSET Versions, NEW t \in Trees, NEW y \in BOOLEAN
                   PROVE  [q EXCEPT !.pc = "package", !.vers = vs, !.prev = i, !.todo = b, !.had = b,
                                    !.seen = t, !.tidy = y] \in Processes
        OBVIOUS
      <4>1. [q EXCEPT !.pc = "package", !.vers = vs, !.prev = i, !.todo = b] \in Processes
        BY DEF Processes, Stages
      <4>2. \A q2 \in Processes : [q2 EXCEPT !.had = b, !.seen = t, !.tidy = y] \in Processes
        BY DEF Processes
      <4>3. [q EXCEPT !.pc = "package", !.vers = vs, !.prev = i, !.todo = b, !.had = b,
                      !.seen = t, !.tidy = y]
            = [[q EXCEPT !.pc = "package", !.vers = vs, !.prev = i, !.todo = b]
                 EXCEPT !.had = b, !.seen = t, !.tidy = y]
        BY Zenon
      <4> QED BY <4>1, <4>2, <4>3
    <3> QED BY <3>1, <3>2, <3>3, <3>4, Zenon
  <2> HIDE DEF r
  <2>3. creator' \in [Creators -> Processes]
    BY <2>1, <2>2, StepTypes DEF Types
  <2> QED BY <2>1, <2>3 DEF Types, TreeTypes, FactoryTypes, fixed, treeVars
<1> QED BY <1>1, <1>2

LEMMA PackageTypes == ASSUME RepoFactoryAssumption, Types, NEW c \in Creators, Package(c) PROVE Types'
<1>1. CASE Fails(c)
  BY <1>1, EndTypes DEF Types, TreeTypes, FactoryTypes, Package, fixed, treeVars, Fails
<1>2. CASE ~Fails(c)
  <2>1. PICK v \in creator[c].todo :
          /\ Step(c, [[creator[c] EXCEPT !.todo = creator[c].todo \ {v}]
                        EXCEPT !.entries = creator[c].entries \cup
                          {[ver |-> v, defined |-> d, rev |-> tree.rev] :
                            d \in IF InTree(c, v) THEN DefinitionsOf(v) ELSE {}}])
          /\ UNCHANGED <<fixed, tarball, compiler, identity, past>>
    BY <1>2 DEF Package
  <2> DEFINE T == creator[c].todo \ {v}
             E == creator[c].entries \cup
                    {[ver |-> v, defined |-> d, rev |-> tree.rev] :
                      d \in IF InTree(c, v) THEN DefinitionsOf(v) ELSE {}}
             r == [[creator[c] EXCEPT !.todo = T] EXCEPT !.entries = E]
  <2>2. r \in Processes
    <3>1. creator[c] \in Processes /\ tree \in Trees
      BY DEF Types, TreeTypes, FactoryTypes
    <3>2. creator[c].todo \subseteq Versions /\ creator[c].entries \subseteq Entries
      BY <3>1 DEF Processes
    <3>3. DefinitionsOf(v) \subseteq Versions /\ tree.rev \in Nat /\ v \in Versions
      BY <3>1, <3>2 DEF DefinitionsOf, Trees
    <3>4. T \in SUBSET Versions /\ E \in SUBSET Entries
      BY <3>2, <3>3 DEF Entries
    <3>5. \A q \in Processes, t \in SUBSET Versions, e \in SUBSET Entries :
            [[q EXCEPT !.todo = t] EXCEPT !.entries = e] \in Processes
      BY DEF Processes
    <3> HIDE DEF T, E
    <3> QED BY <3>1, <3>4, <3>5, Zenon
  <2>3. Step(c, r)
    BY <2>1
  <2> HIDE DEF r
  <2>4. creator' \in [Creators -> Processes]
    BY <2>2, <2>3, StepTypes DEF Types
  <2> QED BY <2>1, <2>4 DEF Types, TreeTypes, FactoryTypes, fixed, treeVars
<1> QED BY <1>1, <1>2

\* The process that writes the tarball takes it away from the others.
LEMMA TakesTypes ==
  ASSUME FactoryTypes, NEW c \in Creators, NEW r \in Processes,
         creator' = [d \in Creators |-> IF d = c THEN r ELSE [creator[d] EXCEPT !.mine = FALSE]]
  PROVE  creator' \in [Creators -> Processes] /\ creator'[c] = r
<1>1. \A q \in Processes : [q EXCEPT !.mine = FALSE] \in Processes
  BY DEF Processes
<1> QED BY <1>1 DEF FactoryTypes

LEMMA OpenTarTypes == ASSUME Types, NEW c \in Creators, OpenTar(c) PROVE Types'
<1> DEFINE r == [creator[c] EXCEPT !.pc = "fill", !.mine = TRUE]
<1>1. r \in Processes
  BY DEF Types, FactoryTypes, Processes, Stages
<1>2. creator' = [d \in Creators |-> IF d = c THEN r ELSE [creator[d] EXCEPT !.mine = FALSE]]
  BY DEF OpenTar
<1> HIDE DEF r
<1>3. creator' \in [Creators -> Processes]
  BY <1>1, <1>2, TakesTypes DEF Types
<1>4. UNCHANGED <<fixed, compiler, identity, past>> /\ tarball' \in Tarballs
  BY StartValues DEF OpenTar
<1> QED BY <1>3, <1>4 DEF Types, TreeTypes, FactoryTypes, fixed, treeVars

LEMMA FillTarTypes == ASSUME Types, NEW c \in Creators, FillTar(c) PROVE Types'
<1> DEFINE r == [creator[c] EXCEPT !.pc = "sum"]
<1>1. r \in Processes
  BY DEF Types, FactoryTypes, Processes, Stages
<1>2. creator' = [d \in Creators |-> IF d = c THEN r ELSE [creator[d] EXCEPT !.mine = FALSE]]
  BY DEF FillTar
<1>3. past.made + 1 \in Nat /\ past' = [past EXCEPT !.made = past.made + 1] /\ past \in Pasts
  BY DEF Types, FactoryTypes, Pasts, FillTar
<1>4. tarball' \in Tarballs
  <2>1. creator[c] \in Processes
    BY DEF Types, FactoryTypes
  <2>2. [id |-> past.made + 1, entries |-> creator[c].entries, whole |-> TRUE,
         tidy |-> creator[c].tidy, had |-> creator[c].had, seen |-> creator[c].seen] \in Tarballs
    BY <1>3, <2>1 DEF Processes, Tarballs
  <2>3. [Part EXCEPT !.id = past.made + 1] \in Tarballs
    BY <1>3, StartValues DEF Tarballs
  <2> QED BY <2>2, <2>3 DEF FillTar
<1>5. past' \in Pasts
  BY <1>3 DEF Pasts
<1> HIDE DEF r
<1>6. creator' \in [Creators -> Processes]
  BY <1>1, <1>2, TakesTypes DEF Types
<1>7. UNCHANGED <<fixed, compiler, identity>>
  BY DEF FillTar
<1> QED BY <1>4, <1>5, <1>6, <1>7 DEF Types, TreeTypes, FactoryTypes, fixed, treeVars

LEMMA SumTypes == ASSUME Types, NEW c \in Creators, Sum(c) PROVE Types'
<1> DEFINE k == IF creator[c].opts.compiler THEN tree.rev ELSE 0
           r == [creator[c] EXCEPT !.pc = "identity", !.sum = tarball.id, !.compiler = k]
<1>1. tree.rev \in Nat /\ tarball.id \in Nat /\ creator[c] \in Processes /\ compiler \in Nat
  BY DEF Types, TreeTypes, FactoryTypes, Trees, Tarballs
<1>2. r \in Processes
  <2>1. \A q \in Processes, n, m \in Nat :
          [q EXCEPT !.pc = "identity", !.sum = n, !.compiler = m] \in Processes
    BY DEF Processes, Stages
  <2>2. k \in Nat
    BY <1>1
  <2> HIDE DEF k
  <2> QED BY <1>1, <2>1, <2>2, Zenon
<1>3. Step(c, r) /\ compiler' \in Nat /\ UNCHANGED <<fixed, tarball, identity, past>>
  BY <1>1 DEF Sum, CompilerTree
<1> HIDE DEF r
<1>4. creator' \in [Creators -> Processes]
  BY <1>2, <1>3, StepTypes DEF Types
<1> QED BY <1>3, <1>4 DEF Types, TreeTypes, FactoryTypes, fixed, treeVars

LEMMA OpenIdentityTypes == ASSUME Types, NEW c \in Creators, OpenIdentity(c) PROVE Types'
<1> DEFINE r == [creator[c] EXCEPT !.pc = "write"]
<1>1. r \in Processes
  BY DEF Types, FactoryTypes, Processes, Stages
<1>2. Step(c, r) /\ identity' \in Identities /\ UNCHANGED <<fixed, tarball, compiler, past>>
  BY StartValues DEF OpenIdentity
<1> HIDE DEF r
<1>3. creator' \in [Creators -> Processes]
  BY <1>1, <1>2, StepTypes DEF Types
<1> QED BY <1>2, <1>3 DEF Types, TreeTypes, FactoryTypes, fixed, treeVars

\* What the process at its last write puts into repository.yaml.
Written(c) ==
  [rev |-> Bumped(c), date |-> clock, sum |-> creator[c].sum, compiler |-> creator[c].compiler,
   regular |-> /\ creator[c].alone /\ ~creator[c].opts.reset /\ ~layout.separate
               /\ creator[c].prev = Absent \/ creator[c].prev.rev # 0]

LEMMA Writes ==
  ASSUME Types, NEW c \in Creators, WriteIdentity(c)
  PROVE  /\ At(c, "write") /\ identity' = Written(c) /\ Written(c) \in Identities
         /\ Step(c, Idle) /\ UNCHANGED <<fixed, tarball, compiler>>
         /\ past'.made = past.made /\ past'.indexed = past.indexed /\ past' \in Pasts
         /\ past'.last = IF creator[c].alone THEN "ok" ELSE "shared"
         /\ past'.odd = IF Written(c).regular THEN past.odd ELSE past.odd \cup {clock}
<1>1. creator[c] \in Processes /\ clock \in Nat /\ past \in Pasts
  BY DEF Types, FactoryTypes
<1>2. Bumped(c) \in Nat
  BY <1>1 DEF Bumped, Processes, Identities
<1>3. Written(c) \in Identities
  BY <1>1, <1>2 DEF Written, Identities, Processes
<1>4. /\ At(c, "write") /\ identity' = Written(c) /\ Step(c, Idle)
      /\ UNCHANGED <<fixed, tarball, compiler>>
      /\ past' = [past EXCEPT !.last = IF creator[c].alone THEN "ok" ELSE "shared",
                              !.odd = IF Written(c).regular THEN past.odd
                                      ELSE past.odd \cup {Written(c).date}]
  BY DEF WriteIdentity, Written
<1>5. Written(c).date = clock
  BY DEF Written
<1> DEFINE L == IF creator[c].alone THEN "ok" ELSE "shared"
           O == IF Written(c).regular THEN past.odd ELSE past.odd \cup {clock}
<1>6. past' = [past EXCEPT !.last = L, !.odd = O]
  BY <1>4, <1>5
<1>7. L \in Lasts /\ O \in SUBSET Nat
  BY <1>1 DEF Lasts, Pasts
<1>8. past' \in Pasts /\ past'.last = L /\ past'.odd = O /\ past'.made = past.made
      /\ past'.indexed = past.indexed
  <2> HIDE DEF L, O
  <2> QED BY <1>1, <1>6, <1>7 DEF Pasts
<1> QED BY <1>3, <1>4, <1>8

LEMMA WriteIdentityTypes == ASSUME Types, NEW c \in Creators, WriteIdentity(c) PROVE Types'
<1>1. creator' \in [Creators -> Processes]
  BY Writes, StartValues, StepTypes DEF Types
<1> QED BY <1>1, Writes DEF Types, TreeTypes, FactoryTypes, fixed, treeVars

LEMMA KillTypes == ASSUME Types, NEW c \in Creators, Kill(c) PROVE Types'
<1>1. creator' \in [Creators -> Processes] /\ past' \in Pasts
  BY EndTypes DEF Types, Kill
<1>2. left' \in Lefts
  BY DEF Types, TreeTypes, Kill, Lefts
<1> QED BY <1>1, <1>2 DEF Types, TreeTypes, FactoryTypes, Kill, treeVars

LEMMA TickTypes == ASSUME Types, Tick PROVE Types'
<1>1. left' \in Lefts
  BY DEF Types, TreeTypes, Tick, Lefts
<1> QED BY <1>1 DEF Types, TreeTypes, FactoryTypes, Tick, treeVars, factoryVars

LEMMA SyncTypes == ASSUME Types, SyncIdentity \/ SyncTree PROVE Types'
<1>1. client' \in Clients
  BY DEF Types, FactoryTypes, SyncIdentity, SyncTree, Clients, Tarballs
<1> QED BY <1>1 DEF Types, TreeTypes, FactoryTypes, SyncIdentity, SyncTree, treeVars, factoryVars

-----------------------------------------------------------------------------
(* The invariant.                                                          *)

\* genidx works on, or has written, the index of the tree as it is.
Indexed ==
  past.indexed # "none" =>
    IF gen.pc = "idle" THEN index[past.indexed].vers = tree.vers
    ELSE gen.mode = past.indexed /\ gen.vers = tree.vers

OneDefinition == layout.file = "definition" => \A v, w \in tree.vers : v = w

\* What a process has listed, of the packages it found, while nothing changed.
Listed(c) ==
  /\ At(c, "load") => creator[c].entries = {}
  /\ At(c, "fill") => creator[c].todo = {}
  /\ creator[c].pc \in {"package", "fill"} /\ creator[c].tidy =>
       /\ creator[c].seen = tree /\ creator[c].vers = tree.vers
       /\ creator[c].todo \subseteq creator[c].had
       /\ creator[c].entries =
            {[ver |-> v, defined |-> v, rev |-> tree.rev] :
               v \in (creator[c].had \ creator[c].todo) \cap tree.vers}

Listing == Indexed /\ OneDefinition /\ EntriesMatchTree /\ \A c \in Creators : Listed(c)

\* A process that runs alone: what it has written is in place.
Progress(c) ==
  ~At(c, "idle") /\ creator[c].alone =>
    /\ \A d \in Creators \ {c} : At(d, "idle")
    /\ At(c, "fill") => creator[c].mine
    /\ creator[c].pc \in {"sum", "identity", "write"} => tarball.whole
    /\ creator[c].pc \in {"identity", "write"} =>
         creator[c].sum = tarball.id /\ creator[c].compiler \in {0, compiler}

Publishing == PublishedConsistent /\ \A c \in Creators : Progress(c)

\* A tarball has a number of its own.
Numbered ==
  /\ tarball.id <= past.made /\ (tarball.whole => tarball.id # 0)
  /\ identity.sum <= past.made /\ client.id.sum <= past.made /\ client.new.sum <= past.made
  /\ \A c \in Creators : creator[c].sum <= past.made
  /\ client.id.sum = tarball.id /\ tarball.id # 0 =>
       client.entries = tarball.entries /\ client.whole = tarball.whole

\* No identity is of the future.
Dated ==
  /\ identity.date <= clock /\ client.id.date <= clock /\ client.new.date <= clock
  /\ \A c \in Creators : creator[c].prev.date <= clock

\* The identity i does not come before h, which was served: in a second of
\* regular revisions they tell the tarballs apart.
Follows(i, h) ==
  h.rev # 0 /\ h.date \notin past.odd =>
    /\ h.date <= i.date
    /\ h.date = i.date => h.rev < i.rev \/ (h.rev = i.rev /\ h.sum = i.sum)

FollowsClient(i) ==
  /\ i.rev # 0 => Follows(i, client.id) /\ Follows(i, client.new)
  /\ i = Absent => client.id.rev = 0 /\ client.new.rev = 0

\* A process that runs alone knows what was served before.
Knows(c) ==
  ~At(c, "idle") /\ creator[c].alone /\ ~layout.separate =>
    /\ creator[c].pc \in {"package", "fill", "sum", "identity"} => creator[c].prev = identity
    /\ At(c, "write") => FollowsClient(creator[c].prev)

Serving ==
  /\ Numbered /\ Dated /\ FollowsClient(identity)
  /\ \A c \in Creators : Knows(c) /\ (At(c, "write") /\ creator[c].alone => identity = Empty)

FactoryInv == Types /\ Listing /\ Publishing /\ Serving

-----------------------------------------------------------------------------
(* What a step of one process does to the others.                          *)

\* Only a tarball may be taken away from d.
Left(d) ==
  /\ creator'[d].pc = creator[d].pc /\ creator'[d].alone = creator[d].alone
  /\ creator'[d].vers = creator[d].vers /\ creator'[d].todo = creator[d].todo
  /\ creator'[d].entries = creator[d].entries /\ creator'[d].tidy = creator[d].tidy
  /\ creator'[d].had = creator[d].had /\ creator'[d].seen = creator[d].seen
  /\ creator'[d].prev = creator[d].prev /\ creator'[d].sum = creator[d].sum

Moves(c) == ~At(c, "idle") /\ \A d \in Creators \ {c} : Left(d)

LEMMA StepMoves ==
  ASSUME FactoryTypes, NEW c \in Creators, ~At(c, "idle"), NEW r, Step(c, r)
  PROVE  Moves(c) /\ creator'[c] = r
BY DEF FactoryTypes, Step, Moves, Left

LEMMA TakesMoves ==
  ASSUME FactoryTypes, NEW c \in Creators, ~At(c, "idle"), NEW r,
         creator' = [d \in Creators |-> IF d = c THEN r ELSE [creator[d] EXCEPT !.mine = FALSE]]
  PROVE  Moves(c) /\ creator'[c] = r
<1>1. ASSUME NEW d \in Creators \ {c} PROVE Left(d)
  <2>1. creator[d] \in Processes /\ creator'[d] = [creator[d] EXCEPT !.mine = FALSE]
    BY DEF FactoryTypes
  <2> QED BY <2>1 DEF Processes, Left
<1> QED BY <1>1 DEF Moves

\* The whole invariant after a step of c.
LEMMA Moved ==
  ASSUME FactoryInv, NEW c \in Creators, Types', Moves(c),
         UNCHANGED <<treeVars, client, clock>>, past'.indexed = past.indexed,
         Listed(c)', EntriesMatchTree', Progress(c)', PublishedConsistent',
         Numbered', Dated', FollowsClient(identity)', Knows(c)',
         (At(c, "write") /\ creator[c].alone => identity = Empty)'
  PROVE  FactoryInv'
<1>1. UNCHANGED <<layout, tree, meta, index, gen, client, clock>>
  BY DEF treeVars
<1>2. Indexed' /\ OneDefinition'
  BY <1>1 DEF FactoryInv, Listing, Indexed, OneDefinition
<1>3. ASSUME NEW d \in Creators \ {c}
      PROVE  Listed(d)' /\ Progress(d)' /\ Knows(d)'
             /\ (At(d, "write") /\ creator[d].alone => identity = Empty)'
  <2>1. Left(d) /\ ~At(c, "idle")
    BY DEF Moves
  <2>2. Listed(d)'
    BY <1>1, <2>1 DEF FactoryInv, Listing, Listed, Left, At
  <2>3. ~(~At(d, "idle") /\ creator[d].alone)
    BY <2>1 DEF FactoryInv, Publishing, Progress
  <2> QED BY <2>1, <2>2, <2>3 DEF Progress, Knows, Left, At
<1>4. ASSUME NEW d \in Creators
      PROVE  Listed(d)' /\ Progress(d)' /\ Knows(d)'
             /\ (At(d, "write") /\ creator[d].alone => identity = Empty)'
  <2>1. CASE d = c
    BY <2>1
  <2>2. CASE d # c
    BY <2>2, <1>3
  <2> QED BY <2>1, <2>2
<1> QED BY <1>2, <1>4 DEF FactoryInv, Listing, Publishing, Serving

\* While a process runs nothing counts as published.
LEMMA NotYet ==
  ASSUME NEW c \in Creators, ~At(c, "idle")' PROVE PublishedConsistent'
BY DEF PublishedConsistent, Published, Active, At

\* A step that leaves alone what is served.
LEMMA SameServed ==
  ASSUME FactoryInv, NEW c \in Creators, Types', Moves(c),
         UNCHANGED <<treeVars, client, clock, tarball, identity>>,
         past'.made = past.made, past'.odd = past.odd, past'.indexed = past.indexed,
         Listed(c)', Progress(c)', PublishedConsistent', Knows(c)',
         (At(c, "write") /\ creator[c].alone => identity = Empty)',
         creator'[c].sum \in {0, creator[c].sum, tarball.id},
         creator'[c].prev \in {Absent, creator[c].prev, identity}
  PROVE  FactoryInv'
<1>1. EntriesMatchTree' /\ FollowsClient(identity)'
  BY DEF FactoryInv, Listing, EntriesMatchTree, Serving, FollowsClient, Follows
<1>2. past \in Pasts /\ tarball \in Tarballs /\ clock \in Nat
  BY DEF FactoryInv, Types, FactoryTypes
<1>3. past.made \in Nat /\ Absent.date = 0
  BY <1>2 DEF Pasts, Absent, Empty
<1>4. Numbered'
  <2>1. \A d \in Creators : creator'[d].sum <= past.made
    <3>1. creator'[c].sum <= past.made
      BY <1>3 DEF FactoryInv, Serving, Numbered
    <3>2. ASSUME NEW d \in Creators \ {c} PROVE creator'[d].sum <= past.made
      BY DEF Moves, Left, FactoryInv, Serving, Numbered
    <3> QED BY <3>1, <3>2
  <2> QED BY <2>1 DEF FactoryInv, Serving, Numbered
<1>5. Dated'
  <2>1. \A d \in Creators : creator'[d].prev.date <= clock
    <3>1. creator'[c].prev.date <= clock
      BY <1>2, <1>3 DEF FactoryInv, Serving, Dated
    <3>2. ASSUME NEW d \in Creators \ {c} PROVE creator'[d].prev.date <= clock
      BY DEF Moves, Left, FactoryInv, Serving, Dated
    <3> QED BY <3>1, <3>2
  <2> QED BY <2>1 DEF FactoryInv, Serving, Dated
<1> QED BY <1>1, <1>4, <1>5, Moved

LEMMA EndStep ==
  ASSUME FactoryInv, NEW c \in Creators, Types', ~At(c, "idle"),
         NEW how \in {"error", "killed"}, End(c, how),
         UNCHANGED <<treeVars, client, clock, tarball, compiler, identity>>
  PROVE  FactoryInv'
<1>1. Moves(c) /\ creator'[c] = Idle
  BY StepMoves DEF FactoryInv, Types, End
<1>2. Idle.pc = "idle" /\ Idle.sum = 0 /\ Idle.prev = Absent
  BY DEF Idle
<1>3. past \in Pasts /\ past' = [past EXCEPT !.last = IF creator[c].alone THEN how ELSE "shared"]
  BY DEF FactoryInv, Types, FactoryTypes, End
<1>4. past'.made = past.made /\ past'.odd = past.odd /\ past'.indexed = past.indexed
      /\ past'.last # "ok"
  BY <1>3 DEF Pasts
<1>5. PublishedConsistent'
  BY <1>4 DEF PublishedConsistent, Published
<1>6. Listed(c)' /\ Progress(c)' /\ Knows(c)' /\ ~At(c, "write")'
  BY <1>1, <1>2 DEF Listed, Progress, Knows, At
<1> QED BY <1>1, <1>2, <1>4, <1>5, <1>6, SameServed

LEMMA LoadStep ==
  ASSUME FactoryInv, NEW c \in Creators, Load(c) PROVE FactoryInv'
<1>1. Types' /\ Types /\ At(c, "load") /\ ~At(c, "idle")
      /\ UNCHANGED <<treeVars, client, clock, left, tarball, compiler, identity>>
  BY LoadTypes DEF FactoryInv, Load, fixed, Fails, At
<1>2. CASE Fails(c)
  BY <1>1, <1>2, EndStep DEF Fails
<1>3. CASE ~Fails(c)
  <2> DEFINE r == [creator[c] EXCEPT !.pc = "package", !.vers = index[Detected].vers,
                                     !.prev = Previous, !.todo = Built, !.had = Built,
                                     !.seen = tree, !.tidy = Current]
  <2>1. Step(c, r) /\ past' = past
    BY <1>3 DEF Load
  <2>2. creator[c] \in Processes
    BY <1>1 DEF Types, FactoryTypes
  <2>3. /\ r.pc = "package" /\ r.vers = index[Detected].vers /\ r.prev = Previous
        /\ r.todo = Built /\ r.had = Built /\ r.seen = tree /\ r.tidy = Current
        /\ r.entries = creator[c].entries /\ r.sum = creator[c].sum /\ r.alone = creator[c].alone
    BY <2>2 DEF Processes
  <2> HIDE DEF r
  <2>4. Moves(c) /\ creator'[c] = r
    BY <1>1, <2>1, StepMoves DEF Types
  <2>5. UNCHANGED <<layout, tree, index, gen>>
    BY <1>1 DEF treeVars
  <2>6. Current => index[Detected].vers = tree.vers
    BY DEF FactoryInv, Listing, Indexed, Current, Detected
  <2>7. Listed(c)'
    <3>1. creator[c].entries = {}
      BY <1>1 DEF FactoryInv, Listing, Listed
    <3> QED BY <2>3, <2>4, <2>5, <2>6, <3>1 DEF Listed, At
  <2>8. Progress(c)'
    <3>1. ASSUME creator[c].alone, NEW d \in Creators \ {c} PROVE At(d, "idle")'
      <4>1. At(d, "idle")
        BY <1>1, <3>1 DEF FactoryInv, Publishing, Progress
      <4> QED BY <2>4, <4>1 DEF Moves, Left, At
    <3> QED BY <2>3, <2>4, <3>1 DEF Progress, At
  <2>9. Knows(c)'
    BY <1>1, <2>3, <2>4, <2>5 DEF Knows, Previous, At
  <2>10. PublishedConsistent'
    BY <2>3, <2>4, NotYet DEF At
  <2>11. ~At(c, "write")'
    BY <2>3, <2>4 DEF At
  <2>12. r.prev \in {Absent, identity}
    BY <2>3 DEF Previous
  <2> QED BY <1>1, <2>1, <2>3, <2>4, <2>7, <2>8, <2>9, <2>10, <2>11, <2>12, SameServed
<1> QED BY <1>2, <1>3

\* The definitions that a version in the index has, as long as the tree is the same.
LEMMA OneEach ==
  ASSUME FactoryInv, NEW v \in tree.vers
  PROVE  DefinitionsOf(v) = {v}
<1>1. CASE layout.file = "definition"
  BY <1>1 DEF FactoryInv, Listing, OneDefinition, DefinitionsOf
<1>2. CASE layout.file # "definition"
  BY <1>2 DEF DefinitionsOf, FactoryInv, Types, TreeTypes
<1> QED BY <1>1, <1>2

LEMMA PackageStep ==
  ASSUME RepoFactoryAssumption, FactoryInv, NEW c \in Creators, Package(c) PROVE FactoryInv'
<1>1. Types' /\ Types /\ At(c, "package") /\ ~At(c, "idle")
      /\ UNCHANGED <<treeVars, client, clock, left, tarball, compiler, identity>>
  BY PackageTypes DEF FactoryInv, Package, fixed, Fails, At
<1>2. CASE Fails(c)
  BY <1>1, <1>2, EndStep DEF Fails
<1>3. CASE ~Fails(c)
  <2>1. PICK v \in creator[c].todo :
          /\ Step(c, [[creator[c] EXCEPT !.todo = creator[c].todo \ {v}]
                        EXCEPT !.entries = creator[c].entries \cup
                          {[ver |-> v, defined |-> d, rev |-> tree.rev] :
                            d \in IF InTree(c, v) THEN DefinitionsOf(v) ELSE {}}])
          /\ past' = past
    BY <1>3 DEF Package
  <2> DEFINE E == creator[c].entries \cup
                    {[ver |-> v, defined |-> d, rev |-> tree.rev] :
                      d \in IF InTree(c, v) THEN DefinitionsOf(v) ELSE {}}
             T == creator[c].todo \ {v}
             r == [[creator[c] EXCEPT !.todo = T] EXCEPT !.entries = E]
  <2>2. Step(c, r)
    BY <2>1
  <2>3. creator[c] \in Processes
    BY <1>1 DEF Types, FactoryTypes
  <2>4. /\ r.pc = creator[c].pc /\ r.vers = creator[c].vers /\ r.prev = creator[c].prev
        /\ r.todo = T /\ r.had = creator[c].had /\ r.seen = creator[c].seen
        /\ r.tidy = creator[c].tidy /\ r.entries = E /\ r.sum = creator[c].sum
        /\ r.alone = creator[c].alone
    <3> HIDE DEF T, E
    <3> QED BY <2>3 DEF Processes
  <2>5. creator[c].tidy =>
          /\ creator[c].seen = tree /\ creator[c].vers = tree.vers
          /\ T \subseteq creator[c].had
          /\ E = {[ver |-> w, defined |-> w, rev |-> tree.rev] :
                    w \in (creator[c].had \ T) \cap tree.vers}
    <3> SUFFICES ASSUME creator[c].tidy
                 PROVE  /\ creator[c].seen = tree /\ creator[c].vers = tree.vers
                        /\ T \subseteq creator[c].had
                        /\ E = {[ver |-> w, defined |-> w, rev |-> tree.rev] :
                                  w \in (creator[c].had \ T) \cap tree.vers}
      OBVIOUS
    <3>1. /\ creator[c].seen = tree /\ creator[c].vers = tree.vers
          /\ creator[c].todo \subseteq creator[c].had
          /\ creator[c].entries =
               {[ver |-> w, defined |-> w, rev |-> tree.rev] :
                  w \in (creator[c].had \ creator[c].todo) \cap tree.vers}
      BY <1>1 DEF FactoryInv, Listing, Listed, At
    <3>2. CASE v \in tree.vers
      <4>1. E = creator[c].entries \cup {[ver |-> v, defined |-> v, rev |-> tree.rev]}
        BY <3>1, <3>2, OneEach DEF InTree
      <4> QED BY <3>1, <3>2, <4>1
    <3>3. CASE v \notin tree.vers
      <4>1. E = creator[c].entries
        BY <3>1, <3>3 DEF InTree
      <4> QED BY <3>1, <3>3, <4>1
    <3> QED BY <3>2, <3>3
  <2> HIDE DEF T, E, r
  <2>6. Moves(c) /\ creator'[c] = r
    BY <1>1, <2>2, StepMoves DEF Types
  <2>7. UNCHANGED <<layout, tree>>
    BY <1>1 DEF treeVars
  <2>8. Listed(c)'
    BY <1>1, <2>4, <2>5, <2>6, <2>7 DEF Listed, At
  <2>9. Progress(c)' /\ Knows(c)'
    <3>1. ASSUME creator[c].alone, NEW d \in Creators \ {c} PROVE At(d, "idle")'
      <4>1. At(d, "idle")
        BY <1>1, <3>1 DEF FactoryInv, Publishing, Progress
      <4> QED BY <2>6, <4>1 DEF Moves, Left, At
    <3> QED BY <1>1, <2>4, <2>6, <2>7, <3>1 DEF FactoryInv, Serving, Knows, Progress, At
  <2>10. PublishedConsistent'
    BY <1>1, <2>4, <2>6, NotYet DEF At
  <2>11. ~At(c, "write")'
    BY <1>1, <2>4, <2>6 DEF At
  <2> QED BY <1>1, <2>1, <2>4, <2>6, <2>8, <2>9, <2>10, <2>11, SameServed
<1> QED BY <1>2, <1>3

LEMMA SumStep ==
  ASSUME FactoryInv, NEW c \in Creators, Sum(c) PROVE FactoryInv'
<1>1. Types' /\ Types /\ At(c, "sum") /\ ~At(c, "idle")
      /\ UNCHANGED <<treeVars, client, clock, left, tarball, past, identity>>
  BY SumTypes DEF FactoryInv, Sum, fixed, At
<1> DEFINE k == IF creator[c].opts.compiler THEN tree.rev ELSE 0
           r == [creator[c] EXCEPT !.pc = "identity", !.sum = tarball.id, !.compiler = k]
<1>2. Step(c, r) /\ k \in {0, compiler'}
  BY DEF Sum, CompilerTree
<1>3. creator[c] \in Processes
  BY <1>1 DEF Types, FactoryTypes
<1>4. /\ r.pc = "identity" /\ r.prev = creator[c].prev /\ r.sum = tarball.id
      /\ r.alone = creator[c].alone /\ r.compiler \in {0, compiler'}
  <2> HIDE DEF k
  <2> QED BY <1>2, <1>3 DEF Processes
<1> HIDE DEF r
<1>5. Moves(c) /\ creator'[c] = r
  BY <1>1, <1>2, StepMoves DEF Types
<1>6. Listed(c)' /\ ~At(c, "write")' /\ ~At(c, "idle")'
  BY <1>4, <1>5 DEF Listed, At
<1>7. Progress(c)'
  <2>1. ASSUME creator[c].alone, NEW d \in Creators \ {c} PROVE At(d, "idle")'
    <3>1. At(d, "idle")
      BY <1>1, <2>1 DEF FactoryInv, Publishing, Progress
    <3> QED BY <1>5, <3>1 DEF Moves, Left, At
  <2> QED BY <1>1, <1>4, <1>5, <2>1 DEF FactoryInv, Publishing, Progress, At
<1>8. Knows(c)'
  BY <1>1, <1>4, <1>5 DEF FactoryInv, Serving, Knows, At, treeVars
<1>9. PublishedConsistent'
  BY <1>6, NotYet
<1> QED BY <1>1, <1>4, <1>5, <1>6, <1>7, <1>8, <1>9, SameServed

LEMMA OpenTarStep ==
  ASSUME FactoryInv, NEW c \in Creators, OpenTar(c) PROVE FactoryInv'
<1>1. Types' /\ Types /\ At(c, "package") /\ ~At(c, "idle") /\ creator[c].todo = {}
      /\ UNCHANGED <<treeVars, client, clock, left, compiler, past, identity>> /\ tarball' = Part
  BY OpenTarTypes DEF FactoryInv, OpenTar, fixed, At
<1> DEFINE r == [creator[c] EXCEPT !.pc = "fill", !.mine = TRUE]
<1>2. creator' = [d \in Creators |-> IF d = c THEN r ELSE [creator[d] EXCEPT !.mine = FALSE]]
  BY DEF OpenTar
<1>3. /\ r.pc = "fill" /\ r.mine /\ r.vers = creator[c].vers /\ r.prev = creator[c].prev
      /\ r.todo = {} /\ r.had = creator[c].had /\ r.seen = creator[c].seen
      /\ r.tidy = creator[c].tidy /\ r.entries = creator[c].entries /\ r.sum = creator[c].sum
      /\ r.alone = creator[c].alone
  BY <1>1 DEF Types, FactoryTypes, Processes
<1> HIDE DEF r
<1>4. Moves(c) /\ creator'[c] = r
  BY <1>1, <1>2, TakesMoves DEF Types
<1>5. UNCHANGED <<layout, tree>>
  BY <1>1 DEF treeVars
<1>6. Listed(c)'
  BY <1>1, <1>3, <1>4, <1>5 DEF FactoryInv, Listing, Listed, At
<1>7. Progress(c)' /\ Knows(c)'
  <2>1. ASSUME creator[c].alone, NEW d \in Creators \ {c} PROVE At(d, "idle")'
    <3>1. At(d, "idle")
      BY <1>1, <2>1 DEF FactoryInv, Publishing, Progress
    <3> QED BY <1>4, <3>1 DEF Moves, Left, At
  <2> QED BY <1>1, <1>3, <1>4, <1>5, <2>1 DEF FactoryInv, Serving, Progress, Knows, At
<1>8. ~At(c, "write")' /\ ~At(c, "idle")' /\ PublishedConsistent'
  BY <1>3, <1>4, NotYet DEF At
<1>9. Part.whole = FALSE /\ Part.id = 0
  BY DEF Part
<1>10. EntriesMatchTree' /\ FollowsClient(identity)'
  BY <1>1, <1>9 DEF EntriesMatchTree, FactoryInv, Serving, FollowsClient, Follows
<1>11. past.made \in Nat
  BY <1>1 DEF Types, FactoryTypes, Pasts
<1>12. \A d \in Creators : creator'[d].sum = creator[d].sum /\ creator'[d].prev = creator[d].prev
  BY <1>3, <1>4 DEF Moves, Left
<1>13. Numbered' /\ Dated'
  BY <1>1, <1>9, <1>11, <1>12 DEF FactoryInv, Serving, Numbered, Dated
<1> QED BY <1>1, <1>4, <1>6, <1>7, <1>8, <1>10, <1>13, Moved

LEMMA FillTarStep ==
  ASSUME FactoryInv, NEW c \in Creators, FillTar(c) PROVE FactoryInv'
<1>1. Types' /\ Types /\ At(c, "fill") /\ ~At(c, "idle")
      /\ UNCHANGED <<treeVars, client, clock, left, compiler, identity>>
      /\ past' = [past EXCEPT !.made = past.made + 1]
  BY FillTarTypes DEF FactoryInv, FillTar, fixed, At
<1> DEFINE r == [creator[c] EXCEPT !.pc = "sum"]
<1>2. creator' = [d \in Creators |-> IF d = c THEN r ELSE [creator[d] EXCEPT !.mine = FALSE]]
  BY DEF FillTar
<1>3. creator[c] \in Processes
  BY <1>1 DEF Types, FactoryTypes
<1>4. r.pc = "sum" /\ r.prev = creator[c].prev /\ r.sum = creator[c].sum
      /\ r.alone = creator[c].alone
  BY <1>3 DEF Processes
<1> HIDE DEF r
<1>5. Moves(c) /\ creator'[c] = r
  BY <1>1, <1>2, TakesMoves DEF Types
<1>6. UNCHANGED <<layout, tree>>
  BY <1>1 DEF treeVars
<1>7. past.made \in Nat /\ past'.made = past.made + 1 /\ past'.indexed = past.indexed
      /\ past'.odd = past.odd
  BY <1>1 DEF Types, FactoryTypes, Pasts
<1>8. \/ /\ tarball'.whole /\ tarball'.id = past.made + 1
         /\ tarball'.entries = creator[c].entries /\ tarball'.tidy = creator[c].tidy
         /\ tarball'.had = creator[c].had /\ tarball'.seen = creator[c].seen
      \/ ~creator[c].mine /\ tarball'.id = past.made + 1 /\ ~tarball'.whole
  BY DEF FillTar, Part
<1>9. EntriesMatchTree'
  <2>1. creator[c].tidy =>
          creator[c].entries = {[ver |-> v, defined |-> v, rev |-> creator[c].seen.rev] :
                                  v \in creator[c].had \cap creator[c].seen.vers}
    BY <1>1 DEF FactoryInv, Listing, Listed, At
  <2> QED BY <1>8, <2>1 DEF EntriesMatchTree
<1>10. FollowsClient(identity)'
  BY <1>1, <1>7 DEF FactoryInv, Serving, FollowsClient, Follows
<1>11. Listed(c)' /\ ~At(c, "write")' /\ ~At(c, "idle")'
  BY <1>4, <1>5 DEF Listed, At
<1>12. PublishedConsistent'
  BY <1>11, NotYet
<1>13. Progress(c)' /\ Knows(c)'
  <2>1. ASSUME creator[c].alone, NEW d \in Creators \ {c} PROVE At(d, "idle")'
    <3>1. At(d, "idle")
      BY <1>1, <2>1 DEF FactoryInv, Publishing, Progress
    <3> QED BY <1>5, <3>1 DEF Moves, Left, At
  <2>2. creator[c].alone => creator[c].mine
    BY <1>1 DEF FactoryInv, Publishing, Progress
  <2> QED BY <1>1, <1>4, <1>5, <1>6, <1>8, <2>1, <2>2 DEF FactoryInv, Serving, Progress, Knows, At
<1>14. \A d \in Creators : creator'[d].sum = creator[d].sum /\ creator'[d].prev = creator[d].prev
  BY <1>4, <1>5 DEF Moves, Left
<1>15. Dated'
  BY <1>1, <1>14 DEF FactoryInv, Serving, Dated
<1>16. Numbered'
  <2>1. \A n \in Nat : n <= past.made => n <= past.made + 1 /\ n # past.made + 1
    BY <1>7
  <2>2. /\ identity.sum \in Nat /\ client.id.sum \in Nat /\ client.new.sum \in Nat
        /\ \A d \in Creators : creator[d].sum \in Nat
    BY <1>1 DEF Types, FactoryTypes, Identities, Clients, Processes
  <2> QED BY <1>1, <1>7, <1>8, <1>14, <2>1, <2>2 DEF FactoryInv, Serving, Numbered
<1> QED BY <1>1, <1>5, <1>7, <1>9, <1>10, <1>11, <1>12, <1>13, <1>15, <1>16, Moved

LEMMA OpenIdentityStep ==
  ASSUME FactoryInv, NEW c \in Creators, OpenIdentity(c) PROVE FactoryInv'
<1>1. Types' /\ Types /\ At(c, "identity") /\ ~At(c, "idle")
      /\ UNCHANGED <<treeVars, client, clock, left, tarball, compiler, past>> /\ identity' = Empty
  BY OpenIdentityTypes DEF FactoryInv, OpenIdentity, fixed, At
<1> DEFINE r == [creator[c] EXCEPT !.pc = "write"]
<1>2. Step(c, r)
  BY DEF OpenIdentity
<1>3. r.pc = "write" /\ r.prev = creator[c].prev /\ r.sum = creator[c].sum
      /\ r.alone = creator[c].alone /\ r.compiler = creator[c].compiler
  BY <1>1 DEF Types, FactoryTypes, Processes
<1> HIDE DEF r
<1>4. Moves(c) /\ creator'[c] = r
  BY <1>1, <1>2, StepMoves DEF Types
<1>5. Empty.rev = 0 /\ Empty.sum = 0 /\ Empty.date = 0 /\ Empty # Absent
  BY DEF Empty, Absent
<1>6. Listed(c)' /\ ~At(c, "idle")' /\ PublishedConsistent'
  BY <1>3, <1>4, NotYet DEF Listed, At
<1>7. Progress(c)'
  <2>1. ASSUME creator[c].alone, NEW d \in Creators \ {c} PROVE At(d, "idle")'
    <3>1. At(d, "idle")
      BY <1>1, <2>1 DEF FactoryInv, Publishing, Progress
    <3> QED BY <1>4, <3>1 DEF Moves, Left, At
  <2> QED BY <1>1, <1>3, <1>4, <2>1 DEF FactoryInv, Publishing, Progress, At
<1>8. EntriesMatchTree' /\ FollowsClient(identity)'
  BY <1>1, <1>5 DEF FactoryInv, Listing, EntriesMatchTree, FollowsClient
<1>9. Knows(c)'
  <2>1. UNCHANGED layout
    BY <1>1 DEF treeVars
  <2>2. FollowsClient(identity)
    BY DEF FactoryInv, Serving
  <2>3. creator[c].alone /\ ~layout.separate => FollowsClient(creator[c].prev)
    BY <1>1, <2>2 DEF FactoryInv, Serving, Knows, At
  <2>4. creator[c].alone /\ ~layout.separate => FollowsClient(creator[c].prev)'
    BY <1>1, <1>3, <1>4, <2>3 DEF FollowsClient, Follows
  <2> QED BY <1>3, <1>4, <2>1, <2>4 DEF Knows, At
<1>10. past.made \in Nat /\ clock \in Nat
  BY <1>1 DEF Types, FactoryTypes, Pasts
<1>11. \A d \in Creators : creator'[d].sum = creator[d].sum /\ creator'[d].prev = creator[d].prev
  BY <1>3, <1>4 DEF Moves, Left
<1>12. Numbered' /\ Dated'
  BY <1>1, <1>5, <1>10, <1>11 DEF FactoryInv, Serving, Numbered, Dated
<1> QED BY <1>1, <1>4, <1>6, <1>7, <1>8, <1>9, <1>12, Moved

\* A regular revision follows all that a client can have.
LEMMA RegularFollows ==
  ASSUME FactoryInv, NEW c \in Creators, At(c, "write"), Written(c).regular,
         NEW h \in {client.id, client.new}, h.rev # 0, h.date \notin past.odd, h.date = clock
  PROVE  h.rev < Written(c).rev
<1>1. /\ creator[c].alone /\ ~layout.separate /\ ~creator[c].opts.reset
      /\ creator[c].prev = Absent \/ creator[c].prev.rev # 0
      /\ Written(c).rev = creator[c].prev.rev + 1
  BY DEF Written, Bumped
<1>2. FollowsClient(creator[c].prev)
  BY <1>1 DEF FactoryInv, Serving, Knows, At
<1>3. creator[c].prev # Absent
  BY <1>2 DEF FollowsClient
<1>4. Follows(creator[c].prev, h)
  BY <1>1, <1>2, <1>3 DEF FollowsClient
<1>5. creator[c].prev.date <= clock
  BY DEF FactoryInv, Serving, Dated
<1>6. creator[c].prev \in Identities /\ h \in Identities
  BY DEF FactoryInv, Types, FactoryTypes, Processes, Clients
<1>7. /\ clock \in Nat /\ h.rev \in Nat
      /\ creator[c].prev.rev \in Nat /\ creator[c].prev.date \in Nat
  BY <1>6 DEF FactoryInv, Types, FactoryTypes, Identities
<1>8. h.date <= creator[c].prev.date
      /\ (h.date = creator[c].prev.date => h.rev <= creator[c].prev.rev)
  BY <1>4, <1>7 DEF Follows
<1>9. h.date = creator[c].prev.date
  BY <1>5, <1>7, <1>8
<1> QED BY <1>1, <1>7, <1>8, <1>9

LEMMA WriteIdentityStep ==
  ASSUME FactoryInv, NEW c \in Creators, WriteIdentity(c) PROVE FactoryInv'
<1>1. /\ Types /\ Types' /\ At(c, "write") /\ ~At(c, "idle")
      /\ identity' = Written(c) /\ Written(c) \in Identities
      /\ Step(c, Idle) /\ UNCHANGED <<treeVars, client, clock, left, tarball, compiler>>
      /\ past'.made = past.made /\ past'.indexed = past.indexed
      /\ past'.last = IF creator[c].alone THEN "ok" ELSE "shared"
      /\ past'.odd = IF Written(c).regular THEN past.odd ELSE past.odd \cup {clock}
  BY Writes, WriteIdentityTypes DEF FactoryInv, fixed, At
<1>2. Moves(c) /\ creator'[c] = Idle
  BY <1>1, StepMoves DEF Types
<1>3. Idle.pc = "idle" /\ Idle.sum = 0 /\ Idle.prev = Absent /\ Absent.date = 0
  BY DEF Idle, Absent, Empty
<1>4. creator[c] \in Processes /\ past.made \in Nat /\ clock \in Nat
  BY <1>1 DEF Types, FactoryTypes, Pasts
<1>5. /\ Written(c).rev # 0 /\ Written(c).date = clock /\ Written(c).sum = creator[c].sum
      /\ Written(c).compiler = creator[c].compiler
  <2>1. Bumped(c) # 0
    BY <1>4 DEF Bumped, Processes, Identities
  <2> QED BY <2>1 DEF Written
<1>6. Listed(c)' /\ Progress(c)' /\ Knows(c)' /\ ~At(c, "write")'
  BY <1>2, <1>3 DEF Listed, Progress, Knows, At
<1>7. EntriesMatchTree'
  BY <1>1 DEF FactoryInv, Listing, EntriesMatchTree
<1>8. PublishedConsistent'
  <2> SUFFICES ASSUME past'.last = "ok"
               PROVE  /\ identity'.rev # 0 /\ tarball'.whole /\ identity'.sum = tarball'.id
                      /\ identity'.compiler \in {0, compiler'}
    BY DEF PublishedConsistent, Published
  <2>1. creator[c].alone
    BY <1>1
  <2>2. tarball.whole /\ creator[c].sum = tarball.id /\ creator[c].compiler \in {0, compiler}
    BY <1>1, <2>1 DEF FactoryInv, Publishing, Progress, At
  <2> QED BY <1>1, <1>5, <2>2
<1>9. ASSUME NEW d \in Creators
      PROVE  creator'[d].sum <= past.made /\ creator'[d].prev.date <= clock
  BY <1>2, <1>3, <1>4 DEF Moves, Left, FactoryInv, Serving, Numbered, Dated
<1>10. Numbered' /\ Dated'
  BY <1>1, <1>4, <1>5, <1>9 DEF FactoryInv, Serving, Numbered, Dated
<1>11. ASSUME NEW h \in {client.id, client.new}, h.rev # 0, h.date \notin past'.odd
       PROVE  h.date <= Written(c).date /\ (h.date = Written(c).date => h.rev < Written(c).rev)
  <2>1. h.date <= clock /\ h.date \notin past.odd
    BY <1>1, <1>11 DEF FactoryInv, Serving, Dated
  <2>2. ASSUME h.date = clock PROVE h.rev < Written(c).rev
    <3>1. Written(c).regular
      BY <1>1, <1>11, <2>2
    <3> QED BY <1>1, <1>11, <2>1, <2>2, <3>1, RegularFollows
  <2> QED BY <1>5, <2>1, <2>2
<1>12. FollowsClient(identity)'
  <2>1. identity' # Absent
    BY <1>1, <1>5 DEF Absent, Empty
  <2> QED BY <1>1, <1>11, <2>1 DEF FollowsClient, Follows
<1> QED BY <1>1, <1>2, <1>6, <1>7, <1>8, <1>10, <1>12, Moved

LEMMA KillStep ==
  ASSUME FactoryInv, NEW c \in Creators, Kill(c) PROVE FactoryInv'
BY KillTypes, EndStep DEF FactoryInv, Kill

LEMMA CreateStep ==
  ASSUME RepoFactoryAssumption, FactoryInv, NEW c \in Creators, Create(c) PROVE FactoryInv'
BY LoadStep, PackageStep, OpenTarStep, FillTarStep, SumStep, OpenIdentityStep, WriteIdentityStep
   DEF Create

\* The processes that run are no longer alone.
LEMMA StartStep ==
  ASSUME RepoFactoryAssumption, FactoryInv, NEW c \in Creators, Start(c) PROVE FactoryInv'
<1>1. Types' /\ Types /\ At(c, "idle")
      /\ UNCHANGED <<treeVars, tarball, compiler, identity, client, clock>>
      /\ past' = [past EXCEPT !.last = "running"]
  BY StartTypes DEF FactoryInv, Start
<1>2. PICK o \in Options :
        creator' = [d \in Creators |->
          IF d = c THEN [Idle EXCEPT !.pc = "load", !.opts = o, !.alone = Active = {}]
          ELSE [creator[d] EXCEPT !.alone = @ /\ At(d, "idle")]]
  BY DEF Start
<1>3. UNCHANGED <<layout, tree, index, gen>>
  BY <1>1 DEF treeVars
<1>4. past'.last = "running" /\ past'.made = past.made /\ past'.odd = past.odd
      /\ past'.indexed = past.indexed
  BY <1>1 DEF Types, FactoryTypes, Pasts
<1>5. /\ creator'[c].pc = "load" /\ creator'[c].entries = {} /\ creator'[c].sum = 0
      /\ creator'[c].prev = Absent /\ (creator'[c].alone => Active = {})
  <2> DEFINE b == Active = {}
  <2>1. creator'[c] = [Idle EXCEPT !.pc = "load", !.opts = o, !.alone = b]
    BY <1>2
  <2> HIDE DEF b
  <2>2. /\ creator'[c].pc = "load" /\ creator'[c].entries = {} /\ creator'[c].sum = 0
        /\ creator'[c].prev = Absent /\ creator'[c].alone = b
    BY <2>1 DEF Idle
  <2> QED BY <2>2 DEF b
<1>6. ASSUME NEW d \in Creators \ {c}
      PROVE  /\ creator'[d].pc = creator[d].pc /\ (creator'[d].alone => At(d, "idle"))
             /\ creator'[d].vers = creator[d].vers /\ creator'[d].todo = creator[d].todo
             /\ creator'[d].entries = creator[d].entries /\ creator'[d].tidy = creator[d].tidy
             /\ creator'[d].had = creator[d].had /\ creator'[d].seen = creator[d].seen
             /\ creator'[d].prev = creator[d].prev /\ creator'[d].sum = creator[d].sum
  <2> DEFINE b == creator[d].alone /\ At(d, "idle")
  <2>1. creator'[d] = [creator[d] EXCEPT !.alone = b]
    BY <1>2
  <2>2. creator[d] \in Processes /\ (b => At(d, "idle"))
    BY <1>1 DEF Types, FactoryTypes
  <2> HIDE DEF b
  <2> QED BY <2>1, <2>2 DEF Processes
<1>7. Indexed' /\ OneDefinition' /\ EntriesMatchTree'
  BY <1>1, <1>3, <1>4 DEF FactoryInv, Listing, Indexed, OneDefinition, EntriesMatchTree
<1>8. ASSUME NEW d \in Creators PROVE Listed(d)'
  <2>1. CASE d = c
    BY <1>5, <2>1 DEF Listed, At
  <2>2. CASE d # c
    BY <1>3, <1>6, <2>2 DEF FactoryInv, Listing, Listed, At
  <2> QED BY <2>1, <2>2
<1>9. PublishedConsistent'
  BY <1>4 DEF PublishedConsistent, Published
<1>10. ASSUME NEW d \in Creators, ~At(d, "idle")', creator'[d].alone
       PROVE  d = c /\ \A e \in Creators \ {c} : At(e, "idle")'
  <2>1. d = c
    BY <1>6, <1>10 DEF At
  <2>2. \A e \in Creators \ {c} : At(e, "idle")
    BY <1>5, <1>10, <2>1 DEF Active
  <2> QED BY <1>6, <2>1, <2>2 DEF At
<1>11. ASSUME NEW d \in Creators
       PROVE  Progress(d)' /\ Knows(d)' /\ (At(d, "write") /\ creator[d].alone => identity = Empty)'
  BY <1>5, <1>10 DEF Progress, Knows, At
<1>12. past.made \in Nat /\ clock \in Nat /\ Absent.date = 0
  BY <1>1 DEF Types, FactoryTypes, Pasts, Absent, Empty
<1>13. Numbered' /\ Dated'
  <2>1. ASSUME NEW d \in Creators
        PROVE  creator'[d].sum <= past.made /\ creator'[d].prev.date <= clock
    BY <1>5, <1>6, <1>12 DEF FactoryInv, Serving, Numbered, Dated
  <2> QED BY <1>1, <1>4, <2>1 DEF FactoryInv, Serving, Numbered, Dated
<1>14. FollowsClient(identity)'
  BY <1>1, <1>4 DEF FactoryInv, Serving, FollowsClient, Follows
<1> QED BY <1>1, <1>7, <1>8, <1>9, <1>11, <1>13, <1>14 DEF FactoryInv, Listing, Publishing, Serving

-----------------------------------------------------------------------------
(* The tree, its index, the clock and the client.                          *)

LEMMA AtMostOne ==
  ASSUME RepoFactoryAssumption, NEW S \in SUBSET Versions, Cardinality(S) <= 1
  PROVE  \A v, w \in S : v = w
<1> SUFFICES ASSUME NEW v \in S, NEW w \in S, v # w PROVE FALSE
  OBVIOUS
<1>1. IsFiniteSet(S)
  BY FS_Subset DEF RepoFactoryAssumption
<1>2. IsFiniteSet(S \ {v}) /\ Cardinality(S \ {v}) = Cardinality(S) - 1
  BY <1>1, FS_RemoveElement
<1>3. Cardinality(S) \in Nat /\ Cardinality(S \ {v}) \in Nat
  BY <1>1, <1>2, FS_CardinalityType
<1>4. Cardinality(S \ {v}) = 0
  BY <1>2, <1>3
<1>5. S \ {v} = {}
  BY <1>2, <1>4, FS_EmptySet
<1> QED BY <1>5

\* A change of the tree: what is under way is no longer tidy.
LEMMA EditStep == ASSUME RepoFactoryAssumption, FactoryInv, Edit PROVE FactoryInv'
<1>1. Types' /\ Types
      /\ UNCHANGED <<layout, meta, index, gen, tarball, compiler, identity, client, clock>>
      /\ past' = [past EXCEPT !.indexed = "none"]
  BY EditTypes DEF FactoryInv, Edit
<1>2. past'.indexed = "none" /\ past'.made = past.made /\ past'.odd = past.odd
      /\ past'.last = past.last
  BY <1>1 DEF Types, FactoryTypes, Pasts
<1>3. PICK vs \in SUBSET Versions :
        /\ layout.file = "definition" => Cardinality(vs) <= 1
        /\ tree' = [vers |-> vs, rev |-> tree.rev + 1]
  BY DEF Edit
<1>4. Indexed' /\ OneDefinition' /\ EntriesMatchTree'
  BY <1>1, <1>2, <1>3, AtMostOne
     DEF FactoryInv, Listing, Indexed, OneDefinition, EntriesMatchTree
<1>5. ASSUME NEW d \in Creators
      PROVE  /\ creator'[d].pc = creator[d].pc /\ (creator'[d].tidy => At(d, "idle"))
             /\ creator'[d].alone = creator[d].alone /\ creator'[d].mine = creator[d].mine
             /\ creator'[d].todo = creator[d].todo /\ creator'[d].entries = creator[d].entries
             /\ creator'[d].prev = creator[d].prev /\ creator'[d].sum = creator[d].sum
             /\ creator'[d].compiler = creator[d].compiler
  <2> DEFINE b == creator[d].tidy /\ creator[d].pc = "idle"
  <2>1. creator'[d] = [creator[d] EXCEPT !.tidy = b]
    BY DEF Edit
  <2>2. creator[d] \in Processes /\ (b => At(d, "idle"))
    BY <1>1 DEF Types, FactoryTypes, At
  <2> HIDE DEF b
  <2> QED BY <2>1, <2>2 DEF Processes
<1>6. ASSUME NEW d \in Creators PROVE Listed(d)'
  BY <1>5 DEF FactoryInv, Listing, Listed, At
<1>7. PublishedConsistent'
  BY <1>1, <1>2, <1>5 DEF FactoryInv, Publishing, PublishedConsistent, Published, Active, At
<1>8. ASSUME NEW d \in Creators PROVE Progress(d)'
  <2>1. Progress(d)
    BY DEF FactoryInv, Publishing
  <2> QED BY <1>1, <1>5, <2>1 DEF Progress, At
<1>9. Numbered' /\ Dated' /\ FollowsClient(identity)'
  BY <1>1, <1>2, <1>5 DEF FactoryInv, Serving, Numbered, Dated, FollowsClient, Follows
<1>10. ASSUME NEW d \in Creators
       PROVE  Knows(d)' /\ (At(d, "write") /\ creator[d].alone => identity = Empty)'
  <2>1. Knows(d) /\ (At(d, "write") /\ creator[d].alone => identity = Empty)
    BY DEF FactoryInv, Serving
  <2>2. FollowsClient(creator[d].prev)' <=> FollowsClient(creator[d].prev)
    BY <1>1, <1>2, <1>5 DEF FollowsClient, Follows
  <2> QED BY <1>1, <1>5, <2>1, <2>2 DEF Knows, At
<1> QED BY <1>1, <1>4, <1>6, <1>7, <1>8, <1>9, <1>10 DEF FactoryInv, Listing, Publishing, Serving

\* A step that is about neither the tree nor the processes.
LEMMA Around ==
  ASSUME FactoryInv, Types', UNCHANGED <<layout, tree, factoryVars>>,
         past'.made = past.made, past'.odd = past.odd, past'.last = past.last,
         Indexed', Dated', Numbered',
         \A i \in Identities : FollowsClient(i) => FollowsClient(i)'
  PROVE  FactoryInv'
<1>1. UNCHANGED <<tarball, compiler, identity, creator>>
  BY DEF factoryVars
<1>2. Listing'
  BY <1>1 DEF FactoryInv, Listing, OneDefinition, EntriesMatchTree, Listed, At
<1>3. Publishing'
  BY <1>1 DEF FactoryInv, Publishing, PublishedConsistent, Published, Active, Progress, At
<1>4. Types
  BY DEF FactoryInv
<1>5. FollowsClient(identity)'
  BY <1>1, <1>4 DEF FactoryInv, Serving, Types, FactoryTypes
<1>6. ASSUME NEW d \in Creators
      PROVE  Knows(d)' /\ (At(d, "write") /\ creator[d].alone => identity = Empty)'
  <2>1. Knows(d) /\ (At(d, "write") /\ creator[d].alone => identity = Empty)
    BY DEF FactoryInv, Serving
  <2>2. creator[d].prev \in Identities
    BY <1>4 DEF Types, FactoryTypes, Processes
  <2>3. FollowsClient(creator[d].prev) => FollowsClient(creator[d].prev)'
    BY <1>1, <2>2
  <2> QED BY <1>1, <2>1, <2>3 DEF Knows, At
<1> QED BY <1>2, <1>3, <1>5, <1>6 DEF FactoryInv, Serving

LEMMA GenStep ==
  ASSUME FactoryInv, GenRead \/ GenOpen \/ GenWrite \/ GenKilled \/ PurgeIndex
  PROVE  FactoryInv'
<1>1. Types' /\ Types /\ UNCHANGED <<layout, tree, factoryVars, client, clock>>
  BY GenTypes DEF FactoryInv, GenRead, GenOpen, GenWrite, GenKilled, PurgeIndex
<1>2. past'.made = past.made /\ past'.odd = past.odd /\ past'.last = past.last
  BY <1>1 DEF Types, FactoryTypes, Pasts, GenRead, GenOpen, GenWrite, GenKilled, PurgeIndex
<1>3. Indexed'
  <2>1. /\ index \in [Modes -> [state : {"none", "torn", "ok"}, vers : SUBSET Versions]]
        /\ gen \in [pc : {"idle", "open", "write"}, mode : Modes, vers : SUBSET Versions]
        /\ past \in Pasts /\ Indexed
    BY <1>1 DEF Types, TreeTypes, FactoryTypes, FactoryInv, Listing
  <2>2. CASE GenRead
    BY <1>1, <2>1, <2>2 DEF GenRead, Indexed, Pasts
  <2>3. CASE GenOpen
    BY <1>1, <2>1, <2>3 DEF GenOpen, Indexed, Pasts
  <2>4. CASE GenWrite
    BY <1>1, <2>1, <2>4 DEF GenWrite, Indexed, Pasts
  <2>5. CASE GenKilled
    BY <1>1, <2>1, <2>5 DEF GenKilled, Indexed, Pasts
  <2>6. CASE PurgeIndex
    BY <1>1, <2>1, <2>6 DEF PurgeIndex, Indexed, Pasts, Current
  <2> QED BY <2>2, <2>3, <2>4, <2>5, <2>6
          , GenRead \/ GenOpen \/ GenWrite \/ GenKilled \/ PurgeIndex
<1>4. UNCHANGED <<tarball, compiler, identity, creator>>
  BY <1>1 DEF factoryVars
<1>5. Dated' /\ Numbered' /\ \A i \in Identities : FollowsClient(i) => FollowsClient(i)'
  BY <1>1, <1>2, <1>4 DEF FactoryInv, Serving, Dated, Numbered, FollowsClient, Follows
<1> QED BY <1>1, <1>2, <1>3, <1>5, Around

LEMMA BuildStep == ASSUME FactoryInv, NEW v \in Versions, Build(v) PROVE FactoryInv'
<1>1. Types' /\ UNCHANGED <<layout, tree, index, gen, factoryVars, client, clock, past>>
  BY BuildTypes DEF FactoryInv, Build
<1>2. UNCHANGED <<tarball, compiler, identity, creator>>
  BY <1>1 DEF factoryVars
<1>3. Indexed' /\ Dated' /\ Numbered' /\ \A i \in Identities : FollowsClient(i) => FollowsClient(i)'
  BY <1>1, <1>2
     DEF FactoryInv, Listing, Serving, Indexed, Dated, Numbered, FollowsClient, Follows
<1> QED BY <1>1, <1>3, Around

LEMMA TickStep == ASSUME FactoryInv, Tick PROVE FactoryInv'
<1>1. Types' /\ Types /\ UNCHANGED <<layout, tree, index, gen, factoryVars, client, past>>
      /\ clock' = clock + 1
  BY TickTypes DEF FactoryInv, Tick, treeVars
<1>2. UNCHANGED <<tarball, compiler, identity, creator>>
  BY <1>1 DEF factoryVars
<1>3. Indexed' /\ Numbered' /\ \A i \in Identities : FollowsClient(i) => FollowsClient(i)'
  BY <1>1, <1>2 DEF FactoryInv, Listing, Serving, Indexed, Numbered, FollowsClient, Follows
<1>4. Dated'
  <2>1. \A n \in Nat : n <= clock => n <= clock + 1
    BY <1>1 DEF Types, FactoryTypes
  <2>2. /\ identity.date \in Nat /\ client.id.date \in Nat /\ client.new.date \in Nat
        /\ \A d \in Creators : creator[d].prev.date \in Nat
    BY <1>1 DEF Types, FactoryTypes, Identities, Clients, Processes
  <2> QED BY <1>1, <1>2, <2>1, <2>2 DEF FactoryInv, Serving, Dated
<1> QED BY <1>1, <1>3, <1>4, Around

\* The client takes the identity that is served, while no alone process is at
\* its last write, for then it is empty.
LEMMA SyncIdentityStep == ASSUME FactoryInv, SyncIdentity PROVE FactoryInv'
<1>1. Types' /\ Types /\ UNCHANGED <<layout, tree, index, gen, factoryVars, clock, past>>
  BY SyncTypes DEF FactoryInv, SyncIdentity, treeVars
<1>2. UNCHANGED <<tarball, compiler, identity, creator>>
  BY <1>1 DEF factoryVars
<1>3. CASE UNCHANGED client
  <2>1. Indexed' /\ Dated' /\ Numbered' /\ \A i \in Identities : FollowsClient(i) => FollowsClient(i)'
    BY <1>1, <1>2, <1>3
       DEF FactoryInv, Listing, Serving, Indexed, Dated, Numbered, FollowsClient, Follows
  <2> QED BY <1>1, <2>1, Around
<1>4. CASE identity.rev # 0 /\ client' = [client EXCEPT !.pc = "tree", !.new = identity]
  <2>1. /\ client'.id = client.id /\ client'.new = identity
        /\ client'.entries = client.entries /\ client'.whole = client.whole
    BY <1>1, <1>4 DEF Types, FactoryTypes, Clients
  <2>2. Listing' /\ Publishing'
    BY <1>1, <1>2 DEF FactoryInv, Listing, Indexed, OneDefinition, EntriesMatchTree, Listed,
                      Publishing, PublishedConsistent, Published, Active, Progress, At
  <2>3. Numbered' /\ Dated'
    BY <1>1, <1>2, <2>1 DEF FactoryInv, Serving, Numbered, Dated
  <2>4. FollowsClient(identity)'
    <3>1. Follows(identity, client.id) /\ identity # Absent
      BY <1>4 DEF FactoryInv, Serving, FollowsClient, Absent, Empty
    <3>2. identity.date <= identity.date
      BY <1>1 DEF Types, FactoryTypes, Identities
    <3> QED BY <1>1, <1>2, <2>1, <3>1, <3>2 DEF FollowsClient, Follows
  <2>5. ASSUME NEW d \in Creators
        PROVE  Knows(d)' /\ (At(d, "write") /\ creator[d].alone => identity = Empty)'
    <3>1. Knows(d) /\ (At(d, "write") /\ creator[d].alone => identity = Empty)
      BY DEF FactoryInv, Serving
    <3>2. Empty.rev = 0
      BY DEF Empty
    <3>3. ~(At(d, "write") /\ creator[d].alone)
      BY <1>4, <3>1, <3>2
    <3> QED BY <1>1, <1>2, <3>1, <3>3 DEF Knows, At
  <2> QED BY <1>1, <2>2, <2>3, <2>4, <2>5 DEF FactoryInv, Serving
<1> QED BY <1>3, <1>4 DEF SyncIdentity

LEMMA SyncTreeStep == ASSUME FactoryInv, SyncTree PROVE FactoryInv'
<1>1. Types' /\ Types /\ UNCHANGED <<layout, tree, index, gen, factoryVars, clock, past>>
  BY SyncTypes DEF FactoryInv, SyncTree, treeVars
<1>2. UNCHANGED <<tarball, compiler, identity, creator>>
  BY <1>1 DEF factoryVars
<1>3. \/ /\ client'.id = client.new /\ client'.new = client.new /\ client.new.sum = tarball.id
         /\ client'.entries = tarball.entries /\ client'.whole = tarball.whole
      \/ /\ client'.id = client.id /\ client'.new = client.new
         /\ client'.entries = client.entries /\ client'.whole = client.whole
  BY <1>1 DEF Types, FactoryTypes, Clients, SyncTree, Verified
<1>4. Indexed'
  BY <1>1 DEF FactoryInv, Listing, Indexed
<1>5. Dated' /\ Numbered'
  BY <1>1, <1>2, <1>3 DEF FactoryInv, Serving, Dated, Numbered
<1>6. \A i \in Identities : FollowsClient(i) => FollowsClient(i)'
  BY <1>1, <1>3 DEF FollowsClient, Follows
<1> QED BY <1>1, <1>4, <1>5, <1>6, Around

-----------------------------------------------------------------------------
(* The theorems.                                                           *)

LEMMA FactoryInit == ASSUME RepoFactoryAssumption, Init PROVE FactoryInv
<1>1. Types
  BY TypesInit
<1>2. Idle.pc = "idle" /\ Idle.sum = 0 /\ Idle.prev = Absent
  BY DEF Idle
<1>3. /\ Absent.rev = 0 /\ Absent.date = 0 /\ Absent.sum = 0
      /\ Part.id = 0 /\ Part.whole = FALSE
  BY DEF Absent, Empty, Part
<1>4. Listing
  <2>1. Indexed /\ OneDefinition
    BY DEF Init, Indexed, OneDefinition, NoIndexes, NoIndex, Modes
  <2> QED BY <1>2, <1>3, <2>1 DEF Init, Listing, EntriesMatchTree, Listed, At
<1>5. Publishing
  BY <1>2 DEF Init, Publishing, PublishedConsistent, Published, Progress, At
<1>6. Serving
  BY <1>2, <1>3 DEF Init, Serving, Numbered, Dated, FollowsClient, Knows, At
<1> QED BY <1>1, <1>4, <1>5, <1>6 DEF FactoryInv

LEMMA FactoryNext == ASSUME RepoFactoryAssumption, FactoryInv, [Next]_vars PROVE FactoryInv'
<1>1. CASE UNCHANGED vars
  <2>1. UNCHANGED <<layout, tree, meta, index, gen, factoryVars, client, clock, past, left>>
        /\ UNCHANGED <<tarball, compiler, identity, creator>>
    BY <1>1 DEF vars, treeVars, factoryVars
  <2>2. Types' /\ Indexed' /\ Dated' /\ Numbered'
        /\ \A i \in Identities : FollowsClient(i) => FollowsClient(i)'
    BY <2>1 DEF FactoryInv, Types, TreeTypes, FactoryTypes, Listing, Serving, Indexed, Dated,
                Numbered, FollowsClient, Follows
  <2> QED BY <2>1, <2>2, Around
<1>2. CASE Edit
  BY <1>2, EditStep
<1>3. CASE GenRead \/ GenOpen \/ GenWrite \/ GenKilled \/ PurgeIndex
  BY <1>3, GenStep
<1>4. CASE \E v \in Versions : Build(v)
  BY <1>4, BuildStep
<1>5. CASE \E c \in Creators : Start(c) \/ Create(c) \/ Kill(c)
  BY <1>5, StartStep, CreateStep, KillStep
<1>6. CASE Tick \/ SyncIdentity \/ SyncTree
  BY <1>6, TickStep, SyncIdentityStep, SyncTreeStep
<1> QED BY <1>1, <1>2, <1>3, <1>4, <1>5, <1>6 DEF Next

LEMMA FactoryInvariant == Spec => []FactoryInv
<1>1. Init => FactoryInv
  BY FactoryInit, RepoFactoryAssumption
<1>2. FactoryInv /\ [Next]_vars => FactoryInv'
  BY FactoryNext, RepoFactoryAssumption
<1> QED BY <1>1, <1>2, PTL DEF Spec

\* After a create-repo that ran alone and succeeded, whatever was killed before
\* between any two writes, repository.yaml has the checksums of whole tarballs.
THEOREM PublishedConsistentCorrect == Spec => []PublishedConsistent
<1>1. FactoryInv => PublishedConsistent
  BY DEF FactoryInv, Publishing
<1> QED BY <1>1, FactoryInvariant, PTL

\* The versions that are built and in the tree, each with its own definition,
\* are what a whole tarball lists, as long as tree and index stayed the same.
THEOREM EntriesMatchTreeCorrect == Spec => []EntriesMatchTree
<1>1. FactoryInv => EntriesMatchTree
  BY DEF FactoryInv, Listing
<1> QED BY <1>1, FactoryInvariant, PTL

\* A client that compares only the revision and the date of repository.yaml has
\* the tree that is served, when what is served is whole and every create-repo
\* that wrote in that second was regular: alone, without reset, with the output
\* where the packages are, over a readable repository.yaml.
THEOREM UpToDateIsCurrentCorrect == Spec => []UpToDateIsCurrent
<1>1. FactoryInv => UpToDateIsCurrent
  <2> SUFFICES ASSUME FactoryInv, ServedWhole, SameIdentity(client.id, identity), OneTreeNamed
               PROVE  /\ client.id.sum = tarball.id /\ client.whole
                      /\ client.entries = tarball.entries
    BY DEF UpToDateIsCurrent, ToldUpToDate
  <2>1. identity.rev # 0 /\ tarball.whole /\ identity.sum = tarball.id /\ tarball.id # 0
        /\ identity.date \notin past.odd
    BY DEF FactoryInv, Serving, Numbered, ServedWhole, OneTreeNamed
  <2>2. Follows(identity, client.id) /\ client.id.rev = identity.rev /\ client.id.date = identity.date
    BY <2>1 DEF FactoryInv, Serving, FollowsClient, SameIdentity
  <2>3. identity.rev \in Nat
    BY DEF FactoryInv, Types, FactoryTypes, Identities
  <2>4. client.id.sum = identity.sum
    BY <2>1, <2>2, <2>3 DEF Follows
  <2> QED BY <2>1, <2>4 DEF FactoryInv, Serving, Numbered
<1> QED BY <1>1, FactoryInvariant, PTL

================================================================================
