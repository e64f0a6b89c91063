---------------------------- MODULE Delta_proofs ----------------------------
(***************************************************************************)
(* What an incremental run leaves, whatever the repository, its builds and *)
(* the edits between two runs: every file has the module that owns it, the *)
(* configuration it reads and the routes it maps, as if everything had     *)
(* been extracted again; and the projects of a build are those its         *)
(* declarations ask for, in whatever order they are found.                 *)
(***************************************************************************)
EXTENDS Delta, FiniteSetTheorems, WellFoundedInduction, TLAPS

\* The identity of the deepest module at or above d, by the persisted
\* identities alone.
IdentityAbove(identity, d) ==
    LET roots == {e \in Within(d) : identity[e] # <<>>}
    IN  IF roots = {} THEN <<>> ELSE identity[Deepest(roots)]

\* The index holds the facts of the files it records, each with the module
\* that the recorded identities give it.
ModulesAreOfTheIndex ==
    /\ DOMAIN index.facts = Present(index.content)
    /\ \A p \in DOMAIN index.facts :
          index.facts[p].module = IdentityAbove(index.identity, p.dir)

\* Without an edit since, the index is of the repository on disk.
FreshIsOfTheTree ==
    fresh => /\ index.content = Recorded(tree)
             /\ index.identity = LayoutOf(tree).identity

ModuleInv == ModulesAreOfTheIndex /\ FreshIsOfTheTree

\* Each file has the settings of the configuration the index records.
SettingsAreOfTheIndex ==
    \A p \in DOMAIN index.facts :
        index.facts[p].settings = Settings(index.content, p)

SettingsInv == ModuleInv /\ SettingsAreOfTheIndex /\ Closed(tree)

-----------------------------------------------------------------------------
(* Directories                                                             *)

\* Of directories above one, one is inside all the others.
LEMMA DeepestIsInside ==
    ASSUME NEW d \in Dirs, NEW S, S \subseteq Within(d), S # {}
    PROVE  Deepest(S) \in S /\ S \subseteq Within(Deepest(S))
<1> DEFINE n == Len(ByDepth)
           places == {i \in 1..n : ByDepth[n + 1 - i] \in S}
           less == {pair \in Nat \X Nat : pair[1] < pair[2]}
<1>1. /\ n \in Nat /\ DOMAIN ByDepth = 1..n
      /\ Dirs = {ByDepth[i] : i \in 1..n}
      /\ \A i, j \in 1..n : ByDepth[i] \in Above[ByDepth[j]] => i < j
  BY OrderAssumption DEF ToSet
<1>2. S \subseteq Dirs
  BY TreeAssumption DEF Within
<1>3. places # {}
  <2>1. PICK e \in S : TRUE
    OBVIOUS
  <2>2. PICK i \in 1..n : ByDepth[i] = e
    BY <1>1, <1>2
  <2>3. n + 1 - i \in 1..n /\ n + 1 - (n + 1 - i) = i
    BY <1>1
  <2>4. QED BY <2>1, <2>2, <2>3
<1>4. PICK x \in places : \A y \in places : ~(<<y, x>> \in less)
  <2>1. IsWellFoundedOn(less, Nat)
    BY NatLessThanWellFounded DEF OpToRel
  <2>2. places \subseteq Nat
    BY <1>1
  <2>3. QED BY <1>3, <2>1, <2>2, WFMin
<1>5. \A y \in places : x <= y
  <2>1. ASSUME NEW y \in places, y < x PROVE FALSE
    <3>1. <<y, x>> \in less
      BY <1>1, <2>1
    <3>2. QED BY <1>4, <3>1
  <2>2. QED BY <1>1, <2>1
<1> DEFINE e == ByDepth[n + 1 - x]
<1>6. e \in S
  OBVIOUS
<1>7. ASSUME NEW f \in S PROVE f \in Within(e)
  <2>1. PICK j \in 1..n : ByDepth[j] = f
    BY <1>1, <1>2
  <2>2. n + 1 - j \in places
    <3>1. n + 1 - j \in 1..n /\ n + 1 - (n + 1 - j) = j
      BY <1>1
    <3>2. QED BY <2>1, <3>1
  <2>3. j <= n + 1 - x
    <3>1. x <= n + 1 - j
      BY <1>5, <2>2
    <3>2. QED BY <1>1, <3>1
  <2>4. e \notin Above[f]
    BY <1>1, <2>1, <2>3
  <2>5. f = e \/ f \in Above[e]
    BY <1>2, <1>6, <2>4, TreeAssumption DEF Within
  <2>6. QED BY <2>5 DEF Within
<1>8. QED BY <1>6, <1>7 DEF Deepest

\* Directories above a directory are above what is in it.
LEMMA WithinIsTransitive ==
    ASSUME NEW d \in Dirs, NEW e \in Within(d)
    PROVE  e \in Dirs /\ Within(e) \subseteq Within(d)
BY TreeAssumption DEF Within

-----------------------------------------------------------------------------
(* Modules                                                                 *)

\* A layout names its projects and nothing else.
LEMMA ProjectsAreNamed ==
    ASSUME NEW build, NEW d \in Dirs
    PROVE  d \in Layout(build).projects <=> Layout(build).identity[d] # <<>>
BY DEF Layout

\* What is indexed is recorded, and is in no excluded directory.
LEMMA IndexedFiles ==
    ASSUME NEW t, NEW p \in Inventory(t)
    PROVE  /\ p \in Paths /\ p.dir \in Dirs /\ t[p] # None
           /\ ~Inside(p.dir, LayoutOf(t).excluded)
BY PathsAssumption DEF Inventory, Present, Indexed, LayoutOf

\* What is recorded is what is indexed.
LEMMA RecordedFiles ==
    ASSUME NEW t
    PROVE  /\ Present(Recorded(t)) = Inventory(t)
           /\ \A p \in Paths : Recorded(t)[p] = IF p \in Inventory(t) THEN t[p] ELSE None
BY DEF Present, Recorded, Inventory

\* The identities of the projects alone tell the module of an indexed file.
LEMMA ModuleIsAbove ==
    ASSUME NEW t, NEW p \in Inventory(t)
    PROVE  Module(LayoutOf(t), p) = IdentityAbove(LayoutOf(t).identity, p.dir)
<1> DEFINE layout == LayoutOf(t)
           stops == Within(p.dir) \cap (layout.projects \cup layout.excluded)
           roots == {e \in Within(p.dir) : layout.identity[e] # <<>>}
<1>1. p.dir \in Dirs /\ Within(p.dir) \cap layout.excluded = {}
  BY IndexedFiles DEF Inside
<1>2. Within(p.dir) \subseteq Dirs
  BY <1>1, WithinIsTransitive
<1>3. \A e \in Dirs : e \in layout.projects <=> layout.identity[e] # <<>>
  BY ProjectsAreNamed DEF LayoutOf
<1>4. stops = roots /\ roots \subseteq layout.projects
  BY <1>1, <1>2, <1>3
<1>5. ASSUME roots # {} PROVE Deepest(roots) \in roots
  BY <1>1, <1>5, DeepestIsInside
<1>6. CASE roots = {}
  <2>1. Owner(layout, p.dir) = None
    BY <1>4, <1>6 DEF Owner
  <2>2. QED BY <1>6, <2>1 DEF Module, IdentityAbove
<1>7. CASE roots # {} /\ Deepest(roots) # None
  <2>1. Owner(layout, p.dir) = Deepest(roots)
    BY <1>4, <1>5, <1>7 DEF Owner
  <2>2. QED BY <1>7, <2>1 DEF Module, IdentityAbove
<1>8. CASE roots # {} /\ Deepest(roots) = None
  BY <1>1, <1>2, <1>5, <1>8, NoDirectoryIsNone
<1>9. QED BY <1>6, <1>7, <1>8

\* What is extracted of a file.
LEMMA Extracted ==
    ASSUME NEW t, NEW layout, NEW p
    PROVE  /\ Extract(t, layout, p).module = Module(layout, p)
           /\ Extract(t, layout, p).settings = Settings(t, p)
BY DEF Extract

\* A file that no rule about modules extracts again has the module it had.
LEMMA SameModule ==
    ASSUME NEW current, NEW before, NEW after, NEW p \in current, p.dir \in Dirs,
           p \notin OfChangedModules(current, before, after)
    PROVE  IdentityAbove(before, p.dir) = IdentityAbove(after, p.dir)
<1> DEFINE rootsOf(identity) == {e \in Within(p.dir) : identity[e] # <<>>}
<1>1. Within(p.dir) \subseteq Dirs
  BY WithinIsTransitive
<1>2. \A d \in Within(p.dir) : before[d] = after[d]
  BY <1>1 DEF OfChangedModules, Below
<1>3. rootsOf(before) = rootsOf(after)
  BY <1>2
<1>4. CASE rootsOf(before) = {}
  BY <1>3, <1>4 DEF IdentityAbove
<1>5. CASE rootsOf(before) # {}
  <2>1. Deepest(rootsOf(before)) \in rootsOf(before)
    BY <1>5, DeepestIsInside
  <2>2. before[Deepest(rootsOf(before))] = after[Deepest(rootsOf(after))]
    BY <1>2, <1>3, <2>1
  <2>3. QED BY <1>3, <1>5, <2>2 DEF IdentityAbove
<1>6. QED BY <1>4, <1>5

-----------------------------------------------------------------------------
(* The module every file has                                               *)

\* The first index.
LEMMA InitModules == Init => ModuleInv
<1> SUFFICES ASSUME Init PROVE ModuleInv
  OBVIOUS
<1>1. /\ index.content = Recorded(tree)
      /\ index.identity = LayoutOf(tree).identity
      /\ DOMAIN index.facts = Inventory(tree)
      /\ \A p \in Inventory(tree) : index.facts[p] = Extract(tree, LayoutOf(tree), p)
  BY DEF Init, FromScratch
<1>2. \A p \in Inventory(tree) :
         index.facts[p].module = IdentityAbove(index.identity, p.dir)
  BY <1>1, ModuleIsAbove, Extracted
<1>3. DOMAIN index.facts = Present(index.content)
  BY <1>1, RecordedFiles
<1>4. QED BY <1>1, <1>2, <1>3 DEF ModuleInv, ModulesAreOfTheIndex, FreshIsOfTheTree

\* What a run commits.
LEMMA Committed ==
    ASSUME NEW full \in BOOLEAN, Index(full)
    PROVE  /\ index'.content = Recorded(tree)
           /\ index'.identity = LayoutOf(tree).identity
           /\ DOMAIN index'.facts = Inventory(tree)
           /\ \A p \in Inventory(tree) :
                 index'.facts[p] = IF p \in Rescanned(tree, index, full)
                                   THEN Extract(tree, LayoutOf(tree), p)
                                   ELSE index.facts[p]
           /\ fresh' /\ tree' = tree
BY DEF Index

\* A file a run does not extract was indexed, and is not of a changed module.
LEMMA NotRescanned ==
    ASSUME NEW full \in BOOLEAN, NEW p \in Inventory(tree),
           p \notin Rescanned(tree, index, full)
    PROVE  /\ ~full /\ tree[p] = index.content[p]
           /\ p \in Present(index.content)
           /\ p \notin OfChangedModules(Inventory(tree), index.identity,
                                       LayoutOf(tree).identity)
BY IndexedFiles DEF Rescanned, Present

\* Every step keeps the invariant.
LEMMA NextModules == ModuleInv /\ [Next]_vars => ModuleInv'
<1> SUFFICES ASSUME ModuleInv, [Next]_vars PROVE ModuleInv'
  OBVIOUS
<1>1. CASE UNCHANGED vars
  BY <1>1 DEF ModuleInv, ModulesAreOfTheIndex, FreshIsOfTheTree, vars
<1>2. ASSUME NEW p \in Paths, NEW content, Edit(p, content) PROVE ModuleInv'
  BY <1>2 DEF Edit, ModuleInv, ModulesAreOfTheIndex, FreshIsOfTheTree
<1>3. ASSUME NEW full \in BOOLEAN, Index(full) PROVE ModuleInv'
  <2>1. ASSUME NEW p \in Inventory(tree)
        PROVE  index'.facts[p].module = IdentityAbove(index'.identity, p.dir)
    <3>1. CASE p \in Rescanned(tree, index, full)
      BY <1>3, <3>1, Committed, ModuleIsAbove, Extracted
    <3>2. CASE p \notin Rescanned(tree, index, full)
      <4>1. /\ p \in Present(index.content) /\ p.dir \in Dirs
            /\ p \notin OfChangedModules(Inventory(tree), index.identity,
                                        LayoutOf(tree).identity)
        BY <3>2, NotRescanned, IndexedFiles
      <4>2. index'.facts[p].module = IdentityAbove(index.identity, p.dir)
        BY <1>3, <3>2, <4>1, Committed DEF ModuleInv, ModulesAreOfTheIndex
      <4>3. IdentityAbove(index.identity, p.dir)
              = IdentityAbove(LayoutOf(tree).identity, p.dir)
        BY <4>1, SameModule
      <4>4. QED BY <1>3, <4>2, <4>3, Committed
    <3>3. QED BY <3>1, <3>2
  <2>2. DOMAIN index'.facts = Present(index'.content)
    BY <1>3, Committed, RecordedFiles
  <2>3. FreshIsOfTheTree'
    BY <1>3, Committed DEF FreshIsOfTheTree
  <2>4. DOMAIN index'.facts = Inventory(tree)
    BY <1>3, Committed
  <2>5. QED BY <2>1, <2>2, <2>3, <2>4 DEF ModuleInv, ModulesAreOfTheIndex
<1>4. QED BY <1>1, <1>2, <1>3 DEF Next

\* A fresh index names the module that owns each file.
LEMMA ModuleInvSuffices == ModuleInv => ModulesAreCurrent
<1> SUFFICES ASSUME ModuleInv, fresh, NEW p \in DOMAIN index.facts
             PROVE  index.facts[p].module = Module(LayoutOf(tree), p)
  BY DEF ModulesAreCurrent
<1>1. p \in Inventory(tree) /\ index.identity = LayoutOf(tree).identity
  BY RecordedFiles DEF ModuleInv, ModulesAreOfTheIndex, FreshIsOfTheTree
<1>2. QED BY <1>1, ModuleIsAbove DEF ModuleInv, ModulesAreOfTheIndex

\* After every run each file has the module that owns it now, however few
\* files the run extracted and whatever was edited before it.
THEOREM ModulesStayCurrent == Spec => []ModulesAreCurrent
<1>1. QED BY InitModules, NextModules, ModuleInvSuffices, PTL DEF Spec

-----------------------------------------------------------------------------
(* The configuration every file reads                                      *)

\* With nothing read from outside the index, what is recorded tells the
\* settings of an indexed file.
LEMMA SettingsAreRecorded ==
    ASSUME NEW t, Closed(t), NEW p \in Inventory(t)
    PROVE  Settings(t, p) = Settings(Recorded(t), p)
<1>1. Configuration(t, p) \subseteq Inventory(t)
  BY DEF Closed, Inputs
<1>2. Configuration(Recorded(t), p) = Configuration(t, p)
  <2>1. Inventory(t) \subseteq Present(t)
    BY DEF Inventory
  <2>2. QED BY <1>1, <2>1, RecordedFiles DEF Configuration
<1>3. \A q \in Configuration(t, p) : Recorded(t)[q] = t[q]
  BY <1>1, IndexedFiles, RecordedFiles
<1>4. QED BY <1>2, <1>3 DEF Settings

\* A file whose configuration was touched is a dependent of it.
LEMMA ReadersAreDependents ==
    ASSUME NEW current, NEW touched, touched \subseteq Paths, NEW layout,
           NEW p \in current, p \in Paths, NEW q \in touched,
           \/ q.kind = "cloud"
           \/ q.kind = "config" /\ q.dir \in Within(p.dir)
    PROVE  p \in Dependents(current, touched, layout)
<1> DEFINE invalidated == {x \in touched : x.kind # "java"}
           Owners(x) == Within(x.dir) \cap layout.projects
           affected == {Deepest(Owners(x)) : x \in {y \in invalidated : Owners(y) # {}}}
<1>1. /\ q \in invalidated /\ p.dir \in Dirs /\ q.dir \in Dirs
  BY PathsAssumption
<1>2. CASE (\E x \in invalidated : x.kind = "cloud" \/ Owners(x) = {}) \/ Root \in affected
  BY <1>2 DEF Dependents
<1>3. CASE ~(\E x \in invalidated : x.kind = "cloud" \/ Owners(x) = {}) /\ Root \notin affected
  <2>1. q.dir \in Within(p.dir) /\ Owners(q) # {}
    BY <1>1, <1>3
  <2>2. Deepest(Owners(q)) \in Within(q.dir)
    BY <1>1, <2>1, DeepestIsInside
  <2>3. Within(q.dir) \subseteq Within(p.dir)
    BY <1>1, <2>1, WithinIsTransitive
  <2>4. Deepest(Owners(q)) \in affected
    BY <1>1, <2>1
  <2>5. Below(Deepest(Owners(q)), p)
    BY <2>2, <2>3 DEF Below
  <2>6. QED BY <1>3, <2>4, <2>5 DEF Dependents
<1>4. QED BY <1>2, <1>3

\* A file a run does not extract reads what it read before.
LEMMA SameSettings ==
    ASSUME NEW full \in BOOLEAN, DOMAIN index.facts = Present(index.content),
           NEW p \in Inventory(tree), p \notin Rescanned(tree, index, full)
    PROVE  Settings(index.content, p) = Settings(Recorded(tree), p)
<1> DEFINE current == Inventory(tree)
           deleted == {q \in DOMAIN index.facts : q \notin current}
           changed == {q \in current : full \/ tree[q] # index.content[q]}
<1>1. p \notin Dependents(current, changed \cup deleted, LayoutOf(tree))
  BY DEF Rescanned
<1>2. current \subseteq Paths /\ changed \cup deleted \subseteq Paths
  BY IndexedFiles DEF Present
<1>3. ASSUME NEW q \in Paths,
             q.kind = "cloud" \/ (q.kind = "config" /\ q.dir \in Within(p.dir))
      PROVE  index.content[q] = Recorded(tree)[q]
  <2>1. q \notin changed \cup deleted
    BY <1>1, <1>2, <1>3, ReadersAreDependents
  <2>2. CASE q \in current
    BY <2>1, <2>2, RecordedFiles
  <2>3. CASE q \notin current
    BY <1>3, <2>1, <2>3, RecordedFiles DEF Present
  <2>4. QED BY <2>2, <2>3
<1>4. Configuration(index.content, p) = Configuration(Recorded(tree), p)
  BY <1>3 DEF Configuration, Present
<1>5. \A q \in Configuration(Recorded(tree), p) : index.content[q] = Recorded(tree)[q]
  BY <1>3 DEF Configuration, Present
<1>6. QED BY <1>4, <1>5 DEF Settings

\* The first index.
LEMMA InitSettings ==
    ASSUME ~OutsideInputs
    PROVE  Init => SettingsInv
<1> SUFFICES ASSUME Init PROVE SettingsInv
  OBVIOUS
<1>1. /\ index.content = Recorded(tree) /\ Closed(tree)
      /\ DOMAIN index.facts = Inventory(tree)
      /\ \A p \in Inventory(tree) : index.facts[p] = Extract(tree, LayoutOf(tree), p)
  BY DEF Init, FromScratch
<1>2. QED BY <1>1, InitModules, Extracted, SettingsAreRecorded
             DEF SettingsInv, SettingsAreOfTheIndex

\* Every step keeps the invariant.
LEMMA NextSettings ==
    ASSUME ~OutsideInputs
    PROVE  SettingsInv /\ [Next]_vars => SettingsInv'
<1> SUFFICES ASSUME SettingsInv, [Next]_vars PROVE SettingsInv'
  OBVIOUS
<1>1. ModuleInv'
  BY NextModules DEF SettingsInv
<1>2. CASE UNCHANGED vars
  BY <1>1, <1>2 DEF SettingsInv, SettingsAreOfTheIndex, Closed, vars
<1>3. ASSUME NEW p \in Paths, NEW content, Edit(p, content) PROVE SettingsInv'
  BY <1>1, <1>3 DEF SettingsInv, SettingsAreOfTheIndex, Edit
<1>4. ASSUME NEW full \in BOOLEAN, Index(full) PROVE SettingsInv'
  <2>1. /\ DOMAIN index.facts = Present(index.content) /\ Closed(tree)
        /\ SettingsAreOfTheIndex
    BY DEF SettingsInv, ModuleInv, ModulesAreOfTheIndex
  <2>2. ASSUME NEW p \in Inventory(tree)
        PROVE  index'.facts[p].settings = Settings(Recorded(tree), p)
    <3>1. CASE p \in Rescanned(tree, index, full)
      BY <1>4, <2>1, <3>1, Committed, Extracted, SettingsAreRecorded
    <3>2. CASE p \notin Rescanned(tree, index, full)
      <4>1. p \in Present(index.content)
        BY <3>2, NotRescanned
      <4>2. index'.facts[p].settings = Settings(index.content, p)
        BY <1>4, <2>1, <3>2, <4>1, Committed DEF SettingsAreOfTheIndex
      <4>3. QED BY <2>1, <3>2, <4>2, SameSettings
    <3>3. QED BY <3>1, <3>2
  <2>3. SettingsAreOfTheIndex'
    BY <1>4, <2>2, Committed DEF SettingsAreOfTheIndex
  <2>4. Closed(tree)'
    BY <1>4, <2>1, Committed
  <2>5. QED BY <1>1, <2>3, <2>4 DEF SettingsInv
<1>5. QED BY <1>2, <1>3, <1>4 DEF Next

\* A fresh index has read what each file reads.
LEMMA SettingsInvSuffices == SettingsInv => SettingsAreCurrent
<1> SUFFICES ASSUME SettingsInv, fresh, NEW p \in DOMAIN index.facts
             PROVE  index.facts[p].settings = Settings(tree, p)
  BY DEF SettingsAreCurrent
<1>1. /\ p \in Inventory(tree) /\ index.content = Recorded(tree) /\ Closed(tree)
  BY RecordedFiles DEF SettingsInv, ModuleInv, ModulesAreOfTheIndex, FreshIsOfTheTree
<1>2. QED BY <1>1, SettingsAreRecorded DEF SettingsInv, SettingsAreOfTheIndex

\* When every configuration file read is itself indexed, after every run each
\* file has been extracted with the configuration it reads now.
THEOREM SettingsStayCurrent ==
    ASSUME ~OutsideInputs
    PROVE  Spec => []SettingsAreCurrent
<1>1. QED BY InitSettings, NextSettings, SettingsInvSuffices, PTL DEF Spec

-----------------------------------------------------------------------------
(* Numbers and iterated steps                                              *)

\* A set of naturals has a least element.
LEMMA LeastNumber ==
    ASSUME NEW S \in SUBSET Nat, S # {}
    PROVE  \E n \in S : \A m \in S : n <= m
<1> DEFINE less == {ss \in Nat \X Nat : ss[1] < ss[2]}
<1>1. IsWellFoundedOn(less, Nat)
  BY NatLessThanWellFounded DEF OpToRel
<1>2. PICK n \in S : \A m \in S : ~(<<m, n>> \in less)
  BY <1>1, WFMin
<1>3. ASSUME NEW m \in S, m < n PROVE FALSE
  <2>1. <<m, n>> \in less
    BY <1>3
  <2>2. QED BY <1>2, <2>1
<1>4. QED BY <1>3

\* What holds at 0 and is kept by each step up to N holds up to N.
LEMMA StepByStep ==
    ASSUME NEW N \in Nat, NEW S, 0 \in S, \A n \in 1..N : n - 1 \in S => n \in S
    PROVE  0..N \subseteq S
<1> DEFINE Bad == {n \in 0..N : n \notin S}
<1>1. ASSUME NEW n \in Bad, \A m \in Bad : n <= m PROVE FALSE
  <2>1. n # 0 /\ n \in 1..N /\ n - 1 \in 0..N /\ ~(n <= n - 1)
    OBVIOUS
  <2>2. n - 1 \notin Bad
    BY <1>1, <2>1
  <2>3. QED BY <2>1, <2>2
<1>2. Bad \in SUBSET Nat
  OBVIOUS
<1> HIDE DEF Bad
<1>3. Bad = {}
  BY <1>1, <1>2, LeastNumber
<1>4. QED BY <1>3 DEF Bad

\* Numbered steps from a start, up to a bound, make a function.
Iterated(D, start, step, N) ==
    \E g \in [0..N -> D] : g[0] = start /\ \A n \in 1..N : g[n] = step[<<n, g[n - 1]>>]

LEMMA Iterates ==
    ASSUME NEW D, NEW start \in D, NEW N \in Nat, NEW step \in [(1..N) \X D -> D]
    PROVE  Iterated(D, start, step, N)
<1> DEFINE Iter(K, g) == g[0] = start /\ \A n \in 1..K : g[n] = step[<<n, g[n - 1]>>]
           S == {K \in 0..N : \E g \in [0..K -> D] : Iter(K, g)}
<1>1. 0 \in S
  <2>1. [n \in 0..0 |-> start] \in [0..0 -> D] /\ Iter(0, [n \in 0..0 |-> start])
    OBVIOUS
  <2>2. 0 \in 0..N
    OBVIOUS
  <2>3. QED BY <2>1, <2>2
<1>2. ASSUME NEW K \in 1..N, K - 1 \in S PROVE K \in S
  <2>1. K - 1 \in 0..N /\ K \in 0..N /\ K \in Nat /\ K - 1 \in Nat
    OBVIOUS
  <2>2. PICK f \in [0..(K - 1) -> D] : Iter(K - 1, f)
    BY <1>2, <2>1
  <2> DEFINE g == [n \in 0..K |-> IF n = K THEN step[<<K, f[K - 1]>>] ELSE f[n]]
  <2>3. \A n \in 0..K : n = K \/ n \in 0..(K - 1)
    BY <2>1
  <2>4. f[K - 1] \in D /\ step[<<K, f[K - 1]>>] \in D
    <3>1. K - 1 \in 0..(K - 1)
      BY <2>1
    <3>2. <<K, f[K - 1]>> \in (1..N) \X D
      BY <2>2, <3>1
    <3>3. QED BY <2>2, <3>1, <3>2
  <2>5. g \in [0..K -> D]
    BY <2>2, <2>3, <2>4
  <2>6. ASSUME NEW n \in 1..K PROVE g[n] = step[<<n, g[n - 1]>>]
    <3>1. n \in 0..K /\ n - 1 \in 0..K /\ n - 1 # K /\ (n # K => n \in 1..(K - 1))
      BY <2>1
    <3>2. QED BY <2>2, <3>1
  <2>7. g[0] = start
    BY <2>1, <2>2
  <2>8. \E h \in [0..K -> D] : Iter(K, h)
    <3> HIDE DEF g
    <3>1. QED BY <2>5, <2>6, <2>7
  <2>9. QED BY <2>1, <2>8
<1>3. N \in S
  <2>1. N \in 0..N
    OBVIOUS
  <2> HIDE DEF S
  <2>2. QED BY <1>1, <1>2, <2>1, StepByStep
<1>4. QED BY <1>3 DEF Iterated

-----------------------------------------------------------------------------
(* The projects of a build                                                 *)

States == [kept : SUBSET Dirs, declared : SUBSET Dirs, governors : SUBSET Dirs]

\* What has been found follows from the directories that are kept.
Consistent(build, found) ==
    /\ found \in States /\ found.kept \subseteq HasPom(build)
    /\ found.declared = UNION {build[e].modules \cap HasPom(build) : e \in found.kept}
    /\ found.governors = {e \in found.kept : Complete(build, e)}

\* A kept directory is declared, or nothing above it governs it, and nothing
\* will: the descriptors above it were kept before.
Justified(build, found) ==
    \A d \in found.kept :
        \/ d \in found.declared
        \/ /\ ~Governed(d, found.governors)
           /\ Above[d] \cap HasPom(build) \subseteq found.kept

\* The first n directories of a pass: kept, or governed.
Seen(build, found, n) ==
    \A i \in 1..n : ByDepth[i] \in HasPom(build) =>
        ByDepth[i] \in found.kept \/ Governed(ByDepth[i], found.governors)

VisitInv(build, found, n) ==
    Consistent(build, found) /\ Justified(build, found) /\ Seen(build, found, n)

\* A pass would change nothing.
Stable(build, found) ==
    \A d \in HasPom(build) \ found.kept :
        Governed(d, found.governors) /\ d \notin found.declared

LEMMA Places ==
    /\ Len(ByDepth) \in Nat
    /\ \A i \in 1..Len(ByDepth) : ByDepth[i] \in Dirs
    /\ \A d \in Dirs : \E i \in 1..Len(ByDepth) : ByDepth[i] = d
    /\ \A i, j \in 1..Len(ByDepth) : ByDepth[i] \in Above[ByDepth[j]] => i < j
BY OrderAssumption DEF ToSet

LEMMA VisitTyped ==
    ASSUME NEW build, NEW found \in States, NEW d \in Dirs
    PROVE  Visit(build, found, d) \in States
<1>1. build[d].modules \cap HasPom(build) \in SUBSET Dirs
  BY DEF HasPom
<1>2. CASE Visit(build, found, d) = found
  BY <1>2
<1>3. CASE Visit(build, found, d) # found
  <2>1. Visit(build, found, d)
          = [kept |-> found.kept \cup {d},
             declared |-> found.declared \cup (build[d].modules \cap HasPom(build)),
             governors |-> found.governors \cup IF Complete(build, d) THEN {d} ELSE {}]
    BY <1>3 DEF Visit
  <2>2. QED BY <1>1, <2>1 DEF States
<1>4. QED BY <1>2, <1>3

\* The visits of one pass.
LEMMA VisitsAre ==
    ASSUME NEW build, NEW found \in States
    PROVE  /\ Visits(build, found) \in [0..Len(ByDepth) -> States]
           /\ Visits(build, found)[0] = found
           /\ \A n \in 1..Len(ByDepth) :
                 Visits(build, found)[n]
                   = Visit(build, Visits(build, found)[n - 1], ByDepth[n])
<1> DEFINE N == Len(ByDepth)
           step == [x \in (1..N) \X States |-> Visit(build, x[2], ByDepth[x[1]])]
           Is(g) == g = [n \in 0..N |-> IF n = 0 THEN found
                                        ELSE Visit(build, g[n - 1], ByDepth[n])]
<1>1. N \in Nat /\ \A n \in 1..N : n - 1 \in 0..N /\ n \in 0..N /\ n # 0
  BY Places
<1>2. step \in [(1..N) \X States -> States]
  <2>1. ASSUME NEW x \in (1..N) \X States
        PROVE  Visit(build, x[2], ByDepth[x[1]]) \in States
    BY Places, VisitTyped
  <2>2. QED BY <2>1
<1>3. PICK g \in [0..N -> States] :
         g[0] = found /\ \A n \in 1..N : g[n] = step[<<n, g[n - 1]>>]
  <2> HIDE DEF step
  <2>1. Iterated(States, found, step, N)
    BY <1>1, <1>2, Iterates
  <2>2. QED BY <2>1 DEF Iterated
<1>4. \A n \in 1..N : g[n] = Visit(build, g[n - 1], ByDepth[n])
  <2>1. ASSUME NEW n \in 1..N PROVE g[n] = Visit(build, g[n - 1], ByDepth[n])
    <3>1. <<n, g[n - 1]>> \in (1..N) \X States
      BY <1>1, <1>3
    <3>2. QED BY <1>3, <3>1
  <2>2. QED BY <2>1
<1>5. Is(g)
  <2>1. \A n \in 0..N : n # 0 => n \in 1..N
    BY <1>1
  <2>2. QED BY <1>3, <1>4, <2>1
<1>6. Is(Visits(build, found))
  BY <1>5, Zenon DEF Visits
<1> DEFINE v == Visits(build, found)
<1>7. /\ DOMAIN v = 0..N /\ v[0] = found
      /\ \A n \in 1..N : v[n] = Visit(build, v[n - 1], ByDepth[n])
  <2> HIDE DEF v
  <2>1. Is(v)
    BY <1>6 DEF v
  <2>2. 0 \in 0..N
    BY <1>1
  <2>3. QED BY <1>1, <2>1, <2>2
<1>8. \A n \in 0..N : v[n] \in States
  <2> DEFINE S == {n \in 0..N : v[n] \in States}
  <2> HIDE DEF v
  <2>1. 0 \in S
    BY <1>1, <1>7
  <2>2. ASSUME NEW n \in 1..N, n - 1 \in S PROVE n \in S
    <3>1. v[n - 1] \in States /\ n \in 0..N /\ ByDepth[n] \in Dirs
      BY <1>1, <2>2, Places
    <3>2. v[n] \in States
      BY <1>7, <3>1, VisitTyped
    <3>3. QED BY <3>1, <3>2
  <2>3. 0..N \subseteq S
    <3> HIDE DEF S
    <3>1. QED BY <1>1, <2>1, <2>2, StepByStep
  <2>4. QED BY <2>3
<1>9. v \in [0..N -> States]
  <2>1. v = [n \in 0..N |-> v[n]]
    <3> HIDE DEF v
    <3>1. Is(v)
      BY <1>6 DEF v
    <3>2. v = [n \in 0..N |-> IF n = 0 THEN found ELSE Visit(build, v[n - 1], ByDepth[n])]
      BY <3>1
    <3>3. QED BY <3>2
  <2> HIDE DEF v
  <2>2. QED BY <1>8, <2>1
<1>10. QED BY <1>7, <1>9

\* What a visit does.
LEMMA VisitKeeps ==
    ASSUME NEW build, NEW found \in States, NEW d \in Dirs
    PROVE  \/ Visit(build, found, d) = found
           \/ /\ d \in HasPom(build) /\ d \notin found.kept
              /\ Governed(d, found.governors) => d \in found.declared
              /\ Visit(build, found, d).kept = found.kept \cup {d}
              /\ Visit(build, found, d).declared
                   = found.declared \cup (build[d].modules \cap HasPom(build))
              /\ Visit(build, found, d).governors
                   = found.governors \cup IF Complete(build, d) THEN {d} ELSE {}
BY DEF Visit, HasPom

\* A directory is not passed over for nothing.
LEMMA VisitSees ==
    ASSUME NEW build, NEW found \in States, NEW d \in HasPom(build)
    PROVE  \/ d \in Visit(build, found, d).kept
           \/ /\ Visit(build, found, d) = found
              /\ Governed(d, found.governors) /\ d \notin found.declared
BY DEF Visit, HasPom

LEMMA VisitKeepsInv ==
    ASSUME NEW build, NEW found, NEW n \in 1..Len(ByDepth),
           VisitInv(build, found, n - 1)
    PROVE  VisitInv(build, Visit(build, found, ByDepth[n]), n)
<1> DEFINE d == ByDepth[n]
           next == Visit(build, found, d)
<1>1. /\ found \in States /\ d \in Dirs /\ next \in States
      /\ Consistent(build, found) /\ Justified(build, found) /\ Seen(build, found, n - 1)
  BY Places, VisitTyped DEF VisitInv, Consistent
<1>2. \A i \in 1..n : i = n \/ i \in 1..(n - 1)
  OBVIOUS
<1>3. CASE next = found
  <2>1. d \in HasPom(build) => d \in found.kept \/ Governed(d, found.governors)
    BY <1>1, <1>3, VisitSees
  <2>2. Seen(build, found, n)
    BY <1>1, <1>2, <2>1 DEF Seen
  <2>3. QED BY <1>1, <1>3, <2>2 DEF VisitInv
<1>4. CASE next # found
  <2>1. /\ d \in HasPom(build) /\ d \notin found.kept
        /\ Governed(d, found.governors) => d \in found.declared
        /\ next.kept = found.kept \cup {d}
        /\ next.declared = found.declared \cup (build[d].modules \cap HasPom(build))
        /\ next.governors = found.governors \cup IF Complete(build, d) THEN {d} ELSE {}
    <3> HIDE DEF d
    <3>1. QED BY <1>1, <1>4, VisitKeeps
  <2> HIDE DEF next
  <2>2. Consistent(build, next)
    BY <1>1, <2>1 DEF Consistent
  <2>3. ASSUME NEW e \in Dirs, Governed(e, found.governors)
        PROVE  Governed(e, next.governors)
    BY <2>1, <2>3 DEF Governed
  <2>4. Seen(build, next, n)
    <3>1. ASSUME NEW i \in 1..n, ByDepth[i] \in HasPom(build)
          PROVE  ByDepth[i] \in next.kept \/ Governed(ByDepth[i], next.governors)
      <4>1. CASE i = n
        BY <2>1, <4>1
      <4>2. CASE i \in 1..(n - 1)
        BY <1>1, <2>1, <2>3, <3>1, <4>2 DEF Seen, HasPom
      <4>3. QED BY <1>2, <4>1, <4>2
    <3>2. QED BY <3>1 DEF Seen
  <2>5. ASSUME d \notin found.declared
        PROVE  ~Governed(d, found.governors) /\ Above[d] \cap HasPom(build) \subseteq found.kept
    <3>1. ~Governed(d, found.governors)
      BY <2>1, <2>5
    <3>2. ASSUME NEW e \in Above[d] \cap HasPom(build), e \notin found.kept PROVE FALSE
      <4>1. PICK j \in 1..Len(ByDepth) : ByDepth[j] = e
        BY <3>2, Places DEF HasPom
      <4>2. j < n
        BY <3>2, <4>1, Places
      <4>3. j \in 1..(n - 1)
        BY <4>1, <4>2, Places
      <4>4. Governed(e, found.governors)
        BY <1>1, <3>2, <4>1, <4>3 DEF Seen
      <4>5. Above[e] \subseteq Above[d]
        BY <1>1, <3>2, TreeAssumption
      <4>6. QED BY <3>1, <4>4, <4>5 DEF Governed
    <3>3. QED BY <3>1, <3>2
  <2>6. Justified(build, next)
    <3>1. ASSUME NEW e \in next.kept, e \notin next.declared
          PROVE  /\ ~Governed(e, next.governors)
                 /\ Above[e] \cap HasPom(build) \subseteq next.kept
      <4>1. e \in Dirs /\ e \notin found.declared
        BY <1>1, <2>1, <3>1 DEF States
      <4>2. /\ ~Governed(e, found.governors)
            /\ Above[e] \cap HasPom(build) \subseteq found.kept
        BY <1>1, <2>1, <2>5, <3>1, <4>1 DEF Justified
      <4>3. d \notin Above[e]
        BY <2>1, <4>2
      <4>4. QED BY <2>1, <4>2, <4>3 DEF Governed
    <3>2. QED BY <3>1 DEF Justified
  <2>7. QED BY <2>2, <2>4, <2>6 DEF VisitInv, next
<1>5. QED BY <1>3, <1>4

\* Every state of a pass is consistent and justified.
LEMMA PassKeepsInv ==
    ASSUME NEW build, NEW found, Consistent(build, found), Justified(build, found)
    PROVE  \A n \in 0..Len(ByDepth) : VisitInv(build, Visits(build, found)[n], n)
<1> DEFINE N == Len(ByDepth)
           v == Visits(build, found)
           S == {n \in 0..N : VisitInv(build, v[n], n)}
<1>1. /\ N \in Nat /\ v[0] = found
      /\ \A n \in 1..N : v[n] = Visit(build, v[n - 1], ByDepth[n])
  BY Places, VisitsAre DEF Consistent
<1> HIDE DEF v
<1>2. 0 \in S
  <2>1. Seen(build, found, 0)
    BY DEF Seen
  <2>2. QED BY <1>1, <2>1 DEF VisitInv
<1>3. ASSUME NEW n \in 1..N, n - 1 \in S PROVE n \in S
  <2>1. VisitInv(build, v[n - 1], n - 1) /\ n \in 0..N
    BY <1>3
  <2>2. VisitInv(build, Visit(build, v[n - 1], ByDepth[n]), n)
    BY <2>1, VisitKeepsInv
  <2>3. QED BY <1>1, <2>1, <2>2
<1>4. 0..N \subseteq S
  <2> HIDE DEF S
  <2>1. QED BY <1>1, <1>2, <1>3, StepByStep
<1>5. QED BY <1>4 DEF v

\* What is kept depends on nothing but what was kept.
LEMMA KeptDecides ==
    ASSUME NEW build, NEW x, NEW y, Consistent(build, x), Consistent(build, y),
           x.kept = y.kept
    PROVE  x = y
<1>1. x \in States /\ y \in States /\ x.declared = y.declared /\ x.governors = y.governors
  BY DEF Consistent
<1>2. QED BY <1>1 DEF States

\* A pass keeps a directory more, or changes nothing.
LEMMA PassGrows ==
    ASSUME NEW build, NEW found, Consistent(build, found), Justified(build, found)
    PROVE  /\ Consistent(build, Pass(build, found)) /\ Justified(build, Pass(build, found))
           /\ found.kept \subseteq Pass(build, found).kept
           /\ Pass(build, found).kept = found.kept => Stable(build, found)
           /\ Stable(build, found) => Pass(build, found) = found
<1> DEFINE N == Len(ByDepth)
           v == Visits(build, found)
<1>1. /\ N \in Nat /\ v[0] = found /\ Pass(build, found) = v[N]
      /\ v \in [0..N -> States]
      /\ \A n \in 1..N : v[n] = Visit(build, v[n - 1], ByDepth[n])
  BY Places, VisitsAre DEF Consistent, Pass
<1>2. \A n \in 0..N : Consistent(build, v[n]) /\ Justified(build, v[n])
  BY PassKeepsInv DEF VisitInv
<1> HIDE DEF v
<1>3. \A n \in 1..N : n - 1 \in 0..N /\ n \in 0..N
  BY <1>1
<1>4. \A n \in 1..N : v[n - 1].kept \subseteq v[n].kept
  <2>1. ASSUME NEW n \in 1..N PROVE v[n - 1].kept \subseteq v[n].kept
    <3>1. v[n - 1] \in States /\ ByDepth[n] \in Dirs /\ v[n] = Visit(build, v[n - 1], ByDepth[n])
      BY <1>1, <1>3, Places
    <3>2. v[n] = v[n - 1] \/ v[n].kept = v[n - 1].kept \cup {ByDepth[n]}
      <4> DEFINE x == v[n - 1]
                 d == ByDepth[n]
      <4>1. x \in States /\ d \in Dirs /\ v[n] = Visit(build, x, d)
        BY <3>1
      <4> HIDE DEF x, d
      <4>2. v[n] = x \/ v[n].kept = x.kept \cup {d}
        BY <4>1, VisitKeeps
      <4>3. QED BY <4>2 DEF x, d
    <3>3. QED BY <3>2
  <2>2. QED BY <2>1
<1>5. \A n \in 0..N : found.kept \subseteq v[n].kept
  <2> DEFINE S == {n \in 0..N : found.kept \subseteq v[n].kept}
  <2>1. 0 \in S
    BY <1>1
  <2>2. ASSUME NEW n \in 1..N, n - 1 \in S PROVE n \in S
    BY <1>3, <1>4, <2>2
  <2>3. 0..N \subseteq S
    <3> HIDE DEF S
    <3>1. QED BY <1>1, <2>1, <2>2, StepByStep
  <2>4. QED BY <2>3
<1>6. ASSUME NEW m \in 0..N PROVE v[m].kept \subseteq v[N].kept
  <2> DEFINE S == {n \in 0..N : m <= n => v[m].kept \subseteq v[n].kept}
  <2>1. 0 \in S
    BY <1>1
  <2>2. ASSUME NEW n \in 1..N, n - 1 \in S PROVE n \in S
    <3>1. CASE m <= n - 1
      BY <1>3, <1>4, <2>2, <3>1
    <3>2. CASE ~(m <= n - 1)
      <4>1. m <= n => m = n
        BY <1>1, <3>2
      <4>2. QED BY <1>3, <4>1
    <3>3. QED BY <3>1, <3>2
  <2>3. 0..N \subseteq S
    <3> HIDE DEF S
    <3>1. QED BY <1>1, <2>1, <2>2, StepByStep
  <2>4. N \in S /\ m <= N
    BY <1>1, <2>3
  <2>5. QED BY <2>4
<1>7. ASSUME v[N].kept = found.kept PROVE Stable(build, found)
  <2>1. \A n \in 0..N : v[n] = found
    <3>1. ASSUME NEW n \in 0..N PROVE v[n] = found
      <4>1. v[n].kept = found.kept
        BY <1>5, <1>6, <1>7
      <4>2. QED BY <1>2, <4>1, KeptDecides
    <3>2. QED BY <3>1
  <2>2. ASSUME NEW d \in HasPom(build) \ found.kept
        PROVE  Governed(d, found.governors) /\ d \notin found.declared
    <3>1. PICK i \in 1..N : ByDepth[i] = d
      BY <2>2, Places DEF HasPom
    <3>2. Visit(build, found, d) = found
      BY <1>1, <1>3, <2>1, <3>1
    <3>3. found \in States
      BY DEF Consistent
    <3>4. QED BY <2>2, <3>2, <3>3, VisitSees
  <2>3. QED BY <2>2 DEF Stable
<1>8. ASSUME Stable(build, found) PROVE v[N] = found
  <2> DEFINE S == {n \in 0..N : v[n] = found}
  <2>1. 0 \in S
    BY <1>1
  <2>2. ASSUME NEW n \in 1..N, n - 1 \in S PROVE n \in S
    <3>1. v[n] = Visit(build, found, ByDepth[n]) /\ ByDepth[n] \in Dirs /\ found \in States
      BY <1>1, <2>2, Places DEF Consistent
    <3>2. Visit(build, found, ByDepth[n]) = found
      BY <1>8, <3>1, VisitKeeps DEF Stable
    <3>3. QED BY <1>3, <3>1, <3>2
  <2>3. 0..N \subseteq S
    <3> HIDE DEF S
    <3>1. QED BY <1>1, <2>1, <2>2, StepByStep
  <2>4. N \in S
    BY <1>1, <2>3
  <2>5. QED BY <2>4
<1>9. N \in 0..N /\ 0 \in 0..N
  BY <1>1
<1>10. QED BY <1>1, <1>2, <1>5, <1>7, <1>8, <1>9

\* The passes of a build.
LEMMA PassesAre ==
    ASSUME NEW build
    PROVE  /\ Passes(build)[0] = Nothing
           /\ \A n \in 1..Len(ByDepth) :
                 Passes(build)[n] = Pass(build, Passes(build)[n - 1])
<1> DEFINE N == Len(ByDepth)
           step == [x \in (1..N) \X States |-> Pass(build, x[2])]
           Is(g) == g = [n \in 0..N |-> IF n = 0 THEN Nothing
                                        ELSE Pass(build, g[n - 1])]
<1>1. N \in Nat /\ \A n \in 1..N : n - 1 \in 0..N /\ n \in 0..N /\ n # 0
  BY Places
<1>2. step \in [(1..N) \X States -> States]
  <2>1. ASSUME NEW found \in States PROVE Pass(build, found) \in States
    <3>1. N \in 0..N
      BY <1>1
    <3>2. QED BY <3>1, VisitsAre DEF Pass
  <2> HIDE DEF N
  <2>2. \A x \in (1..N) \X States : x[2] \in States
    OBVIOUS
  <2>3. QED BY <2>1, <2>2
<1>3. Nothing \in States
  BY DEF Nothing, States
<1>4. PICK g \in [0..N -> States] :
         g[0] = Nothing /\ \A n \in 1..N : g[n] = step[<<n, g[n - 1]>>]
  <2> HIDE DEF step
  <2>1. Iterated(States, Nothing, step, N)
    BY <1>1, <1>2, <1>3, Iterates
  <2>2. QED BY <2>1 DEF Iterated
<1>5. \A n \in 1..N : g[n] = Pass(build, g[n - 1])
  <2>1. ASSUME NEW n \in 1..N PROVE g[n] = Pass(build, g[n - 1])
    <3>1. <<n, g[n - 1]>> \in (1..N) \X States
      BY <1>1, <1>4
    <3>2. QED BY <1>4, <3>1
  <2>2. QED BY <2>1
<1>6. Is(g)
  <2>1. \A n \in 0..N : n # 0 => n \in 1..N
    BY <1>1
  <2>2. QED BY <1>4, <1>5, <2>1
<1>7. Is(Passes(build))
  BY <1>6, Zenon DEF Passes
<1> DEFINE a == Passes(build)
<1>8. a[0] = Nothing /\ \A n \in 1..N : a[n] = Pass(build, a[n - 1])
  <2> HIDE DEF a
  <2>1. Is(a)
    BY <1>7 DEF a
  <2>2. 0 \in 0..N
    BY <1>1
  <2>3. QED BY <1>1, <2>1, <2>2
<1>9. QED BY <1>8

\* There are finitely many directories.
LEMMA DirectoriesAreFinite ==
    IsFiniteSet(Dirs) /\ Cardinality(Dirs) = Len(ByDepth)
<1> DEFINE N == Len(ByDepth)
<1>1. N \in Nat /\ ByDepth \in [1..N -> Dirs]
  BY OrderAssumption
<1>2. ByDepth \in Surjection(1..N, Dirs)
  BY <1>1, Places DEF Surjection
<1>3. IsFiniteSet(1..N)
  BY <1>1, FS_Interval
<1>4. QED BY <1>2, <1>3, FS_Surjection, OrderAssumption

\* As many passes as directories find all projects.
LEMMA PassesAreEnough ==
    ASSUME NEW build
    PROVE  LET found == Passes(build)[Len(ByDepth)]
           IN  Consistent(build, found) /\ Justified(build, found) /\ Stable(build, found)
<1> DEFINE N == Len(ByDepth)
           a == Passes(build)
           Grown(n) == Stable(build, a[n]) \/ n <= Cardinality(a[n].kept)
           S == {n \in 0..N : Consistent(build, a[n]) /\ Justified(build, a[n]) /\ Grown(n)}
<1>1. /\ N \in Nat /\ a[0] = Nothing
      /\ \A n \in 1..N : a[n] = Pass(build, a[n - 1])
  BY Places, PassesAre
<1> HIDE DEF a
<1>2. ASSUME NEW T \in SUBSET Dirs
      PROVE  IsFiniteSet(T) /\ Cardinality(T) \in Nat
  BY DirectoriesAreFinite, FS_Subset, FS_CardinalityType
<1>3. 0 \in S
  <2>1. Consistent(build, Nothing) /\ Justified(build, Nothing)
    BY DEF Nothing, Consistent, Justified, States
  <2>2. 0 <= Cardinality(Nothing.kept)
    BY FS_EmptySet DEF Nothing
  <2>3. QED BY <1>1, <2>1, <2>2
<1>4. ASSUME NEW n \in 1..N, n - 1 \in S PROVE n \in S
  <2> DEFINE x == a[n - 1]
             y == a[n]
  <2>1. /\ Consistent(build, x) /\ Justified(build, x) /\ Grown(n - 1)
        /\ y = Pass(build, x) /\ n \in 0..N /\ n \in Nat
    BY <1>1, <1>4
  <2>2. /\ Consistent(build, y) /\ Justified(build, y)
        /\ x.kept \subseteq y.kept
        /\ y.kept = x.kept => Stable(build, x)
        /\ Stable(build, x) => y = x
    BY <2>1, PassGrows
  <2>3. Grown(n)
    <3>1. CASE Stable(build, x)
      BY <2>2, <3>1
    <3>2. CASE ~Stable(build, x)
      <4>1. x.kept \in SUBSET Dirs /\ y.kept \in SUBSET Dirs
        BY <2>1, <2>2 DEF Consistent, States
      <4>2. /\ IsFiniteSet(x.kept) /\ IsFiniteSet(y.kept)
            /\ Cardinality(x.kept) \in Nat /\ Cardinality(y.kept) \in Nat
        BY <1>2, <4>1
      <4>3. /\ Cardinality(x.kept) <= Cardinality(y.kept)
            /\ Cardinality(x.kept) # Cardinality(y.kept)
        <5> DEFINE less == x.kept
                   more == y.kept
        <5>1. IsFiniteSet(more) /\ less \in SUBSET more /\ less # more
          BY <2>2, <3>2, <4>2
        <5> HIDE DEF less, more
        <5>2. Cardinality(less) <= Cardinality(more) /\ Cardinality(less) # Cardinality(more)
          BY <5>1, FS_Subset
        <5>3. QED BY <5>2 DEF less, more
      <4>4. n - 1 <= Cardinality(x.kept)
        BY <2>1, <3>2
      <4>5. QED BY <2>1, <4>2, <4>3, <4>4
    <3>3. QED BY <3>1, <3>2
  <2>4. QED BY <2>1, <2>2, <2>3
<1>5. N \in S
  <2>1. N \in 0..N
    BY <1>1
  <2> HIDE DEF S
  <2>2. QED BY <1>1, <1>3, <1>4, <2>1, StepByStep
<1>6. Stable(build, a[N])
  <2>1. CASE N <= Cardinality(a[N].kept)
    <3>1. a[N].kept \in SUBSET Dirs
      BY <1>5 DEF Consistent, States
    <3>2. Cardinality(a[N].kept) <= N /\ Cardinality(a[N].kept) \in Nat
      BY <1>2, <3>1, DirectoriesAreFinite, FS_Subset
    <3>3. a[N].kept = Dirs
      BY <1>1, <2>1, <3>1, <3>2, DirectoriesAreFinite, FS_Subset
    <3>4. QED BY <3>3 DEF Stable, HasPom
  <2>2. QED BY <1>5, <2>1
<1>7. QED BY <1>5, <1>6 DEF a

\* Discovery keeps what the declarations ask for, and nothing else.
LEMMA BuildsAreDeclared ==
    ASSUME NEW build
    PROVE  DeclaresItsBuild(build)
<1> DEFINE found == Passes(build)[Len(ByDepth)]
           kept  == MavenProjects(build)
           Found(e) == build[e].modules \cap HasPom(build)
           Governs(e) == Found(e) # {} /\ Found(e) = build[e].modules
<1>1. /\ Consistent(build, found) /\ Justified(build, found) /\ Stable(build, found)
      /\ kept = found.kept
  BY PassesAreEnough DEF MavenProjects
<1> HIDE DEF found, kept
<1>2. \A e : Governs(e) <=> Complete(build, e)
  BY DEF Complete
<1>3. \A d \in HasPom(build) :
         d \in found.declared <=> \E e \in kept : d \in build[e].modules
  BY <1>1 DEF Consistent
<1>4. \A d \in HasPom(build) :
         Governed(d, found.governors) <=> \E e \in kept \cap Above[d] : Governs(e)
  <2> HIDE DEF Governs
  <2>1. QED BY <1>1, <1>2 DEF Consistent, Governed
<1>5. ASSUME NEW d \in HasPom(build)
      PROVE  d \in kept <=> \/ \E e \in kept : d \in build[e].modules
                           \/ ~\E e \in kept \cap Above[d] : Governs(e)
  <2>1. d \in kept <=> d \in found.declared \/ ~Governed(d, found.governors)
    BY <1>1, <1>5 DEF Justified, Stable
  <2> HIDE DEF Governs
  <2>2. QED BY <1>3, <1>4, <1>5, <2>1
<1>6. QED BY <1>5 DEF DeclaresItsBuild, kept

\* Whatever POMs a repository has and however they declare one another, its
\* projects are those the declarations ask for: the order in which the
\* directories are visited, and a governor that is found late, change nothing
\* (_maven_projects).
THEOREM BuildsStayDeclared == Spec => []AggregatorsDeclareTheirBuild
<1>1. AggregatorsDeclareTheirBuild
  BY BuildsAreDeclared DEF AggregatorsDeclareTheirBuild
<1>2. QED BY <1>1, PTL

-----------------------------------------------------------------------------
(* Inherited mappings                                                      *)

JavaFiles == {p \in Paths : p.kind = "java"}

\* A supertype has none of its own, gives no prefix to what it does not map,
\* and no heir redeclares all it maps.
OneLevel ==
    \A p \in JavaFiles : \A c \in Contents[p] \ {None} :
        c.super # None =>
            /\ c.super \in JavaFiles
            /\ \A s \in Contents[c.super] \ {None} :
                  /\ s.super = None
                  /\ s.prefixed => s.methods # {}
                  /\ c.role # "type" /\ s.methods # {} => ~(s.methods \subseteq c.methods)

\* The files contain what they may contain.
Typed(t) == \A p \in JavaFiles : t[p] \in Contents[p] \cup {None}

\* Nothing is inherited from s.
Silent(t, s) ==
    \/ s = None
    \/ t[s] = None
    \/ t[s].methods = {} /\ ~t[s].prefixed

\* What a type maps by itself.
Own(t, p) ==
    {[method |-> m, from |-> p, version |-> t[p].version, prefix |-> OwnPrefix(t, p)] :
        m \in t[p].methods}

\* Does p inherit what q maps?
Extends(t, p, q) ==
    /\ p \in Types(t) /\ t[p].role # "type"
    /\ q # None /\ t[p].super = q /\ q \in Types(t) /\ t[q].methods # {}

LEMMA SuperIsPlain ==
    ASSUME OneLevel, NEW t, Typed(t), NEW p \in Types(t), t[p].super # None
    PROVE  /\ t[p].super \in JavaFiles /\ t[p].super # p
           /\ t[t[p].super] # None =>
                 /\ t[p].super \in Types(t) /\ t[t[p].super].super = None
                 /\ t[t[p].super].prefixed => t[t[p].super].methods # {}
                 /\ t[p].role # "type" /\ t[t[p].super].methods # {} =>
                       ~(t[t[p].super].methods \subseteq t[p].methods)
<1> DEFINE s == t[p].super
<1>1. p \in JavaFiles /\ t[p] # None /\ t[p] \in Contents[p] \ {None}
  BY DEF Types, Present, JavaFiles, Typed
<1>2. /\ s \in JavaFiles
      /\ \A x \in Contents[s] \ {None} :
            /\ x.super = None
            /\ x.prefixed => x.methods # {}
            /\ t[p].role # "type" /\ x.methods # {} => ~(x.methods \subseteq t[p].methods)
  BY <1>1 DEF OneLevel
<1>3. s # p
  BY <1>1, <1>2
<1>4. t[s] # None => s \in Types(t) /\ t[s] \in Contents[s] \ {None}
  BY <1>2 DEF Types, Present, JavaFiles, Typed
<1>5. QED BY <1>2, <1>3, <1>4

LEMMA OneInSet ==
    ASSUME NEW x
    PROVE  ToSet(<<x>>) = {x}
<1>1. DOMAIN <<x>> = {1} /\ <<x>>[1] = x
  OBVIOUS
<1>2. QED BY <1>1 DEF ToSet

LEMMA OneAndOne ==
    ASSUME NEW x, NEW y
    PROVE  Append(<<x>>, y) = <<x, y>>
<1>1. <<x>> \in Seq({x, y}) /\ y \in {x, y} /\ Len(<<x>>) = 1
  OBVIOUS
<1>2. Append(<<x>>, y) = [i \in 1..2 |-> IF i = 2 THEN y ELSE x]
  <2>1. Append(<<x>>, y) \in Seq({x, y}) /\ Len(Append(<<x>>, y)) = 2
        /\ Append(<<x>>, y)[1] = x /\ Append(<<x>>, y)[2] = y
    BY <1>1
  <2>2. \A i \in 1..2 : i = 1 \/ i = 2
    OBVIOUS
  <2>3. QED BY <2>1, <2>2
<1>3. <<x, y>> = [i \in 1..2 |-> IF i = 2 THEN y ELSE x]
  OBVIOUS
<1>4. QED BY <1>2, <1>3

LEMMA ChainIs ==
    ASSUME OneLevel, NEW t, Typed(t), NEW p \in Types(t)
    PROVE  Chain(t, p) = IF t[p].super = None \/ t[t[p].super] = None THEN <<>>
                         ELSE <<t[p].super>>
<1> DEFINE s == t[p].super
           stop == s = None \/ t[s] = None
           all == IF stop THEN <<p>> ELSE <<p, s>>
           Is(g) == g = [n \in 0..MaxSupertypes |->
                            IF n = 0 THEN <<p>> ELSE Climb(t, g[n - 1])]
<1>1. Climb(t, <<p>>) = all
  <2>1. Last(<<p>>) = p /\ ToSet(<<p>>) = {p} /\ Append(<<p>>, s) = <<p, s>>
    <3>1. ToSet(<<p>>) = {p}
      BY OneInSet
    <3>2. Last(<<p>>) = p
      BY DEF Last
    <3>3. Append(<<p>>, s) = <<p, s>>
      BY OneAndOne
    <3>4. QED BY <3>1, <3>2, <3>3
  <2>2. ~stop => s # p
    BY SuperIsPlain
  <2>3. QED BY <2>1, <2>2 DEF Climb
<1>2. Climb(t, all) = all
  <2>1. CASE stop
    BY <1>1, <2>1
  <2>2. CASE ~stop
    <3>1. Last(<<p, s>>) = s
      BY DEF Last
    <3>2. t[s].super = None
      BY <2>2, SuperIsPlain
    <3>3. QED BY <2>2, <3>1, <3>2 DEF Climb
  <2>3. QED BY <2>1, <2>2
<1> HIDE DEF all
<1> DEFINE g == [n \in 0..9 |-> IF n = 0 THEN <<p>> ELSE all]
<1>3. \A n \in 0..9 : n = 0 \/ n - 1 \in 0..9
  OBVIOUS
<1>4. Is(g)
  <2>1. \A n \in 0..9 : g[n] = IF n = 0 THEN <<p>> ELSE Climb(t, g[n - 1])
    BY <1>1, <1>2, <1>3
  <2>2. QED BY <2>1 DEF MaxSupertypes
<1>5. Is(Climbs(t, p))
  BY <1>4, Zenon DEF Climbs
<1> DEFINE up == Climbs(t, p)
<1>6. \A n \in 0..9 : up[n] = IF n = 0 THEN <<p>> ELSE Climb(t, up[n - 1])
  <2> HIDE DEF up
  <2>1. Is(up)
    BY <1>5 DEF up
  <2>2. QED BY <2>1 DEF MaxSupertypes
<1>7. up[9] = all
  <2> DEFINE S == {n \in 0..9 : n = 0 \/ up[n] = all}
  <2> HIDE DEF up
  <2>1. 0 \in S
    OBVIOUS
  <2>2. ASSUME NEW n \in 1..9, n - 1 \in S PROVE n \in S
    <3>1. n \in 0..9 /\ n # 0 /\ 0 \in 0..9
      OBVIOUS
    <3>2. up[n - 1] = <<p>> \/ up[n - 1] = all
      <4>1. CASE n - 1 = 0
        BY <1>6, <3>1, <4>1
      <4>2. CASE n - 1 # 0
        BY <2>2, <4>2
      <4>3. QED BY <4>1, <4>2
    <3>3. up[n] = all
      BY <1>1, <1>2, <1>6, <3>1, <3>2
    <3>4. QED BY <3>1, <3>3
  <2>3. 0..9 \subseteq S
    <3> HIDE DEF S
    <3>1. 9 \in Nat
      OBVIOUS
    <3>2. QED BY <2>1, <2>2, <3>1, StepByStep
  <2>4. 9 \in S
    BY <2>3
  <2>5. QED BY <2>4
<1>8. Chain(t, p) = Tail(all)
  BY <1>7 DEF Chain, MaxSupertypes
<1>9. QED BY <1>8 DEF all

\* The nearest of some is one of them.
LEMMA NearestIsOne ==
    ASSUME NEW X, NEW chain \in Seq(X), NEW S, NEW i \in DOMAIN chain, chain[i] \in S
    PROVE  NearestIn(chain, S) \in S
<1> DEFINE P == {j \in DOMAIN chain : chain[j] \in S}
<1>1. P \in SUBSET Nat /\ P # {}
  OBVIOUS
<1>2. PICK k \in P : \A j \in P : k <= j
  BY <1>1, LeastNumber
<1>3. \E k_1 \in DOMAIN chain :
         chain[k_1] \in S /\ \A j \in DOMAIN chain : chain[j] \in S => k_1 <= j
  BY <1>2
<1>4. QED BY <1>3 DEF NearestIn

\* Own mappings have the own prefix where nothing gives another one.
LEMMA OwnPrefixOf ==
    ASSUME OneLevel, NEW t, Typed(t), NEW p \in Types(t),
           t[p].role # "type" => Silent(t, t[p].super)
    PROVE  PrefixOf(t, p, p) = OwnPrefix(t, p)
<1> DEFINE chain == Chain(t, p)
           candidates == <<p>> \o chain
           having == {r \in ToSet(candidates) : t[r].prefixed}
           s == t[p].super
<1>1. CASE t[p].role # "controller"
  BY <1>1 DEF PrefixOf
<1>2. CASE t[p].role = "controller"
  <2>1. candidates \in Seq({p, s}) /\ 1 \in DOMAIN candidates /\ candidates[1] = p
        /\ \A i \in DOMAIN candidates : candidates[i] = p \/ (candidates[i] = s /\ chain = <<s>>)
    <3>1. CASE chain = <<>>
      <4>1. candidates = <<p>>
        BY <3>1
      <4>2. <<p>> \in Seq({p, s}) /\ DOMAIN <<p>> = {1} /\ <<p>>[1] = p
        OBVIOUS
      <4> HIDE DEF candidates, s
      <4>3. QED BY <4>1, <4>2
    <3>2. CASE chain = <<s>>
      <4>1. candidates \in Seq({p, s}) /\ Len(candidates) = 2
            /\ candidates[1] = p /\ candidates[2] = s
        BY <3>2
      <4>2. QED BY <3>2, <4>1
    <3>3. QED BY <3>1, <3>2, ChainIs
  <2>2. chain = <<s>> => ~t[s].prefixed
    BY <1>2, ChainIs DEF Silent
  <2> HIDE DEF candidates
  <2>3. having = IF t[p].prefixed THEN {p} ELSE {}
    BY <2>1, <2>2 DEF ToSet
  <2>4. PrefixOf(t, p, p)
          = IF having # {} THEN OwnPrefix(t, NearestIn(candidates, having)) ELSE <<>>
    BY <1>2 DEF PrefixOf, candidates
  <2>5. CASE t[p].prefixed
    <3>1. NearestIn(candidates, having) \in having
      <4> HIDE DEF having
      <4>1. candidates[1] \in having
        BY <2>1, <2>3, <2>5
      <4>2. QED BY <2>1, <4>1, NearestIsOne
    <3>2. QED BY <2>3, <2>4, <2>5, <3>1
  <2>6. CASE ~t[p].prefixed
    BY <2>3, <2>4, <2>6 DEF OwnPrefix
  <2>7. QED BY <2>5, <2>6
<1>3. QED BY <1>1, <1>2

\* A type that inherits nothing maps what it maps itself.
LEMMA SilentMappings ==
    ASSUME OneLevel, NEW t, Typed(t), NEW p \in Types(t),
           t[p].role # "type", Silent(t, t[p].super)
    PROVE  MappingsOf(t, p) = Own(t, p)
<1> DEFINE chain == Chain(t, p)
           all == UNION {t[q].methods : q \in ToSet(chain)}
           s == t[p].super
<1>1. all = {}
  <2>1. CASE chain = <<>>
    BY <2>1 DEF ToSet
  <2>2. CASE chain = <<s>> /\ t[s].methods = {}
    <3>1. ToSet(chain) = {s}
      BY <2>2, OneInSet
    <3>2. QED BY <2>2, <3>1
  <2>3. QED BY <2>1, <2>2, ChainIs DEF Silent
<1>2. PrefixOf(t, p, p) = OwnPrefix(t, p)
  BY OwnPrefixOf
<1>3. MappingsOf(t, p) = {Mapping(t, p, m, p) : m \in t[p].methods}
  BY <1>1 DEF MappingsOf
<1>4. QED BY <1>2, <1>3 DEF Own, Mapping

\* A type whose mappings others may inherit.
LEMMA InheritedMappings ==
    ASSUME OneLevel, NEW t, Typed(t), NEW p \in Types(t), t[p].role = "type"
    PROVE  MappingsOf(t, p) = IF Inheritors(t, p) # {} THEN {} ELSE Own(t, p)
<1>1. PrefixOf(t, p, p) = OwnPrefix(t, p)
  BY OwnPrefixOf
<1>2. QED BY <1>1 DEF MappingsOf, Own, Mapping

\* An heir adds what its supertype maps and it does not.
LEMMA HeirMappings ==
    ASSUME OneLevel, NEW t, Typed(t), NEW p \in Types(t), t[p].role # "type",
           t[p].super # None, t[t[p].super] # None
    PROVE  MappingsOf(t, p) =
              {Mapping(t, p, m, p) : m \in t[p].methods}
              \cup {Mapping(t, p, m, t[p].super) : m \in t[t[p].super].methods \ t[p].methods}
<1> DEFINE s == t[p].super
           all == UNION {t[q].methods : q \in ToSet(Chain(t, p))}
           Source(m) == NearestIn(Chain(t, p), {q \in ToSet(Chain(t, p)) : m \in t[q].methods})
<1>1. Chain(t, p) = <<s>> /\ ToSet(<<s>>) = {s}
  BY ChainIs, OneInSet
<1>2. all = t[s].methods
  BY <1>1
<1>3. ASSUME NEW m \in all PROVE Source(m) = s
  <2>1. {q \in ToSet(Chain(t, p)) : m \in t[q].methods} = {s}
    BY <1>1, <1>2, <1>3
  <2>2. NearestIn(<<s>>, {s}) \in {s}
    <3>1. <<s>> \in Seq({s}) /\ 1 \in DOMAIN <<s>> /\ <<s>>[1] \in {s}
      OBVIOUS
    <3> HIDE DEF s
    <3>2. QED BY <3>1, NearestIsOne
  <2>3. QED BY <1>1, <2>1, <2>2
<1>4. MappingsOf(t, p) = {Mapping(t, p, m, p) : m \in t[p].methods}
                          \cup {Mapping(t, p, m, Source(m)) : m \in all \ t[p].methods}
  BY DEF MappingsOf
<1>5. {Mapping(t, p, m, Source(m)) : m \in all \ t[p].methods}
        = {Mapping(t, p, m, s) : m \in all \ t[p].methods}
  <2> HIDE DEF Source, all
  <2>1. \A m \in all \ t[p].methods : Mapping(t, p, m, Source(m)) = Mapping(t, p, m, s)
    BY <1>3
  <2>2. QED BY <2>1
<1>6. QED BY <1>2, <1>4, <1>5

\* The same type under the same supertype maps the same.
LEMMA SameMappings ==
    ASSUME OneLevel, NEW t, Typed(t), NEW u, Typed(u),
           NEW p \in Types(t), p \in Types(u), t[p] = u[p], t[p].role # "type",
           t[p].super # None => t[t[p].super] = u[t[p].super]
    PROVE  MappingsOf(t, p) = MappingsOf(u, p)
<1> DEFINE s == t[p].super
<1>1. CASE s = None \/ t[s] = None
  <2>1. MappingsOf(t, p) = Own(t, p) /\ MappingsOf(u, p) = Own(u, p)
    BY <1>1, SilentMappings DEF Silent
  <2>2. Own(t, p) = Own(u, p)
    BY DEF Own, OwnPrefix
  <2>3. QED BY <2>1, <2>2
<1>2. CASE s # None /\ t[s] # None
  <2>1. /\ Chain(t, p) = <<s>> /\ Chain(u, p) = <<s>>
        /\ t[s] = u[s]
    BY <1>2, ChainIs
  <2>2. ASSUME NEW q \in {p, s} PROVE OwnPrefix(t, q) = OwnPrefix(u, q)
    BY <2>1 DEF OwnPrefix
  <2>3. ASSUME NEW q \in {p, s} PROVE PrefixOf(t, p, q) = PrefixOf(u, p, q)
    <3> DEFINE candidates == <<p>> \o <<s>>
               having(x) == {r \in ToSet(candidates) : x[r].prefixed}
    <3>1. candidates \in Seq({p, s}) /\ ToSet(candidates) \subseteq {p, s}
      <4>1. candidates \in Seq({p, s})
        OBVIOUS
      <4> HIDE DEF candidates
      <4>2. QED BY <4>1 DEF ToSet
    <3> HIDE DEF candidates
    <3>2. having(t) = having(u)
      BY <2>1, <3>1
    <3>3. CASE t[p].role = "controller"
      <4>1. /\ PrefixOf(t, p, q) = IF having(t) # {}
                                  THEN OwnPrefix(t, NearestIn(candidates, having(t))) ELSE <<>>
            /\ PrefixOf(u, p, q) = IF having(u) # {}
                                  THEN OwnPrefix(u, NearestIn(candidates, having(u))) ELSE <<>>
        BY <2>1, <3>3 DEF PrefixOf, candidates
      <4>2. having(t) # {} => NearestIn(candidates, having(t)) \in {p, s}
        <5>1. ASSUME having(t) # {} PROVE NearestIn(candidates, having(t)) \in having(t)
          <6>1. PICK i \in DOMAIN candidates : candidates[i] \in having(t)
            BY <5>1 DEF ToSet
          <6> HIDE DEF having
          <6>2. QED BY <3>1, <6>1, NearestIsOne
        <5>2. QED BY <3>1, <5>1
      <4> HIDE DEF having
      <4>3. QED BY <2>2, <3>2, <4>1, <4>2
    <3>4. CASE t[p].role # "controller"
      BY <2>2, <3>4 DEF PrefixOf
    <3>5. QED BY <3>3, <3>4
  <2>4. ASSUME NEW m, NEW q \in {p, s} PROVE Mapping(t, p, m, q) = Mapping(u, p, m, q)
    <3>1. PrefixOf(t, p, q) = PrefixOf(u, p, q) /\ t[q] = u[q]
      BY <2>1, <2>3
    <3>2. QED BY <3>1 DEF Mapping
  <2>5. /\ MappingsOf(t, p) = {Mapping(t, p, m, p) : m \in t[p].methods}
              \cup {Mapping(t, p, m, s) : m \in t[s].methods \ t[p].methods}
        /\ MappingsOf(u, p) = {Mapping(u, p, m, p) : m \in t[p].methods}
              \cup {Mapping(u, p, m, s) : m \in t[s].methods \ t[p].methods}
    BY <1>2, <2>1, HeirMappings
  <2>6. /\ \A m \in t[p].methods : Mapping(t, p, m, p) = Mapping(u, p, m, p)
        /\ \A m \in t[s].methods : Mapping(t, p, m, s) = Mapping(u, p, m, s)
    BY <2>4
  <2>7. QED BY <2>5, <2>6
<1>3. QED BY <1>1, <1>2

\* Who inherits from whom.
LEMMA DeclaringIs ==
    ASSUME OneLevel, NEW t, Typed(t), NEW p \in Types(t), NEW q
    PROVE  q \in Declaring(t, p) <=> Extends(t, p, q)
<1> DEFINE s == t[p].super
<1>1. CASE s = None \/ t[s] = None
  <2>1. ToSet(Chain(t, p)) = {}
    BY <1>1, ChainIs DEF ToSet
  <2>2. QED BY <1>1, <2>1 DEF Declaring, Extends, Types, Present
<1>2. CASE s # None /\ t[s] # None
  <2>1. ToSet(Chain(t, p)) = {s} /\ s \in Types(t)
    BY <1>2, ChainIs, OneInSet, SuperIsPlain
  <2>2. QED BY <1>2, <2>1 DEF Declaring, Extends
<1>3. QED BY <1>1, <1>2

LEMMA InheritorsAre ==
    ASSUME OneLevel, NEW t, Typed(t), NEW p, NEW q
    PROVE  q \in Inheritors(t, p) <=> Extends(t, q, p)
BY DeclaringIs DEF Inheritors, Extends

\* The mappings of an heir name the type they are from.
LEMMA HeirsAreMarked ==
    ASSUME OneLevel, NEW t, Typed(t), NEW p, NEW q, Extends(t, p, q)
    PROVE  \E m \in MappingsOf(t, p) : m.from = q /\ q # p
<1>1. /\ p \in Types(t) /\ t[p].role # "type" /\ t[p].super = q /\ q # None
      /\ t[q] # None /\ t[q].methods # {}
  BY DEF Extends, Types, Present
<1>2. q # p /\ ~(t[q].methods \subseteq t[p].methods)
  BY <1>1, SuperIsPlain
<1>3. PICK m \in t[q].methods : m \notin t[p].methods
  BY <1>2
<1>4. Mapping(t, p, m, q) \in MappingsOf(t, p)
  BY <1>1, <1>3, HeirMappings
<1>5. Mapping(t, p, m, q).from = q
  BY DEF Mapping
<1>6. QED BY <1>2, <1>4, <1>5

-----------------------------------------------------------------------------
(* The routes every file has                                               *)

\* The mappings of each type follow from the files the index records.
RoutesAreOfTheIndex ==
    \A p \in DOMAIN index.facts :
        p.kind = "java" => index.facts[p].mappings = MappingsOf(index.content, p)

RoutesInv == SettingsInv /\ Typed(tree) /\ Typed(index.content) /\ RoutesAreOfTheIndex

LEMMA RecordedTyped ==
    ASSUME NEW t, Typed(t)
    PROVE  Typed(Recorded(t))
BY RecordedFiles DEF Typed, JavaFiles

LEMMA RecordedTypes ==
    ASSUME NEW t, NEW p
    PROVE  p \in Types(Recorded(t)) <=> p \in Inventory(t) /\ p.kind = "java"
BY RecordedFiles DEF Types

\* With nothing read from outside the index, the same types inherit from an
\* indexed one, on disk and by what is recorded.
LEMMA ExtendsIsRecorded ==
    ASSUME OneLevel, NEW t, Typed(t), Closed(t), NEW p, NEW q,
           p \in Inventory(t) \/ q \in Inventory(t)
    PROVE  Extends(t, p, q) <=> Extends(Recorded(t), p, q)
<1>1. /\ \A x \in Inventory(t) : Recorded(t)[x] = t[x] /\ x \in Present(t) /\ x \in Paths
      /\ \A x : x \in Types(Recorded(t)) <=> x \in Inventory(t) /\ x.kind = "java"
  BY RecordedFiles, RecordedTypes, IndexedFiles DEF Inventory
<1>2. ASSUME Extends(Recorded(t), p, q) PROVE Extends(t, p, q)
  BY <1>1, <1>2 DEF Extends, Types
<1>3. ASSUME Extends(t, p, q) PROVE Extends(Recorded(t), p, q)
  <2>1. p \in Types(t) /\ q \in Types(t) /\ p.kind = "java" /\ q.kind = "java"
    BY <1>3 DEF Extends, Types
  <2>2. CASE p \in Inventory(t)
    <3>1. q \in Declaring(t, p)
      BY <1>3, <2>1, DeclaringIs
    <3>2. q \in Inventory(t)
      BY <2>1, <2>2, <3>1 DEF Closed, Inputs, Declaring
    <3>3. QED BY <1>1, <1>3, <2>1, <2>2, <3>2 DEF Extends
  <2>3. CASE q \in Inventory(t)
    <3>1. p \in Inheritors(t, q)
      BY <1>3, InheritorsAre
    <3>2. p \in Inventory(t)
      BY <2>1, <2>3, <3>1 DEF Closed, Inputs
    <3>3. QED BY <1>1, <1>3, <2>1, <2>3, <3>2 DEF Extends
  <2>4. QED BY <2>2, <2>3
<1>4. QED BY <1>2, <1>3

\* What is recorded tells the mappings of an indexed type.
LEMMA MappingsAreRecorded ==
    ASSUME OneLevel, NEW t, Typed(t), Closed(t),
           NEW p \in Inventory(t), p.kind = "java"
    PROVE  MappingsOf(t, p) = MappingsOf(Recorded(t), p)
<1> DEFINE u == Recorded(t)
           s == t[p].super
<1>1. /\ Typed(u) /\ p \in Types(t) /\ p \in Types(u) /\ u[p] = t[p]
      /\ p \in Paths
  BY RecordedTyped, RecordedTypes, RecordedFiles, IndexedFiles DEF Types, Inventory
<1> HIDE DEF u
<1>2. CASE t[p].role = "type"
  <2>1. \A r : Extends(t, r, p) <=> Extends(u, r, p)
    BY ExtendsIsRecorded DEF u
  <2>2. Inheritors(t, p) = {} <=> Inheritors(u, p) = {}
    BY <1>1, <2>1, InheritorsAre
  <2>3. Own(t, p) = Own(u, p)
    BY <1>1 DEF Own, OwnPrefix
  <2>4. QED BY <1>1, <1>2, <2>2, <2>3, InheritedMappings DEF u
<1>3. CASE t[p].role # "type"
  <2>1. ASSUME s # None PROVE t[s] = u[s]
    <3>1. s \in Paths
      BY <1>1, <2>1, SuperIsPlain DEF JavaFiles
    <3>2. CASE t[s] = None
      <4>1. s \notin Inventory(t)
        BY <3>2, IndexedFiles
      <4>2. QED BY <3>1, <3>2, <4>1, RecordedFiles DEF u
    <3>3. CASE t[s] # None
      <4>1. s \in ToSet(Chain(t, p))
        BY <1>1, <2>1, <3>3, ChainIs, OneInSet
      <4>2. s \in Inventory(t)
        BY <4>1 DEF Closed, Inputs
      <4>3. QED BY <3>1, <4>2, RecordedFiles DEF u
    <3>4. QED BY <3>2, <3>3
  <2>2. QED BY <1>1, <1>3, <2>1, SameMappings DEF u
<1>4. QED BY <1>2, <1>3

\* A type that a run does not extract maps what it mapped before: whatever it
\* inherits from or inherits from it is as before, for a link of the index or
\* of the repository would have extracted it again.
LEMMA SameRoutes ==
    ASSUME OneLevel, RoutesInv, NEW full \in BOOLEAN,
           NEW p \in Inventory(tree), p.kind = "java",
           p \notin Rescanned(tree, index, full)
    PROVE  MappingsOf(index.content, p) = MappingsOf(Recorded(tree), p)
<1> DEFINE old == index.content
           new == Recorded(tree)
           current == Inventory(tree)
           deleted == {q \in DOMAIN index.facts : q \notin current}
           changed == {q \in current : full \/ tree[q] # index.content[q]}
           touched == changed \cup Dependents(current, changed \cup deleted, LayoutOf(tree))
                        \cup deleted
           links == Markers(index.facts) \cup Links(tree)
<1>1. /\ Typed(old) /\ Typed(new) /\ Typed(tree) /\ Closed(tree)
      /\ DOMAIN index.facts = Present(old) /\ RoutesAreOfTheIndex
  BY RecordedTyped DEF RoutesInv, SettingsInv, ModuleInv, ModulesAreOfTheIndex
<1>2. /\ p \in Types(old) /\ p \in Types(new) /\ old[p] = new[p] /\ p \in Paths
  BY NotRescanned, IndexedFiles, RecordedFiles, RecordedTypes DEF Types
<1>3. /\ \A q : <<p, q>> \in links => q \notin touched
      /\ \A r : <<r, p>> \in links => r \notin touched
  <2>1. p \notin LinkedTo(current, touched, links)
    BY DEF Rescanned
  <2> HIDE DEF touched, links
  <2>2. \A l \in links : ~(l[1] = p /\ l[2] \in touched) /\ ~(l[2] = p /\ l[1] \in touched)
    BY <2>1 DEF LinkedTo
  <2>3. QED BY <2>2
<1>4. ASSUME NEW q \in Paths, old[q] # new[q] PROVE q \in touched
  <2>1. CASE q \in current
    <3>1. new[q] = tree[q]
      BY <1>4, <2>1, RecordedFiles
    <3>2. QED BY <1>4, <2>1, <3>1
  <2>2. CASE q \notin current
    <3>1. new[q] = None
      BY <1>4, <2>2, RecordedFiles
    <3>2. q \in DOMAIN index.facts
      BY <1>1, <1>4, <3>1 DEF Present
    <3>3. QED BY <2>2, <3>2
  <2>3. QED BY <2>1, <2>2
<1>5. ASSUME NEW r, NEW q, Extends(old, r, q) PROVE <<r, q>> \in links
  <2>1. r \in DOMAIN index.facts /\ index.facts[r].mappings = MappingsOf(old, r)
    BY <1>1, <1>5 DEF Extends, Types, RoutesAreOfTheIndex
  <2>2. PICK m \in index.facts[r].mappings : m.from = q /\ q # r
    BY <1>1, <1>5, <2>1, HeirsAreMarked
  <2>3. <<r, q>> \in Markers(index.facts)
    BY <2>1, <2>2 DEF Markers
  <2>4. QED BY <2>3
<1>6. ASSUME NEW r, NEW q, r \in current \/ q \in current, Extends(new, r, q)
      PROVE  <<r, q>> \in links
  <2>1. Extends(tree, r, q)
    BY <1>1, <1>6, ExtendsIsRecorded
  <2>2. r \in Types(tree) /\ q \in Types(tree) /\ q \in Declaring(tree, r)
    BY <1>1, <2>1, DeclaringIs DEF Extends
  <2>3. <<r, q>> \in Links(tree)
    BY <2>2 DEF Links
  <2>4. QED BY <2>3
<1> HIDE DEF links, touched, old, new
<1>7. CASE old[p].role # "type"
  <2> DEFINE s == old[p].super
  <2>1. CASE s = None \/ old[s] = new[s]
    BY <1>1, <1>2, <1>7, <2>1, SameMappings DEF old, new
  <2>2. CASE s # None /\ old[s] # new[s]
    <3>1. s \in Paths /\ s \in touched
      BY <1>1, <1>2, <1>4, <2>2, SuperIsPlain DEF JavaFiles
    <3>2. Silent(old, s)
      <4>1. ASSUME ~Silent(old, s) PROVE FALSE
        <5>1. Extends(old, p, s)
          BY <1>1, <1>2, <1>7, <4>1, SuperIsPlain DEF Silent, Extends
        <5>2. QED BY <1>3, <1>5, <3>1, <5>1
      <4>2. QED BY <4>1
    <3>3. Silent(new, s)
      <4>1. ASSUME ~Silent(new, s) PROVE FALSE
        <5>1. Extends(new, p, s)
          BY <1>1, <1>2, <1>7, <4>1, SuperIsPlain DEF Silent, Extends
        <5>2. QED BY <1>3, <1>6, <3>1, <5>1
      <4>2. QED BY <4>1
    <3>4. MappingsOf(old, p) = Own(old, p) /\ MappingsOf(new, p) = Own(new, p)
      BY <1>1, <1>2, <1>7, <3>2, <3>3, SilentMappings
    <3>5. Own(old, p) = Own(new, p)
      BY <1>2 DEF Own, OwnPrefix
    <3>6. QED BY <3>4, <3>5 DEF old, new
  <2>3. QED BY <2>1, <2>2
<1>8. CASE old[p].role = "type"
  <2>1. ASSUME NEW r PROVE Extends(old, r, p) <=> Extends(new, r, p)
    <3>1. ASSUME Extends(old, r, p) PROVE Extends(new, r, p)
      <4>1. r \in Paths /\ r \notin touched
        BY <1>3, <1>5, <3>1 DEF Extends, Types, Present
      <4>2. old[r] = new[r]
        BY <1>4, <4>1
      <4>3. QED BY <1>2, <3>1, <4>2 DEF Extends, Types, Present
    <3>2. ASSUME Extends(new, r, p) PROVE Extends(old, r, p)
      <4>1. r \in Paths /\ r \notin touched
        BY <1>3, <1>6, <3>2 DEF Extends, Types, Present
      <4>2. old[r] = new[r]
        BY <1>4, <4>1
      <4>3. QED BY <1>2, <3>2, <4>2 DEF Extends, Types, Present
    <3>3. QED BY <3>1, <3>2
  <2>2. Inheritors(old, p) = {} <=> Inheritors(new, p) = {}
    BY <1>1, <2>1, InheritorsAre
  <2>3. Own(old, p) = Own(new, p)
    BY <1>2 DEF Own, OwnPrefix
  <2>4. MappingsOf(old, p) = MappingsOf(new, p)
    BY <1>1, <1>2, <1>8, <2>2, <2>3, InheritedMappings
  <2>5. QED BY <2>4 DEF old, new
<1>9. QED BY <1>7, <1>8

\* The mappings that are extracted.
LEMMA ExtractedMappings ==
    ASSUME NEW t, NEW layout, NEW p, p.kind = "java"
    PROVE  Extract(t, layout, p).mappings = MappingsOf(t, p)
BY DEF Extract

\* The first index.
LEMMA InitRoutes ==
    ASSUME ~OutsideInputs, OneLevel
    PROVE  Init => RoutesInv
<1> SUFFICES ASSUME Init PROVE RoutesInv
  OBVIOUS
<1>1. SettingsInv /\ Closed(tree)
  BY InitSettings DEF SettingsInv
<1>2. Typed(tree)
  BY TreesAssumption DEF Init, Typed, JavaFiles
<1>3. /\ index.content = Recorded(tree)
      /\ DOMAIN index.facts = Inventory(tree)
      /\ \A p \in Inventory(tree) : index.facts[p] = Extract(tree, LayoutOf(tree), p)
  BY DEF Init, FromScratch
<1>4. RoutesAreOfTheIndex
  BY <1>1, <1>2, <1>3, ExtractedMappings, MappingsAreRecorded DEF RoutesAreOfTheIndex
<1>5. QED BY <1>1, <1>2, <1>3, <1>4, RecordedTyped DEF RoutesInv

\* Every step keeps the invariant.
LEMMA NextRoutes ==
    ASSUME ~OutsideInputs, OneLevel
    PROVE  RoutesInv /\ [Next]_vars => RoutesInv'
<1> SUFFICES ASSUME RoutesInv, [Next]_vars PROVE RoutesInv'
  OBVIOUS
<1>1. SettingsInv' /\ Typed(tree) /\ Typed(index.content) /\ RoutesAreOfTheIndex
  BY NextSettings DEF RoutesInv
<1>2. CASE UNCHANGED vars
  BY <1>1, <1>2 DEF RoutesInv, RoutesAreOfTheIndex, Typed, vars
<1>3. ASSUME NEW p \in Paths, NEW content \in Contents[p] \cup {None}, Edit(p, content)
      PROVE  RoutesInv'
  <2>1. index' = index /\ tree' = [tree EXCEPT ![p] = content]
    BY <1>3 DEF Edit
  <2>2. Typed(tree)'
    <3>1. ASSUME NEW q \in JavaFiles PROVE tree'[q] \in Contents[q] \cup {None}
      <4>1. tree'[q] = tree[q] \/ (q = p /\ tree'[q] = content)
        BY <2>1
      <4>2. QED BY <1>1, <3>1, <4>1 DEF Typed
    <3>2. QED BY <3>1 DEF Typed
  <2>3. Typed(index.content)' /\ RoutesAreOfTheIndex'
    BY <1>1, <2>1 DEF Typed, RoutesAreOfTheIndex
  <2>4. QED BY <1>1, <2>2, <2>3 DEF RoutesInv
<1>4. ASSUME NEW full \in BOOLEAN, Index(full) PROVE RoutesInv'
  <2>1. /\ index'.content = Recorded(tree) /\ tree' = tree
        /\ DOMAIN index'.facts = Inventory(tree) /\ Closed(tree)
        /\ DOMAIN index.facts = Present(index.content)
    BY <1>4, Committed DEF RoutesInv, SettingsInv, ModuleInv, ModulesAreOfTheIndex
  <2>2. ASSUME NEW p \in Inventory(tree), p.kind = "java"
        PROVE  index'.facts[p].mappings = MappingsOf(Recorded(tree), p)
    <3>1. CASE p \in Rescanned(tree, index, full)
      BY <1>1, <1>4, <2>1, <2>2, <3>1, Committed, ExtractedMappings, MappingsAreRecorded
    <3>2. CASE p \notin Rescanned(tree, index, full)
      <4>1. p \in DOMAIN index.facts
        BY <2>1, <3>2, NotRescanned
      <4>2. index'.facts[p].mappings = MappingsOf(index.content, p)
        BY <1>1, <1>4, <2>2, <3>2, <4>1, Committed DEF RoutesAreOfTheIndex
      <4>3. QED BY <2>2, <3>2, <4>2, SameRoutes
    <3>3. QED BY <3>1, <3>2
  <2>3. RoutesAreOfTheIndex'
    BY <2>1, <2>2 DEF RoutesAreOfTheIndex
  <2>4. Typed(tree)' /\ Typed(index.content)'
    BY <1>1, <2>1, RecordedTyped DEF Typed
  <2>5. QED BY <1>1, <2>3, <2>4 DEF RoutesInv
<1>5. QED BY <1>2, <1>3, <1>4 DEF Next

\* A fresh index has the routes of the repository.
LEMMA RoutesInvSuffices ==
    ASSUME OneLevel
    PROVE  RoutesInv => RoutesAreCurrent
<1> SUFFICES ASSUME RoutesInv, fresh, NEW p \in DOMAIN index.facts, p.kind = "java"
             PROVE  index.facts[p].mappings = MappingsOf(tree, p)
  BY DEF RoutesAreCurrent
<1>1. /\ p \in Inventory(tree) /\ index.content = Recorded(tree)
      /\ Closed(tree) /\ Typed(tree)
  BY RecordedFiles
     DEF RoutesInv, SettingsInv, ModuleInv, ModulesAreOfTheIndex, FreshIsOfTheTree
<1>2. QED BY <1>1, MappingsAreRecorded DEF RoutesInv, RoutesAreOfTheIndex

\* Where links are of one level, no heir redeclares everything, what maps
\* nothing has no prefix and nothing is read from outside the index, the
\* routes after every run are those of the whole repository: however few
\* files the run extracted, no route of a former supertype is left, and none
\* of an interface that has lost its last heir is missing.
THEOREM RoutesStayCurrent ==
    ASSUME ~OutsideInputs, OneLevel
    PROVE  Spec => []RoutesAreCurrent
<1>1. QED BY InitRoutes, NextRoutes, RoutesInvSuffices, PTL DEF Spec
=============================================================================
