-------------------------------- MODULE Delta --------------------------------
(***************************************************************************)
(* Incremental indexing: which files a run of `systemlens index` extracts  *)
(* again.  The facts of a file depend on more than the file: on the        *)
(* project that owns it, on the Spring configuration above it, on the      *)
(* types whose request mappings it inherits, or that inherit its own.      *)
(* _index_repo therefore expands the changed and deleted files by three    *)
(* rules, one after the other.                                             *)
(*                                                                         *)
(* A path is [kind, dir, name].  What a file contains is abstracted to     *)
(* what the rules and the extraction tell apart: a POM as in BuildLayout;  *)
(* a configuration a version; a Java type its role (a controller, a Feign  *)
(* client, or another type), the methods it maps, its supertype, a prefix  *)
(* of the type or not, and a version.  A type has at most one supertype    *)
(* and is alone in its file.                                               *)
(***************************************************************************)
EXTENDS BuildLayout

CONSTANTS
    Paths,         \* the files the repository may have
    Contents,      \* Contents[p]: what may be in file p
    Trees,         \* the repositories at the first index
    MaxEdits,      \* bound: edits of the repository
    OutsideInputs  \* may a file that is not indexed be an input of one that is?

Pom(d) == [kind |-> "pom", dir |-> d, name |-> "pom.xml"]

ASSUME PathsAssumption ==
    /\ Paths \subseteq [kind : {"pom", "config", "cloud", "java"}, dir : Dirs,
                        name : STRING]
    /\ \A d \in Dirs : Pom(d) \in Paths
ASSUME TreesAssumption ==
    \A t \in Trees : /\ t = [p \in Paths |-> t[p]]
                     /\ \A p \in Paths : t[p] \in Contents[p] \cup {None}
ASSUME BoundsAssumption == MaxEdits \in Nat /\ OutsideInputs \in BOOLEAN

VARIABLES
    tree,   \* the repository on disk
    index,  \* the committed index
    fresh,  \* no edit since the index
    edits   \* edits so far

vars == <<tree, index, fresh, edits>>

-----------------------------------------------------------------------------
(* The repository                                                          *)

Present(t) == {p \in Paths : t[p] # None}

BuildOf(t) == [d \in Dirs |-> t[Pom(d)]]

LayoutOf(t) == Layout(BuildOf(t))

\* list_repo_files
Inventory(t) ==
    LET build == BuildOf(t)
        layout == Layout(build)
        dirs == {d \in Dirs : Indexed(build, layout, d)}
    IN  {p \in Present(t) : p.dir \in dirs}

-----------------------------------------------------------------------------
(* Inherited mappings (rest_inheritance.py), over every Java file on disk  *)

Types(t) == {p \in Present(t) : p.kind = "java"}

\* visit goes on while its depth is at most 8, and the first has depth 0.
MaxSupertypes == 9

\* One supertype more, unless it is unknown or was met before.
Climb(t, chain) ==
    LET next == t[Last(chain)].super
    IN  IF next = None \/ t[next] = None \/ next \in ToSet(chain) THEN chain
        ELSE Append(chain, next)

Climbs(t, p) ==
    LET up[n \in 0..MaxSupertypes] == IF n = 0 THEN <<p>> ELSE Climb(t, up[n - 1])
    IN  up

\* The supertypes of a type that are in the repository, the nearest first.
Chain(t, p) == Tail(Climbs(t, p)[MaxSupertypes])

\* The supertypes with request mappings, for a controller or Feign client.
Declaring(t, p) ==
    IF t[p].role = "type" THEN {} ELSE {q \in ToSet(Chain(t, p)) : t[q].methods # {}}

Inheritors(t, q) == {p \in Types(t) : q \in Declaring(t, p)}

Links(t) == {l \in Types(t) \X Types(t) : l[2] \in Declaring(t, l[1])}

\* The nearest type of the sequence that is in S.
NearestIn(chain, S) ==
    chain[CHOOSE i \in DOMAIN chain :
             chain[i] \in S /\ \A j \in DOMAIN chain : chain[j] \in S => i <= j]

\* A type-level prefix.
OwnPrefix(t, p) == IF t[p].prefixed THEN <<t[p].version>> ELSE <<>>

\* The prefix of a mapping of q in p: a controller's own, or the nearest one
\* above it; a client's own before that of the type it extends.
PrefixOf(t, p, q) ==
    LET candidates == <<p>> \o Chain(t, p)
        having == {r \in ToSet(candidates) : t[r].prefixed}
    IN  CASE t[p].role = "controller" ->
               IF having # {} THEN OwnPrefix(t, NearestIn(candidates, having)) ELSE <<>>
          [] t[p].role = "client" /\ q # p -> OwnPrefix(t, p) \o OwnPrefix(t, q)
          [] OTHER -> OwnPrefix(t, p)

Mapping(t, p, m, q) ==
    [method |-> m, from |-> q, version |-> t[q].version, prefix |-> PrefixOf(t, p, q)]

\* A controller's or client's own mappings and the inherited ones, each of
\* its nearest declaration; another type's own ones, when nothing inherits
\* them.
MappingsOf(t, p) ==
    LET all == UNION {t[q].methods : q \in ToSet(Chain(t, p))}
        Source(m) == NearestIn(Chain(t, p), {q \in ToSet(Chain(t, p)) : m \in t[q].methods})
    IN  IF t[p].role # "type"
        THEN {Mapping(t, p, m, p) : m \in t[p].methods}
             \cup {Mapping(t, p, m, Source(m)) : m \in all \ t[p].methods}
        ELSE IF Inheritors(t, p) # {} THEN {}
        ELSE {Mapping(t, p, m, p) : m \in t[p].methods}

-----------------------------------------------------------------------------
(* The facts of a file                                                     *)

\* The configuration a file reads: what is above it, and the central files of
\* the applications.
Configuration(t, p) ==
    {q \in Present(t) : q.kind = "cloud" \/ (q.kind = "config" /\ q.dir \in Within(p.dir))}

Settings(t, p) == {<<q, t[q]>> : q \in Configuration(t, p)}

Module(layout, p) ==
    IF Owner(layout, p.dir) = None THEN <<>> ELSE layout.identity[Owner(layout, p.dir)]

Extract(t, layout, p) ==
    [module   |-> Module(layout, p),
     settings |-> Settings(t, p),
     mappings |-> IF p.kind = "java" THEN MappingsOf(t, p) ELSE {}]

\* What else the facts of a file come from.
Inputs(t, p) ==
    Configuration(t, p)
    \cup IF p.kind # "java" THEN {}
         ELSE ToSet(Chain(t, p)) \cup Inheritors(t, p)

\* The hashes the index keeps.
Recorded(t) ==
    LET indexed == Inventory(t)
    IN  [p \in Paths |-> IF p \in indexed THEN t[p] ELSE None]

\* An index of a repository, from nothing.
FromScratch(t) ==
    LET layout == LayoutOf(t)
        indexed == Inventory(t)
    IN  [content  |-> Recorded(t),
         facts    |-> [p \in indexed |-> Extract(t, layout, p)],
         identity |-> layout.identity]

-----------------------------------------------------------------------------
(* The delta                                                               *)

Below(d, p) == d \in Within(p.dir)

\* Mutant: only files of the project of a touched one are its dependents.
NoneAtRoot(current, touched, layout) ==
    LET Owners(p) == Within(p.dir) \cap layout.projects
    IN  {p \in current : \E q \in touched :
            q.kind # "java" /\ Owners(q) # {} /\ Below(Deepest(Owners(q)), p)}

\* dependent_rescan_paths: files whose owner's configuration or descriptor
\* was touched.  Everything, when no project but the repository bounds them.
Dependents(current, touched, layout) ==
    LET invalidated == {p \in touched : p.kind # "java"}
        projects == layout.projects
        Owners(p) == Within(p.dir) \cap projects
        affected == {Deepest(Owners(p)) : p \in {q \in invalidated : Owners(q) # {}}}
    IN  IF \/ \E p \in invalidated : p.kind = "cloud" \/ Owners(p) = {}
           \/ Root \in affected
        THEN current
        ELSE {p \in current : \E d \in affected : Below(d, p)}

\* Mutant: links as they are now only.
OnlyCurrentLinks(facts) == {}

\* previous_inherited_mapping_links: the markers of the persisted mappings.
Markers(facts) ==
    UNION {{<<p, m.from>> : m \in {x \in facts[p].mappings : x.from # p}} :
              p \in DOMAIN facts}

\* inherited_mapping_rescan_paths
LinkedTo(current, touched, links) ==
    {p \in current : \E l \in links : \/ l[1] = p /\ l[2] \in touched
                                      \/ l[2] = p /\ l[1] \in touched}

\* Mutant: a project that gets another name, or goes, changes no file.
NewModulesOnly(current, before, after) ==
    {p \in current : \E d \in Dirs :
        before[d] = <<>> /\ after[d] # <<>> /\ Below(d, p)}

\* _module_identity_rescan_paths
OfChangedModules(current, before, after) ==
    LET roots == {d \in Dirs : before[d] # after[d]}
    IN  IF Root \in roots THEN current
        ELSE {p \in current : \E d \in roots : Below(d, p)}

\* The files that _index_repo extracts.
Rescanned(t, old, full) ==
    LET layout == LayoutOf(t)
        current == Inventory(t)
        deleted == {p \in DOMAIN old.facts : p \notin current}
        changed == {p \in current : full \/ t[p] # old.content[p]}
        dependent == changed \cup Dependents(current, changed \cup deleted, layout)
        linked == dependent \cup
                    LinkedTo(current, dependent \cup deleted,
                             Markers(old.facts) \cup Links(t))
    IN  linked \cup OfChangedModules(current, old.identity, layout.identity)

-----------------------------------------------------------------------------
(* Readers of what the index leaves out see no change of it.               *)
Closed(t) ==
    LET indexed == Inventory(t)
    IN  \A p \in indexed : Inputs(t, p) \subseteq indexed

Init == /\ tree \in Trees /\ (OutsideInputs \/ Closed(tree))
        /\ index = FromScratch(tree)
        /\ fresh = TRUE /\ edits = 0

Edit(p, content) ==
    /\ edits < MaxEdits /\ tree[p] # content
    /\ tree' = [tree EXCEPT ![p] = content]
    /\ OutsideInputs \/ Closed(tree')
    /\ edits' = edits + 1 /\ fresh' = FALSE
    /\ UNCHANGED index

\* One run, with or without `--full`.
Index(full) ==
    LET current == Inventory(tree)
        layout == LayoutOf(tree)
        rescanned == Rescanned(tree, index, full)
    IN  /\ ~fresh
        /\ index' = [content  |-> Recorded(tree),
                     facts    |-> [p \in current |-> IF p \in rescanned
                                                     THEN Extract(tree, layout, p)
                                                     ELSE index.facts[p]],
                     identity |-> layout.identity]
        /\ fresh' = TRUE /\ UNCHANGED <<tree, edits>>

Next == \/ \E p \in Paths : \E content \in Contents[p] \cup {None} : Edit(p, content)
        \/ \E full \in BOOLEAN : Index(full)

Spec == Init /\ [][Next]_vars

-----------------------------------------------------------------------------
(* Properties                                                              *)

\* After every run the routes in the index are those a scan of the whole
\* repository finds: no route of a former supertype is kept, and a declaring
\* type has its own mappings again when nothing inherits them
\* (_ast_rest_endpoints: "only when no inheritor is indexed").
RoutesAreCurrent ==
    fresh => \A p \in DOMAIN index.facts :
                    p.kind = "java" => index.facts[p].mappings = MappingsOf(tree, p)

\* After every run each file was extracted under the project that owns it
\* now, though no build file above it may have changed: a second project of
\* the same name renames both ("no fact keeps an identity that no longer
\* exists", docs/spec-fonc/incrementality.md).
ModulesAreCurrent ==
    fresh =>
        LET layout == LayoutOf(tree)
        IN  \A p \in DOMAIN index.facts : index.facts[p].module = Module(layout, p)

\* After every run each file was extracted with the configuration it reads
\* now, which may be in another directory or another project.
SettingsAreCurrent ==
    fresh => \A p \in DOMAIN index.facts : index.facts[p].settings = Settings(tree, p)

\* Every build is laid out as its declarations say.
AggregatorsDeclareTheirBuild == DeclaresItsBuild(BuildOf(tree))
=============================================================================
