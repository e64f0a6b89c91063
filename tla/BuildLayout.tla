----------------------------- MODULE BuildLayout -----------------------------
(***************************************************************************)
(* Which directories of a repository are Maven projects, what each is      *)
(* called, which directories are left out of the index, and which project  *)
(* owns a file (discovery/build/projects.py).                              *)
(*                                                                         *)
(* A build is a function from directories to POMs: a POM has a name and    *)
(* the directories its <modules> name.  Gradle builds, whose settings      *)
(* declare projects in the same way, are left out.                         *)
(***************************************************************************)
EXTENDS Naturals, FiniteSets, Sequences, SequencesExt

CONSTANTS
    Dirs,      \* directories of the repository
    Root,      \* the repository itself
    Above,     \* Above[d]: the directories that contain d, without d
    ByDepth,   \* the directories in the order of their depth, then of their path
    Names,     \* artifact names
    TestNames, \* those of test, mock and archetype modules
    None       \* no such file, no such value

ASSUME TreeAssumption ==
    /\ Root \in Dirs /\ Above \in [Dirs -> SUBSET Dirs]
    /\ \A d \in Dirs : d \notin Above[d]
    /\ \A d \in Dirs : \A e \in Above[d] : Above[e] \subseteq Above[d]
    /\ \A d \in Dirs : \A e, f \in Above[d] : e = f \/ e \in Above[f] \/ f \in Above[e]
    /\ \A d \in Dirs \ {Root} : Root \in Above[d]
ASSUME OrderAssumption ==
    /\ ByDepth \in Seq(Dirs) /\ ToSet(ByDepth) = Dirs /\ Len(ByDepth) = Cardinality(Dirs)
    /\ \A i, j \in DOMAIN ByDepth : ByDepth[i] \in Above[ByDepth[j]] => i < j
ASSUME NoDirectoryIsNone == None \notin Dirs
ASSUME NamesAssumption == TestNames \subseteq Names

Poms == [name : Names, modules : SUBSET Dirs]
Builds == [Dirs -> Poms \cup {None}]

\* d and what contains it.
Within(d) == {d} \cup Above[d]

\* Of directories that all contain one other: the one inside all others.
Deepest(S) == CHOOSE d \in S : S \subseteq Within(d)

-----------------------------------------------------------------------------
(* Projects (_maven_projects)                                              *)

HasPom(build) == {d \in Dirs : build[d] # None}

\* A module that cannot be found makes the declaration incomplete.
Complete(build, d) ==
    build[d].modules # {} /\ build[d].modules \subseteq HasPom(build)

Governed(d, governors) == Above[d] \cap governors # {}

Visit(build, found, d) ==
    IF build[d] = None \/ d \in found.kept
       \/ (Governed(d, found.governors) /\ d \notin found.declared)
    THEN found
    ELSE [kept |-> found.kept \cup {d},
          declared |-> found.declared \cup (build[d].modules \cap HasPom(build)),
          governors |-> found.governors
                          \cup IF Complete(build, d) THEN {d} ELSE {}]

Nothing == [kept |-> {}, declared |-> {}, governors |-> {}]

\* One pass over the directories, from what the passes before have found.
Visits(build, found) ==
    LET seen[n \in 0..Len(ByDepth)] ==
            IF n = 0 THEN found ELSE Visit(build, seen[n - 1], ByDepth[n])
    IN  seen

Pass(build, found) == Visits(build, found)[Len(ByDepth)]

\* Mutant: the directories are visited once.
OnePass(build) == Pass(build, Nothing).kept

\* Passes until one changes nothing.  A pass that changes something keeps a
\* directory more, so that as many passes as directories are enough.
Passes(build) ==
    LET after[n \in 0..Len(ByDepth)] ==
            IF n = 0 THEN Nothing ELSE Pass(build, after[n - 1])
    IN  after

MavenProjects(build) == Passes(build)[Len(ByDepth)].kept

-----------------------------------------------------------------------------
(* The layout (build_layout)                                               *)

Inside(d, S) == Within(d) \cap S # {}

\* A layout: the projects with their identities, <<>> elsewhere, and what is
\* left out.  Two projects of one name are told apart by their directories.
Layout(build) ==
    LET kept == MavenProjects(build)
        rejected == {d \in kept : build[d].name \in TestNames}
        projects == {d \in kept : ~Inside(d, rejected)}
        undeclared == {d \in HasPom(build) \ kept :
                          ~\E p \in projects : d \in Above[p]}
        Alone(d) == \A e \in projects \ {d} : build[e].name # build[d].name
    IN  [projects |-> projects,
         identity |-> [d \in Dirs |->
                         IF d \notin projects THEN <<>>
                         ELSE IF Alone(d) THEN <<build[d].name>>
                         ELSE <<build[d].name, d>>],
         excluded |-> rejected \cup undeclared]

\* The project that owns what is in directory d; None when nothing or an
\* excluded directory does (BuildLayout.owner).
Owner(layout, d) ==
    LET stops == Within(d) \cap (layout.projects \cup layout.excluded)
    IN  IF stops = {} \/ Deepest(stops) \notin layout.projects THEN None
        ELSE Deepest(stops)

\* A workspace without a descriptor of its own is indexed below its outermost
\* build directories only (_nested_build_roots).
NestedRoots(build) ==
    IF Root \in HasPom(build) THEN {}
    ELSE {d \in HasPom(build) : Above[d] \cap HasPom(build) = {}}

\* Is what is in directory d part of the index (list_repo_files)?
Indexed(build, layout, d) ==
    /\ ~Inside(d, layout.excluded)
    /\ NestedRoots(build) # {} => Inside(d, NestedRoots(build))

-----------------------------------------------------------------------------
(* Properties of a build                                                   *)

\* "Below its directory, only the POMs it declares, recursively, are
\* projects" and a declaration that cannot be read "declares nothing, and
\* discovery keeps every build file below it" (projects.py:14-21), whatever
\* the order in which the declarations are found.
DeclaresItsBuild(build) ==
    LET kept == MavenProjects(build)
        Found(e) == build[e].modules \cap HasPom(build)
        Governs(e) == Found(e) # {} /\ Found(e) = build[e].modules
    IN  \A d \in HasPom(build) :
            d \in kept <=> \/ \E e \in kept : d \in build[e].modules
                          \/ ~\E e \in kept \cap Above[d] : Governs(e)
=============================================================================
