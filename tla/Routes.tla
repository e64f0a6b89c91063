------------------------------- MODULE Routes -------------------------------
(***************************************************************************)
(* Matching of a called HTTP route with served routes: `paths_match`,      *)
(* `_route_rank` and `select_matching_routes` of domain/graph.py (ADR-77). *)
(*                                                                         *)
(* A topic is [method, path]; a path is a sequence of segments.  A segment *)
(* is a literal, a template, or the wildcard that only ends a path.        *)
(* Splitting a path at its slashes, dropping the query and reading the     *)
(* braces of a template are parsing: a path here is already split, and     *)
(* Allowed gives the literals that satisfy a template's regular            *)
(* expression (all of them for a template without one).                    *)
(***************************************************************************)
EXTENDS Naturals, Sequences, SequencesExt

CONSTANTS
    Literals,       \* literal segments
    Templates,      \* template segments, `{name}` or `{name:regex}`
    Allowed,        \* Allowed[t]: the literals a template accepts
    Wild,           \* the segment `**`
    AnyMethod,      \* the method `ANY`
    Methods         \* HTTP methods, AnyMethod among them

ASSUME RouteAssumption ==
    /\ Literals \cap Templates = {} /\ Wild \notin Literals \cup Templates
    /\ Allowed \in [Templates -> SUBSET Literals]
    /\ AnyMethod \in Methods

Segments == Literals \cup Templates \cup {Wild}

\* Only the last segment of a path may be the wildcard.
IsPath(path) == /\ path \in Seq(Segments)
                /\ \A i \in 1 .. Len(path) - 1 : path[i] # Wild

EndsWild(path) == path # <<>> /\ Last(path) = Wild

(***************************************************************************)
(* Two templates are compatible, whatever they accept: both values are     *)
(* unknown.  A literal reaches a template that accepts it.                 *)
(***************************************************************************)
SegmentMatches(one, other) ==
    \/ one = other
    \/ one \in Templates /\ other \in Templates
    \/ one \in Templates /\ other \in Allowed[one]
    \/ other \in Templates /\ one \in Allowed[other]

\* Mutant: `**` may stand for nothing.
WildcardMatchesNothing(pattern, concrete) ==
    /\ EndsWild(pattern)
    /\ Len(concrete) >= Len(pattern) - 1
    /\ \A i \in 1 .. Len(pattern) - 1 : SegmentMatches(pattern[i], concrete[i])

\* `**` stands for at least one segment of the other path.
MatchesWildcardPath(pattern, concrete) ==
    /\ EndsWild(pattern)
    /\ Len(concrete) >= Len(pattern)
    /\ \A i \in 1 .. Len(pattern) - 1 : SegmentMatches(pattern[i], concrete[i])

MethodsMatch(call, serve) ==
    call.method = serve.method \/ AnyMethod \in {call.method, serve.method}

PathsMatch(call, serve) ==
    /\ MethodsMatch(call, serve)
    /\ call.path # <<>>
    /\ \/ MatchesWildcardPath(call.path, serve.path)
       \/ MatchesWildcardPath(serve.path, call.path)
       \/ /\ Len(call.path) = Len(serve.path)
          /\ \A i \in 1 .. Len(call.path) :
                SegmentMatches(call.path[i], serve.path[i])

(***************************************************************************)
(* Rank of a served route among those a call matches: <<guessed, wild,     *)
(* bound, any>>, compared in that order, the lowest first.                 *)
(***************************************************************************)
Common(call, serve) ==
    {i \in DOMAIN call.path : i <= Len(serve.path)}

\* Mutant: a literal segment is worth no more than a template.
RankIgnoresLiterals(call, serve) ==
    <<0, IF EndsWild(serve.path) THEN 1 ELSE 0, 0,
      IF serve.method = AnyMethod /\ call.method # AnyMethod THEN 1 ELSE 0>>

RouteRank(call, serve) ==
    LET guessed == {i \in Common(call, serve) :
                       call.path[i] \in Templates /\ serve.path[i] \notin Templates}
        bound   == {i \in Common(call, serve) :
                       call.path[i] \notin Templates /\ serve.path[i] \in Templates}
        any     == IF serve.method = AnyMethod /\ call.method # AnyMethod
                   THEN 1 ELSE 0
    IN  IF EndsWild(serve.path) THEN <<0, 1, Len(serve.path), any>>
        ELSE <<IF guessed = {} THEN 0 ELSE 1, 0, Cardinality(bound), any>>

Precedes(rank, other) ==
    \E i \in DOMAIN rank : /\ rank[i] < other[i]
                           /\ \A j \in 1 .. i - 1 : rank[j] = other[j]

(***************************************************************************)
(* The served endpoints a call reaches, among those of one service.  The   *)
(* routes a call with ANY matches are ranked per served method.            *)
(***************************************************************************)
SelectMatchingRoutes(call, serves) ==
    LET candidates == {s \in serves : PathsMatch(call, s.topic)}
        Rivals(s)  == {r \in candidates : call.method = AnyMethod
                                          => r.topic.method = s.topic.method}
        Best(s)    == \A r \in Rivals(s) : ~Precedes(RouteRank(call, r.topic),
                                                     RouteRank(call, s.topic))
        AllGuess(s) == \A r \in Rivals(s) : RouteRank(call, r.topic)[1] = 1
    IN  IF EndsWild(call.path) THEN candidates
        ELSE {s \in candidates : AllGuess(s) \/ Best(s)}

-----------------------------------------------------------------------------
(***************************************************************************)
(* What a path stands for: the requests it accepts.                        *)
(***************************************************************************)
Requests(n) == UNION {[1 .. k -> Literals] : k \in 0 .. n}

Fits(path, request) ==
    LET fixed == IF EndsWild(path) THEN Front(path) ELSE path
    IN  /\ IF EndsWild(path) THEN Len(request) >= Len(path)
                             ELSE Len(request) = Len(path)
        /\ \A i \in DOMAIN fixed : \/ fixed[i] = request[i]
                                   \/ /\ fixed[i] \in Templates
                                      /\ request[i] \in Allowed[fixed[i]]

Concrete(path) == \A i \in DOMAIN path : path[i] \in Literals

Longer(path, other) == IF Len(path) > Len(other) THEN Len(path) ELSE Len(other)

\* The segments of a request that a path does not name.
Open(path, request) ==
    {i \in DOMAIN request : i > Len(path) \/ path[i] # request[i]}

\* The path names all of the request that the other names, and more.
Narrower(path, other, request) ==
    /\ Open(path, request) \subseteq Open(other, request)
    /\ Open(path, request) # Open(other, request)
=============================================================================
