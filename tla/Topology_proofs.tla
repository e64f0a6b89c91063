--------------------------- MODULE Topology_proofs ---------------------------
(***************************************************************************)
(* Proofs about the links between services.                                *)
(***************************************************************************)
EXTENDS Topology, FiniteSetTheorems, WellFoundedInduction, TLAPS

-----------------------------------------------------------------------------
(* Two routes and the requests they share                                  *)

\* Some segment satisfies each template, and there is a segment at all.
TemplatesAccept == Literals # {} /\ \A t \in Templates : Allowed[t] # {}

\* The segment of a route accepts the one of a request.
Accepts(segment, literal) ==
    segment = literal \/ (segment \in Templates /\ literal \in Allowed[segment])

\* How many segments of a path stand for one segment of a request each.
Fixed(path) == IF EndsWild(path) THEN Len(path) - 1 ELSE Len(path)

LEMMA PathParts ==
  ASSUME NEW p, IsPath(p)
  PROVE  /\ Len(p) \in Nat /\ DOMAIN p = 1 .. Len(p) /\ Fixed(p) \in 0 .. Len(p)
         /\ \A i \in 1 .. Len(p) : p[i] \in Segments
         /\ \A i \in 1 .. Fixed(p) : p[i] \in Literals \cup Templates
         /\ p # <<>> => Len(p) > 0
         /\ EndsWild(p) => Len(p) > 0 /\ p[Len(p)] = Wild /\ Fixed(p) = Len(p) - 1
         /\ ~EndsWild(p) => Fixed(p) = Len(p)
  <1>1. p \in Seq(Segments) /\ \A i \in 1 .. Len(p) - 1 : p[i] # Wild
    BY DEF IsPath
  <1>2. /\ Len(p) \in Nat /\ DOMAIN p = 1 .. Len(p)
        /\ \A i \in 1 .. Len(p) : p[i] \in Segments
        /\ p # <<>> => Len(p) > 0
    BY <1>1
  <1>3. EndsWild(p) => Len(p) > 0 /\ p[Len(p)] = Wild
    BY <1>2 DEF EndsWild, Last
  <1>4. ~EndsWild(p) => p = <<>> \/ p[Len(p)] # Wild
    BY DEF EndsWild, Last
  <1>5. \A i \in 1 .. Fixed(p) : p[i] # Wild
    BY <1>1, <1>2, <1>3, <1>4 DEF Fixed
  <1>6. Fixed(p) \in 0 .. Len(p) /\ (EndsWild(p) => Fixed(p) = Len(p) - 1)
    <2>1. CASE EndsWild(p)
      <3>1. Fixed(p) = Len(p) - 1
        BY <2>1 DEF Fixed
      <3> QED BY <1>2, <1>3, <2>1, <3>1
    <2>2. CASE ~EndsWild(p)
      <3>1. Fixed(p) = Len(p)
        BY <2>2 DEF Fixed
      <3>2. Fixed(p) \in 0 .. Len(p)
        BY <1>2, <3>1
      <3> QED BY <2>2, <3>2, Zenon
    <2> QED BY <2>1, <2>2
  <1>7. \A i \in 1 .. Fixed(p) : p[i] \in Literals \cup Templates
    BY <1>2, <1>5, <1>6 DEF Segments
  <1>8. ~EndsWild(p) => Fixed(p) = Len(p)
    BY DEF Fixed
  <1> QED BY <1>2, <1>3, <1>6, <1>7, <1>8

\* Fits, a position at a time.
LEMMA FitsByPosition ==
  ASSUME NEW p, IsPath(p), NEW n \in Nat, NEW q \in [1 .. n -> Literals]
  PROVE  Fits(p, q) <=> /\ IF EndsWild(p) THEN n >= Len(p) ELSE n = Len(p)
                        /\ \A i \in 1 .. Fixed(p) : Accepts(p[i], q[i])
  <1>1. Len(q) = n
    OBVIOUS
  <1>2. CASE EndsWild(p)
    <2>1. Len(p) - 1 \in Nat /\ p \in Seq(Segments)
      BY <1>2, PathParts DEF IsPath
    <2>2. DOMAIN Front(p) = 1 .. Fixed(p) /\ \A i \in 1 .. Fixed(p) : Front(p)[i] = p[i]
      BY <1>2, <2>1, PathParts DEF Front, Fixed
    <2> QED BY <1>1, <1>2, <2>2 DEF Fits, Accepts
  <1>3. CASE ~EndsWild(p)
    BY <1>1, <1>3, PathParts DEF Fits, Accepts, Fixed
  <1> QED BY <1>2, <1>3

LEMMA SegmentsShare ==
  ASSUME NEW a, NEW b, NEW x \in Literals, Accepts(a, x), Accepts(b, x)
  PROVE  SegmentMatches(a, b)
  BY RouteAssumption DEF Accepts, SegmentMatches

LEMMA MatchesShare ==
  ASSUME TemplatesAccept, NEW a \in Literals \cup Templates, NEW b \in Literals \cup Templates,
         SegmentMatches(a, b), ~(a \in Templates /\ b \in Templates)
  PROVE  \E x \in Literals : Accepts(a, x) /\ Accepts(b, x)
  BY RouteAssumption DEF TemplatesAccept, Accepts, SegmentMatches

\* A request of both routes shows that they match.
LEMMA SharedRequestMatches ==
  ASSUME NEW c, NEW s, IsPath(c.path), IsPath(s.path), c.path # <<>>, MethodsMatch(c, s),
         NEW n \in Nat, NEW q \in [1 .. n -> Literals], Fits(c.path, q), Fits(s.path, q)
  PROVE  PathsMatch(c, s)
  <1> DEFINE p == c.path
             r == s.path
  <1>1. /\ IF EndsWild(p) THEN n >= Len(p) ELSE n = Len(p)
        /\ \A i \in 1 .. Fixed(p) : Accepts(p[i], q[i])
    BY FitsByPosition
  <1>2. /\ IF EndsWild(r) THEN n >= Len(r) ELSE n = Len(r)
        /\ \A i \in 1 .. Fixed(r) : Accepts(r[i], q[i])
    BY FitsByPosition
  <1>3. /\ Len(p) \in Nat /\ Fixed(p) \in 0 .. Len(p)
        /\ EndsWild(p) => Fixed(p) = Len(p) - 1
        /\ ~EndsWild(p) => Fixed(p) = Len(p)
    BY PathParts
  <1>4. /\ Len(r) \in Nat /\ Fixed(r) \in 0 .. Len(r)
        /\ EndsWild(r) => Fixed(r) = Len(r) - 1
        /\ ~EndsWild(r) => Fixed(r) = Len(r)
    BY PathParts
  <1>5. ASSUME NEW i \in 1 .. n, i <= Fixed(p), i <= Fixed(r)
        PROVE  SegmentMatches(p[i], r[i]) /\ SegmentMatches(r[i], p[i])
    <2>1. i \in 1 .. Fixed(p) /\ i \in 1 .. Fixed(r) /\ q[i] \in Literals
      BY <1>3, <1>4, <1>5
    <2> QED BY <1>1, <1>2, <2>1, SegmentsShare
  <1>6. CASE EndsWild(p) /\ Len(r) >= Len(p)
    <2>1. \A i \in 1 .. Len(p) - 1 : i \in 1 .. n /\ i <= Fixed(p) /\ i <= Fixed(r)
      BY <1>1, <1>3, <1>4, <1>6
    <2>2. MatchesWildcardPath(p, r)
      BY <1>5, <1>6, <2>1 DEF MatchesWildcardPath
    <2> QED BY <2>2 DEF PathsMatch
  <1>7. CASE EndsWild(r) /\ Len(p) >= Len(r)
    <2>1. \A i \in 1 .. Len(r) - 1 : i \in 1 .. n /\ i <= Fixed(p) /\ i <= Fixed(r)
      BY <1>2, <1>3, <1>4, <1>7
    <2>2. MatchesWildcardPath(r, p)
      BY <1>5, <1>7, <2>1 DEF MatchesWildcardPath
    <2> QED BY <2>2 DEF PathsMatch
  <1>8. CASE ~EndsWild(p) /\ ~EndsWild(r)
    <2>1. Len(p) = Len(r)
      BY <1>1, <1>2, <1>8
    <2>2. \A i \in 1 .. Len(p) : SegmentMatches(p[i], r[i])
      BY <1>1, <1>3, <1>4, <1>5, <1>8, <2>1
    <2> QED BY <2>1, <2>2 DEF PathsMatch
  <1> QED BY <1>1, <1>2, <1>3, <1>4, <1>6, <1>7, <1>8

\* Matching routes have a request in common, unless two templates meet.
LEMMA MatchHasSharedRequest ==
  ASSUME TemplatesAccept, NEW c, NEW s, IsPath(c.path), IsPath(s.path), PathsMatch(c, s),
         \A i \in Common(c, s) : ~({c.path[i], s.path[i]} \subseteq Templates)
  PROVE  \E q \in Requests(Longer(c.path, s.path)) : Fits(c.path, q) /\ Fits(s.path, q)
  <1> DEFINE p == c.path
             r == s.path
             n == Longer(p, r)
             Good(i, x) == /\ i <= Fixed(p) => Accepts(p[i], x)
                           /\ i <= Fixed(r) => Accepts(r[i], x)
             q == [i \in 1 .. n |-> CHOOSE x \in Literals : Good(i, x)]
  <1>1. /\ Len(p) \in Nat /\ Fixed(p) \in 0 .. Len(p) /\ DOMAIN p = 1 .. Len(p)
        /\ \A i \in 1 .. Fixed(p) : p[i] \in Literals \cup Templates
        /\ EndsWild(p) => Fixed(p) = Len(p) - 1
        /\ ~EndsWild(p) => Fixed(p) = Len(p)
    BY PathParts
  <1>2. /\ Len(r) \in Nat /\ Fixed(r) \in 0 .. Len(r)
        /\ \A i \in 1 .. Fixed(r) : r[i] \in Literals \cup Templates
        /\ EndsWild(r) => Fixed(r) = Len(r) - 1
        /\ ~EndsWild(r) => Fixed(r) = Len(r)
    BY PathParts
  <1>3. n \in Nat /\ n >= Len(p) /\ n >= Len(r) /\ n \in {Len(p), Len(r)}
    BY <1>1, <1>2 DEF Longer
  <1>4. \/ EndsWild(p) /\ Len(r) >= Len(p) /\ \A i \in 1 .. Len(p) - 1 : SegmentMatches(p[i], r[i])
        \/ EndsWild(r) /\ Len(p) >= Len(r) /\ \A i \in 1 .. Len(r) - 1 : SegmentMatches(r[i], p[i])
        \/ Len(p) = Len(r) /\ \A i \in 1 .. Len(p) : SegmentMatches(p[i], r[i])
    BY DEF PathsMatch, MatchesWildcardPath
  <1>5. ASSUME NEW i \in 1 .. n, i <= Fixed(p), i <= Fixed(r)
        PROVE  SegmentMatches(p[i], r[i])
    <2>1. SegmentMatches(p[i], r[i]) \/ SegmentMatches(r[i], p[i])
      BY <1>1, <1>2, <1>4, <1>5
    <2> QED BY <2>1 DEF SegmentMatches
  <1>6. ASSUME NEW i \in 1 .. n
        PROVE  \E x \in Literals : Good(i, x)
    <2>1. CASE i <= Fixed(p) /\ i <= Fixed(r)
      <3>1. p[i] \in Literals \cup Templates /\ r[i] \in Literals \cup Templates
        BY <1>1, <1>2, <2>1
      <3>2. i \in Common(c, s)
        BY <1>1, <1>2, <2>1 DEF Common
      <3>3. ~(p[i] \in Templates /\ r[i] \in Templates)
        BY <3>2
      <3>4. \E x \in Literals : Accepts(p[i], x) /\ Accepts(r[i], x)
        BY <1>5, <2>1, <3>1, <3>3, MatchesShare
      <3> QED BY <3>4
    <2>2. CASE i <= Fixed(p) /\ ~(i <= Fixed(r))
      <3>1. p[i] \in Literals \cup Templates
        BY <1>1, <2>2
      <3> QED BY <2>2, <3>1, RouteAssumption DEF TemplatesAccept, Accepts
    <2>3. CASE ~(i <= Fixed(p)) /\ i <= Fixed(r)
      <3>1. r[i] \in Literals \cup Templates
        BY <1>2, <2>3
      <3> QED BY <2>3, <3>1, RouteAssumption DEF TemplatesAccept, Accepts
    <2>4. CASE ~(i <= Fixed(p)) /\ ~(i <= Fixed(r))
      BY <2>4 DEF TemplatesAccept
    <2> QED BY <2>1, <2>2, <2>3, <2>4
  <1>7. \A i \in 1 .. n : q[i] \in Literals /\ Good(i, q[i])
    BY <1>6
  <1>8. q \in [1 .. n -> Literals]
    BY <1>7
  <1> HIDE DEF q
  <1>9. Fits(p, q)
    <2>1. IF EndsWild(p) THEN n >= Len(p) ELSE n = Len(p)
      BY <1>1, <1>2, <1>3, <1>4
    <2>2. \A i \in 1 .. Fixed(p) : i \in 1 .. n /\ Accepts(p[i], q[i])
      BY <1>1, <1>3, <1>7
    <2> QED BY <1>3, <1>8, <2>1, <2>2, FitsByPosition
  <1>10. Fits(r, q)
    <2>1. IF EndsWild(r) THEN n >= Len(r) ELSE n = Len(r)
      BY <1>1, <1>2, <1>3, <1>4
    <2>2. \A i \in 1 .. Fixed(r) : i \in 1 .. n /\ Accepts(r[i], q[i])
      BY <1>2, <1>3, <1>7
    <2> QED BY <1>3, <1>8, <2>1, <2>2, FitsByPosition
  <1>11. q \in Requests(n)
    BY <1>3, <1>8 DEF Requests
  <1> QED BY <1>9, <1>10, <1>11

-----------------------------------------------------------------------------
(* What the runs keep                                                      *)

\* The flows that end in a call have the status the links of the index give
\* them, whatever facts were imported.
LinksInv ==
    /\ endpoints \in Inventories
    /\ Indexed => relations = Relations(endpoints)
    /\ \A f \in DOMAIN status :
          /\ f \in Flows(endpoints)
          /\ f[2].system = "rest" =>
                status[f] = Reconcile(f, endpoints, BuildGraph(endpoints), {})

LEMMA FlowEffects ==
  ASSUME NEW E, NEW f \in Flows(E)
  PROVE  /\ f[1] \in Grouped(E) /\ f[2] \in Grouped(E) /\ ToSet(f) \subseteq E
         /\ Effects(f) = {f[2]}
  <1>1. f = <<f[1], f[2]>> /\ f[1] \in Grouped(E) /\ f[2] \in Grouped(E)
    BY DEF Flows
  <1>2. ToSet(f) = {f[1], f[2]}
    BY <1>1 DEF ToSet
  <1>3. f[1].role \notin {"call", "produce"} /\ f[2].role \in {"call", "produce"}
    BY DEF Flows
  <1> QED BY <1>1, <1>2, <1>3 DEF Effects, Grouped

LEMMA FactsLeaveCalls ==
  ASSUME NEW E, NEW f \in Flows(E), f[2].system = "rest", NEW F, NEW built
  PROVE  Reconcile(f, E, built, EdgesFromFacts(F, E)) = Reconcile(f, E, built, {})
  <1> DEFINE asserted == EdgesFromFacts(F, E)
  <1>1. \A edge \in asserted : edge.source # f[2]
    <2>1. \A edge \in asserted : edge.source \in Of(E, "kafka", "produce")
      BY DEF EdgesFromFacts, Edge
    <2> QED BY <2>1 DEF Of
  <1> HIDE DEF asserted
  <1>2. \A A, e : e = f[2] /\ (A = asserted \/ A = {}) => {edge \in A : edge.source = e} = {}
    BY <1>1
  <1>3. \A e \in Effects(f) : e = f[2]
    BY FlowEffects
  <1>4. \A e \in Effects(f) : {edge \in built \cup asserted : edge.source = e}
                               = {edge \in built \cup {} : edge.source = e}
    BY <1>2, <1>3
  <1>5. \A e \in Effects(f) : {edge \in asserted : edge.source = e} = {edge \in {} : edge.source = e}
    BY <1>2, <1>3
  <1> QED BY <1>4, <1>5 DEF Reconcile, asserted

LEMMA LinksHold == Spec => []LinksInv
  <1>1. Init => LinksInv
    BY DEF Init, LinksInv, Indexed
  <1>2. LinksInv /\ [Next]_vars => LinksInv'
    <2> SUFFICES ASSUME LinksInv, [Next]_vars PROVE LinksInv'
      OBVIOUS
    <2>1. CASE Index
      <3>1. endpoints' = endpoints /\ relations' = Relations(endpoints)
        BY <2>1 DEF Index
      <3>2. status' = [f \in Flows(endpoints) |->
                          Reconcile(f, endpoints, BuildGraph(endpoints), {})]
        BY <2>1 DEF Index
      <3> QED BY <3>1, <3>2 DEF LinksInv
    <2>2. CASE ImportFacts
      BY <2>2 DEF ImportFacts, LinksInv, Indexed
    <2>3. CASE Calculate
      <3>1. endpoints' = endpoints /\ relations' = relations /\ Indexed
        BY <2>3 DEF Calculate, Indexed
      <3>2. status' = [f \in Flows(endpoints) |->
                          Reconcile(f, endpoints, BuildGraph(endpoints),
                                    EdgesFromFacts(facts, endpoints))]
        BY <2>3 DEF Calculate
      <3> QED BY <3>1, <3>2, FactsLeaveCalls DEF LinksInv
    <2>4. CASE UNCHANGED vars
      BY <2>4 DEF vars, LinksInv, Indexed
    <2> QED BY <2>1, <2>2, <2>3, <2>4 DEF Next
  <1> QED BY <1>1, <1>2, PTL DEF Spec

\* Of a call and a served route of any inventory: they match exactly when
\* some request is one of both, except where two templates meet, on which
\* paths_match cannot know (domain/graph.py).
THEOREM MatchingIsByRequests ==
  ASSUME TemplatesAccept
  PROVE  Spec => []RoutesMatchSharedRequests
  <1>1. LinksInv => RoutesMatchSharedRequests
    <2> SUFFICES ASSUME LinksInv, NEW c \in Calls, NEW s \in Of(endpoints, "rest", "serve"),
                        c.topic.path # <<>>, MethodsMatch(c.topic, s.topic)
                 PROVE  LET shared == \E q \in Requests(Longer(c.topic.path, s.topic.path)) :
                                         Fits(c.topic.path, q) /\ Fits(s.topic.path, q)
                            unknown == \E i \in Common(c.topic, s.topic) :
                                         {c.topic.path[i], s.topic.path[i]} \subseteq Templates
                        IN  /\ shared => PathsMatch(c.topic, s.topic)
                            /\ PathsMatch(c.topic, s.topic) => shared \/ unknown
      BY DEF RoutesMatchSharedRequests
    <2>1. IsPath(c.topic.path) /\ IsPath(s.topic.path)
      BY InventoriesAssumption DEF LinksInv, Calls, Of, Grouped
    <2>2. ASSUME NEW q \in Requests(Longer(c.topic.path, s.topic.path)),
                 Fits(c.topic.path, q), Fits(s.topic.path, q)
          PROVE  PathsMatch(c.topic, s.topic)
      <3>1. Longer(c.topic.path, s.topic.path) \in Nat
        BY <2>1, PathParts DEF Longer
      <3>2. PICK n \in Nat : q \in [1 .. n -> Literals]
        BY <2>2, <3>1 DEF Requests
      <3> QED BY <2>1, <2>2, <3>2, SharedRequestMatches
    <2> QED BY <2>1, <2>2, MatchHasSharedRequest
  <1> QED BY <1>1, LinksHold, PTL

-----------------------------------------------------------------------------
(* The links of a call that names its service                              *)

LEMMA LeastNumber ==
  ASSUME NEW S \in SUBSET Nat, S # {}
  PROVE  \E n \in S : \A m \in S : n <= m
  <1> DEFINE less == {ss \in Nat \X Nat : ss[1] < ss[2]}
  <1>1. IsWellFoundedOn(less, Nat)
    BY NatLessThanWellFounded DEF OpToRel
  <1>2. PICK n \in S : \A m \in S : ~(<<m, n>> \in less)
    BY <1>1, WFMin
  <1>3. ASSUME NEW m \in S, m < n PROVE FALSE
    <2>1. <<m, n>> \in less
      BY <1>3
    <2> QED BY <1>2, <2>1
  <1> QED BY <1>3

LEMMA FirstIsThere ==
  ASSUME NEW E \in Inventories, NEW S \in SUBSET E, S # {}
  PROVE  First(S) \in S
  <1> DEFINE ids == {e.id : e \in S}
  <1>1. ids \in SUBSET Nat /\ ids # {}
    BY InventoriesAssumption
  <1>2. PICK n \in ids : \A m \in ids : n <= m
    BY <1>1, LeastNumber
  <1>3. \E e \in S : \A other \in S : e.id <= other.id
    BY <1>2
  <1> QED BY <1>3 DEF First

\* A call without a contract, an external service or a stamped domain has the
\* links of the service it names, and no other.
LEMMA PlainCallLinks ==
  ASSUME NEW E \in Inventories, NEW c \in Of(E, "rest", "call"), Plain(c), NEW x
  PROVE  x \in BuildGraph(E) /\ x.source = c
           <=> \E s \in Reached(E, c) : x = Edge("rest", c.module, s.module, c, s)
  <1>1. c.system = "rest" /\ c.contracts = {} /\ c.external = None /\ c.domain = None
    BY DEF Of, Plain
  <1>2. ASSUME x \in ContractEdges(E) PROVE x.source # c
    <2> DEFINE Targets(d) == {s \in Of(E, "rest", "serve") :
                                /\ s.openapi /\ s.contracts \cap d.contracts # {}
                                /\ s.module # d.module
                                /\ PathsMatch(d.topic, s.topic)}
               bound == {d \in Of(E, "rest", "call") :
                           /\ d.contracts # {}
                           /\ Cardinality({s.module : s \in Targets(d)}) = 1}
    <2>1. x \in {Edge("rest", d.module, First(Targets(d)).module, d, First(Targets(d))) :
                    d \in bound}
      BY <1>2 DEF ContractEdges
    <2>2. PICK d \in bound :
             x = Edge("rest", d.module, First(Targets(d)).module, d, First(Targets(d)))
      BY <2>1
    <2> HIDE DEF Targets
    <2>3. x.source = d /\ d.contracts # {}
      BY <2>2 DEF Edge
    <2> QED BY <1>1, <2>3
  <1>3. ASSUME NEW resolved, x \in ConfiguredEdges(E, resolved) PROVE x.source # c
    <2> DEFINE waiting == {d \in Of(E, "rest", "call") :
                             /\ d.domain \in Services(E) \ {d.module}
                             /\ ~\E e \in resolved : e.source = d /\ e.to = d.domain}
    <2>1. PICK b \in waiting :
             x.source = First({d \in waiting : d.module = b.module /\ d.domain = b.domain})
      BY <1>3 DEF ConfiguredEdges, Edge
    <2>2. {d \in waiting : d.module = b.module /\ d.domain = b.domain} \in SUBSET E
      BY DEF Of, Grouped
    <2>3. x.source \in waiting
      BY <2>1, <2>2, FirstIsThere
    <2>4. x.source.domain # None
      BY <2>3 DEF Services, Grouped
    <2> QED BY <1>1, <2>4
  <1>4. ASSUME x \in ExternalEdges(E) PROVE x.source # c
    <2> DEFINE outside == {d \in Of(E, "rest", "call") : d.external \notin {None, d.module}}
    <2>1. PICK b \in outside :
             x.source = First({d \in outside : d.module = b.module /\ d.external = b.external})
      <3>1. PICK d \in {First({d \in outside : d.module = b.module /\ d.external = b.external}) :
                          b \in outside} :
               x = Edge("rest", d.module, d.external, d, None)
        BY <1>4 DEF ExternalEdges
      <3>2. x.source = d
        BY <3>1 DEF Edge
      <3> QED BY <3>2
    <2>2. {d \in outside : d.module = b.module /\ d.external = b.external} \in SUBSET E
      BY DEF Of, Grouped
    <2>3. x.source \in outside
      BY <2>1, <2>2, FirstIsThere
    <2> QED BY <1>1, <2>3
  <1>5. ASSUME x \in KafkaEdges(E) PROVE x.source # c
    <2>1. x.source \in Of(E, "kafka", "produce")
      BY <1>5 DEF KafkaEdges, Edge, KafkaEndpoints
    <2> QED BY <1>1, <2>1 DEF Of
  <1>6. x \in NamedEdges(E) <=> \E d \in Of(E, "rest", "call") : \E s \in Reached(E, d) :
                                   x = Edge("rest", d.module, s.module, d, s)
    BY DEF NamedEdges
  <1>7. \A d, s : Edge("rest", d.module, s.module, d, s).source = d
    BY DEF Edge
  <1>8. x \in NamedEdges(E) /\ x.source = c
           <=> \E s \in Reached(E, c) : x = Edge("rest", c.module, s.module, c, s)
    BY <1>6, <1>7
  <1> QED BY <1>2, <1>3, <1>4, <1>5, <1>8 DEF BuildGraph

-----------------------------------------------------------------------------
(* The route a request is dispatched to                                    *)

\* A call with a fixed URL and an explicit method.
FixedUrl(c) == c.topic.method # AnyMethod /\ c.topic.path # <<>> /\ Concrete(c.topic.path)

\* No service has two routes that end in the wildcard.
OneWildRoute ==
    \A E \in Inventories : \A r, s \in Of(E, "rest", "serve") :
        r.module = s.module /\ EndsWild(r.topic.path) /\ EndsWild(s.topic.path) => r = s

\* A fixed URL matches the routes that accept it as a request.
LEMMA FixedUrlMatches ==
  ASSUME NEW c, NEW s, IsPath(c.path), IsPath(s.path), c.path # <<>>, Concrete(c.path),
         MethodsMatch(c, s)
  PROVE  PathsMatch(c, s) <=> Fits(s.path, c.path)
  <1> DEFINE p == c.path
             r == s.path
  <1>1. /\ Len(p) \in Nat /\ Len(p) > 0 /\ DOMAIN p = 1 .. Len(p) /\ ~EndsWild(p)
        /\ \A i \in 1 .. Len(p) : p[i] \in Literals
    <2>1. /\ Len(p) \in Nat /\ Len(p) > 0 /\ DOMAIN p = 1 .. Len(p)
          /\ EndsWild(p) => p[Len(p)] = Wild
      BY PathParts
    <2>2. \A i \in 1 .. Len(p) : p[i] \in Literals
      BY <2>1 DEF Concrete
    <2> QED BY <2>1, <2>2, RouteAssumption
  <1>2. p \in [1 .. Len(p) -> Literals]
    <2>1. p \in Seq(Segments)
      BY DEF IsPath
    <2> QED BY <1>1, <2>1
  <1>3. Fits(r, p) <=> /\ IF EndsWild(r) THEN Len(p) >= Len(r) ELSE Len(p) = Len(r)
                       /\ \A i \in 1 .. Fixed(r) : Accepts(r[i], p[i])
    BY <1>1, <1>2, FitsByPosition
  <1>4. /\ Len(r) \in Nat /\ Fixed(r) \in 0 .. Len(r)
        /\ EndsWild(r) => Fixed(r) = Len(r) - 1 /\ r[Len(r)] = Wild /\ Len(r) > 0
        /\ ~EndsWild(r) => Fixed(r) = Len(r)
    BY PathParts
  <1>5. ASSUME NEW i \in 1 .. Len(p)
        PROVE  /\ SegmentMatches(r[i], p[i]) <=> Accepts(r[i], p[i])
               /\ SegmentMatches(p[i], r[i]) <=> Accepts(r[i], p[i])
    BY <1>1, RouteAssumption DEF SegmentMatches, Accepts
  <1>6. ~MatchesWildcardPath(p, r)
    BY <1>1 DEF MatchesWildcardPath
  <1>7. CASE EndsWild(r)
    <2>1. MatchesWildcardPath(r, p) <=> Fits(r, p)
      BY <1>1, <1>3, <1>4, <1>5, <1>7 DEF MatchesWildcardPath
    <2>2. Len(p) = Len(r) => ~SegmentMatches(p[Len(p)], r[Len(p)])
      BY <1>1, <1>4, <1>7, RouteAssumption DEF SegmentMatches
    <2> QED BY <1>1, <1>6, <2>1, <2>2 DEF PathsMatch
  <1>8. CASE ~EndsWild(r)
    <2>1. ~MatchesWildcardPath(r, p)
      BY <1>8 DEF MatchesWildcardPath
    <2> QED BY <1>1, <1>3, <1>4, <1>5, <1>6, <1>8, <2>1 DEF PathsMatch
  <1> QED BY <1>7, <1>8

\* Its rank: nothing is guessed, and of the segments of a route without the
\* wildcard those count that the route does not name.
LEMMA RankOfFixedUrl ==
  ASSUME NEW c, NEW s, IsPath(c.path), IsPath(s.path), c.path # <<>>, Concrete(c.path),
         c.method # AnyMethod, Fits(s.path, c.path)
  PROVE  LET any == IF s.method = AnyMethod THEN 1 ELSE 0
         IN  RouteRank(c, s) = IF EndsWild(s.path) THEN <<0, 1, Len(s.path), any>>
                               ELSE <<0, 0, Cardinality(Open(s.path, c.path)), any>>
  <1> DEFINE p == c.path
             r == s.path
             guessed == {i \in Common(c, s) : p[i] \in Templates /\ r[i] \notin Templates}
             bound == {i \in Common(c, s) : p[i] \notin Templates /\ r[i] \in Templates}
  <1>1. /\ Len(p) \in Nat /\ DOMAIN p = 1 .. Len(p) /\ p \in [1 .. Len(p) -> Literals]
        /\ \A i \in 1 .. Len(p) : p[i] \in Literals
    <2>1. Len(p) \in Nat /\ DOMAIN p = 1 .. Len(p) /\ p \in Seq(Segments)
      BY PathParts DEF IsPath
    <2>2. \A i \in 1 .. Len(p) : p[i] \in Literals
      BY <2>1 DEF Concrete
    <2> QED BY <2>1, <2>2
  <1>2. guessed = {}
    BY <1>1, RouteAssumption DEF Common
  <1>3. ASSUME ~EndsWild(r) PROVE bound = Open(r, p)
    <2>1. Len(p) = Len(r) /\ Fixed(r) = Len(r)
      BY <1>1, <1>3, FitsByPosition, PathParts
    <2>2. \A i \in 1 .. Len(p) : Accepts(r[i], p[i])
      BY <1>1, <2>1, FitsByPosition
    <2>3. \A i \in 1 .. Len(p) : r[i] \in Templates <=> r[i] # p[i]
      BY <1>1, <2>2, RouteAssumption DEF Accepts
    <2> QED BY <1>1, <2>1, <2>3, RouteAssumption DEF Common, Open
  <1>4. CASE EndsWild(r)
    BY <1>4 DEF RouteRank
  <1>5. CASE ~EndsWild(r)
    BY <1>2, <1>3, <1>5 DEF RouteRank
  <1> QED BY <1>4, <1>5

LEMMA RanksCompare ==
  ASSUME NEW a \in Int, NEW b \in Int, NEW x \in Int, NEW y \in Int,
         NEW m \in Int, NEW n \in Int, NEW u \in Int, NEW v \in Int
  PROVE  Precedes(<<a, b, x, y>>, <<m, n, u, v>>)
           <=> \/ a < m
               \/ a = m /\ b < n
               \/ a = m /\ b = n /\ x < u
               \/ a = m /\ b = n /\ x = u /\ y < v
  <1> DEFINE one == <<a, b, x, y>>
             two == <<m, n, u, v>>
  <1>1. DOMAIN one = 1 .. 4 /\ one[1] = a /\ one[2] = b /\ one[3] = x /\ one[4] = y
    OBVIOUS
  <1>2. two[1] = m /\ two[2] = n /\ two[3] = u /\ two[4] = v
    OBVIOUS
  <1>3. Precedes(one, two) <=>
           \E i \in 1 .. 4 : one[i] < two[i] /\ \A j \in 1 .. i - 1 : one[j] = two[j]
    BY <1>1 DEF Precedes
  <1> HIDE DEF one, two
  <1>4. \A i \in 1 .. 4 : i \in {1, 2, 3, 4}
    OBVIOUS
  <1>5. /\ 1 .. (1 - 1) = {} /\ 1 .. (2 - 1) = {1} /\ 1 .. (3 - 1) = {1, 2}
        /\ 1 .. (4 - 1) = {1, 2, 3}
    OBVIOUS
  <1>6. Precedes(one, two) <=>
           \/ one[1] < two[1]
           \/ one[1] = two[1] /\ one[2] < two[2]
           \/ one[1] = two[1] /\ one[2] = two[2] /\ one[3] < two[3]
           \/ one[1] = two[1] /\ one[2] = two[2] /\ one[3] = two[3] /\ one[4] < two[4]
    BY <1>3, <1>4, <1>5
  <1> QED BY <1>1, <1>2, <1>6 DEF one, two

LEMMA OpenIsFinite ==
  ASSUME NEW p, NEW q \in Seq(Segments)
  PROVE  IsFiniteSet(Open(p, q)) /\ Cardinality(Open(p, q)) \in Nat
  <1>1. Len(q) \in Nat /\ Open(p, q) \in SUBSET (1 .. Len(q))
    BY DEF Open
  <1>2. IsFiniteSet(1 .. Len(q))
    BY <1>1, FS_Interval
  <1> QED BY <1>1, <1>2, FS_Subset, FS_CardinalityType

\* What the dispatcher puts first has the lower rank.
LEMMA BeatenIsRankedLower ==
  ASSUME NEW c, NEW r, NEW s, IsPath(c.path), IsPath(r.path), IsPath(s.path),
         c.path # <<>>, Concrete(c.path), c.method # AnyMethod,
         Fits(r.path, c.path), Fits(s.path, c.path), Beats(r, s, c.path),
         EndsWild(r.path) /\ EndsWild(s.path) => r = s
  PROVE  /\ Precedes(RouteRank(c, r), RouteRank(c, s))
         /\ ~Precedes(RouteRank(c, s), RouteRank(c, r))
  <1> DEFINE p == c.path
             OpenOf(t) == Cardinality(Open(t.path, p))
             any(t) == IF t.method = AnyMethod THEN 1 ELSE 0
  <1>1. /\ RouteRank(c, r) = IF EndsWild(r.path) THEN <<0, 1, Len(r.path), any(r)>>
                              ELSE <<0, 0, OpenOf(r), any(r)>>
        /\ RouteRank(c, s) = IF EndsWild(s.path) THEN <<0, 1, Len(s.path), any(s)>>
                              ELSE <<0, 0, OpenOf(s), any(s)>>
    BY RankOfFixedUrl
  <1>2. /\ Len(s.path) \in Int /\ OpenOf(r) \in Int /\ OpenOf(s) \in Int
        /\ any(r) \in Int /\ any(s) \in Int
        /\ IsFiniteSet(Open(s.path, p)) /\ IsFiniteSet(Open(r.path, p))
    BY OpenIsFinite, PathParts DEF IsPath
  <1>3. CASE ~EndsWild(r.path) /\ EndsWild(s.path)
    <2>1. RouteRank(c, r) = <<0, 0, OpenOf(r), any(r)>>
          /\ RouteRank(c, s) = <<0, 1, Len(s.path), any(s)>>
      BY <1>1, <1>3
    <2> HIDE DEF OpenOf, any
    <2>2. OpenOf(r) \in Int /\ any(r) \in Int /\ Len(s.path) \in Int /\ any(s) \in Int
      BY <1>2
    <2>3. /\ Precedes(<<0, 0, OpenOf(r), any(r)>>, <<0, 1, Len(s.path), any(s)>>)
          /\ ~Precedes(<<0, 1, Len(s.path), any(s)>>, <<0, 0, OpenOf(r), any(r)>>)
      BY <2>2, RanksCompare
    <2> QED BY <2>1, <2>3
  <1>4. CASE ~EndsWild(r.path) /\ ~EndsWild(s.path)
    <2>1. RouteRank(c, r) = <<0, 0, OpenOf(r), any(r)>>
          /\ RouteRank(c, s) = <<0, 0, OpenOf(s), any(s)>>
      BY <1>1, <1>4
    <2>2. \/ Narrower(r.path, s.path, p)
          \/ Open(r.path, p) = Open(s.path, p) /\ r.method # AnyMethod /\ s.method = AnyMethod
      BY <1>4 DEF Beats
    <2>3. OpenOf(r) < OpenOf(s) \/ (OpenOf(r) = OpenOf(s) /\ any(r) < any(s))
      <3>1. CASE Narrower(r.path, s.path, p)
        <4>1. Open(r.path, p) \in SUBSET Open(s.path, p) /\ Open(r.path, p) # Open(s.path, p)
          BY <3>1 DEF Narrower
        <4> QED BY <1>2, <4>1, FS_Subset
      <3>2. CASE Open(r.path, p) = Open(s.path, p) /\ r.method # AnyMethod /\ s.method = AnyMethod
        BY <3>2
      <3> QED BY <2>2, <3>1, <3>2
    <2> HIDE DEF OpenOf, any
    <2>4. OpenOf(r) \in Int /\ any(r) \in Int /\ OpenOf(s) \in Int /\ any(s) \in Int
      BY <1>2
    <2>5. /\ Precedes(<<0, 0, OpenOf(r), any(r)>>, <<0, 0, OpenOf(s), any(s)>>)
          /\ ~Precedes(<<0, 0, OpenOf(s), any(s)>>, <<0, 0, OpenOf(r), any(r)>>)
      BY <2>3, <2>4, RanksCompare
    <2> QED BY <2>1, <2>5
  <1>5. CASE EndsWild(r.path)
    BY <1>5 DEF Beats, Narrower
  <1> QED BY <1>3, <1>4, <1>5

LEMMA RankIsNotLower ==
  ASSUME NEW c, NEW s, IsPath(c.path), IsPath(s.path), c.path # <<>>, Concrete(c.path),
         c.method # AnyMethod, Fits(s.path, c.path)
  PROVE  ~Precedes(RouteRank(c, s), RouteRank(c, s))
  <1> DEFINE any == IF s.method = AnyMethod THEN 1 ELSE 0
             open == Cardinality(Open(s.path, c.path))
  <1>1. RouteRank(c, s) = IF EndsWild(s.path) THEN <<0, 1, Len(s.path), any>>
                          ELSE <<0, 0, open, any>>
    BY RankOfFixedUrl
  <1>2. any \in Int /\ open \in Int /\ Len(s.path) \in Int
    BY OpenIsFinite, PathParts DEF IsPath
  <1> HIDE DEF any, open
  <1>3. /\ ~Precedes(<<0, 1, Len(s.path), any>>, <<0, 1, Len(s.path), any>>)
        /\ ~Precedes(<<0, 0, open, any>>, <<0, 0, open, any>>)
    BY <1>2, RanksCompare
  <1> QED BY <1>1, <1>3

\* The routes a fixed URL selects: those that accept it, of the lowest rank.
LEMMA SelectedByFixedUrl ==
  ASSUME endpoints \in Inventories, NEW c \in Calls, FixedUrl(c), NEW service
  PROVE  Selected(endpoints, c, service)
           = {s \in Accepting(c, service) :
                \A r \in Accepting(c, service) :
                   ~Precedes(RouteRank(c.topic, r.topic), RouteRank(c.topic, s.topic))}
  <1> DEFINE serves == ServesOf(endpoints, service)
             candidates == {s \in serves : PathsMatch(c.topic, s.topic)}
             rank(s) == RouteRank(c.topic, s.topic)
  <1>1. IsPath(c.topic.path) /\ \A s \in serves : IsPath(s.topic.path)
    BY InventoriesAssumption DEF Calls, Of, Grouped, ServesOf
  <1>2. candidates = Accepting(c, service)
    <2>1. ASSUME NEW s \in serves
          PROVE  PathsMatch(c.topic, s.topic)
                   <=> MethodsMatch(c.topic, s.topic) /\ Fits(s.topic.path, c.topic.path)
      <3>1. PathsMatch(c.topic, s.topic) => MethodsMatch(c.topic, s.topic)
        BY DEF PathsMatch
      <3> QED BY <1>1, <3>1, FixedUrlMatches DEF FixedUrl
    <2> QED BY <2>1 DEF Accepting
  <1>3. \A s \in candidates : rank(s)[1] = 0
    <2> SUFFICES ASSUME NEW s \in candidates PROVE rank(s)[1] = 0
      OBVIOUS
    <2>1. Fits(s.topic.path, c.topic.path) /\ IsPath(s.topic.path)
      BY <1>1, <1>2 DEF Accepting
    <2>2. rank(s) = IF EndsWild(s.topic.path)
                    THEN <<0, 1, Len(s.topic.path), IF s.topic.method = AnyMethod THEN 1 ELSE 0>>
                    ELSE <<0, 0, Cardinality(Open(s.topic.path, c.topic.path)),
                           IF s.topic.method = AnyMethod THEN 1 ELSE 0>>
      BY <1>1, <2>1, RankOfFixedUrl DEF FixedUrl
    <2> QED BY <2>2
  <1>4. ~EndsWild(c.topic.path)
    <2>1. EndsWild(c.topic.path) =>
            c.topic.path[Len(c.topic.path)] = Wild /\ Len(c.topic.path) \in DOMAIN c.topic.path
      BY <1>1, PathParts
    <2> QED BY <2>1, RouteAssumption DEF FixedUrl, Concrete
  <1>5. SelectMatchingRoutes(c.topic, serves)
          = {s \in candidates : \A r \in candidates : ~Precedes(rank(r), rank(s))}
    BY <1>3, <1>4 DEF SelectMatchingRoutes, FixedUrl
  <1> QED BY <1>2, <1>5 DEF Selected

\* A plain call reaches the routes it selects at the one other service it names.
LEMMA PlainReached ==
  ASSUME NEW E, NEW c, Plain(c)
  PROVE  Reached(E, c) = IF RestTarget(E, c) \in {None, c.module} THEN {}
                         ELSE Selected(E, c, RestTarget(E, c))
  BY DEF Reached, Plain, ProjectsOn

\* The links of a source endpoint.
LinksOf(edges, e) == {x \in edges : x.source = e}

LEMMA PlainCallOut ==
  ASSUME NEW E \in Inventories, NEW c \in Of(E, "rest", "call"), Plain(c)
  PROVE  /\ LinksOf(BuildGraph(E), c)
               = {Edge("rest", c.module, s.module, c, s) : s \in Reached(E, c)}
         /\ IsFiniteSet(LinksOf(BuildGraph(E), c))
  <1> DEFINE out == LinksOf(BuildGraph(E), c)
             f == [s \in Reached(E, c) |-> Edge("rest", c.module, s.module, c, s)]
  <1>1. out = {Edge("rest", c.module, s.module, c, s) : s \in Reached(E, c)}
    BY PlainCallLinks DEF LinksOf
  <1>2. IsFiniteSet(Reached(E, c))
    <2>1. Reached(E, c) \in SUBSET E
      <3>1. \A service : Selected(E, c, service) \in SUBSET E
        BY DEF Selected, ServesOf, Of, Grouped
      <3> QED BY <3>1, PlainReached
    <2> QED BY <2>1, InventoriesAssumption, FS_Subset
  <1>3. f \in Surjection(Reached(E, c), out)
    BY <1>1 DEF Surjection
  <1>4. IsFiniteSet(out)
    BY <1>2, <1>3, FS_Surjection
  <1> QED BY <1>1, <1>4

\* A flow into a REST call is complete when the call has exactly one link.
LEMMA CompleteWithOneLink ==
  ASSUME NEW E, NEW f \in Flows(E), f[2].system = "rest", NEW built,
         IsFiniteSet(LinksOf(built, f[2]))
  PROVE  Reconcile(f, E, built, {}) = "complete" <=> \E x : LinksOf(built, f[2]) = {x}
  <1> DEFINE c == f[2]
             Out(edges, e) == {edge \in edges : edge.source = e}
             Targets(e) == {<<edge.to, edge.target>> : edge \in Out(built \cup {}, e)}
             Size(e) == Cardinality(Out(built, e)) + Cardinality(Out({}, e))
             Matched(e) == /\ Size(e) > 0
                           /\ Cardinality(Targets(e)) = Size(e)
                           /\ e.system = "kafka" \/ Size(e) = 1
  <1>1. Reconcile(f, E, built, {}) = "complete" <=> Matched(c)
    <2>1. ToSet(f) \subseteq E /\ Effects(f) = {c}
      BY FlowEffects
    <2>2. Reconcile(f, E, built, {})
            = IF ToSet(f) \subseteq E /\ \A e \in Effects(f) : Matched(e)
              THEN "complete" ELSE "partial"
      BY DEF Reconcile
    <2> HIDE DEF Matched
    <2> QED BY <2>1, <2>2
  <1>2. Cardinality(Out({}, c)) = 0 /\ Out(built \cup {}, c) = Out(built, c)
    <2>1. Out({}, c) = {}
      OBVIOUS
    <2> QED BY <2>1, FS_EmptySet
  <1>3. /\ IsFiniteSet(Out(built, c)) /\ Cardinality(Out(built, c)) \in Nat
        /\ Size(c) = Cardinality(Out(built, c))
    BY <1>2, FS_CardinalityType DEF LinksOf
  <1>4. Matched(c) => \E x : Out(built, c) = {x}
    <2>1. Matched(c) => Size(c) = 1
      BY <1>3
    <2> HIDE DEF Matched
    <2> QED BY <1>3, <2>1, FS_Singleton
  <1>5. ASSUME NEW x, Out(built, c) = {x} PROVE Matched(c)
    <2>1. Targets(c) = {<<x.to, x.target>>}
      BY <1>2, <1>5
    <2>2. Cardinality(Targets(c)) = 1 /\ Cardinality(Out(built, c)) = 1
      BY <1>5, <2>1, FS_Singleton
    <2> QED BY <1>3, <2>2
  <1> QED BY <1>1, <1>4, <1>5 DEF LinksOf

\* A flow into a call with a fixed URL is complete only if it ends at a route
\* no other beats, and it is complete when one route beats all others: what
\* the index resolves, matches, ranks and reconciles is what is dispatched
\* (domain/graph.py, code_flows.py). Two routes of one service that end in
\* the wildcard are ranked the wrong way round and excluded.
THEOREM CompleteIsDispatched ==
  ASSUME OneWildRoute
  PROVE  Spec => []CompleteMeansDispatched
  <1>1. LinksInv => CompleteMeansDispatched
    <2> SUFFICES ASSUME LinksInv, NEW f \in DOMAIN status,
                        f[2] \in Calls, Plain(f[2]), FixedUrl(f[2])
                 PROVE  LET c == f[2]
                            built == BuildGraph(endpoints)
                            target == RestTarget(endpoints, c)
                            known == target \notin {None, c.module}
                        IN  /\ status[f] = "complete" =>
                                  /\ known
                                  /\ \E s \in Unbeaten(c, target) :
                                        Sites(built, c) = {<<target, s>>}
                            /\ known /\ HasWinner(c, target) => status[f] = "complete"
      BY DEF CompleteMeansDispatched, FixedUrl
    <2> DEFINE c == f[2]
               built == BuildGraph(endpoints)
               target == RestTarget(endpoints, c)
               known == target \notin {None, c.module}
               out == LinksOf(built, c)
               Link(s) == Edge("rest", c.module, s.module, c, s)
               rank(s) == RouteRank(c.topic, s.topic)
    <2>1. endpoints \in Inventories /\ c \in Of(endpoints, "rest", "call")
      BY DEF LinksInv, Calls
    <2>2. out = {Link(s) : s \in Reached(endpoints, c)} /\ IsFiniteSet(out)
      BY <2>1, PlainCallOut
    <2>3. status[f] = "complete" <=> \E x : out = {x}
      <3>1. f \in Flows(endpoints) /\ c.system = "rest"
        BY <2>1 DEF LinksInv, Of
      <3>2. status[f] = Reconcile(f, endpoints, built, {})
        BY <3>1 DEF LinksInv
      <3> QED BY <2>2, <3>1, <3>2, CompleteWithOneLink
    <2>4. Reached(endpoints, c) = IF known THEN Selected(endpoints, c, target) ELSE {}
      BY PlainReached
    <2>5. Selected(endpoints, c, target)
            = {s \in Accepting(c, target) :
                 \A r \in Accepting(c, target) : ~Precedes(rank(r), rank(s))}
      BY <2>1, SelectedByFixedUrl DEF Calls
    <2>6. ASSUME NEW r \in Accepting(c, target), NEW s \in Accepting(c, target),
                 Beats(r.topic, s.topic, c.topic.path)
          PROVE  Precedes(rank(r), rank(s)) /\ ~Precedes(rank(s), rank(r))
      <3>1. IsPath(c.topic.path) /\ IsPath(r.topic.path) /\ IsPath(s.topic.path)
        BY <2>1, InventoriesAssumption DEF Accepting, ServesOf, Of, Grouped
      <3>2. Fits(r.topic.path, c.topic.path) /\ Fits(s.topic.path, c.topic.path)
        BY DEF Accepting
      <3>3. EndsWild(r.topic.path) /\ EndsWild(s.topic.path) => r = s
        BY <2>1 DEF OneWildRoute, Accepting, ServesOf
      <3> QED BY <2>6, <3>1, <3>2, <3>3, BeatenIsRankedLower DEF FixedUrl
    <2>7. \A s : Link(s).to = s.module /\ Link(s).target = s
      BY DEF Edge
    <2>8. \A s \in Accepting(c, target) : s.module = target
      BY DEF Accepting, ServesOf
    <2> HIDE DEF built, target, known, Link, rank
    <2>9. ASSUME NEW x, out = {x}
          PROVE  known /\ \E s \in Unbeaten(c, target) : Sites(built, c) = {<<target, s>>}
      <3>1. PICK s \in Reached(endpoints, c) : x = Link(s)
        BY <2>2, <2>9
      <3>2. known /\ s \in Selected(endpoints, c, target)
        BY <2>4, <3>1
      <3>3. s \in Accepting(c, target)
            /\ \A r \in Accepting(c, target) : ~Precedes(rank(r), rank(s))
        BY <2>5, <3>2
      <3>4. s \in Unbeaten(c, target)
        BY <2>6, <3>3 DEF Unbeaten
      <3>5. Sites(built, c) = {<<x.to, x.target>>}
        BY <2>9 DEF Sites, LinksOf
      <3> QED BY <2>7, <2>8, <3>1, <3>2, <3>3, <3>4, <3>5
    <2>10. ASSUME known, NEW s \in Accepting(c, target),
                  \A r \in Accepting(c, target) \ {s} : Beats(s.topic, r.topic, c.topic.path)
           PROVE  out = {Link(s)}
      <3>1. ASSUME NEW r \in Accepting(c, target) \ {s}
            PROVE  Precedes(rank(s), rank(r)) /\ ~Precedes(rank(r), rank(s))
        BY <2>6, <2>10
      <3>2. ~Precedes(rank(s), rank(s))
        <4>1. IsPath(c.topic.path) /\ IsPath(s.topic.path)
          BY <2>1, InventoriesAssumption DEF Accepting, ServesOf, Of, Grouped
        <4>2. Fits(s.topic.path, c.topic.path)
          BY DEF Accepting
        <4> QED BY <4>1, <4>2, RankIsNotLower DEF FixedUrl, rank
      <3>3. Selected(endpoints, c, target) = {s}
        BY <2>5, <3>1, <3>2
      <3> QED BY <2>2, <2>4, <2>10, <3>3
    <2> QED BY <2>3, <2>9, <2>10 DEF HasWinner, built, target, known
  <1> QED BY <1>1, LinksHold, PTL

-----------------------------------------------------------------------------
(* What an export shows                                                    *)

\* The relation a link is persisted as.
RelationOf(e) == [kind |-> e.kind, source |-> e.from, target |-> e.to, site |-> e.source.site]

\* Each link starts at an endpoint of its service, of the role its kind has.
LEMMA LinksHaveTheirSource ==
  ASSUME NEW E \in Inventories, NEW x \in BuildGraph(E)
  PROVE  \/ x.kind = "rest" /\ x.source \in Of(E, "rest", "call") /\ x.source.module = x.from
         \/ x.kind = "kafka" /\ x.source \in Of(E, "kafka", "produce") /\ x.source.module = x.from
  <1> DEFINE Calling == x.kind = "rest" /\ x.source \in Of(E, "rest", "call")
                          /\ x.source.module = x.from
  <1>1. ASSUME x \in ContractEdges(E) PROVE Calling
    <2> DEFINE Targets(d) == {s \in Of(E, "rest", "serve") :
                                /\ s.openapi /\ s.contracts \cap d.contracts # {}
                                /\ s.module # d.module
                                /\ PathsMatch(d.topic, s.topic)}
               bound == {d \in Of(E, "rest", "call") :
                           /\ d.contracts # {}
                           /\ Cardinality({s.module : s \in Targets(d)}) = 1}
    <2>1. x \in {Edge("rest", d.module, First(Targets(d)).module, d, First(Targets(d))) :
                    d \in bound}
      BY <1>1 DEF ContractEdges
    <2>2. PICK d \in bound :
             x = Edge("rest", d.module, First(Targets(d)).module, d, First(Targets(d)))
      BY <2>1
    <2>3. d \in Of(E, "rest", "call")
      OBVIOUS
    <2> HIDE DEF Targets
    <2> QED BY <2>2, <2>3 DEF Edge
  <1>2. ASSUME x \in NamedEdges(E) PROVE Calling
    <2>1. PICK d \in Of(E, "rest", "call") : \E s \in Reached(E, d) :
             x = Edge("rest", d.module, s.module, d, s)
      BY <1>2 DEF NamedEdges
    <2> QED BY <2>1 DEF Edge
  <1>3. ASSUME NEW resolved, x \in ConfiguredEdges(E, resolved) PROVE Calling
    <2> DEFINE waiting == {d \in Of(E, "rest", "call") :
                             /\ d.domain \in Services(E) \ {d.module}
                             /\ ~\E e \in resolved : e.source = d /\ e.to = d.domain}
               group(b) == {d \in waiting : d.module = b.module /\ d.domain = b.domain}
    <2>1. PICK d \in {First(group(b)) : b \in waiting} :
             x = Edge("rest", d.module, d.domain, d, None)
      BY <1>3 DEF ConfiguredEdges
    <2>2. \A b \in waiting : group(b) \in SUBSET E /\ group(b) # {}
      BY DEF Of, Grouped
    <2>3. d \in waiting
      <3>1. \A b \in waiting : group(b) \subseteq waiting
        OBVIOUS
      <3>2. PICK b \in waiting : d = First(group(b))
        BY <2>1
      <3>3. group(b) \in SUBSET E /\ group(b) # {}
        BY <2>2
      <3> HIDE DEF group
      <3>4. First(group(b)) \in group(b)
        BY <3>3, FirstIsThere
      <3> QED BY <3>1, <3>2, <3>4
    <2>4. d \in Of(E, "rest", "call")
      BY <2>3
    <2> QED BY <2>1, <2>4 DEF Edge
  <1>4. ASSUME x \in ExternalEdges(E) PROVE Calling
    <2> DEFINE outside == {d \in Of(E, "rest", "call") : d.external \notin {None, d.module}}
               group(b) == {d \in outside : d.module = b.module /\ d.external = b.external}
    <2>1. PICK d \in {First(group(b)) : b \in outside} :
             x = Edge("rest", d.module, d.external, d, None)
      BY <1>4 DEF ExternalEdges
    <2>2. \A b \in outside : group(b) \in SUBSET E /\ group(b) # {}
      BY DEF Of, Grouped
    <2>3. d \in outside
      <3>1. \A b \in outside : group(b) \subseteq outside
        OBVIOUS
      <3>2. PICK b \in outside : d = First(group(b))
        BY <2>1
      <3>3. group(b) \in SUBSET E /\ group(b) # {}
        BY <2>2
      <3> HIDE DEF group
      <3>4. First(group(b)) \in group(b)
        BY <3>3, FirstIsThere
      <3> QED BY <3>1, <3>2, <3>4
    <2>4. d \in Of(E, "rest", "call")
      BY <2>3
    <2> QED BY <2>1, <2>4 DEF Edge
  <1>5. ASSUME x \in KafkaEdges(E)
        PROVE  x.kind = "kafka" /\ x.source \in Of(E, "kafka", "produce")
                 /\ x.source.module = x.from
    BY <1>5 DEF KafkaEdges, Edge, KafkaEndpoints
  <1> QED BY <1>1, <1>2, <1>3, <1>4, <1>5 DEF BuildGraph

LEMMA RebuiltLinks ==
  ASSUME NEW E, NEW x
  PROVE  x \in EdgesFromRelations(Relations(E), E)
           <=> \E e \in BuildGraph(E) : \E s \in Evidence(E, RelationOf(e)) :
               \E t : /\ x = Edge(e.kind, e.from, e.to, s, t)
                     /\ LET targets == TargetEndpoints(E, RelationOf(e), s)
                        IN  IF targets = {} THEN t = None ELSE t \in targets
  <1> DEFINE Ends(r, s) == IF TargetEndpoints(E, r, s) = {} THEN {None}
                           ELSE TargetEndpoints(E, r, s)
             Links(r, s) == {Edge(r.kind, r.source, r.target, s, t) : t \in Ends(r, s)}
  <1>1. Relations(E) = {RelationOf(e) : e \in BuildGraph(E)}
    BY DEF Relations, RelationOf
  <1>2. EdgesFromRelations(Relations(E), E)
          = UNION {UNION {Links(r, s) : s \in Evidence(E, r)} : r \in Relations(E)}
    BY DEF EdgesFromRelations
  <1>3. \A e : /\ RelationOf(e).kind = e.kind /\ RelationOf(e).source = e.from
              /\ RelationOf(e).target = e.to
    BY DEF RelationOf
  <1>4. \A r, s, t : t \in Ends(r, s) <=> IF TargetEndpoints(E, r, s) = {} THEN t = None
                                         ELSE t \in TargetEndpoints(E, r, s)
    OBVIOUS
  <1> HIDE DEF Ends
  <1>5. x \in EdgesFromRelations(Relations(E), E)
          <=> \E r \in Relations(E) : \E s \in Evidence(E, r) : x \in Links(r, s)
    BY <1>2
  <1>6. \A r, s : x \in Links(r, s) <=> \E t \in Ends(r, s) : x = Edge(r.kind, r.source, r.target, s, t)
    OBVIOUS
  <1> HIDE DEF Links
  <1>7. x \in EdgesFromRelations(Relations(E), E)
          <=> \E e \in BuildGraph(E) : \E s \in Evidence(E, RelationOf(e)) :
                \E t \in Ends(RelationOf(e), s) : x = Edge(e.kind, e.from, e.to, s, t)
    BY <1>1, <1>3, <1>5, <1>6
  <1> QED BY <1>4, <1>7

\* An export connects the services the index connected.
LEMMA SameServices ==
  ASSUME NEW E \in Inventories
  PROVE  {<<e.kind, e.from, e.to>> : e \in EdgesFromRelations(Relations(E), E)}
           = {<<e.kind, e.from, e.to>> : e \in BuildGraph(E)}
  <1> DEFINE rebuilt == EdgesFromRelations(Relations(E), E)
  <1>1. \A k, m, n, s, t : LET x == Edge(k, m, n, s, t)
                          IN  x.kind = k /\ x.from = m /\ x.to = n
    BY DEF Edge
  <1>2. ASSUME NEW x \in rebuilt
        PROVE  \E e \in BuildGraph(E) : x.kind = e.kind /\ x.from = e.from /\ x.to = e.to
    BY <1>1, RebuiltLinks
  <1>3. ASSUME NEW e \in BuildGraph(E)
        PROVE  \E x \in rebuilt : x.kind = e.kind /\ x.from = e.from /\ x.to = e.to
    <2>1. e.source \in Evidence(E, RelationOf(e))
      BY LinksHaveTheirSource DEF Evidence, RelationOf, Of
    <2>2. PICK t : LET targets == TargetEndpoints(E, RelationOf(e), e.source)
                   IN  IF targets = {} THEN t = None ELSE t \in targets
      OBVIOUS
    <2>3. Edge(e.kind, e.from, e.to, e.source, t) \in rebuilt
      BY <2>1, <2>2, RebuiltLinks
    <2> QED BY <1>1, <2>3
  <1> HIDE DEF rebuilt
  <1> QED BY <1>2, <1>3 DEF rebuilt

\* For a plain call alone on its line, an export shows the very routes.
LEMMA SameRoutes ==
  ASSUME NEW E \in Inventories, NEW c \in Of(E, "rest", "call"), Plain(c),
         \A d \in Of(E, "rest", "call") \ {c} : d.module # c.module \/ d.site # c.site
  PROVE  Sites(EdgesFromRelations(Relations(E), E), c) = Sites(BuildGraph(E), c)
  <1> DEFINE rebuilt == EdgesFromRelations(Relations(E), E)
             Link(s) == Edge("rest", c.module, s.module, c, s)
             target == RestTarget(E, c)
  <1>1. \A k, m, n, s, t : LET x == Edge(k, m, n, s, t)
                          IN  /\ x.kind = k /\ x.from = m /\ x.to = n
                              /\ x.source = s /\ x.target = t
    BY DEF Edge
  <1>2. /\ c \in Grouped(E) /\ c.role = "call"
        /\ \A s \in Reached(E, c) : /\ s \in Selected(E, c, target) /\ s.module = target
                                   /\ Reached(E, c) = Selected(E, c, target)
    BY PlainReached DEF Of, Selected, ServesOf
  <1>3. \A s \in Reached(E, c) : TargetEndpoints(E, RelationOf(Link(s)), c) = Reached(E, c)
    BY <1>1, <1>2 DEF TargetEndpoints, RelationOf
  <1>4. ASSUME NEW x \in rebuilt, x.source = c
        PROVE  \E s \in Reached(E, c) : x.to = s.module /\ x.target = s
    <2>e. PICK e \in BuildGraph(E) : \E s \in Evidence(E, RelationOf(e)) :
             \E t : /\ x = Edge(e.kind, e.from, e.to, s, t)
                   /\ LET targets == TargetEndpoints(E, RelationOf(e), s)
                      IN  IF targets = {} THEN t = None ELSE t \in targets
      BY RebuiltLinks
    <2>s. PICK s \in Evidence(E, RelationOf(e)) :
             \E t : /\ x = Edge(e.kind, e.from, e.to, s, t)
                   /\ LET targets == TargetEndpoints(E, RelationOf(e), s)
                      IN  IF targets = {} THEN t = None ELSE t \in targets
      BY <2>e
    <2>1. PICK t : /\ x = Edge(e.kind, e.from, e.to, s, t)
                   /\ LET targets == TargetEndpoints(E, RelationOf(e), s)
                      IN  IF targets = {} THEN t = None ELSE t \in targets
      BY <2>s
    <2>2. s = c /\ x.to = e.to /\ x.target = t
      BY <1>1, <1>4, <2>1
    <2>3. e.from = c.module /\ e.source.site = c.site /\ e.kind = "rest"
      BY <1>2, <2>2, LinksHaveTheirSource DEF Evidence, RelationOf
    <2>4. e.source = c
      BY <2>3, LinksHaveTheirSource
    <2>5. PICK u \in Reached(E, c) : e = Link(u)
      BY <2>4, PlainCallLinks
    <2>6. TargetEndpoints(E, RelationOf(e), s) = Reached(E, c)
      BY <1>3, <2>2, <2>5
    <2>7. t \in Reached(E, c)
      BY <2>1, <2>5, <2>6
    <2>8. e.to = u.module
      BY <1>1, <2>5
    <2> QED BY <1>2, <2>2, <2>5, <2>7, <2>8
  <1>5. ASSUME NEW s \in Reached(E, c)
        PROVE  Link(s) \in rebuilt
    <2>1. Link(s) \in BuildGraph(E)
      BY PlainCallLinks
    <2>2. c \in Evidence(E, RelationOf(Link(s)))
      BY <1>1, <1>2 DEF Evidence, RelationOf
    <2>3. s \in TargetEndpoints(E, RelationOf(Link(s)), c)
      BY <1>3
    <2>4. /\ Link(s).kind = "rest" /\ Link(s).from = c.module /\ Link(s).to = s.module
      BY <1>1
    <2> QED BY <2>1, <2>2, <2>3, <2>4, RebuiltLinks
  <1>6. ASSUME NEW x \in BuildGraph(E), x.source = c
        PROVE  \E s \in Reached(E, c) : x.to = s.module /\ x.target = s
    BY <1>1, <1>6, PlainCallLinks
  <1>7. \A s \in Reached(E, c) : Link(s) \in BuildGraph(E)
    BY PlainCallLinks
  <1>8. \A s : Link(s).source = c /\ Link(s).to = s.module /\ Link(s).target = s
    BY <1>1
  <1> HIDE DEF Link, rebuilt
  <1>9. Sites(rebuilt, c) = {<<s.module, s>> : s \in Reached(E, c)}
    BY <1>4, <1>5, <1>8 DEF Sites
  <1>10. Sites(BuildGraph(E), c) = {<<s.module, s>> : s \in Reached(E, c)}
    BY <1>6, <1>7, <1>8 DEF Sites
  <1> QED BY <1>9, <1>10 DEF rebuilt

\* An export, which sees the persisted relations only, connects the services
\* the index connected, and shows the routes of a plain call that is alone
\* on its line (graph_edges_from_relations, render/graph.py).
THEOREM ExportsShowTheLinks == Spec => []ExportShowsTheIndexedLinks
  <1>1. LinksInv => ExportShowsTheIndexedLinks
    <2> SUFFICES ASSUME LinksInv, Indexed PROVE
           /\ {<<e.kind, e.from, e.to>> : e \in Rebuilt}
                = {<<e.kind, e.from, e.to>> : e \in BuildGraph(endpoints)}
           /\ \A c \in Calls :
                 (Plain(c) /\ \A d \in Calls \ {c} : d.module # c.module \/ d.site # c.site)
                    => Sites(Rebuilt, c) = Sites(BuildGraph(endpoints), c)
      BY DEF ExportShowsTheIndexedLinks
    <2>1. endpoints \in Inventories
          /\ Rebuilt = EdgesFromRelations(Relations(endpoints), endpoints)
      BY DEF LinksInv, Rebuilt
    <2> QED BY <2>1, SameServices, SameRoutes DEF Calls
  <1> QED BY <1>1, LinksHold, PTL

=============================================================================
