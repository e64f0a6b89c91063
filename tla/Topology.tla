------------------------------ MODULE Topology ------------------------------
(***************************************************************************)
(* The links between services and what is derived from them:               *)
(*   - the index builds them from the endpoints (`build_graph`), persists  *)
(*     them as relations (`build_architecture_relations`) and gives every  *)
(*     flow a topology status (`reconcile_code_flows`);                    *)
(*   - `flows calculate` gives the status again, with the edges that       *)
(*     imported facts assert (`graph_edges_from_facts`);                   *)
(*   - exports rebuild the links from the persisted relations              *)
(*     (`graph_edges_from_relations`), never from the endpoints.           *)
(*                                                                         *)
(* An endpoint is a record of the fields below.  The evidence that the     *)
(* code reads in a snippet is a field: the host or `lb://` name the call   *)
(* names (hint), the domain stamped by the scanner (domain), whether its   *)
(* client declares no route of its own (configured), the external service  *)
(* (external), the contracts it is bound to (contracts).  The identifier   *)
(* is a number: its order is the order of the endpoints in the store.      *)
(***************************************************************************)
EXTENDS Routes, FiniteSets

CONSTANTS
    None,           \* no such evidence
    Aliases,        \* Aliases[s]: the other names a service is known by
    Inventories,    \* the endpoint sets an index may find
    FactSets,       \* the sets of accepted facts an import may leave
    MaxCalculations \* runs of `flows calculate`

ASSUME InventoriesAssumption ==
    \A E \in Inventories :
        /\ IsFiniteSet(E)
        /\ \A e \in E : /\ e.id \in Nat
                         /\ e.topic.method \in Methods /\ IsPath(e.topic.path)

VARIABLES
    endpoints,      \* endpoints of the indexed tree
    facts,          \* accepted event facts
    relations,      \* persisted architecture relations between services
    status,         \* status[flow]: "complete" or "partial"
    calculations    \* how often the flows were calculated since the index

vars == <<endpoints, facts, relations, status, calculations>>

-----------------------------------------------------------------------------
(***************************************************************************)
(* Endpoints by service.  An endpoint without a module belongs to none.    *)
(***************************************************************************)
Grouped(E) == {e \in E : e.module # None}

Services(E) == {e.module : e \in Grouped(E)}

Of(E, system, role) == {e \in Grouped(E) : e.system = system /\ e.role = role}

First(S) == CHOOSE e \in S : \A other \in S : e.id <= other.id

ServicesMatchingHint(E, hint) ==
    {s \in Services(E) : hint # None /\ (s = hint \/ hint \in Aliases[s])}

\* The one indexed service a call names, or None.
RestTarget(E, call) ==
    LET named == ServicesMatchingHint(E, call.hint)
    IN  IF call.external # None \/ Cardinality(named) # 1 THEN None
        ELSE CHOOSE s \in named : TRUE

ServesOf(E, service) == {e \in Of(E, "rest", "serve") : e.module = service}

Selected(E, call, service) ==
    {s \in ServesOf(E, service) :
        s \in SelectMatchingRoutes(call.topic, ServesOf(E, service))}

Edge(kind, from, to, source, target) ==
    [kind |-> kind, from |-> from, to |-> to, source |-> source, target |-> target]

(***************************************************************************)
(* The links of a call bound to a contract: the one other service that     *)
(* serves it, at the first served route that matches.                      *)
(***************************************************************************)
ContractEdges(E) ==
    LET Targets(c) == {s \in Of(E, "rest", "serve") :
                          /\ s.openapi /\ s.contracts \cap c.contracts # {}
                          /\ s.module # c.module
                          /\ PathsMatch(c.topic, s.topic)}
        bound == {c \in Of(E, "rest", "call") :
                     /\ c.contracts # {}
                     /\ Cardinality({s.module : s \in Targets(c)}) = 1}
    IN  {Edge("rest", c.module, First(Targets(c)).module, c, First(Targets(c))) :
            c \in bound}

(***************************************************************************)
(* The links of a call that names its service: the routes it selects       *)
(* there, and for a configured client whose route is unknown every route   *)
(* of its method.  A gateway route keeps one link per target.              *)
(***************************************************************************)
ProjectsOn(call, serve) ==
    /\ call.dynamic /\ call.configured
    /\ MethodsMatch(call.topic, serve.topic)
    /\ ~PathsMatch(call.topic, serve.topic)

Reached(E, call) ==
    LET target == RestTarget(E, call)
        all == Selected(E, call, target)
                 \cup {s \in ServesOf(E, target) : ProjectsOn(call, s)}
    IN  IF target \in {None, call.module} \/ call.contracts # {} THEN {}
        ELSE IF call.gateway /\ call.topic.method = AnyMethod /\ all # {}
             THEN {First(all)} ELSE all

NamedEdges(E) ==
    UNION {{Edge("rest", c.module, s.module, c, s) : s \in Reached(E, c)} :
              c \in Of(E, "rest", "call")}

\* A stamped domain keeps one link to the service when no route gave one.
ConfiguredEdges(E, resolved) ==
    LET waiting == {c \in Of(E, "rest", "call") :
                       /\ c.domain \in Services(E) \ {c.module}
                       /\ ~\E e \in resolved : e.source = c /\ e.to = c.domain}
    IN  {Edge("rest", c.module, c.domain, c, None) :
            c \in {First({d \in waiting : d.module = b.module /\ d.domain = b.domain}) :
                      b \in waiting}}

ExternalEdges(E) ==
    LET outside == {c \in Of(E, "rest", "call") : c.external \notin {None, c.module}}
    IN  {Edge("rest", c.module, c.external, c, None) :
            c \in {First({d \in outside : d.module = b.module /\ d.external = b.external}) :
                      b \in outside}}

TypesConflict(one, other) ==
    one.type # None /\ other.type # None /\ one.type # other.type

(***************************************************************************)
(* Publications with the consumers of their topic.  A service described by *)
(* a manifest has the manifest's Kafka endpoints only.                     *)
(***************************************************************************)
KafkaEndpoints(E, role) ==
    {e \in Of(E, "kafka", role) :
        \/ e.manifest
        \/ ~\E m \in Grouped(E) : m.system = "kafka" /\ m.manifest /\ m.module = e.module}

KafkaEdges(E) ==
    {Edge("kafka", k[1].module, k[2].module, k[1], k[2]) :
        k \in {pair \in KafkaEndpoints(E, "produce") \X KafkaEndpoints(E, "consume") :
                  /\ ~pair[1].dynamic /\ ~pair[2].dynamic
                  /\ pair[1].topic = pair[2].topic
                  /\ pair[1].module # pair[2].module
                  /\ ~TypesConflict(pair[1], pair[2])}}

BuildGraph(E) ==
    LET resolved == ContractEdges(E) \cup NamedEdges(E)
    IN  resolved \cup ConfiguredEdges(E, resolved) \cup ExternalEdges(E)
          \cup KafkaEdges(E)

(***************************************************************************)
(* Edges that imported facts assert: [source, target, topic], where a      *)
(* fact that names only a topic and one service leaves the other None.     *)
(***************************************************************************)
Asserted(F) ==
    {f \in F : f.source # None /\ f.target # None}
      \cup {[source |-> k[1].source, target |-> k[2].target, topic |-> k[1].topic] :
               k \in {pair \in F \X F : /\ pair[1].target = None /\ pair[2].source = None
                                       /\ pair[1].topic = pair[2].topic}}

EdgesFromFacts(F, E) ==
    UNION {{Edge("kafka", f.source, f.target, k[1], k[2]) :
              k \in {pair \in Of(E, "kafka", "produce") \X Of(E, "kafka", "consume") :
                               /\ pair[1].module = f.source /\ pair[2].module = f.target
                               /\ pair[1].topic = f.topic /\ pair[2].topic = f.topic
                               /\ ~TypesConflict(pair[1], pair[2])}} : f \in Asserted(F)}

-----------------------------------------------------------------------------
(***************************************************************************)
(* Persisted relations between services, and the links rebuilt from them.  *)
(***************************************************************************)
Relations(E) ==
    {[kind |-> e.kind, source |-> e.from, target |-> e.to, site |-> e.source.site] :
        e \in BuildGraph(E)}

Evidence(E, relation) ==
    {e \in Grouped(E) :
        /\ e.module = relation.source /\ e.site = relation.site
        /\ e.role = (IF relation.kind = "rest" THEN "call" ELSE "produce")}

\* Mutant: every route that matches, not the selected ones.
EveryMatchingEndpoint(E, relation, source) ==
    IF relation.kind = "rest"
    THEN {s \in ServesOf(E, relation.target) : PathsMatch(source.topic, s.topic)}
    ELSE {c \in Of(E, "kafka", "consume") :
             /\ c.module = relation.target /\ c.topic = source.topic
             /\ ~TypesConflict(source, c)}

TargetEndpoints(E, relation, source) ==
    IF relation.kind = "rest" THEN Selected(E, source, relation.target)
    ELSE {c \in Of(E, "kafka", "consume") :
             /\ c.module = relation.target /\ c.topic = source.topic
             /\ ~TypesConflict(source, c)}

EdgesFromRelations(R, E) ==
    UNION {UNION {LET targets == TargetEndpoints(E, r, s)
                  IN  {Edge(r.kind, r.source, r.target, s, t) :
                          t \in IF targets = {} THEN {None} ELSE targets} :
                      s \in Evidence(E, r)} : r \in R}

(***************************************************************************)
(* Topology status of a flow, a sequence of endpoints of one module: its   *)
(* input, then its effects.  Each effect needs an edge of its own, and an  *)
(* HTTP call exactly one.  The edges of the facts come in a second list:   *)
(* an edge in both is there twice, and an edge twice is ambiguous.         *)
(***************************************************************************)
Effects(flow) == {e \in ToSet(flow) : e.role \in {"call", "produce"}}

Reconcile(flow, E, built, asserted) ==
    LET Out(edges, e) == {edge \in edges : edge.source = e}
        Targets(e) == {<<edge.to, edge.target>> : edge \in Out(built \cup asserted, e)}
        Matched(e) ==
            LET size == Cardinality(Out(built, e)) + Cardinality(Out(asserted, e))
            IN  /\ size > 0
                /\ Cardinality(Targets(e)) = size
                /\ e.system = "kafka" \/ size = 1
    IN  IF ToSet(flow) \subseteq E /\ \A e \in Effects(flow) : Matched(e)
        THEN "complete" ELSE "partial"

\* Flows of the index: every input of a module with one effect of the module.
Flows(E) ==
    {f \in Grouped(E) \X Grouped(E) :
        /\ f[1].module = f[2].module
        /\ f[1].role \in {"serve", "consume"} /\ f[2].role \in {"call", "produce"}}

-----------------------------------------------------------------------------
Init ==
    /\ endpoints \in Inventories
    /\ facts = {}
    /\ relations = {}
    /\ status = [f \in {} |-> "partial"]
    /\ calculations = 0

Index ==
    /\ DOMAIN status = {}
    /\ relations' = Relations(endpoints)
    /\ LET built == BuildGraph(endpoints)
       IN  status' = [f \in Flows(endpoints) |-> Reconcile(f, endpoints, built, {})]
    /\ UNCHANGED <<endpoints, facts, calculations>>

ImportFacts ==
    /\ DOMAIN status # {} /\ facts = {}
    /\ facts' \in FactSets \ {{}}
    /\ UNCHANGED <<endpoints, relations, status, calculations>>

Calculate ==
    /\ DOMAIN status # {} /\ calculations < MaxCalculations
    /\ LET built == BuildGraph(endpoints)
           asserted == EdgesFromFacts(facts, endpoints)
       IN  status' = [f \in Flows(endpoints) |->
                         Reconcile(f, endpoints, built, asserted)]
    /\ calculations' = calculations + 1
    /\ UNCHANGED <<endpoints, facts, relations>>

Next == Index \/ ImportFacts \/ Calculate

Spec == Init /\ [][Next]_vars

-----------------------------------------------------------------------------
(***************************************************************************)
(* Properties.                                                             *)
(***************************************************************************)
Indexed == DOMAIN status # {}

Calls == Of(endpoints, "rest", "call")

(***************************************************************************)
(* Two routes match exactly when some request is one of both, whatever     *)
(* templates and `**` they are written with: no link is missed because of  *)
(* the way a route is written, and none is drawn to a route that no        *)
(* request reaches.  Only two templates at the same place match without a  *)
(* common value: neither value is known (ADR-77).                          *)
(***************************************************************************)
RoutesMatchSharedRequests ==
    \A c \in Calls, s \in Of(endpoints, "rest", "serve") :
        LET shared == \E q \in Requests(Longer(c.topic.path, s.topic.path)) :
                          Fits(c.topic.path, q) /\ Fits(s.topic.path, q)
            unknown == \E i \in Common(c.topic, s.topic) :
                          {c.topic.path[i], s.topic.path[i]} \subseteq Templates
        IN  (c.topic.path # <<>> /\ MethodsMatch(c.topic, s.topic)) =>
                /\ shared => PathsMatch(c.topic, s.topic)
                /\ PathsMatch(c.topic, s.topic) => shared \/ unknown

\* A call that names a host and its own route, as most clients do.
Plain(c) ==
    /\ c.contracts = {} /\ c.external = None /\ c.domain = None
    /\ ~c.gateway /\ ~c.dynamic

\* The sites a source endpoint reaches in a set of links.
Sites(edges, e) == {<<edge.to, edge.target>> : edge \in {x \in edges : x.source = e}}

(***************************************************************************)
(* The routes a server may dispatch a request to, as ADR-77 orders those   *)
(* that accept it: one without `**` beats one with it, one that names more *)
(* of the request beats one that names less, and an explicit method beats  *)
(* ANY on the same path.  Of two routes that each name a segment the other *)
(* leaves open neither beats the other.                                    *)
(***************************************************************************)
Accepting(c, service) ==
    {s \in ServesOf(endpoints, service) :
        MethodsMatch(c.topic, s.topic) /\ Fits(s.topic.path, c.topic.path)}

Beats(r, s, request) ==
    \/ ~EndsWild(r.path) /\ EndsWild(s.path)
    \/ /\ EndsWild(r.path) = EndsWild(s.path)
       /\ \/ Narrower(r.path, s.path, request)
          \/ /\ Open(r.path, request) = Open(s.path, request)
             /\ r.method # AnyMethod /\ s.method = AnyMethod

Unbeaten(c, service) ==
    {s \in Accepting(c, service) :
        ~\E r \in Accepting(c, service) : Beats(r.topic, s.topic, c.topic.path)}

\* One route beats every other one.
HasWinner(c, service) ==
    \E s \in Accepting(c, service) :
        \A r \in Accepting(c, service) \ {s} : Beats(s.topic, r.topic, c.topic.path)

(***************************************************************************)
(* A flow that ends in a call with a fixed URL is complete only if the URL *)
(* names one other indexed service and the flow ends at one route of it    *)
(* that no route of it beats, and it is complete whenever one route there  *)
(* beats all others: the resolution of the service, the matching and       *)
(* ranking of routes, the links and the reconciliation together never let  *)
(* a flow pass for complete that a request would not take, and never keep  *)
(* back one that it must take.  Imported facts are about events and change *)
(* nothing here.                                                           *)
(***************************************************************************)
CompleteMeansDispatched ==
    LET built == BuildGraph(endpoints)
    IN \A f \in DOMAIN status :
        LET c == f[2]
            target == RestTarget(endpoints, c)
            known == target \notin {None, c.module}
        IN  (c \in Calls /\ Plain(c) /\ c.topic.method # AnyMethod
                /\ c.topic.path # <<>> /\ Concrete(c.topic.path)) =>
            /\ status[f] = "complete" =>
                  /\ known
                  /\ \E s \in Unbeaten(c, target) :
                        Sites(built, c) = {<<target, s>>}
            /\ known /\ HasWinner(c, target) => status[f] = "complete"

Rebuilt == EdgesFromRelations(relations, endpoints)

(***************************************************************************)
(* An export, which sees the persisted relations and not the resolution    *)
(* that made them, connects the same services as the index did, and for a  *)
(* plain call that is alone on its line it shows the very route the index  *)
(* reconciled against.                                                     *)
(***************************************************************************)
ExportShowsTheIndexedLinks ==
    Indexed =>
        LET rebuilt == Rebuilt
            built == BuildGraph(endpoints)
        IN  /\ {<<e.kind, e.from, e.to>> : e \in rebuilt}
                 = {<<e.kind, e.from, e.to>> : e \in built}
            /\ \A c \in Calls :
                  (Plain(c) /\ \A d \in Calls \ {c} : d.module # c.module \/ d.site # c.site)
                     => Sites(rebuilt, c) = Sites(built, c)

(***************************************************************************)
(* The comment of `graph_edges_from_relations`: "an export sees the site   *)
(* the index reconciled against", for every link.                          *)
(***************************************************************************)
ExportSeesTheSite ==
    Indexed => \A e \in endpoints : Sites(Rebuilt, e) = Sites(BuildGraph(endpoints), e)

(***************************************************************************)
(* docs/spec-fonc/extraction-rules.md: a call "whose route matches no      *)
(* served route keeps one relation to the service".                        *)
(***************************************************************************)
UnmatchedCallKeepsItsService ==
    Indexed =>
        \A c \in Calls :
            LET target == RestTarget(endpoints, c)
            IN  (c.domain # None /\ target \notin {None, c.module}) =>
                    \E r \in relations : r.source = c.module /\ r.target = target

(***************************************************************************)
(* ADR-27b: an import never degrades what is confirmed.  A flow that the   *)
(* index found complete stays complete when the flows are calculated with  *)
(* accepted facts.                                                         *)
(***************************************************************************)
FactsDegradeNoFlow ==
    calculations > 0 =>
        LET built == BuildGraph(endpoints)
        IN  \A f \in DOMAIN status :
                Reconcile(f, endpoints, built, {}) = "complete" => status[f] = "complete"
=============================================================================
