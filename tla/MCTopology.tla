----------------------------- MODULE MCTopology -----------------------------
EXTENDS Topology

(***************************************************************************)
(* Endpoints by hand.                                                      *)
(***************************************************************************)
At(id, module, system, role, method, path) ==
    [id |-> id, module |-> module, system |-> system, role |-> role,
     topic |-> [method |-> method, path |-> path], site |-> id,
     dynamic |-> FALSE, type |-> None, manifest |-> FALSE, openapi |-> FALSE,
     hint |-> None, domain |-> None, configured |-> FALSE, external |-> None,
     contracts |-> {}, gateway |-> FALSE]

Call(id, path, hint) == [At(id, "orders", "rest", "call", "GET", path) EXCEPT !.hint = hint]
Serve(id, module, path) == At(id, module, "rest", "serve", "GET", path)
Event(id, module, role, type) ==
    [At(id, module, "kafka", role, "EVENT", <<"a">>) EXCEPT !.type = type]

Entry == Serve(0, "orders", <<"b">>)

MCLiterals == {"a", "b"}
MCTemplates == {"{x}", "{x:a}"}
MCAllowed == [t \in MCTemplates |-> IF t = "{x}" THEN MCLiterals ELSE {"a"}]
MCMethods == {"GET", "ANY", "EVENT"}
MCAliases == [s \in {"orders", "stock", "pay"} |->
                 IF s = "orders" THEN {} ELSE {"store"}]

(***************************************************************************)
(* Routes: one call and up to two served routes of the service it names.   *)
(***************************************************************************)
Ends == MCLiterals \cup MCTemplates \cup {"**"}
Paths == {<<>>} \cup {<<e>> : e \in Ends}
           \cup {<<s, e>> : s \in MCLiterals \cup MCTemplates, e \in Ends}
Plainly == {p \in Paths : "{x:a}" \notin ToSet(p)}

Routed(c, s, t) ==
    {Entry, [Call(1, c, "stock") EXCEPT !.topic.method = "GET"],
     Serve(2, "stock", s), [Serve(3, "stock", t) EXCEPT !.topic.method = "ANY"]}

OneRoute == {{Entry, Call(1, c, "stock"), Serve(2, "stock", s)} : c, s \in Paths}

TwoRoutes ==
    {Routed(c, s, t) : <<c, s, t>> \in
        {r \in Plainly \X Plainly \X Plainly : ~(EndsWild(r[2]) /\ EndsWild(r[3]))}}
      \cup
    {{Entry, Call(1, c, "stock"), Serve(2, "stock", s), Serve(3, "stock", t)} :
        <<c, s, t>> \in {r \in Plainly \X Plainly \X Plainly :
                            /\ Concrete(r[1])
                            /\ ~(EndsWild(r[2]) /\ EndsWild(r[3]))}}

\* Two routes of one service that both end in `**`.
WildRoutes ==
    {{Entry, Call(1, c, "stock"), Serve(2, "stock", s), Serve(3, "stock", t)} :
        <<c, s, t>> \in {r \in Plainly \X Plainly \X Plainly :
                            EndsWild(r[2]) /\ EndsWild(r[3])}}

\* Longer paths: routes that name different segments of one request.
DeepRoutes ==
    LET request == <<"a", "b", "a">>
        Deep == {<<p, q, r>> : p, r \in {"a", "{x}"}, q \in {"b", "{x}"}}
    IN  {{Entry, Call(1, request, "stock"), Serve(2, "stock", s),
          [Serve(3, "stock", t) EXCEPT !.topic.method = m]} :
            s, t \in Deep, m \in {"GET", "ANY"}}

(***************************************************************************)
(* Links: any part of an inventory in which every kind of evidence occurs. *)
(***************************************************************************)
Always == {Entry, Serve(1, "stock", <<"a">>), Call(3, <<"a">>, "stock")}

Optional ==
    {Serve(2, "stock", <<"{x}">>),
     [Call(4, <<"b", "b">>, "store") EXCEPT !.domain = "store"],
     [Call(5, <<"b", "a">>, "stock") EXCEPT !.domain = "stock", !.configured = TRUE,
                                             !.dynamic = TRUE],
     [Call(6, <<"**">>, "stock") EXCEPT !.gateway = TRUE, !.topic.method = "ANY"],
     [Call(7, <<"a">>, None) EXCEPT !.external = "partner"],
     [Call(8, <<"a">>, "stock") EXCEPT !.contracts = {"api"}],
     [Serve(9, "pay", <<"a">>) EXCEPT !.openapi = TRUE, !.contracts = {"api"}],
     Event(10, "orders", "produce", "A"), Event(11, "stock", "consume", "A"),
     Event(12, "pay", "consume", None),
     [Event(13, "pay", "consume", "B") EXCEPT !.manifest = TRUE],
     [Serve(14, None, <<"a">>) EXCEPT !.site = 1]}

LinkInventories == {Always \cup E : E \in SUBSET Optional}

MCInventories ==
    OneRoute \cup TwoRoutes \cup DeepRoutes \cup LinkInventories


\* A service called by the name its application gives itself, on a route it
\* does not serve.
AliasInventories ==
    {{Entry, Serve(1, "stock", <<"a">>),
      [Call(4, <<"b", "b">>, "store") EXCEPT !.domain = "store"]}}

Topic == [method |-> "EVENT", path |-> <<"a">>]
MCFactSets ==
    {{}, {[source |-> "orders", target |-> "stock", topic |-> Topic]},
     {[source |-> "orders", target |-> None, topic |-> Topic],
      [source |-> None, target |-> "pay", topic |-> Topic]}}
=============================================================================
