------------------------------ MODULE FlowJoin ------------------------------
(***************************************************************************)
(* The join of one indexed entry method in `materialize_call_graph_flows`: *)
(* a breadth-first search of the Java call graph, from the method that     *)
(* receives an input to the methods that own an output endpoint or access  *)
(* data.  Every route that reaches one is recorded; routes with the same   *)
(* two ends and the same status become one flow with one representative.   *)
(* Reachability rows of an engine may then add flows, and the flows are    *)
(* deduplicated once more before they are returned.                        *)
(*                                                                         *)
(* Data abstraction.  The entry has one trigger, which has an endpoint     *)
(* identifier (the search is repeated for each trigger, and a scheduler    *)
(* has none).  A method owns at most one data operation.  Steps, reasons   *)
(* and identifiers of a flow are left out: a flow is its route.            *)
(***************************************************************************)
EXTENDS Naturals, Sequences, FiniteSets

CONSTANTS
    Methods, Entry,
    Endpoints,       \* output endpoints: HTTP calls and publications
    Outputs,         \* the output endpoints of each method
    Accesses,        \* the methods that own a data operation
    Pool,            \* the calls a source tree may contain
    Class,           \* the class that declares a method
    Ancestors,       \* of a class, itself included (`JavaSymbols.ancestors`)
    Module,          \* the module of a method
    Applications,    \* modules that start an application
    ExactOnly,       \* --edge-confidence exact
    MaxHops          \* --max-hops

\* How the call was found: resolved, one of several dispatch targets, or
\* added by the source symbols.  Two calls of a pair are two call sites.
Call == [from : Methods, to : Methods, kind : {"exact", "possible", "inferred"}]

ASSUME MethodsAssumption ==
    /\ Entry \in Methods /\ Accesses \subseteq Methods
    /\ Outputs \in [Methods -> SUBSET Endpoints]
ASSUME CallsAssumption == Pool \subseteq Call /\ IsFiniteSet(Pool)
ASSUME BoundsAssumption == ExactOnly \in BOOLEAN /\ MaxHops \in Nat

VARIABLES
    calls,      \* the call graph
    phase,      \* "start", "search", "rows" or "done"
    queue,      \* routes whose last method is still to be expanded
    visited,    \* the method/confidence states that were queued
    route,      \* the route being expanded
    todo,       \* its eligible calls that are still to be followed
    explored,   \* number of transitions
    flows,      \* the routes recorded for each pair of ends and status
    direct,     \* flows of reachability rows, by output endpoint
    published   \* what the join returns

vars == <<calls, phase, queue, visited, route, todo, explored, flows, direct, published>>

(***************************************************************************)
(* Routes                                                                  *)
(***************************************************************************)

End(r)  == IF r = <<>> THEN Entry ELSE r[Len(r)].to

\* "medium" confidence; any possible or inferred call makes it "low".
Sure(r) == \A i \in DOMAIN r : r[i].kind = "exact"

Passes(r) == {r[i].to : i \in DOMAIN r}

(***************************************************************************)
(* The ends of a flow, which identify it together with its status.         *)
(***************************************************************************)

Out(o)  == <<"out", o>>
Data(m) == <<"data", m>>
Cycle   == <<"cycle", Entry>>
Keys    == {Out(o) : o \in Endpoints} \cup {Data(m) : m \in Accesses} \cup {Cycle}

\* record_flow, for a set of flows that share one route.
Record(ks, r) == [k \in Keys |-> IF k \in ks THEN flows[k] \cup {r} ELSE flows[k]]

\* The route that represents a group: evidence of a call first, then
\* confidence, then length.  Identifiers, which are hashes, decide between
\* equals: a fixed choice, but no particular one.
Before(r, s) ==
    \/ r # <<>> /\ s = <<>>
    \/ /\ (r = <<>>) <=> (s = <<>>)
       /\ \/ Sure(r) /\ ~Sure(s)
          \/ (Sure(r) <=> Sure(s)) /\ Len(r) > Len(s)

Representative(group) == CHOOSE r \in group : \A s \in group : ~Before(s, r)

(***************************************************************************)
(* Which calls the search of this entry follows                            *)
(***************************************************************************)

WithinApplicationBoundary(m) == Module[m] = Module[Entry] \/ Module[m] \notin Applications

\* Mutant: a call of an inherited body reaches every override.
AnyOverride(c) == TRUE

DispatchMatchesEntry(c) ==
    LET current == Class[c.from]
        target  == Class[c.to]
        mine    == Ancestors[Class[Entry]]
    IN  current \notin {target, Class[Entry]} /\ current \in Ancestors[target] \cap mine
            => target \in mine

Eligible == {c \in calls : /\ ExactOnly => c.kind = "exact"
                           /\ WithinApplicationBoundary(c.to)
                           /\ DispatchMatchesEntry(c)}

EligibleFrom(m) == {c \in Eligible : c.from = m}

(***************************************************************************)
(* The search                                                              *)
(***************************************************************************)

Init ==
    /\ calls \in SUBSET Pool
    /\ phase = "start"
    /\ queue = <<>> /\ visited = {} /\ route = <<>> /\ todo = {}
    /\ explored = 0
    /\ flows = [k \in Keys |-> {}]
    /\ direct = {} /\ published = {}

\* The outputs of the entry method itself, then the queue with the entry.
Start ==
    /\ phase = "start"
    /\ phase' = "search"
    /\ flows' = Record({Out(o) : o \in Outputs[Entry]}, <<>>)
    /\ queue' = << <<>> >>
    /\ visited' = {<<Entry, TRUE>>}
    /\ UNCHANGED <<calls, route, todo, explored, direct, published>>

\* Mutant: the hop limit is reached one call early.
PopOneHopShort ==
    /\ phase = "search" /\ todo = {} /\ queue # <<>>
    /\ route' = Head(queue)
    /\ queue' = Tail(queue)
    /\ flows' = Record({Data(End(route'))} \cap Keys, route')
    /\ todo' = IF Len(route') + 1 < MaxHops THEN EligibleFrom(End(route')) ELSE {}
    /\ UNCHANGED <<calls, phase, visited, explored, direct, published>>

\* Take the first route; at the hop limit it is not expanded.
Pop ==
    /\ phase = "search" /\ todo = {} /\ queue # <<>>
    /\ route' = Head(queue)
    /\ queue' = Tail(queue)
    /\ flows' = Record({Data(End(route'))} \cap Keys, route')
    /\ todo' = IF Len(route') < MaxHops THEN EligibleFrom(End(route')) ELSE {}
    /\ UNCHANGED <<calls, phase, visited, explored, direct, published>>

\* Mutant: the entry itself, which is not on the route, is forgotten.
ClosesOnRoute(c) == c.to \in Passes(route)

Closes(c) == c.to = Entry \/ c.to \in Passes(route)

\* A call back to the entry or to a method of the route is a cycle, which is
\* recorded and not followed.
FollowCycle(c) ==
    /\ phase = "search" /\ c \in todo /\ Closes(c)
    /\ todo' = todo \ {c}
    /\ explored' = explored + 1
    /\ flows' = Record({Cycle}, Append(route, c))
    /\ UNCHANGED <<calls, phase, queue, visited, route, direct, published>>

\* Mutant: a method is queued once, whatever the confidence of the route.
FollowOnce(c) ==
    /\ phase = "search" /\ c \in todo /\ ~Closes(c)
    /\ todo' = todo \ {c}
    /\ explored' = explored + 1
    /\ LET next  == Append(route, c)
           state == <<c.to, TRUE>>
       IN  /\ flows' = Record({Out(o) : o \in Outputs[c.to]}, next)
           /\ queue' = IF state \in visited THEN queue ELSE Append(queue, next)
           /\ visited' = visited \cup {state}
    /\ UNCHANGED <<calls, phase, route, direct, published>>

\* Mutant: a method is queued again for every route to it.
FollowEveryRoute(c) ==
    /\ phase = "search" /\ c \in todo /\ ~Closes(c)
    /\ todo' = todo \ {c}
    /\ explored' = explored + 1
    /\ LET next == Append(route, c)
       IN  /\ flows' = Record({Out(o) : o \in Outputs[c.to]}, next)
           /\ queue' = Append(queue, next)
           /\ visited' = visited \cup {<<c.to, Sure(next)>>}
    /\ UNCHANGED <<calls, phase, route, direct, published>>

\* Another call: the outputs of its target are recorded, and the target is
\* queued unless it was queued before with the same confidence.
Follow(c) ==
    /\ phase = "search" /\ c \in todo /\ ~Closes(c)
    /\ todo' = todo \ {c}
    /\ explored' = explored + 1
    /\ LET next  == Append(route, c)
           state == <<c.to, Sure(next)>>
       IN  /\ flows' = Record({Out(o) : o \in Outputs[c.to]}, next)
           /\ queue' = IF state \in visited THEN queue ELSE Append(queue, next)
           /\ visited' = visited \cup {state}
    /\ UNCHANGED <<calls, phase, route, direct, published>>

EndSearch ==
    /\ phase = "search" /\ todo = {} /\ queue = <<>>
    /\ phase' = "rows"
    /\ UNCHANGED <<calls, queue, visited, route, todo, explored, flows, direct, published>>

(***************************************************************************)
(* Reachability rows: an engine claims that the entry reaches a method.    *)
(***************************************************************************)

\* The routes of calls E of each length the search allows.
Longer(E) ==
    LET longer[n \in 0..MaxHops] ==
            IF n = 0 THEN {<<>>}
            ELSE UNION {{Append(r, c) : c \in {d \in E : d.from = End(r)}} :
                           r \in longer[n - 1]}
    IN  longer

\* All of them, cycles included.
Chains == LET longer == Longer(Eligible) IN UNION {longer[n] : n \in 0..MaxHops}

\* The routes representative_route may return: the shortest ones without an
\* inferred call, and for an exact row without a possible one.
Witnesses(m, exact) ==
    LET usable == {r \in Chains : /\ r # <<>> /\ End(r) = m
                                  /\ \A i \in DOMAIN r : r[i].kind # "inferred"
                                  /\ exact => Sure(r)}
    IN  {r \in usable : \A s \in usable : Len(r) <= Len(s)}

\* A pair the join connects, or an exact row connected, keeps its flow.
UseRow(m, exact) ==
    /\ phase = "rows" /\ m # Entry
    /\ ExactOnly => exact
    /\ \E r \in Witnesses(m, exact) :
         LET new == {o \in Outputs[m] : /\ flows[Out(o)] = {}
                                        /\ \A d \in direct : d.output = o => ~d.exact}
         IN  direct' = {d \in direct : d.output \notin new}
                         \cup {[output |-> o, exact |-> exact, route |-> r] : o \in new}
    /\ UNCHANGED <<calls, phase, queue, visited, route, todo, explored, flows, published>>

\* Each group is replaced by its representative and direct flows are added;
\* what is left of a group is deduplicated again, and only then counted.
Remaining(k) == (IF flows[k] = {} THEN {} ELSE {Representative(flows[k])})
                  \cup {d.route : d \in {e \in direct : Out(e.output) = k}}

Return ==
    /\ phase = "rows"
    /\ phase' = "done"
    /\ published' = {[key |-> k, route |-> Representative(Remaining(k)),
                      alternatives |-> Cardinality(Remaining(k))] :
                        k \in {j \in Keys : Remaining(j) # {}}}
    /\ UNCHANGED <<calls, queue, visited, route, todo, explored, flows, direct>>

Terminated == phase = "done" /\ UNCHANGED vars

Next ==
    \/ Start \/ Pop \/ EndSearch \/ Return \/ Terminated
    \/ \E c \in todo : FollowCycle(c) \/ Follow(c)
    \/ \E m \in Methods, exact \in BOOLEAN : UseRow(m, exact)

Spec == Init /\ [][Next]_vars

(***************************************************************************)
(* Properties                                                              *)
(***************************************************************************)

\* The receiver of a body that the entry's class inherits is of the entry's
\* class: the body cannot reach an override of a class that is not above it.
ReachesSibling(c) ==
    LET above == Ancestors[Class[Entry]]
    IN  /\ Class[c.from] \in above \ {Class[Entry]}
        /\ Class[c.from] \in Ancestors[Class[c.to]] \ {Class[c.to]}
        /\ Class[c.to] \notin above

\* A route of calls of the program, from the entry and within the hop limit,
\* that stays in the application and off its sibling's overrides.
Possible(r) ==
    /\ r \in Seq(calls) /\ Len(r) <= MaxHops
    /\ \A i \in DOMAIN r :
         /\ r[i].from = IF i = 1 THEN Entry ELSE r[i - 1].to
         /\ WithinApplicationBoundary(r[i].to)
         /\ ~ReachesSibling(r[i])

\* No method occurs twice.
Simple(r) == /\ Entry \notin Passes(r)
             /\ \A i, j \in DOMAIN r : r[i].to = r[j].to => i = j

\* Whether a route is evidence for a flow with these ends.
Supports(r, k) ==
    \/ /\ Simple(r)
       /\ \/ \E o \in Outputs[End(r)] : k = Out(o)
          \/ End(r) \in Accesses /\ k = Data(End(r))
    \/ /\ k = Cycle /\ r # <<>> /\ Simple(SubSeq(r, 1, Len(r) - 1))
       /\ ~Simple(r)

\* The search's own state.
SearchTypeOK ==
    /\ calls \subseteq Pool
    /\ phase \in {"start", "search", "rows", "done"}
    /\ queue \in Seq(Seq(Pool)) /\ route \in Seq(Pool)
    /\ visited \subseteq Methods \X BOOLEAN
    /\ todo \subseteq calls
    /\ explored \in Nat
    /\ flows \in [Keys -> SUBSET Seq(Pool)]

\* Every recorded route is a possible one and supports its flow: neither the
\* hop limit, nor the cut at a cycle, nor the dispatch rule
\* (dispatch_matches_entry) lets one through that the program cannot take.
NothingInvented ==
    \A k \in Keys : \A r \in flows[k] : Possible(r) /\ Supports(r, k)

\* The methods that up to n calls of E, all exact or of any kind, can reach.
Levels(E, exact) ==
    LET reached[n \in 0..MaxHops] ==
            IF n = 0 THEN {Entry}
            ELSE reached[n - 1] \cup
                 {c.to : c \in {d \in E : /\ d.from \in reached[n - 1]
                                          /\ exact => d.kind = "exact"}}
    IN  reached

Within(exact) == Levels(Eligible, exact)[MaxHops]

Ends(m) == ({Out(o) : o \in Outputs[m]} \cup {Data(m)}) \cap Keys

\* The search loses nothing, though it keeps one route per method and
\* confidence: whatever is within the hop limit has a flow, and an exact route
\* to it is not hidden by a weaker one that came first.
NothingMissed ==
    phase = "done" =>
        /\ \A m \in Within(FALSE), k \in Keys :
             k \in Ends(m) => \E f \in published : f.key = k
        /\ \A m \in Within(TRUE) \ {Entry} : \A f \in published :
             f.key \in Ends(m) => Sure(f.route)

\* An entry that can call itself back within the hop limit has a cycle flow.
EntryCycleIsFound ==
    phase = "done" /\ (\E r \in Chains : r # <<>> /\ End(r) = Entry)
        => \E f \in published : f.key = Cycle

\* A call is followed at most once for each confidence its caller was queued
\* with, so that the work is linear in the size of the graph, however many
\* routes it has.
WorkIsLinear ==
    explored <= Cardinality({w \in Eligible \X BOOLEAN : <<w[1].from, w[2]>> \in visited})

\* A reachability row finds nothing to add: every pair it can witness by a
\* route that passes the join's rules is one the join has connected.
RowsAddNothing == direct = {}

\* A flow says how many routes with its ends the join has found.
AlternativesAreCounted ==
    \A f \in published : f.alternatives = Cardinality(flows[f.key])

\* A cycle that the entry reaches, its own or another, has a flow.
CyclesAreKept ==
    phase = "done" /\ (\E r \in Chains : ~Simple(r))
        => \E f \in published : f.key = Cycle
=============================================================================
