----------------------------- MODULE StaleReads -----------------------------
(***************************************************************************)
(* The stale-read diagnostic of the HTML export and the executions it      *)
(* speaks of.                                                              *)
(*                                                                         *)
(* `_call_graph_stale_reads` pairs one write and one read of a resource    *)
(* that a call graph reaches: the write behind a Kafka publication, the    *)
(* read on the synchronous side of the handler where the two paths part.   *)
(* It decides from the source lines of the two departures.  Here it runs   *)
(* on the flows an index holds (`materialize_code_flows`,                  *)
(* `materialize_call_graph_flows`), along the paths `_reachable_flow_paths`*)
(* finds; its verdict is then held against every execution of the program: *)
(* a REST call runs inside its caller, a publication starts a thread that  *)
(* runs whenever it likes.                                                 *)
(*                                                                         *)
(* A program is a set of sites.  A site is [at, lines, inner, key, does,   *)
(* to]: a direct site (inner = 0) is at its line of its handler's method;  *)
(* an internal one is at line `inner` of a helper the handler calls from   *)
(* `lines`.  `does` is "rest" or "kafka" (a departure to handler `to`),    *)
(* "read" or "write".  `key` is the rank of the site's identifier among    *)
(* the effects of its line.  Handler 0 is the root.                        *)
(***************************************************************************)
EXTENDS Integers, FiniteSets, FiniteSetsExt, Sequences, SequencesExt

CONSTANT Programs

VARIABLES program, verdict, threads, seen
vars == <<program, verdict, threads, seen>>

Departures(p) == {s \in p.sites : s.does \in {"rest", "kafka"}}
Handlers(p) == {0} \union {d.to : d \in Departures(p)}
TheWrite(p) == CHOOSE s \in p.sites : s.does = "write"
TheRead(p) == CHOOSE s \in p.sites : s.does = "read"

-----------------------------------------------------------------------------
(* The flows the index holds. *)

Call == [does |-> "method_call"]
Step(line, what) == [line |-> line, what |-> what]

\* materialize_code_flows: every effect of the handler's own method, in one
\* flow, by line and then by identifier.
MethodFlow(p, h) ==
  LET own == {s \in p.sites : s.at = h /\ s.inner = 0}
      Before(s) == {x \in own : \/ Min(x.lines) < Min(s.lines)
                                \/ x.lines = s.lines /\ x.key < s.key}
      At(i) == CHOOSE s \in own : Cardinality(Before(s)) = i - 1
  IN [i \in 1..Cardinality(own) |-> Step(Min(At(i).lines), At(i))]

\* materialize_call_graph_flows: one flow per effect of a called method; of
\* the calls that lead to it the traversal keeps the first.
RouteFlow(s) == <<Step(Min(s.lines), Call), Step(s.inner, s)>>

FlowsOf(p, h) ==
  ({MethodFlow(p, h)} \ {<<>>})
    \union {RouteFlow(s) : s \in {x \in p.sites : x.at = h /\ x.inner > 0}}

Effects(flow) == {flow[i].what : i \in DOMAIN flow}

\* Flows that share the trigger's endpoint are walked together.  A scheduler
\* names no endpoint: each of its flows is a root of its own.
RootGroups(p) ==
  IF p.trigger = "cron" THEN {{f} : f \in FlowsOf(p, 0)} ELSE {FlowsOf(p, 0)}

FlowsIn(p, group, h) == IF h = 0 THEN group ELSE FlowsOf(p, h)

-----------------------------------------------------------------------------
(* The paths of a call graph (_reachable_flow_paths). *)

\* Only an edge to another service is followed.
Followed(p, group) ==
  {d \in Departures(p) : /\ p.home[d.at] # p.home[d.to]
                         /\ \E f \in FlowsIn(p, group, d.at) : d \in Effects(f)}

End(route) == IF route = <<>> THEN 0 ELSE Last(route).to

\* Every route from the root, at most one departure per handler long.
Routes(p, departures) ==
  {r \in BoundedSeq(departures, Cardinality(Handlers(p)) - 1) :
     \A i \in DOMAIN r : r[i].at = IF i = 1 THEN 0 ELSE r[i - 1].to}

\* Each flow keeps the shortest path, as the flows of one endpoint all do.
ReachableFlowPaths(p, group) ==
  LET routes == Routes(p, Followed(p, group))
      To(h) == {r \in routes : End(r) = h}
  IN [h \in {End(r) : r \in routes} |->
        CHOOSE r \in To(h) : \A other \in To(h) : Len(r) <= Len(other)]

-----------------------------------------------------------------------------
(* The verdict. *)

\* How many steps two sequences have in common before they part.
Shared(a, b) ==
  CHOOSE n \in 0..Len(a) :
    /\ n = Len(a) \/ n = Len(b) \/ a[n + 1] # b[n + 1]
    /\ \A i \in 1..n : i <= Len(b) /\ a[i] = b[i]

\* _branch_sites: where the flows of the fork handler hold the departure.
BranchSites(flows, target) ==
  UNION {{<<f, i>> : i \in {j \in DOMAIN f : f[j].what = target}} : f \in flows}

Order(a, b) ==
  IF a = b THEN "none" ELSE IF a < b THEN "write_first" ELSE "read_first"

\* Mutant: the lines of the effects themselves, a helper's file taken for the
\* handler's.
SiteOrderOfEffects(w, r) == Order(w[1][w[2]].line, r[1][r[2]].line)

\* _site_order: the places of one flow follow its steps; those of two flows
\* the lines of the first steps that differ.
SiteOrder(w, r) ==
  LET Until(place) == SubSeq(place[1], 1, place[2])
      shared == Shared(Until(w), Until(r))
  IN IF w[1] = r[1] THEN Order(w[2], r[2])
     ELSE IF shared < w[2] /\ shared < r[2]
          THEN Order(w[1][shared + 1].line, r[1][shared + 1].line) ELSE "none"

\* _call_graph_stale_reads on one pair: "undecided" leaves it to the rules
\* for branch labels.
BranchVerdict(p, group, path) ==
  LET w == TheWrite(p)
      r == TheRead(p)
      hops == Shared(path[w.at], path[r.at])
      prefix == SubSeq(path[w.at], 1, hops)
      Beyond(route) == SubSeq(route, hops + 1, Len(route))
      write_outputs == Beyond(path[w.at])
      read_outputs == Beyond(path[r.at])
      fork == {f \in FlowsIn(p, group, End(prefix)) : path[End(prefix)] = prefix}
      write_sites == BranchSites(fork, write_outputs[1])
      read_sites == BranchSites(fork, IF read_outputs = <<>> THEN r ELSE read_outputs[1])
      orders == {SiteOrder(x, y) : x \in write_sites, y \in read_sites} \ {"none"}
      published == /\ \E i \in DOMAIN write_outputs : write_outputs[i].does = "kafka"
                   /\ \A i \in DOMAIN read_outputs : read_outputs[i].does = "rest"
  IN IF ~published THEN "undecided"
     ELSE IF "write_first" \in orders THEN "potential_risk"
     ELSE IF orders = {} THEN "insufficient_evidence" ELSE "none"

\* The rules for branch labels: a write below a message entry and a read below
\* an HTTP one, in two flows of one root, without evidence of their order.
Entry(p, h) ==
  IF h = 0 THEN p.trigger
  ELSE LET d == CHOOSE x \in Departures(p) : x.to = h
       IN IF d.does = "kafka" THEN "message" ELSE "http"

LabelVerdict(p) ==
  IF Entry(p, TheWrite(p).at) = "message" /\ Entry(p, TheRead(p).at) = "http"
  THEN "insufficient_evidence" ELSE "none"

\* diagnose_flow_consistency_snapshot under one root.
RootVerdict(p, group) ==
  LET path == ReachableFlowPaths(p, group)
      Reached(s) == /\ s.at \in DOMAIN path
                    /\ \E f \in FlowsIn(p, group, s.at) : s \in Effects(f)
      branch == BranchVerdict(p, group, path)
  IN IF ~Reached(TheWrite(p)) \/ ~Reached(TheRead(p)) THEN "none"
     ELSE IF branch = "undecided" THEN LabelVerdict(p) ELSE branch

Verdict(p) ==
  LET all == {RootVerdict(p, group) : group \in RootGroups(p)}
  IN IF "potential_risk" \in all THEN "potential_risk"
     ELSE IF "insufficient_evidence" \in all THEN "insufficient_evidence" ELSE "none"

-----------------------------------------------------------------------------
(* The executions. *)

\* One run of a handler: the places of its sites still to come.
Places(p, h) ==
  UNION {{[line |-> l, inner |-> s.inner, site |-> s] : l \in s.lines} :
           s \in {x \in p.sites : x.at = h}}

\* Nothing orders two places of one line, unless one helper holds both.
Earlier(a, b) ==
  \/ a.line < b.line
  \/ a.line = b.line /\ a.inner > 0 /\ b.inner > 0 /\ a.inner < b.inner

Ready(frame) == {a \in frame : \A b \in frame : ~Earlier(b, a)}

\* A thread is its stack of runs, the innermost last, and the threads whose
\* messages led to it.  It goes on in the last run that has places left.
Active(frames, i) == frames[i] # {} /\ \A j \in i + 1..Len(frames) : frames[j] = {}

\* The write is still to come in this thread, or behind a departure of it.
Owes(thread) ==
  LET below == {r \in Routes(program, Departures(program)) :
                  End(r) = TheWrite(program).at}
      Leads(s) == s = TheWrite(program) \/ \E r \in below : s \in ToSet(r)
  IN \E i \in DOMAIN thread.frames : \E a \in thread.frames[i] : Leads(a.site)

Init ==
  /\ program \in Programs
  /\ verdict = Verdict(program)
  /\ threads = <<[frames |-> <<Places(program, 0)>>, causes |-> {}]>>
  /\ seen = "nothing"

\* Thread t goes past one place of the run it is in.
At(t, i, place, does) ==
  /\ Active(threads[t].frames, i)
  /\ place \in Ready(threads[t].frames[i])
  /\ place.site.does = does

Passed(t, i, place) == [threads[t].frames EXCEPT ![i] = @ \ {place}]

\* A REST call runs its handler before the caller goes on.
CallRest(t, i, place) ==
  /\ At(t, i, place, "rest")
  /\ threads' = [threads EXCEPT ![t].frames =
                   Append(Passed(t, i, place), Places(program, place.site.to))]
  /\ UNCHANGED <<program, verdict, seen>>

\* A publication leaves its consumer to a thread of its own.
Publish(t, i, place) ==
  /\ At(t, i, place, "kafka")
  /\ threads' = Append([threads EXCEPT ![t].frames = Passed(t, i, place)],
                       [frames |-> <<Places(program, place.site.to)>>,
                        causes |-> threads[t].causes \union {t}])
  /\ UNCHANGED <<program, verdict, seen>>

Write(t, i, place) ==
  /\ At(t, i, place, "write")
  /\ threads' = [threads EXCEPT ![t].frames = Passed(t, i, place)]
  /\ UNCHANGED <<program, verdict, seen>>

\* A read is stale when a message its own thread caused still owes the write.
\* An early one has the write before it for another reason.
Read(t, i, place) ==
  LET owing == {u \in DOMAIN threads : Owes(threads[u])}
  IN /\ At(t, i, place, "read")
     /\ threads' = [threads EXCEPT ![t].frames = Passed(t, i, place)]
     /\ seen' = IF seen = "stale" \/ \E u \in owing : t \in threads[u].causes
                THEN "stale" ELSE IF owing # {} THEN "early" ELSE "fresh"
     /\ UNCHANGED <<program, verdict>>

Next ==
  \E t \in DOMAIN threads : \E i \in DOMAIN threads[t].frames :
    \E place \in threads[t].frames[i] :
      \/ CallRest(t, i, place)
      \/ Publish(t, i, place)
      \/ Write(t, i, place)
      \/ Read(t, i, place)

Spec == Init /\ [][Next]_vars

-----------------------------------------------------------------------------
(* The programs the diagnostic decides rightly. *)

Line(s) == Min(s.lines)

\* Each handler but the root has one departure into it, from a handler of
\* another service; each effect is at one line.
IsTree(p) ==
  LET n == Cardinality(Handlers(p)) - 1
  IN /\ Handlers(p) = 0..n
     /\ \A h \in 1..n : \E d \in Departures(p) :
          d.at < h /\ \A x \in Departures(p) : x.to = h <=> x = d
     /\ \A d \in Departures(p) : d.to # 0 /\ p.home[d.at] # p.home[d.to]
     /\ \A s \in p.sites : /\ s.does \in {"rest", "kafka", "read", "write"}
                           /\ s.at \in 0..n /\ {s.inner, s.key} \subseteq Nat
                           /\ \E l \in s.lines : l \in Nat /\ s.lines = {l}

\* One write and one read.
OnePair(p) ==
  /\ IsFiniteSet(p.sites)
  /\ \A what \in {"write", "read"} : \E s \in p.sites :
       \A x \in p.sites : x.does = what <=> x = s

\* The source lines tell the effects of one method apart.
Distinct(p) ==
  \A a, b \in p.sites :
    a.at = b.at /\ a.lines = b.lines /\ a.inner = b.inner => a = b

\* No helper is called between the effects of its caller's own method.
HelpersApart(p) ==
  \A a, b, c \in p.sites :
    /\ a.at = c.at /\ b.at = c.at
    /\ a.inner = 0 /\ b.inner = 0 /\ c.inner > 0
    /\ Line(a) < Line(c)
    => Line(b) < Line(c)

Decided(p) ==
  p.trigger # "cron" /\ Distinct(p) /\ OnePair(p) /\ IsTree(p) /\ HelpersApart(p)

-----------------------------------------------------------------------------
(* Properties. *)

\* A read that an execution shows stale has a diagnostic, be it one that says
\* the evidence does not suffice: silence means the read cannot be stale
\* (ADR-59: "Report nothing when the read precedes it").
StaleReadIsDiagnosed == seen = "stale" => verdict # "none"

\* Where the order of the two departures is said to be a risk, every
\* execution that reads before the write reads behind its own publication:
\* no risk is reported of a read that only came first
\* (ADR-59: "Report a possible risk when the publication precedes the read").
RiskIsBehindPublication == verdict = "potential_risk" => seen # "early"
=============================================================================
