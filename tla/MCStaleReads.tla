---------------------------- MODULE MCStaleReads ----------------------------
(***************************************************************************)
(* Programs whose handlers 1..n each have one departure into them; the     *)
(* write and the read are anywhere.                                        *)
(***************************************************************************)
EXTENDS StaleReads

\* Places in a method and, with its line, in a helper it calls from there.
Direct == {<<1, 0>>, <<2, 0>>}
Inside == {<<1, 1>>, <<1, 2>>}
Around == {<<1, 1>>, <<2, 0>>, <<3, 1>>}

Site(at, place, does, to) ==
  [at |-> at, lines |-> {place[1]}, inner |-> place[2], key |-> 0,
   does |-> does, to |-> to]

Program(n, trigger, parent, system, way, write, read) ==
  [trigger |-> trigger, home |-> [h \in 0..n |-> h],
   sites |-> {Site(parent[h], way[h], system[h], h) : h \in 1..n}
             \union {Site(write[1], write[2], "write", 0),
                     Site(read[1], read[2], "read", 0)}]

ProgramsOf(n, triggers, places) ==
  {Program(n, trigger, parent, system, way, write, read) :
     trigger \in triggers,
     parent \in {f \in [1..n -> 0..n] : \A h \in 1..n : f[h] < h},
     system \in [1..n -> {"rest", "kafka"}],
     way \in [1..n -> places],
     write \in (0..n) \X places, read \in (0..n) \X places}

Trees ==
  {p \in ProgramsOf(2, {"http"}, Direct \union Inside) : Decided(p)}
    \union {p \in ProgramsOf(2, {"message"}, Around) : Decided(p)}
    \union {p \in ProgramsOf(3, {"http"}, Direct) : Decided(p)}

\* A helper is called between two effects of its caller.
Between ==
  {p \in ProgramsOf(2, {"http"}, {<<1, 0>>, <<2, 1>>, <<3, 0>>}) :
     Distinct(p) /\ ~HelpersApart(p)}

-----------------------------------------------------------------------------
(* Programs outside that shape: a handler that publishes to handler 1,     *)
(* whose write it then reads, or a variation of it.                        *)

Publisher(trigger, home, sites) ==
  [trigger |-> trigger, home |-> home,
   sites |-> sites \union {Site(1, <<1, 0>>, "write", 0)}]

Elsewhere == [h \in 0..1 |-> h]

\* The helper that reads is called before the publication and after it.
Repeated ==
  {Publisher("http", Elsewhere,
     {Site(0, <<2, 0>>, "kafka", 1),
      [Site(0, <<1, 1>>, "read", 0) EXCEPT !.lines = {1, 3}]})}

\* A scheduler starts the handler; a helper reads.
Scheduled ==
  {Publisher("cron", Elsewhere,
     {Site(0, <<1, 0>>, "kafka", 1), Site(0, <<2, 1>>, "read", 0)})}

\* The consumer belongs to the publisher's own service.
OwnTopic ==
  {Publisher("http", [h \in 0..1 |-> 0],
     {Site(0, <<1, 0>>, "kafka", 1), Site(0, <<2, 0>>, "read", 0)})}

\* Both are on one line.
OneLine ==
  {Publisher("http", Elsewhere,
     {[Site(0, <<1, 0>>, "kafka", 1) EXCEPT !.key = key],
      [Site(0, <<1, 0>>, "read", 0) EXCEPT !.key = 1 - key]}) : key \in {0, 1}}

\* The shortest way to the write is synchronous, another one is not.
Diamond ==
  {[trigger |-> "http", home |-> [h \in 0..2 |-> h],
    sites |-> {Site(0, <<1, 0>>, "kafka", 1), Site(1, <<1, 0>>, "rest", 2),
               Site(0, <<3, 0>>, "rest", 2), Site(0, <<2, 0>>, "read", 0),
               Site(2, <<1, 0>>, "write", 0)}]}
=============================================================================
