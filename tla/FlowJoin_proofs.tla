-------------------------- MODULE FlowJoin_proofs --------------------------
(***************************************************************************)
(* For every finite call graph, hop limit and assignment of classes and    *)
(* modules, the join of an entry records only routes the program can take  *)
(* (first part), reports every output and every cycle through the entry    *)
(* that is within the limit (second part), and does so in linear work      *)
(* (third part).                                                           *)
(***************************************************************************)
EXTENDS FlowJoin, SequenceTheorems, FiniteSetTheorems, WellFoundedInduction, TLAPS

\* A route that is still searched from: possible, and without a repetition.
Searched(r) == Possible(r) /\ Simple(r)

\* What the search keeps between its steps: queued routes are possible and
\* simple, calls to follow leave the end of the route, and there is room for
\* one more call whenever there is one to follow.
SearchInv ==
    /\ SearchTypeOK
    /\ \A i \in DOMAIN queue : Searched(queue[i])
    /\ Searched(route)
    /\ todo \subseteq EligibleFrom(End(route))
    /\ todo # {} => Len(route) < MaxHops
    /\ NothingInvented

-----------------------------------------------------------------------------

\* One call more: where the route ends and what it passes.
LEMMA AppendCall ==
    ASSUME NEW S, NEW r \in Seq(S), NEW c \in S
    PROVE  /\ End(Append(r, c)) = c.to
           /\ Passes(Append(r, c)) = Passes(r) \cup {c.to}
           /\ Append(r, c) # <<>>
           /\ SubSeq(Append(r, c), 1, Len(Append(r, c)) - 1) = r
  <1> DEFINE s == Append(r, c)
  <1>1. /\ s \in Seq(S) /\ Len(s) = Len(r) + 1 /\ s # <<>>
        /\ s[Len(r) + 1] = c /\ \A i \in 1..Len(r) : s[i] = r[i]
    BY AppendProperties
  <1>2. End(s) = c.to
    BY <1>1 DEF End
  <1>3. Passes(s) = Passes(r) \cup {c.to}
    <2>1. DOMAIN s = 1..(Len(r) + 1) /\ DOMAIN r = 1..Len(r) /\ Len(r) \in Nat
      BY <1>1, LenProperties
    <2>2. 1..(Len(r) + 1) = 1..Len(r) \cup {Len(r) + 1}
      BY <2>1
    <2> QED BY <1>1, <2>1, <2>2 DEF Passes
  <1>4. SubSeq(s, 1, Len(s) - 1) = r
    BY <1>1, SMT
  <1> QED BY <1>1, <1>2, <1>3, <1>4

\* A route with room for one more call stays possible with an eligible one.
LEMMA AppendPossible ==
    ASSUME NEW r, Possible(r), Len(r) < MaxHops,
           NEW c \in EligibleFrom(End(r))
    PROVE  Possible(Append(r, c))
  <1> DEFINE s == Append(r, c)
  <1>1. r \in Seq(calls) /\ c \in calls /\ c.from = End(r)
        /\ WithinApplicationBoundary(c.to) /\ ~ReachesSibling(c)
    BY DEF Possible, EligibleFrom, Eligible, DispatchMatchesEntry, ReachesSibling
  <1>2. /\ s \in Seq(calls) /\ Len(s) = Len(r) + 1
        /\ s[Len(r) + 1] = c /\ \A i \in 1..Len(r) : s[i] = r[i]
    BY <1>1, AppendProperties
  <1>3. Len(r) \in Nat /\ DOMAIN s = 1..(Len(r) + 1) /\ DOMAIN r = 1..Len(r)
    BY <1>1, <1>2, LenProperties
  <1>4. Len(s) <= MaxHops
    BY <1>2, <1>3, BoundsAssumption
  <1>5. ASSUME NEW i \in DOMAIN s
        PROVE  /\ s[i].from = IF i = 1 THEN Entry ELSE s[i - 1].to
               /\ WithinApplicationBoundary(s[i].to)
               /\ ~ReachesSibling(s[i])
    <2>1. CASE i \in 1..Len(r)
      <3>1. s[i] = r[i] /\ (i # 1 => s[i - 1] = r[i - 1])
        BY <1>2, <1>3, <2>1
      <3> QED BY <1>3, <2>1, <3>1 DEF Possible
    <2>2. CASE i = Len(r) + 1
      <3>1. s[i] = c
        BY <1>2, <2>2
      <3>2. c.from = IF i = 1 THEN Entry ELSE s[i - 1].to
        <4>1. CASE r = <<>>
          <5>1. i = 1
            BY <2>2, <4>1
          <5> QED BY <1>1, <4>1, <5>1 DEF End
        <4>2. CASE r # <<>>
          <5>1. i # 1 /\ i - 1 = Len(r) /\ Len(r) \in 1..Len(r)
            BY <1>1, <1>3, <2>2, <4>2, EmptySeq
          <5> QED BY <1>1, <1>2, <4>2, <5>1 DEF End
        <4> QED BY <4>1, <4>2
      <3> QED BY <1>1, <3>1, <3>2
    <2> QED BY <1>3, <2>1, <2>2
  <1> QED BY <1>2, <1>4, <1>5 DEF Possible

\* A call to a method that is neither the entry nor on the route keeps the
\* route simple; any other call does not.
LEMMA AppendSimple ==
    ASSUME NEW S, NEW r \in Seq(S), Simple(r), NEW c \in S
    PROVE  Simple(Append(r, c)) <=> ~(c.to = Entry \/ c.to \in Passes(r))
  <1> DEFINE s == Append(r, c)
  <1>1. /\ s \in Seq(S) /\ Len(s) = Len(r) + 1
        /\ s[Len(r) + 1] = c /\ \A i \in 1..Len(r) : s[i] = r[i]
    BY AppendProperties
  <1>2. Len(r) \in Nat /\ DOMAIN s = 1..(Len(r) + 1) /\ DOMAIN r = 1..Len(r)
    BY <1>1, LenProperties
  <1>3. Passes(s) = Passes(r) \cup {c.to}
    BY AppendCall
  <1>4. ASSUME Simple(s) PROVE ~(c.to = Entry \/ c.to \in Passes(r))
    <2>1. c.to # Entry
      BY <1>3, <1>4 DEF Simple
    <2>2. ASSUME NEW i \in DOMAIN r PROVE r[i].to # c.to
      <3>1. i \in DOMAIN s /\ Len(r) + 1 \in DOMAIN s /\ i # Len(r) + 1
        BY <1>2, <2>2
      <3>2. s[i].to # s[Len(r) + 1].to
        BY <1>4, <3>1 DEF Simple
      <3> QED BY <1>1, <1>2, <2>2, <3>2
    <2> QED BY <2>1, <2>2 DEF Passes
  <1>5. ASSUME c.to # Entry, c.to \notin Passes(r) PROVE Simple(s)
    <2>1. Entry \notin Passes(s)
      BY <1>3, <1>5 DEF Simple
    <2>2. ASSUME NEW i \in DOMAIN s, NEW j \in DOMAIN s, s[i].to = s[j].to
          PROVE  i = j
      <3>1. \A k \in 1..Len(r) : s[k].to # c.to
        BY <1>1, <1>2, <1>5 DEF Passes
      <3>2. CASE i \in 1..Len(r) /\ j \in 1..Len(r)
        <4>1. r[i].to = r[j].to
          BY <1>1, <2>2, <3>2
        <4> QED BY <1>2, <3>2, <4>1 DEF Simple
      <3>3. CASE i = Len(r) + 1 \/ j = Len(r) + 1
        BY <1>1, <1>2, <2>2, <3>1, <3>3
      <3> QED BY <1>2, <3>2, <3>3
    <2> QED BY <2>1, <2>2 DEF Simple
  <1> QED BY <1>4, <1>5

\* Recording a route under ends it supports invents nothing.
LEMMA RecordSound ==
    ASSUME flows \in [Keys -> SUBSET Seq(Pool)], NothingInvented,
           NEW ks, NEW r \in Seq(Pool), Possible(r),
           \A k \in ks : Supports(r, k)
    PROVE  /\ Record(ks, r) \in [Keys -> SUBSET Seq(Pool)]
           /\ \A k \in Keys : \A s \in Record(ks, r)[k] : Possible(s) /\ Supports(s, k)
  BY DEF Record, NothingInvented

\* The empty route, of the entry itself, is possible and simple.
LEMMA EmptyRoute ==
    /\ <<>> \in Seq(calls) /\ Searched(<<>>)
    /\ End(<<>>) = Entry
  BY BoundsAssumption, EmptySeq DEF Searched, Possible, Simple, Passes, End

-----------------------------------------------------------------------------

LEMMA InitSearch == Init => SearchInv
  <1> SUFFICES ASSUME Init PROVE SearchInv
    OBVIOUS
  <1>1. SearchTypeOK
    BY EmptySeq DEF Init, SearchTypeOK
  <1>2. NothingInvented
    BY DEF Init, NothingInvented
  <1>3. DOMAIN queue = {}
    BY DEF Init
  <1> QED BY <1>1, <1>2, <1>3, EmptyRoute DEF Init, SearchInv

\* One step of the join keeps the invariant; one case for each action.
LEMMA NextSearch == SearchInv /\ [Next]_vars => SearchInv'
  <1> SUFFICES ASSUME SearchInv, [Next]_vars PROVE SearchInv'
    OBVIOUS
  <1> USE DEF SearchInv
  <1>types. /\ calls \subseteq Pool /\ queue \in Seq(Seq(Pool)) /\ route \in Seq(Pool)
            /\ explored \in Nat /\ flows \in [Keys -> SUBSET Seq(Pool)]
            /\ visited \subseteq Methods \X BOOLEAN
            /\ todo \subseteq calls
            /\ phase \in {"start", "search", "rows", "done"}
    BY DEF SearchTypeOK
  <1>ends. \A c \in Pool : c.to \in Methods
    BY CallsAssumption DEF Call
  <1>seqs. Seq(calls) \subseteq Seq(Pool)
    BY <1>types
  <1>same. ASSUME calls' = calls, NEW r
           PROVE  /\ Possible(r)' <=> Possible(r)
                  /\ \A m : EligibleFrom(m)' = EligibleFrom(m)
    BY <1>same DEF Possible, EligibleFrom, Eligible, WithinApplicationBoundary,
                   DispatchMatchesEntry, ReachesSibling
  <1>1. CASE Start
    <2>1. /\ calls' = calls /\ route' = route /\ todo' = todo /\ explored' = explored
          /\ queue' = << <<>> >> /\ visited' = {<<Entry, TRUE>>} /\ phase' = "search"
          /\ flows' = Record({Out(o) : o \in Outputs[Entry]}, <<>>)
      BY <1>1 DEF Start
    <2>2. \A k \in {Out(o) : o \in Outputs[Entry]} : Supports(<<>>, k)
      BY EmptyRoute DEF Supports, Searched
    <2>3. /\ flows' \in [Keys -> SUBSET Seq(Pool)]
          /\ \A k \in Keys : \A s \in flows'[k] : Possible(s) /\ Supports(s, k)
      BY <1>types, <1>seqs, <2>1, <2>2, EmptyRoute, RecordSound DEF Searched
    <2>4. NothingInvented'
      BY <1>same, <2>1, <2>3 DEF NothingInvented
    <2>5. queue' \in Seq(Seq(Pool)) /\ \A i \in DOMAIN queue' : queue'[i] = <<>>
      BY <1>seqs, <2>1, EmptyRoute
    <2>6. SearchTypeOK'
      <3>1. visited' \subseteq Methods \X BOOLEAN
        <4>1. visited' = {<<Entry, TRUE>>} /\ Entry \in Methods
          BY <1>1, MethodsAssumption DEF Start
        <4>2. TRUE \in BOOLEAN
          OBVIOUS
        <4>3. <<Entry, TRUE>> \in Methods \X BOOLEAN
          BY <4>1, <4>2, Zenon
        <4> QED BY <4>1, <4>3, Zenon
      <3>2. flows' \in [Keys -> SUBSET Seq(Pool)]
        BY <2>3
      <3> QED BY <1>types, <2>1, <2>5, <3>1, <3>2 DEF SearchTypeOK
    <2> QED BY <1>same, <2>1, <2>4, <2>5, <2>6, EmptyRoute DEF Searched
  <1>2. CASE Pop
    <2>1. /\ calls' = calls /\ explored' = explored /\ visited' = visited /\ phase' = phase
          /\ queue # <<>> /\ route' = Head(queue) /\ queue' = Tail(queue)
          /\ flows' = Record({Data(End(route'))} \cap Keys, route')
          /\ todo' = IF Len(route') < MaxHops THEN EligibleFrom(End(route')) ELSE {}
      BY <1>2 DEF Pop
    <2>2. /\ route' = queue[1] /\ 1 \in DOMAIN queue /\ route' \in Seq(Pool)
          /\ queue' \in Seq(Seq(Pool))
          /\ \A i \in DOMAIN queue' : i + 1 \in DOMAIN queue /\ queue'[i] = queue[i + 1]
      BY <1>types, <2>1
    <2>3. Searched(route')
      BY <2>2
    <2>4. \A k \in {Data(End(route'))} \cap Keys : Supports(route', k)
      <3>1. ASSUME Data(End(route')) \in Keys PROVE End(route') \in Accesses
        BY <3>1, SMT DEF Keys, Data, Out, Cycle
      <3> QED BY <2>3, <3>1 DEF Supports, Searched
    <2>5. /\ flows' \in [Keys -> SUBSET Seq(Pool)]
          /\ \A k \in Keys : \A s \in flows'[k] : Possible(s) /\ Supports(s, k)
      BY <1>types, <2>1, <2>2, <2>3, <2>4, RecordSound DEF Searched
    <2>6. NothingInvented'
      BY <1>same, <2>1, <2>5 DEF NothingInvented
    <2>7. todo' \subseteq EligibleFrom(End(route')) /\ todo' \subseteq calls
          /\ (todo' # {} => Len(route') < MaxHops)
      BY <2>1 DEF EligibleFrom, Eligible
    <2>8. SearchTypeOK'
      BY <1>types, <2>1, <2>2, <2>5, <2>7 DEF SearchTypeOK
    <2>9. Searched(route)' /\ \A i \in DOMAIN queue' : Searched(queue[i])'
      BY <1>same, <2>1, <2>2, <2>3 DEF Searched
    <2> QED BY <1>same, <2>1, <2>6, <2>7, <2>8, <2>9 DEF End
  <1>follow. ASSUME NEW c \in todo
             PROVE  /\ Possible(Append(route, c)) /\ Append(route, c) \in Seq(Pool)
                    /\ End(Append(route, c)) = c.to /\ Append(route, c) # <<>>
                    /\ SubSeq(Append(route, c), 1, Len(Append(route, c)) - 1) = route
                    /\ Simple(Append(route, c)) <=> ~Closes(c)
    <2>1. c \in Pool /\ c \in EligibleFrom(End(route)) /\ Len(route) < MaxHops
      BY <1>types, <1>follow
    <2>2. Possible(Append(route, c))
      BY <2>1, AppendPossible DEF Searched
    <2>3. Append(route, c) \in Seq(Pool)
      BY <1>types, <2>1
    <2>4. Simple(Append(route, c)) <=> ~Closes(c)
      BY <1>types, <2>1, AppendSimple DEF Searched, Closes
    <2> QED BY <1>types, <2>1, <2>2, <2>3, <2>4, AppendCall
  <1>3. ASSUME NEW c \in todo, FollowCycle(c) PROVE SearchInv'
    <2>1. /\ calls' = calls /\ visited' = visited /\ phase' = phase /\ queue' = queue
          /\ route' = route /\ todo' = todo \ {c} /\ explored' = explored + 1 /\ Closes(c)
          /\ flows' = Record({Cycle}, Append(route, c))
      BY <1>3 DEF FollowCycle
    <2>2. Supports(Append(route, c), Cycle)
      BY <1>follow, <2>1 DEF Supports, Searched
    <2>3. /\ flows' \in [Keys -> SUBSET Seq(Pool)]
          /\ \A k \in Keys : \A s \in flows'[k] : Possible(s) /\ Supports(s, k)
      BY <1>types, <1>follow, <2>1, <2>2, RecordSound
    <2>4. NothingInvented'
      BY <1>same, <2>1, <2>3 DEF NothingInvented
    <2>5. SearchTypeOK'
      <3>1. todo' \subseteq calls' /\ explored' \in Nat
        BY <1>types, <1>3 DEF FollowCycle
      <3>2. flows' \in [Keys -> SUBSET Seq(Pool)]
        BY <2>3
      <3> QED BY <1>types, <2>1, <3>1, <3>2 DEF SearchTypeOK
    <2> QED BY <1>same, <2>1, <2>4, <2>5 DEF Searched
  <1>4. ASSUME NEW c \in todo, Follow(c) PROVE SearchInv'
    <2> DEFINE next == Append(route, c)
    <2>1. /\ calls' = calls /\ phase' = phase /\ ~Closes(c)
          /\ route' = route /\ todo' = todo \ {c} /\ explored' = explored + 1
          /\ flows' = Record({Out(o) : o \in Outputs[c.to]}, next)
          /\ visited' = visited \cup {<<c.to, Sure(next)>>}
          /\ queue' = queue \/ queue' = Append(queue, next)
      BY <1>4 DEF Follow
    <2>2. Searched(next) /\ next \in Seq(Pool) /\ End(next) = c.to
      BY <1>follow, <2>1 DEF Searched
    <2>3. \A k \in {Out(o) : o \in Outputs[c.to]} : Supports(next, k)
      BY <2>2 DEF Supports, Searched
    <2>4. /\ flows' \in [Keys -> SUBSET Seq(Pool)]
          /\ \A k \in Keys : \A s \in flows'[k] : Possible(s) /\ Supports(s, k)
      <3> HIDE DEF next
      <3> QED BY <1>types, <2>1, <2>2, <2>3, RecordSound DEF Searched
    <2>5. NothingInvented'
      BY <1>same, <2>1, <2>4 DEF NothingInvented
    <2>6. queue' \in Seq(Seq(Pool)) /\ \A i \in DOMAIN queue' : Searched(queue'[i])
      <3> HIDE DEF next
      <3>1. CASE queue' = queue
        BY <1>types, <3>1
      <3>2. CASE queue' = Append(queue, next)
        <4>1. /\ queue' \in Seq(Seq(Pool))
              /\ \A i \in DOMAIN queue' : queue'[i] = next \/ (i \in DOMAIN queue /\ queue'[i] = queue[i])
          BY <1>types, <2>2, <3>2, AppendProperties
        <4> QED BY <2>2, <4>1
      <3> QED BY <2>1, <3>1, <3>2
    <2>7. c \in Pool /\ c.to \in Methods /\ Sure(next) \in BOOLEAN
      BY <1>types, <1>ends, <1>4 DEF Sure
    <2>8. SearchTypeOK'
      <3> HIDE DEF next
      <3> QED BY <1>types, <2>1, <2>4, <2>6, <2>7 DEF SearchTypeOK
    <2>9. \A i \in DOMAIN queue' : Searched(queue[i])'
      BY <1>same, <2>1, <2>6 DEF Searched
    <2>10. Searched(route)' /\ End(route)' = End(route) /\ (todo \subseteq EligibleFrom(End(route)))'
      BY <1>same, <2>1 DEF Searched, End
    <2>11. (todo # {} => Len(route) < MaxHops)'
      BY <2>1
    <2> QED BY <2>5, <2>8, <2>9, <2>10, <2>11
  <1>5. ASSUME UNCHANGED <<calls, queue, visited, route, todo, explored, flows>>,
               phase' \in {"start", "search", "rows", "done"}
        PROVE  SearchInv'
    <2>1. SearchTypeOK'
      BY <1>types, <1>5 DEF SearchTypeOK
    <2>2. NothingInvented'
      BY <1>same, <1>5 DEF NothingInvented
    <2> QED BY <1>same, <1>5, <2>1, <2>2 DEF Searched, End
  <1>6. CASE EndSearch \/ Return \/ Terminated \/ UNCHANGED vars
    BY <1>5, <1>6 DEF EndSearch, Return, Terminated, vars, SearchTypeOK
  <1>7. ASSUME NEW m \in Methods, NEW exact \in BOOLEAN, UseRow(m, exact) PROVE SearchInv'
    BY <1>5, <1>7 DEF UseRow
  <1> QED BY <1>1, <1>2, <1>3, <1>4, <1>6, <1>7 DEF Next

\* Types of the search.
THEOREM SearchTyped == Spec => []SearchTypeOK
  <1>1. SearchInv => SearchTypeOK
    BY DEF SearchInv
  <1> QED BY <1>1, InitSearch, NextSearch, PTL DEF Spec

\* No flow is recorded for a route the program cannot take: every one is a
\* chain of calls from the entry within the hop limit, inside the application
\* and on the entry's subtype, that ends where the flow says; and only a cycle
\* flow repeats a method, at its end.
THEOREM JoinIsSound == Spec => []NothingInvented
  <1>1. SearchInv => NothingInvented
    BY DEF SearchInv
  <1> QED BY <1>1, InitSearch, NextSearch, PTL DEF Spec

-----------------------------------------------------------------------------
(* Numbers and iterated steps                                              *)

\* A set of naturals has a least element.
LEMMA LeastNumber ==
    ASSUME NEW S \in SUBSET Nat, S # {}
    PROVE  \E n \in S : \A m \in S : n <= m
  <1> DEFINE less == {ss \in Nat \X Nat : ss[1] < ss[2]}
  <1>1. IsWellFoundedOn(less, Nat)
    BY NatLessThanWellFounded DEF OpToRel
  <1>2. PICK n \in S : \A m \in S : ~(<<m, n>> \in less)
    BY <1>1, WFMin
  <1>3. ASSUME NEW m \in S, m < n PROVE FALSE
    <2>1. <<m, n>> \in less
      BY <1>3
    <2> QED BY <1>2, <2>1
  <1> QED BY <1>3

\* Steps from a start, up to a bound, make a function.
Iterated(D, start, step, N) ==
    \E g \in [0..N -> D] : g[0] = start /\ \A n \in 1..N : g[n] = step[g[n - 1]]

LEMMA Iterates ==
    ASSUME NEW D, NEW start \in D, NEW step \in [D -> D], NEW N \in Nat
    PROVE  Iterated(D, start, step, N)
  <1> DEFINE Iter(K, g) == g[0] = start /\ \A n \in 1..K : g[n] = step[g[n - 1]]
             Bad == {K \in Nat : ~ \E g \in [0..K -> D] : Iter(K, g)}
  <1>1. CASE Bad = {}
    BY <1>1 DEF Iterated
  <1>2. CASE Bad # {}
    <2>1. PICK K \in Bad : \A M \in Bad : K <= M
      BY <1>2, LeastNumber
    <2>2. CASE K = 0
      <3> DEFINE g == [n \in 0..0 |-> start]
      <3>1. g \in [0..K -> D] /\ Iter(K, g)
        BY <2>2
      <3> QED BY <2>1, <3>1
    <2>3. CASE K # 0
      <3>1. K - 1 \in Nat /\ K - 1 \notin Bad
        <4>1. K \in Nat
          OBVIOUS
        <4> HIDE DEF Bad
        <4> QED BY <2>1, <2>3, <4>1
      <3>2. PICK f \in [0..(K - 1) -> D] : Iter(K - 1, f)
        BY <3>1
      <3> DEFINE g == [n \in 0..K |-> IF n = K THEN step[f[K - 1]] ELSE f[n]]
      <3>3. \A n \in 0..K : n = K \/ n \in 0..(K - 1)
        BY <2>1
      <3>4. g \in [0..K -> D]
        BY <2>1, <3>1, <3>2, <3>3
      <3>5. ASSUME NEW n \in 1..K PROVE g[n] = step[g[n - 1]]
        <4>1. n \in 0..K /\ n - 1 \in 0..K /\ n - 1 # K
          BY <2>1, <3>1, <3>5
        <4>2. n # K => n \in 1..(K - 1)
          BY <2>1, <3>5
        <4> QED BY <3>2, <4>1, <4>2
      <3>6. g[0] = start
        BY <2>1, <2>3, <3>2
      <3> QED BY <2>1, <3>4, <3>5, <3>6
    <2> QED BY <2>2, <2>3
  <1> QED BY <1>1, <1>2

\* The methods calls of E lead to from M, all exact or of any kind.
Beyond(E, exact, M) ==
    M \cup {c.to : c \in {d \in E : d.from \in M /\ (exact => d.kind = "exact")}}

\* What n calls reach, level by level.
LEMMA LevelsAre ==
    ASSUME NEW E \in SUBSET Pool, NEW exact
    PROVE  /\ Levels(E, exact) \in [0..MaxHops -> SUBSET Methods]
           /\ Levels(E, exact)[0] = {Entry}
           /\ \A n \in 1..MaxHops :
                 Levels(E, exact)[n] = Beyond(E, exact, Levels(E, exact)[n - 1])
  <1> DEFINE D == SUBSET Methods
             step == [M \in D |-> Beyond(E, exact, M)]
             Is(g) == g = [n \in 0..MaxHops |->
                             IF n = 0 THEN {Entry}
                             ELSE g[n - 1] \cup
                                  {c.to : c \in {d \in E :
                                                   /\ d.from \in g[n - 1]
                                                   /\ exact => d.kind = "exact"}}]
  <1>1. {Entry} \in D /\ step \in [D -> D] /\ MaxHops \in Nat
    BY MethodsAssumption, CallsAssumption, BoundsAssumption DEF Beyond, Call
  <1>2. PICK g \in [0..MaxHops -> D] :
           g[0] = {Entry} /\ \A n \in 1..MaxHops : g[n] = step[g[n - 1]]
    <2> DEFINE start == {Entry}
    <2>1. start \in D /\ step \in [D -> D] /\ MaxHops \in Nat
      BY <1>1
    <2> HIDE DEF D, step, start
    <2>2. Iterated(D, start, step, MaxHops)
      BY <2>1, Iterates
    <2> QED BY <2>2 DEF start, Iterated
  <1>3. \A n \in 0..MaxHops : n # 0 => n - 1 \in 0..MaxHops /\ n \in 1..MaxHops
    BY BoundsAssumption
  <1>4. ASSUME NEW n \in 0..MaxHops, n # 0
        PROVE  step[g[n - 1]] = g[n - 1] \cup
                 {c.to : c \in {d \in E : /\ d.from \in g[n - 1]
                                          /\ exact => d.kind = "exact"}}
    <2>1. g[n - 1] \in D
      BY <1>2, <1>3, <1>4
    <2> QED BY <2>1 DEF Beyond
  <1>5. Is(g)
    <2> HIDE DEF step
    <2> QED BY <1>2, <1>3, <1>4
  <1>6. Is(Levels(E, exact))
    BY <1>5, Zenon DEF Levels
  <1> DEFINE l == Levels(E, exact)
  <1>7. /\ DOMAIN l = 0..MaxHops
        /\ \A n \in 0..MaxHops : l[n] = IF n = 0 THEN {Entry}
                                        ELSE Beyond(E, exact, l[n - 1])
    <2> HIDE DEF l
    <2> QED BY <1>6 DEF Beyond, l
  <1>8. \A n \in 0..MaxHops : l[n] \in D
    <2> DEFINE Bad == {n \in 0..MaxHops : l[n] \notin D}
    <2> HIDE DEF l, step, D
    <2>1. ASSUME NEW n \in Bad, \A m \in Bad : n <= m PROVE FALSE
      <3>1. CASE n = 0
        BY <1>1, <1>7, <2>1, <3>1
      <3>2. CASE n # 0
        <4>1. n \in Nat /\ n - 1 \in 0..MaxHops /\ n - 1 \notin Bad
          BY <1>3, <2>1, <3>2
        <4>2. l[n - 1] \in D
          BY <4>1
        <4>3. l[n] = step[l[n - 1]]
          BY <1>7, <2>1, <3>2, <4>2 DEF step
        <4> QED BY <1>1, <2>1, <4>2, <4>3
      <3> QED BY <3>1, <3>2
    <2>2. Bad \in SUBSET Nat
      BY <1>1
    <2> QED BY <2>1, <2>2, LeastNumber
  <1>9. 0 \in 0..MaxHops /\ \A n \in 1..MaxHops : n \in 0..MaxHops /\ n # 0
    BY <1>1
  <1>10. l \in [0..MaxHops -> D]
    <2> HIDE DEF D
    <2>1. l = [n \in 0..MaxHops |-> l[n]]
      <3>1. l = [n \in 0..MaxHops |-> IF n = 0 THEN {Entry}
                                      ELSE l[n - 1] \cup
                                  {c.to : c \in {d \in E :
                                                   /\ d.from \in l[n - 1]
                                                   /\ exact => d.kind = "exact"}}]
        BY <1>6
      <3> HIDE DEF l
      <3> QED BY <3>1
    <2> HIDE DEF l
    <2> QED BY <1>8, <2>1
  <1> HIDE DEF l
  <1>11. /\ l[0] = {Entry}
         /\ \A n \in 1..MaxHops : l[n] = Beyond(E, exact, l[n - 1])
    BY <1>7, <1>9
  <1> QED BY <1>10, <1>11 DEF l

\* A route of n calls of E, and one call more.
Extended(E, R) == UNION {{Append(r, c) : c \in {d \in E : d.from = End(r)}} : r \in R}

\* The routes of each length are those one call shorter, extended.
LEMMA LongerAre ==
    ASSUME NEW E \in SUBSET Pool
    PROVE  /\ Longer(E)[0] = {<<>>}
           /\ \A n \in 1..MaxHops : Longer(E)[n] = Extended(E, Longer(E)[n - 1])
  <1> DEFINE D == SUBSET Seq(Pool)
             step == [R \in D |-> Extended(E, R)]
             start == {<<>>}
             Is(g) == g = [n \in 0..MaxHops |->
                             IF n = 0 THEN {<<>>}
                             ELSE UNION {{Append(r, c) : c \in {d \in E : d.from = End(r)}} :
                                            r \in g[n - 1]}]
  <1>1. start \in D /\ step \in [D -> D] /\ MaxHops \in Nat
    <2>1. ASSUME NEW R \in D PROVE Extended(E, R) \in D
      BY AppendProperties DEF Extended
    <2>2. start \in D
      BY EmptySeq
    <2> HIDE DEF D, start
    <2> QED BY <2>1, <2>2, BoundsAssumption
  <1>2. PICK g \in [0..MaxHops -> D] :
           g[0] = start /\ \A n \in 1..MaxHops : g[n] = step[g[n - 1]]
    <2> HIDE DEF D, step, start
    <2>1. Iterated(D, start, step, MaxHops)
      BY <1>1, Iterates
    <2> QED BY <2>1 DEF Iterated
  <1>3. \A n \in 0..MaxHops : n # 0 => n - 1 \in 0..MaxHops /\ n \in 1..MaxHops
    BY BoundsAssumption
  <1>4. ASSUME NEW n \in 0..MaxHops, n # 0 PROVE g[n] = Extended(E, g[n - 1])
    <2>1. g[n - 1] \in D
      BY <1>2, <1>3, <1>4
    <2> HIDE DEF D
    <2> QED BY <1>2, <1>3, <1>4, <2>1
  <1>5. Is(g)
    <2>1. g = [n \in 0..MaxHops |-> IF n = 0 THEN {<<>>} ELSE Extended(E, g[n - 1])]
      <3> HIDE DEF D, step
      <3> QED BY <1>2, <1>4
    <2> QED BY <2>1, Zenon DEF Extended
  <1>6. Is(Longer(E))
    BY <1>5, Zenon DEF Longer
  <1> DEFINE l == Longer(E)
  <1>7. \A n \in 0..MaxHops : l[n] = IF n = 0 THEN {<<>>} ELSE Extended(E, l[n - 1])
    <2>1. l = [n \in 0..MaxHops |-> IF n = 0 THEN {<<>>} ELSE Extended(E, l[n - 1])]
      BY <1>6, Zenon DEF Extended
    <2> HIDE DEF l
    <2> QED BY <2>1
  <1>8. 0 \in 0..MaxHops /\ \A n \in 1..MaxHops : n \in 0..MaxHops /\ n # 0
    BY <1>1
  <1> HIDE DEF l
  <1>9. l[0] = {<<>>} /\ \A n \in 1..MaxHops : l[n] = Extended(E, l[n - 1])
    BY <1>7, <1>8
  <1> QED BY <1>9 DEF l

\* A route of n calls ends at a method that n calls reach.
LEMMA LongerEnds ==
    ASSUME NEW E \in SUBSET Pool, NEW n \in 0..MaxHops, NEW r \in Longer(E)[n]
    PROVE  r \in Seq(Pool) /\ End(r) \in Levels(E, FALSE)[n]
  <1> DEFINE Bad == {k \in 0..MaxHops : ~ \A s \in Longer(E)[k] :
                        s \in Seq(Pool) /\ End(s) \in Levels(E, FALSE)[k]}
  <1>1. ASSUME NEW k \in Bad, \A m \in Bad : k <= m PROVE FALSE
    <2>1. k \in 0..MaxHops /\ k \in Nat
      OBVIOUS
    <2>2. PICK s \in Longer(E)[k] : ~(s \in Seq(Pool) /\ End(s) \in Levels(E, FALSE)[k])
      BY <1>1
    <2>3. CASE k = 0
      <3>1. s = <<>> /\ Levels(E, FALSE)[0] = {Entry}
        BY <2>2, <2>3, LongerAre, LevelsAre
      <3> QED BY <2>2, <2>3, <3>1, EmptySeq DEF End
    <2>4. CASE k # 0
      <3>1. k \in 1..MaxHops /\ k - 1 \in 0..MaxHops /\ k - 1 \notin Bad
        <4> HIDE DEF Bad
        <4> QED BY <1>1, <2>1, <2>4, BoundsAssumption
      <3>2. s \in Extended(E, Longer(E)[k - 1])
        BY <2>2, <3>1, LongerAre
      <3>3. PICK q \in Longer(E)[k - 1], c \in E : c.from = End(q) /\ s = Append(q, c)
        BY <3>2 DEF Extended
      <3>4. q \in Seq(Pool) /\ End(q) \in Levels(E, FALSE)[k - 1]
        BY <3>1, <3>3
      <3>5. s \in Seq(Pool) /\ End(s) = c.to
        BY <3>3, <3>4, AppendCall, AppendProperties
      <3>6. Levels(E, FALSE)[k] = Beyond(E, FALSE, Levels(E, FALSE)[k - 1])
        BY <3>1, LevelsAre
      <3>7. c.to \in Levels(E, FALSE)[k]
        BY <3>3, <3>4, <3>6 DEF Beyond
      <3> QED BY <2>2, <3>5, <3>7
    <2> QED BY <2>3, <2>4
  <1>2. Bad \in SUBSET Nat
    <2>1. Bad \subseteq 0..MaxHops
      OBVIOUS
    <2> HIDE DEF Bad
    <2> QED BY <2>1, BoundsAssumption
  <1>3. Bad = {}
    <2> HIDE DEF Bad
    <2> QED BY <1>1, <1>2, LeastNumber
  <1> QED BY <1>3

\* A level holds every level below it.
LEMMA LevelsGrow ==
    ASSUME NEW E \in SUBSET Pool, NEW exact, NEW n \in 0..MaxHops
    PROVE  Levels(E, exact)[n] \subseteq Levels(E, exact)[MaxHops]
  <1> DEFINE l == Levels(E, exact)
             Bad == {k \in Nat : n + k \in 0..MaxHops /\ ~(l[n] \subseteq l[n + k])}
  <1> HIDE DEF l
  <1>1. ASSUME NEW k \in Bad, \A m \in Bad : k <= m PROVE FALSE
    <2>1. k \in Nat /\ n + k \in 0..MaxHops /\ ~(l[n] \subseteq l[n + k])
      OBVIOUS
    <2>2. k # 0
      BY <2>1, BoundsAssumption
    <2>3. k - 1 \in Nat /\ n + (k - 1) \in 0..MaxHops /\ k - 1 \notin Bad
      <3> HIDE DEF Bad
      <3> QED BY <1>1, <2>1, <2>2, BoundsAssumption
    <2>4. l[n] \subseteq l[n + (k - 1)]
      BY <2>3
    <2>5. n + k \in 1..MaxHops /\ n + (k - 1) = (n + k) - 1
      BY <2>1, <2>2, BoundsAssumption
    <2>6. l[n + k] = Beyond(E, exact, l[(n + k) - 1])
      BY <2>5, LevelsAre DEF l
    <2> QED BY <2>1, <2>4, <2>5, <2>6 DEF Beyond
  <1>2. Bad \in SUBSET Nat
    OBVIOUS
  <1>3. Bad = {}
    <2> HIDE DEF Bad
    <2> QED BY <1>1, <1>2, LeastNumber
  <1>4. MaxHops - n \in Nat /\ n + (MaxHops - n) = MaxHops /\ MaxHops \in 0..MaxHops
    BY BoundsAssumption
  <1>5. MaxHops - n \notin Bad
    BY <1>3
  <1> QED BY <1>4, <1>5 DEF l

-----------------------------------------------------------------------------
(* What a breadth-first search keeps                                       *)

\* The state a route is queued under.
State(r) == <<End(r), Sure(r)>>
Queued   == {State(queue[i]) : i \in DOMAIN queue}

\* Method m is among states v, and by an exact route if need be.
Found(v, m, exact) == \E s \in v : s[1] = m /\ (exact => s[2])

\* The queue holds routes of two lengths, the shorter first, and one for each
\* state; what a route passes was queued, and surely if the route is sure.
QueueInv ==
    /\ \A i \in DOMAIN queue : /\ State(queue[i]) \in visited
                               /\ Len(queue[i]) \in {Len(route), Len(route) + 1}
    /\ \A i, j \in DOMAIN queue : /\ i <= j => Len(queue[i]) <= Len(queue[j])
                                  /\ State(queue[i]) = State(queue[j]) => i = j
    /\ State(route) \in visited
    /\ todo # {} => State(route) \notin Queued
    /\ \A m \in Passes(route) \cup {Entry} : Found(visited, m, Sure(route))
    /\ \A i \in DOMAIN queue : \A m \in Passes(queue[i]) \cup {Entry} :
          Found(visited, m, Sure(queue[i]))

\* What is within n calls, n no more than the length of the present route, was
\* queued by a route of no more calls.
LevelInv ==
    \A exact \in BOOLEAN, n \in 0..MaxHops : n <= Len(route) =>
        \A m \in Levels(Eligible, exact)[n] :
            \E s \in visited :
                /\ s[1] = m /\ (exact => s[2])
                /\ \A i \in DOMAIN queue : State(queue[i]) = s => Len(queue[i]) <= n

\* Call c was followed from state s.
Followed(c, s) == /\ Found(visited, c.to, s[2] /\ c.kind = "exact")
                  /\ c.to = Entry => flows[Cycle] # {}

\* Short of the hop limit, every call of a state that has left the queue was
\* followed or is about to be.
ClosedInv ==
    Len(route) < MaxHops =>
        \A s \in visited \ Queued : \A c \in EligibleFrom(s[1]) :
            \/ s = State(route) /\ c \in todo
            \/ Followed(c, s)

\* A call back to the entry, of a method within fewer calls than the present
\* route has, has a cycle flow.
CycleInv ==
    \A n \in 0..MaxHops : n < Len(route) =>
        \A m \in Levels(Eligible, FALSE)[n] : \A c \in EligibleFrom(m) :
            c.to = Entry => flows[Cycle] # {}

\* Flow k has a route for state s: as sure as s, and evidence of a call unless
\* s is of the entry.
Recorded(k, s) == \E r \in flows[k] : (Sure(r) <=> s[2]) /\ (s[1] = Entry \/ r # <<>>)

FlowsInv ==
    /\ \A s \in visited : \A o \in Outputs[s[1]] : Recorded(Out(o), s)
    /\ \A s \in visited \ Queued : s[1] \in Accesses => Recorded(Data(s[1]), s)

\* What the search has found when it ends: a route to every end within the hop
\* limit, an exact one where there is one, and the entry's cycles.
Joined ==
    /\ \A exact \in BOOLEAN : \A m \in Within(exact) : \A k \in Ends(m) :
          \E r \in flows[k] : (exact => Sure(r)) /\ (m = Entry \/ r # <<>>)
    /\ (\E r \in Chains : r # <<>> /\ End(r) = Entry) => flows[Cycle] # {}

\* What the join returns is the representative of each group.
ReturnsRepresentatives ==
    /\ \A k \in Keys : flows[k] # {} => \E f \in published : f.key = k
    /\ \A f \in published : /\ f.key \in Keys /\ flows[f.key] # {}
                            /\ f.route = Representative(flows[f.key])

\* The whole of it, phase by phase.
BreadthInv ==
    /\ SearchInv
    /\ phase = "start" => todo = {} /\ route = <<>>
    /\ phase = "search" => QueueInv /\ LevelInv /\ ClosedInv /\ CycleInv /\ FlowsInv
    /\ phase \in {"rows", "done"} => Joined
    /\ direct = {}
    /\ phase = "done" => ReturnsRepresentatives

-----------------------------------------------------------------------------
(* Facts about states and recorded flows                                   *)

LEMMA StateParts ==
    ASSUME NEW r
    PROVE  State(r)[1] = End(r) /\ (State(r)[2] <=> Sure(r))
  BY DEF State, Sure

\* A call keeps a route sure when it is exact itself.
LEMMA AppendSure ==
    ASSUME NEW S, NEW r \in Seq(S), NEW c \in S
    PROVE  Sure(Append(r, c)) <=> Sure(r) /\ c.kind = "exact"
  <1> DEFINE s == Append(r, c)
  <1>1. /\ s \in Seq(S) /\ Len(s) = Len(r) + 1
        /\ s[Len(r) + 1] = c /\ \A i \in 1..Len(r) : s[i] = r[i]
    BY AppendProperties
  <1>2. Len(r) \in Nat /\ DOMAIN s = 1..(Len(r) + 1) /\ DOMAIN r = 1..Len(r)
    BY <1>1, LenProperties
  <1>3. \A i \in DOMAIN s : i \in DOMAIN r \/ i = Len(r) + 1
    BY <1>2
  <1>4. Len(r) + 1 \in DOMAIN s /\ DOMAIN r \subseteq DOMAIN s
    BY <1>2
  <1> HIDE DEF s
  <1>5. Sure(s) <=> Sure(r) /\ c.kind = "exact"
    BY <1>1, <1>2, <1>3, <1>4 DEF Sure
  <1> QED BY <1>5 DEF s

\* What was found stays found, and a sure finding is a finding.
LEMMA FoundWeaker ==
    ASSUME NEW v, NEW w, v \subseteq w, NEW m, NEW a, NEW b, Found(v, m, a), b => a
    PROVE  Found(w, m, b)
  BY DEF Found

\* Recording takes nothing away.
LEMMA RecordKeeps ==
    ASSUME NEW ks, NEW r, NEW k \in Keys
    PROVE  flows[k] \subseteq Record(ks, r)[k] /\ (k \in ks => r \in Record(ks, r)[k])
  BY DEF Record

LEMMA KeysAre ==
    /\ Cycle \in Keys
    /\ \A m \in Methods : \A o \in Outputs[m] : Out(o) \in Keys
    /\ \A m \in Accesses : Data(m) \in Keys
  BY MethodsAssumption DEF Keys

\* What a state of the search is, and what its routes and calls are.
LEMMA SearchFacts ==
    ASSUME SearchInv
    PROVE  /\ queue \in Seq(Seq(Pool)) /\ route \in Seq(Pool) /\ Len(route) \in 0..MaxHops
           /\ DOMAIN queue = 1..Len(queue) /\ Len(queue) \in Nat
           /\ \A i \in DOMAIN queue : /\ queue[i] \in Seq(Pool)
                                      /\ Len(queue[i]) \in 0..MaxHops
           /\ todo \subseteq Eligible /\ Eligible \in SUBSET Pool
           /\ \A c \in todo : c.from = End(route)
           /\ todo # {} => Len(route) < MaxHops
           /\ visited \subseteq Methods \X BOOLEAN
  <1>1. queue \in Seq(Seq(Pool)) /\ route \in Seq(Pool) /\ calls \subseteq Pool
    BY DEF SearchInv, SearchTypeOK
  <1>2. DOMAIN queue = 1..Len(queue) /\ Len(queue) \in Nat
    BY <1>1, LenProperties
  <1>3. \A i \in DOMAIN queue : queue[i] \in Seq(Pool) /\ Possible(queue[i])
    BY <1>1, <1>2 DEF SearchInv, Searched
  <1>4. \A r \in Seq(Pool) : Possible(r) => Len(r) \in 0..MaxHops
    BY LenProperties, BoundsAssumption DEF Possible
  <1>5. Len(route) \in 0..MaxHops
    BY <1>1, <1>4 DEF SearchInv, Searched
  <1> QED
    BY <1>1, <1>2, <1>3, <1>4, <1>5
       DEF SearchInv, SearchTypeOK, Eligible, EligibleFrom

\* The calls a search follows stay the same.
LEMMA SameCalls ==
    ASSUME calls' = calls
    PROVE  Eligible' = Eligible /\ \A m : EligibleFrom(m)' = EligibleFrom(m)
  BY DEF EligibleFrom, Eligible, WithinApplicationBoundary, DispatchMatchesEntry

-----------------------------------------------------------------------------
(* Taking a route from the queue                                           *)

LEMMA PopFacts ==
    ASSUME SearchInv, Pop
    PROVE  /\ phase = "search" /\ todo = {} /\ 1 \in DOMAIN queue /\ route' = queue[1]
           /\ \A i \in DOMAIN queue' : i + 1 \in DOMAIN queue /\ queue'[i] = queue[i + 1]
           /\ \A i \in DOMAIN queue : i # 1 => i - 1 \in DOMAIN queue'
                                                /\ queue'[i - 1] = queue[i]
           /\ DOMAIN queue' \subseteq Nat /\ DOMAIN queue \subseteq Nat \ {0}
           /\ Eligible' = Eligible /\ \A m : EligibleFrom(m)' = EligibleFrom(m)
           /\ visited' = visited
           /\ todo' = IF Len(route') < MaxHops THEN EligibleFrom(End(route')) ELSE {}
           /\ \A k \in Keys : flows[k] \subseteq flows'[k]
           /\ End(route') \in Accesses => route' \in flows'[Data(End(route'))]
  <1>1. /\ phase = "search" /\ todo = {} /\ queue # <<>> /\ calls' = calls
        /\ route' = Head(queue) /\ queue' = Tail(queue) /\ visited' = visited
        /\ todo' = IF Len(route') < MaxHops THEN EligibleFrom(End(route')) ELSE {}
        /\ flows' = Record({Data(End(route'))} \cap Keys, route')
    BY DEF Pop
  <1>2. queue \in Seq(Seq(Pool))
    BY SearchFacts
  <1>3. /\ route' = queue[1] /\ 1 \in DOMAIN queue
        /\ \A i \in DOMAIN queue' : i + 1 \in DOMAIN queue /\ queue'[i] = queue[i + 1]
        /\ DOMAIN queue' = 1..(Len(queue) - 1) /\ DOMAIN queue = 1..Len(queue)
        /\ Len(queue) \in Nat
    BY <1>1, <1>2
  <1>4. ASSUME NEW i \in DOMAIN queue, i # 1
        PROVE  i - 1 \in DOMAIN queue' /\ queue'[i - 1] = queue[i]
    <2>1. i - 1 \in DOMAIN queue' /\ (i - 1) + 1 = i
      BY <1>3, <1>4
    <2> QED BY <1>3, <2>1
  <1>5. \A k \in Keys : flows[k] \subseteq flows'[k]
    BY <1>1, RecordKeeps
  <1>6. End(route') \in Accesses => route' \in flows'[Data(End(route'))]
    BY <1>1, KeysAre, RecordKeeps
  <1>7. DOMAIN queue' \subseteq Nat /\ DOMAIN queue \subseteq Nat \ {0}
    BY <1>3
  <1> QED BY <1>1, <1>3, <1>4, <1>5, <1>6, <1>7, SameCalls

\* The states that stay queued are those of the other routes.
LEMMA PopQueued ==
    ASSUME SearchInv, QueueInv, Pop
    PROVE  Queued' = Queued \ {State(route')} /\ State(route') \in visited
  <1> USE PopFacts
  <1>1. \A i \in DOMAIN queue' : State(queue'[i]) \in Queued /\ State(queue'[i]) # State(route')
    <2>1. ASSUME NEW i \in DOMAIN queue'
          PROVE  State(queue'[i]) \in Queued /\ State(queue'[i]) # State(route')
      <3>1. i + 1 \in DOMAIN queue /\ i + 1 # 1 /\ queue'[i] = queue[i + 1]
        BY <2>1
      <3> QED BY <3>1 DEF QueueInv, Queued
    <2> QED BY <2>1
  <1>2. ASSUME NEW i \in DOMAIN queue, State(queue[i]) # State(route')
        PROVE  State(queue[i]) \in Queued'
    <2>1. i - 1 \in DOMAIN queue' /\ queue'[i - 1] = queue[i]
      BY <1>2
    <2> QED BY <2>1 DEF Queued
  <1>3. \A x \in Queued' : x \in Queued \ {State(route')}
    BY <1>1 DEF Queued
  <1>4. \A x \in Queued \ {State(route')} : x \in Queued'
    BY <1>2 DEF Queued
  <1>5. State(route') \in visited
    BY DEF QueueInv
  <1> QED BY <1>3, <1>4, <1>5

LEMMA PopKeepsQueue ==
    ASSUME SearchInv, QueueInv, Pop PROVE QueueInv'
  <1>0. /\ 1 \in DOMAIN queue /\ route' = queue[1] /\ visited' = visited
        /\ \A i \in DOMAIN queue' : i + 1 \in DOMAIN queue /\ queue'[i] = queue[i + 1]
        /\ DOMAIN queue' \subseteq Nat
    BY PopFacts
  <1>1. /\ Len(route) \in Nat
        /\ \A i \in DOMAIN queue : /\ Len(queue[i]) \in Nat
                                   /\ Len(queue[i]) \in {Len(route), Len(route) + 1}
                                   /\ State(queue[i]) \in visited
    BY SearchFacts DEF QueueInv
  <1>2. ASSUME NEW i \in DOMAIN queue'
        PROVE  /\ State(queue'[i]) \in visited
               /\ Len(queue'[i]) \in {Len(route'), Len(route') + 1}
    <2>1. i + 1 \in DOMAIN queue /\ 1 <= i + 1 /\ queue'[i] = queue[i + 1]
      BY <1>0
    <2>2. Len(queue[1]) <= Len(queue[i + 1])
      BY <1>0, <2>1 DEF QueueInv
    <2> QED BY <1>0, <1>1, <2>1, <2>2
  <1>3. ASSUME NEW i \in DOMAIN queue', NEW j \in DOMAIN queue'
        PROVE  /\ i <= j => Len(queue'[i]) <= Len(queue'[j])
               /\ State(queue'[i]) = State(queue'[j]) => i = j
    <2>1. /\ i + 1 \in DOMAIN queue /\ queue'[i] = queue[i + 1]
          /\ j + 1 \in DOMAIN queue /\ queue'[j] = queue[j + 1]
          /\ (i <= j => i + 1 <= j + 1) /\ (i + 1 = j + 1 => i = j)
      BY <1>0
    <2> QED BY <2>1 DEF QueueInv
  <1>4. State(route') \in visited' /\ State(route') \notin Queued'
    BY <1>0, PopQueued
  <1>5. \A i \in DOMAIN queue : \A m \in Passes(queue[i]) \cup {Entry} :
           Found(visited', m, Sure(queue[i]))
    BY <1>0 DEF QueueInv
  <1>6. \A i \in DOMAIN queue' : \A m \in Passes(queue'[i]) \cup {Entry} :
           Found(visited', m, Sure(queue'[i]))
    BY <1>0, <1>5
  <1>7. \A m \in Passes(route') \cup {Entry} : Found(visited', m, Sure(route'))
    BY <1>0, <1>5
  <1> QED BY <1>0, <1>2, <1>3, <1>4, <1>6, <1>7 DEF QueueInv

\* When the route taken is one call longer, everything within that many calls
\* has been queued.
LEMMA PopKeepsLevels ==
    ASSUME SearchInv, QueueInv, LevelInv, ClosedInv, CycleInv, Pop
    PROVE  LevelInv' /\ CycleInv'
  <1>0. /\ 1 \in DOMAIN queue /\ route' = queue[1] /\ visited' = visited /\ todo = {}
        /\ \A i \in DOMAIN queue' : i + 1 \in DOMAIN queue /\ queue'[i] = queue[i + 1]
        /\ DOMAIN queue' \subseteq Nat /\ Eligible' = Eligible
        /\ \A m : EligibleFrom(m)' = EligibleFrom(m)
        /\ \A k \in Keys : flows[k] \subseteq flows'[k]
    BY PopFacts
  <1>1. /\ Len(route) \in 0..MaxHops /\ Len(route') \in 0..MaxHops
        /\ Len(route') \in {Len(route), Len(route) + 1} /\ MaxHops \in Nat
        /\ \A i \in DOMAIN queue : Len(queue[i]) \in Nat /\ Len(route') <= Len(queue[i])
        /\ \A i \in DOMAIN queue' : Len(queue'[i]) \in Nat /\ Len(queue'[i]) <= Len(route) + 1
    <2>1. /\ Len(route) \in 0..MaxHops /\ Len(route') \in 0..MaxHops
          /\ Len(route') \in {Len(route), Len(route) + 1} /\ MaxHops \in Nat
      BY <1>0, SearchFacts, BoundsAssumption DEF QueueInv
    <2>2. ASSUME NEW i \in DOMAIN queue
          PROVE  /\ Len(queue[i]) \in Nat /\ Len(route') <= Len(queue[i])
                 /\ Len(queue[i]) <= Len(route) + 1
      <3>1. Len(queue[i]) \in 0..MaxHops /\ 1 <= i
        BY PopFacts, SearchFacts
      <3> QED BY <1>0, <2>1, <3>1 DEF QueueInv
    <2> QED BY <1>0, <2>1, <2>2
  <1>2. ASSUME NEW exact \in BOOLEAN, NEW n \in 0..MaxHops, n <= Len(route),
               NEW m \in Levels(Eligible, exact)[n]
        PROVE  \E s \in visited :
                  /\ s[1] = m /\ (exact => s[2])
                  /\ \A i \in DOMAIN queue : State(queue[i]) = s => Len(queue[i]) <= n
    BY <1>2 DEF LevelInv
  <1>3. ASSUME NEW exact \in BOOLEAN, NEW m \in Levels(Eligible, exact)[Len(route)],
               NEW c \in EligibleFrom(m), Len(route') = Len(route) + 1,
               exact => c.kind = "exact"
        PROVE  Found(visited, c.to, exact) /\ (c.to = Entry => flows[Cycle] # {})
    <2>1. PICK s \in visited :
             /\ s[1] = m /\ (exact => s[2])
             /\ \A i \in DOMAIN queue : State(queue[i]) = s => Len(queue[i]) <= Len(route)
      BY <1>1, <1>2
    <2>2. s \notin Queued
      BY <1>1, <1>3, <2>1 DEF Queued
    <2>3. Followed(c, s)
      BY <1>0, <1>1, <1>3, <2>1, <2>2 DEF ClosedInv
    <2> QED BY <1>3, <2>1, <2>3, FoundWeaker DEF Followed
  <1>4. ASSUME NEW exact \in BOOLEAN, NEW n \in 0..MaxHops, n <= Len(route'),
               NEW m \in Levels(Eligible, exact)[n]
        PROVE  \E s \in visited :
                  /\ s[1] = m /\ (exact => s[2])
                  /\ \A i \in DOMAIN queue' : State(queue'[i]) = s => Len(queue'[i]) <= n
    <2>1. CASE n <= Len(route)
      <3>1. PICK s \in visited :
               /\ s[1] = m /\ (exact => s[2])
               /\ \A i \in DOMAIN queue : State(queue[i]) = s => Len(queue[i]) <= n
        BY <1>2, <1>4, <2>1
      <3> QED BY <1>0, <3>1
    <2>2. CASE ~(n <= Len(route))
      <3>1. n = Len(route) + 1 /\ Len(route') = Len(route) + 1 /\ n \in 1..MaxHops
            /\ n - 1 = Len(route)
        BY <1>1, <1>4, <2>2
      <3>2. Found(visited, m, exact)
        <4>1. m \in Beyond(Eligible, exact, Levels(Eligible, exact)[n - 1])
          <5>1. Eligible \in SUBSET Pool
            BY SearchFacts
          <5> QED BY <1>4, <3>1, <5>1, LevelsAre
        <4>2. CASE m \in Levels(Eligible, exact)[n - 1]
          BY <1>1, <1>2, <3>1, <4>2 DEF Found
        <4>3. CASE m \notin Levels(Eligible, exact)[n - 1]
          <5>1. PICK c \in Eligible : /\ c.from \in Levels(Eligible, exact)[n - 1]
                                      /\ exact => c.kind = "exact"
                                      /\ c.to = m
            BY <4>1, <4>3 DEF Beyond
          <5>2. c \in EligibleFrom(c.from)
            BY DEF EligibleFrom
          <5> QED BY <1>3, <3>1, <5>1, <5>2
        <4> QED BY <4>2, <4>3
      <3> QED BY <1>1, <3>1, <3>2 DEF Found
    <2> QED BY <2>1, <2>2
  <1>5. ASSUME NEW n \in 0..MaxHops, n < Len(route'),
               NEW m \in Levels(Eligible, FALSE)[n], NEW c \in EligibleFrom(m),
               c.to = Entry
        PROVE  flows'[Cycle] # {}
    <2>1. CASE n < Len(route)
      BY <1>0, <1>5, <2>1, KeysAre DEF CycleInv
    <2>2. CASE ~(n < Len(route))
      <3>1. n = Len(route) /\ Len(route') = Len(route) + 1
        BY <1>1, <1>5, <2>2
      <3>2. flows[Cycle] # {}
        BY <1>3, <1>5, <3>1
      <3> QED BY <1>0, <3>2, KeysAre
    <2> QED BY <2>1, <2>2
  <1>6. LevelInv'
    BY <1>0, <1>4 DEF LevelInv
  <1>7. CycleInv'
    BY <1>0, <1>5 DEF CycleInv
  <1> QED BY <1>6, <1>7

LEMMA PopKeepsClosed ==
    ASSUME SearchInv, QueueInv, ClosedInv, FlowsInv, Pop
    PROVE  ClosedInv' /\ FlowsInv'
  <1>0. /\ 1 \in DOMAIN queue /\ route' = queue[1] /\ visited' = visited /\ todo = {}
        /\ Eligible' = Eligible /\ \A m : EligibleFrom(m)' = EligibleFrom(m)
        /\ todo' = IF Len(route') < MaxHops THEN EligibleFrom(End(route')) ELSE {}
        /\ \A k \in Keys : flows[k] \subseteq flows'[k]
        /\ End(route') \in Accesses => route' \in flows'[Data(End(route'))]
    BY PopFacts
  <1>1. Queued' = Queued \ {State(route')} /\ State(route') \in visited
    BY PopQueued
  <1>2. Len(route') < MaxHops => Len(route) < MaxHops
    <2>1. Len(route) \in 0..MaxHops /\ Len(route') \in {Len(route), Len(route) + 1}
      BY <1>0, SearchFacts DEF QueueInv
    <2> QED BY <2>1, BoundsAssumption
  <1>3. visited \subseteq Methods \X BOOLEAN
    BY SearchFacts
  <1>4. ASSUME Len(route') < MaxHops, NEW s \in visited, s \notin Queued',
               NEW c \in EligibleFrom(s[1])
        PROVE  (s = State(route') /\ c \in todo') \/ Followed(c, s)'
    <2>1. CASE s = State(route')
      BY <1>0, <1>4, <2>1, StateParts
    <2>2. CASE s # State(route')
      <3>1. Followed(c, s)
        BY <1>0, <1>1, <1>2, <1>4, <2>2 DEF ClosedInv
      <3> QED BY <1>0, <3>1, KeysAre DEF Followed, Found
    <2> QED BY <2>1, <2>2
  <1>5. ClosedInv'
    BY <1>0, <1>4 DEF ClosedInv
  <1>6. \A k \in Keys : \A s : Recorded(k, s) => Recorded(k, s)'
    BY <1>0 DEF Recorded
  <1>7. \A s \in visited : \A o \in Outputs[s[1]] : Recorded(Out(o), s)'
    <2>1. \A s \in visited : s[1] \in Methods
      BY <1>3
    <2> QED BY <1>6, <2>1, KeysAre DEF FlowsInv
  <1>8. ASSUME NEW s \in visited, s \notin Queued', s[1] \in Accesses
        PROVE  Recorded(Data(s[1]), s)'
    <2>1. CASE s = State(route')
      <3>1. s[1] = End(route') /\ (s[2] <=> Sure(route'))
        BY <2>1, StateParts
      <3>2. End(route') = Entry \/ route' # <<>>
        BY DEF End
      <3> QED BY <1>0, <1>8, <3>1, <3>2 DEF Recorded
    <2>2. CASE s # State(route')
      BY <1>1, <1>6, <1>8, <2>2, KeysAre DEF FlowsInv
    <2> QED BY <2>1, <2>2
  <1>9. FlowsInv'
    BY <1>0, <1>7, <1>8 DEF FlowsInv
  <1> QED BY <1>5, <1>9

-----------------------------------------------------------------------------
(* Following a call                                                        *)

LEMMA FollowFacts ==
    ASSUME SearchInv, QueueInv, NEW c \in todo, Follow(c), NEW next, next = Append(route, c)
    PROVE  /\ route' = route /\ todo' = todo \ {c} /\ Len(route) < MaxHops
           /\ Eligible' = Eligible /\ \A m : EligibleFrom(m)' = EligibleFrom(m)
           /\ next # <<>> /\ End(next) = c.to /\ Len(next) = Len(route) + 1
           /\ Sure(next) <=> Sure(route) /\ c.kind = "exact"
           /\ Passes(next) = Passes(route) \cup {c.to}
           /\ c \in EligibleFrom(State(route)[1]) /\ c.to \in Methods
           /\ visited' = visited \cup {State(next)}
           /\ \/ State(next) \in visited /\ queue' = queue
              \/ /\ State(next) \notin visited
                 /\ DOMAIN queue' = DOMAIN queue \cup {Len(queue) + 1}
                 /\ \A i \in DOMAIN queue : queue'[i] = queue[i] /\ i < Len(queue) + 1
                 /\ queue'[Len(queue) + 1] = next
           /\ \A k \in Keys : flows[k] \subseteq flows'[k]
           /\ \A o \in Outputs[c.to] : next \in flows'[Out(o)]
  <1>1. /\ route' = route /\ todo' = todo \ {c} /\ calls' = calls
        /\ visited' = visited \cup {<<c.to, Sure(next)>>}
        /\ queue' = IF <<c.to, Sure(next)>> \in visited THEN queue ELSE Append(queue, next)
        /\ flows' = Record({Out(o) : o \in Outputs[c.to]}, next)
    BY DEF Follow
  <1>2. /\ c \in Pool /\ c.from = End(route) /\ route \in Seq(Pool) /\ c \in Eligible
        /\ queue \in Seq(Seq(Pool)) /\ Len(route) < MaxHops
        /\ DOMAIN queue = 1..Len(queue) /\ Len(queue) \in Nat
    BY SearchFacts
  <1>3. /\ next \in Seq(Pool) /\ next # <<>> /\ End(next) = c.to
        /\ Len(next) = Len(route) + 1 /\ Passes(next) = Passes(route) \cup {c.to}
        /\ Sure(next) <=> Sure(route) /\ c.kind = "exact"
    BY <1>2, AppendCall, AppendSure, AppendProperties
  <1>4. State(next) = <<c.to, Sure(next)>>
    BY <1>3 DEF State
  <1>5. c \in EligibleFrom(State(route)[1]) /\ c.to \in Methods
    BY <1>2, StateParts, CallsAssumption DEF EligibleFrom, Call
  <1>6. CASE State(next) \in visited
    <2>1. queue' = queue
      BY <1>1, <1>4, <1>6
    <2>2. \A k \in Keys : flows[k] \subseteq flows'[k]
      BY <1>1, RecordKeeps
    <2>3. \A o \in Outputs[c.to] : next \in flows'[Out(o)]
      BY <1>1, <1>5, KeysAre, RecordKeeps
    <2> QED BY <1>1, <1>2, <1>3, <1>4, <1>5, <1>6, <2>1, <2>2, <2>3, SameCalls
  <1>7. CASE State(next) \notin visited
    <2>1. queue' = Append(queue, next)
      BY <1>1, <1>4, <1>7
    <2>2. /\ DOMAIN queue' = DOMAIN queue \cup {Len(queue) + 1}
          /\ \A i \in DOMAIN queue : queue'[i] = queue[i] /\ i < Len(queue) + 1
          /\ queue'[Len(queue) + 1] = next
      <3>1. /\ queue' \in Seq(Seq(Pool)) /\ Len(queue') = Len(queue) + 1
            /\ \A i \in 1..Len(queue) : queue'[i] = queue[i]
            /\ queue'[Len(queue) + 1] = next
        BY <1>2, <1>3, <2>1, AppendProperties
      <3>2. DOMAIN queue' = 1..(Len(queue) + 1)
        BY <3>1, LenProperties
      <3> QED BY <1>2, <3>1, <3>2
    <2>3. \A k \in Keys : flows[k] \subseteq flows'[k]
      BY <1>1, RecordKeeps
    <2>4. \A o \in Outputs[c.to] : next \in flows'[Out(o)]
      BY <1>1, <1>5, KeysAre, RecordKeeps
    <2> QED BY <1>1, <1>2, <1>3, <1>4, <1>5, <1>7, <2>2, <2>3, <2>4, SameCalls
  <1> QED BY <1>6, <1>7

\* A route joins the queue only under a state that was never queued.
LEMMA FollowQueued ==
    ASSUME SearchInv, QueueInv, NEW c \in todo, Follow(c), NEW next, next = Append(route, c)
    PROVE  visited' \ Queued' = visited \ Queued
  <1>1. CASE State(next) \in visited
    BY <1>1, FollowFacts DEF Queued
  <1>2. CASE State(next) \notin visited
    <2>1. /\ DOMAIN queue' = DOMAIN queue \cup {Len(queue) + 1}
          /\ \A i \in DOMAIN queue : queue'[i] = queue[i]
          /\ queue'[Len(queue) + 1] = next
          /\ visited' = visited \cup {State(next)}
      BY <1>2, FollowFacts
    <2>2. \A x : x \in Queued' <=> x \in Queued \/ x = State(next)
      BY <2>1 DEF Queued
    <2> QED BY <1>2, <2>1, <2>2
  <1> QED BY <1>1, <1>2

LEMMA FollowKeepsQueue ==
    ASSUME SearchInv, QueueInv, NEW c \in todo, Follow(c) PROVE QueueInv'
  <1> DEFINE next == Append(route, c)
             last == Len(queue) + 1
  <1> HIDE DEF next
  <1>0. /\ route' = route /\ todo' = todo \ {c}
        /\ End(next) = c.to /\ Len(next) = Len(route) + 1
        /\ Sure(next) <=> Sure(route) /\ c.kind = "exact"
        /\ Passes(next) = Passes(route) \cup {c.to}
        /\ visited' = visited \cup {State(next)}
        /\ \/ State(next) \in visited /\ queue' = queue
           \/ /\ State(next) \notin visited
              /\ DOMAIN queue' = DOMAIN queue \cup {last}
              /\ \A i \in DOMAIN queue : queue'[i] = queue[i] /\ i < last
              /\ queue'[last] = next
    BY FollowFacts DEF next
  <1>1. /\ Len(route) \in Nat /\ DOMAIN queue \subseteq Nat /\ last \in Nat
        /\ \A i \in DOMAIN queue : Len(queue[i]) \in Nat
    BY SearchFacts
  <1>2. \A i \in DOMAIN queue' : \/ i \in DOMAIN queue /\ queue'[i] = queue[i]
                                 \/ /\ i = last /\ queue'[i] = next
                                    /\ State(next) \notin visited
    BY <1>0
  <1>3. \A i \in DOMAIN queue' : /\ State(queue'[i]) \in visited'
                                 /\ Len(queue'[i]) \in {Len(route'), Len(route') + 1}
    BY <1>0, <1>2 DEF QueueInv
  <1>4. ASSUME NEW i \in DOMAIN queue', NEW j \in DOMAIN queue'
        PROVE  /\ i <= j => Len(queue'[i]) <= Len(queue'[j])
               /\ State(queue'[i]) = State(queue'[j]) => i = j
    <2>1. CASE i \in DOMAIN queue /\ j \in DOMAIN queue
      BY <1>2, <1>0, <2>1 DEF QueueInv
    <2>2. CASE i \in DOMAIN queue /\ j \notin DOMAIN queue
      <3>1. /\ queue'[i] = queue[i] /\ queue'[j] = next /\ State(next) \notin visited
            /\ Len(queue[i]) \in {Len(route), Len(route) + 1} /\ State(queue[i]) \in visited
        BY <1>0, <1>2, <2>2 DEF QueueInv
      <3> QED BY <1>0, <1>1, <2>2, <3>1
    <2>3. CASE i \notin DOMAIN queue /\ j \in DOMAIN queue
      <3>1. /\ queue'[j] = queue[j] /\ queue'[i] = next /\ State(next) \notin visited
            /\ State(queue[j]) \in visited /\ i = last /\ j < last
        BY <1>0, <1>2, <2>3 DEF QueueInv
      <3>2. ~(i <= j)
        BY <1>1, <2>3, <3>1
      <3> QED BY <3>1, <3>2
    <2>4. CASE i \notin DOMAIN queue /\ j \notin DOMAIN queue
      <3>1. i = last /\ j = last /\ queue'[i] = next
        BY <1>2, <2>4
      <3> QED BY <1>0, <1>1, <3>1
    <2> QED BY <2>1, <2>2, <2>3, <2>4
  <1>5. State(route') \in visited' /\ State(route') \notin Queued'
    <2>1. State(route) \in visited \ Queued
      BY DEF QueueInv
    <2>2. State(route) \in visited' \ Queued'
      BY <2>1, FollowQueued
    <2> QED BY <1>0, <2>2
  <1>6. \A m \in Passes(route) \cup {Entry} : Found(visited', m, Sure(route))
    BY <1>0, FoundWeaker DEF QueueInv
  <1>7. \A m \in Passes(next) \cup {Entry} : Found(visited', m, Sure(next))
    <2>1. Found(visited', c.to, Sure(next))
      BY <1>0, StateParts DEF Found
    <2>2. \A m \in Passes(route) \cup {Entry} : Found(visited', m, Sure(next))
      BY <1>0, <1>6, FoundWeaker
    <2> QED BY <1>0, <2>1, <2>2
  <1>8. \A i \in DOMAIN queue : \A m \in Passes(queue[i]) \cup {Entry} :
           Found(visited', m, Sure(queue[i]))
    BY <1>0, FoundWeaker DEF QueueInv
  <1>9. \A i \in DOMAIN queue' : \A m \in Passes(queue'[i]) \cup {Entry} :
           Found(visited', m, Sure(queue'[i]))
    BY <1>2, <1>7, <1>8
  <1> QED BY <1>0, <1>3, <1>4, <1>5, <1>6, <1>9 DEF QueueInv

LEMMA FollowKeepsRest ==
    ASSUME SearchInv, QueueInv, LevelInv, ClosedInv, CycleInv, FlowsInv,
           NEW c \in todo, Follow(c)
    PROVE  LevelInv' /\ ClosedInv' /\ CycleInv' /\ FlowsInv'
  <1> DEFINE next == Append(route, c)
             last == Len(queue) + 1
  <1> HIDE DEF next
  <1>0. /\ route' = route /\ todo' = todo \ {c} /\ Eligible' = Eligible
        /\ \A m : EligibleFrom(m)' = EligibleFrom(m)
        /\ next # <<>> /\ End(next) = c.to
        /\ Sure(next) <=> Sure(route) /\ c.kind = "exact"
        /\ c.to \in Methods
        /\ visited' = visited \cup {State(next)}
        /\ \/ State(next) \in visited /\ queue' = queue
           \/ /\ State(next) \notin visited
              /\ DOMAIN queue' = DOMAIN queue \cup {last}
              /\ \A i \in DOMAIN queue : queue'[i] = queue[i] /\ i < last
              /\ queue'[last] = next
        /\ \A k \in Keys : flows[k] \subseteq flows'[k]
        /\ \A o \in Outputs[c.to] : next \in flows'[Out(o)]
    BY FollowFacts DEF next
  <1>1. visited' \ Queued' = visited \ Queued
    BY FollowQueued
  <1>2. ~Closes(c)
    BY DEF Follow
  <1>3. ASSUME NEW exact \in BOOLEAN, NEW n \in 0..MaxHops, n <= Len(route),
               NEW m \in Levels(Eligible, exact)[n]
        PROVE  \E s \in visited' :
                  /\ s[1] = m /\ (exact => s[2])
                  /\ \A i \in DOMAIN queue' : State(queue'[i]) = s => Len(queue'[i]) <= n
    <2>1. PICK s \in visited :
             /\ s[1] = m /\ (exact => s[2])
             /\ \A i \in DOMAIN queue : State(queue[i]) = s => Len(queue[i]) <= n
      BY <1>3 DEF LevelInv
    <2>2. \A i \in DOMAIN queue' : State(queue'[i]) = s => Len(queue'[i]) <= n
      BY <1>0, <2>1
    <2> QED BY <1>0, <2>1, <2>2
  <1>4. LevelInv'
    BY <1>0, <1>3 DEF LevelInv
  <1>5. ASSUME NEW s, NEW d, Followed(d, s) PROVE Followed(d, s)'
    BY <1>0, <1>5, FoundWeaker, KeysAre DEF Followed
  <1>6. Followed(c, State(route))'
    <2>1. State(next)[1] = c.to /\ (State(next)[2] <=> Sure(next))
          /\ (State(route)[2] <=> Sure(route))
      BY <1>0, StateParts
    <2>2. Found(visited', c.to, State(route)[2] /\ c.kind = "exact")
      BY <1>0, <2>1 DEF Found
    <2> QED BY <1>0, <1>2, <2>2 DEF Followed, Closes
  <1>7. ASSUME Len(route) < MaxHops, NEW s \in visited \ Queued,
               NEW d \in EligibleFrom(s[1])
        PROVE  (s = State(route) /\ d \in todo') \/ Followed(d, s)'
    BY <1>0, <1>5, <1>6, <1>7 DEF ClosedInv
  <1>8. ClosedInv'
    BY <1>0, <1>1, <1>7 DEF ClosedInv
  <1>9. CycleInv'
    BY <1>0, KeysAre DEF CycleInv
  <1>10. \A k \in Keys : \A s : Recorded(k, s) => Recorded(k, s)'
    BY <1>0 DEF Recorded
  <1>11. ASSUME NEW s \in visited', NEW o \in Outputs[s[1]] PROVE Recorded(Out(o), s)'
    <2>1. CASE s = State(next)
      BY <1>0, <1>11, <2>1, StateParts DEF Recorded
    <2>2. CASE s # State(next)
      <3>1. s \in visited /\ s[1] \in Methods
        BY <1>0, <1>11, <2>2, SearchFacts
      <3> QED BY <1>10, <1>11, <3>1, KeysAre DEF FlowsInv
    <2> QED BY <2>1, <2>2
  <1>12. \A s \in visited \ Queued : s[1] \in Accesses => Recorded(Data(s[1]), s)'
    BY <1>10, KeysAre DEF FlowsInv
  <1>13. FlowsInv'
    BY <1>1, <1>11, <1>12 DEF FlowsInv
  <1> QED BY <1>4, <1>8, <1>9, <1>13

\* A call that closes a cycle leads to a method that was queued.
LEMMA CycleKeepsSearch ==
    ASSUME SearchInv, QueueInv, LevelInv, ClosedInv, CycleInv, FlowsInv,
           NEW c \in todo, FollowCycle(c)
    PROVE  QueueInv' /\ LevelInv' /\ ClosedInv' /\ CycleInv' /\ FlowsInv'
  <1>0. /\ route' = route /\ todo' = todo \ {c} /\ queue' = queue /\ visited' = visited
        /\ Closes(c) /\ calls' = calls
        /\ flows' = Record({Cycle}, Append(route, c))
    BY DEF FollowCycle
  <1>1. Eligible' = Eligible /\ \A m : EligibleFrom(m)' = EligibleFrom(m)
    BY <1>0, SameCalls
  <1>2. (\A k \in Keys : flows[k] \subseteq flows'[k]) /\ flows'[Cycle] # {}
    BY <1>0, KeysAre, RecordKeeps
  <1>3. QueueInv'
    BY <1>0 DEF QueueInv, Queued
  <1>4. LevelInv'
    BY <1>0, <1>1 DEF LevelInv
  <1>5. Followed(c, State(route))'
    <2>1. Found(visited, c.to, Sure(route))
      BY <1>0 DEF QueueInv, Closes
    <2>2. Found(visited, c.to, State(route)[2] /\ c.kind = "exact")
      BY <2>1, StateParts, FoundWeaker
    <2> QED BY <1>0, <1>2, <2>2 DEF Followed
  <1>6. ASSUME NEW s, NEW d, Followed(d, s) PROVE Followed(d, s)'
    BY <1>0, <1>2, <1>6 DEF Followed
  <1>7. ClosedInv'
    <2>1. Queued' = Queued
      BY <1>0 DEF Queued
    <2> QED BY <1>0, <1>1, <1>5, <1>6, <2>1 DEF ClosedInv
  <1>8. CycleInv'
    BY <1>0, <1>1, <1>2 DEF CycleInv
  <1>9. \A k \in Keys : \A s : Recorded(k, s) => Recorded(k, s)'
    BY <1>2 DEF Recorded
  <1>10. FlowsInv'
    <2>1. Queued' = Queued /\ \A s \in visited : s[1] \in Methods
      BY <1>0, SearchFacts DEF Queued
    <2> QED BY <1>0, <1>9, <2>1, KeysAre DEF FlowsInv
  <1> QED BY <1>3, <1>4, <1>7, <1>8, <1>10

\* The search starts with the entry, whose own outputs are recorded.
LEMMA StartsSearch ==
    ASSUME SearchInv, phase = "start", todo = {}, route = <<>>, Start
    PROVE  QueueInv' /\ LevelInv' /\ ClosedInv' /\ CycleInv' /\ FlowsInv'
  <1>0. /\ route' = <<>> /\ todo' = {} /\ queue' = << <<>> >> /\ calls' = calls
        /\ visited' = {<<Entry, TRUE>>}
        /\ flows' = Record({Out(o) : o \in Outputs[Entry]}, <<>>)
    BY DEF Start
  <1>1. /\ DOMAIN queue' = {1} /\ queue'[1] = <<>> /\ Len(<<>>) = 0
        /\ Passes(<<>>) = {} /\ Sure(<<>>)
    BY <1>0 DEF Passes, Sure
  <1>2. State(<<>>) = <<Entry, TRUE>>
    <2>1. Sure(<<>>) = TRUE
      BY <1>1 DEF Sure
    <2> QED BY <2>1, EmptyRoute, Zenon DEF State
  <1>3. visited' = {State(<<>>)} /\ Queued' = {State(<<>>)}
    BY <1>0, <1>1, <1>2 DEF Queued
  <1>4. State(<<>>)[1] = Entry /\ State(<<>>)[2]
    BY <1>1, StateParts, EmptyRoute
  <1>5. QueueInv'
    <2>1. \A i \in DOMAIN queue' : i = 1 /\ queue'[i] = <<>>
      BY <1>1
    <2>2. Found(visited', Entry, Sure(<<>>))
      BY <1>3, <1>4 DEF Found
    <2>3. \A m \in Passes(<<>>) \cup {Entry} : Found(visited', m, Sure(<<>>))
      BY <1>1, <2>2
    <2>4. \A i \in DOMAIN queue' : /\ State(queue'[i]) \in visited'
                                   /\ Len(queue'[i]) \in {Len(route'), Len(route') + 1}
      BY <1>0, <1>3, <2>1
    <2>5. \A i, j \in DOMAIN queue' : /\ Len(queue'[i]) <= Len(queue'[j])
                                      /\ i = j
      BY <1>1, <2>1
    <2>6. \A i \in DOMAIN queue' : \A m \in Passes(queue'[i]) \cup {Entry} :
             Found(visited', m, Sure(queue'[i]))
      BY <2>1, <2>3
    <2> QED BY <1>0, <1>3, <2>3, <2>4, <2>5, <2>6 DEF QueueInv
  <1>6. Eligible' = Eligible /\ Eligible \in SUBSET Pool
    BY <1>0, SameCalls, SearchFacts
  <1>7. LevelInv'
    <2>1. ASSUME NEW exact \in BOOLEAN, NEW n \in 0..MaxHops, n <= Len(route'),
                 NEW m \in Levels(Eligible, exact)[n]
          PROVE  n = 0 /\ m = Entry
      <3>1. n = 0
        BY <1>0, <1>1, <2>1, BoundsAssumption
      <3>2. Levels(Eligible, exact)[0] = {Entry}
        BY <1>6, LevelsAre
      <3> QED BY <2>1, <3>1, <3>2
    <2>2. \A i \in DOMAIN queue' : Len(queue'[i]) = 0
      BY <1>1
    <2>3. ASSUME NEW exact \in BOOLEAN, NEW n \in 0..MaxHops, n <= Len(route'),
                 NEW m \in Levels(Eligible, exact)[n]
          PROVE  \E s \in visited' :
                    /\ s[1] = m /\ (exact => s[2])
                    /\ \A i \in DOMAIN queue' : State(queue'[i]) = s => Len(queue'[i]) <= n
      <3>1. n = 0 /\ m = Entry
        BY <2>1, <2>3
      <3>2. \A i \in DOMAIN queue' : Len(queue'[i]) <= n
        BY <2>2, <3>1
      <3> QED BY <1>3, <1>4, <3>1, <3>2
    <2> QED BY <1>6, <2>3 DEF LevelInv
  <1>8. ClosedInv'
    BY <1>3 DEF ClosedInv
  <1>9. CycleInv'
    BY <1>0, <1>1, BoundsAssumption DEF CycleInv
  <1>10. FlowsInv'
    <2>1. \A o \in Outputs[Entry] : <<>> \in flows'[Out(o)]
      BY <1>0, MethodsAssumption, KeysAre, RecordKeeps
    <2> QED BY <1>1, <1>3, <1>4, <2>1 DEF FlowsInv, Recorded
  <1> QED BY <1>5, <1>7, <1>8, <1>9, <1>10

-----------------------------------------------------------------------------
(* The end of the search                                                   *)

\* Where a route of the search's calls may end, and how it gets there.
LEMMA ChainEnds ==
    ASSUME SearchInv, NEW r \in Chains, r # <<>>
    PROVE  /\ End(r) \in Within(FALSE)
           /\ \E n \in 0..MaxHops, c \in Eligible :
                 /\ n < MaxHops /\ c.from \in Levels(Eligible, FALSE)[n]
                 /\ c.to = End(r)
  <1>0. Eligible \in SUBSET Pool
    BY SearchFacts
  <1>1. PICK n \in 0..MaxHops : r \in Longer(Eligible)[n]
    BY DEF Chains
  <1>2. r \in Seq(Pool) /\ End(r) \in Levels(Eligible, FALSE)[n]
    BY <1>0, <1>1, LongerEnds
  <1>3. n \in 1..MaxHops /\ n - 1 \in 0..MaxHops /\ n - 1 < MaxHops
    <2>1. n # 0
      BY <1>0, <1>1, LongerAre
    <2> QED BY <1>1, <2>1, BoundsAssumption
  <1>4. r \in Extended(Eligible, Longer(Eligible)[n - 1])
    BY <1>0, <1>1, <1>3, LongerAre
  <1>5. PICK q \in Longer(Eligible)[n - 1], c \in Eligible :
           c.from = End(q) /\ r = Append(q, c)
    BY <1>4 DEF Extended
  <1>6. q \in Seq(Pool) /\ End(q) \in Levels(Eligible, FALSE)[n - 1]
    BY <1>0, <1>3, <1>5, LongerEnds
  <1>7. End(r) = c.to
    BY <1>0, <1>5, <1>6, AppendCall
  <1>8. End(r) \in Within(FALSE)
    <2>1. Levels(Eligible, FALSE)[n] \subseteq Levels(Eligible, FALSE)[MaxHops]
      BY <1>0, LevelsGrow
    <2> QED BY <1>2, <2>1 DEF Within
  <1> QED BY <1>3, <1>5, <1>6, <1>7, <1>8

\* An empty queue with nothing left to follow means everything was found.
LEMMA SearchedAll ==
    ASSUME SearchInv, QueueInv, LevelInv, ClosedInv, todo = {}, queue = <<>>,
           NEW exact \in BOOLEAN, NEW n \in 0..MaxHops,
           NEW m \in Levels(Eligible, exact)[n]
    PROVE  Found(visited, m, exact)
  <1> DEFINE Bad == {k \in 0..MaxHops : ~ \A d \in Levels(Eligible, exact)[k] :
                                             Found(visited, d, exact)}
  <1>0. /\ Eligible \in SUBSET Pool /\ Len(route) \in 0..MaxHops /\ MaxHops \in Nat
        /\ Queued = {}
    BY SearchFacts, BoundsAssumption DEF Queued
  <1>1. ASSUME NEW k \in Bad, \A j \in Bad : k <= j PROVE FALSE
    <2>1. k \in 0..MaxHops /\ k \in Nat
      OBVIOUS
    <2>2. PICK d \in Levels(Eligible, exact)[k] : ~Found(visited, d, exact)
      BY <1>1
    <2>3. CASE k <= Len(route)
      BY <2>1, <2>2, <2>3 DEF LevelInv, Found
    <2>4. CASE ~(k <= Len(route))
      <3>1. k \in 1..MaxHops /\ k - 1 \in 0..MaxHops /\ Len(route) < MaxHops
            /\ k - 1 \notin Bad
        <4> HIDE DEF Bad
        <4> QED BY <1>0, <1>1, <2>1, <2>4
      <3>2. \A e \in Levels(Eligible, exact)[k - 1] : Found(visited, e, exact)
        BY <3>1
      <3>3. d \in Beyond(Eligible, exact, Levels(Eligible, exact)[k - 1])
        BY <1>0, <2>2, <3>1, LevelsAre
      <3>4. PICK c \in Eligible : /\ c.from \in Levels(Eligible, exact)[k - 1]
                                  /\ exact => c.kind = "exact"
                                  /\ c.to = d
        BY <2>2, <3>2, <3>3 DEF Beyond
      <3>5. PICK s \in visited : s[1] = c.from /\ (exact => s[2])
        BY <3>2, <3>4 DEF Found
      <3>6. Followed(c, s)
        BY <1>0, <3>1, <3>5 DEF ClosedInv, EligibleFrom
      <3> QED BY <2>2, <3>4, <3>5, <3>6, FoundWeaker DEF Followed
    <2> QED BY <2>3, <2>4
  <1>2. Bad \in SUBSET Nat
    <2>1. Bad \subseteq 0..MaxHops
      OBVIOUS
    <2> HIDE DEF Bad
    <2> QED BY <1>0, <2>1
  <1>3. Bad = {}
    <2> HIDE DEF Bad
    <2> QED BY <1>1, <1>2, LeastNumber
  <1> QED BY <1>3

LEMMA EndsJoined ==
    ASSUME SearchInv, QueueInv, LevelInv, ClosedInv, CycleInv, FlowsInv,
           todo = {}, queue = <<>>
    PROVE  Joined
  <1>0. /\ Eligible \in SUBSET Pool /\ Len(route) \in 0..MaxHops /\ MaxHops \in Nat
        /\ Queued = {}
    BY SearchFacts, BoundsAssumption DEF Queued
  <1>1. ASSUME NEW exact \in BOOLEAN, NEW m \in Within(exact), NEW k \in Ends(m)
        PROVE  \E r \in flows[k] : (exact => Sure(r)) /\ (m = Entry \/ r # <<>>)
    <2>1. PICK s \in visited : s[1] = m /\ (exact => s[2])
      <3>1. m \in Levels(Eligible, exact)[MaxHops] /\ MaxHops \in 0..MaxHops
        BY <1>0 DEF Within
      <3> QED BY <3>1, SearchedAll DEF Found
    <2>2. \/ \E o \in Outputs[m] : k = Out(o)
          \/ k = Data(m) /\ m \in Accesses
      <3>1. ASSUME Data(m) \in Keys PROVE m \in Accesses
        BY <3>1, SMT DEF Keys, Data, Out, Cycle
      <3> QED BY <3>1 DEF Ends
    <2>3. Recorded(k, s)
      BY <1>0, <2>1, <2>2 DEF FlowsInv
    <2> QED BY <2>1, <2>3 DEF Recorded
  <1>2. ASSUME NEW r \in Chains, r # <<>>, End(r) = Entry PROVE flows[Cycle] # {}
    <2>1. PICK n \in 0..MaxHops, c \in Eligible :
             n < MaxHops /\ c.from \in Levels(Eligible, FALSE)[n] /\ c.to = Entry
      BY <1>2, ChainEnds
    <2>2. c \in EligibleFrom(c.from)
      BY DEF EligibleFrom
    <2>3. CASE n < Len(route)
      BY <2>1, <2>2, <2>3 DEF CycleInv
    <2>4. CASE ~(n < Len(route))
      <3>1. Len(route) < MaxHops
        BY <1>0, <2>1, <2>4
      <3>2. PICK s \in visited : s[1] = c.from
        BY <2>1, SearchedAll DEF Found
      <3>3. Followed(c, s)
        BY <1>0, <2>2, <3>1, <3>2 DEF ClosedInv
      <3> QED BY <2>1, <3>3 DEF Followed
    <2> QED BY <2>3, <2>4
  <1> QED BY <1>1, <1>2 DEF Joined

-----------------------------------------------------------------------------
(* Representatives                                                         *)

\* A group of routes has a representative, that no other one is before.
LEMMA RepresentativeIsBest ==
    ASSUME NEW G \in SUBSET Seq(Pool), G # {}, \A r \in G : Len(r) <= MaxHops
    PROVE  /\ Representative(G) \in G
           /\ \A s \in G : ~Before(s, Representative(G))
  <1> DEFINE cost(r) == (IF r = <<>> THEN 2 * (MaxHops + 1) ELSE 0)
                          + (IF Sure(r) THEN 0 ELSE MaxHops + 1) + (MaxHops - Len(r))
             costs == {cost(r) : r \in G}
  <1>1. MaxHops \in Nat /\ \A r \in G : Len(r) \in Nat /\ Len(r) <= MaxHops
    BY LenProperties, BoundsAssumption
  <1>2. \A r \in G : cost(r) \in Nat
    BY <1>1
  <1>3. ASSUME NEW r \in G, NEW s \in G, Before(r, s) PROVE cost(r) < cost(s)
    <2>1. /\ Len(r) \in Nat /\ Len(s) \in Nat /\ Len(r) <= MaxHops /\ Len(s) <= MaxHops
          /\ MaxHops \in Nat
      BY <1>1
    <2>2. CASE r # <<>> /\ s = <<>>
      BY <2>1, <2>2
    <2>3. CASE ~(r # <<>> /\ s = <<>>)
      <3>1. (r = <<>>) <=> (s = <<>>)
        BY <1>3, <2>3 DEF Before
      <3>2. CASE Sure(r) /\ ~Sure(s)
        BY <2>1, <3>1, <3>2
      <3>3. CASE (Sure(r) <=> Sure(s)) /\ Len(r) > Len(s)
        BY <2>1, <3>1, <3>3
      <3> QED BY <1>3, <2>3, <3>2, <3>3 DEF Before
    <2> QED BY <2>2, <2>3
  <1>4. PICK r \in G : \A s \in G : cost(r) <= cost(s)
    <2>1. costs \in SUBSET Nat /\ costs # {}
      <3> HIDE DEF cost
      <3> QED BY <1>2
    <2>2. PICK x \in costs : \A y \in costs : x <= y
      <3> HIDE DEF costs
      <3> QED BY <2>1, LeastNumber
    <2> HIDE DEF cost
    <2> QED BY <2>2
  <1>5. \A s \in G : ~Before(s, r)
    <2> HIDE DEF cost
    <2> QED BY <1>2, <1>3, <1>4
  <1> QED BY <1>5 DEF Representative

\* An exact route, and evidence of a call, are not hidden by a weaker one.
LEMMA RepresentativeIsSure ==
    ASSUME NEW G \in SUBSET Seq(Pool), \A r \in G : Len(r) <= MaxHops,
           NEW r \in G, r # <<>>, Sure(r)
    PROVE  Sure(Representative(G))
  BY RepresentativeIsBest DEF Before

\* Recorded routes are within the hop limit.
LEMMA FlowsAreBounded ==
    ASSUME SearchInv, NEW k \in Keys
    PROVE  flows[k] \in SUBSET Seq(Pool) /\ \A r \in flows[k] : Len(r) <= MaxHops
  BY DEF SearchInv, SearchTypeOK, NothingInvented, Possible

\* With no flow of a row, the join returns the representatives.
LEMMA ReturnsThem ==
    ASSUME SearchInv, direct = {}, Return
    PROVE  ReturnsRepresentatives'
  <1>1. flows' = flows /\ published' = {[key |-> k, route |-> Representative(Remaining(k)),
                      alternatives |-> Cardinality(Remaining(k))] :
                        k \in {j \in Keys : Remaining(j) # {}}}
    BY DEF Return
  <1>2. \A k \in Keys :
           Remaining(k) = IF flows[k] = {} THEN {} ELSE {Representative(flows[k])}
    BY DEF Remaining
  <1>3. ASSUME NEW k \in Keys, flows[k] # {}
        PROVE  Representative(Remaining(k)) = Representative(flows[k])
    <2> DEFINE best == Representative(flows[k])
    <2>1. best \in flows[k] /\ flows[k] \in SUBSET Seq(Pool)
          /\ \A r \in flows[k] : Len(r) <= MaxHops
      BY <1>3, FlowsAreBounded, RepresentativeIsBest
    <2> HIDE DEF best
    <2>2. {best} \in SUBSET Seq(Pool) /\ {best} # {} /\ \A r \in {best} : Len(r) <= MaxHops
      BY <2>1
    <2>3. Representative({best}) \in {best}
      BY <2>2, RepresentativeIsBest
    <2>4. Remaining(k) = {best}
      BY <1>2, <1>3 DEF best
    <2>5. Representative(Remaining(k)) = best
      BY <2>3, <2>4
    <2> QED BY <2>5 DEF best
  <1>4. \A k \in Keys : flows[k] # {} <=> Remaining(k) # {}
    BY <1>2
  <1>5. ASSUME NEW k \in Keys, flows[k] # {} PROVE \E f \in published' : f.key = k
    <2> DEFINE f == [key |-> k, route |-> Representative(Remaining(k)),
                     alternatives |-> Cardinality(Remaining(k))]
    <2>1. k \in {j \in Keys : Remaining(j) # {}}
      BY <1>4, <1>5
    <2>2. f \in published'
      BY <1>1, <2>1, Zenon
    <2>3. f.key = k
      OBVIOUS
    <2> QED BY <2>2, <2>3
  <1>6. ASSUME NEW f \in published'
        PROVE  f.key \in Keys /\ flows[f.key] # {} /\ f.route = Representative(flows[f.key])
    <2>1. PICK k \in Keys : Remaining(k) # {} /\ f.key = k
                              /\ f.route = Representative(Remaining(k))
      BY <1>1
    <2> QED BY <1>3, <1>4, <2>1
  <1> QED BY <1>1, <1>5, <1>6 DEF ReturnsRepresentatives

-----------------------------------------------------------------------------
(* The join, step by step                                                  *)

LEMMA InitBreadth == Init => BreadthInv
  BY InitSearch DEF Init, BreadthInv

\* A row finds each pair it can witness connected by the search.
LEMMA RowsChangeNothing ==
    ASSUME BreadthInv, NEW m \in Methods, NEW exact \in BOOLEAN, UseRow(m, exact)
    PROVE  direct' = {}
  <1>1. SearchInv /\ Joined /\ direct = {}
    BY DEF UseRow, BreadthInv
  <1>2. PICK r \in Witnesses(m, exact) :
           LET new == {o \in Outputs[m] : /\ flows[Out(o)] = {}
                                          /\ \A d \in direct : d.output = o => ~d.exact}
           IN  direct' = {d \in direct : d.output \notin new}
                           \cup {[output |-> o, exact |-> exact, route |-> r] : o \in new}
    BY DEF UseRow
  <1>3. r \in Chains /\ r # <<>> /\ End(r) = m
    BY DEF Witnesses
  <1>4. m \in Within(FALSE)
    BY <1>1, <1>3, ChainEnds
  <1>5. \A o \in Outputs[m] : flows[Out(o)] # {}
    <2>1. \A o \in Outputs[m] : Out(o) \in Ends(m)
      BY KeysAre DEF Ends
    <2> QED BY <1>1, <1>4, <2>1 DEF Joined
  <1>6. {o \in Outputs[m] : /\ flows[Out(o)] = {}
                            /\ \A d \in direct : d.output = o => ~d.exact} = {}
    BY <1>5
  <1> QED BY <1>1, <1>2, <1>6

\* What the search found stays found.
LEMMA JoinedStays ==
    ASSUME Joined, calls' = calls, flows' = flows
    PROVE  Joined'
  <1>1. Eligible' = Eligible
    BY SameCalls
  <1>2. Chains' = Chains /\ \A exact : Within(exact)' = Within(exact)
    BY <1>1 DEF Chains, Within
  <1> QED BY <1>2 DEF Joined

LEMMA NextBreadth == BreadthInv /\ [Next]_vars => BreadthInv'
  <1> SUFFICES ASSUME BreadthInv, [Next]_vars PROVE BreadthInv'
    OBVIOUS
  <1>0. /\ SearchInv /\ SearchInv' /\ direct = {}
        /\ phase = "start" => todo = {} /\ route = <<>>
        /\ phase = "search" => QueueInv /\ LevelInv /\ ClosedInv /\ CycleInv /\ FlowsInv
        /\ phase \in {"rows", "done"} => Joined
        /\ phase = "done" => ReturnsRepresentatives
    BY NextSearch DEF BreadthInv
  <1>1. CASE Start
    BY <1>0, <1>1, StartsSearch DEF BreadthInv, Start
  <1>2. CASE Pop
    BY <1>0, <1>2, PopKeepsQueue, PopKeepsLevels, PopKeepsClosed DEF BreadthInv, Pop
  <1>3. ASSUME NEW c \in todo, FollowCycle(c) PROVE BreadthInv'
    BY <1>0, <1>3, CycleKeepsSearch DEF BreadthInv, FollowCycle
  <1>4. ASSUME NEW c \in todo, Follow(c) PROVE BreadthInv'
    BY <1>0, <1>4, FollowKeepsQueue, FollowKeepsRest DEF BreadthInv, Follow
  <1>5. CASE EndSearch
    BY <1>0, <1>5, EndsJoined, JoinedStays DEF BreadthInv, EndSearch
  <1>6. CASE Return
    BY <1>0, <1>6, ReturnsThem, JoinedStays DEF BreadthInv, Return
  <1>7. ASSUME NEW m \in Methods, NEW exact \in BOOLEAN, UseRow(m, exact) PROVE BreadthInv'
    BY <1>0, <1>7, RowsChangeNothing, JoinedStays DEF BreadthInv, UseRow
  <1>8. CASE UNCHANGED vars
    <2>1. /\ phase' = phase /\ direct' = direct /\ calls' = calls /\ flows' = flows
          /\ published' = published /\ queue' = queue /\ visited' = visited
          /\ route' = route /\ todo' = todo
      BY <1>8 DEF vars
    <2>2. QueueInv => QueueInv'
      BY <2>1 DEF QueueInv, Queued
    <2>3. Eligible' = Eligible /\ \A m : EligibleFrom(m)' = EligibleFrom(m)
      BY <2>1, SameCalls
    <2>4. (LevelInv => LevelInv') /\ (CycleInv => CycleInv')
      <3>1. LevelInv => LevelInv'
        BY <2>1, <2>3 DEF LevelInv
      <3>2. CycleInv => CycleInv'
        BY <2>1, <2>3 DEF CycleInv
      <3> QED BY <3>1, <3>2
    <2>5. (ClosedInv => ClosedInv') /\ (FlowsInv => FlowsInv')
      BY <2>1, <2>3 DEF ClosedInv, FlowsInv, Queued, Followed, Recorded
    <2>6. ReturnsRepresentatives => ReturnsRepresentatives'
      BY <2>1 DEF ReturnsRepresentatives
    <2> QED BY <1>0, <2>1, <2>2, <2>4, <2>5, <2>6, JoinedStays DEF BreadthInv
  <1>9. Terminated => UNCHANGED vars
    BY DEF Terminated
  <1> QED BY <1>1, <1>2, <1>3, <1>4, <1>5, <1>6, <1>7, <1>8, <1>9 DEF Next

LEMMA BreadthHolds == Spec => []BreadthInv
  <1> QED BY InitBreadth, NextBreadth, PTL DEF Spec

\* The search keeps one route per method and confidence, and loses nothing by
\* it: whatever is within the hop limit has a flow, and an exact route to it is
\* not hidden by a weaker one that came first (the loop over `queue` and
\* `visited` in materialize_call_graph_flows).
THEOREM JoinIsComplete == Spec => []NothingMissed
  <1>1. BreadthInv => NothingMissed
    <2> SUFFICES ASSUME BreadthInv, phase = "done" PROVE NothingMissed
      BY DEF NothingMissed
    <2>1. SearchInv /\ Joined /\ ReturnsRepresentatives
      BY DEF BreadthInv
    <2>2. ASSUME NEW m \in Within(FALSE), NEW k \in Keys, k \in Ends(m)
          PROVE  \E f \in published : f.key = k
      <3>1. flows[k] # {}
        BY <2>1, <2>2 DEF Joined
      <3> QED BY <2>1, <3>1 DEF ReturnsRepresentatives
    <2>3. ASSUME NEW m \in Within(TRUE) \ {Entry}, NEW f \in published, f.key \in Ends(m)
          PROVE  Sure(f.route)
      <3>1. PICK r \in flows[f.key] : Sure(r) /\ r # <<>>
        BY <2>1, <2>3 DEF Joined
      <3>2. f.key \in Keys /\ f.route = Representative(flows[f.key])
        BY <2>1 DEF ReturnsRepresentatives
      <3>3. flows[f.key] \in SUBSET Seq(Pool) /\ \A s \in flows[f.key] : Len(s) <= MaxHops
        BY <2>1, <3>2, FlowsAreBounded
      <3> QED BY <3>1, <3>2, <3>3, RepresentativeIsSure
    <2> QED BY <2>2, <2>3 DEF NothingMissed
  <1> QED BY <1>1, BreadthHolds, PTL

\* An entry that can call itself back within the hop limit has a cycle flow,
\* though the search follows no cycle and queues no state twice.
THEOREM EntryCyclesAreFound == Spec => []EntryCycleIsFound
  <1>1. BreadthInv => EntryCycleIsFound
    BY KeysAre DEF BreadthInv, EntryCycleIsFound, Joined, ReturnsRepresentatives
  <1> QED BY <1>1, BreadthHolds, PTL

\* A reachability row that a route of the graph witnesses adds no flow to what
\* the search has found (the reachability loop after it).
THEOREM RowsAreRedundant == Spec => []RowsAddNothing
  <1>1. BreadthInv => RowsAddNothing
    BY DEF BreadthInv, RowsAddNothing
  <1> QED BY <1>1, BreadthHolds, PTL

-----------------------------------------------------------------------------
(* The work of the search                                                  *)

\* The calls of states that have left the queue, once for each state.
Worked == {w \in Eligible \X BOOLEAN : <<w[1].from, w[2]>> \in visited \ Queued}

\* Each call followed or about to be is one of them.
WorkInv ==
    /\ BreadthInv
    /\ explored + Cardinality(todo) <= Cardinality(Worked)
    /\ phase = "start" => explored = 0

LEMMA EligibleIsFinite ==
    ASSUME SearchInv
    PROVE  /\ IsFiniteSet(Eligible) /\ IsFiniteSet(Eligible \X BOOLEAN)
           /\ IsFiniteSet(Worked) /\ Cardinality(Worked) \in Nat
           /\ IsFiniteSet(todo) /\ Cardinality(todo) \in Nat /\ explored \in Nat
  <1>1. IsFiniteSet(Eligible)
    BY SearchFacts, CallsAssumption, FS_Subset
  <1>2. IsFiniteSet(BOOLEAN)
    <2>1. BOOLEAN = {TRUE} \cup {FALSE}
      OBVIOUS
    <2>2. IsFiniteSet({TRUE})
      BY FS_Singleton
    <2>3. IsFiniteSet({TRUE} \cup {FALSE})
      BY <2>2, FS_AddElement
    <2> QED BY <2>1, <2>3, Zenon
  <1>3. IsFiniteSet(Eligible \X BOOLEAN)
    BY <1>1, <1>2, FS_Product
  <1>4. IsFiniteSet(Worked)
    <2>1. Worked \in SUBSET (Eligible \X BOOLEAN)
      BY DEF Worked
    <2> QED BY <1>3, <2>1, FS_Subset
  <1>5. IsFiniteSet(todo)
    BY <1>1, SearchFacts, FS_Subset
  <1>6. explored \in Nat
    BY DEF SearchInv, SearchTypeOK
  <1> QED BY <1>1, <1>3, <1>4, <1>5, <1>6, FS_CardinalityType

\* Pairs with one second component are as many as the first ones.
LEMMA PairsAreAsMany ==
    ASSUME NEW S, IsFiniteSet(S), NEW b
    PROVE  IsFiniteSet(S \X {b}) /\ Cardinality(S \X {b}) = Cardinality(S)
  <1>1. IsFiniteSet({b}) /\ Cardinality({b}) = 1
    BY FS_Singleton
  <1>2. Cardinality(S) \in Nat
    BY FS_CardinalityType
  <1>3. IsFiniteSet(S \X {b}) /\ Cardinality(S \X {b}) = Cardinality(S) * Cardinality({b})
    <2> DEFINE T == {b}
    <2>1. IsFiniteSet(T)
      BY <1>1
    <2> HIDE DEF T
    <2>2. IsFiniteSet(S \X T) /\ Cardinality(S \X T) = Cardinality(S) * Cardinality(T)
      BY <2>1, FS_Product
    <2> QED BY <2>2 DEF T
  <1>4. Cardinality(S) * Cardinality({b}) = Cardinality(S)
    BY <1>1, <1>2
  <1> QED BY <1>3, <1>4

\* Taking a route from the queue brings its calls in, and they are new.
LEMMA PopBringsWork ==
    ASSUME SearchInv, QueueInv, Pop
    PROVE  Cardinality(Worked) + Cardinality(todo') <= Cardinality(Worked')
  <1> DEFINE more == EligibleFrom(End(route')) \X {Sure(route')}
  <1>0. /\ Eligible' = Eligible /\ visited' = visited
        /\ todo' = IF Len(route') < MaxHops THEN EligibleFrom(End(route')) ELSE {}
    BY PopFacts
  <1>1. Queued' = Queued \ {State(route')} /\ State(route') \in visited /\ State(route') \in Queued
    <2>1. State(route') \in Queued
      BY PopFacts DEF Queued
    <2> QED BY <2>1, PopQueued
  <1>2. SearchInv'
    BY NextSearch DEF Next
  <1>3. more \in SUBSET Worked'
    <2>1. ASSUME NEW c \in EligibleFrom(End(route'))
          PROVE  <<c, Sure(route')>> \in Worked'
      <3>1. c \in Eligible /\ c.from = End(route')
        BY <2>1 DEF EligibleFrom
      <3>2. Sure(route') \in BOOLEAN
        BY DEF Sure
      <3>3. <<c.from, Sure(route')>> \in visited \ Queued'
        BY <1>1, <3>1 DEF State
      <3> QED BY <1>0, <3>1, <3>2, <3>3 DEF Worked
    <2> QED BY <2>1
  <1>4. Worked \in SUBSET Worked'
    BY <1>0, <1>1 DEF Worked
  <1>5. Worked \cap more = {}
    <2>1. ASSUME NEW w \in Worked, w \in more PROVE FALSE
      <3>1. PICK c \in EligibleFrom(End(route')) : w = <<c, Sure(route')>>
        BY <2>1
      <3>2. w[1] = c /\ w[2] = Sure(route') /\ c.from = End(route')
        BY <3>1 DEF EligibleFrom
      <3>3. <<w[1].from, w[2]>> = State(route')
        BY <3>2 DEF State
      <3>4. <<w[1].from, w[2]>> \notin Queued
        BY <2>1 DEF Worked
      <3> QED BY <1>1, <3>3, <3>4
    <2> QED BY <2>1
  <1>6. IsFiniteSet(EligibleFrom(End(route')))
    <2>1. EligibleFrom(End(route')) \in SUBSET Eligible
      BY DEF EligibleFrom
    <2> QED BY <2>1, EligibleIsFinite, FS_Subset
  <1>7. IsFiniteSet(more) /\ Cardinality(more) = Cardinality(EligibleFrom(End(route')))
    BY <1>6, PairsAreAsMany
  <1>8. Cardinality(todo') <= Cardinality(more)
    <2>1. Cardinality(more) \in Nat
      BY <1>7, FS_CardinalityType
    <2>2. CASE Len(route') < MaxHops
      BY <1>0, <1>7, <2>1, <2>2
    <2>3. CASE ~(Len(route') < MaxHops)
      BY <1>0, <2>1, <2>3, FS_EmptySet
    <2> QED BY <2>2, <2>3
  <1>9. IsFiniteSet(Worked') /\ Cardinality(Worked') \in Nat
        /\ Cardinality(todo') \in Nat
    <2>1. IsFiniteSet(Worked') /\ IsFiniteSet(todo')
      <3>1. Eligible' \X BOOLEAN = Eligible \X BOOLEAN
        BY <1>0
      <3>2. Worked' \in SUBSET (Eligible \X BOOLEAN)
        BY <1>0 DEF Worked
      <3>3. IsFiniteSet(todo')
        BY <1>0, <1>6, FS_EmptySet
      <3> QED BY <3>2, <3>3, EligibleIsFinite, FS_Subset
    <2> QED BY <2>1, FS_CardinalityType
  <1> HIDE DEF more
  <1>10. IsFiniteSet(Worked) /\ Cardinality(Worked) \in Nat /\ Cardinality(more) \in Nat
    BY <1>7, EligibleIsFinite, FS_CardinalityType
  <1>11. Cardinality(Worked \cup more) = Cardinality(Worked) + Cardinality(more)
    <2>1. Cardinality(Worked \cap more) = 0
      BY <1>5, FS_EmptySet
    <2>2. Cardinality(Worked \cup more)
            = Cardinality(Worked) + Cardinality(more) - Cardinality(Worked \cap more)
      BY <1>7, <1>10, FS_Union
    <2> QED BY <1>10, <2>1, <2>2
  <1>12. Cardinality(Worked \cup more) <= Cardinality(Worked')
    <2>1. Worked \cup more \in SUBSET Worked'
      BY <1>3, <1>4
    <2> QED BY <1>9, <2>1, FS_Subset
  <1> QED BY <1>8, <1>9, <1>10, <1>11, <1>12

LEMMA InitWork == Init => WorkInv
  <1> SUFFICES ASSUME Init PROVE WorkInv
    OBVIOUS
  <1>1. BreadthInv /\ explored = 0 /\ todo = {}
    BY InitBreadth DEF Init
  <1>2. Cardinality(todo) = 0
    BY <1>1, FS_EmptySet
  <1>3. Cardinality(Worked) \in Nat
    BY <1>1, EligibleIsFinite DEF BreadthInv
  <1> QED BY <1>1, <1>2, <1>3 DEF WorkInv

LEMMA NextWork == WorkInv /\ [Next]_vars => WorkInv'
  <1> SUFFICES ASSUME WorkInv, [Next]_vars PROVE WorkInv'
    OBVIOUS
  <1>0. /\ BreadthInv /\ BreadthInv' /\ SearchInv /\ SearchInv'
        /\ explored + Cardinality(todo) <= Cardinality(Worked)
        /\ phase = "start" => explored = 0
    BY NextBreadth DEF WorkInv, BreadthInv
  <1>1. /\ IsFiniteSet(todo) /\ Cardinality(todo) \in Nat /\ explored \in Nat
        /\ Cardinality(Worked) \in Nat
    BY <1>0, EligibleIsFinite
  <1>2. CASE Start
    <2>1. explored' = 0 /\ todo' = {} /\ phase' # "start"
      BY <1>0, <1>2 DEF Start, BreadthInv
    <2>2. IsFiniteSet(Worked)' /\ (Cardinality(Worked) \in Nat)'
      BY <1>0, EligibleIsFinite, PTL
    <2> QED BY <1>0, <2>1, <2>2, FS_EmptySet DEF WorkInv
  <1>3. CASE Pop
    <2>1. QueueInv /\ explored' = explored /\ todo = {} /\ phase' # "start"
      BY <1>0, <1>3 DEF Pop, BreadthInv
    <2>2. Cardinality(Worked) + Cardinality(todo') <= Cardinality(Worked')
      BY <1>0, <1>3, <2>1, PopBringsWork
    <2>3. (Cardinality(todo) \in Nat)' /\ (Cardinality(Worked) \in Nat)'
      BY <1>0, EligibleIsFinite, PTL
    <2>4. Cardinality(todo) = 0
      BY <2>1, FS_EmptySet
    <2> QED BY <1>0, <1>1, <2>1, <2>2, <2>3, <2>4 DEF WorkInv
  <1>4. ASSUME NEW c \in todo, todo' = todo \ {c}, explored' = explored + 1,
               Worked' = Worked, phase' # "start"
        PROVE  WorkInv'
    <2>1. Cardinality(todo') = Cardinality(todo) - 1
      BY <1>1, <1>4, FS_RemoveElement
    <2> QED BY <1>0, <1>1, <1>4, <2>1 DEF WorkInv
  <1>5. ASSUME NEW c \in todo, FollowCycle(c) PROVE WorkInv'
    <2>1. /\ todo' = todo \ {c} /\ explored' = explored + 1 /\ phase' # "start"
          /\ calls' = calls /\ queue' = queue /\ visited' = visited
      BY <1>5 DEF FollowCycle
    <2>2. Worked' = Worked
      BY <2>1, SameCalls DEF Worked, Queued
    <2> QED BY <1>4, <2>1, <2>2
  <1>6. ASSUME NEW c \in todo, Follow(c) PROVE WorkInv'
    <2>1. /\ todo' = todo \ {c} /\ explored' = explored + 1 /\ phase' # "start"
          /\ calls' = calls /\ QueueInv
      BY <1>0, <1>6 DEF Follow, BreadthInv
    <2>2. visited' \ Queued' = visited \ Queued
      BY <1>0, <1>6, <2>1, FollowQueued
    <2>3. Worked' = Worked
      BY <2>1, <2>2, SameCalls DEF Worked
    <2> QED BY <1>4, <2>1, <2>3
  <1>7. ASSUME calls' = calls, queue' = queue, visited' = visited, todo' = todo,
               explored' = explored, phase' = "start" => phase = "start"
        PROVE  WorkInv'
    <2>1. Worked' = Worked
      BY <1>7, SameCalls DEF Worked, Queued
    <2> QED BY <1>0, <1>7, <2>1 DEF WorkInv
  <1>8. CASE EndSearch \/ Return \/ Terminated \/ UNCHANGED vars
    BY <1>7, <1>8 DEF EndSearch, Return, Terminated, vars
  <1>9. ASSUME NEW m \in Methods, NEW exact \in BOOLEAN, UseRow(m, exact) PROVE WorkInv'
    BY <1>7, <1>9 DEF UseRow
  <1> QED BY <1>2, <1>3, <1>5, <1>6, <1>8, <1>9 DEF Next

\* A call is followed at most once for each confidence its caller was queued
\* with: the work is linear in the size of the call graph, however many routes
\* it has (the loop of materialize_call_graph_flows).
THEOREM SearchIsLinear == Spec => []WorkIsLinear
  <1>1. WorkInv => WorkIsLinear
    <2> SUFFICES ASSUME WorkInv PROVE WorkIsLinear
      OBVIOUS
    <2> DEFINE all == {w \in Eligible \X BOOLEAN : <<w[1].from, w[2]>> \in visited}
    <2>1. SearchInv
      BY DEF WorkInv, BreadthInv
    <2>2. Worked \in SUBSET all /\ all \in SUBSET (Eligible \X BOOLEAN)
      BY DEF Worked
    <2> HIDE DEF all
    <2>3. IsFiniteSet(all) /\ Cardinality(all) \in Nat
      BY <2>1, <2>2, EligibleIsFinite, FS_Subset, FS_CardinalityType
    <2>4. Cardinality(Worked) <= Cardinality(all)
      BY <2>2, <2>3, FS_Subset
    <2>5. explored <= Cardinality(all)
      BY <2>1, <2>3, <2>4, EligibleIsFinite DEF WorkInv
    <2> QED BY <2>5 DEF WorkIsLinear, all
  <1> QED BY <1>1, InitWork, NextWork, PTL DEF Spec
=============================================================================
