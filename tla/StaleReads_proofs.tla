-------------------------- MODULE StaleReads_proofs --------------------------
(***************************************************************************)
(* Theorems about the stale-read diagnostic for every program it decides,  *)
(* whatever the number of its handlers, calls and publications.            *)
(***************************************************************************)
EXTENDS StaleReads, TLAPS, FiniteSetTheorems, WellFoundedInduction

-----------------------------------------------------------------------------
(* Programs                                                                *)

\* A set of naturals that is not empty has a least member.
LEMMA LeastNumber ==
  ASSUME NEW S \in SUBSET Nat, S # {}
  PROVE  \E n \in S : \A m \in S : n <= m
  <1> DEFINE less == {ss \in Nat \X Nat : ss[1] < ss[2]}
  <1>1. IsWellFoundedOn(less, Nat)
    BY NatLessThanWellFounded DEF OpToRel
  <1>2. PICK n \in S : \A m \in S : ~(<<m, n>> \in less)
    BY <1>1, WFMin
  <1>3. ASSUME NEW m \in S, m < n PROVE FALSE
    BY <1>2, <1>3
  <1> QED BY <1>3

\* The last handler.
Depth(p) == Cardinality(Handlers(p)) - 1

LEMMA HandlersAreNumbered ==
  ASSUME NEW p, Decided(p)
  PROVE  Depth(p) \in Nat /\ Handlers(p) = 0..Depth(p)
  <1>1. Handlers(p) = 0..Depth(p)
    BY DEF Decided, IsTree, Depth
  <1>2. 0 \in Handlers(p)
    BY DEF Handlers
  <1>3. IsFiniteSet(Handlers(p))
    <2> DEFINE f == [d \in Departures(p) |-> d.to]
    <2>1. IsFiniteSet(Departures(p))
      BY FS_Subset DEF Decided, OnePair, Departures
    <2>2. f \in Surjection(Departures(p), {d.to : d \in Departures(p)})
      BY DEF Surjection
    <2>3. IsFiniteSet({d.to : d \in Departures(p)})
      BY <2>1, <2>2, FS_Surjection
    <2> QED BY <2>3, FS_Singleton, FS_Union DEF Handlers
  <1>4. Depth(p) \in Int
    BY <1>3, FS_CardinalityType DEF Depth
  <1> QED BY <1>1, <1>2, <1>4

\* The one departure into each handler.
LEMMA OneWayIn ==
  ASSUME NEW p, Decided(p)
  PROVE  /\ \A h \in 1..Depth(p) : \E d \in Departures(p) : d.to = h /\ d.at < h
         /\ \A d \in Departures(p) : /\ d.to \in 1..Depth(p) /\ d.at \in 0..Depth(p)
                                     /\ d.at < d.to
         /\ \A d, e \in Departures(p) : d.to = e.to => d = e
  <1>1. Depth(p) \in Nat /\ Handlers(p) = 0..Depth(p)
    BY HandlersAreNumbered
  <1>2. \A h \in 1..Depth(p) : \E d \in Departures(p) :
           d.at < h /\ \A x \in Departures(p) : x.to = h <=> x = d
    BY DEF Decided, IsTree, Depth
  <1>3. \A d \in Departures(p) : d.to \in 1..Depth(p)
    BY <1>1 DEF Decided, IsTree, Handlers
  <1>4. \A d \in Departures(p) : d.at \in 0..Depth(p)
    BY DEF Decided, IsTree, Depth, Departures
  <1> QED BY <1>2, <1>3, <1>4

LEMMA SitesAreTyped ==
  ASSUME NEW p, Decided(p), NEW s \in p.sites
  PROVE  /\ s.at \in 0..Depth(p) /\ s.inner \in Nat
         /\ Line(s) \in Nat /\ s.lines = {Line(s)}
  <1>1. PICK l \in s.lines : l \in Nat /\ s.lines = {l}
    BY DEF Decided, IsTree
  <1>2. Line(s) = l
    BY <1>1 DEF Line, Min
  <1> QED BY <1>1, <1>2 DEF Decided, IsTree, Depth

LEMMA ThePair ==
  ASSUME NEW p, Decided(p)
  PROVE  /\ TheWrite(p) \in p.sites /\ TheRead(p) \in p.sites
         /\ \A s \in p.sites : s.does = "write" <=> s = TheWrite(p)
         /\ \A s \in p.sites : s.does = "read" <=> s = TheRead(p)
         /\ TheWrite(p) # TheRead(p)
         /\ TheWrite(p) \notin Departures(p) /\ TheRead(p) \notin Departures(p)
  <1>1. /\ \E s \in p.sites : \A x \in p.sites : x.does = "write" <=> x = s
        /\ \E s \in p.sites : \A x \in p.sites : x.does = "read" <=> x = s
    BY DEF Decided, OnePair
  <1> QED BY <1>1 DEF TheWrite, TheRead, Departures

-----------------------------------------------------------------------------
(* Routes                                                                  *)

LEMMA RouteForm ==
  ASSUME NEW p, Decided(p), NEW r
  PROVE  r \in Routes(p, Departures(p)) <=>
           \E m \in 0..Depth(p) :
              /\ r \in [1..m -> Departures(p)]
              /\ \A i \in 1..m : r[i].at = IF i = 1 THEN 0 ELSE r[i - 1].to
  BY DEF Routes, BoundedSeq, SeqOf, Depth

LEMMA EndOf ==
  ASSUME NEW S, NEW m \in Nat, NEW r \in [1..m -> S]
  PROVE  /\ Len(r) = m /\ DOMAIN r = 1..m
         /\ End(r) = IF m = 0 THEN 0 ELSE r[m].to
  <1>1. r \in Seq(S) /\ Len(r) = m
    OBVIOUS
  <1>2. r = <<>> <=> m = 0
    BY <1>1
  <1> QED BY <1>1, <1>2 DEF End, Last

LEMMA RouteFacts ==
  ASSUME NEW p, Decided(p), NEW r \in Routes(p, Departures(p))
  PROVE  /\ r \in Seq(Departures(p)) /\ Len(r) \in 0..Depth(p)
         /\ r \in [1..Len(r) -> Departures(p)]
         /\ \A i \in 1..Len(r) : r[i].at = IF i = 1 THEN 0 ELSE r[i - 1].to
         /\ End(r) = IF Len(r) = 0 THEN 0 ELSE r[Len(r)].to
         /\ End(r) \in 0..Depth(p)
  <1>1. PICK m \in 0..Depth(p) :
              /\ r \in [1..m -> Departures(p)]
              /\ \A i \in 1..m : r[i].at = IF i = 1 THEN 0 ELSE r[i - 1].to
    BY RouteForm
  <1>2. Depth(p) \in Nat
    BY HandlersAreNumbered
  <1>3. /\ Len(r) = m /\ End(r) = IF m = 0 THEN 0 ELSE r[m].to
    <2>1. m \in Nat /\ r \in [1..m -> Departures(p)]
      BY <1>1, <1>2
    <2> QED BY ONLY <2>1, EndOf
  <1>4. r \in Seq(Departures(p))
    BY <1>1, <1>2
  <1>5. End(r) \in 0..Depth(p)
    BY <1>1, <1>2, <1>3, OneWayIn
  <1> QED BY <1>1, <1>3, <1>4, <1>5

\* A route stops anywhere on its way.
LEMMA PrefixIsRoute ==
  ASSUME NEW p, Decided(p), NEW r \in Routes(p, Departures(p)), NEW n \in 0..Len(r)
  PROVE  /\ SubSeq(r, 1, n) \in Routes(p, Departures(p))
         /\ Len(SubSeq(r, 1, n)) = n
         /\ \A i \in 1..n : SubSeq(r, 1, n)[i] = r[i]
         /\ End(SubSeq(r, 1, n)) = IF n = 0 THEN 0 ELSE r[n].to
  <1> DEFINE q == SubSeq(r, 1, n)
  <1>1. /\ r \in Seq(Departures(p)) /\ Len(r) \in 0..Depth(p) /\ Depth(p) \in Nat
        /\ r \in [1..Len(r) -> Departures(p)]
        /\ \A i \in 1..Len(r) : r[i].at = IF i = 1 THEN 0 ELSE r[i - 1].to
    BY RouteFacts, HandlersAreNumbered
  <1>2. q \in [1..n -> Departures(p)] /\ \A i \in 1..n : q[i] = r[i]
    <2>1. q = [i \in 1..n |-> r[i]]
      BY <1>1
    <2>2. \A i \in 1..n : r[i] \in Departures(p)
      BY <1>1
    <2> HIDE DEF q
    <2> QED BY <2>1, <2>2
  <1>3. \A i \in 1..n : q[i].at = IF i = 1 THEN 0 ELSE q[i - 1].to
    BY <1>1, <1>2
  <1>4. n \in 0..Depth(p)
    BY <1>1
  <1> HIDE DEF q
  <1>5. q \in Routes(p, Departures(p))
    BY <1>2, <1>3, <1>4, RouteForm
  <1>6. Len(q) = n /\ End(q) = IF n = 0 THEN 0 ELSE q[n].to
    <2>1. n \in Nat /\ q \in [1..n -> Departures(p)]
      BY <1>1, <1>2
    <2> QED BY ONLY <2>1, EndOf
  <1>7. q \in Routes(p, Departures(p)) /\ Len(q) = n
        /\ (\A i \in 1..n : q[i] = r[i]) /\ End(q) = IF n = 0 THEN 0 ELSE r[n].to
    BY <1>1, <1>2, <1>5, <1>6
  <1> QED BY <1>7 DEF q

LEMMA RouteExists ==
  ASSUME NEW p, Decided(p), NEW h \in 0..Depth(p)
  PROVE  \E r \in Routes(p, Departures(p)) : End(r) = h
  <1> DEFINE Reached(k) == \E r \in Routes(p, Departures(p)) : End(r) = k /\ Len(r) <= k
             Bad == {k \in 0..Depth(p) : ~Reached(k)}
  <1>1. Depth(p) \in Nat
    BY HandlersAreNumbered
  <1>2. SUFFICES Bad = {}
    OBVIOUS
  <1>3. SUFFICES ASSUME Bad # {} PROVE FALSE
    OBVIOUS
  <1>4. PICK k \in Bad : \A m \in Bad : k <= m
    <2>1. Bad \in SUBSET Nat
      BY <1>1
    <2> HIDE DEF Bad
    <2> QED BY <1>3, <2>1, LeastNumber
  <1>5. CASE k = 0
    <2> DEFINE r == [i \in 1..0 |-> p]
    <2>1. r \in [1..0 -> Departures(p)] /\ 0 \in 0..Depth(p) /\ 0 \in Nat
      BY <1>1
    <2>2. Len(r) = 0 /\ End(r) = 0
      <3> HIDE DEF r
      <3> QED BY <2>1, EndOf
    <2>3. r \in Routes(p, Departures(p))
      <3> HIDE DEF r
      <3>1. \A i \in 1..0 : r[i].at = IF i = 1 THEN 0 ELSE r[i - 1].to
        OBVIOUS
      <3> QED BY <2>1, <3>1, RouteForm
    <2> HIDE DEF r
    <2> QED BY <1>5, <2>2, <2>3
  <1>6. CASE k # 0
    <2>1. PICK d \in Departures(p) : d.to = k /\ d.at < k
      BY <1>1, <1>6, OneWayIn
    <2>2. d.at \in 0..Depth(p)
      BY OneWayIn
    <2>3. Reached(d.at)
      BY <1>1, <1>4, <2>1, <2>2
    <2>4. PICK q \in Routes(p, Departures(p)) : End(q) = d.at /\ Len(q) <= d.at
      BY <2>3
    <2>5. /\ q \in [1..Len(q) -> Departures(p)] /\ Len(q) \in 0..Depth(p)
          /\ \A i \in 1..Len(q) : q[i].at = IF i = 1 THEN 0 ELSE q[i - 1].to
          /\ End(q) = IF Len(q) = 0 THEN 0 ELSE q[Len(q)].to
      BY <2>4, RouteFacts
    <2> DEFINE n == Len(q) + 1
               r == [i \in 1..n |-> IF i = n THEN d ELSE q[i]]
    <2>6. n \in Nat /\ n \in 0..Depth(p) /\ n <= k
      BY <1>1, <2>1, <2>2, <2>4, <2>5
    <2>7. r \in [1..n -> Departures(p)] /\ r[n] = d /\ \A i \in 1..n - 1 : r[i] = q[i]
      BY <2>5
    <2> HIDE DEF r
    <2>8. \A i \in 1..n : r[i].at = IF i = 1 THEN 0 ELSE r[i - 1].to
      <3> TAKE i \in 1..n
      <3>1. CASE i = n
        <4>1. CASE Len(q) = 0
          <5>1. i = 1 /\ r[i] = d
            BY <2>7, <3>1, <4>1
          <5>2. d.at = 0
            BY <2>4, <2>5, <4>1
          <5> QED BY <5>1, <5>2
        <4>2. CASE Len(q) # 0
          <5>1. Len(q) \in 1..n - 1 /\ i # 1 /\ i - 1 = Len(q)
            BY <2>5, <3>1, <4>2
          <5>2. r[i - 1] = q[Len(q)] /\ r[i] = d
            BY <2>7, <3>1, <5>1
          <5>3. d.at = q[Len(q)].to
            BY <2>4, <2>5, <4>2
          <5> QED BY <5>1, <5>2, <5>3
        <4> QED BY <4>1, <4>2
      <3>2. CASE i # n
        BY <2>5, <2>7, <3>2
      <3> QED BY <3>1, <3>2
    <2> HIDE DEF n
    <2>9. r \in Routes(p, Departures(p))
      BY <2>6, <2>7, <2>8, RouteForm
    <2>10. Len(r) = n /\ End(r) = IF n = 0 THEN 0 ELSE r[n].to
      <3>1. n \in Nat /\ r \in [1..n -> Departures(p)]
        BY <2>6, <2>7
      <3> QED BY ONLY <3>1, EndOf
    <2>11. n # 0
      BY <2>5 DEF n
    <2> QED BY <2>1, <2>6, <2>7, <2>9, <2>10, <2>11
  <1> QED BY <1>5, <1>6

\* A tree has one route to each handler.
LEMMA RouteUnique ==
  ASSUME NEW p, Decided(p),
         NEW r \in Routes(p, Departures(p)), NEW q \in Routes(p, Departures(p)),
         End(r) = End(q)
  PROVE  r = q
  <1> DEFINE Two(k) == \E a, b \in Routes(p, Departures(p)) :
                          End(a) = k /\ End(b) = k /\ a # b
             Bad == {k \in 0..Depth(p) : Two(k)}
  <1>1. Depth(p) \in Nat
    BY HandlersAreNumbered
  <1>2. SUFFICES Bad = {}
    <2>1. End(r) \in 0..Depth(p)
      BY RouteFacts
    <2> QED BY <2>1
  <1>3. SUFFICES ASSUME Bad # {} PROVE FALSE
    OBVIOUS
  <1>4. PICK k \in Bad : \A m \in Bad : k <= m
    <2>1. Bad \in SUBSET Nat
      BY <1>1
    <2> HIDE DEF Bad
    <2> QED BY <1>3, <2>1, LeastNumber
  <1>5. PICK a, b \in Routes(p, Departures(p)) : End(a) = k /\ End(b) = k /\ a # b
    OBVIOUS
  <1>6. /\ a \in [1..Len(a) -> Departures(p)] /\ Len(a) \in 0..Depth(p)
        /\ \A i \in 1..Len(a) : a[i].at = IF i = 1 THEN 0 ELSE a[i - 1].to
        /\ End(a) = IF Len(a) = 0 THEN 0 ELSE a[Len(a)].to
    BY RouteFacts
  <1>7. /\ b \in [1..Len(b) -> Departures(p)] /\ Len(b) \in 0..Depth(p)
        /\ \A i \in 1..Len(b) : b[i].at = IF i = 1 THEN 0 ELSE b[i - 1].to
        /\ End(b) = IF Len(b) = 0 THEN 0 ELSE b[Len(b)].to
    BY RouteFacts
  <1>8. CASE k = 0
    <2>1. Len(a) = 0 /\ Len(b) = 0
      <3>1. \A d \in Departures(p) : d.to # 0
        BY <1>1, OneWayIn
      <3>2. Len(a) # 0 => a[Len(a)] \in Departures(p)
        BY <1>1, <1>6
      <3>3. Len(b) # 0 => b[Len(b)] \in Departures(p)
        BY <1>1, <1>7
      <3> QED BY <1>5, <1>6, <1>7, <1>8, <3>1, <3>2, <3>3
    <2>2. a = [i \in 1..0 |-> a[i]] /\ b = [i \in 1..0 |-> b[i]]
      BY <1>6, <1>7, <2>1
    <2>3. a = b
      BY ONLY <2>2
    <2> QED BY <1>5, <2>3
  <1>9. CASE k # 0
    <2> DEFINE m == Len(a) - 1
               n == Len(b) - 1
    <2>1. m \in 0..Len(a) /\ n \in 0..Len(b) /\ Len(a) # 0 /\ Len(b) # 0
      BY <1>1, <1>5, <1>6, <1>7, <1>9
    <2>2. a[Len(a)] \in Departures(p) /\ a[Len(a)] = b[Len(b)] /\ a[Len(a)].to = k
      BY <1>1, <1>5, <1>6, <1>7, <2>1, OneWayIn
    <2> DEFINE d == a[Len(a)]
               a1 == SubSeq(a, 1, m)
               b1 == SubSeq(b, 1, n)
    <2>3. d.at \in 0..Depth(p) /\ d.at < k
      BY <2>2, OneWayIn
    <2>4. /\ a1 \in Routes(p, Departures(p)) /\ Len(a1) = m
          /\ \A i \in 1..m : a1[i] = a[i]
          /\ End(a1) = IF m = 0 THEN 0 ELSE a[m].to
      BY <2>1, PrefixIsRoute
    <2>5. /\ b1 \in Routes(p, Departures(p)) /\ Len(b1) = n
          /\ \A i \in 1..n : b1[i] = b[i]
          /\ End(b1) = IF n = 0 THEN 0 ELSE b[n].to
      BY <2>1, PrefixIsRoute
    <2> HIDE DEF a1, b1
    <2>6. End(a1) = d.at /\ End(b1) = d.at
      <3>1. d.at = IF Len(a) = 1 THEN 0 ELSE a[m].to
        <4>1. Len(a) \in 1..Len(a)
          BY <1>1, <1>6, <2>1
        <4> QED BY <1>6, <4>1
      <3>2. d.at = IF Len(b) = 1 THEN 0 ELSE b[n].to
        <4>1. Len(b) \in 1..Len(b)
          BY <1>1, <1>7, <2>1
        <4> QED BY <1>7, <2>2, <4>1
      <3>3. (Len(a) = 1 <=> m = 0) /\ (Len(b) = 1 <=> n = 0)
        BY <1>1, <1>6, <1>7
      <3> QED BY <2>4, <2>5, <3>1, <3>2, <3>3
    <2>7. a1 = b1
      BY <1>1, <1>4, <2>3, <2>4, <2>5, <2>6
    <2>8. m = n /\ \A i \in 1..m : a[i] = b[i]
      BY <2>4, <2>5, <2>7
    <2>9. Len(a) = Len(b) /\ \A i \in 1..Len(a) : a[i] = b[i]
      <3>1. Len(a) \in Nat /\ Len(b) \in Nat
        BY <1>1, <1>6, <1>7
      <3>2. Len(a) = Len(b)
        BY <2>8, <3>1
      <3>3. \A i \in 1..Len(a) : i \in 1..m \/ i = Len(a)
        BY <3>1
      <3> QED BY <2>2, <2>8, <3>2, <3>3
    <2>10. a = [i \in 1..Len(a) |-> a[i]] /\ b = [i \in 1..Len(a) |-> b[i]]
      BY <1>6, <1>7, <2>9
    <2>11. a = b
      BY <2>9, <2>10
    <2> QED BY <1>5, <2>11
  <1> QED BY <1>8, <1>9

RouteTo(p, h) == CHOOSE r \in Routes(p, Departures(p)) : End(r) = h

LEMMA TheRoute ==
  ASSUME NEW p, Decided(p), NEW h \in 0..Depth(p)
  PROVE  /\ RouteTo(p, h) \in Routes(p, Departures(p)) /\ End(RouteTo(p, h)) = h
         /\ \A r \in Routes(p, Departures(p)) : End(r) = h => r = RouteTo(p, h)
  <1>1. RouteTo(p, h) \in Routes(p, Departures(p)) /\ End(RouteTo(p, h)) = h
    BY RouteExists DEF RouteTo
  <1> QED BY <1>1, RouteUnique

-----------------------------------------------------------------------------
(* The chains of the write and of the read                                 *)

LEMMA SharedIsPrefix ==
  ASSUME NEW S, NEW a \in Seq(S), NEW b \in Seq(S)
  PROVE  /\ Shared(a, b) \in 0..Len(a) /\ Shared(a, b) <= Len(b)
         /\ \A i \in 1..Shared(a, b) : a[i] = b[i]
         /\ \/ Shared(a, b) = Len(a) \/ Shared(a, b) = Len(b)
            \/ a[Shared(a, b) + 1] # b[Shared(a, b) + 1]
  <1> DEFINE Apart(n) == n = Len(a) \/ n = Len(b) \/ a[n + 1] # b[n + 1]
             Stops == {n \in Nat : Apart(n)}
  <1>1. Len(a) \in Nat /\ Len(b) \in Nat
    OBVIOUS
  <1>2. Stops \in SUBSET Nat /\ Len(a) \in Stops /\ Len(b) \in Stops
    BY <1>1
  <1>3. PICK n \in Stops : \A m \in Stops : n <= m
    <2> HIDE DEF Stops
    <2> QED BY <1>2, LeastNumber
  <1>4. n \in 0..Len(a) /\ n <= Len(b) /\ Apart(n)
    BY <1>1, <1>2, <1>3
  <1>5. \A i \in 1..n : i <= Len(b) /\ a[i] = b[i]
    <2> TAKE i \in 1..n
    <2>1. i - 1 \in Nat /\ i - 1 \notin Stops
      <3>1. n \in Nat /\ i \in 1..n
        BY <1>1, <1>4
      <3> HIDE DEF Stops
      <3>2. i - 1 \in Nat /\ ~(n <= i - 1)
        BY <3>1
      <3> QED BY <1>3, <3>2
    <2>2. ~Apart(i - 1)
      BY <2>1
    <2> QED BY <1>1, <1>4, <2>2
  <1>6. \E k \in 0..Len(a) : /\ Apart(k)
                             /\ \A i \in 1..k : i <= Len(b) /\ a[i] = b[i]
    BY <1>4, <1>5
  <1> DEFINE s == Shared(a, b)
  <1>7. s \in 0..Len(a) /\ Apart(s) /\ \A i \in 1..s : i <= Len(b) /\ a[i] = b[i]
    BY <1>6 DEF Shared
  <1>8. s <= Len(b)
    BY <1>1, <1>7
  <1> QED BY <1>7, <1>8

\* The departures that lead to an access, and the access.
Chain(p, s) == Append(RouteTo(p, s.at), s)
WriteChain(p) == Chain(p, TheWrite(p))
ReadChain(p) == Chain(p, TheRead(p))

\* Where the two chains part.
Fork(p) == Shared(RouteTo(p, TheWrite(p).at), RouteTo(p, TheRead(p).at)) + 1

IsChain(p, c) ==
    /\ c \in Seq(p.sites) /\ Len(c) \in Nat \ {0}
    /\ \A i \in 1..Len(c) : c[i] \in p.sites
    /\ \A i \in 1..Len(c) : c[i].at = IF i = 1 THEN 0 ELSE c[i - 1].to
    /\ \A i \in 1..Len(c) : i < Len(c) => c[i] \in Departures(p)
    /\ c[Len(c)] \notin Departures(p)

LEMMA ChainFacts ==
  ASSUME NEW p, Decided(p), NEW s \in p.sites, s \notin Departures(p)
  PROVE  /\ IsChain(p, Chain(p, s))
         /\ Len(Chain(p, s)) = Len(RouteTo(p, s.at)) + 1
         /\ Chain(p, s)[Len(Chain(p, s))] = s
         /\ \A i \in 1..Len(RouteTo(p, s.at)) : Chain(p, s)[i] = RouteTo(p, s.at)[i]
  <1> DEFINE r == RouteTo(p, s.at)
             c == Chain(p, s)
  <1>1. s.at \in 0..Depth(p)
    BY SitesAreTyped
  <1>2. r \in Routes(p, Departures(p)) /\ End(r) = s.at
    BY <1>1, TheRoute
  <1>3. /\ r \in Seq(Departures(p)) /\ Len(r) \in Nat
        /\ \A i \in 1..Len(r) : r[i] \in Departures(p)
        /\ \A i \in 1..Len(r) : r[i].at = IF i = 1 THEN 0 ELSE r[i - 1].to
        /\ End(r) = IF Len(r) = 0 THEN 0 ELSE r[Len(r)].to
    BY <1>2, RouteFacts
  <1>4. c = Append(r, s)
    BY DEF Chain
  <1>5. Departures(p) \in SUBSET p.sites
    BY DEF Departures
  <1>6. r \in Seq(p.sites)
    BY <1>3, <1>5
  <1> HIDE DEF r, c
  <1>7. c \in Seq(p.sites) /\ Len(c) = Len(r) + 1 /\ c[Len(r) + 1] = s
    BY <1>4, <1>6
  <1>8. \A i \in 1..Len(r) : c[i] = r[i]
    BY <1>4, <1>6
  <1>9. \A i \in 1..Len(c) : i \in 1..Len(r) \/ (i = Len(r) + 1 /\ i = Len(c))
    BY <1>3, <1>7
  <1>10. \A i \in 1..Len(c) : c[i].at = IF i = 1 THEN 0 ELSE c[i - 1].to
    <2> TAKE i \in 1..Len(c)
    <2>1. CASE i \in 1..Len(r)
      <3>1. i = 1 \/ i - 1 \in 1..Len(r)
        BY <1>3, <2>1
      <3> QED BY <1>3, <1>8, <2>1, <3>1
    <2>2. CASE i = Len(r) + 1
      <3>1. CASE Len(r) = 0
        <4>1. i = 1 /\ c[i] = s
          BY <1>7, <2>2, <3>1
        <4> QED BY <1>2, <1>3, <3>1, <4>1
      <3>2. CASE Len(r) # 0
        <4>1. i # 1 /\ i - 1 = Len(r) /\ Len(r) \in 1..Len(r) /\ c[i] = s
          BY <1>3, <1>7, <2>2, <3>2
        <4> QED BY <1>2, <1>3, <1>8, <3>2, <4>1
      <3> QED BY <3>1, <3>2
    <2> QED BY <1>9, <2>1, <2>2
  <1>11. \A i \in 1..Len(c) : i < Len(c) => c[i] \in Departures(p)
    BY <1>3, <1>7, <1>8, <1>9
  <1>12. \A i \in 1..Len(c) : c[i] \in p.sites
    BY <1>5, <1>7, <1>9, <1>11
  <1>13. Len(c) \in Nat \ {0}
    BY <1>3, <1>7
  <1>14. IsChain(p, c)
    BY <1>7, <1>10, <1>11, <1>12, <1>13 DEF IsChain
  <1> QED BY <1>7, <1>8, <1>14 DEF c, r

\* The chains agree up to the fork, and never again behind it.
LEMMA ChainsPart ==
  ASSUME NEW p, Decided(p)
  PROVE  /\ IsChain(p, WriteChain(p)) /\ IsChain(p, ReadChain(p))
         /\ WriteChain(p)[Len(WriteChain(p))] = TheWrite(p)
         /\ ReadChain(p)[Len(ReadChain(p))] = TheRead(p)
         /\ Fork(p) \in 1..Len(WriteChain(p)) /\ Fork(p) \in 1..Len(ReadChain(p))
         /\ \A i \in 1..Fork(p) - 1 : WriteChain(p)[i] = ReadChain(p)[i]
         /\ WriteChain(p)[Fork(p)] # ReadChain(p)[Fork(p)]
         /\ WriteChain(p)[Fork(p)].at = ReadChain(p)[Fork(p)].at
  <1> DEFINE w == TheWrite(p)
             r == TheRead(p)
             wr == RouteTo(p, w.at)
             rr == RouteTo(p, r.at)
             wc == WriteChain(p)
             rc == ReadChain(p)
             n == Shared(wr, rr)
  <1>1. /\ w \in p.sites /\ r \in p.sites /\ w # r
        /\ w \notin Departures(p) /\ r \notin Departures(p)
    BY ThePair
  <1>2. /\ IsChain(p, wc) /\ Len(wc) = Len(wr) + 1 /\ wc[Len(wc)] = w
        /\ \A i \in 1..Len(wr) : wc[i] = wr[i]
    BY <1>1, ChainFacts DEF WriteChain
  <1>3. /\ IsChain(p, rc) /\ Len(rc) = Len(rr) + 1 /\ rc[Len(rc)] = r
        /\ \A i \in 1..Len(rr) : rc[i] = rr[i]
    BY <1>1, ChainFacts DEF ReadChain
  <1>4. w.at \in 0..Depth(p) /\ r.at \in 0..Depth(p)
    BY <1>1, SitesAreTyped
  <1>5. wr \in Routes(p, Departures(p)) /\ rr \in Routes(p, Departures(p))
    BY <1>4, TheRoute
  <1>6. /\ wr \in Seq(Departures(p)) /\ Len(wr) \in Nat
        /\ \A i \in 1..Len(wr) : wr[i] \in Departures(p)
    BY <1>5, RouteFacts
  <1>7. /\ rr \in Seq(Departures(p)) /\ Len(rr) \in Nat
        /\ \A i \in 1..Len(rr) : rr[i] \in Departures(p)
    BY <1>5, RouteFacts
  <1>8. /\ n \in 0..Len(wr) /\ n <= Len(rr)
        /\ \A i \in 1..n : wr[i] = rr[i]
        /\ n = Len(wr) \/ n = Len(rr) \/ wr[n + 1] # rr[n + 1]
    BY <1>6, <1>7, SharedIsPrefix
  <1>9. Fork(p) = n + 1
    BY DEF Fork
  <1> HIDE DEF w, r, wr, rr, wc, rc, n
  <1>10. n + 1 \in 1..Len(wc) /\ n + 1 \in 1..Len(rc) /\ n \in Nat
    BY <1>2, <1>3, <1>6, <1>7, <1>8
  <1>11. \A i \in 1..n : wc[i] = rc[i]
    BY <1>2, <1>3, <1>6, <1>7, <1>8
  <1>12. wc[n + 1] # rc[n + 1]
    <2>1. CASE n = Len(wr)
      <3>1. wc[n + 1] = w
        BY <1>2, <2>1
      <3>2. CASE n = Len(rr)
        BY <1>1, <1>3, <3>1, <3>2
      <3>3. CASE n # Len(rr)
        <4>1. n + 1 \in 1..Len(rr)
          BY <1>7, <1>8, <1>10, <3>3
        <4> QED BY <1>1, <1>3, <1>7, <3>1, <4>1
      <3> QED BY <3>2, <3>3
    <2>2. CASE n # Len(wr)
      <3>1. n + 1 \in 1..Len(wr)
        BY <1>6, <1>8, <1>10, <2>2
      <3>2. wc[n + 1] = wr[n + 1] /\ wr[n + 1] \in Departures(p)
        BY <1>2, <1>6, <3>1
      <3>3. CASE n = Len(rr)
        BY <1>1, <1>3, <3>2, <3>3
      <3>4. CASE n # Len(rr)
        <4>1. n + 1 \in 1..Len(rr)
          BY <1>7, <1>8, <1>10, <3>4
        <4> QED BY <1>3, <1>8, <2>2, <3>2, <3>4, <4>1
      <3> QED BY <3>3, <3>4
    <2> QED BY <2>1, <2>2
  <1>13. wc[n + 1].at = rc[n + 1].at
    <2>1. /\ wc[n + 1].at = IF n + 1 = 1 THEN 0 ELSE wc[n + 1 - 1].to
          /\ rc[n + 1].at = IF n + 1 = 1 THEN 0 ELSE rc[n + 1 - 1].to
      <3>1. \A c : IsChain(p, c) => \A i \in 1..Len(c) :
                      c[i].at = IF i = 1 THEN 0 ELSE c[i - 1].to
        BY DEF IsChain
      <3> HIDE DEF IsChain
      <3>2. \A i \in 1..Len(wc) : wc[i].at = IF i = 1 THEN 0 ELSE wc[i - 1].to
        BY <1>2, <3>1
      <3>3. \A i \in 1..Len(rc) : rc[i].at = IF i = 1 THEN 0 ELSE rc[i - 1].to
        BY <1>3, <3>1
      <3> QED BY <1>10, <3>2, <3>3
    <2>2. n + 1 - 1 = n /\ (n = 0 \/ n \in 1..n)
      BY <1>10
    <2> QED BY <1>10, <1>11, <2>1, <2>2
  <1>14. n + 1 - 1 = n
    BY <1>10
  <1>15. /\ IsChain(p, wc) /\ IsChain(p, rc)
         /\ wc[Len(wc)] = w /\ rc[Len(rc)] = r
         /\ Fork(p) \in 1..Len(wc) /\ Fork(p) \in 1..Len(rc)
         /\ \A i \in 1..Fork(p) - 1 : wc[i] = rc[i]
         /\ wc[Fork(p)] # rc[Fork(p)]
         /\ wc[Fork(p)].at = rc[Fork(p)].at
    BY <1>2, <1>3, <1>9, <1>10, <1>11, <1>12, <1>13, <1>14
  <1> QED BY <1>15 DEF w, r, wc, rc

LEMMA ChainsStayApart ==
  ASSUME NEW p, Decided(p),
         NEW i \in 1..Len(WriteChain(p)), NEW j \in 1..Len(ReadChain(p)),
         Fork(p) <= i, Fork(p) <= j
  PROVE  WriteChain(p)[i] # ReadChain(p)[j]
  <1> DEFINE w == TheWrite(p)
             r == TheRead(p)
             wr == RouteTo(p, w.at)
             rr == RouteTo(p, r.at)
             wc == WriteChain(p)
             rc == ReadChain(p)
             f == Fork(p)
  <1>1. SUFFICES ASSUME wc[i] = rc[j] PROVE FALSE
    OBVIOUS
  <1>2. /\ w \in p.sites /\ r \in p.sites /\ w # r
        /\ w \notin Departures(p) /\ r \notin Departures(p)
    BY ThePair
  <1>3. /\ IsChain(p, wc) /\ Len(wc) = Len(wr) + 1 /\ wc[Len(wc)] = w
        /\ \A k \in 1..Len(wr) : wc[k] = wr[k]
    BY <1>2, ChainFacts DEF WriteChain
  <1>4. /\ IsChain(p, rc) /\ Len(rc) = Len(rr) + 1 /\ rc[Len(rc)] = r
        /\ \A k \in 1..Len(rr) : rc[k] = rr[k]
    BY <1>2, ChainFacts DEF ReadChain
  <1>5. /\ f \in 1..Len(wc) /\ f \in 1..Len(rc) /\ wc[f] # rc[f]
    BY ChainsPart
  <1>6. w.at \in 0..Depth(p) /\ r.at \in 0..Depth(p)
    BY <1>2, SitesAreTyped
  <1>7. wr \in Routes(p, Departures(p)) /\ rr \in Routes(p, Departures(p))
    BY <1>6, TheRoute
  <1>8. Len(wr) \in Nat /\ Len(rr) \in Nat
    BY <1>7, RouteFacts
  <1>9. /\ \A k \in 1..Len(wc) : k < Len(wc) => wc[k] \in Departures(p)
        /\ \A k \in 1..Len(rc) : k < Len(rc) => rc[k] \in Departures(p)
    BY <1>3, <1>4 DEF IsChain
  <1>10. i \in 1..Len(wr) /\ j \in 1..Len(rr)
    <2> i \in 1..Len(wc) /\ j \in 1..Len(rc)
      OBVIOUS
    <2> HIDE DEF w, r, wr, rr, wc, rc, f
    <2>1. i < Len(wc) \/ i = Len(wc)
      BY <1>3, <1>8
    <2>2. j < Len(rc) \/ j = Len(rc)
      BY <1>4, <1>8
    <2>3. i < Len(wc) /\ j < Len(rc)
      BY <1>1, <1>2, <1>3, <1>4, <1>9, <2>1, <2>2
    <2> QED BY <1>3, <1>4, <1>8, <2>3
  <1>11. /\ SubSeq(wr, 1, i) \in Routes(p, Departures(p)) /\ Len(SubSeq(wr, 1, i)) = i
         /\ \A k \in 1..i : SubSeq(wr, 1, i)[k] = wr[k]
         /\ End(SubSeq(wr, 1, i)) = IF i = 0 THEN 0 ELSE wr[i].to
    <2>1. i \in 0..Len(wr)
      BY <1>8, <1>10
    <2> QED BY <1>7, <2>1, PrefixIsRoute
  <1>12. /\ SubSeq(rr, 1, j) \in Routes(p, Departures(p)) /\ Len(SubSeq(rr, 1, j)) = j
         /\ \A k \in 1..j : SubSeq(rr, 1, j)[k] = rr[k]
         /\ End(SubSeq(rr, 1, j)) = IF j = 0 THEN 0 ELSE rr[j].to
    <2>1. j \in 0..Len(rr)
      BY <1>8, <1>10
    <2> QED BY <1>7, <2>1, PrefixIsRoute
  <1> DEFINE a == SubSeq(wr, 1, i)
             b == SubSeq(rr, 1, j)
  <1> HIDE DEF w, r, wr, rr, wc, rc, f, a, b
  <1>13. wr[i] = rr[j]
    BY <1>1, <1>3, <1>4, <1>10
  <1>14. End(a) = End(b)
    <2>1. i # 0 /\ j # 0
      BY <1>8, <1>10
    <2> QED BY <1>11, <1>12, <1>13, <2>1 DEF a, b
  <1>15. a = b
    BY <1>11, <1>12, <1>14, RouteUnique DEF a, b
  <1>16. f \in 1..i /\ f \in 1..j /\ f \in 1..Len(wr) /\ f \in 1..Len(rr)
    <2>1. f <= i /\ f <= j
      BY DEF f
    <2> QED BY <1>5, <1>8, <1>10, <2>1
  <1>17. a[f] = wr[f] /\ b[f] = rr[f]
    BY <1>11, <1>12, <1>16 DEF a, b
  <1>18. wc[f] = rc[f]
    BY <1>3, <1>4, <1>15, <1>16, <1>17
  <1> QED BY <1>5, <1>18

\* What starts a handler of a chain is the departure before it.
LEMMA ChainGoesOn ==
  ASSUME NEW p, Decided(p), NEW c, IsChain(p, c), NEW n \in 1..Len(c),
         NEW d \in Departures(p), c[n].at = d.to
  PROVE  n - 1 \in 1..Len(c) /\ c[n - 1] = d
  <1>1. /\ Len(c) \in Nat
        /\ c[n].at = IF n = 1 THEN 0 ELSE c[n - 1].to
        /\ \A i \in 1..Len(c) : i < Len(c) => c[i] \in Departures(p)
    BY DEF IsChain
  <1>2. d.to \in 1..Depth(p) /\ Depth(p) \in Nat
    BY OneWayIn, HandlersAreNumbered
  <1>3. n # 1 /\ c[n - 1].to = d.to
    BY <1>1, <1>2
  <1>4. n - 1 \in 1..Len(c) /\ n - 1 < Len(c)
    BY <1>1, <1>3
  <1>5. c[n - 1] \in Departures(p)
    BY <1>1, <1>4
  <1> QED BY <1>3, <1>4, <1>5, OneWayIn

-----------------------------------------------------------------------------
(* The order of two departures                                             *)

\* The place of a site.
PlaceOf(s) == [line |-> Line(s), inner |-> s.inner, site |-> s]

Own(p, h) == {s \in p.sites : s.at = h /\ s.inner = 0}

\* The effects of the method that come before an effect.
Ahead(p, s) == {x \in Own(p, s.at) : Line(x) < Line(s)}

Rank(p, s) == Cardinality(Ahead(p, s)) + 1

LEMMA RanksFollowLines ==
  ASSUME NEW p, Decided(p), NEW h
  PROVE  /\ IsFiniteSet(Own(p, h)) /\ Cardinality(Own(p, h)) \in Nat
         /\ \A s \in Own(p, h) : Rank(p, s) \in 1..Cardinality(Own(p, h))
         /\ \A a, b \in Own(p, h) : Line(a) < Line(b) => Rank(p, a) < Rank(p, b)
         /\ \A a, b \in Own(p, h) : Line(a) = Line(b) => a = b
  <1>1. IsFiniteSet(Own(p, h))
    BY FS_Subset DEF Decided, OnePair, Own
  <1>2. Cardinality(Own(p, h)) \in Nat
    BY <1>1, FS_CardinalityType
  <1>3. \A s \in Own(p, h) : Line(s) \in Nat /\ s.lines = {Line(s)} /\ s.at = h /\ s.inner = 0
    BY SitesAreTyped DEF Own
  <1>4. \A s \in Own(p, h) : /\ Ahead(p, s) \subseteq Own(p, h) /\ s \notin Ahead(p, s)
                             /\ IsFiniteSet(Ahead(p, s))
                             /\ Cardinality(Ahead(p, s)) \in Nat
    <2> TAKE s \in Own(p, h)
    <2>1. Ahead(p, s) \subseteq Own(p, h) /\ s \notin Ahead(p, s)
      BY <1>3 DEF Ahead
    <2> QED BY <1>1, <2>1, FS_Subset, FS_CardinalityType
  <1>5. \A s \in Own(p, h) : Rank(p, s) \in 1..Cardinality(Own(p, h))
    <2> TAKE s \in Own(p, h)
    <2>1. Cardinality(Ahead(p, s) \cup {s}) = Cardinality(Ahead(p, s)) + 1
      BY <1>4, FS_AddElement
    <2>2. Ahead(p, s) \cup {s} \subseteq Own(p, h)
      BY <1>4
    <2>3. Cardinality(Ahead(p, s) \cup {s}) <= Cardinality(Own(p, h))
      BY <1>1, <2>2, FS_Subset
    <2> QED BY <1>2, <1>4, <2>1, <2>3 DEF Rank
  <1>6. ASSUME NEW a \in Own(p, h), NEW b \in Own(p, h), Line(a) < Line(b)
        PROVE  Rank(p, a) < Rank(p, b)
    <2>1. Ahead(p, a) \cup {a} \subseteq Ahead(p, b)
      BY <1>3, <1>6 DEF Ahead
    <2>2. Cardinality(Ahead(p, a) \cup {a}) = Cardinality(Ahead(p, a)) + 1
      BY <1>4, FS_AddElement
    <2>3. Cardinality(Ahead(p, a) \cup {a}) <= Cardinality(Ahead(p, b))
      BY <1>4, <2>1, FS_Subset
    <2> QED BY <1>4, <2>2, <2>3 DEF Rank
  <1>7. \A a, b \in Own(p, h) : Line(a) = Line(b) => a = b
    BY <1>3 DEF Decided, Distinct, Own
  <1> QED BY <1>1, <1>2, <1>5, <1>6, <1>7

\* The flow of a method holds each of its effects at its rank.
LEMMA MethodFlowIsRanked ==
  ASSUME NEW p, Decided(p), NEW h
  PROVE  /\ DOMAIN MethodFlow(p, h) = 1..Cardinality(Own(p, h))
         /\ Len(MethodFlow(p, h)) = Cardinality(Own(p, h))
         /\ \A s \in Own(p, h) : MethodFlow(p, h)[Rank(p, s)] = Step(Line(s), s)
         /\ \A i \in 1..Cardinality(Own(p, h)) : \E s \in Own(p, h) :
              i = Rank(p, s) /\ MethodFlow(p, h)[i] = Step(Line(s), s)
  <1> DEFINE own == Own(p, h)
             N == Cardinality(own)
             Before(s) == {x \in own : \/ Min(x.lines) < Min(s.lines)
                                       \/ x.lines = s.lines /\ x.key < s.key}
             Nth(i) == CHOOSE s \in own : Cardinality(Before(s)) = i - 1
             mf == MethodFlow(p, h)
  <1>1. mf = [i \in 1..N |-> Step(Min(Nth(i).lines), Nth(i))]
    BY DEF MethodFlow, Own
  <1>2. /\ IsFiniteSet(own) /\ N \in Nat
        /\ \A s \in own : Rank(p, s) \in 1..N
        /\ \A a, b \in own : Line(a) < Line(b) => Rank(p, a) < Rank(p, b)
        /\ \A a, b \in own : Line(a) = Line(b) => a = b
    BY RanksFollowLines
  <1>3. \A s \in own : Line(s) \in Nat /\ s.lines = {Line(s)} /\ s.at = h
    BY SitesAreTyped DEF Own
  <1>4. ASSUME NEW s \in own PROVE Before(s) = Ahead(p, s)
    <2>1. Ahead(p, s) = {x \in own : Line(x) < Line(s)}
      BY <1>3 DEF Ahead
    <2>2. ASSUME NEW x \in own, x.lines = s.lines, x.key < s.key PROVE FALSE
      <3>1. Line(x) = Line(s)
        BY <2>2 DEF Line
      <3>2. x = s
        BY <1>2, <3>1
      <3>3. s.key \in Nat
        BY DEF Decided, IsTree, Own
      <3> QED BY <2>2, <3>2, <3>3
    <2> QED BY <2>1, <2>2 DEF Line
  <1>5. \A s \in own : Cardinality(Before(s)) = Rank(p, s) - 1
    <2>1. \A s \in own : Rank(p, s) \in Nat /\ Rank(p, s) = Cardinality(Ahead(p, s)) + 1
      BY <1>2 DEF Rank
    <2> HIDE DEF Before
    <2>2. \A s \in own : Cardinality(Ahead(p, s)) \in Nat
      <3> TAKE s \in own
      <3>1. Ahead(p, s) \subseteq own
        BY <1>3 DEF Ahead
      <3> QED BY <1>2, <3>1, FS_Subset, FS_CardinalityType
    <2> QED BY <1>4, <2>1, <2>2
  <1>6. \A a, b \in own : Rank(p, a) = Rank(p, b) => a = b
    <2> TAKE a, b \in own
    <2>1. Line(a) < Line(b) \/ Line(b) < Line(a) \/ Line(a) = Line(b)
      BY <1>3
    <2> QED BY <1>2, <2>1
  <1> HIDE DEF Before
  <1>7. \A s \in own : Nth(Rank(p, s)) = s
    <2> TAKE s \in own
    <2>1. \A x \in own : Cardinality(Before(x)) = Rank(p, s) - 1 <=> x = s
      BY <1>2, <1>5, <1>6
    <2> QED BY <2>1
  <1>8. \A s \in own : mf[Rank(p, s)] = Step(Line(s), s)
    <2> TAKE s \in own
    <2>1. mf[Rank(p, s)] = Step(Min(Nth(Rank(p, s)).lines), Nth(Rank(p, s)))
      BY <1>1, <1>2
    <2> QED BY <1>7, <2>1 DEF Line
  <1>9. \A i \in 1..N : \E s \in own : i = Rank(p, s)
    <2> DEFINE g == [s \in own |-> Rank(p, s)]
    <2>1. g \in [own -> 1..N] /\ \A s \in own : g[s] = Rank(p, s)
      BY <1>2
    <2> HIDE DEF g
    <2>2. g \in Injection(own, 1..N)
      BY <1>6, <2>1 DEF Injection, IsInjective
    <2>3. IsFiniteSet(1..N) /\ Cardinality(1..N) = N
      BY <1>2, FS_Interval
    <2>4. g \in Surjection(own, 1..N)
      BY <2>2, <2>3, FS_Injection
    <2> QED BY <2>1, <2>4 DEF Surjection
  <1> HIDE DEF mf, Nth
  <1>10. \A i \in 1..N : \E s \in own : i = Rank(p, s) /\ mf[i] = Step(Line(s), s)
    BY <1>8, <1>9
  <1>11. DOMAIN mf = 1..N
    BY <1>1
  <1>12. Len(mf) = N
    BY <1>2, <1>11
  <1> QED BY <1>8, <1>10, <1>11, <1>12 DEF mf

Steps(p) == {Step(l, x) : l \in Nat, x \in p.sites \cup {Call}}

LEMMA FlowsAreSequences ==
  ASSUME NEW p, Decided(p)
  PROVE  /\ \A h : MethodFlow(p, h) \in Seq(Steps(p))
         /\ \A s \in p.sites : /\ RouteFlow(s) \in Seq(Steps(p)) /\ Len(RouteFlow(s)) = 2
                               /\ RouteFlow(s)[1] = Step(Line(s), Call)
                               /\ RouteFlow(s)[2] = Step(s.inner, s)
  <1>1. ASSUME NEW h PROVE MethodFlow(p, h) \in Seq(Steps(p))
    <2> DEFINE mf == MethodFlow(p, h)
               N == Cardinality(Own(p, h))
    <2>1. N \in Nat
      BY RanksFollowLines
    <2>2. DOMAIN mf = 1..N /\ \A i \in 1..N : mf[i] \in Steps(p)
      <3>1. \A s \in Own(p, h) : Line(s) \in Nat /\ s \in p.sites
        BY SitesAreTyped DEF Own
      <3> QED BY <3>1, MethodFlowIsRanked DEF Steps
    <2>3. mf = [i \in 1..N |-> mf[i]]
      BY <2>2 DEF MethodFlow
    <2> HIDE DEF mf, N
    <2>4. mf \in Seq(Steps(p))
      BY <2>1, <2>2, <2>3
    <2> QED BY <2>4 DEF mf
  <1>2. ASSUME NEW s \in p.sites
        PROVE  /\ RouteFlow(s) \in Seq(Steps(p)) /\ Len(RouteFlow(s)) = 2
               /\ RouteFlow(s)[1] = Step(Line(s), Call)
               /\ RouteFlow(s)[2] = Step(s.inner, s)
    <2>1. Step(Line(s), Call) \in Steps(p) /\ Step(s.inner, s) \in Steps(p)
      BY SitesAreTyped DEF Steps
    <2>2. RouteFlow(s) = <<Step(Line(s), Call), Step(s.inner, s)>>
      BY DEF RouteFlow, Line
    <2> QED BY <2>1, <2>2
  <1> QED BY <1>1, <1>2

LEMMA StepFields ==
  ASSUME NEW l, NEW x, NEW k, NEW y
  PROVE  /\ Step(l, x).line = l /\ Step(l, x).what = x
         /\ Step(l, x) = Step(k, y) <=> l = k /\ x = y
  <1>1. \A a, b : Step(a, b).line = a /\ Step(a, b).what = b
    BY DEF Step
  <1> QED BY <1>1

\* What a site does is no internal call.
LEMMA SitesAreNoCalls ==
  ASSUME NEW p, Decided(p)
  PROVE  \A s \in p.sites : s.does # "method_call" /\ s # Call
  BY DEF Decided, IsTree, Call

LEMMA WherePlaced ==
  ASSUME NEW p, Decided(p), NEW h, NEW d \in p.sites,
         NEW x \in BranchSites(FlowsOf(p, h), d)
  PROVE  /\ d.at = h
         /\ \/ d \in Own(p, h) /\ x = <<MethodFlow(p, h), Rank(p, d)>>
            \/ d.inner > 0 /\ x = <<RouteFlow(d), 2>>
  <1>0. PICK f \in FlowsOf(p, h) : x \in {<<f, i>> : i \in {j \in DOMAIN f : f[j].what = d}}
    BY DEF BranchSites
  <1>1. PICK i \in DOMAIN f : f[i].what = d /\ x = <<f, i>>
    BY <1>0
  <1>2. CASE f = MethodFlow(p, h)
    <2>1. i \in 1..Cardinality(Own(p, h))
      BY <1>2, MethodFlowIsRanked
    <2>2. PICK s \in Own(p, h) : i = Rank(p, s) /\ f[i] = Step(Line(s), s)
      BY <1>2, <2>1, MethodFlowIsRanked
    <2>3. s = d
      BY <1>1, <2>2, StepFields
    <2> QED BY <1>1, <1>2, <2>2, <2>3 DEF Own
  <1>3. ASSUME NEW s \in p.sites, s.at = h, s.inner > 0, f = RouteFlow(s)
        PROVE  d.at = h /\ d.inner > 0 /\ x = <<RouteFlow(d), 2>>
    <2>1. /\ i \in 1..2
          /\ f[1] = Step(Line(s), Call) /\ f[2] = Step(s.inner, s)
      BY <1>3, FlowsAreSequences
    <2>2. Call # d
      BY SitesAreNoCalls
    <2>3. i = 2 /\ s = d
      BY <1>1, <2>1, <2>2, StepFields
    <2> QED BY <1>1, <1>3, <2>3
  <1> QED BY <1>2, <1>3 DEF FlowsOf

LEMMA SiteIsInFlow ==
  ASSUME NEW p, Decided(p), NEW s \in p.sites
  PROVE  \E f \in FlowsOf(p, s.at) : s \in Effects(f)
  <1>1. CASE s.inner = 0
    <2>1. s \in Own(p, s.at)
      BY <1>1 DEF Own
    <2> DEFINE mf == MethodFlow(p, s.at)
    <2>2. /\ Rank(p, s) \in 1..Cardinality(Own(p, s.at))
          /\ DOMAIN mf = 1..Cardinality(Own(p, s.at))
          /\ mf[Rank(p, s)] = Step(Line(s), s)
      BY <2>1, RanksFollowLines, MethodFlowIsRanked
    <2>3. s \in Effects(mf) /\ mf # <<>>
      <3> HIDE DEF mf
      <3>1. s \in Effects(mf)
        BY <2>2, StepFields DEF Effects
      <3>2. DOMAIN mf # {}
        BY <2>2
      <3> QED BY <3>1, <3>2
    <2> QED BY <2>3 DEF FlowsOf
  <1>2. CASE s.inner # 0
    <2>1. s.inner > 0
      BY <1>2, SitesAreTyped
    <2>2. s \in Effects(RouteFlow(s))
      BY FlowsAreSequences, StepFields DEF Effects
    <2> QED BY <2>1, <2>2 DEF FlowsOf
  <1> QED BY <1>1, <1>2

\* What the order of two places is decided from: n steps the two flows have in
\* common.
OrderSays(o, n, F, i, G, j) ==
  /\ o \in {"none", "write_first", "read_first"}
  /\ n <= i /\ n <= j
  /\ \A k \in 1..n : F[k] = G[k]
  /\ n < i /\ n < j => F[n + 1] # G[n + 1]
  /\ o = "write_first" =>
       IF F = G THEN i < j ELSE n < i /\ n < j /\ F[n + 1].line < G[n + 1].line
  /\ o = "read_first" =>
       IF F = G THEN j < i ELSE n < i /\ n < j /\ G[n + 1].line < F[n + 1].line

LEMMA SiteOrderForm ==
  ASSUME NEW S, NEW F \in Seq(S), NEW G \in Seq(S),
         NEW i \in 1..Len(F), NEW j \in 1..Len(G),
         \A x \in S : x.line \in Nat
  PROVE  \E n \in Nat : OrderSays(SiteOrder(<<F, i>>, <<G, j>>), n, F, i, G, j)
  <1> DEFINE a == SubSeq(F, 1, i)
             b == SubSeq(G, 1, j)
             n == Shared(a, b)
             o == SiteOrder(<<F, i>>, <<G, j>>)
  <1>1. /\ a \in Seq(S) /\ Len(a) = i /\ \A k \in 1..i : a[k] = F[k]
    OBVIOUS
  <1>2. /\ b \in Seq(S) /\ Len(b) = j /\ \A k \in 1..j : b[k] = G[k]
    OBVIOUS
  <1>3. o = IF F = G THEN Order(i, j)
            ELSE IF n < i /\ n < j THEN Order(F[n + 1].line, G[n + 1].line) ELSE "none"
    BY DEF SiteOrder
  <1> HIDE DEF a, b, o
  <1>4. /\ n \in 0..i /\ n <= j
        /\ \A k \in 1..n : a[k] = b[k]
        /\ n = i \/ n = j \/ a[n + 1] # b[n + 1]
    <2>1. /\ Shared(a, b) \in 0..Len(a) /\ Shared(a, b) <= Len(b)
          /\ \A k \in 1..Shared(a, b) : a[k] = b[k]
          /\ \/ Shared(a, b) = Len(a) \/ Shared(a, b) = Len(b)
             \/ a[Shared(a, b) + 1] # b[Shared(a, b) + 1]
      <3>1. a \in Seq(S) /\ b \in Seq(S)
        BY <1>1, <1>2
      <3> HIDE DEF n
      <3> QED BY ONLY <3>1, SharedIsPrefix
    <2> QED BY <1>1, <1>2, <2>1
  <1> HIDE DEF n
  <1>5. /\ n \in Nat /\ n <= i /\ n <= j
        /\ \A k \in 1..n : F[k] = G[k]
        /\ n < i /\ n < j => F[n + 1] # G[n + 1]
    BY <1>1, <1>2, <1>4
  <1>6. ASSUME n < i, n < j
        PROVE  F[n + 1].line \in Nat /\ G[n + 1].line \in Nat
    <2>1. n + 1 \in 1..Len(F) /\ n + 1 \in 1..Len(G)
      BY <1>5, <1>6
    <2>2. F[n + 1] \in S /\ G[n + 1] \in S
      BY <2>1
    <2> QED BY <2>2
  <1>7. /\ o \in {"none", "write_first", "read_first"}
        /\ o = "write_first" =>
             IF F = G THEN i < j
                      ELSE n < i /\ n < j /\ F[n + 1].line < G[n + 1].line
        /\ o = "read_first" =>
             IF F = G THEN j < i
                      ELSE n < i /\ n < j /\ G[n + 1].line < F[n + 1].line
    <2>1. \A k, l \in Nat : /\ Order(k, l) \in {"none", "write_first", "read_first"}
                            /\ Order(k, l) = "write_first" => k < l
                            /\ Order(k, l) = "read_first" => l < k
      BY DEF Order
    <2>2. CASE F = G
      <3>1. i \in Nat /\ j \in Nat /\ o = Order(i, j)
        BY <1>3, <2>2
      <3> QED BY <2>1, <2>2, <3>1
    <2>3. CASE F # G /\ n < i /\ n < j
      <3>1. o = Order(F[n + 1].line, G[n + 1].line)
        BY <1>3, <2>3
      <3> QED BY <1>6, <2>1, <2>3, <3>1
    <2>4. CASE F # G /\ ~(n < i /\ n < j)
      BY <1>3, <2>4
    <2> QED BY <2>2, <2>3, <2>4
  <1> QED BY <1>5, <1>7 DEF o, OrderSays

\* The verdict on two departures follows the lines where the handler comes to
\* them: a helper's line is before all the steps of the method's own flow or
\* behind them all.
LEMMA OrderIsOfLines ==
  ASSUME NEW p, Decided(p), NEW h,
         NEW d \in p.sites, NEW e \in p.sites, d # e,
         NEW x \in BranchSites(FlowsOf(p, h), d), NEW y \in BranchSites(FlowsOf(p, h), e)
  PROVE  /\ SiteOrder(x, y) \in {"none", "write_first", "read_first"}
         /\ SiteOrder(x, y) = "write_first" => Earlier(PlaceOf(d), PlaceOf(e))
         /\ SiteOrder(x, y) = "read_first" => Earlier(PlaceOf(e), PlaceOf(d))
  <1> DEFINE mf == MethodFlow(p, h)
             own == Own(p, h)
             o == SiteOrder(x, y)
  <1>d. /\ d.at = h
        /\ \/ d \in own /\ x = <<mf, Rank(p, d)>>
           \/ d.inner > 0 /\ x = <<RouteFlow(d), 2>>
    <2>1. d \in p.sites /\ x \in BranchSites(FlowsOf(p, h), d) /\ Decided(p)
      OBVIOUS
    <2> QED BY ONLY <2>1, WherePlaced
  <1>e. /\ e.at = h
        /\ \/ e \in own /\ y = <<mf, Rank(p, e)>>
           \/ e.inner > 0 /\ y = <<RouteFlow(e), 2>>
    <2>1. e \in p.sites /\ y \in BranchSites(FlowsOf(p, h), e) /\ Decided(p)
      OBVIOUS
    <2> QED BY ONLY <2>1, WherePlaced
  <1>1. d.at = h /\ e.at = h
    BY <1>d, <1>e
  <1>2. /\ \/ d \in own /\ x = <<mf, Rank(p, d)>>
           \/ d.inner > 0 /\ x = <<RouteFlow(d), 2>>
        /\ \/ e \in own /\ y = <<mf, Rank(p, e)>>
           \/ e.inner > 0 /\ y = <<RouteFlow(e), 2>>
    BY <1>d, <1>e
  <1>3. /\ Line(d) \in Nat /\ d.inner \in Nat /\ Line(e) \in Nat /\ e.inner \in Nat
        /\ \A s \in own : Line(s) \in Nat /\ s.at = h /\ s.inner = 0 /\ s \in p.sites
    BY SitesAreTyped DEF Own
  <1>4. \A s \in Steps(p) : s.line \in Nat
    BY StepFields DEF Steps
  <1>5. /\ mf \in Seq(Steps(p)) /\ Len(mf) = Cardinality(own)
        /\ RouteFlow(d) \in Seq(Steps(p)) /\ RouteFlow(e) \in Seq(Steps(p))
        /\ Len(RouteFlow(d)) = 2 /\ Len(RouteFlow(e)) = 2
        /\ RouteFlow(d)[1] = Step(Line(d), Call) /\ RouteFlow(d)[2] = Step(d.inner, d)
        /\ RouteFlow(e)[1] = Step(Line(e), Call) /\ RouteFlow(e)[2] = Step(e.inner, e)
    BY FlowsAreSequences, MethodFlowIsRanked
  <1>6. /\ Cardinality(own) \in Nat
        /\ \A s \in own : Rank(p, s) \in 1..Cardinality(own)
        /\ \A a, b \in own : Line(a) < Line(b) => Rank(p, a) < Rank(p, b)
        /\ \A a, b \in own : Line(a) = Line(b) => a = b
    BY RanksFollowLines
  <1>7. \A a, b : Earlier(PlaceOf(a), PlaceOf(b)) <=>
          \/ Line(a) < Line(b)
          \/ Line(a) = Line(b) /\ a.inner > 0 /\ b.inner > 0 /\ a.inner < b.inner
    BY DEF Earlier, PlaceOf
  \* The first step of the method's flow has the least line of its effects.
  <1>8. ASSUME own # {}
        PROVE  \E s \in own : /\ mf[1] = Step(Line(s), s) /\ 1 \in 1..Len(mf)
                              /\ \A b \in own : Line(s) <= Line(b)
    <2>1. 1 \in 1..Cardinality(own)
      BY <1>6, <1>8
    <2>2. PICK s \in own : 1 = Rank(p, s) /\ mf[1] = Step(Line(s), s)
      BY <2>1, MethodFlowIsRanked
    <2>3. \A b \in own : Line(s) <= Line(b)
      BY <1>3, <1>6, <2>2
    <2> QED BY <1>5, <2>1, <2>2, <2>3
  <1>9. \A s \in own : s # Call
    BY SitesAreNoCalls DEF Own
  <1>10. \A a, b \in own : \A c \in p.sites :
           c.at = h /\ c.inner > 0 /\ Line(a) < Line(c) => Line(b) < Line(c)
    BY <1>3 DEF Decided, HelpersApart
  <1> HIDE DEF own, mf
  <1>11. CASE d \in own /\ e \in own
    <2>1. Rank(p, d) \in 1..Len(mf) /\ Rank(p, e) \in 1..Len(mf)
      BY <1>5, <1>6, <1>11
    <2>2. x = <<mf, Rank(p, d)>> /\ y = <<mf, Rank(p, e)>>
      BY <1>2, <1>3, <1>11
    <2>3. /\ o \in {"none", "write_first", "read_first"}
          /\ o = "write_first" => Rank(p, d) < Rank(p, e)
          /\ o = "read_first" => Rank(p, e) < Rank(p, d)
      <3>1. mf \in Seq(Steps(p)) /\ Rank(p, d) \in 1..Len(mf) /\ Rank(p, e) \in 1..Len(mf)
        BY <1>5, <2>1
      <3>2. PICK n \in Nat : OrderSays(SiteOrder(<<mf, Rank(p, d)>>, <<mf, Rank(p, e)>>), n,
                                       mf, Rank(p, d), mf, Rank(p, e))
        BY ONLY <1>4, <3>1, SiteOrderForm
      <3> QED BY <2>2, <3>2 DEF OrderSays
    <2>4. /\ Rank(p, d) < Rank(p, e) => Line(d) < Line(e)
          /\ Rank(p, e) < Rank(p, d) => Line(e) < Line(d)
      BY <1>3, <1>5, <1>6, <1>11, <2>1
    <2> QED BY <1>7, <2>3, <2>4
  <1>12. CASE d.inner > 0 /\ e.inner > 0
    <2> DEFINE F == RouteFlow(d)
               G == RouteFlow(e)
    <2>1. x = <<F, 2>> /\ y = <<G, 2>>
      BY <1>2, <1>3, <1>12
    <2>2. F[2] # G[2] /\ F # G
      BY <1>5, StepFields
    <2>0. PICK n \in Nat : OrderSays(SiteOrder(<<F, 2>>, <<G, 2>>), n, F, 2, G, 2)
      <3>1. F \in Seq(Steps(p)) /\ G \in Seq(Steps(p)) /\ 2 \in 1..Len(F) /\ 2 \in 1..Len(G)
        BY <1>5
      <3> HIDE DEF F, G
      <3> QED BY ONLY <1>4, <3>1, SiteOrderForm
    <2>3. /\ o \in {"none", "write_first", "read_first"}
          /\ n \in Nat /\ n <= 2
          /\ \A k \in 1..n : F[k] = G[k]
          /\ n < 2 => F[n + 1] # G[n + 1]
          /\ o = "write_first" => n < 2 /\ F[n + 1].line < G[n + 1].line
          /\ o = "read_first" => n < 2 /\ G[n + 1].line < F[n + 1].line
      BY <2>0, <2>1, <2>2 DEF OrderSays
    <2>4. /\ F[1].line = Line(d) /\ F[2].line = d.inner
          /\ G[1].line = Line(e) /\ G[2].line = e.inner
          /\ F[1] = G[1] <=> Line(d) = Line(e)
      BY <1>5, StepFields
    <2> HIDE DEF F, G
    <2>5. n = 0 \/ (n = 1 /\ Line(d) = Line(e))
      BY <2>2, <2>3, <2>4
    <2>6. CASE n = 0
      BY <1>7, <2>3, <2>4, <2>6
    <2>7. CASE n = 1 /\ Line(d) = Line(e)
      BY <1>7, <1>12, <2>3, <2>4, <2>7
    <2> QED BY <2>5, <2>6, <2>7
  <1>13. CASE d \in own /\ e.inner > 0
    <2> DEFINE G == RouteFlow(e)
    <2>1. x = <<mf, Rank(p, d)>> /\ y = <<G, 2>> /\ Rank(p, d) \in 1..Len(mf)
      BY <1>2, <1>3, <1>5, <1>6, <1>13
    <2>2. PICK s \in own : /\ mf[1] = Step(Line(s), s) /\ 1 \in 1..Len(mf)
                          /\ \A b \in own : Line(s) <= Line(b)
      BY <1>8, <1>13
    <2>3. mf[1] # G[1] /\ mf # G /\ mf[1].line = Line(s) /\ G[1].line = Line(e)
      BY <1>5, <1>9, <2>2, StepFields
    <2>0. PICK n \in Nat : OrderSays(SiteOrder(<<mf, Rank(p, d)>>, <<G, 2>>), n,
                                     mf, Rank(p, d), G, 2)
      <3>1. mf \in Seq(Steps(p)) /\ G \in Seq(Steps(p)) /\ 2 \in 1..Len(G)
            /\ Rank(p, d) \in 1..Len(mf)
        BY <1>5, <2>1
      <3> HIDE DEF G
      <3> QED BY ONLY <1>4, <3>1, SiteOrderForm
    <2>4. /\ o \in {"none", "write_first", "read_first"}
          /\ n \in Nat
          /\ \A k \in 1..n : mf[k] = G[k]
          /\ o = "write_first" => mf[n + 1].line < G[n + 1].line
          /\ o = "read_first" => G[n + 1].line < mf[n + 1].line
      BY <2>0, <2>1, <2>3 DEF OrderSays
    <2> HIDE DEF G
    <2>5. n = 0
      BY <2>3, <2>4
    <2>6. /\ o = "write_first" => Line(s) < Line(e)
          /\ o = "read_first" => Line(e) < Line(s)
      BY <2>3, <2>4, <2>5
    <2>7. o = "write_first" => Line(d) < Line(e)
      BY <1>1, <1>10, <1>13, <2>6
    <2>8. o = "read_first" => Line(e) < Line(d)
      BY <1>3, <1>13, <2>2, <2>6
    <2> QED BY <1>7, <2>4, <2>7, <2>8
  <1>14. CASE d.inner > 0 /\ e \in own
    <2> DEFINE F == RouteFlow(d)
    <2>1. x = <<F, 2>> /\ y = <<mf, Rank(p, e)>> /\ Rank(p, e) \in 1..Len(mf)
      BY <1>2, <1>3, <1>5, <1>6, <1>14
    <2>2. PICK s \in own : /\ mf[1] = Step(Line(s), s) /\ 1 \in 1..Len(mf)
                          /\ \A b \in own : Line(s) <= Line(b)
      BY <1>8, <1>14
    <2>3. F[1] # mf[1] /\ F # mf /\ mf[1].line = Line(s) /\ F[1].line = Line(d)
      BY <1>5, <1>9, <2>2, StepFields
    <2>0. PICK n \in Nat : OrderSays(SiteOrder(<<F, 2>>, <<mf, Rank(p, e)>>), n,
                                     F, 2, mf, Rank(p, e))
      <3>1. mf \in Seq(Steps(p)) /\ F \in Seq(Steps(p)) /\ 2 \in 1..Len(F)
            /\ Rank(p, e) \in 1..Len(mf)
        BY <1>5, <2>1
      <3> HIDE DEF F
      <3> QED BY ONLY <1>4, <3>1, SiteOrderForm
    <2>4. /\ o \in {"none", "write_first", "read_first"}
          /\ n \in Nat
          /\ \A k \in 1..n : F[k] = mf[k]
          /\ o = "write_first" => F[n + 1].line < mf[n + 1].line
          /\ o = "read_first" => mf[n + 1].line < F[n + 1].line
      BY <2>0, <2>1, <2>3 DEF OrderSays
    <2> HIDE DEF F
    <2>5. n = 0
      BY <2>3, <2>4
    <2>6. /\ o = "write_first" => Line(d) < Line(s)
          /\ o = "read_first" => Line(s) < Line(d)
      BY <2>3, <2>4, <2>5
    <2>7. o = "write_first" => Line(d) < Line(e)
      BY <1>3, <1>14, <2>2, <2>6
    <2>8. o = "read_first" => Line(e) < Line(d)
      BY <1>1, <1>10, <1>14, <2>6
    <2> QED BY <1>7, <2>4, <2>7, <2>8
  <1> QED BY <1>2, <1>11, <1>12, <1>13, <1>14

-----------------------------------------------------------------------------
(* The verdict                                                             *)

LEMMA PathsAreRoutes ==
  ASSUME NEW p, Decided(p)
  PROVE  /\ RootGroups(p) = {FlowsOf(p, 0)}
         /\ \A h : FlowsIn(p, FlowsOf(p, 0), h) = FlowsOf(p, h)
         /\ DOMAIN ReachableFlowPaths(p, FlowsOf(p, 0)) = 0..Depth(p)
         /\ \A h \in 0..Depth(p) : ReachableFlowPaths(p, FlowsOf(p, 0))[h] = RouteTo(p, h)
  <1> DEFINE group == FlowsOf(p, 0)
             routes == Routes(p, Departures(p))
             path == ReachableFlowPaths(p, group)
             To(h) == {r \in routes : End(r) = h}
             Shortest(h) == CHOOSE r \in To(h) : \A other \in To(h) : Len(r) <= Len(other)
  <1>1. RootGroups(p) = {group}
    BY DEF RootGroups, Decided
  <1>2. \A h : FlowsIn(p, group, h) = FlowsOf(p, h)
    BY DEF FlowsIn
  <1>3. Followed(p, group) = Departures(p)
    <2>1. ASSUME NEW d \in Departures(p)
          PROVE  p.home[d.at] # p.home[d.to] /\ \E f \in FlowsIn(p, group, d.at) : d \in Effects(f)
      <3>1. p.home[d.at] # p.home[d.to]
        BY DEF Decided, IsTree
      <3>2. d \in p.sites
        BY DEF Departures
      <3> QED BY <1>2, <3>1, <3>2, SiteIsInFlow
    <2> QED BY <2>1 DEF Followed
  <1>4. path = [h \in {End(r) : r \in routes} |-> Shortest(h)]
    BY <1>3 DEF ReachableFlowPaths
  <1>5. {End(r) : r \in routes} = 0..Depth(p)
    <2>1. \A r \in routes : End(r) \in 0..Depth(p)
      BY RouteFacts
    <2>2. \A h \in 0..Depth(p) : \E r \in routes : End(r) = h
      BY RouteExists
    <2> QED BY <2>1, <2>2
  <1>6. ASSUME NEW h \in 0..Depth(p) PROVE Shortest(h) = RouteTo(p, h)
    <2>1. RouteTo(p, h) \in routes /\ To(h) = {RouteTo(p, h)}
      BY TheRoute
    <2>2. Len(RouteTo(p, h)) <= Len(RouteTo(p, h))
      BY <2>1, RouteFacts
    <2> QED BY <2>1, <2>2
  <1> HIDE DEF group, path, Shortest
  <1>7. DOMAIN path = 0..Depth(p) /\ \A h \in 0..Depth(p) : path[h] = RouteTo(p, h)
    BY <1>4, <1>5, <1>6
  <1> QED BY <1>1, <1>2, <1>7 DEF path, group

\* A publication between a handler of a chain and a later one.
Publishes(c, m, n) == \E i \in m..n - 1 : c[i].does = "kafka"
PublishesFrom(c, m) == Publishes(c, m, Len(c))
PublishesIn(route) == \E i \in DOMAIN route : route[i].does = "kafka"

LEMMA DeparturesAreEither ==
  ASSUME NEW p, NEW d \in Departures(p)
  PROVE  (d.does = "kafka" <=> d.does # "rest") /\ d \in p.sites
  BY DEF Departures

\* What a route holds beyond its first n departures.
Beyond(r, n) == SubSeq(r, n + 1, Len(r))

LEMMA BeyondFork ==
  ASSUME NEW p, Decided(p), NEW s \in p.sites, s \notin Departures(p),
         NEW n \in 0..Len(RouteTo(p, s.at)),
         NEW out, out = Beyond(RouteTo(p, s.at), n)
  PROVE  /\ \A i \in DOMAIN out : out[i] \in Departures(p)
         /\ PublishesIn(out) <=> PublishesFrom(Chain(p, s), n + 1)
         /\ out = <<>> => Chain(p, s)[n + 1] = s
         /\ out # <<>> => out[1] = Chain(p, s)[n + 1]
  <1> DEFINE r == RouteTo(p, s.at)
             c == Chain(p, s)
  <1>1. s.at \in 0..Depth(p)
    BY SitesAreTyped
  <1>2. r \in Routes(p, Departures(p))
    BY <1>1, TheRoute
  <1>3. /\ r \in Seq(Departures(p)) /\ Len(r) \in Nat
        /\ \A i \in 1..Len(r) : r[i] \in Departures(p)
    BY <1>2, RouteFacts
  <1>4. /\ Len(c) = Len(r) + 1 /\ c[Len(c)] = s
        /\ \A i \in 1..Len(r) : c[i] = r[i]
    BY ChainFacts
  <1>5. n \in Nat /\ n <= Len(r)
    BY <1>3
  <1> HIDE DEF r, c
  <1>6. /\ out \in Seq(Departures(p)) /\ Len(out) = Len(r) - n
        /\ \A i \in 1..Len(out) : out[i] = r[n + i]
    BY <1>3, <1>5 DEF Beyond, r
  <1>7. DOMAIN out = 1..Len(out) /\ Len(out) \in Nat /\ (out = <<>> <=> Len(out) = 0)
    BY <1>6
  <1>8. \A i \in 1..Len(out) : n + i \in 1..Len(r) /\ out[i] = c[n + i] /\ out[i] \in Departures(p)
    BY <1>3, <1>4, <1>5, <1>6
  <1>9. (\E i \in DOMAIN out : out[i].does = "kafka") <=> Publishes(c, n + 1, Len(c))
    <2>1. ASSUME NEW i \in DOMAIN out, out[i].does = "kafka"
          PROVE  Publishes(c, n + 1, Len(c))
      <3>1. n + i \in n + 1..Len(c) - 1
        BY <1>3, <1>4, <1>5, <1>6, <1>7
      <3> QED BY <1>7, <1>8, <2>1, <3>1 DEF Publishes
    <2>2. ASSUME Publishes(c, n + 1, Len(c))
          PROVE  \E i \in DOMAIN out : out[i].does = "kafka"
      <3>1. PICK j \in n + 1..Len(c) - 1 : c[j].does = "kafka"
        BY <2>2 DEF Publishes
      <3>2. j - n \in 1..Len(out) /\ n + (j - n) = j
        BY <1>3, <1>4, <1>5, <1>6, <3>1
      <3> QED BY <1>7, <1>8, <3>1, <3>2
    <2> QED BY <2>1, <2>2
  <1>10. out = <<>> => c[n + 1] = s
    BY <1>3, <1>4, <1>5, <1>6, <1>7
  <1>11. out # <<>> => out[1] = c[n + 1]
    <2>1. ASSUME out # <<>> PROVE 1 \in 1..Len(out)
      BY <1>7, <2>1
    <2> QED BY <1>8, <2>1
  <1> QED BY <1>7, <1>8, <1>9, <1>10, <1>11 DEF PublishesIn, PublishesFrom, r, c

\* Where the chains part, and whether the write is behind a publication from
\* there while the read is not.
ForkHandler(p) == WriteChain(p)[Fork(p)].at
AtWrite(p) == WriteChain(p)[Fork(p)]
AtRead(p) == ReadChain(p)[Fork(p)]
WriteBehind(p) == PublishesFrom(WriteChain(p), Fork(p))
ReadBehind(p) == PublishesFrom(ReadChain(p), Fork(p))

ForkOrders(p) ==
  {SiteOrder(x, y) : x \in BranchSites(FlowsOf(p, ForkHandler(p)), AtWrite(p)),
                     y \in BranchSites(FlowsOf(p, ForkHandler(p)), AtRead(p))} \ {"none"}

LEMMA BranchVerdictForm ==
  ASSUME NEW p, Decided(p)
  PROVE  BranchVerdict(p, FlowsOf(p, 0), ReachableFlowPaths(p, FlowsOf(p, 0))) =
           IF ~WriteBehind(p) \/ ReadBehind(p) THEN "undecided"
           ELSE IF "write_first" \in ForkOrders(p) THEN "potential_risk"
           ELSE IF ForkOrders(p) = {} THEN "insufficient_evidence" ELSE "none"
  <1> DEFINE group == FlowsOf(p, 0)
             path == ReachableFlowPaths(p, group)
             w == TheWrite(p)
             r == TheRead(p)
             hops == Shared(path[w.at], path[r.at])
             prefix == SubSeq(path[w.at], 1, hops)
             wo == SubSeq(path[w.at], hops + 1, Len(path[w.at]))
             ro == SubSeq(path[r.at], hops + 1, Len(path[r.at]))
             fork == {f \in FlowsIn(p, group, End(prefix)) : path[End(prefix)] = prefix}
             ws == BranchSites(fork, wo[1])
             rs == BranchSites(fork, IF ro = <<>> THEN r ELSE ro[1])
             orders == {SiteOrder(x, y) : x \in ws, y \in rs} \ {"none"}
             published == /\ \E i \in DOMAIN wo : wo[i].does = "kafka"
                          /\ \A i \in DOMAIN ro : ro[i].does = "rest"
             wr == RouteTo(p, w.at)
             rr == RouteTo(p, r.at)
  <1>1. BranchVerdict(p, group, path) =
          IF ~published THEN "undecided"
          ELSE IF "write_first" \in orders THEN "potential_risk"
          ELSE IF orders = {} THEN "insufficient_evidence" ELSE "none"
    BY DEF BranchVerdict
  <1>2. /\ w \in p.sites /\ r \in p.sites /\ w # r
        /\ w \notin Departures(p) /\ r \notin Departures(p)
    BY ThePair
  <1>3. w.at \in 0..Depth(p) /\ r.at \in 0..Depth(p)
    BY <1>2, SitesAreTyped
  <1>4. path[w.at] = wr /\ path[r.at] = rr
    BY <1>3, PathsAreRoutes
  <1>5. wr \in Routes(p, Departures(p)) /\ rr \in Routes(p, Departures(p))
    BY <1>3, TheRoute
  <1>6. wr \in Seq(Departures(p)) /\ rr \in Seq(Departures(p)) /\ Len(wr) \in Nat /\ Len(rr) \in Nat
    BY <1>5, RouteFacts
  <1>7. hops = Fork(p) - 1 /\ hops \in 0..Len(wr) /\ hops \in 0..Len(rr) /\ Fork(p) = hops + 1
    <2>1. hops = Shared(wr, rr)
      BY <1>4
    <2>2. Shared(wr, rr) \in 0..Len(wr) /\ Shared(wr, rr) <= Len(rr)
      <3> HIDE DEF wr, rr
      <3> QED BY ONLY <1>6, SharedIsPrefix
    <2>3. Fork(p) = Shared(wr, rr) + 1
      BY DEF Fork
    <2> HIDE DEF hops, wr, rr
    <2> QED BY <1>6, <2>1, <2>2, <2>3
  <1> HIDE DEF hops
  <1>8. /\ \A i \in DOMAIN wo : wo[i] \in Departures(p)
        /\ PublishesIn(wo) <=> WriteBehind(p)
        /\ wo # <<>> => wo[1] = AtWrite(p)
    <2>1. wo = Beyond(RouteTo(p, w.at), hops) /\ hops \in 0..Len(RouteTo(p, w.at))
      BY <1>4, <1>7 DEF Beyond
    <2>2. Decided(p) /\ w \in p.sites /\ w \notin Departures(p)
      BY <1>2
    <2> HIDE DEF wo, w
    <2>3. \A i \in DOMAIN wo : wo[i] \in Departures(p)
      BY ONLY <2>1, <2>2, BeyondFork
    <2>4. PublishesIn(wo) <=> PublishesFrom(Chain(p, w), hops + 1)
      BY ONLY <2>1, <2>2, BeyondFork, Zenon
    <2>5. /\ wo # <<>> => wo[1] = Chain(p, w)[hops + 1]
          /\ wo = <<>> => Chain(p, w)[hops + 1] = w
      BY ONLY <2>1, <2>2, BeyondFork
    <2> QED BY <1>7, <2>3, <2>4, <2>5 DEF WriteBehind, AtWrite, WriteChain, w
  <1>9. /\ \A i \in DOMAIN ro : ro[i] \in Departures(p)
        /\ PublishesIn(ro) <=> ReadBehind(p)
        /\ (IF ro = <<>> THEN r ELSE ro[1]) = AtRead(p)
    <2>1. ro = Beyond(RouteTo(p, r.at), hops) /\ hops \in 0..Len(RouteTo(p, r.at))
      BY <1>4, <1>7 DEF Beyond
    <2>2. Decided(p) /\ r \in p.sites /\ r \notin Departures(p)
      BY <1>2
    <2> HIDE DEF ro, r
    <2>3. \A i \in DOMAIN ro : ro[i] \in Departures(p)
      BY ONLY <2>1, <2>2, BeyondFork
    <2>4. PublishesIn(ro) <=> PublishesFrom(Chain(p, r), hops + 1)
      BY ONLY <2>1, <2>2, BeyondFork, Zenon
    <2>5. /\ ro # <<>> => ro[1] = Chain(p, r)[hops + 1]
          /\ ro = <<>> => Chain(p, r)[hops + 1] = r
      BY ONLY <2>1, <2>2, BeyondFork
    <2> QED BY <1>7, <2>3, <2>4, <2>5 DEF ReadBehind, AtRead, ReadChain, r
  <1>10. End(prefix) = ForkHandler(p) /\ path[End(prefix)] = prefix
    <2> DEFINE q == SubSeq(wr, 1, hops)
    <2>1. /\ q \in Routes(p, Departures(p)) /\ End(q) = IF hops = 0 THEN 0 ELSE wr[hops].to
      BY <1>5, <1>7, PrefixIsRoute
    <2>2. End(q) \in 0..Depth(p)
      BY <2>1, RouteFacts
    <2>3. path[End(q)] = q
      <3>1. path[End(q)] = RouteTo(p, End(q))
        BY <2>2, PathsAreRoutes
      <3> HIDE DEF q, path
      <3>2. q = RouteTo(p, End(q))
        BY <2>1, <2>2, TheRoute
      <3> QED BY <3>1, <3>2
    <2>4. ForkHandler(p) = End(q)
      <3> DEFINE c == WriteChain(p)
      <3>1. /\ \A i \in 1..Len(c) : c[i].at = IF i = 1 THEN 0 ELSE c[i - 1].to
            /\ Len(c) = Len(wr) + 1
            /\ \A i \in 1..Len(wr) : c[i] = wr[i]
        BY <1>2, ChainFacts DEF IsChain, WriteChain
      <3>2. Fork(p) \in 1..Len(c)
        BY <1>6, <1>7, <3>1
      <3>3. c[Fork(p)].at = IF Fork(p) = 1 THEN 0 ELSE c[Fork(p) - 1].to
        BY <3>1, <3>2
      <3>4. hops = 0 \/ hops \in 1..Len(wr)
        BY <1>6, <1>7
      <3> HIDE DEF c, wr, q
      <3>5. c[Fork(p)].at = IF hops = 0 THEN 0 ELSE wr[hops].to
        BY <1>6, <1>7, <3>1, <3>3, <3>4
      <3> QED BY <2>1, <3>5 DEF ForkHandler, c
    <2>5. q = prefix
      BY <1>4
    <2> HIDE DEF q, prefix, path
    <2> QED BY <2>3, <2>4, <2>5
  <1>11. fork = FlowsOf(p, ForkHandler(p))
    <2>1. FlowsIn(p, group, End(prefix)) = FlowsOf(p, End(prefix))
      BY PathsAreRoutes
    <2> HIDE DEF prefix, path, group
    <2> QED BY <1>10, <2>1
  <1>12. wo # <<>> => orders = ForkOrders(p)
    <2> HIDE DEF wo, ro, fork, r
    <2> QED BY <1>8, <1>9, <1>11 DEF ForkOrders
  <1>13. WriteBehind(p) => wo # <<>>
    <2> HIDE DEF wo
    <2>1. WriteBehind(p) => DOMAIN wo # {}
      BY <1>8 DEF PublishesIn
    <2> QED BY <2>1
  <1>14. published <=> WriteBehind(p) /\ ~ReadBehind(p)
    <2> HIDE DEF wo, ro
    <2> QED BY <1>8, <1>9, DeparturesAreEither DEF PublishesIn
  <1> HIDE DEF wo, ro, orders, published
  <1>15. BranchVerdict(p, group, path) =
           IF ~WriteBehind(p) \/ ReadBehind(p) THEN "undecided"
           ELSE IF "write_first" \in ForkOrders(p) THEN "potential_risk"
           ELSE IF ForkOrders(p) = {} THEN "insufficient_evidence" ELSE "none"
    BY <1>1, <1>12, <1>13, <1>14
  <1> QED BY <1>15 DEF path, group

\* Silence about a write behind a publication and a read that is not behind
\* one: the handler comes to the read first.  A risk: it publishes first.
LEMMA VerdictSays ==
  ASSUME NEW p, Decided(p)
  PROVE  /\ Verdict(p) = "none" /\ WriteBehind(p) /\ ~ReadBehind(p)
              => Earlier(PlaceOf(AtRead(p)), PlaceOf(AtWrite(p)))
         /\ Verdict(p) = "potential_risk"
              => /\ WriteBehind(p) /\ ~ReadBehind(p)
                 /\ Earlier(PlaceOf(AtWrite(p)), PlaceOf(AtRead(p)))
  <1> DEFINE group == FlowsOf(p, 0)
             path == ReachableFlowPaths(p, group)
             branch == BranchVerdict(p, group, path)
             root == IF branch = "undecided" THEN LabelVerdict(p) ELSE branch
  <1>1. \A s \in p.sites : /\ s.at \in DOMAIN path
                           /\ \E f \in FlowsIn(p, group, s.at) : s \in Effects(f)
    <2> TAKE s \in p.sites
    <2>1. s.at \in DOMAIN path
      BY SitesAreTyped, PathsAreRoutes
    <2>2. FlowsIn(p, group, s.at) = FlowsOf(p, s.at)
      BY PathsAreRoutes
    <2>3. \E f \in FlowsOf(p, s.at) : s \in Effects(f)
      BY SiteIsInFlow
    <2> HIDE DEF path, group
    <2> QED BY <2>1, <2>2, <2>3
  <1>2. TheWrite(p) \in p.sites /\ TheRead(p) \in p.sites
    BY ThePair
  <1>3. RootVerdict(p, group) = root
    <2> HIDE DEF branch, path, group
    <2>1. RootVerdict(p, group) =
            LET Reached(s) == /\ s.at \in DOMAIN ReachableFlowPaths(p, group)
                              /\ \E f \in FlowsIn(p, group, s.at) : s \in Effects(f)
                branches == BranchVerdict(p, group, ReachableFlowPaths(p, group))
            IN IF ~Reached(TheWrite(p)) \/ ~Reached(TheRead(p)) THEN "none"
               ELSE IF branches = "undecided" THEN LabelVerdict(p) ELSE branches
      BY DEF RootVerdict
    <2> QED BY <1>1, <1>2, <2>1 DEF branch, path
  <1>4. RootGroups(p) = {group}
    BY PathsAreRoutes
  <1>5. branch = IF ~WriteBehind(p) \/ ReadBehind(p) THEN "undecided"
                 ELSE IF "write_first" \in ForkOrders(p) THEN "potential_risk"
                 ELSE IF ForkOrders(p) = {} THEN "insufficient_evidence" ELSE "none"
    BY BranchVerdictForm
  <1> HIDE DEF branch, path, group
  <1>6. LabelVerdict(p) \in {"insufficient_evidence", "none"}
    BY DEF LabelVerdict
  <1>7. Verdict(p) = root
    <2>1. {RootVerdict(p, g) : g \in RootGroups(p)} = {root}
      BY <1>3, <1>4
    <2>2. Verdict(p) = IF "potential_risk" \in {root} THEN "potential_risk"
                       ELSE IF "insufficient_evidence" \in {root} THEN "insufficient_evidence"
                       ELSE "none"
      BY <2>1 DEF Verdict
    <2>3. root \in {"potential_risk", "insufficient_evidence", "none"}
      BY <1>5, <1>6
    <2> HIDE DEF root
    <2> QED BY <2>2, <2>3
  <1>8. /\ AtWrite(p) \in p.sites /\ AtRead(p) \in p.sites /\ AtWrite(p) # AtRead(p)
    BY ChainsPart DEF AtWrite, AtRead, IsChain
  <1>9. \A o \in ForkOrders(p) :
          /\ o \in {"write_first", "read_first"}
          /\ o = "write_first" => Earlier(PlaceOf(AtWrite(p)), PlaceOf(AtRead(p)))
          /\ o = "read_first" => Earlier(PlaceOf(AtRead(p)), PlaceOf(AtWrite(p)))
    <2> TAKE o \in ForkOrders(p)
    <2>1. PICK x \in BranchSites(FlowsOf(p, ForkHandler(p)), AtWrite(p)),
               y \in BranchSites(FlowsOf(p, ForkHandler(p)), AtRead(p)) :
                 o = SiteOrder(x, y)
      BY DEF ForkOrders
    <2>2. o # "none"
      BY DEF ForkOrders
    <2>3. /\ SiteOrder(x, y) \in {"none", "write_first", "read_first"}
          /\ SiteOrder(x, y) = "write_first" => Earlier(PlaceOf(AtWrite(p)), PlaceOf(AtRead(p)))
          /\ SiteOrder(x, y) = "read_first" => Earlier(PlaceOf(AtRead(p)), PlaceOf(AtWrite(p)))
      BY <1>8, OrderIsOfLines
    <2> QED BY <2>1, <2>2, <2>3
  <1>10. ASSUME Verdict(p) = "none", WriteBehind(p), ~ReadBehind(p)
         PROVE  Earlier(PlaceOf(AtRead(p)), PlaceOf(AtWrite(p)))
    <2>1. "write_first" \notin ForkOrders(p) /\ ForkOrders(p) # {}
      BY <1>5, <1>7, <1>10
    <2> QED BY <1>9, <2>1
  <1>11. ASSUME Verdict(p) = "potential_risk"
         PROVE  /\ WriteBehind(p) /\ ~ReadBehind(p)
                /\ Earlier(PlaceOf(AtWrite(p)), PlaceOf(AtRead(p)))
    <2>1. WriteBehind(p) /\ ~ReadBehind(p) /\ "write_first" \in ForkOrders(p)
      BY <1>5, <1>6, <1>7, <1>11
    <2> QED BY <1>9, <2>1
  <1> QED BY <1>10, <1>11

-----------------------------------------------------------------------------
(* The executions                                                          *)

AllPlaces(p) == {PlaceOf(s) : s \in p.sites}

RunLists(p) == Seq(SUBSET AllPlaces(p))
Stacks(p) == [frames : RunLists(p), causes : SUBSET Nat]
ThreadLists(p) == Seq(Stacks(p))

Typed(p, ts) ==
  /\ ts \in ThreadLists(p)
  /\ \A t \in DOMAIN ts : \A u \in ts[t].causes : u \in DOMAIN ts /\ u < t

TypeOK ==
  /\ program \in Programs /\ verdict = Verdict(program)
  /\ Typed(program, threads)

\* A site is still to come in run i of thread t.
Held(ts, t, i, s) ==
  /\ t \in DOMAIN ts /\ i \in DOMAIN ts[t].frames
  /\ PlaceOf(s) \in ts[t].frames[i]

\* An execution has at most one step of a chain still to come.
Once(ts, c) ==
  \A n, m \in DOMAIN c : \A t, u \in DOMAIN ts :
    \A i \in DOMAIN ts[t].frames : \A j \in DOMAIN ts[u].frames :
      Held(ts, t, i, c[n]) /\ Held(ts, u, j, c[m]) => n = m /\ t = u /\ i = j

\* Between the fork and the n-th step of the write's chain, or of the read's.
WritePublished(p, n) == Publishes(WriteChain(p), Fork(p), n)
ReadPublished(p, n) == Publishes(ReadChain(p), Fork(p), n)

WriteFirst(p) == Earlier(PlaceOf(AtWrite(p)), PlaceOf(AtRead(p)))
ReadFirst(p) == Earlier(PlaceOf(AtRead(p)), PlaceOf(AtWrite(p)))

\* Step n of the write's chain is to come in run i of a thread t, whose message
\* `causes` led to, and step m of the read's in run j of thread u, both behind
\* the fork.
BehindFork(p, causes, t, i, n, u, j, m) ==
  /\ n = Fork(p) /\ m = Fork(p) => t = u /\ i = j
  /\ ~WritePublished(p, n) /\ ~ReadPublished(p, m) => t = u
  /\ ReadPublished(p, m) => u # t /\ u \notin causes
  /\ WritePublished(p, n) /\ ~ReadPublished(p, m) => u \in causes
  /\ n = Fork(p) /\ m > Fork(p) /\ ~ReadPublished(p, m) => i < j
  /\ m = Fork(p) /\ n > Fork(p) /\ ~WritePublished(p, n) => j < i
  /\ ReadFirst(p) /\ ~ReadPublished(p, m) => n = Fork(p)
  /\ WriteFirst(p) /\ ~ReadPublished(p, m) /\ m > Fork(p) => WritePublished(p, n)

Related(p, causes, t, i, n, u, j, m) ==
  IF n < Fork(p) \/ m < Fork(p) THEN n = m /\ t = u /\ i = j
  ELSE BehindFork(p, causes, t, i, n, u, j, m)

AllRelated(p, ts) ==
  \A n \in DOMAIN WriteChain(p), m \in DOMAIN ReadChain(p) : \A t, u \in DOMAIN ts :
    \A i \in DOMAIN ts[t].frames : \A j \in DOMAIN ts[u].frames :
      Held(ts, t, i, WriteChain(p)[n]) /\ Held(ts, u, j, ReadChain(p)[m])
        => Related(p, ts[t].causes, t, i, n, u, j, m)

\* What a read that was stale, or early, says of the two branches.
SeenSays ==
  /\ seen = "stale" => WriteBehind(program) /\ ~ReadBehind(program) /\ ~ReadFirst(program)
  /\ seen = "early" => ~(WriteBehind(program) /\ ~ReadBehind(program) /\ WriteFirst(program))

Inv ==
  /\ TypeOK
  /\ Once(threads, WriteChain(program)) /\ Once(threads, ReadChain(program))
  /\ AllRelated(program, threads)
  /\ SeenSays

LEMMA PlacesOfSites ==
  ASSUME NEW p, Decided(p)
  PROVE  /\ \A a, b : PlaceOf(a) = PlaceOf(b) <=> a = b
         /\ \A a : PlaceOf(a).site = a
         /\ \A h : Places(p, h) = {PlaceOf(s) : s \in {x \in p.sites : x.at = h}}
         /\ \A h : Places(p, h) \in SUBSET AllPlaces(p)
  <1>1. \A a, b : PlaceOf(a) = PlaceOf(b) <=> a = b
    BY DEF PlaceOf
  <1>2. \A a : PlaceOf(a).site = a
    BY DEF PlaceOf
  <1>3. ASSUME NEW h
        PROVE  Places(p, h) = {PlaceOf(s) : s \in {x \in p.sites : x.at = h}}
    <2>1. \A s \in p.sites :
            {[line |-> l, inner |-> s.inner, site |-> s] : l \in s.lines} = {PlaceOf(s)}
      BY SitesAreTyped DEF PlaceOf
    <2>2. Places(p, h) = UNION {{[line |-> l, inner |-> s.inner, site |-> s] : l \in s.lines} :
                                  s \in {x \in p.sites : x.at = h}}
      BY DEF Places
    <2>3. ASSUME NEW a \in Places(p, h) PROVE a \in {PlaceOf(s) : s \in {x \in p.sites : x.at = h}}
      <3>1. PICK s \in {x \in p.sites : x.at = h} :
                   a \in {[line |-> l, inner |-> s.inner, site |-> s] : l \in s.lines}
        BY <2>2
      <3> QED BY <2>1, <3>1
    <2>4. ASSUME NEW s \in p.sites, s.at = h PROVE PlaceOf(s) \in Places(p, h)
      <3>1. PlaceOf(s) \in {[line |-> l, inner |-> s.inner, site |-> s] : l \in s.lines}
        BY <2>1
      <3> QED BY <2>2, <2>4, <3>1
    <2> QED BY <2>3, <2>4
  <1>4. \A h : Places(p, h) \in SUBSET AllPlaces(p)
    BY <1>3 DEF AllPlaces
  <1> QED BY <1>1, <1>2, <1>3, <1>4

\* A thread with other runs.
WithRuns(ts, t, H) == [ts EXCEPT ![t].frames = H]

LEMMA RunsReplaced ==
  ASSUME NEW p, NEW ts \in ThreadLists(p), NEW t \in DOMAIN ts,
         NEW H \in RunLists(p)
  PROVE  \A u \in DOMAIN ts :
           /\ WithRuns(ts, t, H)[u].causes = ts[u].causes
           /\ WithRuns(ts, t, H)[u].frames = IF u = t THEN H ELSE ts[u].frames
  <1>1. \A u \in DOMAIN ts : WithRuns(ts, t, H)[u] =
                               IF u = t THEN [ts[t] EXCEPT !.frames = H] ELSE ts[u]
    BY DEF WithRuns
  <1>2. ts[t] \in Stacks(p)
    BY DEF ThreadLists
  <1>3. /\ [ts[t] EXCEPT !.frames = H].frames = H
        /\ [ts[t] EXCEPT !.frames = H].causes = ts[t].causes
    BY <1>2 DEF Stacks
  <1> QED BY <1>1, <1>3

LEMMA RunsTyped ==
  ASSUME NEW p, NEW ts \in ThreadLists(p), NEW t \in DOMAIN ts,
         NEW H \in RunLists(p)
  PROVE  WithRuns(ts, t, H) \in ThreadLists(p) /\ DOMAIN WithRuns(ts, t, H) = DOMAIN ts
  <1> DEFINE nt == WithRuns(ts, t, H)
  <1>1. Len(ts) \in Nat /\ DOMAIN ts = 1..Len(ts) /\ \A u \in 1..Len(ts) : ts[u] \in Stacks(p)
    BY DEF ThreadLists
  <1>2. DOMAIN nt = 1..Len(ts)
    BY <1>1 DEF WithRuns
  <1>3. \A u \in 1..Len(ts) : nt[u] \in Stacks(p)
    BY <1>1 DEF WithRuns, Stacks
  <1>4. nt = [u \in 1..Len(ts) |-> nt[u]]
    BY <1>1 DEF WithRuns
  <1> HIDE DEF nt
  <1>5. nt \in Seq(Stacks(p))
    BY <1>1, <1>2, <1>3, <1>4
  <1> QED BY <1>1, <1>2, <1>5 DEF nt, ThreadLists

\* One step: thread t, in run i, goes past the site s.
Stays(ts, t, i, s, u, j, x) == Held(ts, u, j, x) /\ ~(u = t /\ j = i /\ x = s)

Enters(ts, t, s, u, j, x) ==
  /\ s.does \in {"rest", "kafka"} /\ x.at = s.to
  /\ s.does = "rest" => u = t /\ j = Len(ts[t].frames) + 1
  /\ s.does = "kafka" => u = Len(ts) + 1 /\ j = 1

Stepped(p, ts, nt, t, i, s) ==
  /\ s \in p.sites /\ Held(ts, t, i, s)
  /\ \A j \in DOMAIN ts[t].frames : \A x \in p.sites :
       Held(ts, t, j, x) => j <= i /\ (j = i => ~Earlier(PlaceOf(x), PlaceOf(s)))
  /\ \A u \in DOMAIN ts : nt[u].causes = ts[u].causes
  /\ s.does = "kafka" => nt[Len(ts) + 1].causes = ts[t].causes \cup {t}
  /\ \A u \in DOMAIN nt : \A j \in DOMAIN nt[u].frames : \A x \in p.sites :
       Held(nt, u, j, x) => Stays(ts, t, i, s, u, j, x) \/ Enters(ts, t, s, u, j, x)

LEMMA StepsStep ==
  ASSUME NEW t \in DOMAIN threads, NEW i \in DOMAIN threads[t].frames,
         NEW place \in threads[t].frames[i],
         Decided(program), Typed(program, threads),
         \/ CallRest(t, i, place) \/ Publish(t, i, place)
         \/ Write(t, i, place) \/ Read(t, i, place)
  PROVE  /\ place = PlaceOf(place.site)
         /\ Typed(program, threads')
         /\ Stepped(program, threads, threads', t, i, place.site)
  <1> DEFINE F == threads[t].frames
             G == Passed(t, i, place)
             p == program
             ts == threads
             nt == threads'
  <1>1. /\ Len(ts) \in Nat /\ DOMAIN ts = 1..Len(ts)
        /\ ts \in ThreadLists(p) /\ ts \in Seq(Stacks(p))
        /\ \A u \in 1..Len(ts) : /\ ts[u] \in Stacks(p) /\ ts[u].causes \in SUBSET Nat
                                 /\ ts[u].frames \in Seq(SUBSET AllPlaces(p))
        /\ \A v \in 1..Len(ts) : \A u \in ts[v].causes : u \in 1..Len(ts) /\ u < v
    <2>1. /\ ts \in ThreadLists(p) /\ ts \in Seq(Stacks(p))
          /\ Len(ts) \in Nat /\ DOMAIN ts = 1..Len(ts)
      BY DEF Typed, ThreadLists
    <2>2. \A v \in 1..Len(ts) : \A u \in ts[v].causes : u \in 1..Len(ts) /\ u < v
      BY <2>1 DEF Typed
    <2>3. \A u \in 1..Len(ts) : ts[u] \in Stacks(p)
      BY <2>1
    <2> QED BY <2>1, <2>2, <2>3 DEF Stacks, RunLists
  <1>2. /\ F \in Seq(SUBSET AllPlaces(p)) /\ Len(F) \in Nat /\ DOMAIN F = 1..Len(F)
        /\ \A j \in 1..Len(F) : F[j] \in SUBSET AllPlaces(p)
    BY <1>1
  <1>3. PICK s \in p.sites : place = PlaceOf(s)
    BY <1>2 DEF AllPlaces
  <1>4. place.site = s /\ place = PlaceOf(place.site)
    BY <1>3, PlacesOfSites
  <1>5. /\ G \in Seq(SUBSET AllPlaces(p)) /\ Len(G) = Len(F) /\ DOMAIN G = 1..Len(F)
        /\ \A j \in 1..Len(F) : G[j] = IF j = i THEN F[i] \ {place} ELSE F[j]
    BY <1>2 DEF Passed
  <1>6. At(t, i, place, s.does) /\ s.does \in {"rest", "kafka", "write", "read"}
    BY <1>4 DEF CallRest, Publish, Write, Read, At
  <1>7. /\ Held(ts, t, i, s)
        /\ \A j \in DOMAIN ts[t].frames : \A x \in p.sites :
             Held(ts, t, j, x) => j <= i /\ (j = i => ~Earlier(PlaceOf(x), PlaceOf(s)))
    <2>1. Held(ts, t, i, s)
      BY <1>3 DEF Held
    <2>2. ASSUME NEW j \in DOMAIN F, NEW x \in p.sites, Held(ts, t, j, x)
          PROVE  j <= i
      <3>1. F[j] # {} /\ i \in 1..Len(F) /\ j \in 1..Len(F)
        BY <1>2, <2>2 DEF Held
      <3>2. \A k \in i + 1..Len(F) : F[k] = {}
        BY <1>6 DEF At, Active
      <3> QED BY <1>2, <3>1, <3>2
    <2>3. ASSUME NEW x \in p.sites, Held(ts, t, i, x)
          PROVE  ~Earlier(PlaceOf(x), PlaceOf(s))
      BY <1>3, <1>6, <2>3 DEF Held, At, Ready
    <2> QED BY <2>1, <2>2, <2>3
  <1>8. \A h : Places(p, h) \in SUBSET AllPlaces(p)
    BY PlacesOfSites
  <1>9. \A h : \A x : PlaceOf(x) \in Places(p, h) => x.at = h
    BY PlacesOfSites
  <1>10. \A x : PlaceOf(x) = place <=> x = s
    BY <1>3, PlacesOfSites
  <1> HIDE DEF F, G, p, ts
  <1>11. CASE CallRest(t, i, place)
    <2> DEFINE H == Append(G, Places(p, s.to))
    <2>1. nt = WithRuns(ts, t, H) /\ s.does = "rest"
      BY <1>4, <1>11 DEF CallRest, At, WithRuns, ts, p, G
    <2>2. /\ H \in Seq(SUBSET AllPlaces(p)) /\ Len(H) = Len(F) + 1 /\ DOMAIN H = 1..Len(F) + 1
          /\ \A j \in 1..Len(F) : H[j] = G[j]
          /\ H[Len(F) + 1] = Places(p, s.to)
      BY <1>2, <1>5, <1>8
    <2> HIDE DEF H
    <2>3. /\ nt \in ThreadLists(p) /\ DOMAIN nt = DOMAIN ts
          /\ \A u \in DOMAIN ts : /\ nt[u].causes = ts[u].causes
                                  /\ nt[u].frames = IF u = t THEN H ELSE ts[u].frames
      <3>1. ts \in ThreadLists(p) /\ t \in DOMAIN ts
        BY <1>1 DEF ts
      <3>2. H \in RunLists(p)
        BY <2>2 DEF RunLists
      <3>3. WithRuns(ts, t, H) \in ThreadLists(p) /\ DOMAIN WithRuns(ts, t, H) = DOMAIN ts
        BY ONLY <3>1, <3>2, RunsTyped
      <3>4. \A u \in DOMAIN ts :
              /\ WithRuns(ts, t, H)[u].causes = ts[u].causes
              /\ WithRuns(ts, t, H)[u].frames = IF u = t THEN H ELSE ts[u].frames
        BY ONLY <3>1, <3>2, RunsReplaced
      <3> QED BY ONLY <2>1, <3>3, <3>4
    <2>4. ASSUME NEW u \in DOMAIN nt, NEW j \in DOMAIN nt[u].frames, NEW x \in p.sites,
                 Held(nt, u, j, x)
          PROVE  Stays(ts, t, i, s, u, j, x) \/ Enters(ts, t, s, u, j, x)
      <3>1. CASE u # t
        <4>1. Held(ts, u, j, x)
          BY <2>3, <2>4, <3>1 DEF Held
        <4> QED BY <3>1, <4>1 DEF Stays
      <3>2. CASE u = t /\ j \in 1..Len(F)
        <4>1. PlaceOf(x) \in G[j]
          BY <2>2, <2>3, <2>4, <3>2 DEF Held
        <4>2. PlaceOf(x) \in F[j] /\ ~(j = i /\ PlaceOf(x) = place)
          BY <1>5, <3>2, <4>1
        <4> QED BY <1>2, <1>10, <2>3, <3>2, <4>2 DEF Stays, Held, F, ts
      <3>3. CASE u = t /\ j = Len(F) + 1
        <4>1. x.at = s.to
          BY <1>9, <2>2, <2>3, <2>4, <3>3 DEF Held
        <4> QED BY <2>1, <3>3, <4>1 DEF Enters, F, ts
      <3> QED BY <1>2, <2>2, <2>3, <3>1, <3>2, <3>3
    <2>5. Typed(p, nt)
      BY <1>1, <2>3 DEF Typed
    <2> QED BY <1>4, <1>7, <2>1, <2>3, <2>4, <2>5 DEF Stepped, p, ts
  <1>12. CASE Publish(t, i, place)
    <2> DEFINE mt == WithRuns(ts, t, G)
               new == [frames |-> <<Places(p, s.to)>>, causes |-> ts[t].causes \cup {t}]
    <2>1. nt = Append(mt, new) /\ s.does = "kafka"
      BY <1>4, <1>12 DEF Publish, At, WithRuns, ts, p, G
    <2>2. /\ mt \in ThreadLists(p) /\ DOMAIN mt = DOMAIN ts
          /\ \A u \in DOMAIN ts : /\ mt[u].causes = ts[u].causes
                                  /\ mt[u].frames = IF u = t THEN G ELSE ts[u].frames
      <3>1. ts \in ThreadLists(p) /\ t \in DOMAIN ts
        BY <1>1 DEF ts
      <3>2. G \in RunLists(p)
        BY <1>5 DEF RunLists
      <3>3. WithRuns(ts, t, G) \in ThreadLists(p) /\ DOMAIN WithRuns(ts, t, G) = DOMAIN ts
        BY ONLY <3>1, <3>2, RunsTyped
      <3>4. \A u \in DOMAIN ts :
              /\ WithRuns(ts, t, G)[u].causes = ts[u].causes
              /\ WithRuns(ts, t, G)[u].frames = IF u = t THEN G ELSE ts[u].frames
        BY ONLY <3>1, <3>2, RunsReplaced
      <3> QED BY ONLY <3>3, <3>4
    <2>3. t \in 1..Len(ts) /\ ts[t].causes \in SUBSET Nat /\ ts[t].causes \cup {t} \in SUBSET Nat
      BY <1>1 DEF ts
    <2>4. new.frames = <<Places(p, s.to)>> /\ new.causes = ts[t].causes \cup {t}
      OBVIOUS
    <2>5. new \in Stacks(p)
      <3>1. <<Places(p, s.to)>> \in Seq(SUBSET AllPlaces(p))
        BY <1>8
      <3> QED BY <2>3, <3>1 DEF Stacks, RunLists
    <2> HIDE DEF mt, new
    <2>l. mt \in Seq(Stacks(p)) /\ Len(mt) = Len(ts)
      BY <1>1, <2>2 DEF ThreadLists
    <2>6. /\ nt \in Seq(Stacks(p)) /\ Len(nt) = Len(ts) + 1 /\ DOMAIN nt = 1..Len(ts) + 1
          /\ \A u \in 1..Len(ts) : nt[u] = mt[u]
          /\ nt[Len(ts) + 1] = new
      BY <1>1, <2>1, <2>2, <2>5, <2>l
    <2>7. ASSUME NEW u \in DOMAIN nt, NEW j \in DOMAIN nt[u].frames, NEW x \in p.sites,
                 Held(nt, u, j, x)
          PROVE  Stays(ts, t, i, s, u, j, x) \/ Enters(ts, t, s, u, j, x)
      <3>1. CASE u \in 1..Len(ts) /\ u # t
        <4>1. Held(ts, u, j, x)
          BY <1>1, <2>2, <2>6, <2>7, <3>1 DEF Held
        <4> QED BY <3>1, <4>1 DEF Stays
      <3>2. CASE u = t
        <4>1. PlaceOf(x) \in G[j] /\ j \in 1..Len(F)
          BY <1>1, <1>5, <2>2, <2>3, <2>6, <2>7, <3>2 DEF Held
        <4>2. PlaceOf(x) \in F[j] /\ ~(j = i /\ PlaceOf(x) = place)
          BY <1>5, <4>1
        <4> QED BY <1>1, <1>2, <1>10, <2>3, <3>2, <4>1, <4>2 DEF Stays, Held, F, ts
      <3>3. CASE u = Len(ts) + 1
        <4>1. j = 1 /\ PlaceOf(x) \in Places(p, s.to)
          BY <2>4, <2>6, <2>7, <3>3 DEF Held
        <4> QED BY <1>9, <2>1, <3>3, <4>1 DEF Enters
      <3> QED BY <1>1, <2>6, <3>1, <3>2, <3>3
    <2>8. /\ \A u \in DOMAIN ts : nt[u].causes = ts[u].causes
          /\ nt[Len(ts) + 1].causes = ts[t].causes \cup {t}
      BY <1>1, <2>2, <2>4, <2>6
    <2>9. Typed(p, nt)
      <3>1. \A v \in DOMAIN nt : \A u \in nt[v].causes : u \in DOMAIN nt /\ u < v
        <4> TAKE v \in DOMAIN nt
        <4> TAKE u \in nt[v].causes
        <4>1. CASE v \in 1..Len(ts)
          BY <1>1, <2>6, <2>8, <4>1
        <4>2. CASE v = Len(ts) + 1
          <5>1. u \in ts[t].causes \/ u = t
            BY <2>8, <4>2
          <5> QED BY <1>1, <2>3, <2>6, <4>2, <5>1
        <4> QED BY <1>1, <2>6, <4>1, <4>2
      <3> QED BY <2>6, <3>1 DEF Typed, ThreadLists
    <2> QED BY <1>4, <1>7, <2>7, <2>8, <2>9 DEF Stepped, p, ts
  <1>13. CASE Write(t, i, place) \/ Read(t, i, place)
    <2>1. nt = WithRuns(ts, t, G) /\ s.does \in {"write", "read"}
      BY <1>4, <1>13 DEF Write, Read, At, WithRuns, ts, G
    <2>2. /\ nt \in ThreadLists(p) /\ DOMAIN nt = DOMAIN ts
          /\ \A u \in DOMAIN ts : /\ nt[u].causes = ts[u].causes
                                  /\ nt[u].frames = IF u = t THEN G ELSE ts[u].frames
      <3>1. ts \in ThreadLists(p) /\ t \in DOMAIN ts
        BY <1>1 DEF ts
      <3>2. G \in RunLists(p)
        BY <1>5 DEF RunLists
      <3>3. WithRuns(ts, t, G) \in ThreadLists(p) /\ DOMAIN WithRuns(ts, t, G) = DOMAIN ts
        BY ONLY <3>1, <3>2, RunsTyped
      <3>4. \A u \in DOMAIN ts :
              /\ WithRuns(ts, t, G)[u].causes = ts[u].causes
              /\ WithRuns(ts, t, G)[u].frames = IF u = t THEN G ELSE ts[u].frames
        BY ONLY <3>1, <3>2, RunsReplaced
      <3> QED BY ONLY <2>1, <3>3, <3>4
    <2>3. ASSUME NEW u \in DOMAIN nt, NEW j \in DOMAIN nt[u].frames, NEW x \in p.sites,
                 Held(nt, u, j, x)
          PROVE  Stays(ts, t, i, s, u, j, x)
      <3>1. CASE u # t
        <4>1. Held(ts, u, j, x)
          BY <2>2, <2>3, <3>1 DEF Held
        <4> QED BY <3>1, <4>1 DEF Stays
      <3>2. CASE u = t
        <4>1. PlaceOf(x) \in G[j] /\ j \in 1..Len(F)
          BY <1>5, <2>2, <2>3, <3>2 DEF Held
        <4>2. PlaceOf(x) \in F[j] /\ ~(j = i /\ PlaceOf(x) = place)
          BY <1>5, <4>1
        <4> QED BY <1>2, <1>10, <2>2, <3>2, <4>1, <4>2 DEF Stays, Held, F, ts
      <3> QED BY <3>1, <3>2
    <2>4. Typed(p, nt)
      BY <1>1, <2>2 DEF Typed
    <2> QED BY <1>4, <1>7, <2>1, <2>2, <2>3, <2>4 DEF Stepped, p, ts
  <1> QED BY <1>11, <1>12, <1>13

\* What is to come of a chain after a step was to come before it, or is what
\* the step just taken leads to.
Comes(p, ts, nt, t, i, s, c, n, u, j) ==
  \/ Stays(ts, t, i, s, u, j, c[n])
  \/ /\ n - 1 \in DOMAIN c /\ c[n - 1] = s
     /\ s.does = "rest" => u = t /\ j = Len(ts[t].frames) + 1
     /\ s.does = "kafka" => u = Len(ts) + 1 /\ j = 1

LEMMA ChainComes ==
  ASSUME NEW p, Decided(p), NEW ts, NEW nt, NEW t, NEW i, NEW s,
         Stepped(p, ts, nt, t, i, s), NEW c, IsChain(p, c), NEW n \in DOMAIN c,
         NEW u, NEW j, Held(nt, u, j, c[n])
  PROVE  Comes(p, ts, nt, t, i, s, c, n, u, j)
  <1>1. DOMAIN c = 1..Len(c) /\ c[n] \in p.sites
    BY DEF IsChain
  <1>2. u \in DOMAIN nt /\ j \in DOMAIN nt[u].frames
    BY DEF Held
  <1>3. Stays(ts, t, i, s, u, j, c[n]) \/ Enters(ts, t, s, u, j, c[n])
    BY <1>1, <1>2 DEF Stepped
  <1>4. CASE Enters(ts, t, s, u, j, c[n])
    <2>1. s \in Departures(p) /\ c[n].at = s.to
      BY <1>4 DEF Enters, Stepped, Departures
    <2>2. n - 1 \in DOMAIN c /\ c[n - 1] = s
      BY <1>1, <2>1, ChainGoesOn
    <2> QED BY <1>4, <2>2 DEF Enters, Comes
  <1> QED BY <1>3, <1>4 DEF Comes

LEMMA OnceKept ==
  ASSUME NEW p, Decided(p), NEW ts, NEW nt, NEW t, NEW i, NEW s,
         Stepped(p, ts, nt, t, i, s), NEW c, IsChain(p, c), Once(ts, c)
  PROVE  Once(nt, c)
  <1> SUFFICES ASSUME NEW n \in DOMAIN c, NEW m \in DOMAIN c, NEW u, NEW v, NEW j, NEW k,
                      Held(nt, u, j, c[n]), Held(nt, v, k, c[m])
               PROVE  n = m /\ u = v /\ j = k
    BY DEF Once
  <1>1. /\ Comes(p, ts, nt, t, i, s, c, n, u, j)
        /\ Comes(p, ts, nt, t, i, s, c, m, v, k)
    BY ChainComes
  <1>2. ASSUME NEW a \in DOMAIN c, NEW b \in DOMAIN c, NEW x, NEW y, NEW g, NEW h,
               Held(ts, x, g, c[a]), Held(ts, y, h, c[b])
        PROVE  a = b /\ x = y /\ g = h
    BY <1>2 DEF Once, Held
  <1>3. Held(ts, t, i, s) /\ DOMAIN c = 1..Len(c) /\ n \in Int /\ m \in Int
    BY DEF Stepped, IsChain
  <1>4. s.does = "rest" \/ s.does = "kafka" \/ s \notin Departures(p)
    BY DEF Departures, Stepped
  <1>5. \A a \in DOMAIN c : a - 1 \in DOMAIN c => c[a - 1] \in Departures(p)
    BY DEF IsChain
  <1>6. CASE Stays(ts, t, i, s, u, j, c[n]) /\ Stays(ts, t, i, s, v, k, c[m])
    BY <1>2, <1>6 DEF Stays
  <1>7. CASE Stays(ts, t, i, s, u, j, c[n]) /\ ~Stays(ts, t, i, s, v, k, c[m])
    <2>1. m - 1 \in DOMAIN c /\ c[m - 1] = s
      BY <1>1, <1>7 DEF Comes
    <2>2. n = m - 1 /\ u = t /\ j = i
      BY <1>2, <1>3, <1>7, <2>1 DEF Stays
    <2> QED BY <1>7, <2>1, <2>2 DEF Stays
  <1>8. CASE ~Stays(ts, t, i, s, u, j, c[n]) /\ Stays(ts, t, i, s, v, k, c[m])
    <2>1. n - 1 \in DOMAIN c /\ c[n - 1] = s
      BY <1>1, <1>8 DEF Comes
    <2>2. m = n - 1 /\ v = t /\ k = i
      BY <1>2, <1>3, <1>8, <2>1 DEF Stays
    <2> QED BY <1>8, <2>1, <2>2 DEF Stays
  <1>9. CASE ~Stays(ts, t, i, s, u, j, c[n]) /\ ~Stays(ts, t, i, s, v, k, c[m])
    <2>1. n - 1 \in DOMAIN c /\ c[n - 1] = s /\ m - 1 \in DOMAIN c /\ c[m - 1] = s
      BY <1>1, <1>9 DEF Comes
    <2>2. n - 1 = m - 1
      BY <1>2, <1>3, <2>1
    <2>3. s \in Departures(p)
      BY <1>5, <2>1
    <2> QED BY <1>1, <1>3, <1>4, <1>9, <2>2, <2>3 DEF Comes
  <1> QED BY <1>6, <1>7, <1>8, <1>9

LEMMA PublishedGrows ==
  ASSUME NEW c, NEW f \in Int
  PROVE  /\ ~Publishes(c, f, f)
         /\ \A n \in Int : n >= f =>
              (Publishes(c, f, n + 1) <=> Publishes(c, f, n) \/ c[n].does = "kafka")
         /\ \A n, m \in Int : Publishes(c, f, n) /\ n <= m => Publishes(c, f, m)
  <1>1. ~Publishes(c, f, f)
    BY DEF Publishes
  <1>2. ASSUME NEW n \in Int, n >= f
        PROVE  Publishes(c, f, n + 1) <=> Publishes(c, f, n) \/ c[n].does = "kafka"
    <2>1. \A i : i \in f..n + 1 - 1 <=> i \in f..n - 1 \/ i = n
      BY <1>2
    <2> QED BY <2>1 DEF Publishes
  <1>3. ASSUME NEW n \in Int, NEW m \in Int, Publishes(c, f, n), n <= m
        PROVE  Publishes(c, f, m)
    BY <1>3 DEF Publishes
  <1> QED BY <1>1, <1>2, <1>3

LEMMA RelatedKept ==
  ASSUME NEW p, Decided(p), NEW ts, NEW nt, NEW t, NEW i, NEW s,
         Typed(p, ts), Stepped(p, ts, nt, t, i, s), AllRelated(p, ts)
  PROVE  AllRelated(p, nt)
  <1> DEFINE wc == WriteChain(p)
             rc == ReadChain(p)
             f == Fork(p)
  <1> SUFFICES ASSUME NEW n \in DOMAIN wc, NEW m \in DOMAIN rc, NEW u, NEW v, NEW j, NEW k,
                      Held(nt, u, j, wc[n]), Held(nt, v, k, rc[m])
               PROVE  Related(p, nt[u].causes, u, j, n, v, k, m)
    BY DEF AllRelated
  <1>1. /\ IsChain(p, wc) /\ IsChain(p, rc) /\ f \in Int
        /\ DOMAIN wc = 1..Len(wc) /\ DOMAIN rc = 1..Len(rc)
        /\ \A a \in 1..f - 1 : wc[a] = rc[a]
        /\ f \in DOMAIN wc /\ f \in DOMAIN rc
        /\ wc[f] = AtWrite(p) /\ rc[f] = AtRead(p)
    <2>1. /\ IsChain(p, wc) /\ IsChain(p, rc)
          /\ f \in 1..Len(wc) /\ f \in 1..Len(rc)
          /\ \A a \in 1..f - 1 : wc[a] = rc[a]
      BY ChainsPart
    <2>2. DOMAIN wc = 1..Len(wc) /\ DOMAIN rc = 1..Len(rc)
      BY <2>1 DEF IsChain
    <2> QED BY <2>1, <2>2 DEF AtWrite, AtRead
  <1>2. n \in Int /\ m \in Int /\ n >= 1 /\ m >= 1
    BY <1>1 DEF IsChain
  <1>3. Comes(p, ts, nt, t, i, s, wc, n, u, j) /\ Comes(p, ts, nt, t, i, s, rc, m, v, k)
    BY <1>1, ChainComes
  <1>4. ASSUME NEW a \in DOMAIN wc, NEW b \in DOMAIN rc, NEW x, NEW y, NEW g, NEW h,
               Held(ts, x, g, wc[a]), Held(ts, y, h, rc[b])
        PROVE  Related(p, ts[x].causes, x, g, a, y, h, b)
    BY <1>4 DEF AllRelated, Held
  <1>5. /\ Held(ts, t, i, s) /\ s \in p.sites
        /\ t \in DOMAIN ts /\ DOMAIN ts = 1..Len(ts) /\ Len(ts) \in Nat
        /\ i \in DOMAIN ts[t].frames
        /\ DOMAIN ts[t].frames = 1..Len(ts[t].frames) /\ Len(ts[t].frames) \in Nat
    BY DEF Stepped, Held, Typed, ThreadLists, Stacks, RunLists
  <1>6. \A x \in DOMAIN ts : /\ nt[x].causes = ts[x].causes
                             /\ x # Len(ts) + 1 /\ Len(ts) + 1 \notin ts[x].causes
    BY <1>5 DEF Stepped, Typed
  <1>7. \A g \in DOMAIN ts[t].frames : \A x \in p.sites :
          Held(ts, t, g, x) => g <= i /\ (g = i => ~Earlier(PlaceOf(x), PlaceOf(s)))
    BY DEF Stepped
  <1>8. /\ ~WritePublished(p, f) /\ ~ReadPublished(p, f)
        /\ \A a \in Int : a >= f =>
             /\ WritePublished(p, a + 1) <=> WritePublished(p, a) \/ wc[a].does = "kafka"
             /\ ReadPublished(p, a + 1) <=> ReadPublished(p, a) \/ rc[a].does = "kafka"
    BY <1>1, PublishedGrows DEF WritePublished, ReadPublished
  <1>9. (\A a \in DOMAIN wc : wc[a] \in p.sites) /\ (\A a \in DOMAIN rc : rc[a] \in p.sites)
    BY <1>1 DEF IsChain
  <1>10. /\ n - 1 \in DOMAIN wc => wc[n - 1].does \in {"rest", "kafka"}
         /\ m - 1 \in DOMAIN rc => rc[m - 1].does \in {"rest", "kafka"}
    <2>1. ASSUME NEW c, IsChain(p, c), NEW a \in DOMAIN c, a - 1 \in DOMAIN c
          PROVE  c[a - 1].does \in {"rest", "kafka"}
      BY <2>1 DEF IsChain, Departures
    <2> QED BY <1>1, <2>1
  <1>11. s.does = "kafka" => nt[Len(ts) + 1].causes = ts[t].causes \cup {t}
    BY DEF Stepped
  <1> HIDE DEF wc, rc, f
  \* Both steps were to come before.
  <1>12. CASE Stays(ts, t, i, s, u, j, wc[n]) /\ Stays(ts, t, i, s, v, k, rc[m])
    <2>1. Held(ts, u, j, wc[n]) /\ Held(ts, v, k, rc[m]) /\ u \in DOMAIN ts
      BY <1>12 DEF Stays, Held
    <2>2. nt[u].causes = ts[u].causes
      BY <1>6, <2>1
    <2> QED BY <1>4, <2>1, <2>2
  \* The write's chain goes on, the read's step was to come before.
  <1>13. CASE ~Stays(ts, t, i, s, u, j, wc[n]) /\ Stays(ts, t, i, s, v, k, rc[m])
    <2> DEFINE a == n - 1
    <2>1. /\ a \in DOMAIN wc /\ wc[a] = s
          /\ s.does = "rest" => u = t /\ j = Len(ts[t].frames) + 1
          /\ s.does = "kafka" => u = Len(ts) + 1 /\ j = 1
      BY <1>3, <1>13 DEF Comes
    <2>2. /\ Held(ts, v, k, rc[m]) /\ ~(v = t /\ k = i /\ rc[m] = s)
          /\ v \in DOMAIN ts /\ k \in DOMAIN ts[v].frames
      BY <1>13 DEF Stays, Held
    <2>3. Related(p, ts[t].causes, t, i, a, v, k, m)
      BY <1>4, <1>5, <2>1, <2>2
    <2>4. a >= f /\ m >= f /\ a \in Int /\ n = a + 1
      <3>1. a \in Int /\ n = a + 1 /\ a >= 1
        BY <1>1, <1>2, <2>1
      <3>2. ASSUME a < f \/ m < f PROVE FALSE
        <4>1. a = m /\ t = v /\ i = k
          BY <2>3, <3>2 DEF Related, f
        <4>2. a \in 1..f - 1
          BY <1>1, <3>1, <3>2, <4>1
        <4> QED BY <1>1, <2>1, <2>2, <4>1, <4>2
      <3> QED BY <1>1, <1>2, <3>1, <3>2
    <2>5. BehindFork(p, ts[t].causes, t, i, a, v, k, m)
      BY <1>1, <1>2, <2>3, <2>4 DEF Related, f
    <2>6. s.does \in {"rest", "kafka"}
      BY <1>10, <2>1
    <2>7. WritePublished(p, n) <=> WritePublished(p, a) \/ s.does = "kafka"
      BY <1>8, <2>1, <2>4
    <2> HIDE DEF a
    <2>8. CASE s.does = "rest"
      <3>1. u = t /\ j = Len(ts[t].frames) + 1 /\ nt[u].causes = ts[t].causes
            /\ (WritePublished(p, n) <=> WritePublished(p, a))
        BY <1>5, <1>6, <2>1, <2>7, <2>8
      <3>2. v = t => k < j
        BY <1>5, <2>2, <3>1
      <3>3. ASSUME ReadFirst(p), ~ReadPublished(p, m), a = f PROVE FALSE
        <4>1. v = t
          BY <1>8, <2>5, <3>3 DEF BehindFork, f
        <4>2. k <= i /\ (k = i => ~Earlier(PlaceOf(rc[m]), PlaceOf(s)))
          BY <1>7, <1>9, <2>2, <4>1
        <4>3. CASE m = f
          BY <1>1, <2>1, <2>5, <3>3, <4>2, <4>3 DEF BehindFork, ReadFirst, f
        <4>4. CASE m > f
          <5>1. i < k
            BY <2>5, <3>3, <4>4 DEF BehindFork, f
          <5>2. k \in Int /\ i \in Int
            BY <1>5, <2>2, <4>1
          <5> QED BY <4>2, <5>1, <5>2
        <4> QED BY <1>1, <1>2, <2>4, <4>3, <4>4
      <3>4. n > f /\ n # f
        BY <1>1, <2>4
      <3>5. ReadFirst(p) /\ ~ReadPublished(p, m) => FALSE
        BY <2>5, <3>3 DEF BehindFork, f
      <3>6. BehindFork(p, nt[u].causes, u, j, n, v, k, m)
        <4>1. /\ n = f /\ m = f => u = v /\ j = k
              /\ n = f /\ m > f /\ ~ReadPublished(p, m) => j < k
              /\ ReadFirst(p) /\ ~ReadPublished(p, m) => n = f
          BY <3>4, <3>5
        <4>2. /\ ~WritePublished(p, n) /\ ~ReadPublished(p, m) => u = v
              /\ ReadPublished(p, m) => v # u /\ v \notin nt[u].causes
              /\ WritePublished(p, n) /\ ~ReadPublished(p, m) => v \in nt[u].causes
              /\ WriteFirst(p) /\ ~ReadPublished(p, m) /\ m > f => WritePublished(p, n)
          BY <2>5, <3>1 DEF BehindFork, f
        <4>3. m = f /\ n > f /\ ~WritePublished(p, n) => k < j
          BY <1>8, <3>1, <3>2, <4>2
        <4> QED BY <4>1, <4>2, <4>3 DEF BehindFork, f
      <3> QED BY <1>1, <1>2, <2>4, <3>4, <3>6 DEF Related, f
    <2>9. CASE s.does = "kafka"
      <3>1. u = Len(ts) + 1 /\ nt[u].causes = ts[t].causes \cup {t} /\ WritePublished(p, n)
        BY <1>11, <2>1, <2>7, <2>9
      <3>2. v # u
        BY <1>6, <2>2, <3>1
      <3>3. ASSUME ReadFirst(p), ~ReadPublished(p, m), a = f PROVE FALSE
        <4>1. v = t
          BY <1>8, <2>5, <3>3 DEF BehindFork, f
        <4>2. k <= i /\ (k = i => ~Earlier(PlaceOf(rc[m]), PlaceOf(s)))
          BY <1>7, <1>9, <2>2, <4>1
        <4>3. CASE m = f
          BY <1>1, <2>1, <2>5, <3>3, <4>2, <4>3 DEF BehindFork, ReadFirst, f
        <4>4. CASE m > f
          <5>1. i < k
            BY <2>5, <3>3, <4>4 DEF BehindFork, f
          <5>2. k \in Int /\ i \in Int
            BY <1>5, <2>2, <4>1
          <5> QED BY <4>2, <5>1, <5>2
        <4> QED BY <1>1, <1>2, <2>4, <4>3, <4>4
      <3>4. n > f /\ n # f
        BY <1>1, <2>4
      <3>5. ReadFirst(p) /\ ~ReadPublished(p, m) => FALSE
        BY <2>5, <3>3 DEF BehindFork, f
      <3>6. BehindFork(p, nt[u].causes, u, j, n, v, k, m)
        <4>1. /\ n = f /\ m = f => u = v /\ j = k
              /\ n = f /\ m > f /\ ~ReadPublished(p, m) => j < k
              /\ ReadFirst(p) /\ ~ReadPublished(p, m) => n = f
          BY <3>4, <3>5
        <4>2. /\ ReadPublished(p, m) => v # u /\ v \notin nt[u].causes
              /\ WritePublished(p, n) /\ ~ReadPublished(p, m) => v \in nt[u].causes
          BY <2>5, <3>1, <3>2 DEF BehindFork, f
        <4> QED BY <3>1, <4>1, <4>2 DEF BehindFork, f
      <3> QED BY <1>1, <1>2, <2>4, <3>4, <3>6 DEF Related, f
    <2> QED BY <2>6, <2>8, <2>9
  \* The read's chain goes on, the write's step was to come before.
  <1>14. CASE Stays(ts, t, i, s, u, j, wc[n]) /\ ~Stays(ts, t, i, s, v, k, rc[m])
    <2> DEFINE b == m - 1
    <2>1. /\ b \in DOMAIN rc /\ rc[b] = s
          /\ s.does = "rest" => v = t /\ k = Len(ts[t].frames) + 1
          /\ s.does = "kafka" => v = Len(ts) + 1 /\ k = 1
      BY <1>3, <1>14 DEF Comes
    <2>2. /\ Held(ts, u, j, wc[n]) /\ ~(u = t /\ j = i /\ wc[n] = s)
          /\ u \in DOMAIN ts /\ j \in DOMAIN ts[u].frames
      BY <1>14 DEF Stays, Held
    <2>3. Related(p, ts[u].causes, u, j, n, t, i, b)
      BY <1>4, <1>5, <2>1, <2>2
    <2>4. n >= f /\ b >= f /\ b \in Int /\ m = b + 1
      <3>1. b \in Int /\ m = b + 1 /\ b >= 1
        BY <1>1, <1>2, <2>1
      <3>2. ASSUME n < f \/ b < f PROVE FALSE
        <4>1. n = b /\ u = t /\ j = i
          BY <2>3, <3>2 DEF Related, f
        <4>2. n \in 1..f - 1
          BY <1>1, <1>2, <3>1, <3>2, <4>1
        <4> QED BY <1>1, <2>1, <2>2, <4>1, <4>2
      <3> QED BY <1>1, <1>2, <3>1, <3>2
    <2>5. BehindFork(p, ts[u].causes, u, j, n, t, i, b)
      BY <1>1, <1>2, <2>3, <2>4 DEF Related, f
    <2>6. s.does \in {"rest", "kafka"}
      BY <1>10, <2>1
    <2>7. ReadPublished(p, m) <=> ReadPublished(p, b) \/ s.does = "kafka"
      BY <1>8, <2>1, <2>4
    <2>8. nt[u].causes = ts[u].causes /\ m > f /\ m # f
      BY <1>1, <1>6, <2>2, <2>4
    <2> HIDE DEF b
    <2>9. CASE s.does = "rest"
      <3>1. v = t /\ k = Len(ts[t].frames) + 1 /\ (ReadPublished(p, m) <=> ReadPublished(p, b))
        BY <2>1, <2>7, <2>9
      <3>2. u = t => j < k
        BY <1>5, <2>2, <3>1
      <3>3. /\ ~WritePublished(p, n) /\ ~ReadPublished(p, m) => u = v
            /\ ReadPublished(p, m) => v # u /\ v \notin nt[u].causes
            /\ WritePublished(p, n) /\ ~ReadPublished(p, m) => v \in nt[u].causes
            /\ ReadFirst(p) /\ ~ReadPublished(p, m) => n = f
        BY <2>5, <2>8, <3>1 DEF BehindFork, f
      <3>4. n = f /\ m > f /\ ~ReadPublished(p, m) => j < k
        BY <1>8, <3>1, <3>2, <3>3
      <3>5. ASSUME WriteFirst(p), ~ReadPublished(p, m), ~WritePublished(p, n) PROVE FALSE
        <4>1. u = t /\ b = f
          BY <1>1, <2>4, <2>5, <3>1, <3>5 DEF BehindFork, f
        <4>2. j <= i /\ (j = i => ~Earlier(PlaceOf(wc[n]), PlaceOf(s)))
          BY <1>7, <1>9, <2>2, <4>1
        <4>3. CASE n = f
          BY <1>1, <2>1, <2>5, <3>5, <4>1, <4>2, <4>3 DEF BehindFork, WriteFirst, f
        <4>4. CASE n > f
          <5>1. i < j
            BY <2>5, <3>5, <4>1, <4>4 DEF BehindFork, f
          <5>2. j \in Int /\ i \in Int
            BY <1>5, <2>2, <4>1
          <5> QED BY <4>2, <5>1, <5>2
        <4> QED BY <1>1, <1>2, <2>4, <4>3, <4>4
      <3>6. BehindFork(p, nt[u].causes, u, j, n, v, k, m)
        BY <2>8, <3>3, <3>4, <3>5 DEF BehindFork, f
      <3> QED BY <1>1, <1>2, <2>4, <2>8, <3>6 DEF Related, f
    <2>10. CASE s.does = "kafka"
      <3>1. v = Len(ts) + 1 /\ ReadPublished(p, m)
        BY <2>1, <2>7, <2>10
      <3>2. v # u /\ v \notin nt[u].causes
        BY <1>6, <2>2, <2>8, <3>1
      <3>3. BehindFork(p, nt[u].causes, u, j, n, v, k, m)
        BY <2>8, <3>1, <3>2 DEF BehindFork, f
      <3> QED BY <1>1, <1>2, <2>4, <2>8, <3>3 DEF Related, f
    <2> QED BY <2>6, <2>9, <2>10
  \* Both chains go on: they have not parted yet.
  <1>15. CASE ~Stays(ts, t, i, s, u, j, wc[n]) /\ ~Stays(ts, t, i, s, v, k, rc[m])
    <2> DEFINE a == n - 1
               b == m - 1
    <2>1. /\ a \in DOMAIN wc /\ wc[a] = s
          /\ s.does = "rest" => u = t /\ j = Len(ts[t].frames) + 1
          /\ s.does = "kafka" => u = Len(ts) + 1 /\ j = 1
      BY <1>3, <1>15 DEF Comes
    <2>2. /\ b \in DOMAIN rc /\ rc[b] = s
          /\ s.does = "rest" => v = t /\ k = Len(ts[t].frames) + 1
          /\ s.does = "kafka" => v = Len(ts) + 1 /\ k = 1
      BY <1>3, <1>15 DEF Comes
    <2>3. s.does \in {"rest", "kafka"}
      BY <1>10, <2>1
    <2>4. u = v /\ j = k
      BY <2>1, <2>2, <2>3
    <2>5. Related(p, ts[t].causes, t, i, a, t, i, b)
      BY <1>4, <1>5, <2>1, <2>2
    <2>6. a < f \/ b < f
      <3>1. ASSUME a >= f, b >= f PROVE FALSE
        <4>1. a \in 1..Len(WriteChain(p)) /\ b \in 1..Len(ReadChain(p))
          BY <1>1, <2>1, <2>2 DEF wc, rc
        <4>2. WriteChain(p)[a] # ReadChain(p)[b]
          BY <3>1, <4>1, ChainsStayApart DEF f
        <4> QED BY <2>1, <2>2, <4>2 DEF wc, rc
      <3> QED BY <1>1, <1>2, <3>1
    <2>7. n = m /\ n <= f
      BY <1>1, <1>2, <2>5, <2>6 DEF Related, f
    <2>8. CASE n < f
      BY <2>4, <2>7, <2>8 DEF Related, f
    <2>9. CASE n = f
      <3>1. BehindFork(p, nt[u].causes, u, j, n, v, k, m)
        BY <1>1, <1>8, <2>4, <2>7, <2>9 DEF BehindFork, f
      <3> QED BY <1>1, <2>7, <2>9, <3>1 DEF Related, f
    <2> QED BY <1>1, <1>2, <2>7, <2>8, <2>9
  <1> QED BY <1>12, <1>13, <1>14, <1>15

LEMMA RunsAreTyped ==
  ASSUME NEW p, NEW ts, Typed(p, ts), NEW u \in DOMAIN ts
  PROVE  \A j \in DOMAIN ts[u].frames : j \in Int /\ ts[u].frames[j] \in SUBSET AllPlaces(p)
  <1>1. ts \in Seq(Stacks(p))
    BY DEF Typed, ThreadLists
  <1>2. ts[u] \in Stacks(p)
    BY <1>1
  <1>3. ts[u].frames \in Seq(SUBSET AllPlaces(p))
    BY <1>2 DEF Stacks, RunLists
  <1> QED BY <1>3

\* A thread owes the write when a step of the write's chain is to come in it.
LEMMA OwesIsHeld ==
  ASSUME Decided(program), Typed(program, threads), NEW u \in DOMAIN threads
  PROVE  Owes(threads[u]) <=>
           \E j \in DOMAIN threads[u].frames : \E n \in DOMAIN WriteChain(program) :
              Held(threads, u, j, WriteChain(program)[n])
  <1> DEFINE p == program
             w == TheWrite(p)
             route == RouteTo(p, w.at)
             wc == WriteChain(p)
             below == {r \in Routes(p, Departures(p)) : End(r) = w.at}
             Leads(s) == s = w \/ \E r \in below : s \in ToSet(r)
             frames == threads[u].frames
  <1>1. Owes(threads[u]) <=> \E j \in DOMAIN frames : \E a \in frames[j] : Leads(a.site)
    BY DEF Owes
  <1>2. w \in p.sites /\ w \notin Departures(p)
    BY ThePair
  <1>3. below = {route}
    <2>1. w.at \in 0..Depth(p)
      BY <1>2, SitesAreTyped
    <2> QED BY <2>1, TheRoute
  <1>4. /\ Len(wc) = Len(route) + 1 /\ wc[Len(wc)] = w
        /\ \A n \in 1..Len(route) : wc[n] = route[n]
    BY <1>2, ChainFacts DEF WriteChain
  <1>5. DOMAIN wc = 1..Len(wc) /\ \A n \in DOMAIN wc : wc[n] \in p.sites
    <2>1. IsChain(p, wc)
      BY ChainsPart
    <2> QED BY <2>1 DEF IsChain
  <1>6. DOMAIN route = 1..Len(route) /\ Len(route) \in Nat
    <2>1. route \in Routes(p, Departures(p))
      BY <1>3
    <2> QED BY <2>1, RouteFacts
  <1>7. \A s : Leads(s) <=> \E n \in DOMAIN wc : wc[n] = s
    <2>1. ToSet(route) = {route[n] : n \in 1..Len(route)}
      BY <1>6 DEF ToSet
    <2>2. \A s : Leads(s) <=> s = w \/ s \in ToSet(route)
      BY <1>3
    <2> HIDE DEF Leads, route, wc, w
    <2>3. \A n \in DOMAIN wc : n \in 1..Len(route) \/ n = Len(wc)
      BY <1>4, <1>5, <1>6
    <2>4. \A n \in 1..Len(route) : n \in DOMAIN wc
      BY <1>4, <1>5, <1>6
    <2>5. Len(wc) \in DOMAIN wc
      BY <1>4, <1>5, <1>6
    <2> QED BY <1>4, <2>1, <2>2, <2>3, <2>4, <2>5
  <1>8. \A j \in DOMAIN frames : \A a \in frames[j] :
          a = PlaceOf(a.site) /\ a.site \in p.sites
    <2>1. \A j \in DOMAIN frames : frames[j] \in SUBSET AllPlaces(p)
      BY RunsAreTyped
    <2> QED BY <2>1, PlacesOfSites DEF AllPlaces
  <1> HIDE DEF Leads, wc, w, route, below
  <1>9. ASSUME NEW j \in DOMAIN frames, NEW a \in frames[j], Leads(a.site)
        PROVE  \E n \in DOMAIN wc : Held(threads, u, j, wc[n])
    <2>1. PICK n \in DOMAIN wc : wc[n] = a.site
      BY <1>7, <1>9
    <2> QED BY <1>8, <2>1 DEF Held
  <1>10. ASSUME NEW j \in DOMAIN frames, NEW n \in DOMAIN wc, Held(threads, u, j, wc[n])
         PROVE  \E a \in frames[j] : Leads(a.site)
    <2>1. PlaceOf(wc[n]) \in frames[j] /\ PlaceOf(wc[n]).site = wc[n]
      BY <1>10, PlacesOfSites DEF Held
    <2> QED BY <1>7, <2>1
  <1>11. Owes(threads[u]) <=>
           \E j \in DOMAIN frames : \E n \in DOMAIN wc : Held(threads, u, j, wc[n])
    BY <1>1, <1>9, <1>10
  <1> QED BY <1>11 DEF wc

\* A stale read is behind the fork of a publication that the read's branch
\* lacks; an early one is not where the publication came first.
LEMMA ReadSays ==
  ASSUME NEW t \in DOMAIN threads, NEW i \in DOMAIN threads[t].frames,
         NEW place \in threads[t].frames[i],
         Decided(program), Inv, Read(t, i, place)
  PROVE  SeenSays'
  <1> DEFINE p == program
             wc == WriteChain(p)
             rc == ReadChain(p)
             f == Fork(p)
             m == Len(rc)
             s == place.site
             ts == threads
  <1>1. /\ p' = p /\ Typed(p, ts) /\ AllRelated(p, ts) /\ SeenSays
    BY DEF Inv, TypeOK, Read
  <1>2. place = PlaceOf(s) /\ Stepped(p, ts, threads', t, i, s)
    BY <1>1, StepsStep
  <1>3. s = TheRead(p) /\ s \in p.sites
    BY <1>2, ThePair DEF Read, At, Stepped
  <1>4. /\ IsChain(p, wc) /\ IsChain(p, rc) /\ rc[m] = s
        /\ f \in 1..Len(wc) /\ f \in 1..Len(rc)
    BY <1>3, ChainsPart
  <1>5. /\ DOMAIN wc = 1..Len(wc) /\ DOMAIN rc = 1..Len(rc)
        /\ Len(wc) \in Nat /\ Len(rc) \in Nat \ {0}
        /\ \A a \in DOMAIN wc : wc[a] \in p.sites
    BY <1>4 DEF IsChain
  <1>6. f \in Int /\ m \in Int /\ m \in DOMAIN rc /\ m >= f
    BY <1>4, <1>5
  <1>7. Held(ts, t, i, rc[m])
    BY <1>2, <1>4 DEF Stepped
  \* How a step of the write's chain that is to come stands to the read.
  <1>8. ASSUME NEW u \in DOMAIN ts, NEW j \in DOMAIN ts[u].frames, NEW n \in DOMAIN wc,
               Held(ts, u, j, wc[n])
        PROVE  n >= f /\ n \in Int /\ n <= Len(wc) /\ BehindFork(p, ts[u].causes, u, j, n, t, i, m)
    <2>1. Related(p, ts[u].causes, u, j, n, t, i, m)
      BY <1>1, <1>6, <1>7, <1>8 DEF AllRelated, Held
    <2>2. n \in Int /\ n <= Len(wc)
      BY <1>5
    <2> QED BY <1>6, <2>1, <2>2 DEF Related
  <1>9. t \in DOMAIN ts /\ DOMAIN ts = 1..Len(ts) /\ Len(ts) \in Nat /\ t \notin ts[t].causes
    BY <1>1 DEF Typed, ThreadLists
  <1>10. /\ ReadBehind(p) <=> ReadPublished(p, m)
         /\ \A n \in Int : n <= Len(wc) /\ WritePublished(p, n) => WriteBehind(p)
         /\ ~WritePublished(p, f) /\ ~ReadPublished(p, f)
    BY <1>5, <1>6, PublishedGrows
       DEF ReadBehind, WriteBehind, PublishesFrom, ReadPublished, WritePublished
  <1>11. \A u \in DOMAIN ts : Owes(ts[u]) <=>
           \E j \in DOMAIN ts[u].frames : \E n \in DOMAIN wc : Held(ts, u, j, wc[n])
    BY <1>1, OwesIsHeld
  <1>12. \A g \in DOMAIN ts[t].frames : \A x \in p.sites :
           Held(ts, t, g, x) => g <= i /\ (g = i => ~Earlier(PlaceOf(x), PlaceOf(s)))
    BY <1>2 DEF Stepped
  <1>13. AtRead(p) = rc[f] /\ AtWrite(p) = wc[f]
    BY DEF AtRead, AtWrite
  <1>14. seen' = IF seen = "stale" \/ \E u \in DOMAIN ts : Owes(ts[u]) /\ t \in ts[u].causes
                 THEN "stale"
                 ELSE IF \E u \in DOMAIN ts : Owes(ts[u]) THEN "early" ELSE "fresh"
    BY DEF Read
  <1> HIDE DEF p, wc, rc, f, m, ts, s
  <1>15. ASSUME NEW u \in DOMAIN ts, Owes(ts[u]), t \in ts[u].causes
         PROVE  WriteBehind(p) /\ ~ReadBehind(p) /\ ~ReadFirst(p)
    <2>1. PICK j \in DOMAIN ts[u].frames, n \in DOMAIN wc : Held(ts, u, j, wc[n])
      BY <1>11, <1>15
    <2>2. n >= f /\ n \in Int /\ n <= Len(wc) /\ BehindFork(p, ts[u].causes, u, j, n, t, i, m)
      BY <1>8, <2>1
    <2>3. u # t
      BY <1>9, <1>15
    <2>4. ~ReadPublished(p, m)
      BY <1>15, <2>2 DEF BehindFork
    <2>5. WritePublished(p, n)
      BY <2>2, <2>3, <2>4 DEF BehindFork
    <2>6. n # f
      BY <1>10, <2>5
    <2>7. ~ReadFirst(p)
      BY <2>2, <2>4, <2>6 DEF BehindFork, f
    <2> QED BY <1>10, <2>2, <2>4, <2>5, <2>7
  <1>16. ASSUME NEW u \in DOMAIN ts, Owes(ts[u]), t \notin ts[u].causes,
                WriteBehind(p), ~ReadBehind(p), WriteFirst(p)
         PROVE  FALSE
    <2>1. PICK j \in DOMAIN ts[u].frames, n \in DOMAIN wc : Held(ts, u, j, wc[n])
      BY <1>11, <1>16
    <2>2. n >= f /\ n \in Int /\ n <= Len(wc) /\ BehindFork(p, ts[u].causes, u, j, n, t, i, m)
      BY <1>8, <2>1
    <2>3. ~ReadPublished(p, m)
      BY <1>10, <1>16
    <2>4. ~WritePublished(p, n) /\ u = t /\ m = f
      BY <1>6, <1>16, <2>2, <2>3 DEF BehindFork, f
    <2>5. j <= i /\ (j = i => ~Earlier(PlaceOf(wc[n]), PlaceOf(s)))
      BY <1>5, <1>12, <2>1, <2>4
    <2>6. CASE n = f
      BY <1>4, <1>13, <1>16, <2>2, <2>4, <2>5, <2>6 DEF BehindFork, WriteFirst, f
    <2>7. CASE n > f
      <3>1. i < j
        BY <2>2, <2>4, <2>7 DEF BehindFork, f
      <3>2. i \in Int /\ j \in Int
        BY <1>1, <2>1, <2>4, RunsAreTyped DEF ts
      <3> QED BY <2>5, <3>1, <3>2
    <2> QED BY <1>6, <2>2, <2>6, <2>7
  <1>17. /\ seen' = "stale" => WriteBehind(p) /\ ~ReadBehind(p) /\ ~ReadFirst(p)
         /\ seen' = "early" => ~(WriteBehind(p) /\ ~ReadBehind(p) /\ WriteFirst(p))
    <2>1. CASE seen = "stale"
      BY <1>1, <1>14, <2>1 DEF SeenSays, p
    <2>2. CASE seen # "stale" /\ \E u \in DOMAIN ts : Owes(ts[u]) /\ t \in ts[u].causes
      BY <1>14, <1>15, <2>2
    <2>3. CASE seen # "stale" /\ ~\E u \in DOMAIN ts : Owes(ts[u]) /\ t \in ts[u].causes
      BY <1>14, <1>16, <2>3
    <2> QED BY <2>1, <2>2, <2>3
  <1> QED BY <1>1, <1>17 DEF SeenSays, p

LEMMA InvHoldsFirst ==
  ASSUME \A p \in Programs : Decided(p), Init
  PROVE  Inv
  <1> DEFINE p == program
             wc == WriteChain(p)
             rc == ReadChain(p)
             run == Places(p, 0)
             first == [frames |-> <<run>>, causes |-> {}]
  <1>1. Decided(p) /\ p \in Programs /\ verdict = Verdict(p) /\ threads = <<first>> /\ seen = "nothing"
    BY DEF Init
  <1>2. run \in SUBSET AllPlaces(p) /\ \A x : PlaceOf(x) \in run => x.at = 0
    BY <1>1, PlacesOfSites
  <1> HIDE DEF p, run
  <1>3. first.frames = <<run>> /\ first.causes = {}
    OBVIOUS
  <1>4. first \in Stacks(p)
    <2>1. <<run>> \in Seq(SUBSET AllPlaces(p))
      BY <1>2
    <2> QED BY <2>1 DEF Stacks, RunLists
  <1> HIDE DEF first
  <1>5. threads \in Seq(Stacks(p)) /\ DOMAIN threads = {1} /\ threads[1] = first
    BY <1>1, <1>4
  <1>6. Typed(p, threads)
    BY <1>3, <1>5 DEF Typed, ThreadLists
  <1>7. ASSUME NEW t, NEW i, NEW x, Held(threads, t, i, x)
        PROVE  t = 1 /\ i = 1 /\ x.at = 0
    <2>1. t = 1
      BY <1>5, <1>7 DEF Held
    <2>2. i \in DOMAIN <<run>> /\ PlaceOf(x) \in <<run>>[i]
      BY <1>3, <1>5, <1>7, <2>1 DEF Held
    <2>3. i = 1 /\ <<run>>[1] = run
      BY <2>2
    <2> QED BY <1>2, <2>1, <2>2, <2>3
  <1>8. ASSUME NEW c, IsChain(p, c), NEW n \in DOMAIN c, c[n].at = 0
        PROVE  n = 1
    <2>1. /\ DOMAIN c = 1..Len(c) /\ Len(c) \in Nat
          /\ c[n].at = IF n = 1 THEN 0 ELSE c[n - 1].to
      BY <1>8 DEF IsChain
    <2>2. ASSUME n # 1 PROVE FALSE
      <3>1. n - 1 \in 1..Len(c) /\ n - 1 < Len(c)
        BY <2>1, <2>2
      <3>2. c[n - 1] \in Departures(p)
        BY <1>8, <3>1 DEF IsChain
      <3>3. c[n - 1].to \in 1..Depth(p) /\ Depth(p) \in Nat
        BY <1>1, <3>2, OneWayIn, HandlersAreNumbered
      <3> QED BY <1>8, <2>1, <2>2, <3>3
    <2> QED BY <2>2
  <1>9. IsChain(p, wc) /\ IsChain(p, rc) /\ Fork(p) \in 1..Len(wc) /\ Len(wc) \in Nat
    <2>1. IsChain(p, wc) /\ IsChain(p, rc) /\ Fork(p) \in 1..Len(wc)
      BY <1>1, ChainsPart
    <2> QED BY <2>1 DEF IsChain
  <1>10. ASSUME NEW c, IsChain(p, c) PROVE Once(threads, c)
    BY <1>7, <1>8, <1>10 DEF Once
  <1>11. ~WritePublished(p, Fork(p)) /\ ~ReadPublished(p, Fork(p)) /\ Fork(p) \in Int /\ Fork(p) >= 1
    BY <1>9, PublishedGrows DEF WritePublished, ReadPublished
  <1>12. AllRelated(p, threads)
    <2> SUFFICES ASSUME NEW n \in DOMAIN wc, NEW m \in DOMAIN rc, NEW t, NEW u, NEW i, NEW j,
                        Held(threads, t, i, wc[n]), Held(threads, u, j, rc[m])
                 PROVE  Related(p, threads[t].causes, t, i, n, u, j, m)
      BY DEF AllRelated
    <2>1. t = u /\ i = j /\ wc[n].at = 0 /\ rc[m].at = 0
      BY <1>7
    <2> HIDE DEF wc, rc
    <2>2. n = 1 /\ m = 1
      BY <1>8, <1>9, <2>1
    <2>3. Fork(p) = 1 => BehindFork(p, threads[t].causes, t, i, n, u, j, m)
      BY <1>11, <2>1, <2>2 DEF BehindFork
    <2> QED BY <1>11, <2>1, <2>2, <2>3 DEF Related
  <1>13. SeenSays
    BY <1>1 DEF SeenSays
  <1> QED BY <1>1, <1>6, <1>9, <1>10, <1>12, <1>13 DEF Inv, TypeOK, p

LEMMA InvIsKept ==
  ASSUME \A p \in Programs : Decided(p), Inv, [Next]_vars
  PROVE  Inv'
  <1>1. Decided(program)
    BY DEF Inv, TypeOK
  <1>2. CASE UNCHANGED vars
    BY <1>2 DEF vars, Inv, TypeOK, SeenSays
  <1>3. CASE Next
    <2>t. PICK t \in DOMAIN threads : \E i \in DOMAIN threads[t].frames :
            \E place \in threads[t].frames[i] :
               \/ CallRest(t, i, place) \/ Publish(t, i, place)
               \/ Write(t, i, place) \/ Read(t, i, place)
      BY <1>3 DEF Next
    <2>i. PICK i \in DOMAIN threads[t].frames : \E place \in threads[t].frames[i] :
               \/ CallRest(t, i, place) \/ Publish(t, i, place)
               \/ Write(t, i, place) \/ Read(t, i, place)
      BY <2>t
    <2>1. PICK place \in threads[t].frames[i] :
               \/ CallRest(t, i, place) \/ Publish(t, i, place)
               \/ Write(t, i, place) \/ Read(t, i, place)
      BY <2>i
    <2>2. /\ program' = program /\ verdict' = verdict
          /\ Read(t, i, place) \/ seen' = seen
      BY <2>1 DEF CallRest, Publish, Write, Read
    <2>3. /\ Typed(program, threads')
          /\ Stepped(program, threads, threads', t, i, place.site)
      BY <1>1, <2>1, StepsStep DEF Inv, TypeOK
    <2>4. IsChain(program, WriteChain(program)) /\ IsChain(program, ReadChain(program))
      BY <1>1, ChainsPart
    <2>5. Once(threads', WriteChain(program)) /\ Once(threads', ReadChain(program))
      BY <1>1, <2>3, <2>4, OnceKept DEF Inv
    <2>6. AllRelated(program, threads')
      BY <1>1, <2>3, RelatedKept DEF Inv, TypeOK
    <2>7. SeenSays'
      <3>1. CASE Read(t, i, place)
        BY <1>1, <2>1, <3>1, ReadSays
      <3>2. CASE seen' = seen
        BY <2>2, <3>2 DEF Inv, SeenSays
      <3> QED BY <2>2, <3>1, <3>2
    <2> QED BY <2>2, <2>3, <2>5, <2>6, <2>7 DEF Inv, TypeOK
  <1> QED BY <1>2, <1>3

LEMMA InvHolds ==
  ASSUME \A p \in Programs : Decided(p)
  PROVE  Spec => []Inv
  <1>1. Init => Inv
    BY InvHoldsFirst
  <1>2. Inv /\ [Next]_vars => Inv'
    BY InvIsKept
  <1> QED BY <1>1, <1>2, PTL DEF Spec

\* Whatever the number of handlers, calls and publications of a program that
\* the diagnostic decides (Decided): a read that some execution shows stale,
\* behind a publication of its own thread that still owes the write, has a
\* diagnostic of `_call_graph_stale_reads` or of the rules for branch labels.
THEOREM StaleReadsAreDiagnosed ==
  ASSUME \A p \in Programs : Decided(p)
  PROVE  Spec => []StaleReadIsDiagnosed
  <1>1. Inv => StaleReadIsDiagnosed
    <2> SUFFICES ASSUME Inv, seen = "stale", verdict = "none" PROVE FALSE
      BY DEF StaleReadIsDiagnosed
    <2>1. Decided(program) /\ verdict = Verdict(program)
      BY DEF Inv, TypeOK
    <2>2. WriteBehind(program) /\ ~ReadBehind(program) /\ ~ReadFirst(program)
      BY DEF Inv, SeenSays
    <2> QED BY <2>1, <2>2, VerdictSays DEF ReadFirst
  <1> QED BY <1>1, InvHolds, PTL

\* For the same programs: where the diagnostic reports a risk, no execution
\* reads before the write for another reason than its own publication, so that
\* `potential_risk` is never said of a read that only came first.
THEOREM RisksAreBehindPublications ==
  ASSUME \A p \in Programs : Decided(p)
  PROVE  Spec => []RiskIsBehindPublication
  <1>1. Inv => RiskIsBehindPublication
    <2> SUFFICES ASSUME Inv, verdict = "potential_risk", seen = "early" PROVE FALSE
      BY DEF RiskIsBehindPublication
    <2>1. Decided(program) /\ verdict = Verdict(program)
      BY DEF Inv, TypeOK
    <2>2. ~(WriteBehind(program) /\ ~ReadBehind(program) /\ WriteFirst(program))
      BY DEF Inv, SeenSays
    <2> QED BY <2>1, <2>2, VerdictSays DEF WriteFirst
  <1> QED BY <1>1, InvHolds, PTL

=============================================================================
