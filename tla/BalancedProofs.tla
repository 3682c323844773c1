---------------------------- MODULE BalancedProofs ----------------------------
(***************************************************************************)
(* What the balancer does is right for any pool, any weights and limits,   *)
(* any number of handlers and resets: the accounting of connections, what  *)
(* each selection method returns and the turns of the methods that take    *)
(* turns.                                                                  *)
(***************************************************************************)
EXTENDS SelectorsProofs

(***************************************************************************)
(* The accounting of connections. Selection plays no part in it: the       *)
(* argument uses only that a handler keeps the address it selected from    *)
(* its ConnsIncrease to its ConnsDecrease.                                 *)
(***************************************************************************)

(* What the accounting needs to know of the types.  That a pick is an      *)
(* upstream is not needed.                                                 *)
Shapes ==
    /\ conns \in [Upstreams -> Int]
    /\ DOMAIN pc = Handlers /\ pc = [h \in Handlers |-> pc[h]]
    /\ DOMAIN pick = Handlers /\ pick = [h \in Handlers |-> pick[h]]
    /\ resets \in Nat

Inv == Shapes /\ CountsConns

(* Nothing is counted and nobody proxies at the start.                     *)
LEMMA InitInv == Init => Inv
<1> SUFFICES ASSUME Init
             PROVE  Inv
  OBVIOUS
<1>1. Shapes
  BY DEF Init, Shapes
<1>2. \A i \in Upstreams : Using(i) = {}
  BY DEF Init, Using
<1>3. \A i \in Upstreams : conns[i] = 0 /\ Cardinality(Using(i)) = 0
  BY ZenonT(60), <1>2, FS_EmptySet DEF Init
<1> QED
  BY <1>1, <1>3 DEF Inv, CountsConns

(* A step that leaves the counts and the proxying handlers alone keeps the *)
(* accounting.                                                             *)
LEMMA SameUse ==
    ASSUME Inv, Shapes', UNCHANGED <<conns, resets>>, \A i \in Upstreams : Using(i)' = Using(i)
    PROVE  Inv'
BY DEF Inv, CountsConns, Upstreams

(* Every step keeps the accounting.                                        *)
LEMMA StepInv == Inv /\ [Next]_vars => Inv'
<1> SUFFICES ASSUME Inv, [Next]_vars
             PROVE  Inv'
  OBVIOUS
<1> USE DEF Inv
<1>1. ASSUME NEW h \in Handlers,
             \/ Select(h) \/ WeightAlone(h) \/ WeightRaced(h) \/ SelectRobin(h) \/ RobinNext(h)
             \/ RobinFound(h) \/ RobinNone(h) \/ Dial(h) \/ DialFail(h)
      PROVE  Inv'
  <2>1. Shapes' /\ UNCHANGED <<conns, resets>>
    BY SMTT(60), <1>1 DEF Shapes, Select, WeightAlone, WeightRaced, SelectRobin, RobinNext, RobinFound,
                RobinNone, RobinReturn, Dial, DialFail
  <2>2. \A g \in Handlers : /\ g # h => pc'[g] = pc[g] /\ pick'[g] = pick[g]
                            /\ pc[h] # "proxy" /\ pc'[h] # "proxy"
    BY <1>1 DEF Shapes, Select, WeightAlone, WeightRaced, SelectRobin, RobinNext, RobinFound,
                RobinNone, RobinReturn, Dial, DialFail
  <2>3. \A i \in Upstreams : Using(i)' = Using(i)
    BY <2>2 DEF Using
  <2> QED
    BY SMTT(60), <2>1, <2>3, SameUse
<1>2. ASSUME NEW h \in Handlers, ConnsIncrease(h)
      PROVE  Inv'
  <2>1. Shapes' /\ resets' = resets
    <3>1. conns' \in [Upstreams -> Int]
      <4>1. conns' = [conns EXCEPT ![pick[h]] = conns[pick[h]] + 1]
        BY <1>2 DEF ConnsIncrease
      <4>2. CASE pick[h] \in Upstreams
        BY <4>1, <4>2 DEF Shapes
      <4>3. CASE pick[h] \notin Upstreams
        BY ZenonT(60), <4>1, <4>3 DEF Shapes
      <4> QED
        BY <4>2, <4>3
    <3> QED
      BY <1>2, <3>1 DEF Shapes, ConnsIncrease
  <2>2. /\ pick' = pick
        /\ \A g \in Handlers : pc'[g] = "proxy" <=> pc[g] = "proxy" \/ g = h
        /\ pc[h] # "proxy"
    BY <1>2 DEF Shapes, ConnsIncrease
  <2>3. ASSUME NEW i \in Upstreams
        PROVE  /\ conns'[i] <= Cardinality(Using(i)')
               /\ resets' = 0 => conns'[i] = Cardinality(Using(i)')
    <3>1. CASE pick[h] = i
      <4>1. Using(i)' = Using(i) \cup {h} /\ h \notin Using(i)
        BY <2>2, <3>1 DEF Using
      <4>2. Cardinality(Using(i)') = Cardinality(Using(i)) + 1
        BY SMTT(60), <4>1, UsingFinite, FS_AddElement
      <4>3. conns'[i] = conns[i] + 1
        BY <1>2, <3>1 DEF ConnsIncrease, Shapes
      <4> QED
        BY <4>2, <4>3, <2>1, UsingFinite DEF CountsConns, Shapes
    <3>2. CASE pick[h] # i
      <4>1. Using(i)' = Using(i)
        BY <2>2, <3>2 DEF Using
      <4>2. conns'[i] = conns[i]
        BY SMTT(60), <1>2, <3>2 DEF ConnsIncrease, Shapes
      <4> QED
        BY SMTT(60), <4>1, <4>2, <2>1 DEF CountsConns
    <3> QED
      BY <3>1, <3>2
  <2> QED
    BY <2>1, <2>3 DEF CountsConns, Upstreams
<1>3. ASSUME NEW h \in Handlers, ConnsDecrease(h)
      PROVE  Inv'
  <2>1. Shapes' /\ resets' = resets
    <3>1. conns' \in [Upstreams -> Int]
      <4>1. conns' = [conns EXCEPT ![pick[h]] = conns[pick[h]] - 1]
        BY <1>3 DEF ConnsDecrease
      <4>2. CASE pick[h] \in Upstreams
        BY <4>1, <4>2 DEF Shapes
      <4>3. CASE pick[h] \notin Upstreams
        BY ZenonT(60), <4>1, <4>3 DEF Shapes
      <4> QED
        BY <4>2, <4>3
    <3> QED
      BY ZenonT(60), <1>3, <3>1 DEF Shapes, ConnsDecrease
  <2>2. /\ \A g \in Handlers : g # h => pc'[g] = pc[g] /\ pick'[g] = pick[g]
        /\ pc[h] = "proxy" /\ pc'[h] = "idle"
    BY <1>3 DEF Shapes, ConnsDecrease
  <2>3. ASSUME NEW i \in Upstreams
        PROVE  /\ conns'[i] <= Cardinality(Using(i)')
               /\ resets' = 0 => conns'[i] = Cardinality(Using(i)')
    <3>1. CASE pick[h] = i
      <4>1. Using(i)' = Using(i) \ {h} /\ h \in Using(i)
        BY <2>2, <3>1 DEF Using
      <4>2. Cardinality(Using(i)') = Cardinality(Using(i)) - 1
        BY SMTT(60), <4>1, UsingFinite, FS_RemoveElement
      <4>3. conns'[i] = conns[i] - 1
        BY SMTT(60), <1>3, <3>1 DEF ConnsDecrease, Shapes
      <4> QED
        BY <4>2, <4>3, <2>1, UsingFinite DEF CountsConns, Shapes
    <3>2. CASE pick[h] # i
      <4>1. Using(i)' = Using(i)
        BY <2>2, <3>2 DEF Using
      <4>2. conns'[i] = conns[i]
        BY <1>3, <3>2 DEF ConnsDecrease, Shapes
      <4> QED
        BY <4>1, <4>2, <2>1 DEF CountsConns
    <3> QED
      BY <3>1, <3>2
  <2> QED
    BY <2>1, <2>3 DEF CountsConns, Upstreams
<1>4. ASSUME NEW j \in Upstreams, NEW t \in Times, Probe(j, t)
      PROVE  Inv'
  <2>1. Shapes' /\ UNCHANGED <<conns, resets, pc, pick>>
    BY <1>4 DEF Shapes, Probe
  <2> QED
    BY <2>1, SameUse DEF Using
<1>5. CASE Reset
  <2>1. Shapes' /\ resets' # 0 /\ UNCHANGED <<pc, pick>>
    BY <1>5 DEF Shapes, Reset
  <2>2. \A i \in Upstreams : conns'[i] = 0 /\ Using(i)' = Using(i)
    BY <1>5, <2>1 DEF Reset, Using
  <2> QED
    BY SMTT(60), <2>1, <2>2, UsingFinite DEF CountsConns, Upstreams
<1>6. ASSUME NEW h \in Handlers, SelectWeight(h)
      PROVE  Inv'
  <2>1. Shapes' /\ UNCHANGED <<conns, resets, pick>>
    BY <1>6 DEF Shapes, SelectWeight
  <2>2. \A g \in Handlers : pc'[g] = "proxy" <=> pc[g] = "proxy"
    BY <1>6 DEF Shapes, SelectWeight
  <2>3. \A i \in Upstreams : Using(i)' = Using(i)
    BY <2>1, <2>2 DEF Using
  <2> QED
    BY SMTT(60), <2>1, <2>3, SameUse
<1>7. CASE UNCHANGED vars
  BY <1>7, SameUse DEF vars, Shapes, Using
<1> QED
  BY <1>1, <1>2, <1>3, <1>4, <1>5, <1>6, <1>7 DEF Next, Handle

(* The count of an upstream is the number of handlers proxying over it     *)
(* until the first Reset, and never above it: ConnsIncrease and            *)
(* ConnsDecrease come in pairs on one address.                             *)
THEOREM Accounting == Spec => []CountsConns
<1>1. Inv => CountsConns
  BY DEF Inv
<1> QED
  BY <1>1, InitInv, StepInv, PTL DEF Spec

-----------------------------------------------------------------------------
(***************************************************************************)
(* Weighted picks. They grow along the circle, and as many picks as there  *)
(* are hits are all of them.                                               *)
(***************************************************************************)

(* How often i occurs in s.                                                *)
Occurs(s, i) == Cardinality({j \in DOMAIN s : s[j] = i})

(* How often x occurs in a sequence grows by one when it is appended.      *)
LEMMA OccursAppend ==
    ASSUME NEW s, s \in Seq(1..N), NEW x, x \in 1..N, NEW i
    PROVE  /\ Occurs(s, i) \in Nat
           /\ x = i => Occurs(Append(s, x), i) = Occurs(s, i) + 1
           /\ x # i => Occurs(Append(s, x), i) = Occurs(s, i)
<1> DEFINE n == Len(s)
           Q(t) == {j \in DOMAIN t : t[j] = i}
<1>1. n \in Nat /\ DOMAIN s = 1..n /\ DOMAIN Append(s, x) = 1..(n + 1)
  OBVIOUS
<1>2. \A j \in 1..n : Append(s, x)[j] = s[j]
  OBVIOUS
<1>3. Append(s, x)[n + 1] = x
  OBVIOUS
<1>4. IsFiniteSet(Q(s)) /\ Cardinality(Q(s)) \in Nat
  <2>1. IsFiniteSet(1..n)
    BY <1>1, FS_Interval
  <2>2. Q(s) \subseteq 1..n
    BY <1>1
  <2>3. IsFiniteSet(Q(s))
    BY ONLY <2>1, <2>2, FS_Subset
  <2> QED
    BY <2>3, FS_CardinalityType
<1>5. CASE x = i
  <2>1. Q(Append(s, x)) = Q(s) \cup {n + 1} /\ n + 1 \notin Q(s)
    BY <1>1, <1>2, <1>3, <1>5
  <2> HIDE DEF Q
  <2>2. Cardinality(Q(Append(s, x))) = Cardinality(Q(s)) + 1
    BY ZenonT(60), <1>4, <2>1, FS_AddElement
  <2> QED
    BY ZenonT(60), <1>4, <1>5, <2>2 DEF Q, Occurs
<1>6. CASE x # i
  <2>1. Q(Append(s, x)) = Q(s)
    BY <1>1, <1>2, <1>3, <1>6
  <2> HIDE DEF Q
  <2>2. Cardinality(Q(Append(s, x))) = Cardinality(Q(s))
    BY <2>1
  <2>3. /\ Occurs(s, i) = Cardinality(Q(s))
        /\ Occurs(Append(s, x), i) = Cardinality(Q(Append(s, x)))
    BY DEF Occurs, Q
  <2> QED
    BY ONLY <1>4, <1>6, <2>2, <2>3
<1> QED
  BY <1>5, <1>6

(* A call of Weight keeps the scheduler at its place and the picks on an   *)
(* arc.                                                                    *)
LEMMA WeightAloneStep ==
    ASSUME TypeOK, Scheduled, NEW h \in Handlers, WeightAlone(h)
    PROVE  Scheduled' /\ weight'.pick \in 0..N /\ picks' \in Seq(Upstreams) /\ Len(picks') <= Cycle
<1>1. /\ N \in Nat \ {0} /\ weight' = Weight(Pool, weight) /\ weight \in Scheduler
      /\ Cycle = Cardinality(Hits) /\ Cycle \in Nat \ {0}
      /\ picks \in Seq(1..N) /\ Len(picks) <= Cycle /\ Len(Pool) = N
  BY WeightsShape, CycleIsHits, PoolShape DEF TypeOK, Scheduled, WeightAlone, Upstreams
<1>2. PICK p \in Places : At(weight, p)
  BY DEF Scheduled
<1>3. weight' \in Scheduler /\ \E q \in Places : At(weight', q)
  BY <1>1, <1>2, WeightPlaced
<1>4. weight'.pick \in 0..N
  BY <1>3 DEF Scheduler
<1>5. CASE AvailableIn(Pool) # Upstreams
  <2>1. picks' = <<>>
    BY <1>5 DEF WeightAlone
  <2> QED
    BY SMTT(60), <1>1, <1>3, <1>4, <2>1 DEF Scheduled
<1>6. CASE AvailableIn(Pool) = Upstreams /\ N = 1
  <2>1. Weight(Pool, weight) = [weight EXCEPT !.pick = 1]
    BY <1>1, <1>6 DEF Weight
  <2>2. weight'.pick = 1
    BY <1>1, <2>1 DEF Scheduler
  <2>3. picks' = <<1>> \/ (picks' = Append(picks, 1) /\ Len(picks) # Cycle)
    BY <1>6, <2>2 DEF WeightAlone
  <2>4. 1 \in 1..N
    BY <1>1
  <2>5. <<1>> \in Seq(1..N) /\ Len(<<1>>) = 1 /\ 1 <= Cycle
    BY <1>1, <2>4
  <2>6. /\ Append(picks, 1) \in Seq(1..N) /\ Len(Append(picks, 1)) = Len(picks) + 1
        /\ Len(picks) \in Nat
    BY <1>1, <2>4
  <2>7. picks' \in Seq(1..N) /\ Len(picks') <= Cycle
    <3>1. CASE picks' = <<1>>
      BY ONLY <1>1, <2>5, <3>1
    <3>2. CASE picks' = Append(picks, 1) /\ Len(picks) # Cycle
      BY ONLY <1>1, <2>6, <3>2
    <3> QED
      BY SMTT(60), <2>3, <3>1, <3>2
  <2> QED
    BY <1>3, <1>4, <1>6, <2>7 DEF Scheduled, Upstreams
<1>7. CASE AvailableIn(Pool) = Upstreams /\ N # 1
  <2>1. \A i \in 1..N : Available(Pool[i])
    BY <1>7 DEF AvailableIn, Upstreams
  <2>2. ASSUME NEW o \in Places, At(weight, o)
        PROVE  \E q \in Hits : /\ NextHit(o, q)
                               /\ At(weight', q)
                               /\ weight'.pick = q[2]
    BY SMTT(60), <1>1, <1>7, <2>1, <2>2, WeightHits
  <2>3. CASE picks = <<>> \/ Len(picks) = Cycle
    <3>1. PICK q \in Hits : /\ At(weight', q)
                            /\ weight'.pick = q[2]
      BY <1>2, <2>2
    <3>2. q[2] \in 1..N
      BY Order
    <3>3. picks' = <<q[2]>>
      <4>1. picks = <<>> => Append(picks, q[2]) = <<q[2]>>
        OBVIOUS
      <4> QED
        BY <1>7, <2>3, <3>1, <4>1 DEF WeightAlone
    <3>4. picks' \in Seq(1..N) /\ Len(picks') = 1
      BY <3>2, <3>3
    <3>5. Arc(q, q) = {q} /\ Cardinality({q}) = 1
      BY ZenonT(60), ArcOne, FS_Singleton
    <3>6. ASSUME NEW i \in 1..N
          PROVE  Served(i)' = Cardinality(Arc(q, q) \cap HitsOf(i))
      <4>1. CASE i = q[2]
        <5>1. {j \in DOMAIN picks' : picks'[j] = i} = {1}
          BY <3>3, <4>1
        <5>2. Arc(q, q) \cap HitsOf(i) = {q}
          BY <3>5, <4>1 DEF HitsOf
        <5> QED
          BY ZenonT(60), <5>1, <5>2, FS_Singleton DEF Served
      <4>2. CASE i # q[2]
        <5>1. {j \in DOMAIN picks' : picks'[j] = i} = {}
          BY <3>3, <4>2
        <5>2. Arc(q, q) \cap HitsOf(i) = {}
          BY <3>5, <4>2 DEF HitsOf
        <5> QED
          BY <5>1, <5>2 DEF Served
      <4> QED
        BY <4>1, <4>2
    <3>7. OnArc(q, q)'
      BY SMTT(60), <3>1, <3>4, <3>5, <3>6 DEF OnArc
    <3> QED
      BY SMTT(60), <1>1, <1>3, <1>4, <3>4, <3>7 DEF Scheduled, Upstreams
  <2>4. CASE picks # <<>> /\ Len(picks) # Cycle
    <3>1. PICK f \in Hits, e \in Hits : OnArc(f, e)
      BY <1>7, <2>4 DEF Scheduled
    <3>2. e \in Places /\ At(weight, e)
      BY <3>1, Order DEF OnArc
    <3>3. PICK q \in Hits : /\ NextHit(e, q)
                            /\ At(weight', q)
                            /\ weight'.pick = q[2]
      BY <2>2, <3>2
    <3>4. q[2] \in 1..N
      BY Order
    <3>5. picks' = Append(picks, q[2])
      BY SMTT(60), <1>1, <1>7, <2>4, <3>3 DEF WeightAlone
    <3>6. picks' \in Seq(1..N) /\ Len(picks') = Len(picks) + 1 /\ Len(picks') <= Cycle
      BY SMTT(60), <1>1, <2>4, <3>4, <3>5
    <3>7. Len(picks) = Cardinality(Arc(f, e)) /\ Arc(f, e) # Hits
      BY <1>1, <2>4, <3>1 DEF OnArc
    <3>8. q \notin Arc(f, e) /\ Arc(f, q) = Arc(f, e) \cup {q}
      BY <3>3, <3>7, ArcGrows
    <3>9. Arc(f, e) \subseteq Hits /\ IsFiniteSet(Arc(f, e)) /\ Cardinality(Arc(f, e)) \in Nat
      <4>1. Arc(f, e) \subseteq Hits
        BY DEF Arc
      <4> QED
        BY <4>1, HitsFinite
    <3>10. Len(picks') = Cardinality(Arc(f, q))
      <4>1. Cardinality(Arc(f, q)) = Cardinality(Arc(f, e)) + 1
        BY ONLY ZenonT(60), <3>8, <3>9, FS_AddElement
      <4> QED
        BY ONLY <3>6, <3>7, <4>1
    <3>11. ASSUME NEW i \in 1..N
           PROVE  Served(i)' = Cardinality(Arc(f, q) \cap HitsOf(i))
      <4> DEFINE A == Arc(f, e) \cap HitsOf(i)
      <4>1. /\ Occurs(picks, i) \in Nat
            /\ q[2] = i => Occurs(picks', i) = Occurs(picks, i) + 1
            /\ q[2] # i => Occurs(picks', i) = Occurs(picks, i)
        BY ONLY SMTT(60), <1>1, <3>4, <3>5, OccursAppend
      <4>6. Served(i) = Occurs(picks, i) /\ Served(i)' = Occurs(picks', i)
        BY DEF Served, Occurs
      <4>2. Served(i) = Cardinality(A)
        BY <3>1 DEF OnArc
      <4>3. IsFiniteSet(A)
        BY SMTT(60), <3>9, FS_Intersection
      <4>4. CASE q[2] = i
        <5>1. Arc(f, q) \cap HitsOf(i) = A \cup {q} /\ q \notin A
          BY <3>8, <4>4 DEF HitsOf
        <5> HIDE DEF A
        <5> QED
          <6>1. Cardinality(A \cup {q}) = Cardinality(A) + 1
            BY ONLY ZenonT(60), <4>3, <5>1, FS_AddElement
          <6> QED
            BY ONLY <4>1, <4>2, <4>4, <4>6, <5>1, <6>1
      <4>5. CASE q[2] # i
        <5>1. Arc(f, q) \cap HitsOf(i) = A
          BY <3>8, <4>5 DEF HitsOf
        <5> HIDE DEF A
        <5> QED
          BY ONLY ZenonT(60), <4>1, <4>2, <4>5, <4>6, <5>1
      <4> QED
        BY <4>4, <4>5
    <3>12. OnArc(f, q)'
      BY <3>3, <3>10, <3>11 DEF OnArc
    <3> QED
      BY SMTT(60), <1>1, <1>3, <1>4, <3>6, <3>12 DEF Scheduled, Upstreams
  <2> QED
    BY <2>3, <2>4
<1> QED
  BY SMTT(60), <1>5, <1>6, <1>7

(* A full cycle gives every upstream its share.                            *)
LEMMA CycleShares ==
    ASSUME TypeOK, Scheduled
    PROVE  WeightShares
<1> SUFFICES ASSUME N > 1, Len(picks) = Cycle, NEW i \in Upstreams
             PROVE  Served(i) * Unit = Weights[i]
  BY DEF WeightShares, Unit
<1>1. /\ N \in Nat \ {0} /\ Cycle = Cardinality(Hits) /\ Cycle \in Nat \ {0} /\ i \in 1..N
      /\ Unit \in Nat \ {0} /\ Top \in Nat \ {0} /\ Share[i] \in 1..Top
      /\ Weights[i] = Unit * Share[i]
  BY WeightsShape, CycleIsHits, Shares DEF Upstreams
<1>2. picks # <<>> /\ N # 1
  BY <1>1
<1>3. PICK f \in Hits, e \in Hits : OnArc(f, e)
  BY SMTT(60), <1>2 DEF Scheduled
<1>4. Arc(f, e) \subseteq Hits /\ Cardinality(Arc(f, e)) = Cardinality(Hits)
  BY <1>1, <1>3 DEF Arc, OnArc
<1>5. IsFiniteSet(Hits)
  BY HitsFinite
<1>6. Arc(f, e) = Hits
  BY ONLY SMTT(60), <1>4, <1>5, FS_Subset
<1>7. Served(i) = Cardinality(Hits \cap HitsOf(i))
  BY <1>1, <1>3, <1>6 DEF OnArc
<1>8. Hits \cap HitsOf(i) = HitsOf(i)
  BY DEF HitsOf
<1>9. Served(i) = Share[i]
  BY ZenonT(60), <1>1, <1>7, <1>8, HitsOfOne
<1> QED
  BY <1>1, <1>9

-----------------------------------------------------------------------------
(***************************************************************************)
(* The types, which need what the methods return and where the scheduler   *)
(* is.                                                                     *)
(***************************************************************************)

(* The types of a scheduler that is at a place.                            *)
LEMMA PlaceTypes ==
    ASSUME NEW w, w \in Scheduler, NEW p \in Places, At(w, p)
    PROVE  w \in [index : 0..N, curWeight : 0..MaxWeight(Weights), pick : 0..N]
<1>1. /\ Unit \in Nat \ {0} /\ Top \in Nat \ {0} /\ MaxWeight(Weights) = Unit * Top
      /\ p[1] \in 1..Top
  BY Shares DEF Places
<1>2. Unit * p[1] \in Nat /\ Unit * Top \in Nat /\ Unit * p[1] <= Unit * Top
  BY <1>1, TimesOrder
<1>3. w.curWeight \in 0..MaxWeight(Weights)
  BY <1>1, <1>2 DEF At
<1> QED
  BY <1>3 DEF Scheduler

(* What overlapping calls leave is at a place.                             *)
LEMMA RacedPlaced ==
    ASSUME NEW w \in Races
    PROVE  w \in Scheduler /\ \E p \in Places : At(w, p)
<1> DEFINE c == w.curWeight
           k == c \div Unit
<1>1. /\ N \in Nat \ {0} /\ Unit \in Nat \ {0} /\ Top \in Nat \ {0}
      /\ MaxWeight(Weights) = Unit * Top
  BY WeightsShape, Shares
<1>2. w.index \in 1..N /\ c \in 0..MaxWeight(Weights) /\ c % Unit = 0
  BY DEF Races, Unit, Upstreams
<1>3. w \in Scheduler
  <2>1. w \in [index : 1..N, curWeight : 0..MaxWeight(Weights), pick : (1..N) \cup {Nil}]
    BY DEF Races, Upstreams
  <2> QED
    BY <1>1, <2>1 DEF Scheduler, Nil
<1> HIDE DEF c
<1>4. c \in Nat /\ c <= Unit * Top
  BY <1>1, <1>2
<1>5. c = Unit * k + (c % Unit) /\ k \in Nat
  BY ZenonT(60), <1>1, <1>4, Division
<1> HIDE DEF k
<1>6. c = Unit * k /\ k <= Top
  <2>1. c = Unit * k
    BY <1>1, <1>2, <1>5
  <2>2. Unit * k <= Unit * Top /\ k \in Int /\ Top \in Int
    BY <1>1, <1>4, <1>5, <2>1
  <2> QED
    BY ZenonT(60), <1>1, <2>1, <2>2, TimesOrder
<1>7. CASE k = 0
  <2>1. <<1, w.index>> \in Places /\ c = 0
    BY <1>1, <1>2, <1>6, <1>7 DEF Places
  <2>2. At(w, <<1, w.index>>)
    BY <2>1 DEF At, c
  <2> QED
    BY ZenonT(60), <1>3, <2>1, <2>2
<1>8. CASE k # 0
  <2>1. <<k, w.index>> \in Places
    BY <1>1, <1>2, <1>5, <1>6, <1>8 DEF Places
  <2>2. At(w, <<k, w.index>>)
    BY <1>6 DEF At, c
  <2> QED
    BY ZenonT(60), <1>3, <2>1, <2>2
<1> QED
  BY <1>7, <1>8

(* A new scheduler is at the last place of the circle.                     *)
LEMMA NewPlaced ==
    NewWeight \in Scheduler /\ <<1, N>> \in Places /\ At(NewWeight, <<1, N>>)
<1>1. N \in Nat \ {0} /\ Top \in Nat \ {0}
  BY WeightsShape, Shares
<1>2. NewWeight \in Scheduler
  BY <1>1 DEF Scheduler, NewWeight, Nil
<1> QED
  BY <1>1, <1>2 DEF Places, At, NewWeight

(* The scheduler has its types and is at its place at the start.           *)
LEMMA BalancedInit == Init => TypeOK /\ Scheduled
<1> SUFFICES ASSUME Init
             PROVE  TypeOK /\ Scheduled
  OBVIOUS
<1>1. Scheduled
  BY NewPlaced DEF Init, Scheduled
<1>2. weight \in [index : 0..N, curWeight : 0..MaxWeight(Weights), pick : 0..N]
  BY <1>1, PlaceTypes DEF Scheduled
<1>3. Cycle \in Nat \ {0}
  BY CycleIsHits
<1>4. picks \in Seq(Upstreams) /\ Len(picks) <= Cycle
  BY <1>3 DEF Init
<1>5. robin \in 0..(RobinValues - 1) /\ resets \in 0..MaxResets
  BY BalancedAssumption DEF Init
<1>6. turn \in [Handlers -> 0..N] /\ time \in [Upstreams -> Times]
      /\ pick \in [Handlers -> Upstreams \cup {Nil}]
  BY SMTT(60), BalancedAssumption DEF Init
<1> QED
  BY SMTT(60), <1>1, <1>2, <1>4, <1>5, <1>6 DEF Init, TypeOK

(* Every step keeps the types and the scheduler at its place.              *)
LEMMA BalancedStep == TypeOK /\ Scheduled /\ CountsConns /\ [Next]_vars => TypeOK' /\ Scheduled'
<1> SUFFICES ASSUME TypeOK, Scheduled, CountsConns, [Next]_vars
             PROVE  TypeOK' /\ Scheduled'
  OBVIOUS
<1>0. /\ N \in Nat \ {0} /\ RobinValues \in Nat \ {0} /\ MaxResets \in Nat
      /\ 0 \in Times
  BY SMTT(60), BalancedAssumption
<1>a. ASSUME UNCHANGED <<weight, picks>>
      PROVE  Scheduled'
  BY SMTT(60), <1>a DEF Scheduled, OnArc, Served
<1>b. \A i : i \in Returns(method) => i \in Upstreams \cup {Nil}
  <2>1. MethodsFindHost /\ Usable \subseteq Upstreams
    BY PicksInPool, PoolShape DEF PicksByMethod, Usable, AvailableIn, Upstreams
  <2> QED
    BY <2>1 DEF MethodsFindHost
<1>1. ASSUME NEW h \in Handlers, Select(h)
      PROVE  TypeOK' /\ Scheduled'
  <2>1. PICK i \in Returns(method) : pick' = [pick EXCEPT ![h] = i]
    BY ZenonT(60), <1>1 DEF Select
  <2>2. i \in Upstreams \cup {Nil}
    BY <1>b
  <2>3. UNCHANGED <<method, up, conns, time, robin, weight, picks, turn, resets>>
    BY <1>1 DEF Select, selector
  <2>4. pc' = [pc EXCEPT ![h] = "selected"]
    BY SMTT(60), <1>1 DEF Select
  <2> QED
    BY <1>a, <2>1, <2>2, <2>3, <2>4 DEF TypeOK
<1>d. ASSUME NEW h \in Handlers, Scheduled', weight'.pick \in 0..N,
             picks' \in Seq(Upstreams), Len(picks') <= Cycle,
             pick' = [pick EXCEPT ![h] = weight'.pick],
             pc' = [pc EXCEPT ![h] = "selected"],
             UNCHANGED <<method, up, conns, time, robin, turn, resets>>
      PROVE  TypeOK' /\ Scheduled'
  <2>1. weight' \in [index : 0..N, curWeight : 0..MaxWeight(Weights), pick : 0..N]
    BY <1>d, PlaceTypes DEF Scheduled
  <2>2. weight'.pick \in Upstreams \cup {Nil}
    BY SMTT(60), <1>0, <1>d DEF Upstreams, Nil
  <2> QED
    BY SMTT(60), <1>d, <2>1, <2>2 DEF TypeOK
<1>2. ASSUME NEW h \in Handlers, WeightAlone(h)
      PROVE  TypeOK' /\ Scheduled'
  <2>1. Scheduled' /\ weight'.pick \in 0..N /\ picks' \in Seq(Upstreams) /\ Len(picks') <= Cycle
    BY <1>2, WeightAloneStep
  <2>2. /\ pick' = [pick EXCEPT ![h] = weight'.pick]
        /\ pc' = [pc EXCEPT ![h] = "selected"]
        /\ UNCHANGED <<method, up, conns, time, robin, turn, resets>>
    BY <1>2 DEF WeightAlone
  <2> QED
    BY ZenonT(60), <1>d, <2>1, <2>2
<1>13. ASSUME NEW h \in Handlers, WeightRaced(h)
       PROVE  TypeOK' /\ Scheduled'
  <2>1. /\ weight' \in Races /\ picks' = <<>>
        /\ pick' = [pick EXCEPT ![h] = weight'.pick]
        /\ pc' = [pc EXCEPT ![h] = "selected"]
        /\ UNCHANGED <<method, up, conns, time, robin, turn, resets>>
    BY <1>13 DEF WeightRaced
  <2>2. weight' \in Scheduler /\ \E p \in Places : At(weight', p)
    BY ZenonT(60), <2>1, RacedPlaced
  <2>3. Scheduled' /\ weight'.pick \in 0..N
    BY <2>1, <2>2 DEF Scheduled, Scheduler
  <2>4. picks' \in Seq(Upstreams) /\ Len(picks') <= Cycle
    BY SMTT(60), <2>1, CycleIsHits
  <2> QED
    BY ZenonT(60), <1>d, <2>1, <2>3, <2>4
<1>14. ASSUME NEW h \in Handlers, SelectWeight(h)
       PROVE  TypeOK' /\ Scheduled'
  <2>1. UNCHANGED <<method, up, conns, time, robin, weight, picks, pick, turn, resets>>
    BY <1>14 DEF SelectWeight, selector
  <2>2. /\ pc' \in [Handlers -> {"idle", "select", "raced", "selected", "dialed", "proxy"}]
        /\ \A g \in Handlers : pc'[g] \in {"dialed", "proxy"} => pc[g] = pc'[g]
    BY <1>14 DEF SelectWeight, TypeOK
  <2> QED
    BY SMTT(60), <1>a, <2>1, <2>2 DEF TypeOK
<1>3. ASSUME NEW h \in Handlers, SelectRobin(h)
      PROVE  TypeOK' /\ Scheduled'
  BY SMTT(60), <1>3, <1>a DEF SelectRobin, selector, TypeOK
<1>c. /\ RobinTurn(Pool, robin).robin \in 0..(RobinValues - 1)
      /\ RobinTurn(Pool, robin).at \in Upstreams
  <2>1. robin + 1 \in Int /\ (robin + 1) % RobinValues \in 0..(RobinValues - 1)
    BY <1>0 DEF TypeOK
  <2>2. ((robin + 1) % RobinValues) % N \in 0..(N - 1)
    BY SMTT(60), <1>0, <2>1
  <2> QED
    BY SMTT(60), <1>0, <2>1, <2>2, PoolShape DEF RobinTurn, Upstreams
<1>4. ASSUME NEW h \in Handlers, RobinNext(h)
      PROVE  TypeOK' /\ Scheduled'
  <2>1. turn' \in [Handlers -> 0..N]
    BY SMTT(60), <1>0, <1>4 DEF RobinNext, TypeOK
  <2>2. UNCHANGED <<method, up, conns, time, weight, picks, pc, pick, resets>>
    BY <1>4 DEF RobinNext
  <2>3. robin' \in 0..(RobinValues - 1)
    BY SMTT(60), <1>4, <1>c DEF RobinNext
  <2> QED
    BY SMTT(60), <1>a, <2>1, <2>2, <2>3 DEF TypeOK
<1>5. ASSUME NEW h \in Handlers, RobinFound(h) \/ RobinNone(h)
      PROVE  TypeOK' /\ Scheduled'
  <2>1. PICK i \in Upstreams \cup {Nil} : RobinReturn(h, i)
    BY SMTT(60), <1>5, <1>c DEF RobinFound, RobinNone
  <2>2. robin' \in 0..(RobinValues - 1)
    BY SMTT(60), <1>5, <1>c DEF RobinFound, RobinNone, TypeOK
  <2>3. turn' \in [Handlers -> 0..N]
    BY <1>0, <2>1 DEF RobinReturn, TypeOK
  <2>4. UNCHANGED <<method, up, conns, time, weight, picks, resets>>
    BY SMTT(60), <2>1 DEF RobinReturn
  <2> QED
    BY SMTT(60), <1>a, <2>1, <2>2, <2>3, <2>4 DEF RobinReturn, TypeOK
<1>6. ASSUME NEW h \in Handlers, Dial(h)
      PROVE  TypeOK' /\ Scheduled'
  BY SMTT(60), <1>6, <1>a DEF Dial, selector, TypeOK
<1>7. ASSUME NEW h \in Handlers, DialFail(h)
      PROVE  TypeOK' /\ Scheduled'
  BY SMTT(60), <1>7, <1>a DEF DialFail, selector, TypeOK
<1>8. ASSUME NEW h \in Handlers, ConnsIncrease(h)
      PROVE  TypeOK' /\ Scheduled'
  BY SMTT(60), <1>8, <1>a DEF ConnsIncrease, selector, TypeOK
<1>9. ASSUME NEW h \in Handlers, ConnsDecrease(h)
      PROVE  TypeOK' /\ Scheduled'
  BY SMTT(60), <1>9, <1>a DEF ConnsDecrease, selector, TypeOK
<1>10. ASSUME NEW i \in Upstreams, NEW t \in Times, Probe(i, t)
       PROVE  TypeOK' /\ Scheduled'
  BY SMTT(60), <1>10, <1>a DEF Probe, TypeOK
<1>11. CASE Reset
  <2>1. weight' = NewWeight /\ picks' = <<>>
    BY <1>11 DEF Reset
  <2>2. Scheduled'
    BY SMTT(60), <2>1, NewPlaced DEF Scheduled
  <2>3. weight' \in [index : 0..N, curWeight : 0..MaxWeight(Weights), pick : 0..N]
    BY <2>2, PlaceTypes DEF Scheduled
  <2>4. picks' \in Seq(Upstreams) /\ Len(picks') <= Cycle
    BY SMTT(60), <2>1, CycleIsHits
  <2>5. resets' \in 0..MaxResets /\ robin' \in 0..(RobinValues - 1)
    BY SMTT(60), <1>0, <1>11 DEF Reset, TypeOK
  <2>6. up' \in [Upstreams -> BOOLEAN] /\ conns' \in [Upstreams -> Int]
        /\ time' \in [Upstreams -> Times]
    BY <1>0, <1>11 DEF Reset
  <2>7. UNCHANGED <<method, pc, pick, turn>>
    BY SMTT(60), <1>11 DEF Reset
  <2> QED
    BY SMTT(60), <2>2, <2>3, <2>4, <2>5, <2>6, <2>7 DEF TypeOK
<1>12. CASE UNCHANGED vars
  BY SMTT(60), <1>12, <1>a DEF vars, selector, TypeOK
<1> QED
  BY SMTT(60), <1>1, <1>2, <1>3, <1>4, <1>5, <1>6, <1>7, <1>8, <1>9, <1>10, <1>11, <1>12,
              <1>13, <1>14 DEF Next, Handle

-----------------------------------------------------------------------------
(***************************************************************************)
(* The round robin. Its counter moves to the next free position, so in N   *)
(* positions in a row each available upstream is passed once.              *)
(***************************************************************************)

RobinState == [robin : 0..(RobinValues - 1), pick : 0..N]

(* The position the round robin looks at when its counter is c.            *)
Position(c) == (c % N) + 1

Free(c) == Available(Pool[Position(c)])

(* A turn of the round robin on this pool.                                 *)
LEMMA RobinTurnIs ==
    ASSUME NEW r, r \in Nat
    PROVE  /\ RobinTurn(Pool, r).robin = (r + 1) % RobinValues
           /\ RobinTurn(Pool, r).at = Position((r + 1) % RobinValues)
           /\ (r + 1) % RobinValues \in 0..(RobinValues - 1)
           /\ \A c \in Nat : Position(c) \in 1..N
<1>1. N \in Nat \ {0} /\ Len(Pool) = N /\ RobinValues \in Nat \ {0}
  BY PoolShape, BalancedAssumption
<1>2. (r + 1) % RobinValues \in 0..(RobinValues - 1)
  BY <1>1
<1>3. \A c \in Nat : Position(c) \in 1..N
  BY <1>1 DEF Position
<1>4. /\ RobinTurn(Pool, r).robin = (r + 1) % RobinValues
      /\ RobinTurn(Pool, r).at = Position((r + 1) % RobinValues)
  BY ONLY <1>1 DEF RobinTurn, Position
<1> QED
  BY SMTT(60), <1>2, <1>3, <1>4

(* A step of the round robin leaves a counter and a pick.                  *)
LEMMA RobinStepTypes ==
    ASSUME NEW acc \in RobinState
    PROVE  RobinStep(Pool, acc) \in RobinState
<1> DEFINE t == RobinTurn(Pool, acc.robin)
<1>1. N \in Nat \ {0} /\ RobinValues \in Nat \ {0} /\ acc.robin \in Nat
  BY BalancedAssumption DEF RobinState
<1>2. t.robin \in 0..(RobinValues - 1) /\ t.at \in 0..N
  BY SMTT(60), <1>1, RobinTurnIs
<1> HIDE DEF t
<1>3. CASE acc.pick # Nil
  BY SMTT(60), <1>3 DEF RobinStep
<1>4. CASE acc.pick = Nil
  <2>1. RobinStep(Pool, acc) =
          [robin |-> t.robin, pick |-> IF Available(Pool[t.at]) THEN t.at ELSE Nil]
    BY <1>4 DEF RobinStep, t
  <2>2. (IF Available(Pool[t.at]) THEN t.at ELSE Nil) \in 0..N
    BY SMTT(60), <1>1, <1>2 DEF Nil
  <2> QED
    BY SMTT(60), <1>2, <2>1, <2>2 DEF RobinState
<1> QED
  BY <1>3, <1>4

(* RobinLoop does its steps.                                               *)
LEMMA RobinLoopSteps ==
    ASSUME NEW r, r \in 0..(RobinValues - 1)
    PROVE  /\ RobinLoop(Pool, r)[0] = [robin |-> r, pick |-> Nil]
           /\ \A i \in 1..Len(Pool) :
                RobinLoop(Pool, r)[i] = RobinStep(Pool, RobinLoop(Pool, r)[i - 1])
<1> DEFINE n == Len(Pool)
           S == RobinState
           base == [robin |-> r, pick |-> Nil]
           F == [x \in S \X ((0 + 1)..n) |-> RobinStep(Pool, x[1])]
           Q(g) == g = [i \in 0..n |-> IF i = 0 THEN base ELSE RobinStep(Pool, g[i - 1])]
<1>1. base \in S
  BY BalancedAssumption DEF RobinState, Nil
<1>2. IsStep(F, 0, n, S)
  <2>1. ASSUME NEW acc \in S, NEW i \in 1..n
        PROVE  RobinStep(Pool, acc) \in S
    BY RobinStepTypes
  <2> HIDE DEF S
  <2> QED
    BY <2>1 DEF IsStep
<1>3. \A x \in S, i \in 1..n : F[<<x, i>>] = RobinStep(Pool, x)
  OBVIOUS
<1> HIDE DEF S, F, base
<1>4. PICK f : IsRun(f, F, 0, n, S, base)
  <2>1. n \in Nat /\ 0 \in Nat /\ 0 <= n
    BY SMTT(60), WeightsShape, PoolShape
  <2> HIDE DEF n
  <2> QED
    BY ONLY ZenonT(60), <1>1, <1>2, <2>1, LoopExists, Zenon
<1>5. Q(f)
  <2>1. \A i \in 1..n : f[i] = RobinStep(Pool, f[i - 1])
    <3> TAKE i \in 1..n
    <3>1. f[i - 1] \in S /\ i \in (0 + 1)..n
      BY <1>4, WeightsShape, PoolShape DEF IsRun
    <3> QED
      BY ZenonT(60), <1>3, <1>4, <3>1 DEF IsRun
  <2> QED
    BY SMTT(60), <1>4, <2>1, WeightsShape, PoolShape DEF IsRun
<1>6. RobinLoop(Pool, r) = CHOOSE g : Q(g)
  BY DEF RobinLoop, base
<1> HIDE DEF Q
<1>7. Q(RobinLoop(Pool, r))
  BY ZenonT(60), <1>5, <1>6, Zenon
<1>8. /\ RobinLoop(Pool, r)[0] = base
      /\ \A i \in 1..n :
            RobinLoop(Pool, r)[i] = RobinStep(Pool, RobinLoop(Pool, r)[i - 1])
  <2> DEFINE l == RobinLoop(Pool, r)
  <2>1. l = [i \in 0..n |-> IF i = 0 THEN base ELSE RobinStep(Pool, l[i - 1])]
    BY <1>7 DEF Q
  <2> HIDE DEF l
  <2>2. l[0] = base /\ \A i \in 1..n : l[i] = RobinStep(Pool, l[i - 1])
    BY <2>1, WeightsShape, PoolShape
  <2> QED
    BY <2>2 DEF l
<1> QED
  BY <1>8 DEF base

(* A call of the round robin leaves a counter and a pick.                  *)
LEMMA RobinTypes ==
    ASSUME NEW r, r \in 0..(RobinValues - 1)
    PROVE  RoundRobin(Pool, r) \in RobinState
<1> DEFINE n == Len(Pool)
           L == RobinLoop(Pool, r)
           G == {i \in 0..n : L[i] \in RobinState}
<1>1. n \in Nat /\ N \in Nat
  BY SMTT(60), WeightsShape, PoolShape
<1>2. L[0] = [robin |-> r, pick |-> Nil] /\ \A i \in 1..n : L[i] = RobinStep(Pool, L[i - 1])
  BY SMTT(60), RobinLoopSteps
<1> HIDE DEF L, n
<1>3. 0 \in G
  BY <1>1, <1>2 DEF RobinState, Nil
<1>4. ASSUME NEW i \in (0 + 1)..n, i - 1 \in G
      PROVE  i \in G
  <2>1. i \in 1..n /\ i \in 0..n
    BY SMTT(60), <1>1
  <2>2. L[i] \in RobinState
    BY SMTT(60), <1>2, <1>4, <2>1, RobinStepTypes
  <2> QED
    BY <2>1, <2>2
<1> HIDE DEF G
<1>5. \A i \in 0..n : i \in G
  BY SMTT(60), <1>1, <1>3, <1>4, Induction
<1>6. n \in G
  BY SMTT(60), <1>1, <1>5
<1> QED
  BY <1>6 DEF G, RoundRobin, L, n

(* While the counter does not wrap, a call moves it to the first free      *)
(* position after it.                                                      *)
LEMMA RobinFinds ==
    ASSUME NEW r, r \in Nat, r + N < RobinValues, Usable # {}
    PROVE  \E c \in (r + 1)..(r + N) :
             /\ Free(c) /\ \A d \in (r + 1)..(c - 1) : ~Free(d)
             /\ RoundRobin(Pool, r).robin = c /\ RoundRobin(Pool, r).pick = Position(c)
<1> DEFINE L == RobinLoop(Pool, r)
           Found(v, c) == /\ Free(c) /\ \A d \in (r + 1)..(c - 1) : ~Free(d)
                          /\ v.robin = c /\ v.pick = Position(c)
           None(v, i) == /\ v.robin = r + i /\ v.pick = Nil
                         /\ \A d \in (r + 1)..(r + i) : ~Free(d)
           G == {i \in 0..N : \/ None(L[i], i)
                              \/ \E c \in (r + 1)..(r + i) : Found(L[i], c)}
<1>1. /\ N \in Nat \ {0} /\ Len(Pool) = N /\ DOMAIN Pool = 1..N /\ RobinValues \in Nat \ {0}
      /\ r \in 0..(RobinValues - 1)
  BY SMTT(60), PoolShape, BalancedAssumption
<1>2. L[0] = [robin |-> r, pick |-> Nil] /\ \A i \in 1..N : L[i] = RobinStep(Pool, L[i - 1])
  BY SMTT(60), <1>1, RobinLoopSteps
<1> HIDE DEF L
<1>3. 0 \in G
  <2>1. None(L[0], 0)
    BY SMTT(60), <1>1, <1>2
  <2> QED
    BY SMTT(60), <1>1, <2>1
<1>4. ASSUME NEW i \in (0 + 1)..N, i - 1 \in G
      PROVE  i \in G
  <2>1. i \in 1..N /\ i \in 0..N /\ i - 1 \in 0..N /\ L[i] = RobinStep(Pool, L[i - 1])
    BY SMTT(60), <1>1, <1>2
  <2>2. CASE None(L[i - 1], i - 1)
    <3> DEFINE c == r + i
    <3>1. c \in Nat /\ (L[i - 1].robin + 1) % RobinValues = c /\ c \in (r + 1)..(r + i)
      <4>1. L[i - 1].robin + 1 = c /\ c \in 0..(RobinValues - 1)
        BY <1>1, <2>1, <2>2
      <4>2. c % RobinValues = c
        BY <1>1, <4>1
      <4> QED
        BY SMTT(60), <1>1, <2>1, <4>1, <4>2
    <3>2. L[i - 1].robin \in Nat
      BY SMTT(60), <2>1, <2>2
    <3>3. /\ RobinTurn(Pool, L[i - 1].robin).robin = c
          /\ RobinTurn(Pool, L[i - 1].robin).at = Position(c)
      BY SMTT(60), <3>1, <3>2, RobinTurnIs
    <3>4. L[i] = [robin |-> c, pick |-> IF Free(c) THEN Position(c) ELSE Nil]
      BY ONLY ZenonT(60), <2>1, <2>2, <3>3, Zenon DEF RobinStep, Free
    <3>5. \A d \in (r + 1)..(c - 1) : ~Free(d)
      BY SMTT(60), <2>1, <2>2
    <3> HIDE DEF c
    <3>6. CASE Free(c)
      <4>1. Found(L[i], c)
        BY SMTT(60), <3>4, <3>5, <3>6
      <4> QED
        BY SMTT(60), <2>1, <3>1, <4>1
    <3>7. CASE ~Free(c)
      <4>1. \A d \in (r + 1)..(r + i) : ~Free(d)
        BY SMTT(60), <2>1, <3>5, <3>7 DEF c
      <4>2. None(L[i], i)
        BY SMTT(60), <3>4, <3>7, <4>1 DEF c
      <4> QED
        BY <2>1, <4>2
    <3> QED
      BY SMTT(60), <3>6, <3>7
  <2>3. CASE \E c \in (r + 1)..(r + (i - 1)) : Found(L[i - 1], c)
    <3>1. PICK c \in (r + 1)..(r + (i - 1)) : Found(L[i - 1], c)
      BY <2>3
    <3>2. c \in Nat /\ c \in (r + 1)..(r + i)
      BY SMTT(60), <2>1
    <3>3. L[i - 1].pick # Nil
      BY SMTT(60), <3>1, <3>2, RobinTurnIs DEF Nil
    <3>4. L[i] = L[i - 1]
      BY <2>1, <3>3 DEF RobinStep
    <3> QED
      BY SMTT(60), <2>1, <3>1, <3>2, <3>4
  <2> QED
    BY SMTT(60), <1>4, <2>2, <2>3
<1>5. N \in G
  <2> HIDE DEF G
  <2>0. 0 \in Nat /\ N \in Nat /\ 0 <= N
    BY <1>1
  <2>1. \A i \in 0..N : i \in G
    BY ONLY ZenonT(60), <1>3, <1>4, <2>0, Induction, Zenon
  <2> QED
    BY <1>1, <2>1
<1>6. ~None(L[N], N)
  <2>1. PICK u \in Usable : TRUE
    OBVIOUS
  <2>2. u \in 1..N /\ Available(Pool[u])
    BY <1>1, <2>1 DEF Usable, AvailableIn
  <2> DEFINE h == r + 1
  <2>a. h \in Nat /\ N \in Nat \ {0}
    BY <1>1
  <2> HIDE DEF h
  <2>3. PICK d \in 0..(N - 1) : ((h + d) % N) + 1 = u
    BY ONLY ZenonT(60), <2>a, <2>2, Around1, Zenon
  <2>4. Free(h + d) /\ h + d \in (r + 1)..(r + N)
    BY SMTT(60), <1>1, <2>2, <2>3 DEF Free, Position, h
  <2> QED
    BY <2>4
<1> QED
  <2>1. PICK c \in (r + 1)..(r + N) : Found(L[N], c)
    BY SMTT(60), <1>5, <1>6
  <2>2. RoundRobin(Pool, r) = L[N]
    BY SMTT(60), <1>1 DEF RoundRobin, L
  <2> QED
    BY SMTT(60), <2>1, <2>2

(* RobinCalls makes its calls.                                             *)
LEMMA RobinCallsSteps ==
    ASSUME NEW k, k \in Nat, robin \in 0..(RobinValues - 1)
    PROVE  /\ RobinCalls(k)[0] = [robin |-> robin, pick |-> Nil]
           /\ \A i \in 1..k :
                RobinCalls(k)[i] = RoundRobin(Pool, RobinCalls(k)[i - 1].robin)
<1> DEFINE n == k
           S == RobinState
           base == [robin |-> robin, pick |-> Nil]
           F == [x \in S \X ((0 + 1)..n) |-> RoundRobin(Pool, x[1].robin)]
           Q(g) == g = [i \in 0..n |-> IF i = 0 THEN base ELSE RoundRobin(Pool, g[i - 1].robin)]
<1>1. base \in S
  BY BalancedAssumption DEF RobinState, Nil
<1>2. IsStep(F, 0, n, S)
  <2>1. ASSUME NEW acc \in S, NEW i \in 1..n
        PROVE  RoundRobin(Pool, acc.robin) \in S
    <3>1. acc.robin \in 0..(RobinValues - 1)
      BY DEF RobinState
    <3> QED
      BY <3>1, RobinTypes
  <2> HIDE DEF S
  <2> QED
    BY <2>1 DEF IsStep
<1>3. \A x \in S, i \in 1..n : F[<<x, i>>] = RoundRobin(Pool, x.robin)
  OBVIOUS
<1> HIDE DEF S, F, base
<1>4. PICK f : IsRun(f, F, 0, n, S, base)
  <2>1. n \in Nat /\ 0 \in Nat /\ 0 <= n
    OBVIOUS
  <2> HIDE DEF n
  <2> QED
    BY ONLY ZenonT(60), <1>1, <1>2, <2>1, LoopExists, Zenon
<1>5. Q(f)
  <2>1. \A i \in 1..n : f[i] = RoundRobin(Pool, f[i - 1].robin)
    <3> TAKE i \in 1..n
    <3>1. f[i - 1] \in S /\ i \in (0 + 1)..n
      BY <1>4 DEF IsRun
    <3> QED
      BY ZenonT(60), <1>3, <1>4, <3>1 DEF IsRun
  <2> QED
    BY <1>4, <2>1 DEF IsRun
<1>6. RobinCalls(k) = CHOOSE g : Q(g)
  BY DEF RobinCalls, base
<1> HIDE DEF Q
<1>7. Q(RobinCalls(k))
  BY ZenonT(60), <1>5, <1>6, Zenon
<1>8. /\ RobinCalls(k)[0] = base
      /\ \A i \in 1..n :
            RobinCalls(k)[i] = RoundRobin(Pool, RobinCalls(k)[i - 1].robin)
  <2> DEFINE l == RobinCalls(k)
  <2>1. l = [i \in 0..n |-> IF i = 0 THEN base ELSE RoundRobin(Pool, l[i - 1].robin)]
    BY <1>7 DEF Q
  <2> HIDE DEF l
  <2>2. l[0] = base /\ \A i \in 1..n : l[i] = RoundRobin(Pool, l[i - 1].robin)
    BY <2>1
  <2> QED
    BY <2>2 DEF l
<1> QED
  BY <1>8 DEF base

(* N counters in a row are at different positions.                         *)
LEMMA PositionsDiffer ==
    ASSUME NEW r \in Nat, NEW c \in r..(r + N), NEW d \in r..(r + N), r < c, c < d
    PROVE  Position(c) # Position(d)
<1>1. N \in Nat \ {0} /\ c \in Nat /\ d \in Nat
  BY BalancedAssumption
<1> DEFINE p == c \div N
           q == d \div N
           t == c % N
<1> SUFFICES ASSUME c % N = d % N
             PROVE  FALSE
  BY <1>1 DEF Position
<1>2. /\ c = N * p + t /\ d = N * q + t /\ t \in Nat
      /\ p \in Nat /\ q \in Nat
  <2>1. c = N * (c \div N) + (c % N) /\ c % N \in 0..(N - 1) /\ c \div N \in Nat
    BY ONLY ZenonT(60), <1>1, Division
  <2>2. d = N * (d \div N) + (d % N) /\ d \div N \in Nat
    BY ONLY SMTT(60), <1>1, Division
  <2> QED
    BY <1>1, <2>1, <2>2
<1> HIDE DEF p, q, t
<1>3. N * q - N * p = d - c /\ 0 < d - c /\ d - c < N
  BY SMTT(60), <1>1, <1>2
<1>4. N * (q - p) = d - c
  BY SMTT(60), <1>1, <1>2, <1>3
<1>5. CASE q - p <= 0
  <2>1. N * (q - p) <= 0
    BY SMTT(60), <1>1, <1>2, <1>5
  <2> QED
    BY SMTT(60), <1>1, <1>3, <1>4, <2>1
<1>6. CASE q - p >= 1
  <2>1. N * (q - p) >= N
    BY SMTT(60), <1>1, <1>2, <1>6
  <2> QED
    BY SMTT(60), <1>1, <1>3, <1>4, <2>1
<1> QED
  BY SMTT(60), <1>2, <1>5, <1>6

(* Calls one after the other go once through the available upstreams.      *)
LEMMA RobinEven ==
    ASSUME TypeOK
    PROVE  RobinIsEven
<1> SUFFICES ASSUME robin + N * N < RobinValues
             PROVE  {RobinCalls(Cardinality(Usable))[j].pick : j \in 1..Cardinality(Usable)} = Usable
  BY DEF RobinIsEven
<1> DEFINE r == robin
           S == N * N
           K == Cardinality(Usable)
           L == RobinCalls(K)
           Picked(j) == {L[m].pick : m \in 1..j}
           Passed(j) == {Position(c) : c \in {d \in (r + 1)..L[j].robin : Free(d)}}
           Good(j) == /\ L[j].robin \in r..(r + N)
                      /\ Picked(j) = Passed(j)
                      /\ Picked(j) \subseteq Usable
                      /\ IsFiniteSet(Picked(j)) /\ Cardinality(Picked(j)) = j
           G == {j \in 0..K : Good(j)}
<1>1. /\ N \in Nat \ {0} /\ RobinValues \in Nat \ {0} /\ r \in 0..(RobinValues - 1) /\ r \in Nat
      /\ N <= S /\ (N # 1 => N + N <= S) /\ S \in Nat /\ r + S < RobinValues
      /\ DOMAIN Pool = 1..N
  <2>1. N \in Nat \ {0} /\ RobinValues \in Nat \ {0} /\ r \in 0..(RobinValues - 1)
    BY BalancedAssumption DEF TypeOK
  <2>2. N <= N * N /\ (N # 1 => N + N <= N * N) /\ N * N \in Nat
    BY <2>1
  <2> QED
    BY SMTT(60), <2>1, <2>2, PoolShape
<1>2. Usable \subseteq 1..N /\ IsFiniteSet(Usable) /\ K \in Nat
  <2>1. Usable \subseteq 1..N
    BY <1>1 DEF Usable, AvailableIn
  <2>2. IsFiniteSet(1..N)
    BY <1>1, FS_Interval
  <2>3. IsFiniteSet(Usable)
    BY ONLY ZenonT(60), <2>1, <2>2, FS_Subset
  <2> QED
    BY SMTT(60), <2>1, <2>3, FS_CardinalityType
<1>3. K <= N
  <2>1. IsFiniteSet(1..N) /\ Cardinality(1..N) = N
    BY <1>1, FS_Interval
  <2>2. Cardinality(Usable) <= Cardinality(1..N)
    BY ONLY ZenonT(60), <1>2, <2>1, FS_Subset
  <2> QED
    BY <2>1, <2>2
<1> HIDE DEF r, K, S
<1>4. L[0] = [robin |-> r, pick |-> Nil] /\ \A j \in 1..K : L[j] = RoundRobin(Pool, L[j - 1].robin)
  BY SMTT(60), <1>1, <1>2, RobinCallsSteps DEF r
<1> HIDE DEF L
<1>5. 0 \in G
  <2>1. L[0].robin = r /\ 1..0 = {} /\ (r + 1)..r = {}
    BY <1>1, <1>4
  <2>2. Picked(0) = {}
    BY <2>1
  <2>3. Passed(0) = {}
    BY <2>1
  <2>5. L[0].robin \in r..(r + N)
    BY <1>1, <2>1
  <2>4. IsFiniteSet({}) /\ Cardinality({}) = 0
    BY SMTT(60), FS_EmptySet
  <2> HIDE DEF Picked, Passed
  <2>6. Good(0)
    BY ONLY SMTT(60), <2>2, <2>3, <2>4, <2>5
  <2> HIDE DEF Good
  <2> QED
    BY <1>2, <2>6
<1>6. ASSUME NEW j \in (0 + 1)..K, j - 1 \in G
      PROVE  j \in G
  <2> DEFINE b == L[j - 1].robin
             P == Picked(j - 1)
  <2>1. /\ j \in 1..K /\ j \in 0..K /\ j - 1 \in 0..K /\ L[j] = RoundRobin(Pool, b)
        /\ b \in r..(r + N)
        /\ P = {Position(c) : c \in {d \in (r + 1)..b : Free(d)}}
        /\ P \subseteq Usable /\ IsFiniteSet(P) /\ Cardinality(P) = j - 1
    <3>1. j \in 1..K /\ j \in 0..K /\ j - 1 \in 0..K
      BY SMTT(60), <1>2
    <3>2. L[j] = RoundRobin(Pool, b)
      BY <1>4, <3>1
    <3>3. Good(j - 1)
      <4> HIDE DEF Good
      <4> QED
        BY SMTT(60), <1>6
    <3> QED
      BY ONLY ZenonT(60), <3>1, <3>2, <3>3, Zenon
  <2>n. b \in r..(r + N) /\ j \in 1..K
    BY SMTT(60), <2>1
  <2>2. b \in Nat /\ b + N < RobinValues
    <3>1. CASE j = 1
      BY SMTT(60), <1>1, <1>4, <3>1
    <3>2. CASE j # 1
      <4>1. N # 1
        BY ONLY SMTT(60), <1>1, <1>2, <1>3, <2>n, <3>2
      <4> QED
        BY ONLY SMTT(60), <1>1, <2>n, <4>1
    <3> QED
      BY SMTT(60), <3>1, <3>2
  <2> HIDE DEF b, P
  <2>3. PICK u \in Usable : u \notin P
    <3>1. P # Usable
      BY SMTT(60), <1>2, <2>1 DEF K
    <3> QED
      BY SMTT(60), <2>1, <3>1
  <2>4. PICK e \in (r + 1)..(r + N) : Position(e) = u /\ Free(e)
    <3> DEFINE h == r + 1
    <3>1. h \in Nat /\ N \in Nat \ {0} /\ u \in 1..N /\ Available(Pool[u])
      BY <1>1, <1>2 DEF Usable, AvailableIn
    <3> HIDE DEF h
    <3>2. PICK d \in 0..(N - 1) : ((h + d) % N) + 1 = u
      BY ONLY ZenonT(60), <3>1, Around1, Zenon
    <3>3. Position(h + d) = u /\ Free(h + d) /\ h + d \in (r + 1)..(r + N)
      BY SMTT(60), <1>1, <3>1, <3>2 DEF Free, Position, h
    <3> QED
      BY SMTT(60), <3>3
  <2>5. b < e
    BY SMTT(60), <1>1, <2>1, <2>2, <2>3, <2>4
  <2>6. PICK c \in (b + 1)..(b + N) :
          /\ Free(c) /\ \A d \in (b + 1)..(c - 1) : ~Free(d)
          /\ L[j].robin = c /\ L[j].pick = Position(c)
    <3>1. Usable # {}
      BY <2>3
    <3> QED
      BY ONLY SMTT(60), <2>1, <2>2, <3>1, RobinFinds
  <2>7. c \in Nat /\ c \in (r + 1)..(r + N) /\ b < c
    <3>0. c \in Nat /\ e \in Nat /\ b + 1 <= c
      BY ONLY SMTT(60), <1>1, <2>2, <2>4, <2>6
    <3>1. c <= e
      BY ONLY SMTT(60), <2>2, <2>4, <2>5, <2>6, <3>0
    <3> QED
      BY ONLY SMTT(60), <1>1, <2>n, <2>2, <2>4, <3>0, <3>1
  <2>8. Position(c) \in Usable
    <3>1. Position(c) \in 1..N
      BY SMTT(60), <1>1, <2>7 DEF Position
    <3> QED
      BY SMTT(60), <1>1, <2>6, <3>1 DEF Usable, AvailableIn, Free
  <2>9. Position(c) \notin P
    <3> SUFFICES ASSUME NEW d \in (r + 1)..b, Position(d) = Position(c)
                 PROVE  FALSE
      BY SMTT(60), <2>1
    <3>1. d \in r..(r + N) /\ c \in r..(r + N) /\ r < d /\ d < c
      BY SMTT(60), <1>1, <2>1, <2>2, <2>7
    <3> QED
      BY SMTT(60), <1>1, <3>1, PositionsDiffer
  <2>10. Picked(j) = P \cup {Position(c)}
    <3>1. \A m : m \in 1..j <=> m \in 1..(j - 1) \/ m = j
      BY SMTT(60), <1>2, <2>1
    <3> QED
      BY SMTT(60), <2>6, <3>1 DEF P
  <2>11. Picked(j) = Passed(j)
    <3>1. \A d : d \in (r + 1)..c /\ Free(d) <=> (d \in (r + 1)..b /\ Free(d)) \/ d = c
      <4>1. ASSUME NEW d
            PROVE  d \in (r + 1)..c <=> \/ d \in (r + 1)..b \/ d \in (b + 1)..(c - 1) \/ d = c
        BY ONLY SMTT(60), <1>1, <2>n, <2>2, <2>7
      <4>2. Free(c) /\ \A d \in (b + 1)..(c - 1) : ~Free(d)
        BY SMTT(60), <2>6
      <4> QED
        BY ONLY SMTT(60), <4>1, <4>2
    <3> QED
      BY SMTT(60), <2>1, <2>6, <2>10, <3>1
  <2> HIDE DEF Picked, Passed
  <2>12. IsFiniteSet(Picked(j)) /\ Cardinality(Picked(j)) = j
    <3>1. IsFiniteSet(P \cup {Position(c)}) /\ Cardinality(P \cup {Position(c)}) = Cardinality(P) + 1
      BY ONLY ZenonT(60), <2>1, <2>9, FS_AddElement
    <3> QED
      BY SMTT(60), <1>2, <2>1, <2>10, <3>1
  <2>13. L[j].robin \in r..(r + N)
    BY SMTT(60), <1>1, <2>6, <2>7
  <2>14. Picked(j) \subseteq Usable
    BY ONLY SMTT(60), <2>1, <2>8, <2>10
  <2>15. Good(j)
    BY ONLY SMTT(60), <2>11, <2>12, <2>13, <2>14
  <2> HIDE DEF Good
  <2> QED
    BY <2>1, <2>15
<1>7. K \in G
  <2> HIDE DEF G
  <2>0. 0 \in Nat /\ K \in Nat /\ 0 <= K
    BY <1>2
  <2>1. \A j \in 0..K : j \in G
    BY ONLY ZenonT(60), <1>5, <1>6, <2>0, Induction, Zenon
  <2> QED
    BY <1>2, <2>1
<1>8. Picked(K) \subseteq Usable /\ Cardinality(Picked(K)) = Cardinality(Usable)
  BY <1>7 DEF K
<1> HIDE DEF Picked
<1>9. Picked(K) = Usable
  BY ONLY <1>2, <1>8, FS_Subset
<1> QED
  BY <1>9 DEF Picked, L, K

-----------------------------------------------------------------------------
(***************************************************************************)
(* What holds in every state.                                              *)
(***************************************************************************)

(* Every behaviour keeps the types and the scheduler at its place.         *)
LEMMA BalancedAlways == Spec => [](TypeOK /\ Scheduled /\ CountsConns)
<1> DEFINE AllInv == TypeOK /\ Scheduled /\ CountsConns /\ Inv
<1>1. Init => AllInv
  BY BalancedInit, InitInv DEF Inv
<1>2. AllInv /\ [Next]_vars => AllInv'
  <2> SUFFICES ASSUME AllInv, [Next]_vars
               PROVE  AllInv'
    OBVIOUS
  <2>1. TypeOK' /\ Scheduled'
    BY BalancedStep
  <2>2. Inv'
    BY StepInv
  <2> QED
    BY <2>1, <2>2 DEF Inv
<1> QED
  BY <1>1, <1>2, PTL DEF Spec

(* A handler dials and proxies over an upstream of the pool only, never    *)
(* over the empty address; the counter of the round robin and the state of *)
(* Weight stay in their ranges, also across Reset.                         *)
THEOREM BalancedTypes == Spec => []TypeOK
BY BalancedAlways, PTL

(* The methods that look at the whole pool return an available upstream    *)
(* whenever there is one and nil otherwise, and LeastConn and LeastTime    *)
(* return the least: reservoir sampling that restarts at a smaller value.  *)
THEOREM Picks == Spec => []PicksByMethod
<1>1. TypeOK /\ CountsConns => PicksByMethod
  BY PicksInPool
<1> QED
  BY <1>1, BalancedAlways, PTL

(* While calls do not overlap, the round robin passes each available       *)
(* upstream once before one repeats, and a cycle of weighted picks gives   *)
(* each upstream its weight over the gcd, wherever earlier failures, or    *)
(* calls that did overlap, left the scheduler.                             *)
THEOREM FairTurns == Spec => []TurnsAreFair
<1>1. TypeOK /\ Scheduled => TurnsAreFair
  BY RobinEven, CycleShares DEF TurnsAreFair
<1> QED
  BY <1>1, BalancedAlways, PTL

===============================================================================
