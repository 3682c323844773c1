---------------------------- MODULE SelectorsProofs ----------------------------
(***************************************************************************)
(* What the selection methods do on the pool of a balancer, for any pool   *)
(* and any weights: the methods that look at the whole pool, and the       *)
(* scheduler of the weighted method.                                       *)
(*                                                                         *)
(* A selection method is a loop over the pool, so what it returns is found *)
(* by induction over the pool.  The induction is the lemma Induction on a  *)
(* set of positions, which follows from the least position outside it.     *)
(***************************************************************************)
EXTENDS Balanced, FiniteSetTheorems, WellFoundedInduction, TLAPS

(***************************************************************************)
(* Loops.                                                                  *)
(***************************************************************************)

(* A non-empty set of natural numbers has a least element.                 *)
LEMMA LeastNumber ==
    ASSUME NEW T \in SUBSET Nat, T # {}
    PROVE  \E n \in T : \A m \in T : n <= m
<1>1. PICK n \in T : \A m \in T : ~ (<<m, n>> \in OpToRel(<, Nat))
  BY ZenonT(60), NatLessThanWellFounded, WFMin
<1>2. \A m \in T : m < n => <<m, n>> \in OpToRel(<, Nat)
  BY Zenon DEF OpToRel
<1> HIDE DEF OpToRel
<1>3. \A m \in T : ~(m < n)
  BY <1>1, <1>2, Zenon
<1> QED
  BY <1>3

(* Induction from a to n, on a set of numbers.                             *)
LEMMA Induction ==
    ASSUME NEW a \in Nat, NEW n \in Nat, a <= n, NEW G,
           a \in G, \A i \in (a + 1)..n : i - 1 \in G => i \in G
    PROVE  \A i \in a..n : i \in G
<1> DEFINE T == {i \in a..n : i \notin G}
<1> SUFFICES ASSUME T # {}
             PROVE  FALSE
  OBVIOUS
<1>0. T \in SUBSET Nat
  OBVIOUS
<1>1. PICK i \in T : \A j \in T : i <= j
  BY ZenonT(60), <1>0, LeastNumber
<1>2. i \in (a + 1)..n /\ i - 1 \in a..n /\ i - 1 \notin T
  BY <1>1
<1> QED
  BY <1>1, <1>2

(* A loop from a to n over a state in S that starts at base; F[s, i] is    *)
(* the state step i makes of s.                                            *)
IsStep(F, a, n, S) == F \in [S \X ((a + 1)..n) -> S]

IsRun(f, F, a, n, S, base) ==
    /\ f \in [a..n -> S]
    /\ f[a] = base
    /\ \A i \in (a + 1)..n : f[i] = F[<<f[i - 1], i>>]

(* The states of a loop form a function.                                   *)
LEMMA LoopExists ==
    ASSUME NEW a \in Nat, NEW n \in Nat, a <= n, NEW S, NEW base \in S,
           NEW F, IsStep(F, a, n, S)
    PROVE  \E f : IsRun(f, F, a, n, S, base)
<1> DEFINE Runs(k, f) == /\ f \in [a..k -> S]
                         /\ f[a] = base
                         /\ \A i \in (a + 1)..k : f[i] = F[<<f[i - 1], i>>]
           G == {k \in a..n : \E f : Runs(k, f)}
<1>1. a \in G
  <2>1. Runs(a, [i \in a..a |-> base])
    OBVIOUS
  <2> QED
    BY <2>1
<1>2. ASSUME NEW k \in (a + 1)..n, k - 1 \in G
      PROVE  k \in G
  <2>1. PICK f : Runs(k - 1, f)
    BY <1>2
  <2> DEFINE g == [i \in a..k |-> IF i = k THEN F[<<f[k - 1], k>>] ELSE f[i]]
  <2>2. f[k - 1] \in S /\ F[<<f[k - 1], k>>] \in S
    BY <2>1 DEF IsStep
  <2>3. g \in [a..k -> S]
    BY <2>1, <2>2
  <2>4. \A i \in a..(k - 1) : g[i] = f[i]
    OBVIOUS
  <2>5. g[k] = F[<<f[k - 1], k>>]
    OBVIOUS
  <2> HIDE DEF g
  <2>6. \A i \in (a + 1)..k : g[i] = F[<<g[i - 1], i>>]
    <3> TAKE i \in (a + 1)..k
    <3>1. CASE i = k
      <4>1. g[k - 1] = f[k - 1]
        BY <2>4
      <4> QED
        BY <2>5, <3>1, <4>1
    <3>2. CASE i # k
      <4>1. i \in (a + 1)..(k - 1) /\ i \in a..(k - 1) /\ i - 1 \in a..(k - 1)
        BY <3>2
      <4>2. g[i] = f[i] /\ g[i - 1] = f[i - 1] /\ f[i] = F[<<f[i - 1], i>>]
        BY <2>1, <2>4, <4>1
      <4> QED
        BY <4>2
    <3> QED
      BY <3>1, <3>2
  <2>7. g[a] = base
    BY <2>1, <2>4
  <2> QED
    BY <2>3, <2>6, <2>7
<1> HIDE DEF G
<1>3. n \in G
  BY <1>1, <1>2, Induction
<1> QED
  BY <1>3 DEF G, IsRun

-----------------------------------------------------------------------------
(***************************************************************************)
(* The methods that look at the whole pool.                                *)
(***************************************************************************)

(* RandomLoop does its steps.                                              *)
LEMMA RandomLoopSteps ==
    ASSUME NEW pool, Len(pool) \in Nat
    PROVE  /\ RandomLoop(pool)[0] = [count |-> 0, held |-> {Nil}]
           /\ \A i \in 1..Len(pool) :
                RandomLoop(pool)[i] = RandomStep(pool, RandomLoop(pool)[i - 1], i)
<1> DEFINE n == Len(pool)
           S == [count : Nat, held : SUBSET Nat]
           base == [count |-> 0, held |-> {Nil}]
           F == [x \in S \X ((0 + 1)..n) |-> RandomStep(pool, x[1], x[2])]
           Q(g) == g = [i \in 0..n |-> IF i = 0 THEN base ELSE RandomStep(pool, g[i - 1], i)]
<1>1. base \in S
  BY DEF Nil
<1>2. IsStep(F, 0, n, S)
  <2>1. ASSUME NEW acc \in S, NEW i \in 1..n
        PROVE  RandomStep(pool, acc, i) \in S
    <3>1. acc.count + 1 \in Nat /\ Sample(acc.count + 1, acc.held, i) \in SUBSET Nat
      BY DEF Sample
    <3> QED
      BY <3>1 DEF RandomStep
  <2> HIDE DEF S
  <2> QED
    BY <2>1 DEF IsStep
<1>3. \A x \in S, i \in 1..n : F[<<x, i>>] = RandomStep(pool, x, i)
  OBVIOUS
<1> HIDE DEF S, F, base
<1>4. PICK f : IsRun(f, F, 0, n, S, base)
  <2>1. n \in Nat /\ 0 \in Nat /\ 0 <= n
    OBVIOUS
  <2> HIDE DEF n
  <2> QED
    BY ONLY <1>1, <1>2, <2>1, LoopExists, Zenon
<1>5. Q(f)
  <2>1. \A i \in 1..n : f[i] = RandomStep(pool, f[i - 1], i)
    <3> TAKE i \in 1..n
    <3>1. f[i - 1] \in S /\ i \in (0 + 1)..n
      BY <1>4 DEF IsRun
    <3> QED
      BY ZenonT(60), <1>3, <1>4, <3>1 DEF IsRun
  <2> QED
    BY <1>4, <2>1 DEF IsRun
<1>6. RandomLoop(pool) = CHOOSE g : Q(g)
  BY DEF RandomLoop, base
<1> HIDE DEF Q
<1>7. Q(RandomLoop(pool))
  BY <1>5, <1>6, Zenon
<1>8. /\ RandomLoop(pool)[0] = base
      /\ \A i \in 1..n :
            RandomLoop(pool)[i] = RandomStep(pool, RandomLoop(pool)[i - 1], i)
  <2> DEFINE l == RandomLoop(pool)
  <2>1. l = [i \in 0..n |-> IF i = 0 THEN base ELSE RandomStep(pool, l[i - 1], i)]
    BY <1>7 DEF Q
  <2> HIDE DEF l
  <2>2. l[0] = base /\ \A i \in 1..n : l[i] = RandomStep(pool, l[i - 1], i)
    BY <2>1
  <2> QED
    BY <2>2 DEF l
<1> QED
  BY <1>8 DEF base

(* Drawing at random may give any available upstream, and nil only if      *)
(* there is none.                                                          *)
LEMMA RandomDraws ==
    ASSUME NEW pool, Len(pool) \in Nat
    PROVE  LET A == {i \in 1..Len(pool) : Available(pool[i])}
           IN  Random(pool) = IF A = {} THEN {Nil} ELSE A
<1> DEFINE n == Len(pool)
           A(k) == {i \in 1..k : Available(pool[i])}
           L == RandomLoop(pool)
           Drawn(k) == /\ L[k].count \in Nat
                       /\ A(k) = {} => L[k].count = 0 /\ L[k].held = {Nil}
                       /\ A(k) # {} => L[k].count # 0 /\ L[k].held = A(k)
           G == {k \in 0..n : Drawn(k)}
<1>1. Drawn(0)
  BY RandomLoopSteps
<1>2. ASSUME NEW k \in 1..n, Drawn(k - 1)
      PROVE  Drawn(k)
  <2>1. L[k] = RandomStep(pool, L[k - 1], k)
    BY RandomLoopSteps
  <2> HIDE DEF L
  <2>2. CASE Available(pool[k])
    <3>1. A(k) = A(k - 1) \cup {k} /\ A(k) # {}
      BY <2>2
    <3>2. /\ L[k].count = L[k - 1].count + 1
          /\ L[k].held = Sample(L[k - 1].count + 1, L[k - 1].held, k)
      BY <2>1, <2>2 DEF RandomStep
    <3> HIDE DEF A
    <3>3. L[k].held = A(k)
      BY <1>2, <3>1, <3>2 DEF Sample
    <3> QED
      BY <1>2, <3>1, <3>2, <3>3
  <2>3. CASE ~Available(pool[k])
    <3>1. A(k) = A(k - 1)
      BY <2>3
    <3>2. L[k] = L[k - 1]
      BY <2>1, <2>3 DEF RandomStep
    <3> HIDE DEF A
    <3> QED
      BY <1>2, <3>1, <3>2
  <2> QED
    BY <2>2, <2>3
<1> HIDE DEF Drawn
<1>3. 0 \in G /\ \A k \in (0 + 1)..n : k - 1 \in G => k \in G
  BY <1>1, <1>2
<1>4. n \in G
  <2>1. n \in Nat /\ 0 \in Nat /\ 0 <= n
    OBVIOUS
  <2> HIDE DEF G, n
  <2>2. \A i \in 0..n : i \in G
    BY ONLY <1>3, <2>1, Induction, Zenon
  <2> QED
    BY <2>1, <2>2
<1>5. Drawn(n)
  BY <1>4 DEF G
<1> QED
  BY ZenonT(60), <1>5 DEF Drawn, Random

(* LeastLoop does its steps.                                               *)
LEMMA LeastLoopSteps ==
    ASSUME NEW pool, Len(pool) \in Nat, NEW measure, measure \in [1..Len(pool) -> Int]
    PROVE  /\ LeastLoop(pool, measure)[0] = [min |-> -1, count |-> 0, held |-> {Nil}]
           /\ \A i \in 1..Len(pool) :
                LeastLoop(pool, measure)[i] =
                  LeastStep(pool, measure, LeastLoop(pool, measure)[i - 1], i)
<1> DEFINE n == Len(pool)
           S == [min : Int, count : Nat, held : SUBSET Nat]
           base == [min |-> -1, count |-> 0, held |-> {Nil}]
           F == [x \in S \X ((0 + 1)..n) |-> LeastStep(pool, measure, x[1], x[2])]
           Q(g) == g = [i \in 0..n |->
                          IF i = 0 THEN base ELSE LeastStep(pool, measure, g[i - 1], i)]
<1>1. base \in S
  BY DEF Nil
<1>2. IsStep(F, 0, n, S)
  <2>1. ASSUME NEW acc \in S, NEW i \in 1..n
        PROVE  LeastStep(pool, measure, acc, i) \in S
    <3>1. \A c \in Nat : Sample(c, acc.held, i) \in SUBSET Nat
      BY DEF Sample
    <3>2. acc.count + 1 \in Nat /\ measure[i] \in Int
      OBVIOUS
    <3> QED
      BY <3>1, <3>2 DEF LeastStep
  <2> HIDE DEF S
  <2> QED
    BY <2>1 DEF IsStep
<1>3. \A x \in S, i \in 1..n : F[<<x, i>>] = LeastStep(pool, measure, x, i)
  OBVIOUS
<1> HIDE DEF S, F, base
<1>4. PICK f : IsRun(f, F, 0, n, S, base)
  <2>1. n \in Nat /\ 0 \in Nat /\ 0 <= n
    OBVIOUS
  <2> HIDE DEF n
  <2> QED
    BY ONLY <1>1, <1>2, <2>1, LoopExists, Zenon
<1>5. Q(f)
  <2>1. \A i \in 1..n : f[i] = LeastStep(pool, measure, f[i - 1], i)
    <3> TAKE i \in 1..n
    <3>1. f[i - 1] \in S /\ i \in (0 + 1)..n
      BY <1>4 DEF IsRun
    <3> QED
      BY ZenonT(60), <1>3, <1>4, <3>1 DEF IsRun
  <2> QED
    BY <1>4, <2>1 DEF IsRun
<1>6. LeastLoop(pool, measure) = CHOOSE g : Q(g)
  BY DEF LeastLoop, base
<1> HIDE DEF Q
<1>7. Q(LeastLoop(pool, measure))
  BY <1>5, <1>6, Zenon
<1>8. /\ LeastLoop(pool, measure)[0] = base
      /\ \A i \in 1..n :
            LeastLoop(pool, measure)[i] =
              LeastStep(pool, measure, LeastLoop(pool, measure)[i - 1], i)
  <2> DEFINE l == LeastLoop(pool, measure)
  <2>1. l = [i \in 0..n |-> IF i = 0 THEN base ELSE LeastStep(pool, measure, l[i - 1], i)]
    BY <1>7 DEF Q
  <2> HIDE DEF l
  <2>2. l[0] = base /\ \A i \in 1..n : l[i] = LeastStep(pool, measure, l[i - 1], i)
    BY <2>1
  <2> QED
    BY <2>2 DEF l
<1> QED
  BY <1>8 DEF base

(* The loop holds only available upstreams, and nil only if there is none. *)
LEMMA LeastFinds ==
    ASSUME NEW pool, Len(pool) \in Nat, NEW measure, measure \in [1..Len(pool) -> Int]
    PROVE  LET A == {i \in 1..Len(pool) : Available(pool[i])}
               B == LeastBy(pool, measure)
           IN  IF A = {} THEN B = {Nil} ELSE B # {} /\ B \subseteq A
<1> DEFINE n == Len(pool)
           A(k) == {i \in 1..k : Available(pool[i])}
           L == LeastLoop(pool, measure)
           Held(k) == /\ L[k].min \in Int /\ L[k].count \in Nat
                      /\ A(k) = {} => L[k].min = -1 /\ L[k].count = 0 /\ L[k].held = {Nil}
                      /\ A(k) # {} => L[k].count # 0 /\ L[k].held # {} /\ L[k].held \subseteq A(k)
           G == {k \in 0..n : Held(k)}
<1>1. Held(0)
  BY LeastLoopSteps
<1>2. ASSUME NEW k \in 1..n, Held(k - 1)
      PROVE  Held(k)
  <2>1. L[k] = LeastStep(pool, measure, L[k - 1], k) /\ measure[k] \in Int
    BY LeastLoopSteps
  <2> HIDE DEF L
  <2> DEFINE x == measure[k]
             smaller == L[k - 1].min = -1 \/ x < L[k - 1].min
             count == IF smaller THEN 1 ELSE L[k - 1].count + 1
  <2>2. CASE Available(pool[k]) /\ (smaller \/ x = L[k - 1].min)
    <3>1. A(k) = A(k - 1) \cup {k} /\ A(k) # {}
      BY <2>2
    <3>2. /\ L[k].min = x /\ L[k].count = count
          /\ L[k].held = Sample(count, L[k - 1].held, k)
      BY <2>1, <2>2 DEF LeastStep
    <3> HIDE DEF A
    <3>3. count \in Nat /\ (count = 1 \/ A(k - 1) # {})
      BY SMTT(60), <1>2, <2>2
    <3>4. count # 0 /\ L[k].held # {} /\ L[k].held \subseteq A(k)
      BY SMTT(60), <1>2, <3>1, <3>2, <3>3 DEF Sample
    <3> QED
      BY ZenonT(60), <2>1, <3>1, <3>2, <3>3, <3>4
  <2>3. CASE ~Available(pool[k])
    <3>1. A(k) = A(k - 1)
      BY <2>3
    <3>2. L[k] = L[k - 1]
      BY <2>1, <2>3 DEF LeastStep
    <3> HIDE DEF A
    <3> QED
      BY <1>2, <3>1, <3>2
  <2>4. CASE Available(pool[k]) /\ ~(smaller \/ x = L[k - 1].min)
    <3>1. A(k) = A(k - 1) \cup {k}
      BY <2>4
    <3>2. L[k] = L[k - 1]
      BY ZenonT(60), <2>1, <2>4 DEF LeastStep
    <3> HIDE DEF A
    <3>3. A(k - 1) # {}
      BY <1>2, <2>4
    <3> QED
      BY <1>2, <3>1, <3>2, <3>3
  <2> QED
    BY ZenonT(60), <2>2, <2>3, <2>4
<1> HIDE DEF Held
<1>3. 0 \in G /\ \A k \in (0 + 1)..n : k - 1 \in G => k \in G
  BY <1>1, <1>2
<1>4. n \in G
  <2>1. n \in Nat /\ 0 \in Nat /\ 0 <= n
    OBVIOUS
  <2> HIDE DEF G, n
  <2>2. \A i \in 0..n : i \in G
    BY ONLY <1>3, <2>1, Induction, Zenon
  <2> QED
    BY <2>1, <2>2
<1>5. Held(n)
  BY <1>4 DEF G
<1> QED
  BY <1>5 DEF Held, LeastBy

(* Where no value is negative the loop holds all available upstreams with  *)
(* the least value.                                                        *)
LEMMA LeastIsMin ==
    ASSUME NEW pool, Len(pool) \in Nat, NEW measure, measure \in [1..Len(pool) -> Int],
           \A i \in 1..Len(pool) : measure[i] >= 0,
           DOMAIN pool = 1..Len(pool), AvailableIn(pool) # {}
    PROVE  \A i : i \in LeastBy(pool, measure) <=>
                     /\ i \in AvailableIn(pool)
                     /\ \A j \in AvailableIn(pool) : measure[i] <= measure[j]
<1> DEFINE n == Len(pool)
           A(k) == {i \in 1..k : Available(pool[i])}
           L == LeastLoop(pool, measure)
           Held(k) == /\ L[k].min \in Int /\ L[k].count \in Nat
                      /\ A(k) = {} => L[k].min = -1 /\ L[k].count = 0
                      /\ A(k) # {} => /\ L[k].min >= 0 /\ L[k].count # 0
                                      /\ \A j \in A(k) : L[k].min <= measure[j]
                                      /\ \E j \in A(k) : L[k].min = measure[j]
                                      /\ L[k].held = {j \in A(k) : measure[j] = L[k].min}
           G == {k \in 0..n : Held(k)}
<1>1. Held(0)
  BY SMTT(60), LeastLoopSteps
<1>2. ASSUME NEW k \in 1..n, Held(k - 1)
      PROVE  Held(k)
  <2>1. L[k] = LeastStep(pool, measure, L[k - 1], k) /\ measure[k] \in Int /\ measure[k] >= 0
    BY LeastLoopSteps
  <2> HIDE DEF L
  <2> DEFINE x == measure[k]
             smaller == L[k - 1].min = -1 \/ x < L[k - 1].min
             count == IF smaller THEN 1 ELSE L[k - 1].count + 1
  <2>0. A(k - 1) \subseteq 1..(k - 1) /\ \A j \in A(k - 1) : measure[j] \in Int
    OBVIOUS
  <2>2. CASE Available(pool[k]) /\ (smaller \/ x = L[k - 1].min)
    <3>1. A(k) = A(k - 1) \cup {k} /\ A(k) # {}
      BY <2>2
    <3>2. /\ L[k].min = x /\ L[k].count = count
          /\ L[k].held = Sample(count, L[k - 1].held, k)
      BY SMTT(60), <2>1, <2>2 DEF LeastStep
    <3> HIDE DEF A
    <3>3. CASE smaller
      <4>1. \A j \in A(k - 1) : x < measure[j]
        BY SMTT(60), <1>2, <2>0, <2>1, <3>3
      <4>2. L[k].held = {k}
        BY <3>2, <3>3 DEF Sample
      <4>3. {j \in A(k) : measure[j] = x} = {k}
        BY <2>0, <2>1, <3>1, <4>1
      <4>4. \A j \in A(k) : x <= measure[j]
        BY SMTT(60), <2>0, <2>1, <3>1, <4>1
      <4> QED
        BY SMTT(60), <2>1, <3>1, <3>2, <3>3, <4>2, <4>3, <4>4
    <3>4. CASE ~smaller
      <4>1. /\ A(k - 1) # {} /\ L[k - 1].min = x /\ L[k - 1].count + 1 # 1
            /\ L[k - 1].count \in Nat
        BY SMTT(60), <1>2, <2>2, <3>4
      <4>2. L[k].held = L[k - 1].held \cup {k} /\ L[k].count = L[k - 1].count + 1
        BY <3>2, <3>4, <4>1 DEF Sample
      <4>3. L[k - 1].held = {j \in A(k - 1) : measure[j] = x}
        BY <1>2, <4>1
      <4>4. L[k].held = {j \in A(k) : measure[j] = x}
        BY ZenonT(60), <3>1, <4>2, <4>3
      <4>5. \A j \in A(k) : x <= measure[j]
        BY ZenonT(60), <1>2, <2>1, <3>1, <4>1
      <4> QED
        BY SMTT(60), <2>1, <3>1, <3>2, <4>1, <4>2, <4>4, <4>5
    <3> QED
      BY ZenonT(60), <3>3, <3>4
  <2>3. CASE ~Available(pool[k])
    <3>1. A(k) = A(k - 1)
      BY <2>3
    <3>2. L[k] = L[k - 1]
      BY ZenonT(60), <2>1, <2>3 DEF LeastStep
    <3> HIDE DEF A
    <3> QED
      BY <1>2, <3>1, <3>2
  <2>4. CASE Available(pool[k]) /\ ~(smaller \/ x = L[k - 1].min)
    <3>1. A(k) = A(k - 1) \cup {k}
      BY <2>4
    <3>2. L[k] = L[k - 1]
      BY ZenonT(60), <2>1, <2>4 DEF LeastStep
    <3> HIDE DEF A
    <3>3. A(k - 1) # {} /\ L[k - 1].min < x
      BY <1>2, <2>1, <2>4
    <3>4. L[k].held = {j \in A(k) : measure[j] = L[k].min}
      BY <1>2, <2>1, <3>1, <3>2, <3>3
    <3> QED
      BY <1>2, <2>1, <3>1, <3>2, <3>3, <3>4
  <2> QED
    BY ZenonT(60), <2>2, <2>3, <2>4
<1> HIDE DEF Held
<1>3. 0 \in G /\ \A k \in (0 + 1)..n : k - 1 \in G => k \in G
  BY <1>1, <1>2
<1>4. n \in G
  <2>1. n \in Nat /\ 0 \in Nat /\ 0 <= n
    OBVIOUS
  <2> HIDE DEF G, n
  <2>2. \A i \in 0..n : i \in G
    BY ONLY <1>3, <2>1, Induction, Zenon
  <2> QED
    BY <2>1, <2>2
<1>5. Held(n)
  BY <1>4 DEF G
<1>6. ASSUME A(n) # {}
      PROVE  LeastBy(pool, measure) = {i \in A(n) : \A j \in A(n) : measure[i] <= measure[j]}
  <2>1. \A j \in A(n) : measure[j] \in Int
    OBVIOUS
  <2> HIDE DEF A, L
  <2>2. /\ L[n].min \in Int
        /\ \A j \in A(n) : L[n].min <= measure[j]
        /\ \E j \in A(n) : L[n].min = measure[j]
        /\ L[n].held = {j \in A(n) : measure[j] = L[n].min}
    BY <1>5, <1>6 DEF Held
  <2>3. \A i \in A(n) : measure[i] = L[n].min <=> \A j \in A(n) : measure[i] <= measure[j]
    BY <2>1, <2>2
  <2>4. L[n].held = {i \in A(n) : \A j \in A(n) : measure[i] <= measure[j]}
    BY <2>2, <2>3
  <2> QED
    BY <2>4 DEF L, LeastBy
<1>7. AvailableIn(pool) = A(n)
  BY DEF AvailableIn
<1> HIDE DEF A
<1> QED
  BY <1>6, <1>7

(* The pool as the methods see it.                                         *)
LEMMA PoolShape ==
    /\ DOMAIN Pool = 1..N /\ Len(Pool) = N
    /\ \A i \in 1..N : /\ Pool[i].up = up[i] /\ Pool[i].conns = conns[i]
                       /\ Pool[i].time = time[i] /\ Pool[i].weight = Weights[i]
                       /\ Pool[i].max = MaxConns
<1>1. N \in Nat
  BY BalancedAssumption
<1>2. DOMAIN Pool = 1..N
  BY DEF Pool, Upstreams
<1>3. Len(Pool) = N
  BY <1>1 DEF Pool, Upstreams
<1>4. ASSUME NEW i \in 1..N
      PROVE  Pool[i] = [up |-> up[i], conns |-> conns[i], max |-> MaxConns, time |-> time[i],
                        weight |-> Weights[i]]
  BY DEF Pool, Upstreams
<1> QED
  BY <1>2, <1>3, <1>4

(* Division with remainder.                                                *)
LEMMA Division ==
    ASSUME NEW n \in Nat \ {0}, NEW c \in Nat
    PROVE  /\ c = n * (c \div n) + (c % n)
           /\ c % n \in 0..(n - 1) /\ c \div n \in Nat
OBVIOUS

(* ... which is unique.                                                    *)
LEMMA Remainder ==
    ASSUME NEW n \in Nat \ {0}, NEW c \in Nat, NEW q \in Nat, NEW r \in 0..(n - 1),
           c = n * q + r
    PROVE  c % n = r /\ c \div n = q
OBVIOUS

(* From any number on, the next n remainders are all remainders.           *)
LEMMA Around1 ==
    ASSUME NEW n \in Nat \ {0}, NEW h \in Nat, NEW i \in 1..n
    PROVE  \E d \in 0..(n - 1) : ((h + d) % n) + 1 = i
<1> DEFINE q == h \div n
           r == h % n
<1>1. h = n * q + r /\ r \in 0..(n - 1) /\ q \in Nat
  BY ZenonT(60), Division
<1> HIDE DEF q, r
<1>2. CASE i - 1 >= r
  <2> DEFINE d == i - 1 - r
  <2>1. d \in 0..(n - 1) /\ h + d \in Nat /\ i - 1 \in 0..(n - 1)
    BY <1>1, <1>2
  <2>2. h + d = n * q + (i - 1)
    BY <1>1
  <2> HIDE DEF d
  <2>3. (h + d) % n = i - 1
    BY ZenonT(60), <1>1, <2>1, <2>2, Remainder
  <2>4. ((h + d) % n) + 1 = i
    BY <2>3
  <2> QED
    BY <2>1, <2>4, Zenon
<1>3. CASE i - 1 < r
  <2> DEFINE d == i - 1 - r + n
  <2>1. d \in 0..(n - 1) /\ h + d \in Nat /\ i - 1 \in 0..(n - 1)
    BY <1>1, <1>3
  <2>2. h + d = n * (q + 1) + (i - 1)
    BY <1>1
  <2> HIDE DEF d
  <2>3. (h + d) % n = i - 1
    <3> DEFINE p == q + 1
    <3>1. p \in Nat /\ h + d = n * p + (i - 1)
      BY <1>1, <2>2
    <3> HIDE DEF p
    <3> QED
      BY ZenonT(60), <2>1, <3>1, Remainder
  <2>4. ((h + d) % n) + 1 = i
    BY <2>3
  <2> QED
    BY <2>1, <2>4, Zenon
<1> QED
  BY <1>1, <1>2, <1>3

(* Hashing goes around the whole pool.                                     *)
LEMMA HashingFinds ==
    ASSUME NEW h \in Nat
    PROVE  IF Usable = {} THEN Hashing(Pool, h) = Nil ELSE Hashing(Pool, h) \in Usable
<1> DEFINE near == {d \in 0..(N - 1) : Available(Pool[Around(Pool, h, d)])}
<1>1. N \in Nat \ {0} /\ Len(Pool) = N
  BY PoolShape, BalancedAssumption
<1>2. \A d \in 0..(N - 1) : Around(Pool, h, d) \in 1..N
  BY <1>1 DEF Around
<1>3. near = {} => Hashing(Pool, h) = Nil
  BY <1>1 DEF Hashing
<1>4. near # {} => Hashing(Pool, h) = Around(Pool, h, CHOOSE d \in near : \A e \in near : d <= e)
  BY <1>1 DEF Hashing
<1>5. Usable = {i \in 1..N : Available(Pool[i])}
  BY PoolShape DEF Usable, AvailableIn
<1>6. CASE Usable = {}
  BY <1>2, <1>3, <1>5, <1>6
<1>7. CASE Usable # {}
  <2>1. PICK i \in 1..N : Available(Pool[i])
    BY <1>5, <1>7
  <2>2. PICK d \in 0..(N - 1) : ((h + d) % N) + 1 = i
    BY ZenonT(60), <1>1, Around1
  <2>3. d \in near
    BY <1>1, <2>1, <2>2 DEF Around
  <2>4. near \in SUBSET Nat /\ near # {}
    BY <2>3
  <2> DEFINE first == CHOOSE x \in near : \A e \in near : x <= e
  <2>5. \E x \in near : \A e \in near : x <= e
    BY ZenonT(60), <2>4, LeastNumber
  <2>6. first \in near
    BY <2>5
  <2>7. Hashing(Pool, h) = Around(Pool, h, first)
    BY <1>4, <2>4
  <2> HIDE DEF first
  <2>8. Around(Pool, h, first) \in Usable
    BY <1>2, <1>5, <2>6
  <2> QED
    BY <1>7, <2>7, <2>8
<1> QED
  BY <1>6, <1>7

(* The handlers on an upstream are finitely many.                          *)
LEMMA UsingFinite ==
    \A i : IsFiniteSet(Using(i)) /\ Cardinality(Using(i)) \in Nat
<1> SUFFICES ASSUME NEW i
             PROVE  IsFiniteSet(Using(i)) /\ Cardinality(Using(i)) \in Nat
  OBVIOUS
<1>1. Using(i) \subseteq Handlers /\ IsFiniteSet(Handlers)
  BY BalancedAssumption DEF Using
<1>2. IsFiniteSet(Using(i))
  BY <1>1, FS_Subset
<1> QED
  BY <1>2, FS_CardinalityType

(* What the methods that look at the whole pool return.                    *)
LEMMA PicksInPool ==
    ASSUME TypeOK, CountsConns
    PROVE  PicksByMethod
<1>1. N \in Nat \ {0} /\ Len(Pool) = N /\ Len(Pool) \in Nat /\ DOMAIN Pool = 1..N
  BY PoolShape, BalancedAssumption
<1>2. Usable = {i \in 1..Len(Pool) : Available(Pool[i])}
  BY <1>1 DEF Usable, AvailableIn
<1>3. /\ conns \in [1..Len(Pool) -> Int] /\ [i \in DOMAIN Pool |-> Pool[i].conns] = conns
      /\ time \in [1..Len(Pool) -> Int] /\ [i \in DOMAIN Pool |-> Pool[i].time] = time
      /\ \A i \in 1..Len(Pool) : time[i] >= 0
  <2>1. conns \in [1..N -> Int] /\ time \in [1..N -> Times] /\ Times \subseteq Nat
    BY BalancedAssumption DEF TypeOK, Upstreams
  <2>2. time \in [1..N -> Int] /\ \A i \in 1..N : time[i] >= 0
    <3>1. time = [i \in 1..N |-> time[i]] /\ \A i \in 1..N : time[i] \in Nat
      BY ZenonT(60), <2>1
    <3> QED
      BY <3>1
  <2>3. \A i \in 1..N : Pool[i].conns = conns[i] /\ Pool[i].time = time[i]
    BY PoolShape
  <2> QED
    BY <1>1, <2>1, <2>2, <2>3
<1>4. /\ LeastConn(Pool) = LeastBy(Pool, conns)
      /\ LeastTime(Pool) = LeastBy(Pool, time)
  BY <1>3, Zenon DEF LeastConn, LeastTime
<1>5. resets = 0 => \A i \in 1..Len(Pool) : conns[i] >= 0
  BY <1>1, UsingFinite DEF CountsConns, Upstreams
<1>a. Len(Pool) \in Nat /\ DOMAIN Pool = 1..Len(Pool)
  BY <1>1
<1> HIDE DEF Usable
<1>6. CASE method = "random"
  <2>1. Returns(method) = Random(Pool)
    BY <1>6 DEF Returns
  <2>2. Random(Pool) = IF Usable = {} THEN {Nil} ELSE Usable
    BY <1>1, <1>2, RandomDraws
  <2> QED
    BY <1>6, <2>1, <2>2 DEF PicksByMethod, MethodsFindHost, LeastIsLeast
<1>7. CASE method = "leastconn"
  <2>1. Returns(method) = LeastBy(Pool, conns)
    BY <1>4, <1>7 DEF Returns
  <2>2. IF Usable = {} THEN LeastBy(Pool, conns) = {Nil}
                       ELSE LeastBy(Pool, conns) \subseteq Usable
    BY ZenonT(60), <1>1, <1>2, <1>3, LeastFinds
  <2>3. ASSUME resets = 0, Usable # {}
        PROVE  LeastBy(Pool, conns) = Least(conns)
    <3>1. \A i : i \in LeastBy(Pool, conns) <=>
                   i \in Usable /\ \A j \in Usable : conns[i] <= conns[j]
      BY ONLY <1>a, <1>3, <1>5, <2>3, LeastIsMin, Zenon DEF Usable
    <3> QED
      BY ONLY <3>1 DEF Least
  <2> QED
    BY <1>7, <2>1, <2>2, <2>3 DEF PicksByMethod, MethodsFindHost, LeastIsLeast
<1>8. CASE method = "leasttime"
  <2>1. Returns(method) = LeastBy(Pool, time)
    BY <1>4, <1>8 DEF Returns
  <2>2. IF Usable = {} THEN LeastBy(Pool, time) = {Nil}
                       ELSE LeastBy(Pool, time) \subseteq Usable
    BY ZenonT(60), <1>1, <1>2, <1>3, LeastFinds
  <2>3. ASSUME Usable # {}
        PROVE  LeastBy(Pool, time) = Least(time)
    <3>1. \A i : i \in LeastBy(Pool, time) <=>
                   i \in Usable /\ \A j \in Usable : time[i] <= time[j]
      BY ONLY <1>a, <1>3, <2>3, LeastIsMin, Zenon DEF Usable
    <3> QED
      BY ONLY <3>1 DEF Least
  <2> QED
    BY <1>8, <2>1, <2>2, <2>3 DEF PicksByMethod, MethodsFindHost, LeastIsLeast
<1>9. CASE method = "hash"
  <2>1. Returns(method) = UNION {Hash(Pool, src) : src \in Hashes \cup {Nil}}
    BY <1>9 DEF Returns
  <2>2. Random(Pool) = IF Usable = {} THEN {Nil} ELSE Usable
    BY <1>1, <1>2, RandomDraws
  <2>3. ASSUME NEW src \in Hashes \cup {Nil}, NEW i \in Hash(Pool, src)
        PROVE  IF Usable = {} THEN i = Nil ELSE i \in Usable
    <3>1. CASE src = Nil
      BY <2>2, <2>3, <3>1 DEF Hash
    <3>2. CASE src # Nil
      <4>1. i = Hashing(Pool, src) /\ src \in Nat
        BY <2>3, <3>2, BalancedAssumption DEF Hash
      <4> QED
        BY <4>1, HashingFinds
    <3> QED
      BY <3>1, <3>2
  <2> QED
    BY <1>9, <2>1, <2>3 DEF PicksByMethod, MethodsFindHost, LeastIsLeast
<1>10. CASE method \notin {"random", "leastconn", "leasttime", "hash"}
  <2>1. Returns(method) = {}
    BY <1>10 DEF Returns
  <2> QED
    BY <1>10, <2>1 DEF PicksByMethod, MethodsFindHost, LeastIsLeast
<1> QED
  BY <1>6, <1>7, <1>8, <1>9, <1>10

-----------------------------------------------------------------------------
(***************************************************************************)
(* The weighted method. Its scheduler goes around a circle of places and   *)
(* picks at some of them, the hits; the number of hits of an upstream is   *)
(* its weight over the gcd. Picks made while all upstreams were available  *)
(* are an arc of hits.                                                     *)
(***************************************************************************)

(* The weights as a sequence.                                              *)
LEMMA WeightsShape ==
    /\ N \in Nat \ {0} /\ Len(Weights) = N /\ Weights \in [1..N -> Nat \ {0}]
    /\ WeightsOf(Pool) = Weights
<1>1. N \in Nat \ {0} /\ Weights \in [1..N -> Nat \ {0}]
  BY BalancedAssumption
<1>2. Weights = [i \in 1..N |-> Weights[i]]
  BY <1>1
<1>3. Len([i \in 1..N |-> Weights[i]]) = N
  BY <1>1
<1>4. WeightsOf(Pool) = [i \in 1..N |-> Weights[i]]
  BY PoolShape DEF WeightsOf
<1> QED
  BY <1>1, <1>2, <1>3, <1>4, Zenon

(* A bounded non-empty set of numbers has a largest element.               *)
LEMMA LargestNumber ==
    ASSUME NEW m \in Nat, NEW T, T \subseteq 1..m, T # {}
    PROVE  \E d \in T : \A e \in T : e <= d
<1> DEFINE B == {b \in Nat : \A e \in T : e <= b}
<1>1. B \in SUBSET Nat /\ m \in B
  OBVIOUS
<1>2. PICK b \in B : \A c \in B : b <= c
  BY ZenonT(60), <1>1, LeastNumber
<1>3. b \in T
  <2>1. SUFFICES ASSUME b \notin T
                 PROVE  FALSE
    OBVIOUS
  <2>2. \A e \in T : e \in Nat /\ e >= 1 /\ e <= b /\ e # b
    BY <1>2, <2>1
  <2>3. b - 1 \in Nat /\ \A e \in T : e <= b - 1
    <3>1. PICK e \in T : TRUE
      BY ZenonT(60)
    <3>2. b \in Nat /\ e \in Nat /\ e >= 1 /\ e <= b
      BY <1>2, <2>2
    <3> HIDE DEF B
    <3> QED
      BY <2>2, <3>2
  <2>4. b - 1 \in B
    BY <2>3
  <2> QED
    BY <1>2, <2>4
<1> QED
  BY <1>2, <1>3

(* The greatest common divisor is one.                                     *)
LEMMA GcdDivides ==
    ASSUME NEW m \in Nat \ {0}, NEW n \in Nat \ {0}
    PROVE  Gcd(m, n) \in 1..m /\ m % Gcd(m, n) = 0 /\ n % Gcd(m, n) = 0
<1> DEFINE T == {d \in 1..m : m % d = 0 /\ n % d = 0}
           G(d) == /\ m % d = 0 /\ n % d = 0
                   /\ \A e \in 1..m : m % e = 0 /\ n % e = 0 => e <= d
<1>1. 1 \in T
  OBVIOUS
<1>2. PICK d \in T : \A e \in T : e <= d
  BY ZenonT(60), <1>1, LargestNumber
<1>3. d \in 1..m /\ G(d)
  BY <1>2
<1>4. Gcd(m, n) = CHOOSE x \in 1..m : G(x)
  BY DEF Gcd
<1> HIDE DEF G
<1>5. Gcd(m, n) \in 1..m /\ G(Gcd(m, n))
  BY <1>3, <1>4, Zenon
<1> QED
  BY <1>5 DEF G

(* MaxGcdLoop does its steps.                                              *)
LEMMA MaxGcdLoopSteps ==
    ASSUME NEW weights, Len(weights) \in Nat \ {0}, weights \in [1..Len(weights) -> Nat \ {0}]
    PROVE  /\ MaxGcdLoop(weights)[1] = [max |-> weights[1], gcd |-> weights[1]]
           /\ \A i \in 2..Len(weights) :
                MaxGcdLoop(weights)[i] = MaxGcdStep(MaxGcdLoop(weights)[i - 1], weights[i])
<1> DEFINE n == Len(weights)
           S == [max : Nat \ {0}, gcd : Nat \ {0}]
           base == [max |-> weights[1], gcd |-> weights[1]]
           F == [x \in S \X ((1 + 1)..n) |-> MaxGcdStep(x[1], weights[x[2]])]
           Q(g) == g = [i \in 1..n |-> IF i = 1 THEN base ELSE MaxGcdStep(g[i - 1], weights[i])]
<1>1. base \in S
  OBVIOUS
<1>2. IsStep(F, 1, n, S)
  <2>1. ASSUME NEW acc \in S, NEW i \in 2..n
        PROVE  MaxGcdStep(acc, weights[i]) \in S
    <3>1. acc.gcd \in Nat \ {0} /\ weights[i] \in Nat \ {0}
      OBVIOUS
    <3>2. Gcd(acc.gcd, weights[i]) \in 1..acc.gcd
      BY ONLY <3>1, GcdDivides, Zenon
    <3>3. Gcd(acc.gcd, weights[i]) \in Nat \ {0}
      BY <3>1, <3>2
    <3> QED
      BY <3>1, <3>3 DEF MaxGcdStep
  <2> HIDE DEF S
  <2> QED
    BY <2>1 DEF IsStep
<1>3. \A x \in S, i \in 2..n : F[<<x, i>>] = MaxGcdStep(x, weights[i])
  OBVIOUS
<1> HIDE DEF S, F, base
<1>4. PICK f : IsRun(f, F, 1, n, S, base)
  <2>1. n \in Nat /\ 1 \in Nat /\ 1 <= n
    OBVIOUS
  <2> HIDE DEF n
  <2> QED
    BY ONLY <1>1, <1>2, <2>1, LoopExists, Zenon
<1>5. Q(f)
  <2>1. \A i \in 2..n : f[i] = MaxGcdStep(f[i - 1], weights[i])
    <3> TAKE i \in 2..n
    <3>1. f[i - 1] \in S /\ i \in (1 + 1)..n
      BY <1>4 DEF IsRun
    <3> QED
      BY ZenonT(60), <1>3, <1>4, <3>1 DEF IsRun
  <2> QED
    BY <1>4, <2>1 DEF IsRun
<1>6. MaxGcdLoop(weights) = CHOOSE g : Q(g)
  BY DEF MaxGcdLoop, base
<1> HIDE DEF Q
<1>7. Q(MaxGcdLoop(weights))
  BY <1>5, <1>6, Zenon
<1>8. /\ MaxGcdLoop(weights)[1] = base
      /\ \A i \in 2..n :
            MaxGcdLoop(weights)[i] = MaxGcdStep(MaxGcdLoop(weights)[i - 1], weights[i])
  <2> DEFINE l == MaxGcdLoop(weights)
  <2>1. l = [i \in 1..n |-> IF i = 1 THEN base ELSE MaxGcdStep(l[i - 1], weights[i])]
    BY ZenonT(60), <1>7 DEF Q
  <2> HIDE DEF l
  <2>2. l[1] = base /\ \A i \in 2..n : l[i] = MaxGcdStep(l[i - 1], weights[i])
    BY <2>1
  <2> QED
    BY <2>2 DEF l
<1> QED
  BY <1>8 DEF base

(* What divides a divisor divides the number.                              *)
LEMMA DividesOn ==
    ASSUME NEW a \in Nat \ {0}, NEW b \in Nat \ {0}, NEW c \in Nat \ {0},
           a % b = 0, b % c = 0
    PROVE  a % c = 0
<1>1. /\ a = b * (a \div b) /\ a \div b \in Nat
      /\ b = c * (b \div c) /\ b \div c \in Nat
  <2>1. a = b * (a \div b) + (a % b) /\ a \div b \in Nat
    BY Division
  <2>2. b = c * (b \div c) + (b % c) /\ b \div c \in Nat
    BY Division
  <2> QED
    BY <2>1, <2>2
<1> DEFINE p == a \div b
           q == b \div c
<1> HIDE DEF p, q
<1>2. a = c * (q * p) + 0 /\ q * p \in Nat
  <2>1. a = b * p /\ p \in Nat /\ b = c * q /\ q \in Nat
    BY <1>1 DEF p, q
  <2> QED
    BY <2>1
<1> DEFINE r == q * p
<1>3. a = c * r + 0 /\ r \in Nat /\ 0 \in 0..(c - 1)
  BY <1>2
<1> HIDE DEF r
<1> QED
  BY <1>3, Remainder

(* The largest weight is one of them, and the gcd divides all of them.     *)
LEMMA MaxGcdIs ==
    ASSUME NEW weights, Len(weights) \in Nat \ {0}, weights \in [1..Len(weights) -> Nat \ {0}]
    PROVE  /\ MaxWeight(weights) \in Nat \ {0}
           /\ \A i \in 1..Len(weights) : weights[i] <= MaxWeight(weights)
           /\ \E i \in 1..Len(weights) : weights[i] = MaxWeight(weights)
           /\ WeightGcd(weights) \in 1..weights[1]
           /\ \A i \in 1..Len(weights) : weights[i] % WeightGcd(weights) = 0
<1> DEFINE n == Len(weights)
           L == MaxGcdLoop(weights)
           Largest(k) == /\ L[k].max \in Nat \ {0}
                         /\ \A i \in 1..k : weights[i] <= L[k].max
                         /\ \E i \in 1..k : weights[i] = L[k].max
           Div(k) == /\ L[k].gcd \in 1..weights[1]
                     /\ \A i \in 1..k : weights[i] % L[k].gcd = 0
           G == {k \in 1..n : Largest(k) /\ Div(k)}
<1>0. n \in Nat \ {0} /\ \A i \in 1..n : weights[i] \in Nat \ {0}
  OBVIOUS
<1>1. Largest(1) /\ Div(1)
  <2>1. L[1] = [max |-> weights[1], gcd |-> weights[1]] /\ weights[1] \in Nat \ {0}
    BY <1>0, MaxGcdLoopSteps
  <2> HIDE DEF L
  <2>2. weights[1] % weights[1] = 0
    BY <2>1
  <2> QED
    BY <2>1, <2>2
<1>2. ASSUME NEW k \in 2..n, Largest(k - 1), Div(k - 1)
      PROVE  Largest(k) /\ Div(k)
  <2>1. L[k] = MaxGcdStep(L[k - 1], weights[k])
    BY ZenonT(60), <1>0, MaxGcdLoopSteps
  <2> HIDE DEF L
  <2>2. /\ L[k].max = IF weights[k] > L[k - 1].max THEN weights[k] ELSE L[k - 1].max
        /\ L[k].gcd = Gcd(L[k - 1].gcd, weights[k])
    BY <2>1 DEF MaxGcdStep
  <2>3. weights[k] \in Nat \ {0} /\ weights[1] \in Nat \ {0}
    BY <1>0
  <2>4. Largest(k)
    <3>1. PICK i \in 1..(k - 1) : weights[i] = L[k - 1].max
      BY <1>2
    <3>2. \A j \in 1..k : j = k \/ j \in 1..(k - 1)
      BY <1>0
    <3>3. L[k].max \in Nat \ {0} /\ L[k].max >= weights[k] /\ L[k].max >= L[k - 1].max
      BY <1>2, <2>2, <2>3
    <3>4. \A j \in 1..k : weights[j] <= L[k].max
      <4> TAKE j \in 1..k
      <4>1. CASE j = k
        BY ZenonT(60), <2>3, <3>3, <4>1
      <4>2. CASE j \in 1..(k - 1)
        <5>1. weights[j] \in Nat /\ weights[j] <= L[k - 1].max
          BY <1>0, <1>2, <4>2
        <5> QED
          BY SMTT(60), <1>2, <3>3, <5>1
      <4> QED
        BY <3>2, <4>1, <4>2
    <3>5. \E j \in 1..k : weights[j] = L[k].max
      <4>1. k \in 1..k /\ i \in 1..k
        BY <1>0
      <4> QED
        BY <2>2, <3>1, <4>1
    <3> QED
      BY ZenonT(60), <3>3, <3>4, <3>5
  <2>5. Div(k)
    <3> DEFINE g == L[k - 1].gcd
    <3>1. g \in 1..weights[1] /\ \A i \in 1..(k - 1) : weights[i] % g = 0
      BY <1>2
    <3> HIDE DEF g
    <3>2. Gcd(g, weights[k]) \in 1..g /\ g % Gcd(g, weights[k]) = 0
          /\ weights[k] % Gcd(g, weights[k]) = 0
      <4>1. g \in Nat \ {0}
        BY <2>3, <3>1
      <4> QED
        BY ONLY <2>3, <4>1, GcdDivides, Zenon
    <3> DEFINE h == Gcd(g, weights[k])
    <3>3. L[k].gcd = h
      BY <2>2 DEF g
    <3>4. h \in 1..weights[1] /\ h \in Nat \ {0} /\ g \in Nat \ {0}
      BY <2>3, <3>1, <3>2
    <3> HIDE DEF h
    <3>5. ASSUME NEW i \in 1..k
          PROVE  weights[i] % h = 0
      <4>1. CASE i = k
        BY <3>2, <4>1 DEF h
      <4>2. CASE i # k
        <5>1. i \in 1..(k - 1) /\ weights[i] \in Nat \ {0} /\ weights[i] % g = 0 /\ g % h = 0
          BY <1>0, <3>1, <3>2, <4>2 DEF h
        <5> QED
          BY <3>4, <5>1, DividesOn
      <4> QED
        BY <4>1, <4>2
    <3> QED
      BY ZenonT(60), <3>3, <3>4, <3>5
  <2> QED
    BY <2>4, <2>5
<1> HIDE DEF Largest, Div
<1>3. 1 \in G /\ \A k \in (1 + 1)..n : k - 1 \in G => k \in G
  BY <1>0, <1>1, <1>2
<1>4. n \in G
  <2>1. n \in Nat /\ 1 \in Nat /\ 1 <= n
    BY <1>0
  <2> HIDE DEF G, n
  <2>2. \A i \in 1..n : i \in G
    BY ONLY <1>3, <2>1, Induction, Zenon
  <2> QED
    BY <2>1, <2>2
<1>5. Largest(n) /\ Div(n)
  BY <1>4 DEF G
<1> QED
  BY <1>5 DEF Largest, Div, MaxWeight, WeightGcd

(* Weighted scheduling in units of the gcd: the upstreams' shares, and the *)
(* share of the heaviest.                                                  *)
Unit == WeightGcd(Weights)

Share == [i \in 1..N |-> Weights[i] \div Unit]

Top == MaxWeight(Weights) \div Unit

(* Products with a positive number keep the order.                         *)
LEMMA TimesOrder ==
    ASSUME NEW g \in Nat \ {0}, NEW a \in Int, NEW b \in Int
    PROVE  g * a <= g * b <=> a <= b
OBVIOUS

(* Weights are shares times the gcd.                                       *)
LEMMA Shares ==
    /\ Unit \in Nat \ {0} /\ Top \in Nat \ {0}
    /\ \A i \in 1..N : Share[i] \in 1..Top /\ Weights[i] = Unit * Share[i]
    /\ MaxWeight(Weights) = Unit * Top
    /\ \E i \in 1..N : Share[i] = Top
<1>1. N \in Nat \ {0} /\ Len(Weights) = N /\ Weights \in [1..N -> Nat \ {0}]
  BY WeightsShape
<1> DEFINE M == MaxWeight(Weights)
<1>2. /\ M \in Nat \ {0}
      /\ \A i \in 1..N : Weights[i] \in Nat \ {0} /\ Weights[i] <= M
      /\ \E i \in 1..N : Weights[i] = M
      /\ Unit \in Nat \ {0}
      /\ \A i \in 1..N : Weights[i] % Unit = 0
  <2>1. Len(Weights) \in Nat \ {0} /\ Weights \in [1..Len(Weights) -> Nat \ {0}]
    BY <1>1
  <2>2. /\ M \in Nat \ {0}
        /\ \A i \in 1..N : Weights[i] <= M
        /\ \E i \in 1..N : Weights[i] = M
        /\ Unit \in 1..Weights[1]
        /\ \A i \in 1..N : Weights[i] % Unit = 0
    BY ZenonT(60), <1>1, <2>1, MaxGcdIs DEF Unit
  <2>3. \A i \in 1..N : Weights[i] \in Nat \ {0}
    BY <1>1
  <2>4. Unit \in Nat \ {0}
    BY <1>1, <2>2, <2>3
  <2> QED
    BY <2>2, <2>3, <2>4
<1> HIDE DEF M
<1>3. \A i \in 1..N : Share[i] \in Nat /\ Weights[i] = Unit * Share[i]
  <2> TAKE i \in 1..N
  <2>1. Share[i] = Weights[i] \div Unit
    BY DEF Share
  <2>2. Weights[i] = Unit * (Weights[i] \div Unit) + (Weights[i] % Unit)
        /\ Weights[i] \div Unit \in Nat
    BY ZenonT(60), <1>2, Division
  <2> QED
    BY <1>2, <2>1, <2>2
<1>4. PICK m \in 1..N : Weights[m] = M
  BY <1>2
<1>5. Top = Share[m] /\ M = Unit * Top
  BY <1>3, <1>4 DEF Top, M, Share
<1>6. Top \in Nat \ {0}
  BY <1>2, <1>3, <1>5
<1>7. ASSUME NEW i \in 1..N
      PROVE  Share[i] \in 1..Top
  <2>1. Unit * Share[i] <= Unit * Top /\ Share[i] \in Nat /\ Share[i] # 0
    <3>1. /\ Weights[i] = Unit * Share[i] /\ Weights[i] \in Nat \ {0} /\ Weights[i] <= M
          /\ Share[i] \in Nat /\ M = Unit * Top
      BY <1>2, <1>3, <1>5
    <3>2. Share[i] # 0
      BY <1>2, <3>1
    <3> QED
      BY <3>1, <3>2
  <2>2. Share[i] <= Top
    BY <1>2, <1>6, <2>1, TimesOrder
  <2> QED
    BY <1>6, <2>1, <2>2
<1> QED
  BY <1>2, <1>3, <1>5, <1>6, <1>7 DEF M

(* The states of the scheduler, the index and the current weight in units, *)
(* form a circle: the next state in row s is the next upstream, and after  *)
(* the last one the first of the row below, or of the top row.  A current  *)
(* weight of 0 is as good as the lowest row, and a new scheduler is where  *)
(* its last state is.                                                      *)
Places == (1..Top) \X (1..N)

At(w, p) == \/ w.index = p[2] /\ w.curWeight = Unit * p[1]
            \/ /\ w.curWeight = 0 /\ p[1] = 1
               /\ w.index = p[2] \/ (w.index = 0 /\ p[2] = N)

Below(s) == IF s > 1 THEN s - 1 ELSE Top

NextPlace(p) == IF p[2] < N THEN <<p[1], p[2] + 1>> ELSE <<Below(p[1]), 1>>

(* The place k turns on, for k up to N.                                    *)
PlaceOn(p, k) == IF p[2] + k <= N THEN <<p[1], p[2] + k>>
                                  ELSE <<Below(p[1]), p[2] + k - N>>

(* The places at which an available upstream is picked.                    *)
Hits == {p \in Places : p[1] <= Share[p[2]]}

Scheduler == [index : 0..N, curWeight : Int, pick : 0..N]

(* One step around n positions.                                            *)
LEMMA StepAround ==
    ASSUME NEW n \in Nat \ {0}, NEW j \in 0..n
    PROVE  (j % n) + 1 = IF j = n THEN 1 ELSE j + 1
OBVIOUS

(* A turn of the scheduler on this pool.                                   *)
LEMMA TurnIs ==
    ASSUME NEW w
    PROVE  LET index == (w.index % N) + 1
               lower == w.curWeight - Unit
               cur == IF index # 1 THEN w.curWeight
                      ELSE IF lower <= 0 THEN MaxWeight(Weights) ELSE lower
           IN  WeightTurn(Pool, w) =
                 [index |-> index, curWeight |-> cur,
                  pick |-> IF Pool[index].weight >= cur /\ Available(Pool[index])
                           THEN index ELSE Nil]
<1>1. Len(Pool) = N /\ WeightsOf(Pool) = Weights
  BY ZenonT(60), WeightsShape, PoolShape
<1> QED
  BY ONLY <1>1, Zenon DEF WeightTurn, Unit

(* A turn moves to the next place and picks if that is a hit.              *)
LEMMA TurnMoves ==
    ASSUME NEW w \in Scheduler, NEW p \in Places, At(w, p)
    PROVE  LET v == WeightTurn(Pool, w)
               q == NextPlace(p)
           IN  /\ v \in Scheduler /\ q \in Places /\ At(v, q)
               /\ v.pick = IF q \in Hits /\ Available(Pool[q[2]]) THEN q[2] ELSE Nil
<1> DEFINE s == p[1]
           i == p[2]
           index == (w.index % N) + 1
           lower == w.curWeight - Unit
           cur == IF index # 1 THEN w.curWeight
                  ELSE IF lower <= 0 THEN MaxWeight(Weights) ELSE lower
           row == IF i < N THEN s ELSE Below(s)
           col == IF i < N THEN i + 1 ELSE 1
<1>1. /\ N \in Nat \ {0} /\ Unit \in Nat \ {0} /\ Top \in Nat \ {0}
      /\ MaxWeight(Weights) = Unit * Top /\ Len(Pool) = N /\ WeightsOf(Pool) = Weights
  BY Shares, WeightsShape, PoolShape
<1>2. s \in 1..Top /\ i \in 1..N /\ p = <<s, i>>
  BY SMTT(60) DEF Places
<1>3. WeightTurn(Pool, w) =
        [index |-> index, curWeight |-> cur,
         pick |-> IF Pool[index].weight >= cur /\ Available(Pool[index]) THEN index ELSE Nil]
  BY TurnIs
<1>4. w.index \in 0..N /\ w.curWeight \in Int
  BY DEF Scheduler
<1>5. \/ w.index = i /\ w.curWeight = Unit * s
      \/ /\ w.curWeight = 0 /\ s = 1
         /\ w.index = i \/ (w.index = 0 /\ i = N)
  BY <1>2 DEF At
<1> HIDE DEF s, i
<1>6. index = col /\ col \in 1..N
  <2>1. index = IF w.index = N THEN 1 ELSE w.index + 1
    BY ZenonT(60), <1>1, <1>4, StepAround
  <2> HIDE DEF index
  <2> QED
    BY <1>1, <1>2, <1>5, <2>1
<1>7. row \in 1..Top /\ (cur = Unit * row \/ (cur = 0 /\ row = 1))
  <2>1. CASE i < N
    BY SMTT(60), <1>1, <1>2, <1>5, <1>6, <2>1
  <2>2. CASE ~(i < N) /\ w.curWeight = 0 /\ s = 1
    BY SMTT(60), <1>1, <1>2, <1>6, <2>2 DEF Below
  <2>3. CASE ~(i < N) /\ w.curWeight = Unit * s
    <3>1. index = 1 /\ lower = Unit * (s - 1)
      BY SMTT(60), <1>1, <1>2, <1>6, <2>3
    <3>2. lower <= 0 <=> s = 1
      BY <1>1, <1>2, <3>1
    <3> QED
      BY SMTT(60), <1>1, <1>2, <2>3, <3>1, <3>2 DEF Below
  <2> QED
    BY ZenonT(60), <1>5, <2>1, <2>2, <2>3
<1>8. NextPlace(p) = <<row, col>>
  BY <1>2 DEF NextPlace
<1> HIDE DEF index, cur, row, col
<1>9. <<row, col>> \in Places /\ (<<row, col>> \in Hits <=> row <= Share[col])
  BY <1>6, <1>7 DEF Places, Hits
<1>10. Pool[index].weight >= cur <=> row <= Share[col]
  <2>1. /\ Pool[index].weight = Unit * Share[col] /\ Share[col] \in 1..Top
        /\ Share[col] \in Int /\ row \in Int
    BY SMTT(60), <1>1, <1>6, <1>7, PoolShape, Shares
  <2>2. CASE cur = Unit * row
    <3>1. Unit * row <= Unit * Share[col] <=> row <= Share[col]
      BY ZenonT(60), <1>1, <2>1, TimesOrder
    <3> QED
      BY ZenonT(60), <1>1, <2>1, <2>2, <3>1
  <2>3. CASE cur = 0 /\ row = 1
    <3>1. Unit * Share[col] >= 0 /\ 1 <= Share[col]
      BY <1>1, <2>1
    <3> QED
      BY ZenonT(60), <2>1, <2>3, <3>1
  <2> QED
    BY ZenonT(60), <1>7, <2>2, <2>3
<1>11. index \in 0..N /\ cur \in Int /\ Nil \in 0..N
  BY SMTT(60), <1>1, <1>6, <1>7 DEF Nil
<1>12. At(WeightTurn(Pool, w), <<row, col>>)
  BY <1>3, <1>6, <1>7 DEF At
<1> QED
  BY SMTT(60), <1>3, <1>6, <1>8, <1>9, <1>10, <1>11, <1>12 DEF Scheduler

(* A turn leaves the scheduler a scheduler.                                *)
LEMMA TurnStays ==
    ASSUME NEW w \in Scheduler
    PROVE  WeightTurn(Pool, w) \in Scheduler
<1> DEFINE index == (w.index % N) + 1
           lower == w.curWeight - Unit
           cur == IF index # 1 THEN w.curWeight
                  ELSE IF lower <= 0 THEN MaxWeight(Weights) ELSE lower
<1>1. /\ N \in Nat \ {0} /\ Unit \in Nat \ {0} /\ Top \in Nat \ {0}
      /\ MaxWeight(Weights) = Unit * Top /\ Len(Pool) = N /\ WeightsOf(Pool) = Weights
  BY ZenonT(60), Shares, WeightsShape, PoolShape
<1>2. WeightTurn(Pool, w) =
        [index |-> index, curWeight |-> cur,
         pick |-> IF Pool[index].weight >= cur /\ Available(Pool[index]) THEN index ELSE Nil]
  BY TurnIs
<1>3. index \in 0..N /\ Nil \in 0..N
  BY <1>1 DEF Scheduler, Nil
<1>4. cur \in Int
  BY <1>1 DEF Scheduler
<1> QED
  BY SMTT(60), <1>2, <1>3, <1>4 DEF Scheduler

(* WeightLoop does its steps.                                              *)
LEMMA WeightLoopSteps ==
    ASSUME NEW w, w \in Scheduler
    PROVE  /\ WeightLoop(Pool, w)[0] = [w EXCEPT !.pick = Nil]
           /\ \A i \in 1..Len(Pool) :
                WeightLoop(Pool, w)[i] = WeightStep(Pool, WeightLoop(Pool, w)[i - 1])
<1> DEFINE n == Len(Pool)
           S == Scheduler
           base == [w EXCEPT !.pick = Nil]
           F == [x \in S \X ((0 + 1)..n) |-> WeightStep(Pool, x[1])]
           Q(g) == g = [i \in 0..n |-> IF i = 0 THEN base ELSE WeightStep(Pool, g[i - 1])]
<1>1. base \in S
  BY WeightsShape DEF Scheduler, Nil
<1>2. IsStep(F, 0, n, S)
  <2>1. ASSUME NEW acc \in S, NEW i \in 1..n
        PROVE  WeightStep(Pool, acc) \in S
    <3>1. CASE acc.pick # Nil
      BY <3>1 DEF WeightStep
    <3>2. CASE acc.pick = Nil
      <4>1. WeightStep(Pool, acc) = WeightTurn(Pool, acc)
        BY <3>2 DEF WeightStep
      <4> QED
        BY <4>1, TurnStays
    <3> QED
      BY <3>1, <3>2
  <2> HIDE DEF S
  <2> QED
    BY <2>1 DEF IsStep
<1>3. \A x \in S, i \in 1..n : F[<<x, i>>] = WeightStep(Pool, x)
  OBVIOUS
<1> HIDE DEF S, F, base
<1>4. PICK f : IsRun(f, F, 0, n, S, base)
  <2>1. n \in Nat /\ 0 \in Nat /\ 0 <= n
    BY SMTT(60), WeightsShape, PoolShape
  <2> HIDE DEF n
  <2> QED
    BY ONLY <1>1, <1>2, <2>1, LoopExists, Zenon
<1>5. Q(f)
  <2>1. \A i \in 1..n : f[i] = WeightStep(Pool, f[i - 1])
    <3> TAKE i \in 1..n
    <3>1. f[i - 1] \in S /\ i \in (0 + 1)..n
      BY <1>4, WeightsShape, PoolShape DEF IsRun
    <3> QED
      BY ZenonT(60), <1>3, <1>4, <3>1 DEF IsRun
  <2> QED
    BY SMTT(60), <1>4, <2>1, WeightsShape, PoolShape DEF IsRun
<1>6. WeightLoop(Pool, w) = CHOOSE g : Q(g)
  BY DEF WeightLoop, base
<1> HIDE DEF Q
<1>7. Q(WeightLoop(Pool, w))
  BY <1>5, <1>6, Zenon
<1>8. /\ WeightLoop(Pool, w)[0] = base
      /\ \A i \in 1..n :
            WeightLoop(Pool, w)[i] = WeightStep(Pool, WeightLoop(Pool, w)[i - 1])
  <2> DEFINE l == WeightLoop(Pool, w)
  <2>1. l = [i \in 0..n |-> IF i = 0 THEN base ELSE WeightStep(Pool, l[i - 1])]
    BY ZenonT(60), <1>7 DEF Q
  <2> HIDE DEF l
  <2>2. l[0] = base /\ \A i \in 1..n : l[i] = WeightStep(Pool, l[i - 1])
    BY <2>1, WeightsShape, PoolShape
  <2> QED
    BY <2>2 DEF l
<1> QED
  BY <1>8 DEF base

(* Where a call of Weight starts and ends is a place.                      *)
LEMMA WeightPlaced ==
    ASSUME NEW w \in Scheduler, NEW p \in Places, At(w, p)
    PROVE  /\ Weight(Pool, w) \in Scheduler
           /\ \E q \in Places : At(Weight(Pool, w), q)
<1>1. N \in Nat \ {0} /\ Len(Pool) = N
  BY WeightsShape, PoolShape
<1>2. CASE N = 1
  <2>1. Weight(Pool, w) = [w EXCEPT !.pick = 1]
    BY <1>1, <1>2 DEF Weight
  <2>2. 1 \in 0..N
    BY <1>1
  <2> QED
    BY <2>1, <2>2 DEF Scheduler, At
<1>3. CASE N # 1
  <2> DEFINE L == WeightLoop(Pool, w)
             Placed(k) == L[k] \in Scheduler /\ \E q \in Places : At(L[k], q)
             G == {k \in 0..N : Placed(k)}
  <2>1. Weight(Pool, w) = L[N]
    BY <1>1, <1>3 DEF Weight
  <2>2. Placed(0)
    <3>1. L[0] = [w EXCEPT !.pick = Nil] /\ Nil \in 0..N
      BY <1>1, WeightLoopSteps DEF Nil
    <3> HIDE DEF L
    <3> QED
      BY <3>1 DEF Scheduler, At
  <2>3. ASSUME NEW k \in 1..N, Placed(k - 1)
        PROVE  Placed(k)
    <3>1. L[k] = WeightStep(Pool, L[k - 1])
      BY ZenonT(60), <1>1, WeightLoopSteps
    <3> HIDE DEF L
    <3>2. CASE L[k - 1].pick # Nil
      BY ZenonT(60), <2>3, <3>1, <3>2 DEF WeightStep
    <3>3. CASE L[k - 1].pick = Nil
      <4>1. L[k] = WeightTurn(Pool, L[k - 1])
        BY <3>1, <3>3 DEF WeightStep
      <4>2. PICK q \in Places : At(L[k - 1], q)
        BY ZenonT(60), <2>3
      <4>3. /\ WeightTurn(Pool, L[k - 1]) \in Scheduler /\ NextPlace(q) \in Places
            /\ At(WeightTurn(Pool, L[k - 1]), NextPlace(q))
        BY ZenonT(60), <2>3, <4>2, TurnMoves
      <4> QED
        BY <4>1, <4>3
    <3> QED
      BY <3>2, <3>3
  <2> HIDE DEF Placed
  <2>4. 0 \in G /\ \A k \in (0 + 1)..N : k - 1 \in G => k \in G
    BY <1>1, <2>2, <2>3
  <2>5. N \in G
    <3>1. N \in Nat /\ 0 \in Nat /\ 0 <= N
      BY <1>1
    <3> HIDE DEF G
    <3>2. \A i \in 0..N : i \in G
      BY ONLY <2>4, <3>1, Induction, Zenon
    <3> QED
      BY <3>1, <3>2
  <2>6. Placed(N)
    BY <2>5
  <2> QED
    BY <2>1, <2>6 DEF Placed
<1> QED
  BY <1>2, <1>3

(* The place k turns on is one turn after the place k - 1 turns on.        *)
LEMMA PlaceOnSteps ==
    ASSUME NEW p \in Places
    PROVE  /\ PlaceOn(p, 0) = p
           /\ \A k \in 1..N : /\ PlaceOn(p, k) \in Places
                              /\ NextPlace(PlaceOn(p, k - 1)) = PlaceOn(p, k)
<1>1. N \in Nat \ {0} /\ Top \in Nat \ {0}
  BY Shares, WeightsShape
<1>2. p[1] \in 1..Top /\ p[2] \in 1..N /\ p = <<p[1], p[2]>>
  BY DEF Places
<1>3. Below(p[1]) \in 1..Top
  BY <1>1, <1>2 DEF Below
<1>4. PlaceOn(p, 0) = p
  BY <1>1, <1>2 DEF PlaceOn
<1>5. ASSUME NEW k \in 1..N
      PROVE  PlaceOn(p, k) \in Places
  BY <1>1, <1>2, <1>3 DEF PlaceOn, Places
<1>6. ASSUME NEW k \in 1..N
      PROVE  NextPlace(PlaceOn(p, k - 1)) = PlaceOn(p, k)
  <2>1. CASE p[2] + k <= N
    <3>1. PlaceOn(p, k - 1) = <<p[1], p[2] + (k - 1)>> /\ p[2] + (k - 1) < N
      BY <1>1, <1>2, <2>1 DEF PlaceOn
    <3>2. NextPlace(PlaceOn(p, k - 1)) = <<p[1], p[2] + (k - 1) + 1>>
      BY <3>1 DEF NextPlace
    <3>3. p[2] + (k - 1) + 1 = p[2] + k
      BY <1>2
    <3> QED
      BY ZenonT(60), <2>1, <3>2, <3>3 DEF PlaceOn
  <2>2. CASE p[2] + k = N + 1
    <3>1. PlaceOn(p, k - 1) = <<p[1], p[2] + (k - 1)>> /\ ~(p[2] + (k - 1) < N)
      BY <1>1, <1>2, <2>2 DEF PlaceOn
    <3>2. NextPlace(PlaceOn(p, k - 1)) = <<Below(p[1]), 1>>
      BY <3>1 DEF NextPlace
    <3>3. p[2] + k - N = 1 /\ ~(p[2] + k <= N)
      BY <1>1, <1>2, <2>2
    <3> QED
      BY ZenonT(60), <3>2, <3>3 DEF PlaceOn
  <2>3. CASE p[2] + k > N + 1
    <3>1. PlaceOn(p, k - 1) = <<Below(p[1]), p[2] + (k - 1) - N>> /\ p[2] + (k - 1) - N < N
      BY <1>1, <1>2, <2>3 DEF PlaceOn
    <3>2. NextPlace(PlaceOn(p, k - 1)) = <<Below(p[1]), p[2] + (k - 1) - N + 1>>
      BY <3>1 DEF NextPlace
    <3>3. p[2] + (k - 1) - N + 1 = p[2] + k - N /\ ~(p[2] + k <= N)
      BY <1>1, <1>2, <2>3
    <3> QED
      BY <3>2, <3>3 DEF PlaceOn
  <2> QED
    BY SMTT(60), <1>1, <1>2, <2>1, <2>2, <2>3
<1> QED
  BY <1>4, <1>5, <1>6

(* The order of the places in a round, and the hit after a place: there is *)
(* none between, or none up to the end of the round and none from its      *)
(* start.                                                                  *)
Before(p, q) == p[1] > q[1] \/ (p[1] = q[1] /\ p[2] < q[2])

NextHit(p, q) ==
    /\ q \in Hits
    /\ IF Before(p, q) THEN \A r \in Hits : ~(Before(p, r) /\ Before(r, q))
                       ELSE \A r \in Hits : ~Before(p, r) /\ ~Before(r, q)

(* The first hit on the way is the next hit.                               *)
LEMMA FirstHit ==
    ASSUME NEW p \in Places, NEW k \in 1..N, PlaceOn(p, k) \in Hits,
           \A j \in 1..(k - 1) : PlaceOn(p, j) \notin Hits
    PROVE  NextHit(p, PlaceOn(p, k))
<1>1. N \in Nat \ {0} /\ Top \in Nat \ {0}
  BY Shares, WeightsShape
<1>2. p[1] \in 1..Top /\ p[2] \in 1..N
  BY DEF Places
<1>3. \A r \in Hits : r[1] \in 1..Top /\ r[2] \in 1..N /\ r = <<r[1], r[2]>>
  BY DEF Hits, Places
<1> DEFINE q == PlaceOn(p, k)
<1>4. CASE p[2] + k <= N
  <2>1. q = <<p[1], p[2] + k>> /\ q[1] = p[1] /\ q[2] = p[2] + k
    BY <1>4 DEF PlaceOn
  <2> HIDE DEF q
  <2>2. Before(p, q)
    BY <1>2, <2>1 DEF Before
  <2>3. ASSUME NEW r \in Hits, Before(p, r), Before(r, q)
        PROVE  FALSE
    <3>1. r[1] = p[1] /\ r[2] > p[2] /\ r[2] < p[2] + k
      BY SMTT(60), <1>2, <1>3, <2>1, <2>3 DEF Before
    <3> DEFINE j == r[2] - p[2]
    <3>2. j \in 1..(k - 1) /\ p[2] + j <= N /\ p[2] + j = r[2]
      BY SMTT(60), <1>1, <1>2, <1>3, <1>4, <3>1
    <3> HIDE DEF j
    <3>3. PlaceOn(p, j) = r
      BY ZenonT(60), <1>3, <3>1, <3>2 DEF PlaceOn
    <3> QED
      BY ZenonT(60), <3>2, <3>3
  <2> QED
    BY ZenonT(60), <2>2, <2>3 DEF NextHit, q
<1>5. CASE p[2] + k > N
  <2>1. q = <<Below(p[1]), p[2] + k - N>> /\ q[1] = Below(p[1]) /\ q[2] = p[2] + k - N
    BY <1>1, <1>2, <1>5 DEF PlaceOn
  <2> HIDE DEF q
  <2>2. q[2] \in 1..p[2]
    BY <1>1, <1>2, <1>5, <2>1
  <2>3. ASSUME NEW r \in Hits, r[1] = p[1], r[2] > p[2]
        PROVE  FALSE
    <3> DEFINE j == r[2] - p[2]
    <3>1. j \in 1..(k - 1) /\ p[2] + j <= N /\ p[2] + j = r[2]
      BY SMTT(60), <1>1, <1>2, <1>3, <1>5, <2>3
    <3> HIDE DEF j
    <3>2. PlaceOn(p, j) = r
      BY <1>3, <2>3, <3>1 DEF PlaceOn
    <3> QED
      BY ZenonT(60), <3>1, <3>2
  <2>4. ASSUME NEW r \in Hits, r[1] = Below(p[1]), r[2] < q[2]
        PROVE  FALSE
    <3> DEFINE j == r[2] + N - p[2]
    <3>1. j \in 1..(k - 1) /\ ~(p[2] + j <= N) /\ p[2] + j - N = r[2]
      BY SMTT(60), <1>1, <1>2, <1>3, <1>5, <2>1, <2>4
    <3> HIDE DEF j
    <3>2. PlaceOn(p, j) = r
      BY ZenonT(60), <1>3, <2>4, <3>1 DEF PlaceOn
    <3> QED
      BY ZenonT(60), <3>1, <3>2
  <2>5. CASE p[1] > 1
    <3>1. q[1] = p[1] - 1
      BY <2>1, <2>5 DEF Below
    <3>2. Before(p, q)
      BY SMTT(60), <1>2, <3>1 DEF Before
    <3>3. ASSUME NEW r \in Hits, Before(p, r), Before(r, q)
          PROVE  FALSE
      <4>1. (r[1] = p[1] /\ r[2] > p[2]) \/ (r[1] = p[1] - 1 /\ r[2] < q[2])
        BY SMTT(60), <1>2, <1>3, <3>1, <3>3 DEF Before
      <4> QED
        BY ZenonT(60), <2>1, <2>3, <2>4, <3>1, <4>1
    <3> QED
      BY <3>2, <3>3 DEF NextHit, q
  <2>6. CASE ~(p[1] > 1)
    <3>1. q[1] = Top /\ p[1] = 1
      BY <1>2, <2>1, <2>6 DEF Below
    <3>2. ~Before(p, q)
      BY SMTT(60), <1>1, <1>2, <2>2, <3>1 DEF Before
    <3>3. ASSUME NEW r \in Hits, Before(p, r) \/ Before(r, q)
          PROVE  FALSE
      <4>1. (r[1] = p[1] /\ r[2] > p[2]) \/ (r[1] = Top /\ r[2] < q[2])
        BY <1>1, <1>2, <1>3, <3>1, <3>3 DEF Before
      <4> QED
        BY ZenonT(60), <2>1, <2>3, <2>4, <3>1, <4>1
    <3> QED
      BY ZenonT(60), <3>2, <3>3 DEF NextHit, q
  <2> QED
    BY ZenonT(60), <2>5, <2>6
<1> QED
  BY <1>1, <1>2, <1>4, <1>5

(* Within N turns there is a hit: one with the heaviest upstream.          *)
LEMMA SomeHit ==
    ASSUME NEW p \in Places
    PROVE  \E k \in 1..N : PlaceOn(p, k) \in Hits
<1>1. N \in Nat \ {0} /\ Top \in Nat \ {0}
  BY Shares, WeightsShape
<1>2. p[1] \in 1..Top /\ p[2] \in 1..N
  BY DEF Places
<1>3. PICK m \in 1..N : Share[m] = Top
  BY Shares
<1> DEFINE k == IF m > p[2] THEN m - p[2] ELSE m - p[2] + N
<1>4. k \in 1..N
  BY SMTT(60), <1>1, <1>2
<1>5. PlaceOn(p, k) \in Places /\ PlaceOn(p, k)[2] = m
  <2>1. PlaceOn(p, k) \in Places
    BY ZenonT(60), <1>4, PlaceOnSteps
  <2>2. PlaceOn(p, k)[2] = IF p[2] + k <= N THEN p[2] + k ELSE p[2] + k - N
    BY DEF PlaceOn
  <2> QED
    BY SMTT(60), <1>1, <1>2, <2>1, <2>2
<1> HIDE DEF k
<1>6. PlaceOn(p, k)[1] \in 1..Top
  BY <1>5 DEF Places
<1>7. PlaceOn(p, k) \in Hits
  BY SMTT(60), <1>1, <1>3, <1>5, <1>6 DEF Hits
<1> QED
  BY ZenonT(60), <1>4, <1>7

(* With all upstreams available a call of Weight goes to the next hit and  *)
(* picks its upstream.                                                     *)
LEMMA WeightHits ==
    ASSUME NEW w \in Scheduler, NEW p \in Places, At(w, p), N # 1,
           \A i \in 1..N : Available(Pool[i])
    PROVE  \E q \in Hits : /\ NextHit(p, q)
                           /\ At(Weight(Pool, w), q)
                           /\ Weight(Pool, w).pick = q[2]
<1>1. N \in Nat \ {0} /\ Len(Pool) = N
  BY WeightsShape, PoolShape
<1> DEFINE L == WeightLoop(Pool, w)
           On(k) == PlaceOn(p, k)
           Found(v, k) == /\ On(k) \in Hits /\ \A j \in 1..(k - 1) : On(j) \notin Hits
                          /\ At(v, On(k)) /\ v.pick = On(k)[2]
           Scans(v, k) == At(v, On(k)) /\ v.pick = Nil /\ \A j \in 1..k : On(j) \notin Hits
           Good(k) == /\ L[k] \in Scheduler
                      /\ Scans(L[k], k) \/ \E j \in 1..k : Found(L[k], j)
           G == {k \in 0..N : Good(k)}
<1>2. Weight(Pool, w) = L[N]
  BY <1>1 DEF Weight
<1>3. Good(0)
  <2>1. L[0] = [w EXCEPT !.pick = Nil] /\ Nil \in 0..N /\ On(0) = p
    BY SMTT(60), <1>1, WeightLoopSteps, PlaceOnSteps DEF Nil
  <2> HIDE DEF L, On
  <2> QED
    BY <2>1 DEF Scheduler, At
<1>4. ASSUME NEW k \in 1..N, Good(k - 1)
      PROVE  Good(k)
  <2>1. L[k] = WeightStep(Pool, L[k - 1])
    BY ZenonT(60), <1>1, WeightLoopSteps
  <2>2. On(k) \in Places /\ NextPlace(On(k - 1)) = On(k)
    BY PlaceOnSteps
  <2>3. On(k - 1) \in Places
    <3>1. k - 1 = 0 \/ k - 1 \in 1..N
      BY <1>1
    <3> QED
      BY <3>1, PlaceOnSteps
  <2>4. \A j \in 1..N : On(j) \in Places /\ On(j)[2] \in 1..N
    <3>1. \A j \in 1..N : On(j) \in Places
      BY ZenonT(60), PlaceOnSteps
    <3> QED
      BY <3>1 DEF Places
  <2> HIDE DEF L, On
  <2>5. CASE \E j \in 1..(k - 1) : Found(L[k - 1], j)
    <3>1. PICK j \in 1..(k - 1) : Found(L[k - 1], j)
      BY ZenonT(60), <2>5
    <3>2. L[k - 1].pick # Nil /\ j \in 1..k
      BY <1>1, <2>4, <3>1 DEF Nil
    <3>3. L[k] = L[k - 1]
      BY ZenonT(60), <2>1, <3>2 DEF WeightStep
    <3> QED
      BY ZenonT(60), <1>4, <3>1, <3>2, <3>3
  <2>6. CASE Scans(L[k - 1], k - 1)
    <3>1. L[k] = WeightTurn(Pool, L[k - 1])
      BY ZenonT(60), <2>1, <2>6 DEF WeightStep
    <3>2. /\ L[k] \in Scheduler /\ At(L[k], On(k))
          /\ L[k].pick = IF On(k) \in Hits /\ Available(Pool[On(k)[2]]) THEN On(k)[2] ELSE Nil
      <4>1. L[k - 1] \in Scheduler /\ At(L[k - 1], On(k - 1))
        BY <1>4, <2>6
      <4> QED
        BY SMTT(60), <2>2, <2>3, <3>1, <4>1, TurnMoves
    <3>3. Available(Pool[On(k)[2]])
      BY ZenonT(60), <2>4
    <3>4. CASE On(k) \in Hits
      <4>1. Found(L[k], k) /\ k \in 1..k
        BY SMTT(60), <1>1, <2>6, <3>2, <3>3, <3>4
      <4> QED
        BY ZenonT(60), <3>2, <4>1
    <3>5. CASE On(k) \notin Hits
      <4>1. \A j \in 1..k : On(j) \notin Hits
        BY SMTT(60), <1>1, <2>6, <3>5
      <4>2. At(L[k], On(k)) /\ L[k].pick = Nil
        BY ZenonT(60), <3>2, <3>5
      <4> QED
        BY ZenonT(60), <3>2, <4>1, <4>2
    <3> QED
      BY ZenonT(60), <3>4, <3>5
  <2> QED
    BY ZenonT(60), <1>4, <2>5, <2>6
<1> HIDE DEF Good
<1>5. 0 \in G /\ \A k \in (0 + 1)..N : k - 1 \in G => k \in G
  BY <1>1, <1>3, <1>4
<1>6. Good(N)
  <2>1. N \in Nat /\ 0 \in Nat /\ 0 <= N
    BY <1>1
  <2> HIDE DEF G
  <2>2. \A i \in 0..N : i \in G
    BY ONLY <1>5, <2>1, Induction, Zenon
  <2>3. N \in G
    BY SMTT(60), <2>1, <2>2
  <2> QED
    BY <2>3 DEF G
<1>7. PICK k \in 1..N : Found(L[N], k)
  <2>1. PICK m \in 1..N : On(m) \in Hits
    BY ZenonT(60), SomeHit
  <2> HIDE DEF On, L
  <2> QED
    BY <1>6, <2>1 DEF Good
<1>8. NextHit(p, On(k))
  BY <1>7, FirstHit
<1> HIDE DEF On, L
<1> QED
  BY ZenonT(60), <1>2, <1>7, <1>8

(* SumLoop does its steps.                                                 *)
LEMMA SumLoopSteps ==
    /\ SumLoop[0] = 0
    /\ \A i \in 1..N : SumLoop[i] = SumLoop[i - 1] + Weights[i]
<1> DEFINE n == N
           S == Nat
           base == 0
           F == [x \in S \X ((0 + 1)..n) |-> x[1] + Weights[x[2]]]
           Q(g) == g = [i \in 0..n |-> IF i = 0 THEN base ELSE g[i - 1] + Weights[i]]
<1>1. base \in S
  OBVIOUS
<1>2. IsStep(F, 0, n, S)
  <2>1. ASSUME NEW acc \in S, NEW i \in 1..n
        PROVE  acc + Weights[i] \in S
    BY WeightsShape
  <2> HIDE DEF S
  <2> QED
    BY <2>1 DEF IsStep
<1>3. \A x \in S, i \in 1..n : F[<<x, i>>] = x + Weights[i]
  OBVIOUS
<1> HIDE DEF S, F, base
<1>4. PICK f : IsRun(f, F, 0, n, S, base)
  <2>1. n \in Nat /\ 0 \in Nat /\ 0 <= n
    BY WeightsShape
  <2> HIDE DEF n
  <2> QED
    BY ONLY <1>1, <1>2, <2>1, LoopExists, Zenon
<1>5. Q(f)
  <2>1. \A i \in 1..n : f[i] = f[i - 1] + Weights[i]
    <3> TAKE i \in 1..n
    <3>1. f[i - 1] \in S /\ i \in (0 + 1)..n
      BY <1>4, WeightsShape DEF IsRun
    <3> QED
      BY ZenonT(60), <1>3, <1>4, <3>1 DEF IsRun
  <2> QED
    BY <1>4, <2>1, WeightsShape DEF IsRun
<1>6. SumLoop = CHOOSE g : Q(g)
  BY DEF SumLoop, base
<1> HIDE DEF Q
<1>7. Q(SumLoop)
  BY <1>5, <1>6, Zenon
<1>8. /\ SumLoop[0] = base
      /\ \A i \in 1..n :
            SumLoop[i] = SumLoop[i - 1] + Weights[i]
  <2> DEFINE l == SumLoop
  <2>1. l = [i \in 0..n |-> IF i = 0 THEN base ELSE l[i - 1] + Weights[i]]
    BY ZenonT(60), <1>7 DEF Q
  <2> HIDE DEF l
  <2>2. l[0] = base /\ \A i \in 1..n : l[i] = l[i - 1] + Weights[i]
    BY <2>1, WeightsShape
  <2> QED
    BY <2>2 DEF l
<1> QED
  BY <1>8 DEF base

(* The hits of one upstream.                                               *)
HitsOf(i) == {p \in Hits : p[2] = i}

(* There are finitely many places.                                         *)
LEMMA HitsFinite ==
    \A A : A \subseteq Hits => IsFiniteSet(A) /\ Cardinality(A) \in Nat
<1> SUFFICES ASSUME NEW A, A \subseteq Hits
             PROVE  IsFiniteSet(A) /\ Cardinality(A) \in Nat
  OBVIOUS
<1>1. IsFiniteSet(1..Top) /\ IsFiniteSet(1..N)
  BY Shares, WeightsShape, FS_Interval
<1>2. IsFiniteSet(Places)
  BY ZenonT(60), <1>1, FS_Product DEF Places
<1>3. A \subseteq Places
  BY DEF Hits
<1>4. IsFiniteSet(A)
  BY <1>2, <1>3, FS_Subset
<1> QED
  BY <1>4, FS_CardinalityType

(* An upstream has as many hits as its share says.                         *)
LEMMA HitsOfOne ==
    ASSUME NEW i \in 1..N
    PROVE  Cardinality(HitsOf(i)) = Share[i]
<1>1. N \in Nat \ {0} /\ Top \in Nat \ {0} /\ Share[i] \in 1..Top
  BY Shares, WeightsShape
<1>2. HitsOf(i) = (1..Share[i]) \X {i}
  BY <1>1 DEF HitsOf, Hits, Places
<1>3. IsFiniteSet(1..Share[i]) /\ Cardinality(1..Share[i]) = Share[i]
  BY <1>1, FS_Interval
<1>4. IsFiniteSet({i}) /\ Cardinality({i}) = 1
  BY ZenonT(60), FS_Singleton
<1>5. Cardinality((1..Share[i]) \X {i}) = Share[i] * 1
  <2> DEFINE A == 1..Share[i]
             B == {i}
  <2>1. IsFiniteSet(A) /\ IsFiniteSet(B)
    BY ZenonT(60), <1>3, <1>4
  <2> HIDE DEF A, B
  <2>2. Cardinality(A \X B) = Cardinality(A) * Cardinality(B)
    BY ZenonT(60), <2>1, FS_Product
  <2> QED
    BY ZenonT(60), <1>3, <1>4, <2>2 DEF A, B
<1> QED
  BY <1>1, <1>2, <1>5

(* A cycle has as many picks as there are hits.                            *)
LEMMA CycleIsHits == Cycle = Cardinality(Hits) /\ Cycle \in Nat \ {0}
<1> DEFINE Upto(k) == {p \in Hits : p[2] <= k}
           Sum(k) == Cardinality(Upto(k)) \in Nat /\ SumLoop[k] = Unit * Cardinality(Upto(k))
           G == {k \in 0..N : Sum(k)}
<1>1. /\ N \in Nat \ {0} /\ Unit \in Nat \ {0} /\ Top \in Nat \ {0}
      /\ \A i \in 1..N : Share[i] \in 1..Top /\ Weights[i] = Unit * Share[i]
  BY ZenonT(60), Shares, WeightsShape
<1>0. \A p \in Hits : p[1] \in 1..Top /\ p[2] \in 1..N
  BY DEF Hits, Places
<1>2. Sum(0)
  <2>1. Upto(0) = {}
    BY <1>0, <1>1
  <2>2. Cardinality(Upto(0)) = 0
    BY ZenonT(60), <2>1, FS_EmptySet
  <2> HIDE DEF Upto
  <2> QED
    BY SMTT(60), <1>1, <2>2, SumLoopSteps
<1>3. ASSUME NEW k \in 1..N, Sum(k - 1)
      PROVE  Sum(k)
  <2>1. Upto(k) = Upto(k - 1) \cup HitsOf(k) /\ Upto(k - 1) \cap HitsOf(k) = {}
    BY <1>0, <1>1 DEF HitsOf
  <2>2. Upto(k - 1) \subseteq Hits /\ HitsOf(k) \subseteq Hits
    BY DEF HitsOf
  <2> HIDE DEF Upto
  <2>3. IsFiniteSet(Upto(k - 1)) /\ IsFiniteSet(HitsOf(k))
    BY ZenonT(60), <2>2, HitsFinite
  <2>4. Cardinality(Upto(k)) = Cardinality(Upto(k - 1)) + Cardinality(HitsOf(k))
                                 - Cardinality({})
    BY <2>1, <2>3, FS_Union
  <2>5. Cardinality({}) = 0 /\ Cardinality(HitsOf(k)) = Share[k]
    BY ZenonT(60), FS_EmptySet, HitsOfOne
  <2> DEFINE c == Cardinality(Upto(k - 1))
  <2>6. c \in Nat /\ SumLoop[k - 1] = Unit * c
    BY <1>3
  <2>7. SumLoop[k] = SumLoop[k - 1] + Weights[k]
    BY ZenonT(60), SumLoopSteps
  <2>8. Cardinality(Upto(k)) = c + Share[k]
    BY SMTT(60), <1>1, <2>4, <2>5, <2>6
  <2> HIDE DEF c
  <2>9. Unit * (c + Share[k]) = Unit * c + Unit * Share[k]
    BY SMTT(60), <1>1, <2>6
  <2> QED
    BY SMTT(60), <1>1, <2>6, <2>7, <2>8, <2>9
<1> HIDE DEF Sum
<1>4. 0 \in G /\ \A k \in (0 + 1)..N : k - 1 \in G => k \in G
  BY <1>1, <1>2, <1>3
<1>5. Sum(N)
  <2>1. N \in Nat /\ 0 \in Nat /\ 0 <= N
    BY <1>1
  <2> HIDE DEF G
  <2>2. \A i \in 0..N : i \in G
    BY ONLY <1>4, <2>1, Induction, Zenon
  <2>3. N \in G
    BY <2>1, <2>2
  <2> QED
    BY <2>3 DEF G
<1>6. Upto(N) = Hits
  BY <1>0, <1>1
<1> HIDE DEF Upto
<1> DEFINE h == Cardinality(Hits)
<1>7. h \in Nat /\ SumLoop[N] = Unit * h
  BY <1>5, <1>6 DEF Sum
<1>8. h # 0
  <2>1. PICK m \in 1..N : Share[m] = Top
    BY Shares
  <2>2. <<1, m>> \in Hits
    BY <1>1, <2>1 DEF Hits, Places
  <2>3. IsFiniteSet(Hits)
    BY ZenonT(60), HitsFinite
  <2> QED
    BY ZenonT(60), <2>2, <2>3, FS_EmptySet
<1>9. SumLoop[N] \div Unit = h
  <2>1. SumLoop[N] = Unit * h + 0 /\ 0 \in 0..(Unit - 1) /\ SumLoop[N] \in Nat
    BY SMTT(60), <1>1, <1>7
  <2> HIDE DEF h
  <2> QED
    BY ZenonT(60), <1>1, <1>7, <2>1, Remainder
<1> QED
  BY ZenonT(60), <1>7, <1>8, <1>9 DEF Cycle, Unit

(* The hits from f on around the circle to e.                              *)
Arc(f, e) ==
    IF Before(e, f) THEN {r \in Hits : ~Before(r, f) \/ ~Before(e, r)}
                    ELSE {r \in Hits : ~Before(r, f) /\ ~Before(e, r)}

(* The scheduler is at a place, and the picks on record are those at the   *)
(* hits of an arc that ends there.                                         *)
OnArc(f, e) ==
    /\ At(weight, e)
    /\ Len(picks) = Cardinality(Arc(f, e))
    /\ \A i \in 1..N : Served(i) = Cardinality(Arc(f, e) \cap HitsOf(i))

Scheduled ==
    /\ weight \in Scheduler
    /\ \E p \in Places : At(weight, p)
    /\ N # 1 /\ picks # <<>> => \E f, e \in Hits : OnArc(f, e)

(* Coordinates of places; their order is total.                            *)
LEMMA Order ==
    ASSUME NEW p \in Hits, NEW q \in Hits
    PROVE  /\ p \in Places /\ p[1] \in 1..Top /\ p[2] \in 1..N
           /\ p = q \/ Before(p, q) \/ Before(q, p)
           /\ ~(Before(p, q) /\ Before(q, p)) /\ ~Before(p, p)
<1>1. Top \in Nat /\ N \in Nat
  BY ZenonT(60), Shares, WeightsShape
<1>2. /\ p \in Places /\ p[1] \in 1..Top /\ p[2] \in 1..N /\ p = <<p[1], p[2]>>
      /\ q[1] \in 1..Top /\ q[2] \in 1..N /\ q = <<q[1], q[2]>>
  BY DEF Hits, Places
<1> QED
  BY <1>1, <1>2 DEF Before

(* ... and transitive.                                                     *)
LEMMA OrderOn ==
    ASSUME NEW p \in Hits, NEW q \in Hits, NEW r \in Hits, Before(p, q), Before(q, r)
    PROVE  Before(p, r)
<1>1. Top \in Nat /\ N \in Nat
  BY ZenonT(60), Shares, WeightsShape
<1>2. /\ p[1] \in 1..Top /\ p[2] \in 1..N /\ q[1] \in 1..Top /\ q[2] \in 1..N
      /\ r[1] \in 1..Top /\ r[2] \in 1..N
  BY ZenonT(60), Order
<1> QED
  BY <1>1, <1>2 DEF Before

(* An arc of one hit.                                                      *)
LEMMA ArcOne ==
    ASSUME NEW f \in Hits
    PROVE  Arc(f, f) = {f}
BY ZenonT(60), Order DEF Arc

(* An arc that is not the whole circle grows by the next hit.              *)
LEMMA ArcGrows ==
    ASSUME NEW f \in Hits, NEW e \in Hits, NEW q, NextHit(e, q), Arc(f, e) # Hits
    PROVE  q \in Hits /\ q \notin Arc(f, e) /\ Arc(f, q) = Arc(f, e) \cup {q}
<1>1. q \in Hits
  BY DEF NextHit
<1>2. PICK x \in Hits : x \notin Arc(f, e)
  BY DEF Arc
<1> USE <1>1
<1>3. \A a, b \in Hits : /\ a = b \/ Before(a, b) \/ Before(b, a)
                         /\ ~(Before(a, b) /\ Before(b, a)) /\ ~Before(a, a)
  BY Order
<1>4. \A a, b, c \in Hits : Before(a, b) /\ Before(b, c) => Before(a, c)
  BY OrderOn
<1>5. CASE ~Before(e, f)
  <2>1. \A r : r \in Arc(f, e) <=> r \in Hits /\ ~Before(r, f) /\ ~Before(e, r)
    BY <1>5 DEF Arc
  <2>2. Before(x, f) \/ Before(e, x)
    BY <1>2, <2>1
  <2>3. CASE Before(e, q)
    <3>1. \A r \in Hits : ~(Before(e, r) /\ Before(r, q))
      BY ZenonT(60), <2>3 DEF NextHit
    <3>2. ~Before(q, f) /\ q \notin Arc(f, e)
      BY ZenonT(60), <1>3, <1>4, <1>5, <2>1, <2>3
    <3>3. \A r : r \in Arc(f, q) <=> r \in Hits /\ ~Before(r, f) /\ ~Before(q, r)
      BY <3>2 DEF Arc
    <3>4. \A r \in Hits : ~Before(r, f) =>
            (~Before(q, r) <=> (~Before(e, r) \/ r = q))
      BY ONLY ZenonT(60), <1>1, <1>3, <1>4, <2>3, <3>1
    <3>5. \A r : r \in Arc(f, q) <=> r \in Arc(f, e) \/ r = q
      BY ONLY ZenonT(60), <1>1, <2>1, <3>2, <3>3, <3>4
    <3> QED
      BY ZenonT(60), <1>1, <3>2, <3>5
  <2>4. CASE ~Before(e, q)
    <3>1. \A r \in Hits : ~Before(e, r) /\ ~Before(r, q)
      BY <2>4 DEF NextHit
    <3>2. Before(x, f)
      BY ZenonT(60), <2>2, <3>1
    <3>3. Before(q, f) /\ q \notin Arc(f, e)
      BY ZenonT(60), <1>3, <1>4, <2>1, <3>1, <3>2
    <3>4. \A r : r \in Arc(f, q) <=> r \in Hits /\ (~Before(r, f) \/ ~Before(q, r))
      BY ZenonT(60), <3>3 DEF Arc
    <3>5. \A r \in Hits : ~Before(q, r) <=> r = q
      BY ONLY ZenonT(60), <1>1, <1>3, <3>1
    <3>6. \A r : r \in Arc(f, q) <=> r \in Arc(f, e) \/ r = q
      BY ONLY ZenonT(60), <1>1, <2>1, <3>1, <3>4, <3>5
    <3> QED
      BY ZenonT(60), <1>1, <3>3, <3>6
  <2> QED
    BY ZenonT(60), <2>3, <2>4
<1>6. CASE Before(e, f)
  <2>1. \A r : r \in Arc(f, e) <=> r \in Hits /\ (~Before(r, f) \/ ~Before(e, r))
    BY <1>6 DEF Arc
  <2>2. Before(x, f) /\ Before(e, x)
    BY ZenonT(60), <1>2, <2>1
  <2>3. Before(e, q)
    BY ZenonT(60), <2>2 DEF NextHit
  <2>4. \A r \in Hits : ~(Before(e, r) /\ Before(r, q))
    BY ZenonT(60), <2>3 DEF NextHit
  <2>5. Before(q, f) /\ q \notin Arc(f, e)
    BY ZenonT(60), <1>3, <1>4, <2>1, <2>2, <2>3, <2>4
  <2>6. \A r : r \in Arc(f, q) <=> r \in Hits /\ (~Before(r, f) \/ ~Before(q, r))
    BY <2>5 DEF Arc
  <2>7. \A r \in Hits : ~Before(q, r) <=> ~Before(e, r) \/ r = q
    BY ONLY ZenonT(60), <1>1, <1>3, <1>4, <2>3, <2>4
  <2>8. \A r : r \in Arc(f, q) <=> r \in Arc(f, e) \/ r = q
    BY ONLY <1>1, <2>1, <2>6, <2>7
  <2> QED
    BY <1>1, <2>5, <2>8
<1> QED
  BY <1>5, <1>6

===============================================================================
