------------------------------- MODULE Selectors -------------------------------
(***************************************************************************)
(* The selection methods of core/loadbalance/selector.go, as operators on  *)
(* a pool: a sequence of upstreams                                         *)
(*   [up, conns, max, time, weight].                                       *)
(* A position of the pool stands for the upstream a method returns, and 0  *)
(* for nil.  A method that draws random numbers gives the set of positions *)
(* it may return.                                                          *)
(***************************************************************************)
EXTENDS Integers, Sequences, FiniteSets

CONSTANT RobinValues   \* values of the round robin counter; 2^32 in the code

Nil == 0

(* Upstream.Full: no limit unless MaxConnections is positive.              *)
Full(u) == u.max > 0 /\ u.conns >= u.max

(* Upstream.Available.                                                     *)
Available(u) == u.up /\ ~Full(u)

AvailableIn(pool) == {i \in DOMAIN pool : Available(pool[i])}

(* Reservoir sampling: the count-th candidate replaces the one held with   *)
(* chance 1/count, so certainly when it is the first.                      *)
Sample(count, held, i) == IF count = 1 THEN {i} ELSE held \cup {i}

RandomStep(pool, acc, i) ==
    IF Available(pool[i])
    THEN [count |-> acc.count + 1, held |-> Sample(acc.count + 1, acc.held, i)]
    ELSE acc

(* What has been drawn from the first i upstreams.                         *)
RandomLoop(pool) ==
    LET loop[i \in 0..Len(pool)] ==
            IF i = 0 THEN [count |-> 0, held |-> {Nil}]
                     ELSE RandomStep(pool, loop[i - 1], i)
    IN  loop

Random(pool) == RandomLoop(pool)[Len(pool)].held

(* Faulty: a smaller value does not restart the sample.                    *)
LeastStepMixing(pool, measure, acc, i) ==
    LET x == measure[i]
        count == acc.count + 1
    IN  IF Available(pool[i]) /\ (acc.min = -1 \/ x <= acc.min)
        THEN [min |-> x, count |-> count, held |-> Sample(count, acc.held, i)]
        ELSE acc

(* A smaller value restarts the sample.  A minimum of -1 stands for "none  *)
(* yet".                                                                   *)
LeastStep(pool, measure, acc, i) ==
    LET x == measure[i]
        smaller == acc.min = -1 \/ x < acc.min
        count == IF smaller THEN 1 ELSE acc.count + 1
    IN  IF Available(pool[i]) /\ (smaller \/ x = acc.min)
        THEN [min |-> x, count |-> count, held |-> Sample(count, acc.held, i)]
        ELSE acc

(* The loop LeastConn and LeastTime share.                                 *)
LeastLoop(pool, measure) ==
    LET loop[i \in 0..Len(pool)] ==
            IF i = 0 THEN [min |-> -1, count |-> 0, held |-> {Nil}]
                     ELSE LeastStep(pool, measure, loop[i - 1], i)
    IN  loop

LeastBy(pool, measure) == LeastLoop(pool, measure)[Len(pool)].held

LeastConn(pool) == LeastBy(pool, [i \in DOMAIN pool |-> pool[i].conns])

LeastTime(pool) == LeastBy(pool, [i \in DOMAIN pool |-> pool[i].time])

(* The position at distance d of hash h, counting around the pool.         *)
Around(pool, h, d) == ((h + d) % Len(pool)) + 1

(* hashing: the first available upstream from position h on.  The empty    *)
(* pool divides by zero; DivideByZero stands for the panic.                *)
DivideByZero == -1

Hashing(pool, h) ==
    LET near == {d \in 0..(Len(pool) - 1) : Available(pool[Around(pool, h, d)])}
    IN  CASE Len(pool) = 0 -> DivideByZero
          [] near = {} -> Nil
          [] OTHER -> Around(pool, h, CHOOSE d \in near : \A e \in near : d <= e)

(* IPHash and AddrHash; an empty source address is drawn at random.        *)
Hash(pool, src) == IF src = Nil THEN Random(pool) ELSE {Hashing(pool, src)}

(* One turn of the round robin: the counter after it and the position it   *)
(* looks at.  The counter is unsigned.                                     *)
RobinTurn(pool, robin) ==
    LET new == (robin + 1) % RobinValues
    IN  [robin |-> new, at |-> (new % Len(pool)) + 1]

RobinStep(pool, acc) ==
    LET turn == RobinTurn(pool, acc.robin)
    IN  IF acc.pick # Nil THEN acc
        ELSE [robin |-> turn.robin,
              pick |-> IF Available(pool[turn.at]) THEN turn.at ELSE Nil]

RobinLoop(pool, robin) ==
    LET loop[i \in 0..Len(pool)] ==
            IF i = 0 THEN [robin |-> robin, pick |-> Nil]
                     ELSE RobinStep(pool, loop[i - 1])
    IN  loop

(* RoundRobin.Select with no other call in between.                        *)
RoundRobin(pool, robin) == RobinLoop(pool, robin)[Len(pool)]

(* extmath.Gcdx, of positive numbers.                                      *)
Gcd(m, n) ==
    CHOOSE d \in 1..m : /\ m % d = 0 /\ n % d = 0
                        /\ \A e \in 1..m : m % e = 0 /\ n % e = 0 => e <= d

MaxGcdStep(acc, weight) ==
    [max |-> IF weight > acc.max THEN weight ELSE acc.max, gcd |-> Gcd(acc.gcd, weight)]

(* getMaxWeightAndGCD, over the weights of a pool.                         *)
MaxGcdLoop(weights) ==
    LET loop[i \in 1..Len(weights)] ==
            IF i = 1 THEN [max |-> weights[1], gcd |-> weights[1]]
                     ELSE MaxGcdStep(loop[i - 1], weights[i])
    IN  loop

MaxWeight(weights) == MaxGcdLoop(weights)[Len(weights)].max

WeightGcd(weights) == MaxGcdLoop(weights)[Len(weights)].gcd

WeightsOf(pool) == [i \in DOMAIN pool |-> pool[i].weight]

NewWeight == [index |-> 0, curWeight |-> 0, pick |-> Nil]

(* Faulty: the current weight starts a new round one short.                *)
WeightTurnShort(pool, w) ==
    LET index == (w.index % Len(pool)) + 1
        lower == w.curWeight - WeightGcd(WeightsOf(pool))
        curWeight == IF index # 1 THEN w.curWeight
                     ELSE IF lower < 0 THEN MaxWeight(WeightsOf(pool)) ELSE lower
    IN  [index |-> index, curWeight |-> curWeight,
         pick |-> IF pool[index].weight >= curWeight /\ Available(pool[index])
                  THEN index ELSE Nil]

(* One turn of Weight.Select.  At the first position the current weight    *)
(* goes down by the gcd, and from 0 back to the largest weight.            *)
WeightTurn(pool, w) ==
    LET index == (w.index % Len(pool)) + 1
        lower == w.curWeight - WeightGcd(WeightsOf(pool))
        curWeight == IF index # 1 THEN w.curWeight
                     ELSE IF lower <= 0 THEN MaxWeight(WeightsOf(pool)) ELSE lower
    IN  [index |-> index, curWeight |-> curWeight,
         pick |-> IF pool[index].weight >= curWeight /\ Available(pool[index])
                  THEN index ELSE Nil]

WeightStep(pool, acc) == IF acc.pick # Nil THEN acc ELSE WeightTurn(pool, acc)

WeightLoop(pool, w) ==
    LET loop[i \in 0..Len(pool)] ==
            IF i = 0 THEN [w EXCEPT !.pick = Nil]
                     ELSE WeightStep(pool, loop[i - 1])
    IN  loop

(* Weight.Select with no other call in between: as many turns as the pool  *)
(* has upstreams.  A single upstream is returned whatever its state.       *)
Weight(pool, w) ==
    CASE Len(pool) = 0 -> [w EXCEPT !.pick = Nil]
      [] Len(pool) = 1 -> [w EXCEPT !.pick = 1]
      [] OTHER -> WeightLoop(pool, w)[Len(pool)]

===============================================================================
