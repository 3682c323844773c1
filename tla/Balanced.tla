------------------------------- MODULE Balanced -------------------------------
(***************************************************************************)
(* The load balancer in use (core/loadbalance/loadbalance.go): handlers of *)
(* the http, socks and sps services select an upstream, dial it, count the *)
(* connection, proxy, and count it off again.  Select holds the read lock: *)
(* several run at once, none beside ConnsIncrease, ConnsDecrease or Reset, *)
(* which take the write lock.  The health of an upstream changes at any    *)
(* time, its prober takes no lock (module Upstream).                       *)
(*                                                                         *)
(* Counts change under the write lock only, so the methods without a state *)
(* meet no change but that of the health.  They look at each upstream      *)
(* once, and the health may be anything at any time: a call during which   *)
(* it changes returns what it would have returned had the upstreams been   *)
(* as it saw them, so their Select is one step.  RoundRobin advances a     *)
(* counter the callers share, one atomic step per upstream it looks at.    *)
(* Weight reads and writes its state without a lock of its own: a call     *)
(* that meets no other does what its loop says, the outcome of calls that  *)
(* overlap is a choice.                                                    *)
(***************************************************************************)
EXTENDS Selectors

CONSTANTS Handlers,     \* goroutines that serve a client
          N,            \* upstreams, addressed 1..N
          Weights,      \* their weights
          MaxConns,     \* MaxConnections of each, 0 for no limit
          Methods,      \* subset of the names in loadbalance.Methods
          Hashes,       \* hash values of source addresses, from 1
          Times,        \* response times of probes
          MaxResets     \* bound on the calls of Reset

ASSUME BalancedAssumption ==
    /\ N \in Nat \ {0}
    /\ Weights \in [1..N -> Nat \ {0}]
    /\ MaxConns \in Nat
    /\ Hashes \subseteq Nat \ {0}
    /\ Times \subseteq Nat /\ 0 \in Times
    /\ MaxResets \in Nat
    /\ RobinValues \in Nat \ {0}
    /\ IsFiniteSet(Handlers)

Upstreams == 1..N

VARIABLES method,       \* fixed when the balancer is made
          up, conns,    \* health and connections of each upstream
          time,         \* response time of each
          robin,        \* the counter of RoundRobin
          weight,       \* the state of Weight
          picks,        \* the last picks of Weight, up to a full cycle, by
                        \* calls that met no other while all were available
                        \* (not in the code)
          pc, pick,     \* where a handler is and the upstream it selected
          turn,         \* upstreams its Select has looked at
          resets        \* calls of Reset so far

selector == <<time, robin, weight, picks>>
vars == <<method, up, conns, selector, pc, pick, turn, resets>>

Pool == [i \in Upstreams |->
          [up |-> up[i], conns |-> conns[i], max |-> MaxConns, time |-> time[i],
           weight |-> Weights[i]]]

(* The sum of the first i weights.                                         *)
SumLoop ==
    LET loop[i \in 0..N] == IF i = 0 THEN 0 ELSE loop[i - 1] + Weights[i]
    IN  loop

(* The picks after which weighted scheduling starts over.                  *)
Cycle == SumLoop[N] \div WeightGcd(Weights)

TypeOK ==
    /\ method \in Methods
    /\ up \in [Upstreams -> BOOLEAN]
    /\ conns \in [Upstreams -> Int]
    /\ time \in [Upstreams -> Times]
    /\ robin \in 0..(RobinValues - 1)
    /\ weight \in [index : 0..N, curWeight : 0..MaxWeight(Weights), pick : 0..N]
    /\ picks \in Seq(Upstreams) /\ Len(picks) <= Cycle
    /\ pc \in [Handlers -> {"idle", "select", "raced", "selected", "dialed", "proxy"}]
    /\ pick \in [Handlers -> Upstreams \cup {Nil}]
    /\ turn \in [Handlers -> 0..N]
    /\ resets \in 0..MaxResets
    /\ \A h \in Handlers : pc[h] \in {"dialed", "proxy"} => pick[h] \in Upstreams

Init ==
    /\ method \in Methods
    /\ up = [i \in Upstreams |-> FALSE]
    /\ conns = [i \in Upstreams |-> 0]
    /\ time = [i \in Upstreams |-> 0]
    /\ robin = 0
    /\ weight = NewWeight
    /\ picks = <<>>
    /\ pc = [h \in Handlers |-> "idle"]
    /\ pick = [h \in Handlers |-> Nil]
    /\ turn = [h \in Handlers |-> 0]
    /\ resets = 0

(* No Select holds the read lock.                                          *)
WriteLockFree == \A h \in Handlers : pc[h] \notin {"select", "raced"}

(* What the methods without a state may return.                            *)
Returns(m) ==
    CASE m = "random" -> Random(Pool)
      [] m = "leastconn" -> LeastConn(Pool)
      [] m = "leasttime" -> LeastTime(Pool)
      [] m = "hash" -> UNION {Hash(Pool, src) : src \in Hashes \cup {Nil}}
      [] OTHER -> {}

Select(h) ==
    /\ pc[h] = "idle"
    /\ \E i \in Returns(method) : pick' = [pick EXCEPT ![h] = i]
    /\ pc' = [pc EXCEPT ![h] = "selected"]
    /\ UNCHANGED <<method, up, conns, selector, turn, resets>>

(* Weight.Select takes the read lock.  A call that finds another one under *)
(* way races with it, unless the only upstream is returned anyway.         *)
SelectWeight(h) ==
    /\ method = "weight"
    /\ pc[h] = "idle"
    /\ pc' = IF WriteLockFree \/ N = 1 THEN [pc EXCEPT ![h] = "select"]
             ELSE [g \in Handlers |-> IF g = h \/ pc[g] = "select" THEN "raced" ELSE pc[g]]
    /\ UNCHANGED <<method, up, conns, selector, pick, turn, resets>>

(* A call that met no other.                                               *)
WeightAlone(h) ==
    /\ method = "weight"
    /\ pc[h] = "select"
    /\ weight' = Weight(Pool, weight)
    /\ pick' = [pick EXCEPT ![h] = weight'.pick]
    /\ picks' = IF AvailableIn(Pool) # Upstreams THEN <<>>
                ELSE IF Len(picks) = Cycle THEN <<weight'.pick>>
                ELSE Append(picks, weight'.pick)
    /\ pc' = [pc EXCEPT ![h] = "selected"]
    /\ UNCHANGED <<method, up, conns, time, robin, turn, resets>>

(* What the reads and writes of calls that overlap may leave and return:   *)
(* the index of an upstream, a current weight that has gone down in steps  *)
(* of the gcd, and any upstream or none.  A current weight of 0 is left if *)
(* both first calls find the index past the start when they look again.    *)
Races ==
    [index : Upstreams,
     curWeight : {c \in 0..MaxWeight(Weights) : c % WeightGcd(Weights) = 0},
     pick : Upstreams \cup {Nil}]

WeightRaced(h) ==
    /\ pc[h] = "raced"
    /\ weight' \in Races
    /\ pick' = [pick EXCEPT ![h] = weight'.pick]
    /\ picks' = <<>>
    /\ pc' = [pc EXCEPT ![h] = "selected"]
    /\ UNCHANGED <<method, up, conns, time, robin, turn, resets>>

(* RoundRobin.Select takes the read lock...                                *)
SelectRobin(h) ==
    /\ method = "roundrobin"
    /\ pc[h] = "idle"
    /\ pc' = [pc EXCEPT ![h] = "select"]
    /\ UNCHANGED <<method, up, conns, selector, pick, turn, resets>>

(* ... looks at one upstream after the other, at most N of them ...        *)
RobinNext(h) ==
    /\ method = "roundrobin"
    /\ pc[h] = "select"
    /\ turn[h] < N
    /\ robin' = RobinTurn(Pool, robin).robin
    /\ ~Available(Pool[RobinTurn(Pool, robin).at])
    /\ turn' = [turn EXCEPT ![h] = @ + 1]
    /\ UNCHANGED <<method, up, conns, time, weight, picks, pc, pick, resets>>

RobinReturn(h, i) ==
    /\ pick' = [pick EXCEPT ![h] = i]
    /\ pc' = [pc EXCEPT ![h] = "selected"]
    /\ turn' = [turn EXCEPT ![h] = 0]
    /\ UNCHANGED <<method, up, conns, time, weight, picks, resets>>

(* ... and returns the first available one or, after N, none.              *)
RobinFound(h) ==
    /\ method = "roundrobin"
    /\ pc[h] = "select"
    /\ turn[h] < N
    /\ robin' = RobinTurn(Pool, robin).robin
    /\ Available(Pool[RobinTurn(Pool, robin).at])
    /\ RobinReturn(h, RobinTurn(Pool, robin).at)

RobinNone(h) ==
    /\ method = "roundrobin"
    /\ pc[h] = "select"
    /\ turn[h] = N
    /\ RobinReturn(h, Nil)
    /\ UNCHANGED robin

(* Faulty: an empty address is dialed.                                     *)
DialAny(h) ==
    /\ pc[h] = "selected"
    /\ pc' = [pc EXCEPT ![h] = "dialed"]
    /\ UNCHANGED <<method, up, conns, selector, pick, turn, resets>>

(* The selected upstream is dialed.                                        *)
Dial(h) ==
    /\ pc[h] = "selected"
    /\ pick[h] # Nil
    /\ pc' = [pc EXCEPT ![h] = "dialed"]
    /\ UNCHANGED <<method, up, conns, selector, pick, turn, resets>>

(* Dialing fails, or what follows it does; no address cannot be dialed.    *)
(* The handler selects again or ends and serves the next client.           *)
DialFail(h) ==
    /\ pc[h] \in {"selected", "dialed"}
    /\ pc' = [pc EXCEPT ![h] = "idle"]
    /\ pick' = [pick EXCEPT ![h] = Nil]
    /\ UNCHANGED <<method, up, conns, selector, turn, resets>>

(* ConnsIncrease(lbAddr) before proxying, ConnsDecrease(lbAddr) deferred.  *)
ConnsIncrease(h) ==
    /\ pc[h] = "dialed"
    /\ WriteLockFree
    /\ conns' = [conns EXCEPT ![pick[h]] = @ + 1]
    /\ pc' = [pc EXCEPT ![h] = "proxy"]
    /\ UNCHANGED <<method, up, selector, pick, turn, resets>>

(* Faulty: the connection is not counted off.                              *)
ConnsDecreaseSkipped(h) ==
    /\ pc[h] = "proxy"
    /\ WriteLockFree
    /\ pc' = [pc EXCEPT ![h] = "idle"]
    /\ pick' = [pick EXCEPT ![h] = Nil]
    /\ UNCHANGED <<method, up, conns, selector, turn, resets>>

ConnsDecrease(h) ==
    /\ pc[h] = "proxy"
    /\ WriteLockFree
    /\ conns' = [conns EXCEPT ![pick[h]] = @ - 1]
    /\ pc' = [pc EXCEPT ![h] = "idle"]
    /\ pick' = [pick EXCEPT ![h] = Nil]
    /\ UNCHANGED <<method, up, selector, turn, resets>>

(* A prober sets the health and the response time of an upstream.  The     *)
(* time is kept only for the method that reads it.                         *)
Probe(i, t) ==
    /\ method = "leasttime" \/ t = 0
    /\ \E healthy \in BOOLEAN : up' = [up EXCEPT ![i] = healthy]
    /\ time' = [time EXCEPT ![i] = t]
    /\ UNCHANGED <<method, conns, robin, weight, picks, pc, pick, turn, resets>>

(* Reset makes new upstreams and a new selector, here with the addresses   *)
(* there were.                                                             *)
Reset ==
    /\ resets < MaxResets
    /\ WriteLockFree
    /\ up' = [i \in Upstreams |-> FALSE]
    /\ conns' = [i \in Upstreams |-> 0]
    /\ time' = [i \in Upstreams |-> 0]
    /\ robin' = 0
    /\ weight' = NewWeight
    /\ picks' = <<>>
    /\ resets' = resets + 1
    /\ UNCHANGED <<method, pc, pick, turn>>

Handle(h) ==
    \/ Select(h) \/ SelectWeight(h) \/ WeightAlone(h) \/ WeightRaced(h)
    \/ SelectRobin(h) \/ RobinNext(h) \/ RobinFound(h) \/ RobinNone(h)
    \/ Dial(h) \/ DialFail(h) \/ ConnsIncrease(h) \/ ConnsDecrease(h)

Next ==
    \/ \E h \in Handlers : Handle(h)
    \/ \E i \in Upstreams, t \in Times : Probe(i, t)
    \/ Reset

Spec == Init /\ [][Next]_vars

-----------------------------------------------------------------------------
(* Handlers proxying over upstream i.                                      *)
Using(i) == {h \in Handlers : pc[h] = "proxy" /\ pick[h] = i}

(* The count of an upstream is the number of handlers proxying over it     *)
(* until the first Reset, and never above it afterwards: every increase is *)
(* counted off once, on the same upstream, and what Reset forgets can only *)
(* make the count too small (loadbalance.go:137-149, 178-183).             *)
CountsConns ==
    \A i \in Upstreams :
      /\ conns[i] <= Cardinality(Using(i))
      /\ resets = 0 => conns[i] = Cardinality(Using(i))

Usable == AvailableIn(Pool)

(* Every drawing or hashing method returns an available upstream whenever  *)
(* there is one, and nil otherwise (selector.go:27-45, 64-129, 198-223).   *)
MethodsFindHost ==
    \A i \in Returns(method) : IF Usable = {} THEN i = Nil ELSE i \in Usable

Least(measure) == {i \in Usable : \A j \in Usable : measure[i] <= measure[j]}

(* The one-pass loop with its restarted sample finds the upstreams with    *)
(* the fewest connections (the least time), and any of them may be drawn;  *)
(* for connections until a Reset, after which counts may be negative       *)
(* (selector.go:68-90, 201-223).                                           *)
LeastIsLeast ==
    Usable # {} =>
      /\ method = "leastconn" /\ resets = 0 => Returns(method) = Least(conns)
      /\ method = "leasttime" => Returns(method) = Least(time)

(* A method that looks at the whole pool picks what its name says, and     *)
(* nil only if nothing is available (selector.go:27-45, 64-129, 198-223).  *)
PicksByMethod == MethodsFindHost /\ LeastIsLeast

(* What the next k calls of the round robin return when they are alone.    *)
RobinCalls(k) ==
    LET loop[j \in 0..k] == IF j = 0 THEN [robin |-> robin, pick |-> Nil]
                                     ELSE RoundRobin(Pool, loop[j - 1].robin)
    IN  loop

(* While the counter does not wrap, calls one after the other go through   *)
(* all available upstreams, each once, before one repeats: down and full   *)
(* ones are skipped and nobody is favoured (selector.go:53-62).            *)
RobinIsEven ==
    method = "roundrobin" /\ robin + N * N < RobinValues =>
      LET k == Cardinality(Usable)
          calls == RobinCalls(k)
      IN  {calls[j].pick : j \in 1..k} = Usable

Served(i) == Cardinality({j \in DOMAIN picks : picks[j] = i})

(* A cycle of calls that do not overlap, with all upstreams available,     *)
(* gives each its weight over the gcd, wherever earlier failures, or calls *)
(* that did overlap, left the scheduler (selector.go:150-195).             *)
WeightShares ==
    N > 1 /\ Len(picks) = Cycle =>
      \A i \in Upstreams : Served(i) * WeightGcd(Weights) = Weights[i]

(* The methods that take turns give every upstream its share while calls   *)
(* come one after the other: each one in turn, or in proportion to the     *)
(* weights, also after some of them were down or full and after calls that *)
(* overlapped (selector.go:53-62, 150-195).                                *)
TurnsAreFair == RobinIsEven /\ WeightShares

===============================================================================
