------------------------------- MODULE Upstream -------------------------------
(***************************************************************************)
(* The health of one upstream of the load balancer                         *)
(* (core/loadbalance/upstream.go, and activeHealthChecker of               *)
(* loadbalance.go).  At every tick the checker starts a goroutine that     *)
(* probes the upstream and then updates two counters and the health flag,  *)
(* each atomically, none together.  Nothing waits for a probe to end       *)
(* before the next tick: probes overlap, and a result may be applied long  *)
(* after it was observed.                                                  *)
(*                                                                         *)
(* The counters are compared with their thresholds only, so they stop      *)
(* here at the threshold.  (They are 32 bits wide and grow by one at most  *)
(* per tick: they do not wrap in the life of a process.)                   *)
(***************************************************************************)
EXTENDS Naturals, FiniteSets

CONSTANTS SuccessThreshold, FailureThreshold,
          Probes   \* probes that may overlap; a bound

ASSUME ThresholdAssumption ==
    /\ SuccessThreshold \in Nat \ {0}
    /\ FailureThreshold \in Nat \ {0}

VARIABLES reachable,      \* whether a probe would succeed now
          health, successCount, failureCount,
          pc,             \* pc[p]: where the goroutine of probe p is
          closed,         \* the balancer was closed
          evidence        \* what the probes saw (not in the code): ok, fail,
                          \* the successes since the last failure and the
                          \* failures since the last success; settled, the
                          \* flag was written before; serial, no two probes
                          \* have overlapped

vars == <<reachable, health, successCount, failureCount, pc, closed, evidence>>

TypeOK ==
    /\ reachable \in BOOLEAN
    /\ health \in BOOLEAN
    /\ successCount \in 0..SuccessThreshold
    /\ failureCount \in 0..FailureThreshold
    /\ pc \in [Probes -> {"idle", "probe", "fail", "resetSuccess", "unhealthy",
                          "ok", "resetFailure", "healthy"}]
    /\ closed \in BOOLEAN
    /\ evidence \in [ok : 0..SuccessThreshold, fail : 0..FailureThreshold,
                    settled : BOOLEAN, serial : BOOLEAN]

(* NewUpstream: not healthy until probed.                                  *)
Init ==
    /\ reachable \in BOOLEAN
    /\ health = FALSE
    /\ successCount = 0
    /\ failureCount = 0
    /\ pc = [p \in Probes |-> "idle"]
    /\ closed = FALSE
    /\ evidence = [ok |-> 0, fail |-> 0, settled |-> FALSE, serial |-> TRUE]

UpTo(bound, n) == IF n < bound THEN n ELSE bound

Goto(p, l) == pc' = [pc EXCEPT ![p] = l]

(* The host or the network changes.                                        *)
Change ==
    /\ reachable' = ~reachable
    /\ UNCHANGED <<health, successCount, failureCount, pc, closed, evidence>>

(* A tick of activeHealthChecker starts a probe.                           *)
Tick(p) ==
    /\ ~closed
    /\ pc[p] = "idle"
    /\ Goto(p, "probe")
    /\ evidence' = [evidence EXCEPT !.serial = @ /\ \A q \in Probes : pc[q] = "idle"]
    /\ UNCHANGED <<reachable, health, successCount, failureCount, closed>>

(* The probe returns.                                                      *)
Probe(p) ==
    /\ pc[p] = "probe"
    /\ Goto(p, IF reachable THEN "ok" ELSE "fail")
    /\ evidence' = [evidence EXCEPT
          !.ok = IF reachable THEN UpTo(SuccessThreshold, @ + 1) ELSE 0,
          !.fail = IF reachable THEN 0 ELSE UpTo(FailureThreshold, @ + 1)]
    /\ UNCHANGED <<reachable, health, successCount, failureCount, closed>>

(* A failure is counted; from the threshold on, the other counter and the  *)
(* flag are cleared, one after the other.                                  *)
CountFailure(p) ==
    /\ pc[p] = "fail"
    /\ failureCount' = UpTo(FailureThreshold, failureCount + 1)
    /\ Goto(p, IF failureCount + 1 >= FailureThreshold THEN "resetSuccess" ELSE "idle")
    /\ UNCHANGED <<reachable, health, successCount, closed, evidence>>

(* Faulty: the successes before the failures keep counting.               *)
ResetSuccessSkipped(p) ==
    /\ pc[p] = "resetSuccess"
    /\ Goto(p, "unhealthy")
    /\ UNCHANGED <<reachable, health, successCount, failureCount, closed, evidence>>

ResetSuccess(p) ==
    /\ pc[p] = "resetSuccess"
    /\ successCount' = 0
    /\ Goto(p, "unhealthy")
    /\ UNCHANGED <<reachable, health, failureCount, closed, evidence>>

Unhealthy(p) ==
    /\ pc[p] = "unhealthy"
    /\ health' = FALSE
    /\ evidence' = [evidence EXCEPT !.settled = TRUE]
    /\ Goto(p, "idle")
    /\ UNCHANGED <<reachable, successCount, failureCount, closed>>

(* Faulty: only the success that meets the threshold clears the failures.  *)
CountSuccessOnce(p) ==
    /\ pc[p] = "ok"
    /\ successCount' = UpTo(SuccessThreshold, successCount + 1)
    /\ Goto(p, IF successCount + 1 = SuccessThreshold THEN "resetFailure" ELSE "idle")
    /\ UNCHANGED <<reachable, health, failureCount, closed, evidence>>

(* A success is counted, the same way.                                     *)
CountSuccess(p) ==
    /\ pc[p] = "ok"
    /\ successCount' = UpTo(SuccessThreshold, successCount + 1)
    /\ Goto(p, IF successCount + 1 >= SuccessThreshold THEN "resetFailure" ELSE "idle")
    /\ UNCHANGED <<reachable, health, failureCount, closed, evidence>>

ResetFailure(p) ==
    /\ pc[p] = "resetFailure"
    /\ failureCount' = 0
    /\ Goto(p, "healthy")
    /\ UNCHANGED <<reachable, health, successCount, closed, evidence>>

Healthy(p) ==
    /\ pc[p] = "healthy"
    /\ health' = TRUE
    /\ evidence' = [evidence EXCEPT !.settled = TRUE]
    /\ Goto(p, "idle")
    /\ UNCHANGED <<reachable, successCount, failureCount, closed>>

(* Close ends the ticking.                                                 *)
Close ==
    /\ ~closed
    /\ closed' = TRUE
    /\ UNCHANGED <<reachable, health, successCount, failureCount, pc, evidence>>

Check(p) ==
    \/ Probe(p)
    \/ CountFailure(p) \/ ResetSuccess(p) \/ Unhealthy(p)
    \/ CountSuccess(p) \/ ResetFailure(p) \/ Healthy(p)

Next ==
    \/ Change
    \/ \E p \in Probes : Tick(p) \/ Check(p)
    \/ Close

(* The ticker fires until Close, and started probes end.                   *)
Fairness ==
    /\ WF_vars(\E p \in Probes : Tick(p))
    /\ \A p \in Probes : WF_vars(Check(p))

Spec == Init /\ [][Next]_vars /\ Fairness

-----------------------------------------------------------------------------
(* The flag follows the host: when the host stays reachable it is healthy  *)
(* from some time on, when it stays unreachable it is not, whatever late   *)
(* results and interleaved updates came before (upstream.go:84-105).       *)
HealthFollows ==
    /\ <>[](reachable /\ ~closed) => <>[]health
    /\ <>[](~reachable /\ ~closed) => <>[]~health

(* As long as probes do not overlap, the flag changes only on a full run   *)
(* of equal results: a healthy upstream is given up after FailureThreshold *)
(* failures in a row, and one given up is taken back after                 *)
(* SuccessThreshold successes in a row (upstream.go:92-104).  No line says *)
(* "in a row": it follows from each threshold branch clearing the other    *)
(* counter.  Before the flag is first written failures below the threshold *)
(* do not clear successCount, and the run need not be unbroken.            *)
RunOfResults ==
    [][evidence.serial =>
         /\ health /\ ~health' => evidence.fail = FailureThreshold
         /\ ~health /\ health' /\ evidence.settled => evidence.ok = SuccessThreshold]_vars

===============================================================================
