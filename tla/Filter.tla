------------------------------- MODULE Filter -------------------------------
(***************************************************************************)
(* The domain filter (core/filter/filter.go), which tells the http and     *)
(* socks services whether a target is reached through a parent or          *)
(* directly.  Two tables of domains are loaded from files; every other     *)
(* domain that is asked for is added to a cache and probed from time to    *)
(* time, and the counts of its probes decide.                              *)
(*                                                                         *)
(* A domain is the sequence of its labels.  The age of an item, the time   *)
(* since lastActiveTime, is "fresh" below aliveThreshold, "edge" when      *)
(* equal to it, "old" above.  A probe takes less than aliveThreshold, and  *)
(* so does the time between two ticks: an item whose domain is being       *)
(* probed does not grow old.                                               *)
(***************************************************************************)
EXTENDS Naturals, Sequences, FiniteSets

CONSTANTS Domains,            \* the domains that are asked for
          Proxies, Directs,   \* the tables from the files
          SuccessThreshold, FailureThreshold,
          MaxCount,           \* of a counter; a bound
          MaxOverlap,         \* probes of a domain at a time; a bound
          Nil

Slots == 1..MaxOverlap
Counts == 0..MaxCount
Items == [succ : Counts, fail : Counts, age : {"fresh", "edge", "old"}]

ASSUME FilterAssumption ==
    /\ SuccessThreshold \in 1..MaxCount /\ FailureThreshold \in 1..MaxCount
    /\ MaxCount \in Nat /\ MaxOverlap \in Nat \ {0}
    /\ Nil \notin Items
    /\ Domains \cup Proxies \cup Directs \subseteq Seq(STRING) \ {<<>>}

VARIABLES intelligent,   \* the mode: "direct", "proxy" or "intelligent"
          cache,         \* cache[d]: the item of d, or Nil
          probes,        \* probes[d][i]: the item that probe i of d works on, or Nil
          up,            \* up[d]: d can be reached directly
          running        \* Close has not been called

vars == <<intelligent, cache, probes, up, running>>

TypeOK ==
    /\ intelligent \in {"direct", "proxy", "intelligent"}
    /\ cache \in [Domains -> Items \cup {Nil}]
    /\ probes \in [Domains -> [Slots -> Items \cup {Nil}]]
    /\ up \in [Domains -> BOOLEAN]
    /\ running \in BOOLEAN

Init ==
    /\ intelligent \in {"direct", "proxy", "intelligent"}
    /\ cache = [d \in Domains |-> Nil]
    /\ probes = [d \in Domains |-> [i \in Slots |-> Nil]]
    /\ up \in [Domains -> BOOLEAN]
    /\ running = TRUE

-----------------------------------------------------------------------------
(* A domain is in a table with any of its suffixes; names of one label are *)
(* in none.                                                                *)
(* Faulty: the domain itself has to be in the table. *)
MatchWhole(d, table) ==
    Len(d) > 1 /\ d \in table

Match(d, table) ==
    Len(d) > 1 /\ \E i \in 1..Len(d) : SubSeq(d, i, Len(d)) \in table

IsProxy(d) ==
    \/ Match(d, Proxies)
    \/ /\ ~Match(d, Directs)
       /\ \/ cache[d] = Nil
          \/ intelligent = "proxy"
          \/ /\ intelligent = "intelligent"
             /\ cache[d].succ <= cache[d].fail
             /\ cache[d].age = "fresh"

NewItem == [succ |-> 0, fail |-> 0, age |-> "old"]

(* A request for a domain that is in no table adds it to the cache.        *)
Add(d) ==
    /\ ~Match(d, Directs) /\ ~Match(d, Proxies)
    /\ cache[d] = Nil
    /\ cache' = [cache EXCEPT ![d] = NewItem]
    /\ UNCHANGED <<intelligent, probes, up, running>>

-----------------------------------------------------------------------------
(* Faulty: an item that was settled once is probed no more. *)
IsNeedLivenessProdeAgeless(item) ==
    ~(/\ item.succ >= SuccessThreshold \/ item.fail >= FailureThreshold
      /\ item.succ > item.fail)

IsNeedLivenessProde(item) ==
    ~(/\ item.succ >= SuccessThreshold \/ item.fail >= FailureThreshold
      /\ item.succ > item.fail
      /\ item.age = "fresh")

Needy == {d \in Domains : cache[d] # Nil /\ IsNeedLivenessProde(cache[d])}

Free(d) == {i \in Slots : probes[d][i] = Nil}

(* The first thing a probe does with its copy of the item.                 *)
Restarted(item) ==
    IF item.age = "old" THEN [item EXCEPT !.succ = 0, !.fail = 0] ELSE item

(* Faulty: every item of the cache is probed. *)
TickAll ==
    /\ running
    /\ \A d \in Domains : Free(d) # {}
    /\ probes' = [d \in Domains |->
                    IF cache[d] # Nil
                    THEN [probes[d] EXCEPT ![CHOOSE i \in Free(d) : TRUE] = Restarted(cache[d])]
                    ELSE probes[d]]
    /\ UNCHANGED <<intelligent, cache, up, running>>

(* A tick of run: every item that needs it is probed, on a copy.           *)
Tick ==
    /\ running
    /\ Needy # {} /\ \A d \in Needy : Free(d) # {}
    /\ probes' = [d \in Domains |->
                    IF d \in Needy
                    THEN [probes[d] EXCEPT ![CHOOSE i \in Free(d) : TRUE] = Restarted(cache[d])]
                    ELSE probes[d]]
    /\ UNCHANGED <<intelligent, cache, up, running>>

(* At MaxCount one more of a kind takes one of the other kind away: the    *)
(* thresholds stay met, and the difference of the two is what it would be  *)
(* without the bound, down to -MaxCount and up to MaxCount.                *)
Up(item, kind, other) ==
    IF item[kind] < MaxCount THEN [item EXCEPT ![kind] = @ + 1]
    ELSE [item EXCEPT ![other] = IF @ > 0 THEN @ - 1 ELSE 0]

Counted(item, ok) ==
    [(IF ok THEN Up(item, "succ", "fail") ELSE Up(item, "fail", "succ"))
        EXCEPT !.age = "fresh"]

(* A probe ends and stores its copy, whatever the cache has by then.       *)
Probe(d, i) ==
    /\ probes[d][i] # Nil
    /\ cache' = [cache EXCEPT ![d] = Counted(probes[d][i], up[d])]
    /\ probes' = [probes EXCEPT ![d][i] = Nil]
    /\ UNCHANGED <<intelligent, up, running>>

(* Time passes for an item that is not being probed.                       *)
Age(d) ==
    /\ cache[d] # Nil /\ (d \notin Needy \/ ~running)
    /\ Free(d) = Slots
    /\ \E a \in {"edge", "old"} : cache' = [cache EXCEPT ![d].age = a]
    /\ UNCHANGED <<intelligent, probes, up, running>>

Turn(d) ==
    /\ up' = [up EXCEPT ![d] = ~@]
    /\ UNCHANGED <<intelligent, cache, probes, running>>

Close ==
    /\ running
    /\ running' = FALSE
    /\ UNCHANGED <<intelligent, cache, probes, up>>

Next ==
    \/ \E d \in Domains :
        \/ Add(d) \/ Age(d) \/ Turn(d)
        \/ \E i \in Slots : Probe(d, i)
    \/ Tick \/ Close

(* The ticker fires, probes have a time-out and time passes.               *)
Fairness ==
    /\ WF_vars(Tick)
    /\ \A d \in Domains : WF_vars(Age(d)) /\ \A i \in Slots : WF_vars(Probe(d, i))

Spec == Init /\ [][Next]_vars /\ Fairness

-----------------------------------------------------------------------------
(* The labels of t are the last labels of d, counted from the right.       *)
EndsWith(d, t) ==
    Len(t) <= Len(d) /\ \A j \in 1..Len(t) : t[Len(t) - j + 1] = d[Len(d) - j + 1]

Under(d, table) == Len(d) > 1 /\ \E t \in table : EndsWith(d, t)

(* The files have the last word: a domain under an entry of the proxy file *)
(* is always asked of the parents, and one under an entry of the direct    *)
(* file only never is, in every mode and whatever was asked and probed     *)
(* before; neither is ever probed (Match, IsProxy, Add).                   *)
ListsDecide ==
    \A d \in Domains :
        Under(d, Proxies) \/ Under(d, Directs)
            => IsProxy(d) = Under(d, Proxies) /\ cache[d] = Nil

Probing(d) == cache[d] # Nil /\ intelligent = "intelligent" /\ running

(* A domain that can be reached directly from some time on is, in the end, *)
(* reached directly for good: the failures it collected while it was down  *)
(* are outweighed although probes of two ticks may overlap and a late one  *)
(* overwrites the counts of an earlier one (run, isNeedLivenessProde).     *)
Recovers ==
    \A d \in Domains : <>[](Probing(d) /\ up[d]) => <>[](~IsProxy(d))

(* A domain that cannot be reached from some time on is, in the end, asked *)
(* of the parents for good: a verdict of many successes lapses with        *)
(* aliveThreshold and its counts do not hold against the failures of now.  *)
GivesUp ==
    \A d \in Domains : <>[](Probing(d) /\ ~up[d]) => <>[]IsProxy(d)

(* IsProxy follows a target that stays up or stays down, whatever probes   *)
(* and verdicts came before (filter.go, run and IsProxy).                  *)
VerdictFollows == Recovers /\ GivesUp

Settled(d) == cache[d] # Nil /\ ~IsNeedLivenessProde(cache[d])

(* "How long after a successful probe the domain counts as reachable"      *)
(* (WithAliveThreshold): once the thresholds are met and no probe of       *)
(* before is still in flight, a domain is reached directly, whatever       *)
(* happens, until that time has passed.                                    *)
VerdictLasts ==
    [][\A d \in Domains :
         Settled(d) /\ Free(d) = Slots
            => /\ Free(d)' = Slots
               /\ Settled(d)' \/ cache'[d].age # "fresh"
               /\ intelligent = "intelligent" => ~IsProxy(d)']_vars

=============================================================================
