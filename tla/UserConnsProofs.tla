-------------------------- MODULE UserConnsProofs --------------------------
(***************************************************************************)
(* Proofs about UserConns, for any services, users, connections and bound  *)
(* on retries.                                                             *)
(*                                                                         *)
(* The last two parts are about what these services ask before they dial:  *)
(* the domain filter, and the health of one upstream of a balancer.        *)
(***************************************************************************)
EXTENDS UserConns, Integers, SequenceTheorems, TLAPS

(* A connection that was accepted has an address. *)
SrcInv == \A c \in Conns : pc[c] # "idle" => src[c] \in Srcs

(* A target exists only once it was dialled and greeted; socks and tcp     *)
(* have closed it by the time they close the user's connection.            *)
TargetInv ==
    \A c \in Conns :
        /\ pc[c] \in {"idle", "request", "dial", "backoff"} => out[c] \in {"none", "closed"}
        /\ pc[c] \in {"close", "done"} /\ (Is("socks") \/ Is("tcp")) => out[c] \in {"none", "closed"}

(* What runs at each stage of Start and Stop; tcp has no parts but its     *)
(* listener, the last thing it makes.                                      *)
Quiet == \A p \in {"listener", "lb", "filters"} : part[p] # "on"

StartInv ==
    /\ phase \in {"new", "init"} => ka = "off" /\ \A p \in Parts : part[p] = "none"
    /\ phase \in {"new", "init", "listen"} => stop = "no"
    /\ stop = "cancelled" => phase \in {"run", "failing"}
    /\ Is("tcp") => part["lb"] = "none" /\ part["filters"] = "none"
    /\ Is("tcp") /\ phase = "listen" => part["listener"] = "none"
    /\ phase = "failing" => (Is("http") \/ Is("socks")) /\ stop \in {"cancelled", "parts"}
    /\ stop = "parts" => phase \in {"run", "failing"} /\ (Is("sps") \/ Quiet)
    /\ phase = "failed" => Is("sps") \/ Quiet

Inv ==
    /\ TypeOK
    /\ TableHasLive
    /\ UntrackedOnlyByNamesake
    /\ SrcInv
    /\ TargetInv
    /\ StartInv

(* The invariant holds in the initial states. *)
LEMMA InitInv == Init => Inv
  BY UserConnsAssumption
  DEF Init, Inv, TypeOK, TableHasLive, UntrackedOnlyByNamesake, SrcInv, TargetInv, StartInv, Quiet,
      AllServices, Parts

(* Every step of Start, Stop and the keepalive goroutine preserves it. *)
LEMMA ServiceStep == Inv /\ (Start \/ StopCancel \/ Stop \/ Keepalive) => Inv'
  <1> SUFFICES ASSUME Inv, Start \/ StopCancel \/ Stop \/ Keepalive PROVE Inv'
    OBVIOUS
  <1> USE UserConnsAssumption DEF Inv, Parts
  <1>1. CASE InspectConfig
    BY <1>1 DEF InspectConfig, HttpInspectConfig, SocksInspectConfig, SpsInspectConfig,
       TcpInspectConfig, Inspected, StartFails, Is, connVars, TypeOK, TableHasLive,
       UntrackedOnlyByNamesake, SrcInv, TargetInv, StartInv, Quiet, AllServices
  <1>2. CASE InitService
    <2>1. UNCHANGED <<svc, connVars>> /\ phase = "init"
      BY <1>2 DEF InitService
    <2>2. PICK ps \in SUBSET Parts :
            /\ Initialised(ps) \/ InitFails(ps)
            /\ Is("tcp") => ps = {}
      BY ZenonT(60), <1>2 DEF InitService, HttpInit, SocksInit, SpsInit, TcpInit, InitParents, ParentParts,
         TypeOK, AllServices, Is
    <2>3. part' \in [Parts -> {"none", "on", "closed"}]
      BY <2>2 DEF Initialised, InitFails, Made, TypeOK
    <2>4. TypeOK'
      BY <2>1, <2>2, <2>3 DEF Initialised, InitFails, StartFails, TypeOK, connVars
    <2>5. StartInv'
      BY <2>1, <2>2, ZenonT(60) DEF Initialised, InitFails, StartFails, Made, Is, TypeOK, StartInv, Quiet, AllServices
    <2>6. (TableHasLive /\ UntrackedOnlyByNamesake /\ SrcInv /\ TargetInv)'
      BY <2>1 DEF connVars, TableHasLive, UntrackedOnlyByNamesake, SrcInv, TargetInv, Is
    <2> QED BY <2>4, <2>5, <2>6
  <1>3. CASE Listen
    <2> USE <1>3 DEF Listen, HttpListen, SocksListen, SpsListen, TcpListen, Listening,
        StartFails, connVars, Is
    <2>1. TypeOK' BY DEF TypeOK
    <2>2. StartInv' BY DEF TypeOK, StartInv, Quiet, AllServices
    <2>3. (TableHasLive /\ UntrackedOnlyByNamesake /\ SrcInv /\ TargetInv)'
      BY DEF TypeOK, TableHasLive, UntrackedOnlyByNamesake, SrcInv, TargetInv
    <2> QED BY <2>1, <2>2, <2>3
  <1>4. CASE StopCancel
    BY <1>4 DEF StopCancel, startVars, connVars, Is, TypeOK, TableHasLive,
       UntrackedOnlyByNamesake, SrcInv, TargetInv, StartInv, Quiet
  <1>5. CASE StopParts
    <2>1. TypeOK'
      BY <1>5 DEF StopParts, HttpStop, SocksStop, SpsStop, TcpStop, Closed, SshEnds, TypeOK
    <2>2. StartInv'
      <3> USE <1>5 DEF StopParts, Closed, Is, TypeOK, StartInv, Quiet, AllServices
      <3>1. CASE HttpStop BY <3>1 DEF HttpStop
      <3>2. CASE SocksStop BY <3>2 DEF SocksStop
      <3>3. CASE SpsStop BY <3>3 DEF SpsStop
      <3>4. CASE TcpStop BY <3>4 DEF TcpStop
      <3> QED BY ZenonT(60), <3>1, <3>2, <3>3, <3>4
    <2>3. (TableHasLive /\ UntrackedOnlyByNamesake /\ SrcInv)'
      BY <1>5 DEF StopParts, TableHasLive, UntrackedOnlyByNamesake, SrcInv
    <2>4. TargetInv'
      BY <1>5 DEF StopParts, HttpStop, SocksStop, SpsStop, TcpStop, SshEnds, Is, TargetInv, TypeOK
    <2> QED BY <2>1, <2>2, <2>3, <2>4
  <1>6. CASE StopUsers
    BY <1>6 DEF StopUsers, Is, TypeOK, TableHasLive,
       UntrackedOnlyByNamesake, SrcInv, TargetInv, StartInv, Quiet
  <1>7. CASE Probe
    <2> USE <1>7 DEF Probe, SshEnds, Is
    <2>1. TypeOK' BY DEF TypeOK
    <2>2. StartInv' BY DEF TypeOK, StartInv, Quiet, AllServices
    <2>3. (TableHasLive /\ UntrackedOnlyByNamesake /\ SrcInv /\ TargetInv)'
      BY DEF TypeOK, TableHasLive, UntrackedOnlyByNamesake, SrcInv, TargetInv
    <2> QED BY ZenonT(60), <2>1, <2>2, <2>3
  <1>8. CASE Redial \/ Tick \/ KeepaliveEnds
    <2> USE <1>8 DEF Redial, Tick, KeepaliveEnds, connVars, Is
    <2>1. TypeOK' BY DEF TypeOK
    <2>2. StartInv' BY DEF TypeOK, StartInv, Quiet, AllServices
    <2>3. (TableHasLive /\ UntrackedOnlyByNamesake /\ SrcInv /\ TargetInv)'
      BY DEF TypeOK, TableHasLive, UntrackedOnlyByNamesake, SrcInv, TargetInv
    <2> QED BY ZenonT(60), <2>1, <2>2, <2>3
  <1> QED
    BY <1>1, <1>2, <1>3, <1>4, <1>5, <1>6, <1>7, <1>8 DEF Start, Stop, Keepalive

(* Every step of a handler, a user or a target preserves it. *)
LEMMA ConnStep ==
    ASSUME NEW c \in Conns, Inv,
           Handle(c) \/ Hangup(c) \/ TargetEnds(c) \/ \E a \in Srcs : Accept(c, a)
    PROVE  Inv'
  <1> USE UserConnsAssumption DEF Inv, Is
  <1>1. CASE \E a \in Srcs : Accept(c, a)
    BY <1>1 DEF Accept, startVars, TypeOK, TableHasLive, UntrackedOnlyByNamesake,
       SrcInv, TargetInv, StartInv, Quiet
  <1>2. CASE Request(c)
    <2>1. Routes \subseteq {"direct", "lb", "ssh"} \/ ~(Is("http") \/ Is("socks"))
      BY ZenonT(60) DEF Routes, TypeOK, AllServices
    <2>2. \/ Drop(c) /\ UNCHANGED out
          \/ \E r \in {"direct", "lb", "ssh", "fixed"} : Route(c, r)
      BY <1>2, <2>1 DEF Request, HttpRequest, SocksRequest, SpsRequest, TcpRequest
    <2> QED
      BY <1>2, <2>2 DEF Request, Drop, Route, startVars, TypeOK, TableHasLive,
         UntrackedOnlyByNamesake, SrcInv, TargetInv, StartInv, Quiet
  <1>3. CASE Dial(c)
    <2>1. (Drop(c) /\ UNCHANGED out) \/ Dialled(c) \/ (tries[c] < MaxRetries /\ Backoff(c) /\ UNCHANGED out)
      BY ZenonT(60), <1>3 DEF Dial, HttpDial, SocksDial, SpsDial, TcpDial, HttpDialParent, SocksDialParent,
         DialFails, HttpRetry, SocksRetry
    <2>2. CASE Drop(c) /\ UNCHANGED out
      BY <1>3, <2>2 DEF Dial, Drop, startVars, TypeOK, TableHasLive,
         UntrackedOnlyByNamesake, SrcInv, TargetInv, StartInv, Quiet
    <2>3. CASE Dialled(c)
      BY <1>3, <2>3, SMTT(30) DEF Dial, Dialled, AfterDial, startVars, TypeOK, TableHasLive,
         UntrackedOnlyByNamesake, SrcInv, TargetInv, StartInv, Quiet
    <2>4. CASE tries[c] < MaxRetries /\ Backoff(c) /\ UNCHANGED out
      BY <1>3, <2>4 DEF Dial, Backoff, startVars, TypeOK, TableHasLive,
         UntrackedOnlyByNamesake, SrcInv, TargetInv, StartInv, Quiet
    <2> QED BY <2>1, <2>2, <2>3, <2>4
  <1>11. CASE Greet(c)
    <2> DEFINE Ends == out' = [out EXCEPT ![c] = "closed"]
    <2>1. \/ pc' = [pc EXCEPT ![c] = AfterDial] /\ UNCHANGED <<src, in, out, via, tries, users>>
          \/ Drop(c) /\ Ends
          \/ tries[c] < MaxRetries /\ Backoff(c) /\ Ends
      BY ZenonT(60), <1>11 DEF Greet, DialFails, HttpRetry, SocksRetry
    <2>2. CASE pc' = [pc EXCEPT ![c] = AfterDial] /\ UNCHANGED <<src, in, out, via, tries, users>>
      BY <1>11, <2>2 DEF Greet, AfterDial, startVars, TypeOK, TableHasLive,
         UntrackedOnlyByNamesake, SrcInv, TargetInv, StartInv, Quiet
    <2>3. CASE Drop(c) /\ Ends
      BY <1>11, <2>3 DEF Greet, Drop, startVars, TypeOK, TableHasLive,
         UntrackedOnlyByNamesake, SrcInv, TargetInv, StartInv, Quiet
    <2>4. CASE tries[c] < MaxRetries /\ Backoff(c) /\ Ends
      BY <1>11, <2>4 DEF Greet, Backoff, startVars, TypeOK, TableHasLive,
         UntrackedOnlyByNamesake, SrcInv, TargetInv, StartInv, Quiet
    <2> QED BY ZenonT(60), <2>1, <2>2, <2>3, <2>4
  <1>4. CASE Wake(c)
    BY <1>4 DEF Wake, startVars, TypeOK, TableHasLive, UntrackedOnlyByNamesake,
       SrcInv, TargetInv, StartInv, Quiet
  <1>5. CASE Ask(c)
    <2>1. CASE Answered(c)
      BY <1>5, <2>1 DEF Ask, Answered, startVars, TypeOK, TableHasLive,
         UntrackedOnlyByNamesake, SrcInv, TargetInv, StartInv, Quiet
    <2>2. CASE Drop(c) /\ out' = Shut(out, c)
      BY <1>5, <2>2 DEF Ask, Drop, Shut, startVars, TypeOK, TableHasLive,
         UntrackedOnlyByNamesake, SrcInv, TargetInv, StartInv, Quiet
    <2>3. CASE Drop(c) /\ UNCHANGED out /\ ~Is("socks") /\ ~Is("tcp")
      BY <1>5, <2>3 DEF Ask, Drop, startVars, TypeOK, TableHasLive,
         UntrackedOnlyByNamesake, SrcInv, TargetInv, StartInv, Quiet
    <2> QED
      BY ZenonT(60), <1>5, <2>1, <2>2, <2>3 DEF Ask, HttpAsk, SocksAsk, SpsAsk
  <1>6. CASE Register(c)
    <2>1. TypeOK' /\ StartInv' /\ SrcInv' /\ TargetInv'
      BY <1>6 DEF Register, startVars, TypeOK, SrcInv, TargetInv, StartInv, Quiet
    <2>2. TableHasLive'
      BY <1>6 DEF Register, TypeOK, SrcInv, TableHasLive
    <2>3. UntrackedOnlyByNamesake'
      BY <1>6 DEF Register, TypeOK, SrcInv, TableHasLive, UntrackedOnlyByNamesake
    <2> QED BY ZenonT(60), <2>1, <2>2, <2>3
  <1>7. CASE CopyEnd(c)
    BY <1>7, SMTT(30) DEF CopyEnd, startVars, TypeOK, TableHasLive, UntrackedOnlyByNamesake,
       SrcInv, TargetInv, StartInv, Quiet
  <1>8. CASE Release(c)
    <2>1. TypeOK' /\ StartInv' /\ SrcInv' /\ TargetInv'
      BY <1>8 DEF Release, Shut, startVars, TypeOK, SrcInv, TargetInv, StartInv, Quiet
    <2>2. TableHasLive'
      BY <1>8 DEF Release, TypeOK, SrcInv, TableHasLive
    <2>3. UntrackedOnlyByNamesake'
      BY SMTT(60), <1>8 DEF Release, TypeOK, SrcInv, UntrackedOnlyByNamesake
    <2> QED BY ZenonT(60), <2>1, <2>2, <2>3
  <1>9. CASE Close(c)
    BY SMTT(60), <1>9 DEF Close, startVars, TypeOK, TableHasLive, UntrackedOnlyByNamesake,
       SrcInv, TargetInv, StartInv, Quiet
  <1>10. CASE Hangup(c) \/ TargetEnds(c)
    BY <1>10 DEF Hangup, TargetEnds, startVars, TypeOK, TableHasLive,
       UntrackedOnlyByNamesake, SrcInv, TargetInv, StartInv, Quiet
  <1> QED
    BY ZenonT(60), <1>1, <1>2, <1>3, <1>4, <1>5, <1>6, <1>7, <1>8, <1>9, <1>10, <1>11 DEF Handle

(* The invariant holds in every reachable state. *)
LEMMA AlwaysInv == Spec => []Inv
  <1>1. Inv /\ [Next]_vars => Inv'
    <2>1. Inv /\ UNCHANGED vars => Inv'
      BY DEF Inv, vars, startVars, connVars, TypeOK, TableHasLive, UntrackedOnlyByNamesake,
         SrcInv, TargetInv, StartInv, Quiet, Is
    <2> QED BY ZenonT(60), <2>1, ServiceStep, ConnStep DEF Next
  <1> QED BY InitInv, <1>1, PTL DEF Spec

(* Type correctness of the proxy services. *)
THEOREM TypeCorrect == Spec => []TypeOK
  <1>1. Inv => TypeOK BY DEF Inv
  <1> QED BY AlwaysInv, <1>1, PTL

(* userConns holds connections whose handlers run, under their own         *)
(* addresses, and a working connection is missing from it only after the   *)
(* deferred Remove of another connection of its address.                   *)
THEOREM UserTable == Spec => []TableInStep
  <1>1. Inv => TableInStep BY ZenonT(60) DEF Inv, TableInStep
  <1> QED BY AlwaysInv, <1>1, PTL

(* Handlers of socks and tcp leave no target connection behind, a Start    *)
(* that failed leaves nothing running.                                     *)
THEOREM Released == Spec => []EndedHasReleased
  <1>1. Inv => EndedHasReleased
    BY DEF Inv, TargetInv, TargetIsClosed, StartInv, Quiet, FailedStartIsClean, EndedHasReleased
  <1> QED BY AlwaysInv, <1>1, PTL

-----------------------------------------------------------------------------
(***************************************************************************)
(* The domain filter that these services consult, for any tables, domains, *)
(* thresholds and overlap of probes.  FilterAssumption is the assumption   *)
(* of module Filter on its constants.                                      *)
(***************************************************************************)
CONSTANTS Domains, Proxies, Directs, SuccessThreshold, FailureThreshold, MaxCount, MaxOverlap

VARIABLES intelligent, cache, probes, up, running

F == INSTANCE Filter

(* The reference notion of a suffix agrees with the slices that Match      *)
(* looks up (hnSlice[i:] of filter.go).                                    *)
LEMMA SuffixIsSubSeq ==
    ASSUME NEW d \in Seq(STRING), NEW t \in Seq(STRING), t # <<>>
    PROVE  F!EndsWith(d, t) <=> \E i \in 1..Len(d) : SubSeq(d, i, Len(d)) = t
<1> DEFINE n == Len(d)
           k == Len(t)
<1>1. /\ n \in Nat /\ k \in Nat \ {0}
      /\ \A i \in 1..n : d[i] \in STRING
      /\ t = [i \in 1..k |-> t[i]]
  BY LenProperties, EmptySeq, ElementOfSeq
<1>2. F!EndsWith(d, t) <=> k <= n /\ \A j \in 1..k : t[k - j + 1] = d[n - j + 1]
  BY DEF F!EndsWith
<1>3. ASSUME NEW i \in 1..n
      PROVE  SubSeq(d, i, n) = t <=> k = n - i + 1 /\ \A j \in 1..k : d[i + j - 1] = t[j]
  <2>1. \A j \in i..n : d[j] \in STRING
    BY <1>1
  <2>2. /\ SubSeq(d, i, n) \in Seq(STRING)
        /\ Len(SubSeq(d, i, n)) = n - i + 1
        /\ \A j \in 1..(n - i + 1) : SubSeq(d, i, n)[j] = d[i + j - 1]
    BY <1>1, <2>1, SubSeqProperties
  <2> QED
    BY ZenonT(60), <1>1, <2>2, SeqEqual
<1>4. ASSUME k <= n, \A j \in 1..k : t[k - j + 1] = d[n - j + 1]
      PROVE  \E i \in 1..n : SubSeq(d, i, n) = t
  <2>1. n - k + 1 \in 1..n
    BY <1>1, <1>4
  <2>2. \A j \in 1..k : d[(n - k + 1) + j - 1] = t[j]
    <3> TAKE j \in 1..k
    <3>1. k - j + 1 \in 1..k /\ k - (k - j + 1) + 1 = j /\ n - (k - j + 1) + 1 = (n - k + 1) + j - 1
      BY SMTT(60), <1>1
    <3> QED
      BY <1>4, <3>1
  <2>3. k = n - (n - k + 1) + 1
    BY <1>1
  <2>4. SubSeq(d, n - k + 1, n) = t
    BY <1>3, <2>1, <2>2, <2>3
  <2> QED
    BY ZenonT(60), <2>1, <2>4
<1>5. ASSUME NEW i \in 1..n, SubSeq(d, i, n) = t
      PROVE  k <= n /\ \A j \in 1..k : t[k - j + 1] = d[n - j + 1]
  <2>1. k = n - i + 1 /\ \A j \in 1..k : d[i + j - 1] = t[j]
    BY <1>3, <1>5
  <2>2. k = n - i + 1
    BY <2>1
  <2>3. \A j \in 1..k : k - j + 1 \in 1..k /\ i + (k - j + 1) - 1 = n - j + 1
    BY <1>1, <2>2
  <2>4. \A j \in 1..k : t[k - j + 1] = d[n - j + 1]
    BY <2>1, <2>3
  <2> QED
    BY <1>1, <2>2, <2>4
<1> QED
  BY <1>2, <1>4, <1>5

(* Match finds exactly the domains under an entry of the table.            *)
LEMMA MatchIsUnder ==
    ASSUME F!FilterAssumption, NEW d \in Domains, NEW table \in {Proxies, Directs}
    PROVE  F!Match(d, table) <=> F!Under(d, table)
<1>1. d \in Seq(STRING) /\ \A t \in table : t \in Seq(STRING) /\ t # <<>>
  BY DEF F!FilterAssumption
<1>2. \A t \in table : F!EndsWith(d, t) <=> \E i \in 1..Len(d) : SubSeq(d, i, Len(d)) = t
  BY <1>1, SuffixIsSubSeq
<1> QED
  BY ZenonT(60), <1>2 DEF F!Match, F!Under

(* What is cached or being probed is in no table: Add is the only way in.  *)
FilterTable ==
  \A d \in Domains :
    cache[d] # Nil \/ F!Free(d) # F!Slots => ~F!Match(d, Directs) /\ ~F!Match(d, Proxies)

(* The assumption is a conjunct, so that it is at hand in every state.     *)
FilterInv ==
    /\ F!FilterAssumption
    /\ F!TypeOK
    /\ FilterTable

(* A probe's result leaves an item within the bound of its counters.       *)
LEMMA CountedItem ==
    ASSUME F!FilterAssumption, NEW item \in F!Items, NEW ok \in BOOLEAN
    PROVE  F!Counted(item, ok) \in F!Items
<1>1. MaxCount \in Nat /\ item.succ \in 0..MaxCount /\ item.fail \in 0..MaxCount
      /\ item = [succ |-> item.succ, fail |-> item.fail, age |-> item.age]
  BY DEF F!FilterAssumption, F!Items, F!Counts
<1>2. F!Up(item, "succ", "fail") \in F!Items
  BY <1>1 DEF F!Up, F!Items, F!Counts
<1>3. F!Up(item, "fail", "succ") \in F!Items
  BY <1>1 DEF F!Up, F!Items, F!Counts
<1> QED
  BY <1>2, <1>3 DEF F!Counted, F!Items

(* So does the restart of an item that was long inactive.                  *)
LEMMA RestartedItem ==
    ASSUME F!FilterAssumption, NEW item \in F!Items
    PROVE  F!Restarted(item) \in F!Items
<1>1. 0 \in F!Counts
  BY DEF F!FilterAssumption, F!Counts
<1>2. [item EXCEPT !.succ = 0, !.fail = 0] \in F!Items
  BY ZenonT(60), <1>1 DEF F!Items
<1> QED
  BY <1>2 DEF F!Restarted

(* Nothing is in the cache at the start. *)
LEMMA FilterInit == F!FilterAssumption /\ F!Init => FilterInv
<1> SUFFICES ASSUME F!FilterAssumption, F!Init
             PROVE  FilterInv
  OBVIOUS
<1>1. F!TypeOK
  BY DEF F!Init, F!TypeOK
<1>2. \A d \in Domains : cache[d] = Nil /\ F!Free(d) = F!Slots
  BY DEF F!Init, F!Free
<1> QED
  BY <1>1, <1>2 DEF FilterInv, FilterTable

(* Every step keeps the invariant. *)
LEMMA FilterStep == FilterInv /\ [F!Next]_F!vars => FilterInv'
<1> SUFFICES ASSUME FilterInv, [F!Next]_F!vars
             PROVE  FilterInv'
  OBVIOUS
<1>0. F!FilterAssumption /\ F!TypeOK /\ FilterTable /\ Nil \notin F!Items
  BY DEF FilterInv, F!FilterAssumption
<1>1. ASSUME NEW d \in Domains, F!Add(d)
      PROVE  FilterInv'
  <2>1. F!NewItem \in F!Items
    BY <1>0 DEF F!FilterAssumption, F!NewItem, F!Items, F!Counts
  <2>2. F!TypeOK'
    BY ZenonT(60), <1>0, <1>1, <2>1 DEF F!Add, F!TypeOK
  <2>3. FilterTable'
    BY ZenonT(60), <1>0, <1>1 DEF F!Add, F!TypeOK, FilterTable, F!Free
  <2> QED
    BY ZenonT(60), <1>0, <2>2, <2>3 DEF FilterInv
<1>2. ASSUME NEW d \in Domains, F!Age(d)
      PROVE  FilterInv'
  <2>1. PICK a \in {"edge", "old"} : cache' = [cache EXCEPT ![d].age = a]
    BY ZenonT(60), <1>2 DEF F!Age
  <2>2. cache[d] \in F!Items /\ UNCHANGED <<intelligent, probes, up, running>>
    BY <1>0, <1>2 DEF F!Age, F!TypeOK
  <2>3. [cache[d] EXCEPT !.age = a] \in F!Items
    BY <2>2 DEF F!Items
  <2>4. F!TypeOK'
    BY <1>0, <2>1, <2>2, <2>3 DEF F!TypeOK
  <2>5. FilterTable'
    BY ZenonT(60), <1>0, <2>1, <2>2 DEF F!TypeOK, FilterTable, F!Free
  <2> QED
    BY <1>0, <2>4, <2>5 DEF FilterInv
<1>3. ASSUME NEW d \in Domains, F!Turn(d)
      PROVE  FilterInv'
  <2>1. F!TypeOK'
    BY <1>0, <1>3 DEF F!Turn, F!TypeOK
  <2> QED
    BY ZenonT(60), <1>0, <1>3, <2>1 DEF F!Turn, FilterInv, FilterTable, F!Free
<1>4. ASSUME NEW d \in Domains, NEW i \in F!Slots, F!Probe(d, i)
      PROVE  FilterInv'
  <2>1. probes[d][i] \in F!Items /\ up[d] \in BOOLEAN
    BY <1>0, <1>4 DEF F!Probe, F!TypeOK
  <2>2. F!Counted(probes[d][i], up[d]) \in F!Items
    BY ZenonT(60), <1>0, <2>1, CountedItem
  <2>3. F!TypeOK'
    BY <1>0, <1>4, <2>2 DEF F!Probe, F!TypeOK
  <2>4. F!Free(d) # F!Slots
    BY ZenonT(60), <1>4 DEF F!Probe, F!Free
  <2>5. \A e \in Domains \ {d} : cache'[e] = cache[e] /\ F!Free(e)' = F!Free(e)
    BY ZenonT(60), <1>0, <1>4 DEF F!Probe, F!TypeOK, F!Free
  <2>6. FilterTable'
    BY ZenonT(60), <1>0, <2>4, <2>5 DEF FilterTable, F!Match
  <2> QED
    BY ZenonT(60), <1>0, <2>3, <2>6 DEF FilterInv
<1>5. CASE F!Tick
  <2>1. \A d \in Domains : d \in F!Needy => cache[d] # Nil /\ F!Restarted(cache[d]) \in F!Items
    BY ZenonT(60), <1>0, RestartedItem DEF F!Needy, F!TypeOK
  <2>2. F!TypeOK'
    <3>1. ASSUME NEW d \in Domains
          PROVE  probes'[d] \in [F!Slots -> F!Items \cup {Nil}]
      <4>1. CASE d \in F!Needy
        BY ZenonT(60), <1>0, <1>5, <2>1, <4>1 DEF F!Tick, F!TypeOK
      <4>2. CASE d \notin F!Needy
        BY ZenonT(60), <1>0, <1>5, <4>2 DEF F!Tick, F!TypeOK
      <4> QED
        BY <4>1, <4>2
    <3> QED
      BY <1>0, <1>5, <3>1 DEF F!Tick, F!TypeOK
  <2>3. \A d \in Domains : d \notin F!Needy => F!Free(d)' = F!Free(d)
    BY ZenonT(60), <1>5 DEF F!Tick, F!Free
  <2>4. FilterTable'
    BY <1>0, <1>5, <2>1, <2>3 DEF F!Tick, FilterTable, F!Match
  <2> QED
    BY ZenonT(60), <1>0, <2>2, <2>4 DEF FilterInv
<1>6. CASE F!Close
  BY ZenonT(60), <1>0, <1>6 DEF F!Close, FilterInv, F!TypeOK, FilterTable, F!Free
<1>7. CASE UNCHANGED F!vars
  BY <1>0, <1>7 DEF F!vars, FilterInv, F!TypeOK, FilterTable, F!Free
<1> QED
  BY ZenonT(60), <1>1, <1>2, <1>3, <1>4, <1>5, <1>6, <1>7 DEF F!Next

(* The invariant holds throughout. *)
LEMMA FilterAlways == F!FilterAssumption /\ F!Spec => []FilterInv
BY FilterInit, FilterStep, PTL DEF F!Spec

(* The variables of the filter keep their types: the counters stay within  *)
(* their bound and a probe works on an item (filter.go, run).              *)
THEOREM FilterTypes == F!FilterAssumption /\ F!Spec => []F!TypeOK
<1>1. FilterInv => F!TypeOK
  BY DEF FilterInv
<1> QED
  BY <1>1, FilterAlways, PTL

(* For any tables and any domains: a domain under an entry of the proxy    *)
(* file is always asked of the parents, one under an entry of the direct   *)
(* file only never is, and neither is cached or probed (Match, IsProxy,    *)
(* Add of filter.go).                                                      *)
THEOREM FilterLists == F!FilterAssumption /\ F!Spec => []F!ListsDecide
<1>1. FilterInv => F!ListsDecide
  <2> SUFFICES ASSUME FilterInv, NEW d \in Domains, F!Under(d, Proxies) \/ F!Under(d, Directs)
               PROVE  F!IsProxy(d) = F!Under(d, Proxies) /\ cache[d] = Nil
    BY DEF F!ListsDecide
  <2>1. /\ F!Match(d, Proxies) <=> F!Under(d, Proxies)
        /\ F!Match(d, Directs) <=> F!Under(d, Directs)
    BY ZenonT(60), MatchIsUnder DEF FilterInv
  <2>2. cache[d] = Nil
    BY ZenonT(60), <2>1 DEF FilterInv, FilterTable
  <2>3. F!IsProxy(d) <=> F!Match(d, Proxies)
    BY ZenonT(60), <2>1 DEF F!IsProxy
  <2>4. F!IsProxy(d) \in BOOLEAN /\ F!Under(d, Proxies) \in BOOLEAN
    BY DEF F!IsProxy, F!Under
  <2> QED
    BY ZenonT(60), <2>1, <2>2, <2>3, <2>4
<1> QED
  BY <1>1, FilterAlways, PTL

(* One step: nothing but time touches a settled item that no probe holds.  *)
LEMMA VerdictStep ==
    ASSUME FilterInv, F!Next, NEW d \in Domains, F!Settled(d), F!Free(d) = F!Slots
    PROVE  /\ F!Free(d)' = F!Slots
           /\ F!Settled(d)' \/ cache'[d].age # "fresh"
           /\ intelligent = "intelligent" => ~F!IsProxy(d)'
<1>0. /\ F!FilterAssumption /\ F!TypeOK /\ FilterTable
      /\ cache[d] \in F!Items /\ Nil \notin F!Items
      /\ ~F!Match(d, Proxies)
  BY ZenonT(60) DEF FilterInv, F!FilterAssumption, F!Settled, F!TypeOK, FilterTable
<1>1. cache[d].succ > cache[d].fail /\ cache[d].succ \in Nat /\ cache[d].fail \in Nat
  BY <1>0 DEF F!Settled, F!IsNeedLivenessProde, F!Items, F!Counts, F!FilterAssumption
<1>2. intelligent' = intelligent
  BY ZenonT(60) DEF F!Next, F!Add, F!Age, F!Turn, F!Probe, F!Tick, F!Close
<1>3. /\ cache'[d] # Nil
      /\ cache'[d].succ = cache[d].succ /\ cache'[d].fail = cache[d].fail
      /\ cache'[d] = cache[d] \/ cache'[d].age # "fresh"
      /\ F!Free(d)' = F!Slots
  <2> DEFINE Goal == /\ cache'[d] # Nil
                     /\ cache'[d].succ = cache[d].succ /\ cache'[d].fail = cache[d].fail
                     /\ cache'[d] = cache[d] \/ cache'[d].age # "fresh"
                     /\ F!Free(d)' = F!Slots
  <2>1. ASSUME cache'[d] = cache[d], probes'[d] = probes[d]
        PROVE  Goal
    BY ZenonT(60), <1>0, <2>1 DEF F!Settled, F!Free
  <2>2. ASSUME NEW e \in Domains, F!Add(e)
        PROVE  Goal
    <3>1. e # d
      BY ZenonT(60), <2>2 DEF F!Add, F!Settled
    <3> QED
      BY ZenonT(60), <1>0, <2>1, <2>2, <3>1 DEF F!Add, F!TypeOK
  <2>3. ASSUME NEW e \in Domains, F!Age(e)
        PROVE  Goal
    <3>1. PICK a \in {"edge", "old"} : cache' = [cache EXCEPT ![e].age = a]
      BY ZenonT(60), <2>3 DEF F!Age
    <3>2. CASE e # d
      BY ZenonT(60), <1>0, <2>1, <2>3, <3>1, <3>2 DEF F!Age, F!TypeOK
    <3>3. CASE e = d
      <4>1. cache'[d] = [cache[d] EXCEPT !.age = a] /\ probes' = probes
        BY <1>0, <2>3, <3>1, <3>3 DEF F!Age, F!TypeOK
      <4>2. cache'[d] \in F!Items /\ cache'[d].age = a
            /\ cache'[d].succ = cache[d].succ /\ cache'[d].fail = cache[d].fail
        BY ZenonT(60), <1>0, <4>1 DEF F!Items
      <4> QED
        BY ZenonT(60), <1>0, <4>1, <4>2 DEF F!Free
    <3> QED
      BY <3>2, <3>3
  <2>4. ASSUME NEW e \in Domains, F!Turn(e)
        PROVE  Goal
    BY ZenonT(60), <2>1, <2>4 DEF F!Turn
  <2>5. ASSUME NEW e \in Domains, NEW i \in F!Slots, F!Probe(e, i)
        PROVE  Goal
    <3>1. e # d
      BY ZenonT(60), <2>5 DEF F!Probe, F!Free
    <3> QED
      BY ZenonT(60), <1>0, <2>1, <2>5, <3>1 DEF F!Probe, F!TypeOK
  <2>6. CASE F!Tick
    <3>1. d \notin F!Needy
      BY ZenonT(60) DEF F!Needy, F!Settled
    <3> QED
      BY ZenonT(60), <2>1, <2>6, <3>1 DEF F!Tick
  <2>7. CASE F!Close
    BY ZenonT(60), <2>1, <2>7 DEF F!Close
  <2> QED
    BY ZenonT(60), <2>2, <2>3, <2>4, <2>5, <2>6, <2>7 DEF F!Next
<1>4. F!Settled(d)' \/ cache'[d].age # "fresh"
  BY ZenonT(60), <1>0, <1>3 DEF F!Settled
<1>5. intelligent = "intelligent" => ~F!IsProxy(d)'
  BY <1>0, <1>1, <1>2, <1>3 DEF F!IsProxy, F!Match
<1> QED
  BY ZenonT(60), <1>3, <1>4, <1>5

(* For any number of domains and of overlapping probes: once the           *)
(* thresholds are met and no probe is in flight, no step of the filter     *)
(* takes the verdict back before aliveThreshold has passed                 *)
(* (isNeedLivenessProde, run).                                             *)
THEOREM FilterVerdict == F!FilterAssumption /\ F!Spec => F!VerdictLasts
<1>1. FilterInv /\ [F!Next]_F!vars =>
        [\A d \in Domains :
           F!Settled(d) /\ F!Free(d) = F!Slots
              => /\ F!Free(d)' = F!Slots
                 /\ F!Settled(d)' \/ cache'[d].age # "fresh"
                 /\ intelligent = "intelligent" => ~F!IsProxy(d)']_F!vars
  BY VerdictStep
<1> QED
  BY <1>1, FilterAlways, PTL DEF F!Spec, F!VerdictLasts

-----------------------------------------------------------------------------
(***************************************************************************)
(* One upstream and its probes (module Upstream).  A change of the flag    *)
(* takes as many results in a row as its threshold says, for any           *)
(* thresholds and any number of probes, as long as probes do not overlap.  *)
(* The inductive invariant says at every step of a probe how the counters  *)
(* relate to the run of results: one is stuck at its threshold while the   *)
(* other one is the length of the run.                                     *)
(***************************************************************************)
CONSTANT Probes

VARIABLES reachable, health, successCount, failureCount, probe, closed, evidence

U == INSTANCE Upstream WITH pc <- probe

(* No probe has a result that is not yet counted.                          *)
Between == \A p \in Probes : probe[p] \in {"idle", "probe"}

(* What the counters have to do with what the probes saw while the flag    *)
(* is up: successCount is at its threshold, failureCount is the run of     *)
(* failures.                                                               *)
WhileUp ==
    /\ evidence.settled
    /\ Between => successCount = SuccessThreshold /\ failureCount = evidence.fail
                  /\ failureCount < FailureThreshold
    /\ \A p \in Probes :
        /\ probe[p] = "fail" => /\ successCount = SuccessThreshold
                                /\ evidence.fail = failureCount + 1
        /\ probe[p] \in {"resetSuccess", "unhealthy"} => evidence.fail = FailureThreshold
        /\ probe[p] = "ok" => successCount = SuccessThreshold

(* While the flag is down: failureCount is at its threshold, successCount  *)
(* is the run of successes.                                                *)
WhileDown ==
    /\ Between => failureCount = FailureThreshold /\ successCount = evidence.ok
                  /\ successCount < SuccessThreshold
    /\ \A p \in Probes :
        /\ probe[p] = "ok" => /\ failureCount = FailureThreshold
                              /\ evidence.ok = successCount + 1
        /\ probe[p] \in {"resetFailure", "healthy"} => evidence.ok = SuccessThreshold
        /\ probe[p] = "fail" => failureCount = FailureThreshold

(* Before the flag was first written: no threshold was met.                *)
Unsettled ==
    /\ ~health
    /\ Between => failureCount < FailureThreshold /\ successCount < SuccessThreshold
    /\ \A p \in Probes : /\ probe[p] = "fail" => successCount < SuccessThreshold
                         /\ probe[p] = "ok" => failureCount < FailureThreshold

(* What a probe has done so far, whatever the flag is.                     *)
Progress ==
    \A p \in Probes :
        /\ probe[p] = "fail" => evidence.ok = 0
        /\ probe[p] = "resetSuccess" => evidence.ok = 0 /\ failureCount = FailureThreshold
        /\ probe[p] = "unhealthy" => /\ evidence.ok = 0 /\ failureCount = FailureThreshold
                                     /\ successCount = 0
        /\ probe[p] = "ok" => evidence.fail = 0
        /\ probe[p] = "resetFailure" => evidence.fail = 0 /\ successCount = SuccessThreshold
        /\ probe[p] = "healthy" => /\ evidence.fail = 0 /\ successCount = SuccessThreshold
                                   /\ failureCount = 0

(* Probes do not overlap.                                                 *)
OneProbe == \A p, q \in Probes : probe[p] # "idle" /\ probe[q] # "idle" => p = q

(* The counters follow the runs as long as probes did not overlap.         *)
RunInv ==
    evidence.serial =>
        /\ OneProbe
        /\ Progress
        /\ health => WhileUp
        /\ ~health /\ evidence.settled => WhileDown
        /\ ~evidence.settled => Unsettled

(* The inductive invariant of Upstream.                                    *)
UpstreamInv ==
    /\ U!ThresholdAssumption
    /\ U!TypeOK
    /\ RunInv

(* Nothing was counted or seen at the start.                               *)
LEMMA UpstreamInit == U!ThresholdAssumption /\ U!Init => UpstreamInv
<1> SUFFICES ASSUME U!ThresholdAssumption, U!Init
             PROVE  UpstreamInv
  OBVIOUS
<1>1. U!TypeOK
  <2>1. 0 \in 0..SuccessThreshold /\ 0 \in 0..FailureThreshold
    BY DEF U!ThresholdAssumption
  <2> QED
    BY ZenonT(60), <2>1 DEF U!Init, U!TypeOK
<1>2. RunInv
  BY DEF U!Init, U!ThresholdAssumption, RunInv, OneProbe, Progress, Unsettled
<1> QED
  BY ZenonT(60), <1>1, <1>2 DEF UpstreamInv

(* Every step keeps the types.                                             *)
LEMMA UpstreamTypesStep == U!ThresholdAssumption /\ U!TypeOK /\ [U!Next]_U!vars => U!TypeOK'
<1> SUFFICES ASSUME U!ThresholdAssumption, U!TypeOK, [U!Next]_U!vars
             PROVE  U!TypeOK'
  OBVIOUS
<1> USE DEF U!TypeOK, U!Goto
<1>1. CASE U!Change
  BY <1>1 DEF U!Change
<1>2. ASSUME NEW p \in Probes, U!Tick(p)
      PROVE  U!TypeOK'
  BY <1>2 DEF U!Tick
<1>3. ASSUME NEW p \in Probes, U!Probe(p)
      PROVE  U!TypeOK'
  <2>1. /\ U!UpTo(SuccessThreshold, evidence.ok + 1) \in 0..SuccessThreshold
        /\ U!UpTo(FailureThreshold, evidence.fail + 1) \in 0..FailureThreshold
        /\ 0 \in 0..SuccessThreshold /\ 0 \in 0..FailureThreshold
    BY DEF U!UpTo, U!ThresholdAssumption
  <2> QED
    BY ZenonT(60), <1>3, <2>1 DEF U!Probe
<1>4. ASSUME NEW p \in Probes, U!CountFailure(p)
      PROVE  U!TypeOK'
  <2>1. U!UpTo(FailureThreshold, failureCount + 1) \in 0..FailureThreshold
    BY DEF U!UpTo, U!ThresholdAssumption
  <2> QED
    BY ZenonT(60), <1>4, <2>1 DEF U!CountFailure
<1>5. ASSUME NEW p \in Probes, U!ResetSuccess(p) \/ U!ResetFailure(p)
      PROVE  U!TypeOK'
  BY <1>5 DEF U!ResetSuccess, U!ResetFailure, U!ThresholdAssumption
<1>6. ASSUME NEW p \in Probes, U!Unhealthy(p) \/ U!Healthy(p)
      PROVE  U!TypeOK'
  BY ZenonT(60), <1>6 DEF U!Unhealthy, U!Healthy
<1>7. ASSUME NEW p \in Probes, U!CountSuccess(p)
      PROVE  U!TypeOK'
  <2>1. U!UpTo(SuccessThreshold, successCount + 1) \in 0..SuccessThreshold
    BY DEF U!UpTo, U!ThresholdAssumption
  <2> QED
    BY ZenonT(60), <1>7, <2>1 DEF U!CountSuccess
<1>8. CASE U!Close
  BY <1>8 DEF U!Close
<1>9. CASE UNCHANGED U!vars
  BY ZenonT(60), <1>9 DEF U!vars
<1> QED
  BY ZenonT(60), <1>1, <1>2, <1>3, <1>4, <1>5, <1>6, <1>7, <1>8, <1>9 DEF U!Next, U!Check

(* Every step keeps the counters at the runs the probes saw.               *)
LEMMA UpstreamRunStep == UpstreamInv /\ [U!Next]_U!vars => RunInv'
<1> SUFFICES ASSUME UpstreamInv, [U!Next]_U!vars, evidence'.serial
             PROVE  /\ OneProbe'
                    /\ Progress'
                    /\ health' => WhileUp'
                    /\ ~health' /\ evidence'.settled => WhileDown'
                    /\ ~evidence'.settled => Unsettled'
  BY DEF RunInv
<1> DEFINE Goal == /\ OneProbe'
                   /\ Progress'
                   /\ health' => WhileUp'
                   /\ ~health' /\ evidence'.settled => WhileDown'
                   /\ ~evidence'.settled => Unsettled'
<1>0. U!ThresholdAssumption /\ U!TypeOK /\ RunInv
  BY ZenonT(60) DEF UpstreamInv
<1>1. CASE UNCHANGED <<health, successCount, failureCount, probe, evidence>>
  BY ZenonT(60), <1>0, <1>1 DEF RunInv, OneProbe, Progress, WhileUp, WhileDown, Unsettled, Between
<1>2. ASSUME NEW p \in Probes, U!Tick(p)
      PROVE  Goal
  <2>1. /\ evidence.serial /\ evidence'.ok = evidence.ok /\ evidence'.fail = evidence.fail
        /\ evidence'.settled = evidence.settled
        /\ UNCHANGED <<health, successCount, failureCount>>
    BY <1>0, <1>2 DEF U!Tick, U!TypeOK
  <2>2. /\ \A q \in Probes : probe[q] = "idle"
        /\ \A q \in Probes : probe'[q] = IF q = p THEN "probe" ELSE "idle"
    BY ZenonT(60), <1>0, <1>2 DEF U!Tick, U!Goto, U!TypeOK
  <2> QED
    BY ZenonT(60), <1>0, <2>1, <2>2 DEF RunInv, OneProbe, Progress, WhileUp, WhileDown, Unsettled, Between
<1>3. ASSUME NEW p \in Probes, U!Check(p)
      PROVE  Goal
  <2>1. /\ evidence.serial /\ probe[p] # "idle"
        /\ \E l : probe' = [probe EXCEPT ![p] = l]
    BY ZenonT(60), <1>0, <1>3 DEF U!Check, U!Goto, U!TypeOK, U!Probe, U!CountFailure, U!ResetSuccess,
       U!Unhealthy, U!CountSuccess, U!ResetFailure, U!Healthy
  <2>2. /\ OneProbe
        /\ Progress
        /\ health => WhileUp
        /\ ~health /\ evidence.settled => WhileDown
        /\ ~evidence.settled => Unsettled
    BY ONLY ZenonT(60), <1>0, <2>1 DEF RunInv
  <2>0. /\ SuccessThreshold \in Nat \ {0} /\ FailureThreshold \in Nat \ {0}
        /\ successCount \in 0..SuccessThreshold /\ evidence.ok \in 0..SuccessThreshold
        /\ failureCount \in 0..FailureThreshold /\ evidence.fail \in 0..FailureThreshold
    BY ZenonT(60), <1>0 DEF U!TypeOK, U!ThresholdAssumption
  <2>3. \A q \in Probes : q # p => probe[q] = "idle" /\ probe'[q] = "idle"
    BY ZenonT(60), <1>0, <2>1, <2>2 DEF OneProbe, U!TypeOK
  <2>4. OneProbe'
    BY ZenonT(60), <2>3 DEF OneProbe
  <2>5. CASE U!Probe(p)
    <3>1. probe[p] = "probe" /\ Between
      BY ZenonT(60), <2>3, <2>5 DEF U!Probe, Between
    <3>2. CASE reachable
      <4>1. /\ probe'[p] = "ok" /\ evidence'.fail = 0
            /\ evidence'.ok = IF evidence.ok + 1 < SuccessThreshold
                              THEN evidence.ok + 1 ELSE SuccessThreshold
            /\ evidence'.settled = evidence.settled
            /\ UNCHANGED <<health, successCount, failureCount>>
        BY ZenonT(60), <1>0, <2>5, <3>2 DEF U!Probe, U!Goto, U!TypeOK, U!UpTo
      <4>2. Progress'
        BY ONLY ZenonT(60), p \in Probes, <2>0, <2>2, <2>3, <3>1, <4>1 DEF Progress
      <4>3. health' => WhileUp'
        BY ONLY ZenonT(60), p \in Probes, <2>0, <2>2, <2>3, <3>1, <4>1 DEF Progress, WhileUp, Between
      <4>4. ~health' /\ evidence'.settled => WhileDown'
        BY ONLY p \in Probes, <2>0, <2>2, <2>3, <3>1, <4>1 DEF Progress, WhileDown, Between
      <4>5. ~evidence'.settled => Unsettled'
        BY ONLY ZenonT(60), p \in Probes, <2>0, <2>2, <2>3, <3>1, <4>1 DEF Progress, Unsettled, Between
      <4> QED
        BY ONLY ZenonT(60), <2>4, <4>2, <4>3, <4>4, <4>5
    <3>3. CASE ~reachable
      <4>1. /\ probe'[p] = "fail" /\ evidence'.ok = 0
            /\ evidence'.fail = IF evidence.fail + 1 < FailureThreshold
                                THEN evidence.fail + 1 ELSE FailureThreshold
            /\ evidence'.settled = evidence.settled
            /\ UNCHANGED <<health, successCount, failureCount>>
        BY ZenonT(60), <1>0, <2>5, <3>3 DEF U!Probe, U!Goto, U!TypeOK, U!UpTo
      <4>2. Progress'
        BY ONLY ZenonT(60), p \in Probes, <2>0, <2>2, <2>3, <3>1, <4>1 DEF Progress
      <4>3. health' => WhileUp'
        BY ONLY p \in Probes, <2>0, <2>2, <2>3, <3>1, <4>1 DEF Progress, WhileUp, Between
      <4>4. ~health' /\ evidence'.settled => WhileDown'
        BY ONLY ZenonT(60), p \in Probes, <2>0, <2>2, <2>3, <3>1, <4>1 DEF Progress, WhileDown, Between
      <4>5. ~evidence'.settled => Unsettled'
        BY ONLY ZenonT(60), p \in Probes, <2>0, <2>2, <2>3, <3>1, <4>1 DEF Progress, Unsettled, Between
      <4> QED
        BY ONLY <2>4, <4>2, <4>3, <4>4, <4>5
    <3> QED
      BY <3>2, <3>3
  <2>6. CASE U!CountFailure(p)
    <3>1. /\ probe[p] = "fail"
          /\ failureCount' = IF failureCount + 1 < FailureThreshold
                             THEN failureCount + 1 ELSE FailureThreshold
          /\ probe'[p] = IF failureCount + 1 >= FailureThreshold THEN "resetSuccess" ELSE "idle"
          /\ UNCHANGED <<health, successCount, evidence>>
      BY ZenonT(60), <1>0, <2>6 DEF U!CountFailure, U!Goto, U!TypeOK, U!UpTo
    <3>2. Progress'
      BY ONLY p \in Probes, <2>0, <2>2, <2>3, <3>1 DEF Progress
    <3>3. health' => WhileUp'
      BY ONLY p \in Probes, <2>0, <2>2, <2>3, <3>1 DEF Progress, WhileUp, Between
    <3>4. ~health' /\ evidence'.settled => WhileDown'
      BY ONLY p \in Probes, <2>0, <2>2, <2>3, <3>1 DEF Progress, WhileDown, Between
    <3>5. ~evidence'.settled => Unsettled'
      BY ONLY p \in Probes, <2>0, <2>2, <2>3, <3>1 DEF Progress, Unsettled, Between
    <3> QED
      BY ONLY <2>4, <3>2, <3>3, <3>4, <3>5
  <2>7. CASE U!ResetSuccess(p)
    <3>1. /\ probe[p] = "resetSuccess" /\ probe'[p] = "unhealthy"
          /\ successCount' = 0
          /\ UNCHANGED <<health, failureCount, evidence>>
      BY ZenonT(60), <1>0, <2>7 DEF U!ResetSuccess, U!Goto, U!TypeOK
    <3> QED
      BY ONLY ZenonT(60), p \in Probes, <2>0, <2>2, <2>3, <2>4, <3>1
      DEF Progress, WhileUp, WhileDown, Unsettled, Between
  <2>8. CASE U!Unhealthy(p)
    <3>1. /\ probe[p] = "unhealthy" /\ probe'[p] = "idle"
          /\ ~health' /\ evidence'.settled
          /\ evidence'.ok = evidence.ok /\ evidence'.fail = evidence.fail
          /\ UNCHANGED <<successCount, failureCount>>
      BY ZenonT(60), <1>0, <2>8 DEF U!Unhealthy, U!Goto, U!TypeOK
    <3>2. Progress'
      BY ONLY ZenonT(60), p \in Probes, <2>0, <2>2, <2>3, <3>1 DEF Progress
    <3>3. health' => WhileUp'
      BY ONLY ZenonT(60), p \in Probes, <2>0, <2>2, <2>3, <3>1 DEF Progress, WhileUp, Between
    <3>4. ~health' /\ evidence'.settled => WhileDown'
      BY ONLY p \in Probes, <2>0, <2>2, <2>3, <3>1 DEF Progress, WhileDown, Between
    <3>5. ~evidence'.settled => Unsettled'
      BY ONLY ZenonT(60), p \in Probes, <2>0, <2>2, <2>3, <3>1 DEF Progress, Unsettled, Between
    <3> QED
      BY ONLY <2>4, <3>2, <3>3, <3>4, <3>5
  <2>9. CASE U!CountSuccess(p)
    <3>1. /\ probe[p] = "ok"
          /\ successCount' = IF successCount + 1 < SuccessThreshold
                             THEN successCount + 1 ELSE SuccessThreshold
          /\ probe'[p] = IF successCount + 1 >= SuccessThreshold THEN "resetFailure" ELSE "idle"
          /\ UNCHANGED <<health, failureCount, evidence>>
      BY ZenonT(60), <1>0, <2>9 DEF U!CountSuccess, U!Goto, U!TypeOK, U!UpTo
    <3>2. Progress'
      BY ONLY p \in Probes, <2>0, <2>2, <2>3, <3>1 DEF Progress
    <3>3. health' => WhileUp'
      BY ONLY p \in Probes, <2>0, <2>2, <2>3, <3>1 DEF Progress, WhileUp, Between
    <3>4. ~health' /\ evidence'.settled => WhileDown'
      BY ONLY p \in Probes, <2>0, <2>2, <2>3, <3>1 DEF Progress, WhileDown, Between
    <3>5. ~evidence'.settled => Unsettled'
      BY ONLY p \in Probes, <2>0, <2>2, <2>3, <3>1 DEF Progress, Unsettled, Between
    <3> QED
      BY ONLY <2>4, <3>2, <3>3, <3>4, <3>5
  <2>10. CASE U!ResetFailure(p)
    <3>1. /\ probe[p] = "resetFailure" /\ probe'[p] = "healthy"
          /\ failureCount' = 0
          /\ UNCHANGED <<health, successCount, evidence>>
      BY ZenonT(60), <1>0, <2>10 DEF U!ResetFailure, U!Goto, U!TypeOK
    <3> QED
      BY ONLY ZenonT(60), p \in Probes, <2>0, <2>2, <2>3, <2>4, <3>1
      DEF Progress, WhileUp, WhileDown, Unsettled, Between
  <2>11. CASE U!Healthy(p)
    <3>1. /\ probe[p] = "healthy" /\ probe'[p] = "idle"
          /\ health' /\ evidence'.settled
          /\ evidence'.ok = evidence.ok /\ evidence'.fail = evidence.fail
          /\ UNCHANGED <<successCount, failureCount>>
      BY ZenonT(60), <1>0, <2>11 DEF U!Healthy, U!Goto, U!TypeOK
    <3>2. Progress'
      BY ONLY ZenonT(60), p \in Probes, <2>0, <2>2, <2>3, <3>1 DEF Progress
    <3>3. health' => WhileUp'
      BY ONLY p \in Probes, <2>0, <2>2, <2>3, <3>1 DEF Progress, WhileUp, Between
    <3>4. ~health' /\ evidence'.settled => WhileDown'
      BY ONLY ZenonT(60), p \in Probes, <2>0, <2>2, <2>3, <3>1 DEF Progress, WhileDown, Between
    <3>5. ~evidence'.settled => Unsettled'
      BY ONLY ZenonT(60), p \in Probes, <2>0, <2>2, <2>3, <3>1 DEF Progress, Unsettled, Between
    <3> QED
      BY ONLY <2>4, <3>2, <3>3, <3>4, <3>5
  <2> QED
    BY ZenonT(60), <1>3, <2>5, <2>6, <2>7, <2>8, <2>9, <2>10, <2>11 DEF U!Check
<1> QED
  BY ZenonT(60), <1>1, <1>2, <1>3 DEF U!Next, U!Change, U!Close, U!vars

(* The inductive invariant holds in every state.                           *)
LEMMA UpstreamAlways == U!ThresholdAssumption /\ U!Spec => []UpstreamInv
<1>1. UpstreamInv /\ [U!Next]_U!vars => UpstreamInv'
  BY UpstreamTypesStep, UpstreamRunStep DEF UpstreamInv, U!ThresholdAssumption
<1> QED
  BY <1>1, UpstreamInit, PTL DEF U!Spec

(* The counters and the flag of an upstream keep their types, however      *)
(* probes overlap (upstream.go:84-105).                                    *)
THEOREM UpstreamTypes == U!ThresholdAssumption /\ U!Spec => []U!TypeOK
<1>1. UpstreamInv => U!TypeOK
  BY DEF UpstreamInv
<1> QED
  BY <1>1, UpstreamAlways, PTL

(* For any thresholds: as long as probes do not overlap, a healthy         *)
(* upstream is given up only after FailureThreshold failures in a row, and *)
(* one given up is taken back only after SuccessThreshold successes in a   *)
(* row (upstream.go:92-104).                                               *)
THEOREM UpstreamRuns == U!ThresholdAssumption /\ U!Spec => U!RunOfResults
<1>1. UpstreamInv /\ [U!Next]_U!vars =>
        [evidence.serial =>
           /\ health /\ ~health' => evidence.fail = FailureThreshold
           /\ ~health /\ health' /\ evidence.settled => evidence.ok = SuccessThreshold]_U!vars
  <2> SUFFICES ASSUME UpstreamInv, U!Next, evidence.serial, health' # health
               PROVE  /\ health /\ ~health' => evidence.fail = FailureThreshold
                      /\ ~health /\ health' /\ evidence.settled => evidence.ok = SuccessThreshold
    BY DEF U!vars
  <2>1. PICK p \in Probes : U!Unhealthy(p) \/ U!Healthy(p)
    BY DEF U!Next, U!Change, U!Close, U!Tick, U!Check, U!Probe, U!CountFailure,
       U!ResetSuccess, U!CountSuccess, U!ResetFailure
  <2>2. CASE U!Unhealthy(p)
    BY <2>2 DEF U!Unhealthy, UpstreamInv, RunInv, WhileUp
  <2>3. CASE U!Healthy(p)
    BY <2>3 DEF U!Healthy, UpstreamInv, RunInv, WhileDown
  <2> QED
    BY ZenonT(60), <2>1, <2>2, <2>3
<1> QED
  BY <1>1, UpstreamAlways, PTL DEF U!Spec, U!RunOfResults

===============================================================================
