--------------------------- MODULE MuxBridgeProofs ---------------------------
(***************************************************************************)
(* The safety of the bridge for any number of nodes, keys, addresses and   *)
(* streams.  RoutedByKey is not inductive: the lookup finds a session with *)
(* the right key only because sessions are stored under the key they       *)
(* negotiated (FiledByKey), and the pair stays right only because a        *)
(* connection a stream refers to does not negotiate again.                 *)
(***************************************************************************)
EXTENDS MuxBridge, TLAPS

(* Client sessions are stored under their own key. *)
FiledByKey ==
    \A k \in Keys : clientSession[k] # Nil => key[clientSession[k]] = k

(* Negotiated connections have a key, servers an address, and the two      *)
(* references of a stream are set exactly while it uses them.              *)
References ==
    /\ \A c \in Conns :
        /\ phase[c] \in {"sreply", "accept", "creply", "upsert", "registered"} => key[c] # Nil
        /\ phase[c] \in {"sreply", "accept"} => addr[c] # Nil
    /\ \A t \in Streams :
        /\ pc[t] = "idle" <=> from[t] = Nil
        /\ pc[t] \in {"open", "proxy"} <=> to[t] # Nil
        /\ from[t] # Nil => phase[from[t]] \in {"accept", "idle"} /\ key[from[t]] # Nil

Inv ==
    /\ TypeOK
    /\ References
    /\ FiledByKey
    /\ ReplyFirst
    /\ RoutedByKey
    /\ NoStaleServer

(* The invariant holds when Start has returned. *)
LEMMA InitInv == Init => Inv
BY SMTT(60), BridgeAssumption
DEF Init, Inv, TypeOK, Phase, References, FiledByKey, ReplyFirst, RoutedByKey, NoStaleServer,
    Clients!MgrTypeOK, Clients!MgrInit, Clients!Empty

(* Every step of a handler preserves it. *)
LEMMA HandlerInv == ASSUME Inv, NEW c \in Conns, Connect(c) \/ Handler(c) PROVE Inv'
<1> USE BridgeAssumption
    DEF Inv, TypeOK, Phase, References, FiledByKey, ReplyFirst, RoutedByKey, NoStaleServer,
        Clients!MgrTypeOK, sweepVars, streamVars
<1>1. CASE Connect(c)
  BY <1>1 DEF Connect, Unused
<1>2. CASE NegoReject(c)
  BY <1>2 DEF NegoReject
<1>3. ASSUME NEW k \in Keys, ClientNego(c, k) PROVE Inv'
  BY SMTT(60), <1>3 DEF ClientNego
<1>4. ASSUME NEW k \in Keys, NEW a \in Addrs, ServerNego(c, k, a) PROVE Inv'
  BY SMTT(60), <1>4 DEF ServerNego, Closing
<1>5. CASE ServerReply(c)
  BY SMTT(60), <1>5 DEF ServerReply
<1>6. CASE ServerEnd(c)
  BY SMTT(60), <1>6 DEF ServerEnd
<1>7. CASE ClientReply(c)
  BY SMTT(60), <1>7 DEF ClientReply
<1>8. CASE ClientUpsert(c)
  BY SMTT(60), <1>8 DEF ClientUpsert, Closing, Clients!Set
<1> HIDE DEF Inv
<1> QED
  BY ONLY Connect(c) \/ Handler(c), <1>1, <1>2, <1>3, <1>4, <1>5, <1>6, <1>7, <1>8, ZenonT(60)
  DEF Handler

(* So does every step of proxyStream. *)
LEMMA StreamInv ==
    ASSUME Inv, NEW t \in Streams,
           (\E c \in Conns : AcceptStream(c, t)) \/ ProxyStream(t) \/ ProxyEnd(t)
    PROVE  Inv'
<1> USE BridgeAssumption
    DEF Inv, TypeOK, Phase, References, FiledByKey, ReplyFirst, RoutedByKey, NoStaleServer,
        Clients!MgrTypeOK, sweepVars, connVars
<1>1. ASSUME NEW c \in Conns, AcceptStream(c, t) PROVE Inv'
  BY SMTT(60), <1>1 DEF AcceptStream
<1>2. CASE Retry(t)
  BY SMTT(60), <1>2 DEF Retry
<1>3. CASE GiveUp(t) \/ ProxyEnd(t)
  BY SMTT(60), <1>3 DEF GiveUp, ProxyEnd, Release
<1>4. CASE Lookup(t)
  BY SMTT(60), <1>4 DEF Lookup, Again, Release
<1>5. CASE Open(t)
  BY SMTT(60), <1>5 DEF Open
<1>6. CASE OpenFail(t)
  BY SMTT(60), <1>6 DEF OpenFail, Again, Release
<1> QED
  BY ONLY ZenonT(60), (\E c \in Conns : AcceptStream(c, t)) \/ ProxyStream(t) \/ ProxyEnd(t),
     <1>1, <1>2, <1>3, <1>4, <1>5, <1>6
  DEF ProxyStream

(* The invariant says of a session only that it has a state: a step that   *)
(* changes sessions and the progress of Stop alone preserves it.           *)
LEMMA SessionsInv ==
    ASSUME Inv,
           sess' \in [Conns -> {"none", "open", "broken", "closed"}],
           stop' \in {"run", "cancelled", "deaf", "clients", "stopped"},
           UNCHANGED <<phase, key, addr, serverSession, clientSession, sweepVars, streamVars>>
    PROVE  Inv'
<1>1. TypeOK'
  BY DEF Inv, TypeOK, Clients!MgrTypeOK, sweepVars, streamVars
<1>2. References' /\ FiledByKey'
  BY SMTT(60) DEF Inv, References, FiledByKey, streamVars
<1>3. ReplyFirst' /\ RoutedByKey' /\ NoStaleServer'
  BY DEF Inv, ReplyFirst, RoutedByKey, NoStaleServer, streamVars
<1> QED
  BY <1>1, <1>2, <1>3 DEF Inv

(* A step of the sweep changes the copy and the doomed pair, and may take  *)
(* an entry out of the table: what is left in it was in it before.         *)
LEMMA SweepInv ==
    ASSUME Inv, Clients!MgrTypeOK',
           \A k \in Keys : clientSession'[k] \in {clientSession[k], Nil},
           UNCHANGED <<connVars, serverSession, streamVars, stop>>
    PROVE  Inv'
<1>1. TypeOK'
  BY SMTT(60) DEF Inv, TypeOK, connVars, streamVars
<1>2. References' /\ RoutedByKey' /\ NoStaleServer'
  BY SMTT(60) DEF Inv, References, RoutedByKey, NoStaleServer, connVars, streamVars
<1>3. FiledByKey' /\ ReplyFirst'
  BY DEF Inv, FiledByKey, ReplyFirst, connVars, streamVars
<1> QED
  BY <1>1, <1>2, <1>3 DEF Inv

(* And the sweep, smux and Stop. *)
LEMMA OtherInv ==
    ASSUME Inv, (\E c \in Conns : Break(c) \/ KeepAlive(c)) \/ Sweep \/ Stop
    PROVE  Inv'
<1>0. /\ sess \in [Conns -> {"none", "open", "broken", "closed"}]
      /\ stop \in {"run", "cancelled", "deaf", "clients", "stopped"}
      /\ Clients!MgrTypeOK
  BY DEF Inv, TypeOK
<1>1. ASSUME NEW c \in Conns, Break(c) \/ KeepAlive(c) PROVE Inv'
  BY <1>0, <1>1, SessionsInv DEF Break, KeepAlive
<1>2. CASE SweepTick
  <2>1. Clients!MgrTypeOK' /\ clientSession' = clientSession
    BY <1>0, <1>2 DEF SweepTick, Clients!Tick, Clients!MgrTypeOK
  <2> QED
    BY <1>2, <2>1, SweepInv DEF SweepTick
<1>3. ASSUME NEW k \in Keys, SweepVisit(k) PROVE Inv'
  <2>1. Clients!MgrTypeOK' /\ clientSession' = clientSession
    BY <1>0, <1>3 DEF SweepVisit, Clients!Visit, Clients!MgrTypeOK
  <2> QED
    BY <1>3, <2>1, SweepInv DEF SweepVisit
<1>4. CASE SweepDelete
  <2>1. /\ doomed[1] \in Keys
        /\ clientSession' = [clientSession EXCEPT ![doomed[1]] = Nil]
        /\ doomed' = Nil /\ scan' = scan
    BY <1>0, <1>4 DEF SweepDelete, Clients!Delete, Clients!Remove, Clients!MgrTypeOK
  <2>2. Clients!MgrTypeOK' /\ \A k \in Keys : clientSession'[k] \in {clientSession[k], Nil}
    BY <1>0, <2>1 DEF Clients!MgrTypeOK
  <2> QED
    BY <1>4, <2>2, SweepInv DEF SweepDelete
<1>5. CASE StopCancel \/ StopListen
  BY <1>0, <1>5, SessionsInv DEF StopCancel, StopListen, connVars
<1>6. ASSUME NEW table, NEW f, NEW l \in {"clients", "stopped"}, CloseAll(table, f, l)
      PROVE  Inv'
  <2>1. sess' \in [Conns -> {"none", "open", "broken", "closed"}]
    BY <1>0, <1>6 DEF CloseAll
  <2> QED
    BY <1>6, <2>1, SessionsInv DEF CloseAll
<1>7. CASE Stop
  BY <1>5, <1>6, <1>7 DEF Stop, StopClients, StopServers
<1> QED
  BY ONLY (\E c \in Conns : Break(c) \/ KeepAlive(c)) \/ Sweep \/ Stop,
     <1>1, <1>2, <1>3, <1>4, <1>7
  DEF Sweep

LEMMA StepInv == Inv /\ [Next]_vars => Inv'
<1> SUFFICES ASSUME Inv, [Next]_vars PROVE Inv'
  OBVIOUS
<1>1. CASE Next
  BY SMTT(60), <1>1, HandlerInv, StreamInv, OtherInv DEF Next
<1>2. CASE UNCHANGED vars
  BY <1>2
  DEF Inv, TypeOK, References, FiledByKey, ReplyFirst, RoutedByKey, NoStaleServer,
      Clients!MgrTypeOK, vars, connVars, sweepVars, streamVars
<1> QED
  BY <1>1, <1>2

LEMMA AlwaysInv == Spec => []Inv
BY InitInv, StepInv, PTL DEF Spec

(* For any number of nodes and streams: a stream is joined only to a       *)
(* client node that has the server node's key (bridge.go:242-267).         *)
THEOREM Routing == Spec => []RoutedByKey
<1>1. Inv => RoutedByKey
  BY DEF Inv
<1> QED
  BY <1>1, AlwaysInv, PTL

(* The tables hold usable sessions: servers whose handler runs, clients    *)
(* that were sent their reply (bridge.go:184-198, 218-225).                *)
THEOREM Tables == Spec => []TablesHoldUsable
<1>1. Inv => TablesHoldUsable
  BY DEF Inv, TablesHoldUsable
<1> QED
  BY <1>1, AlwaysInv, PTL

(* The variables of the bridge keep their types.                           *)
THEOREM TypeCorrect == Spec => []TypeOK
<1>1. Inv => TypeOK
  BY DEF Inv
<1> QED
  BY <1>1, AlwaysInv, PTL

-----------------------------------------------------------------------------
(* What the sweep holds: copies of registered sessions under their keys,   *)
(* and one whose key it is about to remove, which is closed.               *)
Swept ==
    /\ \A k \in Keys : scan[k] # Nil => phase[scan[k]] = "registered" /\ key[scan[k]] = k
    /\ doomed # Nil => /\ phase[doomed[2]] = "registered"
                       /\ key[doomed[2]] = doomed[1]
                       /\ sess[doomed[2]] = "closed"

LEMMA SweptInit == Init => Swept
BY BridgeAssumption DEF Init, Swept, Clients!MgrInit, Clients!Empty

(* A step that leaves the sweep alone, keeps registered sessions and their *)
(* keys unless their name is free, and opens no closed session of them.    *)
LEMMA SweptKept ==
    ASSUME Inv, Swept, NEW c \in Conns, UNCHANGED sweepVars,
           phase[c] = "registered" => \A k \in Keys : scan[k] # c /\ doomed # <<k, c>>,
           \A d \in Conns \ {c} :
              phase[d] = "registered" =>
                /\ phase'[d] = "registered" /\ key'[d] = key[d]
                /\ sess[d] = "closed" => sess'[d] = "closed"
    PROVE  Swept'
<1>0. scan \in [Keys -> Conns \cup {Nil}] /\ doomed \in (Keys \X Conns) \cup {Nil}
  BY DEF Inv, TypeOK, Clients!MgrTypeOK
<1>1. UNCHANGED <<scan, doomed>>
  BY DEF sweepVars
<1>2. ASSUME NEW k \in Keys, scan[k] # Nil
      PROVE  phase'[scan[k]] = "registered" /\ key'[scan[k]] = k
  <2>1. scan[k] \in Conns /\ phase[scan[k]] = "registered" /\ key[scan[k]] = k
    BY <1>0, <1>2 DEF Swept
  <2> QED
    BY <2>1
<1>3. ASSUME doomed # Nil
      PROVE  /\ phase'[doomed[2]] = "registered"
             /\ key'[doomed[2]] = doomed[1]
             /\ sess'[doomed[2]] = "closed"
  <2>1. doomed[1] \in Keys /\ doomed[2] \in Conns /\ doomed = <<doomed[1], doomed[2]>>
    BY <1>0, <1>3
  <2>2. phase[doomed[2]] = "registered" /\ key[doomed[2]] = doomed[1] /\ sess[doomed[2]] = "closed"
    BY <1>3 DEF Swept
  <2> QED
    BY <2>1, <2>2
<1> QED
  BY <1>1, <1>2, <1>3 DEF Swept

(* A step that changes sessions only, and opens none, keeps it. *)
LEMMA SweptSessions ==
    ASSUME Inv, Swept, UNCHANGED <<phase, key, sweepVars>>,
           \A d \in Conns : sess[d] = "closed" => sess'[d] = "closed"
    PROVE  Swept'
BY DEF Inv, TypeOK, Clients!MgrTypeOK, sweepVars, Swept

(* Every step keeps it. *)
LEMMA SweptStep == Inv /\ Swept /\ [Next]_vars => Swept'
<1> SUFFICES ASSUME Inv, Swept, [Next]_vars
             PROVE  Swept'
  OBVIOUS
<1>0. /\ phase \in [Conns -> Phase] /\ key \in [Conns -> Keys \cup {Nil}]
      /\ sess \in [Conns -> {"none", "open", "broken", "closed"}]
      /\ serverSession \in [Addrs -> Conns \cup {Nil}]
      /\ clientSession \in [Keys -> Conns \cup {Nil}]
      /\ scan \in [Keys -> Conns \cup {Nil}]
      /\ doomed \in (Keys \X Conns) \cup {Nil}
  BY DEF Inv, TypeOK, Clients!MgrTypeOK
<1>1. ASSUME NEW c \in Conns, Connect(c)
      PROVE  Swept'
  BY <1>0, <1>1, SweptKept DEF Connect, Unused
<1>2. ASSUME NEW c \in Conns, Handler(c)
      PROVE  Swept'
  <2>1. CASE NegoReject(c) \/ ServerReply(c) \/ ClientReply(c)
    BY <1>0, <2>1, SweptKept DEF NegoReject, ServerReply, ClientReply
  <2>2. ASSUME NEW k \in Keys, ClientNego(c, k)
        PROVE  Swept'
    BY <1>0, <2>2, SweptKept DEF ClientNego
  <2>3. ASSUME NEW k \in Keys, NEW a \in Addrs, ServerNego(c, k, a)
        PROVE  Swept'
    BY <1>0, <2>3, SweptKept DEF ServerNego, Closing
  <2>4. CASE ServerEnd(c)
    BY <1>0, <2>4, SweptKept DEF ServerEnd
  <2>5. CASE ClientUpsert(c)
    BY <1>0, <2>5, SweptKept DEF ClientUpsert, Closing
  <2> QED
    BY ONLY <1>2, <2>1, <2>2, <2>3, <2>4, <2>5, ZenonT(30) DEF Handler
<1>3. ASSUME NEW c \in Conns, Break(c) \/ KeepAlive(c)
      PROVE  Swept'
  BY <1>0, <1>3, SweptSessions DEF Break, KeepAlive
<1>4. CASE SweepTick
  BY <1>0, <1>4 DEF SweepTick, Clients!Tick, connVars, Swept, Inv, ReplyFirst, FiledByKey
<1>5. ASSUME NEW k \in Keys, SweepVisit(k)
      PROVE  Swept'
  BY <1>0, <1>5 DEF SweepVisit, Clients!Visit, connVars, Swept
<1>6. CASE SweepDelete
  BY <1>0, <1>6 DEF SweepDelete, Clients!Delete, connVars, Swept
<1>7. CASE StopCancel \/ StopListen
  BY <1>7, SweptSessions DEF StopCancel, StopListen, connVars
<1>8. ASSUME NEW table, NEW f, NEW l, CloseAll(table, f, l)
      PROVE  Swept'
  BY <1>0, <1>8, SweptSessions DEF CloseAll
<1>9. CASE UNCHANGED <<connVars, sweepVars>>
  BY <1>9 DEF connVars, sweepVars, Swept
<1>10. ASSUME NEW t \in Streams,
              (\E c \in Conns : AcceptStream(c, t)) \/ ProxyStream(t) \/ ProxyEnd(t)
       PROVE  UNCHANGED <<connVars, sweepVars>>
  BY <1>10 DEF AcceptStream, ProxyStream, ProxyEnd, Lookup, Open, OpenFail, Retry, GiveUp
<1>11. CASE UNCHANGED vars
  BY <1>9, <1>11 DEF vars
<1>12. CASE Sweep \/ Stop
  BY <1>4, <1>5, <1>6, <1>7, <1>8, <1>12 DEF Sweep, Stop, StopClients, StopServers
<1> QED
  BY ONLY [Next]_vars, <1>1, <1>2, <1>3, <1>9, <1>10, <1>11, <1>12, ZenonT(60) DEF Next

(* Only a registration and the sweep change the table of clients. *)
LEMMA TableSteps ==
    Next => \/ \E c \in Conns : ClientUpsert(c)
            \/ SweepDelete
            \/ UNCHANGED clientSession
<1>1. ASSUME NEW c \in Conns, Connect(c) \/ Handler(c) \/ Break(c) \/ KeepAlive(c)
      PROVE  ClientUpsert(c) \/ UNCHANGED clientSession
  BY <1>1 DEF Connect, Handler, NegoReject, ClientNego, ServerNego, ServerReply, ServerEnd,
     ClientReply, Break, KeepAlive
<1>2. ASSUME NEW t \in Streams,
             (\E c \in Conns : AcceptStream(c, t)) \/ ProxyStream(t) \/ ProxyEnd(t)
      PROVE  UNCHANGED clientSession
  BY <1>2 DEF AcceptStream, ProxyStream, ProxyEnd, Lookup, Open, OpenFail, Retry, GiveUp
<1>3. CASE Sweep
  BY <1>3 DEF Sweep, SweepTick, SweepVisit, Clients!Tick, Clients!Visit
<1>4. CASE Stop
  BY <1>4 DEF Stop, StopCancel, StopListen, StopClients, StopServers, CloseAll
<1> QED
  BY <1>1, <1>2, <1>3, <1>4 DEF Next

(* How a client is lost, for any number of nodes and keys: a session that  *)
(* is not closed leaves the table only by the Remove of a sweep that found *)
(* an older session of the same key closed (bridge.go:69-76, 218-225,      *)
(* manager.go:41-50).                                                      *)
THEOREM LossIsARace == Spec => LostOnlyInRace
<1> DEFINE Raced(k, c) == \E d \in Conns \ {c} : doomed = <<k, d>> /\ sess[d] = "closed" /\ key[d] = k
<1>1. Inv /\ Swept /\ [Next]_vars =>
        [\A k \in Keys, c \in Conns :
            clientSession[k] = c /\ clientSession'[k] # c /\ sess'[c] # "closed" => Raced(k, c)]_vars
  <2> SUFFICES ASSUME Inv, Swept, Next, NEW k \in Keys, NEW c \in Conns,
                      clientSession[k] = c, clientSession'[k] # c, sess'[c] # "closed"
               PROVE  Raced(k, c)
    BY DEF vars
  <2>0. /\ clientSession \in [Keys -> Conns \cup {Nil}]
        /\ doomed \in (Keys \X Conns) \cup {Nil}
        /\ sess \in [Conns -> {"none", "open", "broken", "closed"}]
        /\ Nil \notin Conns
    BY BridgeAssumption DEF Inv, TypeOK, Clients!MgrTypeOK
  <2>1. ASSUME NEW d \in Conns, ClientUpsert(d)
        PROVE  FALSE
    <3>1. key[d] = k
      BY <2>0, <2>1 DEF ClientUpsert, Clients!Set
    <3>2. sess' = [sess EXCEPT ![c] = "closed"]
      BY <2>0, <2>1, <3>1 DEF ClientUpsert, Closing
    <3> QED
      BY <2>0, <3>2
  <2>2. CASE SweepDelete
    <3>1. PICK r \in Keys, d \in Conns : doomed # Nil /\ doomed = <<r, d>>
      BY <2>0, <2>2 DEF SweepDelete, Clients!Delete
    <3>2. clientSession' = [clientSession EXCEPT ![r] = Nil] /\ sess' = sess
      BY <2>2, <3>1 DEF SweepDelete, Clients!Delete, Clients!Remove, connVars
    <3>3. r = k
      BY <2>0, <3>2
    <3>4. key[d] = k /\ sess[d] = "closed"
      BY <3>1, <3>3 DEF Swept
    <3> QED
      BY <3>1, <3>2, <3>3, <3>4
  <2>3. CASE UNCHANGED clientSession
    BY <2>3
  <2> QED
    BY <2>1, <2>2, <2>3, TableSteps
<1> QED
  BY <1>1, AlwaysInv, SweptInit, SweptStep, PTL DEF Spec, LostOnlyInRace

(* Only a registration and the end of a handler change that of servers.    *)
LEMMA ServerTableSteps ==
    Next => \/ \E c \in Conns : ServerEnd(c) \/ \E k \in Keys, a \in Addrs : ServerNego(c, k, a)
            \/ UNCHANGED serverSession
<1>1. ASSUME NEW c \in Conns, Connect(c) \/ Handler(c) \/ Break(c) \/ KeepAlive(c)
      PROVE  \/ ServerEnd(c) \/ \E k \in Keys, a \in Addrs : ServerNego(c, k, a)
             \/ UNCHANGED serverSession
  BY <1>1 DEF Connect, Handler, NegoReject, ClientNego, ServerReply,
     ClientReply, ClientUpsert, Break, KeepAlive
<1>2. ASSUME NEW t \in Streams,
             (\E c \in Conns : AcceptStream(c, t)) \/ ProxyStream(t) \/ ProxyEnd(t)
      PROVE  UNCHANGED serverSession
  BY <1>2 DEF AcceptStream, ProxyStream, ProxyEnd, Lookup, Open, OpenFail, Retry, GiveUp
<1>3. CASE Sweep
  BY <1>3 DEF Sweep, SweepTick, SweepVisit, SweepDelete
<1>4. CASE Stop
  BY <1>4 DEF Stop, StopCancel, StopListen, StopClients, StopServers, CloseAll
<1> QED
  BY <1>1, <1>2, <1>3, <1>4 DEF Next

(* How a server is lost, for any number of nodes and addresses: a session  *)
(* that is not closed leaves the table only when the handler of an older,  *)
(* failed connection of its address ends (bridge.go:184-198).              *)
THEOREM ServerLossIsANamesakes == Spec => ServerLostToNamesake
<1> DEFINE Late(a, c) == \E d \in Conns \ {c} : addr[d] = a /\ sess[d] # "open"
                                                /\ phase[d] = "accept" /\ phase'[d] = "idle"
<1>1. Inv /\ [Next]_vars =>
        [\A a \in Addrs, c \in Conns :
            serverSession[a] = c /\ serverSession'[a] # c /\ sess'[c] # "closed" => Late(a, c)]_vars
  <2> SUFFICES ASSUME Inv, Next, NEW a \in Addrs, NEW c \in Conns,
                      serverSession[a] = c, serverSession'[a] # c, sess'[c] # "closed"
               PROVE  Late(a, c)
    BY DEF vars
  <2>0. /\ serverSession \in [Addrs -> Conns \cup {Nil}]
        /\ phase \in [Conns -> Phase]
        /\ sess \in [Conns -> {"none", "open", "broken", "closed"}]
        /\ Nil \notin Conns
    BY BridgeAssumption DEF Inv, TypeOK
  <2>1. ASSUME NEW d \in Conns, ServerEnd(d)
        PROVE  Late(a, c)
    <3>1. addr[d] = a /\ sess[d] # "open" /\ phase[d] = "accept" /\ phase'[d] = "idle"
      BY <2>0, <2>1 DEF ServerEnd
    <3>2. d # c
      BY <2>0, <2>1 DEF ServerEnd
    <3> QED
      BY <3>1, <3>2
  <2>2. ASSUME NEW d \in Conns, NEW k \in Keys, NEW b \in Addrs, ServerNego(d, k, b)
        PROVE  FALSE
    <3>1. a = b
      BY <2>0, <2>2 DEF ServerNego
    <3> QED
      BY <2>0, <2>2, <3>1 DEF ServerNego, Closing
  <2> QED
    BY <2>1, <2>2, ServerTableSteps
<1> QED
  BY <1>1, AlwaysInv, PTL DEF Spec, ServerLostToNamesake

=============================================================================
