--------------------------- MODULE MuxNodesProofs ---------------------------
(***************************************************************************)
(* The two nodes of the NAT traversal service: the server node, and at the *)
(* end the client node, for any number of goroutines and sessions.         *)
(*                                                                         *)
(* The invariants of the server node for any number of handlers, sessions  *)
(* and retries, and that it implements SessionSlot.                        *)
(*                                                                         *)
(* LiveSessionIsCurrent is not inductive: OpenFail and StopClose close the *)
(* session a variable names, and NegoOk overwrites the field.  That the    *)
(* field is empty then follows from CriticalSection, that the connection   *)
(* becoming a session is not the one being closed from Ownership.          *)
(***************************************************************************)
EXTENDS MuxServer, TLAPS

Inv ==
    /\ TypeOK
    /\ CriticalSection
    /\ Ownership
    /\ LiveSessionIsCurrent
    /\ SessionIsWatched

(* The invariant holds when Start has returned. *)
LEMMA InitInv == Init => Inv
BY SMTT(60), ServerAssumption
DEF Init, Inv, TypeOK, ConnState, PcState, CriticalSection, Ownership,
    LiveSessionIsCurrent, Live, SessionIsWatched, CtxDone

(* Every step of a handler, of a watcher, of smux and of Stop preserves it. *)
LEMMA StepInv == Inv /\ [Next]_vars => Inv'
<1> SUFFICES ASSUME Inv, [Next]_vars PROVE Inv'
  OBVIOUS
<1> USE ServerAssumption
    DEF Inv, TypeOK, ConnState, PcState, CriticalSection, Ownership,
        LiveSessionIsCurrent, Live, SessionIsWatched, CtxDone
<1>1. ASSUME NEW h \in Handlers, Accept(h) PROVE Inv'
  BY <1>1 DEF Accept, Goto
<1>2. ASSUME NEW h \in Handlers, Retry(h) PROVE Inv'
  BY <1>2 DEF Retry, Goto
<1>3. ASSUME NEW h \in Handlers, GiveUp(h) PROVE Inv'
  BY <1>3 DEF GiveUp, Goto
<1>4. ASSUME NEW h \in Handlers, Lock(h) PROVE Inv'
  BY <1>4 DEF Lock, Goto
<1>5. ASSUME NEW h \in Handlers, NEW s \in Sessions, Dial(h, s) PROVE Inv'
  BY <1>5 DEF Dial, Unused, Goto
<1>6. ASSUME NEW h \in Handlers, DialFail(h) PROVE Inv'
  BY <1>6 DEF DialFail, Fail, Goto
<1>7. ASSUME NEW h \in Handlers, NEW left \in {"closed", "abandoned"}, NegoFail(h, left)
      PROVE Inv'
  BY <1>7 DEF NegoFail, Fail, Goto
<1>8. ASSUME NEW h \in Handlers, NegoOk(h) PROVE Inv'
  BY <1>8 DEF NegoOk, Goto
<1>9. ASSUME NEW h \in Handlers, OpenStream(h) PROVE Inv'
  BY <1>9 DEF OpenStream, Goto
<1>10. ASSUME NEW h \in Handlers, OpenFail(h) PROVE Inv'
  BY <1>10 DEF OpenFail, Fail, Goto
<1>11. ASSUME NEW h \in Handlers, Handshake(h) PROVE Inv'
  BY <1>11 DEF Handshake, Goto
<1>12. ASSUME NEW h \in Handlers, HandshakeFail(h) PROVE Inv'
  BY <1>12 DEF HandshakeFail, Fail, Goto
<1>13. ASSUME NEW h \in Handlers, ProxyEnd(h) PROVE Inv'
  BY <1>13 DEF ProxyEnd, Goto
<1>14. ASSUME NEW s \in Sessions, WatchTick(s) PROVE Inv'
  BY <1>14 DEF WatchTick
<1>15. ASSUME NEW s \in Sessions, WatchDone(s) PROVE Inv'
  BY <1>15 DEF WatchDone
<1>16. ASSUME NEW s \in Sessions, Break(s) PROVE Inv'
  BY <1>16 DEF Break
<1>17. ASSUME NEW s \in Sessions, KeepAlive(s) PROVE Inv'
  BY <1>17 DEF KeepAlive
<1>18. CASE Stop
  <2>1. CASE StopCancel
    BY <2>1 DEF StopCancel
  <2>2. CASE StopTest
    BY <2>2 DEF StopTest
  <2>3. CASE StopRead
    BY <2>3 DEF StopRead
  <2>4. CASE StopCrash
    BY <2>4 DEF StopCrash
  <2>5. CASE StopClose
    BY <2>5 DEF StopClose
  <2> QED
    BY <1>18, <2>1, <2>2, <2>3, <2>4, <2>5 DEF Stop
<1>19. CASE UNCHANGED vars
  BY <1>19 DEF vars
<1> QED
  BY ONLY ZenonT(60), [Next]_vars, <1>1, <1>2, <1>3, <1>4, <1>5, <1>6, <1>7, <1>8, <1>9, <1>10,
     <1>11, <1>12, <1>13, <1>14, <1>15, <1>16, <1>17, <1>18, <1>19
  DEF Next, HandleTCP, GetConn, Watcher

(* The inductive invariant always holds. *)
LEMMA AlwaysInv == Spec => []Inv
BY InitInv, StepInv, PTL DEF Spec

(* The variables of the server node keep their types; in particular no     *)
(* handler retries more often than the limit (server.go:458).              *)
THEOREM TypeCorrect == Spec => []TypeOK
<1>1. Inv => TypeOK
  BY DEF Inv
<1> QED
  BY <1>1, AlwaysInv, PTL

(* For any number of handlers and of sessions: a session that runs is the  *)
(* one in the field, whatever retries, watchers and Stop do meanwhile      *)
(* (GetConn, server.go:276-349).                                           *)
THEOREM OneSession == Spec => []LiveSessionIsCurrent
<1>1. Inv => LiveSessionIsCurrent
  BY DEF Inv
<1> QED
  BY <1>1, AlwaysInv, PTL

(* While the service runs, the session in the field has a watcher          *)
(* (server.go:324-341).                                                    *)
THEOREM Watched == Spec => []SessionIsWatched
<1>1. Inv => SessionIsWatched
  BY DEF Inv
<1> QED
  BY <1>1, AlwaysInv, PTL

(* Handlers are alone between testing the field and using it               *)
(* (server.go:277-347).                                                    *)
THEOREM MutualExclusion == Spec => [](CriticalSection /\ Ownership)
<1>1. Inv => CriticalSection /\ Ownership
  BY DEF Inv
<1> QED
  BY <1>1, AlwaysInv, PTL

-----------------------------------------------------------------------------
(* No session and no stream exists at first. *)
LEMMA SlotInit == Init => Slot!Init
BY DEF Init, Slot!Init, Live

(* Every step of the server node establishes or loses the one session,     *)
(* opens or closes one stream, or leaves sessions and streams alone.       *)
LEMMA SlotStep == Inv /\ [Next]_vars => [Slot!Next]_(Slot!vars)
<1> DEFINE L == {s \in Sessions : Live(s)}
<1> SUFFICES ASSUME Inv, [Next]_vars PROVE Slot!Next \/ UNCHANGED <<L, stream>>
  BY DEF Slot!vars
<1> USE ServerAssumption
    DEF Inv, TypeOK, ConnState, PcState, CriticalSection, Ownership,
        LiveSessionIsCurrent, Live
<1>1. ASSUME NEW h \in Handlers, Accept(h) \/ Retry(h) \/ GiveUp(h) \/ Lock(h) \/ DialFail(h) \/ Handshake(h)
      PROVE UNCHANGED <<L, stream>>
  BY <1>1 DEF Accept, Retry, GiveUp, Lock, DialFail, Handshake
<1>2. ASSUME NEW h \in Handlers, NEW s \in Sessions, Dial(h, s) PROVE UNCHANGED <<L, stream>>
  BY <1>2 DEF Dial, Unused
<1>3. ASSUME NEW h \in Handlers, NEW left \in {"closed", "abandoned"}, NegoFail(h, left)
      PROVE UNCHANGED <<L, stream>>
  BY <1>3 DEF NegoFail
<1>4. ASSUME NEW h \in Handlers, NegoOk(h) PROVE Slot!Next
  <2>1. cur[h] \in Sessions
    BY <1>4 DEF NegoOk
  <2>2. L = {} /\ L' = {cur[h]} /\ UNCHANGED stream
    BY <1>4 DEF NegoOk
  <2>3. \A u \in Handlers : stream[u] # cur[h]
    BY <1>4 DEF NegoOk
  <2> QED
    BY <2>1, <2>2, <2>3 DEF Slot!Next, Slot!Establish
<1>5. ASSUME NEW h \in Handlers, OpenStream(h) PROVE Slot!Next
  <2>1. sessions \in L /\ stream[h] = Nil
    BY <1>5 DEF OpenStream
  <2>2. UNCHANGED L /\ stream' = [stream EXCEPT ![h] = sessions]
    BY <1>5 DEF OpenStream
  <2>3. Slot!Join(h)
    BY ZenonT(60), <2>1, <2>2 DEF Slot!Join
  <2> QED
    BY <2>3 DEF Slot!Next
<1>6. ASSUME NEW h \in Handlers, OpenFail(h) PROVE Slot!Next
  BY <1>6 DEF OpenFail, Slot!Lose, Slot!Next
<1>7. ASSUME NEW h \in Handlers, HandshakeFail(h) \/ ProxyEnd(h) PROVE Slot!Next
  BY <1>7 DEF HandshakeFail, ProxyEnd, Slot!Leave, Slot!Next
<1>8. ASSUME NEW s \in Sessions, Watcher(s) \/ Break(s) PROVE UNCHANGED <<L, stream>>
  BY <1>8 DEF Watcher, WatchTick, WatchDone, Break
<1>9. ASSUME NEW s \in Sessions, KeepAlive(s) PROVE Slot!Next
  BY <1>9 DEF KeepAlive, Slot!Lose, Slot!Next
<1>10. CASE Stop
  <2>1. CASE StopClose /\ stopped # Nil /\ Live(stopped)
    BY <2>1 DEF StopClose, Slot!Lose, Slot!Next
  <2>2. CASE StopClose /\ (stopped = Nil \/ ~Live(stopped))
    BY <2>2 DEF StopClose
  <2>3. CASE StopCancel \/ StopTest \/ StopRead
    BY <2>3 DEF StopCancel, StopTest, StopRead
  <2>4. CASE StopCrash
    BY <2>4 DEF StopCrash, Slot!End, Slot!Next
  <2> QED
    BY <1>10, <2>1, <2>2, <2>3, <2>4 DEF Stop
<1>11. CASE UNCHANGED vars
  BY <1>11 DEF vars
<1> HIDE DEF L
<1> QED
  BY ONLY [Next]_vars, <1>1, <1>2, <1>3, <1>4, <1>5, <1>6, <1>7, <1>8, <1>9, <1>10, <1>11
  DEF Next, HandleTCP, GetConn

(* The server node implements SessionSlot: for any number of handlers,     *)
(* their streams share one session at a time (GetConn, server.go:276-349). *)
THEOREM Refinement == Spec => SharesOneSession
BY SlotInit, SlotStep, AlwaysInv, PTL DEF Spec, SharesOneSession, Slot!Spec

-----------------------------------------------------------------------------
(***************************************************************************)
(* The client node (module MuxClient).  StopReachesLoop needs the history  *)
(* of the race: a loop that waits for streams looked at the context after  *)
(* storing its session, so the field held the session when the context was *)
(* cancelled, and Stop, which reads the field after that, has read it.     *)
(***************************************************************************)
CONSTANT Streams

VARIABLES loop, clientCur, clientSession, clientConn, clientPc, on, clientTries,
          clientStop, clientStopped

C == INSTANCE MuxClient WITH
         cur <- clientCur, sessions <- clientSession, conn <- clientConn, pc <- clientPc,
         tries <- clientTries, stop <- clientStop, stopped <- clientStopped

(* What MuxClient assumes of the constants the nodes have in common.       *)
LEMMA ClientConstants == C!ClientAssumption
BY ServerAssumption DEF C!ClientAssumption

(* What the loop has stored, and what Stop has seen of it. *)
Handover ==
    /\ loop \in {"nego", "store", "check", "accept"} <=> clientCur # Nil
    /\ loop = "nego" => /\ clientConn[clientCur] = "dialed"
                        /\ clientCur \notin {clientSession, clientStopped}
    /\ loop \in {"store", "check", "accept"} => clientConn[clientCur] # "dialed"
    /\ loop \in {"check", "accept"} => clientSession = clientCur
    /\ loop = "accept" /\ clientStop \in {"read", "closed"} => clientStopped = clientCur

(* A goroutine that waits for a stream is on no session. *)
StreamsBegin == \A t \in Streams : clientPc[t] = "idle" => on[t] = Nil

ClientInv ==
    /\ C!TypeOK
    /\ C!OneConnection
    /\ Handover
    /\ C!StopReachesLoop
    /\ StreamsBegin
    /\ loop = "end" => C!CtxDone

(* The invariant holds when Start has returned. *)
LEMMA ClientInit == C!Init => ClientInv
<1> SUFFICES ASSUME C!Init PROVE ClientInv
  OBVIOUS
<1> USE ClientConstants DEF C!ClientAssumption, C!Init
<1>1. C!TypeOK
  BY DEF C!TypeOK
<1>2. C!OneConnection /\ C!StopReachesLoop
  BY DEF C!OneConnection, C!StopReachesLoop
<1>3. Handover /\ StreamsBegin /\ (loop = "end" => C!CtxDone)
  BY DEF Handover, StreamsBegin
<1> QED
  BY <1>1, <1>2, <1>3 DEF ClientInv

(* Every step of the loop, of a stream, of smux and of Stop preserves it. *)
LEMMA ClientStep == ClientInv /\ [C!Next]_C!vars => ClientInv'
<1> SUFFICES ASSUME ClientInv, [C!Next]_C!vars PROVE ClientInv'
  OBVIOUS
<1> USE ClientConstants
    DEF C!ClientAssumption, ClientInv, C!TypeOK, C!OneConnection, Handover, C!StopReachesLoop,
        StreamsBegin, C!CtxDone, C!streamVars, C!stopVars
<1>1. CASE C!Loop
  <2>1. ASSUME NEW s \in Sessions, C!Dial(s) PROVE ClientInv'
    BY <2>1 DEF C!Dial, C!Unused
  <2>2. CASE C!DialFail
    BY <2>2 DEF C!DialFail, C!AttemptFails
  <2>3. CASE C!NegoFail
    BY <2>3 DEF C!NegoFail, C!AttemptFails
  <2>4. CASE C!NegoOk
    BY <2>4 DEF C!NegoOk
  <2>5. CASE C!Store
    BY <2>5 DEF C!Store
  <2>6. CASE C!Check
    BY <2>6 DEF C!Check
  <2>7. CASE C!AcceptFail
    BY <2>7 DEF C!AcceptFail, C!AttemptFails
  <2>8. CASE C!Redial \/ C!GiveUp
    BY <2>8 DEF C!Redial, C!GiveUp
  <2> QED
    BY ONLY <1>1, <2>1, <2>2, <2>3, <2>4, <2>5, <2>6, <2>7, <2>8 DEF C!Loop
<1>2. ASSUME NEW t \in Streams, C!AcceptStream(t) PROVE ClientInv'
  BY <1>2 DEF C!AcceptStream
<1>3. ASSUME NEW t \in Streams, C!StreamStep(t) \/ C!ProxyEnd(t) PROVE ClientInv'
  <2>1. UNCHANGED <<loop, clientCur, clientSession, clientConn, clientStop, clientStopped>>
    BY <1>3 DEF C!StreamStep, C!Hand, C!HandFail, C!LocalDial, C!LocalDialFail, C!LocalRetry,
                C!ProxyEnd
  <2>2. /\ clientPc' \in [Streams -> {"idle", "hand", "dial", "backoff", "proxy"}]
        /\ on' \in [Streams -> Sessions \cup {Nil}]
        /\ clientTries' \in [Streams -> 0..MaxRetries]
        /\ StreamsBegin'
    BY <1>3 DEF C!StreamStep, C!Hand, C!HandFail, C!LocalDial, C!LocalDialFail, C!LocalRetry,
                C!ProxyEnd, C!Release
  <2> QED
    BY <2>1, <2>2
<1>4. ASSUME NEW s \in Sessions, C!Break(s) \/ C!KeepAlive(s) PROVE ClientInv'
  <2>1. CASE C!Break(s)
    BY <2>1 DEF C!Break
  <2>2. CASE C!KeepAlive(s)
    BY <2>2 DEF C!KeepAlive
  <2> QED
    BY <1>4, <2>1, <2>2
<1>5. CASE C!StopCancel
  BY <1>5 DEF C!StopCancel
<1>6. CASE C!StopRead
  BY <1>6 DEF C!StopRead
<1>7. CASE C!StopClose
  BY <1>7 DEF C!StopClose
<1>8. CASE UNCHANGED C!vars
  BY <1>8 DEF C!vars
<1> HIDE DEF ClientInv
<1> QED
  BY ONLY ZenonT(60), [C!Next]_C!vars, <1>1, <1>2, <1>3, <1>4, <1>5, <1>6, <1>7, <1>8
  DEF C!Next

(* The invariant holds throughout. *)
LEMMA ClientAlways == C!Spec => []ClientInv
BY ClientInit, ClientStep, PTL DEF C!Spec

(* The variables of the client node keep their types. *)
THEOREM ClientTypes == C!Spec => []C!TypeOK
<1>1. ClientInv => C!TypeOK
  BY DEF ClientInv
<1> QED
  BY <1>1, ClientAlways, PTL

(* The node never has two working connections to the bridge                *)
(* (client.go:149-222).                                                    *)
THEOREM SingleConnection == C!Spec => []C!OneConnection
<1>1. ClientInv => C!OneConnection
  BY DEF ClientInv
<1> QED
  BY <1>1, ClientAlways, PTL

(* Stop and the loop cannot miss each other: when Stop has returned, a     *)
(* loop that waits for streams waits on a closed session                   *)
(* (client.go:192-200, 228-236).                                           *)
THEOREM StopIsSeen == C!Spec => []C!StopReachesLoop
<1>1. ClientInv => C!StopReachesLoop
  BY DEF ClientInv
<1> QED
  BY <1>1, ClientAlways, PTL

(* The loop ends only after Stop was called, and leaves no connection that *)
(* works: what every liveness property of the node begins with             *)
(* (client.go:140-222).                                                    *)
THEOREM LoopEndsByStop ==
    C!Spec => [](loop = "end" =>
                   /\ C!CtxDone
                   /\ \A s \in Sessions : clientConn[s] \notin {"dialed", "open"})
<1> DEFINE Ends == loop = "end" =>
                     /\ C!CtxDone
                     /\ \A s \in Sessions : clientConn[s] \notin {"dialed", "open"}
<1>1. ClientInv => Ends
  BY ClientConstants DEF ClientInv, C!OneConnection, Handover, C!ClientAssumption
<1> QED
  BY <1>1, ClientAlways, PTL

-----------------------------------------------------------------------------
(* The initial state of the client node is one of SessionSlot. *)
LEMMA ClientSlotInit == C!Init => C!Slot!Init
BY DEF C!Init, C!Slot!Init

(* Every step of the client node makes or loses the one connection, begins *)
(* or ends one stream, or leaves connections and streams alone.            *)
LEMMA ClientSlotStep == ClientInv /\ [C!Next]_C!vars => [C!Slot!Next]_(C!Slot!vars)
<1> DEFINE L == {s \in Sessions : clientConn[s] \in {"dialed", "open"}}
<1> SUFFICES ASSUME ClientInv, [C!Next]_C!vars PROVE C!Slot!Next \/ UNCHANGED <<L, on>>
  BY DEF C!Slot!vars
<1> USE ClientConstants
    DEF C!ClientAssumption, ClientInv, C!TypeOK, C!OneConnection, Handover, StreamsBegin,
        C!streamVars, C!stopVars
<1>1. ASSUME NEW s \in Sessions, C!Dial(s) PROVE C!Slot!Next
  <2>1. L = {} /\ L' = {s} /\ UNCHANGED on
    BY <1>1 DEF C!Dial
  <2>2. \A t \in Streams : on[t] # s
    BY <1>1 DEF C!Dial, C!Unused
  <2> QED
    BY <2>1, <2>2 DEF C!Slot!Next, C!Slot!Establish
<1>2. CASE C!DialFail \/ C!NegoOk \/ C!Store \/ C!Redial \/ C!GiveUp
  BY <1>2 DEF C!DialFail, C!NegoOk, C!Store, C!Redial, C!GiveUp
<1>3. CASE C!NegoFail
  BY <1>3 DEF C!NegoFail, C!Slot!Lose, C!Slot!Next
<1>4. CASE C!Check
  <2>1. CASE C!CtxDone
    BY <1>4, <2>1 DEF C!Check, C!Slot!Lose, C!Slot!Next
  <2>2. CASE ~C!CtxDone
    BY <1>4, <2>2 DEF C!Check
  <2> QED
    BY <2>1, <2>2
<1>5. CASE C!AcceptFail
  BY <1>5 DEF C!AcceptFail, C!Slot!Lose, C!Slot!Next
<1>6. ASSUME NEW t \in Streams, C!AcceptStream(t) PROVE C!Slot!Next
  <2>1. clientCur \in L /\ on[t] = Nil
    BY <1>6 DEF C!AcceptStream
  <2>2. UNCHANGED L /\ on' = [on EXCEPT ![t] = clientCur]
    BY <1>6 DEF C!AcceptStream
  <2>3. C!Slot!Join(t)
    BY ZenonT(60), <2>1, <2>2 DEF C!Slot!Join
  <2> QED
    BY <2>3 DEF C!Slot!Next
<1>7. ASSUME NEW t \in Streams, C!StreamStep(t) \/ C!ProxyEnd(t)
      PROVE C!Slot!Next \/ UNCHANGED <<L, on>>
  <2>1. UNCHANGED clientConn
    BY <1>7 DEF C!StreamStep, C!Hand, C!HandFail, C!LocalDial, C!LocalDialFail, C!LocalRetry,
                C!ProxyEnd
  <2>2. on' = on \/ on' = [on EXCEPT ![t] = Nil]
    BY <1>7 DEF C!StreamStep, C!Hand, C!HandFail, C!LocalDial, C!LocalDialFail, C!LocalRetry,
                C!ProxyEnd, C!Release
  <2> QED
    BY <2>1, <2>2 DEF C!Slot!Leave, C!Slot!Next
<1>8. ASSUME NEW s \in Sessions, C!Break(s) PROVE C!Slot!Next
  BY <1>8 DEF C!Break, C!Slot!Lose, C!Slot!Next
<1>9. ASSUME NEW s \in Sessions, C!KeepAlive(s) PROVE UNCHANGED <<L, on>>
  BY <1>9 DEF C!KeepAlive
<1>10. CASE C!StopCancel \/ C!StopRead
  BY <1>10 DEF C!StopCancel, C!StopRead
<1>11. CASE C!StopClose
  <2>1. CASE clientStopped # Nil /\ clientStopped \in L
    BY <1>11, <2>1 DEF C!StopClose, C!Slot!Lose, C!Slot!Next
  <2>2. CASE clientStopped = Nil \/ clientStopped \notin L
    BY <1>11, <2>2 DEF C!StopClose
  <2> QED
    BY <2>1, <2>2
<1>12. CASE UNCHANGED C!vars
  BY <1>12 DEF C!vars
<1> HIDE DEF L
<1> QED
  BY ONLY [C!Next]_C!vars, <1>1, <1>2, <1>3, <1>4, <1>5, <1>6, <1>7, <1>8, <1>9, <1>10, <1>11,
          <1>12
  DEF C!Next, C!Loop

(* The client node implements SessionSlot, as the server node does: the    *)
(* streams that arrive share one session at a time, for any number of      *)
(* stream goroutines (client.go:149-222).                                  *)
THEOREM ClientRefinement == C!Spec => C!SharesOneSession
BY ClientSlotInit, ClientSlotStep, ClientAlways, PTL DEF C!Spec, C!SharesOneSession, C!Slot!Spec

=============================================================================
