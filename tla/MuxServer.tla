------------------------------ MODULE MuxServer ------------------------------
(***************************************************************************)
(* The server node of the NAT traversal service (services/mux/server.go),  *)
(* TCP routes.  Every accepted connection is served by a goroutine running *)
(* handleTCP, which opens one stream to the bridge.  All streams share one *)
(* smux session, kept in the field sessions; GetConn creates it on demand  *)
(* under the mutex mu, and a watcher goroutine per created session clears  *)
(* the field once the session is closed.                                   *)
(*                                                                         *)
(* smux itself is external.  A session is "open"; "broken" once reading or *)
(* writing the connection failed (OpenStream and AcceptStream fail, yet    *)
(* IsClosed still answers false); "closed" after Close or after its        *)
(* keep-alive timer gave up.                                               *)
(***************************************************************************)
EXTENDS Naturals, FiniteSets

CONSTANTS Handlers,     \* goroutines running handleTCP at a time; a bound
          Sessions,     \* parent connections in use at a time; a bound
          MaxRetries,   \* retries of handleTCP (10 in the code)
          Nil

ASSUME ServerAssumption ==
    /\ MaxRetries \in Nat \ {0}
    /\ Nil \notin Handlers \cup Sessions

VARIABLES mu,         \* the handler that holds sf.mu, or Nil
          sessions,   \* the field sf.sessions
          conn,       \* conn[s]: parent connection s and the session on it
          watcher,    \* watcher[s]: the goroutine started with session s
          pc,         \* where handler h is
          cur,        \* the connection h is negotiating on, or Nil
          stream,     \* the session that carries the stream of h, or Nil
          tries,      \* retries handler h has used
          stop,       \* how far Stop has got; ctx is done after "run"
          stopped     \* the session Stop read from the field

vars == <<mu, sessions, conn, watcher, pc, cur, stream, tries, stop, stopped>>

ConnState == {"free", "dialed", "open", "broken", "closed", "abandoned"}
PcState == {"idle", "lock", "dial", "nego", "open", "hand", "backoff", "proxy"}

TypeOK ==
    /\ mu \in Handlers \cup {Nil}
    /\ sessions \in Sessions \cup {Nil}
    /\ conn \in [Sessions -> ConnState]
    /\ watcher \in [Sessions -> {"off", "on"}]
    /\ pc \in [Handlers -> PcState]
    /\ cur \in [Handlers -> Sessions \cup {Nil}]
    /\ stream \in [Handlers -> Sessions \cup {Nil}]
    /\ tries \in [Handlers -> 0..MaxRetries]
    /\ stop \in {"run", "cancelled", "tested", "read", "closed", "crashed"}
    /\ stopped \in Sessions \cup {Nil}

Init ==
    /\ mu = Nil
    /\ sessions = Nil
    /\ conn = [s \in Sessions |-> "free"]
    /\ watcher = [s \in Sessions |-> "off"]
    /\ pc = [h \in Handlers |-> "idle"]
    /\ cur = [h \in Handlers |-> Nil]
    /\ stream = [h \in Handlers |-> Nil]
    /\ tries = [h \in Handlers |-> 0]
    /\ stop = "run"
    /\ stopped = Nil

CtxDone == stop # "run"

Goto(h, l) == pc' = [pc EXCEPT ![h] = l]

-----------------------------------------------------------------------------
(* handleTCP *)

(* The listener accepts a connection; it is closed last by Stop.           *)
Accept(h) ==
    /\ stop \notin {"closed", "crashed"}
    /\ pc[h] = "idle"
    /\ Goto(h, "lock")
    /\ tries' = [tries EXCEPT ![h] = 0]
    /\ UNCHANGED <<mu, sessions, conn, watcher, cur, stream, stop, stopped>>

(* An attempt failed.  backoff.Retry stops when the retries are used up or *)
(* the context is done, and the deferred inConn.Close ends the handler.    *)
Fail(h) ==
    IF tries[h] < MaxRetries /\ ~CtxDone
    THEN /\ Goto(h, "backoff")
         /\ tries' = [tries EXCEPT ![h] = @ + 1]
    ELSE /\ Goto(h, "idle")
         /\ UNCHANGED tries

(* The pause of three seconds is over: the next attempt. *)
Retry(h) ==
    /\ pc[h] = "backoff"
    /\ Goto(h, "lock")
    /\ UNCHANGED <<mu, sessions, conn, watcher, cur, stream, tries, stop, stopped>>

(* The context is done during the pause. *)
GiveUp(h) ==
    /\ pc[h] = "backoff"
    /\ CtxDone
    /\ Goto(h, "idle")
    /\ UNCHANGED <<mu, sessions, conn, watcher, cur, stream, tries, stop, stopped>>

(* GetConn takes the mutex and looks at the field. *)
Lock(h) ==
    /\ pc[h] = "lock"
    /\ mu = Nil
    /\ mu' = h
    /\ Goto(h, IF sessions = Nil THEN "dial" ELSE "open")
    /\ UNCHANGED <<sessions, conn, watcher, cur, stream, tries, stop, stopped>>

(* No goroutine refers to connection s: a new one may take its name.       *)
Unused(s) ==
    /\ conn[s] \in {"free", "closed", "abandoned"}
    /\ watcher[s] # "on"
    /\ s \notin {sessions, stopped}
    /\ \A h \in Handlers : s \notin {cur[h], stream[h]}

(* dialParent succeeds and the negotiation request is on its way.          *)
Dial(h, s) ==
    /\ pc[h] = "dial"
    /\ Unused(s)
    /\ conn' = [conn EXCEPT ![s] = "dialed"]
    /\ cur' = [cur EXCEPT ![h] = s]
    /\ Goto(h, "nego")
    /\ UNCHANGED <<mu, sessions, watcher, stream, tries, stop, stopped>>

(* Faulty: this return forgets the mutex. *)
DialFailLocked(h) ==
    /\ pc[h] = "dial"
    /\ Fail(h)
    /\ UNCHANGED <<mu, sessions, conn, watcher, cur, stream, stop, stopped>>

DialFail(h) ==
    /\ pc[h] = "dial"
    /\ mu' = Nil
    /\ Fail(h)
    /\ UNCHANGED <<sessions, conn, watcher, cur, stream, stop, stopped>>

(* Writing the request or reading the reply fails: the connection is       *)
(* closed.  The request does not marshal, or the bridge answers with       *)
(* another status than success: GetConn returns without closing it.        *)
NegoFail(h, left) ==
    /\ pc[h] = "nego"
    /\ conn' = [conn EXCEPT ![cur[h]] = left]
    /\ cur' = [cur EXCEPT ![h] = Nil]
    /\ mu' = Nil
    /\ Fail(h)
    /\ UNCHANGED <<sessions, watcher, stream, stop, stopped>>

(* The bridge accepts: the session is created and stored, its watcher is   *)
(* started.                                                                *)
NegoOk(h) ==
    /\ pc[h] = "nego"
    /\ conn' = [conn EXCEPT ![cur[h]] = "open"]
    /\ sessions' = cur[h]
    /\ watcher' = [watcher EXCEPT ![cur[h]] = "on"]
    /\ cur' = [cur EXCEPT ![h] = Nil]
    /\ Goto(h, "open")
    /\ UNCHANGED <<mu, stream, tries, stop, stopped>>

OpenStream(h) ==
    /\ pc[h] = "open"
    /\ conn[sessions] = "open"
    /\ stream' = [stream EXCEPT ![h] = sessions]
    /\ mu' = Nil
    /\ Goto(h, "hand")
    /\ UNCHANGED <<sessions, conn, watcher, cur, tries, stop, stopped>>

(* Faulty: the field is cleared and the session left running. *)
OpenFailForgets(h) ==
    /\ pc[h] = "open"
    /\ sessions' = Nil
    /\ mu' = Nil
    /\ Fail(h)
    /\ UNCHANGED <<conn, watcher, cur, stream, stop, stopped>>

(* OpenStream fails: always on a broken or closed session, and on an open  *)
(* one when writing the frame times out or the stream ids are exhausted.   *)
(* GetConn closes the session and clears the field.                        *)
OpenFail(h) ==
    /\ pc[h] = "open"
    /\ conn' = [conn EXCEPT ![sessions] = "closed"]
    /\ sessions' = Nil
    /\ mu' = Nil
    /\ Fail(h)
    /\ UNCHANGED <<watcher, cur, stream, stop, stopped>>

(* dialThroughRemote writes the handshake request on the new stream. *)
Handshake(h) ==
    /\ pc[h] = "hand"
    /\ conn[stream[h]] = "open"
    /\ Goto(h, "proxy")
    /\ UNCHANGED <<mu, sessions, conn, watcher, cur, stream, tries, stop, stopped>>

(* ... or fails to, and closes the stream. *)
HandshakeFail(h) ==
    /\ pc[h] = "hand"
    /\ stream' = [stream EXCEPT ![h] = Nil]
    /\ Fail(h)
    /\ UNCHANGED <<mu, sessions, conn, watcher, cur, stop, stopped>>

(* Binding.Proxy returns: one side ended, or the session did.  Both the    *)
(* stream and the accepted connection are closed.                          *)
ProxyEnd(h) ==
    /\ pc[h] = "proxy"
    /\ stream' = [stream EXCEPT ![h] = Nil]
    /\ Goto(h, "idle")
    /\ UNCHANGED <<mu, sessions, conn, watcher, cur, tries, stop, stopped>>

-----------------------------------------------------------------------------
(* Faulty: the watcher does not look at the context. *)
WatchDeaf(s) ==
    /\ FALSE
    /\ UNCHANGED vars

(* Faulty: the watcher exits without clearing the field. *)
WatchKeeps(s) ==
    /\ watcher[s] = "on"
    /\ mu = Nil
    /\ sessions # Nil
    /\ conn[sessions] = "closed"
    /\ watcher' = [watcher EXCEPT ![s] = "off"]
    /\ UNCHANGED <<mu, sessions, conn, pc, cur, stream, tries, stop, stopped>>

(* The watcher goroutine started with session s.  It looks at the field,   *)
(* not at s; the lock is held for the look only.                           *)
WatchTick(s) ==
    /\ watcher[s] = "on"
    /\ mu = Nil
    /\ sessions # Nil
    /\ conn[sessions] = "closed"
    /\ sessions' = Nil
    /\ watcher' = [watcher EXCEPT ![s] = "off"]
    /\ UNCHANGED <<mu, conn, pc, cur, stream, tries, stop, stopped>>

WatchDone(s) ==
    /\ watcher[s] = "on"
    /\ CtxDone
    /\ watcher' = [watcher EXCEPT ![s] = "off"]
    /\ UNCHANGED <<mu, sessions, conn, pc, cur, stream, tries, stop, stopped>>

(* The connection under an open session fails; its keep-alive timer closes *)
(* a broken session.                                                       *)
Break(s) ==
    /\ conn[s] = "open"
    /\ conn' = [conn EXCEPT ![s] = "broken"]
    /\ UNCHANGED <<mu, sessions, watcher, pc, cur, stream, tries, stop, stopped>>

KeepAlive(s) ==
    /\ conn[s] = "broken"
    /\ conn' = [conn EXCEPT ![s] = "closed"]
    /\ UNCHANGED <<mu, sessions, watcher, pc, cur, stream, tries, stop, stopped>>

-----------------------------------------------------------------------------
(* Stop: cancel the context, look at the field without the mutex, close    *)
(* the session in it and the listener.                                     *)
StopCancel ==
    /\ stop = "run"
    /\ stop' = "cancelled"
    /\ UNCHANGED <<mu, sessions, conn, watcher, pc, cur, stream, tries, stopped>>

(* The field is read once to test it,                                      *)
StopTest ==
    /\ stop = "cancelled"
    /\ stop' = IF sessions = Nil THEN "read" ELSE "tested"
    /\ UNCHANGED <<mu, sessions, conn, watcher, pc, cur, stream, tries, stopped>>

(* and once more for the session to close.                                 *)
StopRead ==
    /\ stop = "tested"
    /\ sessions # Nil
    /\ stop' = "read"
    /\ stopped' = sessions
    /\ UNCHANGED <<mu, sessions, conn, watcher, pc, cur, stream, tries>>

(* It was cleared in between: the call of Close on nil ends the process,   *)
(* and with it every goroutine and every connection.                       *)
StopCrash ==
    /\ stop = "tested"
    /\ sessions = Nil
    /\ stop' = "crashed"
    /\ mu' = Nil
    /\ conn' = [s \in Sessions |-> "closed"]
    /\ watcher' = [s \in Sessions |-> "off"]
    /\ pc' = [h \in Handlers |-> "idle"]
    /\ cur' = [h \in Handlers |-> Nil]
    /\ stream' = [h \in Handlers |-> Nil]
    /\ UNCHANGED <<sessions, tries, stopped>>

StopClose ==
    /\ stop = "read"
    /\ stop' = "closed"
    /\ conn' = IF stopped = Nil THEN conn ELSE [conn EXCEPT ![stopped] = "closed"]
    /\ UNCHANGED <<mu, sessions, watcher, pc, cur, stream, tries, stopped>>

Stop == StopCancel \/ StopTest \/ StopRead \/ StopCrash \/ StopClose

-----------------------------------------------------------------------------
GetConn(h) ==
    \/ Lock(h)
    \/ \E s \in Sessions : Dial(h, s)
    \/ DialFail(h)
    \/ \E left \in {"closed", "abandoned"} : NegoFail(h, left)
    \/ NegoOk(h)
    \/ OpenStream(h)
    \/ OpenFail(h)

HandleTCP(h) ==
    \/ Retry(h)
    \/ GiveUp(h)
    \/ GetConn(h)
    \/ Handshake(h)
    \/ HandshakeFail(h)

ProxyCut(h) == ProxyEnd(h) /\ conn[stream[h]] # "open"

Watcher(s) == WatchTick(s) \/ WatchDone(s)

Next ==
    \/ \E h \in Handlers : Accept(h) \/ HandleTCP(h) \/ ProxyEnd(h)
    \/ \E s \in Sessions : Watcher(s) \/ Break(s) \/ KeepAlive(s)
    \/ Stop

(* Goroutines run, and a Go mutex is not taken by others for ever;         *)
(* dialling has a time-out; the bridge answers every negotiation or its    *)
(* connection fails; keep-alive timers and tickers fire.  Nothing obliges  *)
(* a user to connect, a connection to break, the service to stop, or a     *)
(* proxied stream on an open session to end.                               *)
Fairness ==
    /\ \A h \in Handlers : /\ WF_vars(HandleTCP(h))
                           /\ SF_vars(Lock(h))
                           /\ WF_vars(ProxyCut(h))
    /\ \A s \in Sessions : WF_vars(Watcher(s)) /\ WF_vars(KeepAlive(s))
    /\ WF_vars(Stop /\ CtxDone)

Spec == Init /\ [][Next]_vars /\ Fairness

-----------------------------------------------------------------------------
Live(s) == conn[s] \in {"open", "broken"}

(* A session that has not been closed is the one in the field sessions:    *)
(* neither a retry, a watcher clearing the field, nor Stop makes GetConn   *)
(* lose a session that is still running and open a second one next to it   *)
(* (GetConn, server.go:276-349).                                           *)
LiveSessionIsCurrent ==
    \A s \in Sessions : Live(s) => sessions = s

(* While the service runs, the session in the field has a watcher, so that *)
(* its end will be noticed without another connection having to fail       *)
(* first, although every watcher clears whatever session is in the field   *)
(* and then exits (server.go:324-341).                                     *)
SessionIsWatched ==
    sessions # Nil /\ ~CtxDone => watcher[sessions] = "on"

(* A handler inside GetConn holds the mutex and sees the field it tested:  *)
(* nobody sets or clears it between the test and OpenStream                *)
(* (server.go:277-280, 343).                                               *)
CriticalSection ==
    \A h \in Handlers :
        /\ pc[h] \in {"dial", "nego", "open"} <=> mu = h
        /\ pc[h] \in {"dial", "nego"} => sessions = Nil
        /\ pc[h] = "open" => sessions # Nil

(* A handler owns a connection exactly while it negotiates, and a stream   *)
(* exactly from OpenStream to the end of proxying: no retry or return      *)
(* leaves one behind.  The field, the copy Stop took of it and the streams *)
(* never name a connection whose negotiation is not over                   *)
(* (server.go:242-349, 474).                                               *)
Ownership ==
    /\ \A h \in Handlers :
        /\ IF pc[h] = "nego" THEN cur[h] # Nil /\ conn[cur[h]] = "dialed"
                             ELSE cur[h] = Nil
        /\ pc[h] \in {"hand", "proxy"} <=> stream[h] # Nil
    /\ \A s \in ({sessions, stopped} \cup {stream[h] : h \in Handlers}) \ {Nil} :
        conn[s] \in {"open", "broken", "closed"}

(* A handler waiting for the mutex or for a pause to end, gets its stream  *)
(* or gives up: no path of GetConn keeps the mutex (server.go:452-482).    *)
HandlerGetsThrough ==
    \A h \in Handlers : pc[h] = "lock" ~> pc[h] \in {"proxy", "idle"}

(* A closed session does not stay in the field while the service runs,     *)
(* also when no connection arrives to find it out (server.go:324-341).     *)
ClosedSessionIsDropped ==
    \A s \in Sessions :
        (sessions = s /\ conn[s] = "closed") ~> (sessions # s \/ CtxDone)

(* After Stop no watcher and no handler still trying to connect remains,   *)
(* although attempts that began before Stop may end after it, and Stop     *)
(* does return, or ends the process (server.go:227-240, 329).              *)
StopEndsGoroutines ==
    CtxDone ~>
        [](/\ \A s \in Sessions : watcher[s] # "on"
           /\ \A h \in Handlers : pc[h] \in {"idle", "proxy"})

-----------------------------------------------------------------------------
(* What GetConn promises its callers, without mutex, retries or watchers.  *)
Slot == INSTANCE SessionSlot
            WITH Users <- Handlers,
                 live <- {s \in Sessions : Live(s)},
                 user <- stream

(* The streams of all handlers share one session at a time, and a new one  *)
(* is created only when none is left (GetConn, server.go:276-349).         *)
SharesOneSession == Slot!Spec

=============================================================================
