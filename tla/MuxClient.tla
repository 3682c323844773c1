------------------------------ MODULE MuxClient ------------------------------
(***************************************************************************)
(* The client node of the NAT traversal service (services/mux/client.go),  *)
(* TCP streams.  One goroutine keeps a session with the bridge for as long *)
(* as the service runs: it dials, negotiates, stores the session in the    *)
(* field sessions and accepts streams until the session fails, then starts *)
(* over.  Each stream is served by a goroutine that reads the handshake    *)
(* and runs proxyTCP.  Stop takes no lock: it cancels the context and      *)
(* closes the session it finds in the field, while the loop stores the     *)
(* session and then looks at the context.                                  *)
(*                                                                         *)
(* Sessions are as in MuxServer.                                           *)
(***************************************************************************)
EXTENDS Naturals, FiniteSets

CONSTANTS Sessions,     \* parent connections in use at a time; a bound
          Streams,      \* stream goroutines at a time; a bound
          MaxRetries,   \* retries of proxyTCP (3 in the code)
          Nil

ASSUME ClientAssumption ==
    /\ MaxRetries \in Nat \ {0}
    /\ Nil \notin Sessions

VARIABLES loop,       \* where the goroutine of Start is
          cur,        \* the connection it works on, or Nil
          sessions,   \* the field sf.sessions
          conn,       \* conn[s]: connection s and the session on it
          pc,         \* pc[t]: where stream goroutine t is
          on,         \* on[t]: the session whose stream goroutine t serves, or Nil
          tries,      \* retries t has used
          stop,       \* how far Stop has got
          stopped     \* the session Stop read from the field

vars == <<loop, cur, sessions, conn, pc, on, tries, stop, stopped>>
streamVars == <<pc, on, tries>>
stopVars == <<stop, stopped>>

TypeOK ==
    /\ loop \in {"dial", "nego", "store", "check", "accept", "backoff", "end"}
    /\ cur \in Sessions \cup {Nil}
    /\ sessions \in Sessions \cup {Nil}
    /\ conn \in [Sessions -> {"closed", "dialed", "open", "broken"}]
    /\ pc \in [Streams -> {"idle", "hand", "dial", "backoff", "proxy"}]
    /\ on \in [Streams -> Sessions \cup {Nil}]
    /\ tries \in [Streams -> 0..MaxRetries]
    /\ stop \in {"run", "cancelled", "read", "closed"}
    /\ stopped \in Sessions \cup {Nil}

Init ==
    /\ loop = "dial"
    /\ cur = Nil
    /\ sessions = Nil
    /\ conn = [s \in Sessions |-> "closed"]
    /\ pc = [t \in Streams |-> "idle"]
    /\ on = [t \in Streams |-> Nil]
    /\ tries = [t \in Streams |-> 0]
    /\ stop = "run"
    /\ stopped = Nil

CtxDone == stop # "run"

-----------------------------------------------------------------------------
(* The goroutine of Start *)

(* Faulty: the back-off does not look at the context. *)
AttemptFailsBlind == loop' = "backoff"

(* The attempt returns an error.  The back-off has no limit: it ends only  *)
(* with the context.                                                       *)
AttemptFails == loop' = IF CtxDone THEN "end" ELSE "backoff"

Unused(s) ==
    /\ conn[s] = "closed"
    /\ s \notin {sessions, stopped}
    /\ \A t \in Streams : on[t] # s

Dial(s) ==
    /\ loop = "dial"
    /\ Unused(s)
    /\ conn' = [conn EXCEPT ![s] = "dialed"]
    /\ cur' = s
    /\ loop' = "nego"
    /\ UNCHANGED <<sessions, streamVars, stopVars>>

DialFail ==
    /\ loop = "dial"
    /\ AttemptFails
    /\ UNCHANGED <<cur, sessions, conn, streamVars, stopVars>>

(* Faulty: the connection is not closed. *)
NegoFailLeaks ==
    /\ loop = "nego"
    /\ cur' = Nil
    /\ AttemptFails
    /\ UNCHANGED <<sessions, conn, streamVars, stopVars>>

(* The negotiation fails or is refused; the deferred pConn.Close.          *)
NegoFail ==
    /\ loop = "nego"
    /\ conn' = [conn EXCEPT ![cur] = "closed"]
    /\ cur' = Nil
    /\ AttemptFails
    /\ UNCHANGED <<sessions, streamVars, stopVars>>

NegoOk ==
    /\ loop = "nego"
    /\ conn' = [conn EXCEPT ![cur] = "open"]
    /\ loop' = "store"
    /\ UNCHANGED <<cur, sessions, streamVars, stopVars>>

Store ==
    /\ loop = "store"
    /\ sessions' = cur
    /\ loop' = "check"
    /\ UNCHANGED <<cur, conn, streamVars, stopVars>>

(* The context is looked at before every AcceptStream.  When it is done    *)
(* the attempt ends for good, and the deferred pConn.Close breaks the      *)
(* session, which nobody else closes.                                      *)
Check ==
    /\ loop = "check"
    /\ IF CtxDone
       THEN /\ loop' = "end"
            /\ cur' = Nil
            /\ conn' = [conn EXCEPT ![cur] = IF @ = "open" THEN "broken" ELSE @]
       ELSE /\ loop' = "accept"
            /\ UNCHANGED <<cur, conn>>
    /\ UNCHANGED <<sessions, streamVars, stopVars>>

(* AcceptStream returns a stream: a goroutine reads its handshake.         *)
AcceptStream(t) ==
    /\ loop = "accept"
    /\ conn[cur] = "open"
    /\ pc[t] = "idle"
    /\ pc' = [pc EXCEPT ![t] = "hand"]
    /\ on' = [on EXCEPT ![t] = cur]
    /\ tries' = [tries EXCEPT ![t] = 0]
    /\ loop' = "check"
    /\ UNCHANGED <<cur, sessions, conn, stopVars>>

(* Faulty: the error is permanent. *)
AcceptFailPermanent ==
    /\ loop = "accept"
    /\ conn[cur] # "open"
    /\ conn' = [conn EXCEPT ![cur] = "closed"]
    /\ cur' = Nil
    /\ loop' = "end"
    /\ UNCHANGED <<sessions, streamVars, stopVars>>

(* AcceptStream fails: the session is closed and the loop starts over.     *)
AcceptFail ==
    /\ loop = "accept"
    /\ conn[cur] # "open"
    /\ conn' = [conn EXCEPT ![cur] = "closed"]
    /\ cur' = Nil
    /\ AttemptFails
    /\ UNCHANGED <<sessions, streamVars, stopVars>>

Redial ==
    /\ loop = "backoff"
    /\ loop' = "dial"
    /\ UNCHANGED <<cur, sessions, conn, streamVars, stopVars>>

(* The context is done during the pause; when the timer fires as well,     *)
(* either may be taken.                                                    *)
GiveUp ==
    /\ loop = "backoff"
    /\ CtxDone
    /\ loop' = "end"
    /\ UNCHANGED <<cur, sessions, conn, streamVars, stopVars>>

-----------------------------------------------------------------------------
(* The goroutine of a stream *)

Release(t) ==
    /\ pc' = [pc EXCEPT ![t] = "idle"]
    /\ on' = [on EXCEPT ![t] = Nil]
    /\ UNCHANGED tries

(* The handshake is read, or not: then the goroutine returns and leaves    *)
(* the stream, unclosed, to the end of its session.                        *)
Hand(t) ==
    /\ pc[t] = "hand"
    /\ conn[on[t]] = "open"
    /\ pc' = [pc EXCEPT ![t] = "dial"]
    /\ UNCHANGED <<loop, cur, sessions, conn, on, tries, stopVars>>

HandFail(t) ==
    /\ pc[t] = "hand"
    /\ Release(t)
    /\ UNCHANGED <<loop, cur, sessions, conn, stopVars>>

(* proxyTCP: the local service is dialled, with a few retries.             *)
LocalDial(t) ==
    /\ pc[t] = "dial"
    /\ pc' = [pc EXCEPT ![t] = "proxy"]
    /\ UNCHANGED <<loop, cur, sessions, conn, on, tries, stopVars>>

LocalDialFail(t) ==
    /\ pc[t] = "dial"
    /\ IF tries[t] < MaxRetries /\ ~CtxDone
       THEN /\ pc' = [pc EXCEPT ![t] = "backoff"]
            /\ tries' = [tries EXCEPT ![t] = @ + 1]
            /\ UNCHANGED on
       ELSE Release(t)
    /\ UNCHANGED <<loop, cur, sessions, conn, stopVars>>

LocalRetry(t) ==
    /\ pc[t] = "backoff"
    /\ \/ /\ pc' = [pc EXCEPT ![t] = "dial"]
          /\ UNCHANGED <<on, tries>>
       \/ CtxDone /\ Release(t)
    /\ UNCHANGED <<loop, cur, sessions, conn, stopVars>>

ProxyEnd(t) ==
    /\ pc[t] = "proxy"
    /\ Release(t)
    /\ UNCHANGED <<loop, cur, sessions, conn, stopVars>>

ProxyCut(t) ==
    /\ pc[t] = "proxy"
    /\ conn[on[t]] # "open"
    /\ ProxyEnd(t)

-----------------------------------------------------------------------------
(* smux *)
Break(s) ==
    /\ conn[s] = "open"
    /\ conn' = [conn EXCEPT ![s] = "broken"]
    /\ UNCHANGED <<loop, cur, sessions, streamVars, stopVars>>

KeepAlive(s) ==
    /\ conn[s] = "broken"
    /\ conn' = [conn EXCEPT ![s] = "closed"]
    /\ UNCHANGED <<loop, cur, sessions, streamVars, stopVars>>

(* Stop: cancel, read the field, close what was read.                      *)
StopCancel ==
    /\ stop = "run"
    /\ stop' = "cancelled"
    /\ UNCHANGED <<loop, cur, sessions, conn, streamVars, stopped>>

StopRead ==
    /\ stop = "cancelled"
    /\ stop' = "read"
    /\ stopped' = sessions
    /\ UNCHANGED <<loop, cur, sessions, conn, streamVars>>

StopClose ==
    /\ stop = "read"
    /\ stop' = "closed"
    /\ conn' = IF stopped = Nil THEN conn ELSE [conn EXCEPT ![stopped] = "closed"]
    /\ UNCHANGED <<loop, cur, sessions, streamVars, stopped>>

-----------------------------------------------------------------------------
Loop ==
    \/ \E s \in Sessions : Dial(s)
    \/ DialFail \/ NegoFail \/ NegoOk \/ Store \/ Check \/ AcceptFail
    \/ Redial \/ GiveUp

StreamStep(t) ==
    Hand(t) \/ HandFail(t) \/ LocalDial(t) \/ LocalDialFail(t) \/ LocalRetry(t)

Next ==
    \/ Loop
    \/ \E t \in Streams : AcceptStream(t) \/ StreamStep(t) \/ ProxyEnd(t)
    \/ \E s \in Sessions : Break(s) \/ KeepAlive(s)
    \/ StopCancel \/ StopRead \/ StopClose

(* Goroutines run, dialling times out, the bridge answers a negotiation or *)
(* its connection fails, a handshake arrives or its stream fails.  Streams *)
(* need not arrive nor end, connections need not break, Stop need not be   *)
(* called.                                                                 *)
Fairness ==
    /\ WF_vars(Loop)
    /\ \A t \in Streams : WF_vars(StreamStep(t)) /\ WF_vars(ProxyCut(t))
    /\ \A s \in Sessions : WF_vars(KeepAlive(s))
    /\ WF_vars(StopRead) /\ WF_vars(StopClose)

Spec == Init /\ [][Next]_vars /\ Fairness

-----------------------------------------------------------------------------
(* The node has at most one connection to the bridge that works, the one   *)
(* its loop is on: every failed attempt has closed its own before the next *)
(* begins.  Two would take the secret key from each other at the bridge    *)
(* (client.go:149-222).                                                    *)
OneConnection ==
    \A s \in Sessions : conn[s] \in {"dialed", "open"} => cur = s

(* Stop does not miss the session: once it has returned, a loop blocked in *)
(* AcceptStream is blocked on a closed session, although the field is read *)
(* without a lock while the loop may be between creating a session and     *)
(* storing it (client.go:192-200, 228-236).                                *)
StopReachesLoop ==
    stop = "closed" /\ loop = "accept" => conn[cur] = "closed"

(* After Stop everything ends: the loop, every stream goroutine and every  *)
(* session, also those created while Stop ran (client.go:123-236).         *)
StopEndsAll ==
    stop = "closed" ~>
        [](/\ loop = "end"
           /\ \A s \in Sessions : conn[s] = "closed"
           /\ \A t \in Streams : pc[t] = "idle")

(* Until Stop is called the loop does not end, and comes back to a working *)
(* session or to dialling again after any failure (client.go:140-222).     *)
KeepsConnecting ==
    /\ [](loop = "end" => CtxDone)
    /\ \A s \in Sessions :
        (cur = s /\ conn[s] \in {"broken", "closed"}) ~> (loop = "dial" \/ CtxDone)

-----------------------------------------------------------------------------
(* What the connection to the bridge promises the streams that arrive on   *)
(* it: a connection counts from the dial, its session from the             *)
(* negotiation, until either is closed or broken.                          *)
Slot == INSTANCE SessionSlot
            WITH Users <- Streams,
                 live <- {s \in Sessions : conn[s] \in {"dialed", "open"}},
                 user <- on

(* The streams of all goroutines arrive on one session at a time: the loop *)
(* dials again only when nothing is left of the previous attempt, and a    *)
(* stream that arrives is on the session the loop is on                    *)
(* (client.go:149-222).                                                    *)
SharesOneSession == Slot!Spec

=============================================================================
