------------------------------ MODULE MuxBridge ------------------------------
(***************************************************************************)
(* The bridge of the NAT traversal service (services/mux/bridge.go).       *)
(* Server and client nodes connect to it and negotiate; each connection    *)
(* then carries an smux session.  Client sessions are kept under the       *)
(* node's secret key in clientSession, which a connection.Manager sweeps   *)
(* for closed sessions; server sessions under the peer's address in        *)
(* serverSession.  For every stream a server node opens, a goroutine       *)
(* running proxyStream looks up the client session with the server's key,  *)
(* opens a stream on it, and joins the two.                                *)
(*                                                                         *)
(* Sessions are as in MuxServer: "open", "broken" (the connection failed,  *)
(* IsClosed is still false), "closed".                                     *)
(***************************************************************************)
EXTENDS Naturals, FiniteSets

CONSTANTS Keys,         \* secret keys
          Addrs,        \* remote addresses
          Conns,        \* connections at a time; a bound
          Streams,      \* proxyStream goroutines at a time; a bound
          MaxRetries,   \* retries of proxyStream (10 in the code)
          Nil

ASSUME BridgeAssumption ==
    /\ MaxRetries \in Nat \ {0}
    /\ Nil \notin Keys \cup Addrs \cup Conns

VARIABLES phase,           \* phase[c]: where the handler of c is
          key,             \* key[c]: the secret key c negotiated, or Nil
          addr,            \* addr[c]: the remote address of a server's c, or Nil
          sess,            \* sess[c]: the session on c
          serverSession,   \* address -> server session, or Nil
          clientSession,   \* secret key -> client session, or Nil
          scan, doomed,    \* the sweep of clientSession, see ConnManager
          pc,              \* pc[t]: where goroutine t of proxyStream is
          from, to,        \* the sessions t joins: server's and client's
          tries,           \* retries t has used
          stop             \* how far Stop has got

connVars == <<phase, key, addr, sess>>
streamVars == <<pc, from, to, tries>>
sweepVars == <<scan, doomed>>
vars == <<connVars, serverSession, clientSession, sweepVars, streamVars, stop>>

Clients == INSTANCE ConnManager WITH Values <- Conns, table <- clientSession

Phase == {"idle", "nego", "sreply", "accept", "creply", "upsert", "registered"}

TypeOK ==
    /\ phase \in [Conns -> Phase]
    /\ key \in [Conns -> Keys \cup {Nil}]
    /\ addr \in [Conns -> Addrs \cup {Nil}]
    /\ sess \in [Conns -> {"none", "open", "broken", "closed"}]
    /\ serverSession \in [Addrs -> Conns \cup {Nil}]
    /\ Clients!MgrTypeOK
    /\ pc \in [Streams -> {"idle", "bind", "open", "backoff", "proxy"}]
    /\ from \in [Streams -> Conns \cup {Nil}]
    /\ to \in [Streams -> Conns \cup {Nil}]
    /\ tries \in [Streams -> 0..MaxRetries]
    /\ stop \in {"run", "cancelled", "deaf", "clients", "stopped"}

Init ==
    /\ phase = [c \in Conns |-> "idle"]
    /\ key = [c \in Conns |-> Nil]
    /\ addr = [c \in Conns |-> Nil]
    /\ sess = [c \in Conns |-> "none"]
    /\ serverSession = [a \in Addrs |-> Nil]
    /\ Clients!MgrInit
    /\ pc = [t \in Streams |-> "idle"]
    /\ from = [t \in Streams |-> Nil]
    /\ to = [t \in Streams |-> Nil]
    /\ tries = [t \in Streams |-> 0]
    /\ stop = "run"

CtxDone == stop # "run"

-----------------------------------------------------------------------------
(* handler *)

(* Nothing refers to connection c any more: a new one may take its name.   *)
Unused(c) ==
    /\ phase[c] \in {"idle", "registered"}
    /\ sess[c] \in {"none", "closed"}
    /\ \A a \in Addrs : serverSession[a] # c
    /\ \A k \in Keys : clientSession[k] # c /\ scan[k] # c /\ doomed # <<k, c>>
    /\ \A t \in Streams : c \notin {from[t], to[t]}

(* A connection is accepted; Stop closes the listener.                     *)
Connect(c) ==
    /\ stop \in {"run", "cancelled"}
    /\ Unused(c)
    /\ phase' = [phase EXCEPT ![c] = "nego"]
    /\ key' = [key EXCEPT ![c] = Nil]
    /\ addr' = [addr EXCEPT ![c] = Nil]
    /\ sess' = [sess EXCEPT ![c] = "none"]
    /\ UNCHANGED <<serverSession, clientSession, sweepVars, streamVars, stop>>

(* The request does not parse, or its type is neither server nor client.   *)
NegoReject(c) ==
    /\ phase[c] = "nego"
    /\ phase' = [phase EXCEPT ![c] = "idle"]
    /\ UNCHANGED <<key, addr, sess, serverSession, clientSession, sweepVars, streamVars, stop>>

Closing(old, f) == IF old = Nil THEN f ELSE [f EXCEPT ![old] = "closed"]

(* Faulty: the session that was there is left alone. *)
ServerNegoKeeps(c, k, a) ==
    /\ phase[c] = "nego"
    /\ \A d \in Conns : addr[d] = a => sess[d] # "open"
    /\ phase' = [phase EXCEPT ![c] = "sreply"]
    /\ key' = [key EXCEPT ![c] = k]
    /\ addr' = [addr EXCEPT ![c] = a]
    /\ sess' = [sess EXCEPT ![c] = "open"]
    /\ serverSession' = [serverSession EXCEPT ![a] = c]
    /\ UNCHANGED <<clientSession, sweepVars, streamVars, stop>>

(* A server node: its session is stored under the peer's address, closing  *)
(* the one that was there.  Two connections that work have different       *)
(* addresses; one that has failed may still be in the table.               *)
ServerNego(c, k, a) ==
    /\ phase[c] = "nego"
    /\ \A d \in Conns : addr[d] = a => sess[d] # "open"
    /\ phase' = [phase EXCEPT ![c] = "sreply"]
    /\ key' = [key EXCEPT ![c] = k]
    /\ addr' = [addr EXCEPT ![c] = a]
    /\ sess' = Closing(serverSession[a], [sess EXCEPT ![c] = "open"])
    /\ serverSession' = [serverSession EXCEPT ![a] = c]
    /\ UNCHANGED <<clientSession, sweepVars, streamVars, stop>>

(* The reply is sent, well or not.  The node opens streams after it.       *)
ServerReply(c) ==
    /\ phase[c] = "sreply"
    /\ phase' = [phase EXCEPT ![c] = "accept"]
    /\ UNCHANGED <<key, addr, sess, serverSession, clientSession, sweepVars, streamVars, stop>>

(* AcceptStream returns a stream: proxyStream starts.                      *)
AcceptStream(c, t) ==
    /\ phase[c] = "accept"
    /\ sess[c] = "open"
    /\ pc[t] = "idle"
    /\ pc' = [pc EXCEPT ![t] = "bind"]
    /\ from' = [from EXCEPT ![t] = c]
    /\ tries' = [tries EXCEPT ![t] = 0]
    /\ UNCHANGED <<connVars, serverSession, clientSession, sweepVars, to, stop>>

(* Faulty: the address stays in the table. *)
ServerEndKeeps(c) ==
    /\ phase[c] = "accept"
    /\ sess[c] # "open"
    /\ phase' = [phase EXCEPT ![c] = "idle"]
    /\ sess' = [sess EXCEPT ![c] = "closed"]
    /\ UNCHANGED <<key, addr, serverSession, clientSession, sweepVars, streamVars, stop>>

(* AcceptStream fails: the deferred function removes the address from the  *)
(* table and closes the session.                                           *)
ServerEnd(c) ==
    /\ phase[c] = "accept"
    /\ sess[c] # "open"
    /\ phase' = [phase EXCEPT ![c] = "idle"]
    /\ serverSession' = [serverSession EXCEPT ![addr[c]] = Nil]
    /\ sess' = [sess EXCEPT ![c] = "closed"]
    /\ UNCHANGED <<key, addr, clientSession, sweepVars, streamVars, stop>>

(* A client node: the session is created, the reply sent, and the session  *)
(* stored under its key, closing the one that was there.                   *)
ClientNego(c, k) ==
    /\ phase[c] = "nego"
    /\ phase' = [phase EXCEPT ![c] = "creply"]
    /\ key' = [key EXCEPT ![c] = k]
    /\ sess' = [sess EXCEPT ![c] = "open"]
    /\ UNCHANGED <<addr, serverSession, clientSession, sweepVars, streamVars, stop>>

ClientReply(c) ==
    /\ phase[c] = "creply"
    /\ phase' = [phase EXCEPT ![c] = "upsert"]
    /\ UNCHANGED <<key, addr, sess, serverSession, clientSession, sweepVars, streamVars, stop>>

(* Faulty: the session that was there is left alone. *)
ClientUpsertKeeps(c) ==
    /\ phase[c] = "upsert"
    /\ phase' = [phase EXCEPT ![c] = "registered"]
    /\ Clients!Set(key[c], c)
    /\ UNCHANGED <<key, addr, sess, serverSession, sweepVars, streamVars, stop>>

ClientUpsert(c) ==
    /\ phase[c] = "upsert"
    /\ phase' = [phase EXCEPT ![c] = "registered"]
    /\ sess' = Closing(clientSession[key[c]], sess)
    /\ Clients!Set(key[c], c)
    /\ UNCHANGED <<key, addr, serverSession, sweepVars, streamVars, stop>>

-----------------------------------------------------------------------------
(* The sweep: Manager.Watch with the callback of NewBridge.  It ends with  *)
(* the context, between two sweeps.                                        *)
SweepTick ==
    /\ ~CtxDone
    /\ Clients!Tick
    /\ UNCHANGED <<connVars, serverSession, streamVars, stop>>

(* Faulty: the callback dooms the sessions that work. *)
SweepVisitOpen(k) ==
    /\ scan[k] # Nil
    /\ Clients!Visit(k, sess[scan[k]] = "open")
    /\ UNCHANGED <<connVars, serverSession, streamVars, stop>>

SweepVisit(k) ==
    /\ scan[k] # Nil
    /\ Clients!Visit(k, sess[scan[k]] = "closed")
    /\ UNCHANGED <<connVars, serverSession, streamVars, stop>>

SweepDelete ==
    /\ Clients!Delete
    /\ UNCHANGED <<connVars, serverSession, streamVars, stop>>

Sweep == SweepTick \/ (\E k \in Keys : SweepVisit(k)) \/ SweepDelete

-----------------------------------------------------------------------------
(* proxyStream *)

(* The deferred closes: both streams are gone.                             *)
Release(t) ==
    /\ pc' = [pc EXCEPT ![t] = "idle"]
    /\ from' = [from EXCEPT ![t] = Nil]
    /\ to' = [to EXCEPT ![t] = Nil]
    /\ UNCHANGED tries

(* Faulty: retries are not counted. *)
AgainForever(t) ==
    IF ~CtxDone
    THEN /\ pc' = [pc EXCEPT ![t] = "backoff"]
         /\ to' = [to EXCEPT ![t] = Nil]
         /\ UNCHANGED <<from, tries>>
    ELSE Release(t)

(* The attempt failed with an error that is not permanent.                 *)
Again(t) ==
    IF tries[t] < MaxRetries /\ ~CtxDone
    THEN /\ pc' = [pc EXCEPT ![t] = "backoff"]
         /\ to' = [to EXCEPT ![t] = Nil]
         /\ tries' = [tries EXCEPT ![t] = @ + 1]
         /\ UNCHANGED from
    ELSE Release(t)

Retry(t) ==
    /\ pc[t] = "backoff"
    /\ pc' = [pc EXCEPT ![t] = "bind"]
    /\ UNCHANGED <<connVars, serverSession, clientSession, sweepVars, from, to, tries, stop>>

GiveUp(t) ==
    /\ pc[t] = "backoff"
    /\ CtxDone
    /\ Release(t)
    /\ UNCHANGED <<connVars, serverSession, clientSession, sweepVars, stop>>

(* Faulty: when no client has the key, another one will do. *)
LookupAny(t) ==
    /\ pc[t] = "bind"
    /\ \E k \in Keys :
        /\ clientSession[k] # Nil
        /\ pc' = [pc EXCEPT ![t] = "open"]
        /\ to' = [to EXCEPT ![t] = clientSession[k]]
        /\ UNCHANGED <<from, tries>>
    /\ UNCHANGED <<connVars, serverSession, clientSession, sweepVars, stop>>

(* The die channel of the incoming stream, then the lookup.                *)
Lookup(t) ==
    LET c == clientSession[key[from[t]]] IN
    /\ pc[t] = "bind"
    /\ IF sess[from[t]] = "closed" THEN Release(t)
       ELSE IF c = Nil THEN Again(t)
       ELSE /\ pc' = [pc EXCEPT ![t] = "open"]
            /\ to' = [to EXCEPT ![t] = c]
            /\ UNCHANGED <<from, tries>>
    /\ UNCHANGED <<connVars, serverSession, clientSession, sweepVars, stop>>

(* IsClosed and OpenStream on the session found, in the meantime perhaps   *)
(* replaced.                                                               *)
Open(t) ==
    /\ pc[t] = "open"
    /\ sess[to[t]] = "open"
    /\ pc' = [pc EXCEPT ![t] = "proxy"]
    /\ UNCHANGED <<connVars, serverSession, clientSession, sweepVars, from, to, tries, stop>>

(* A closed session is a permanent error; a broken one, a write time-out   *)
(* or exhausted stream ids are not.                                        *)
OpenFail(t) ==
    /\ pc[t] = "open"
    /\ IF sess[to[t]] = "closed" THEN Release(t) ELSE Again(t)
    /\ UNCHANGED <<connVars, serverSession, clientSession, sweepVars, stop>>

(* Binding.Proxy returns: an end was closed, or a session failed.          *)
ProxyEnd(t) ==
    /\ pc[t] = "proxy"
    /\ Release(t)
    /\ UNCHANGED <<connVars, serverSession, clientSession, sweepVars, stop>>

ProxyCut(t) ==
    /\ pc[t] = "proxy"
    /\ sess[from[t]] # "open" \/ sess[to[t]] # "open"
    /\ ProxyEnd(t)

ProxyStream(t) == Lookup(t) \/ Open(t) \/ OpenFail(t) \/ Retry(t) \/ GiveUp(t)

-----------------------------------------------------------------------------
(* smux: the connection of c fails or its peer closes it; the keep-alive   *)
(* timer closes a session that has failed.                                 *)
Break(c) ==
    /\ sess[c] = "open"
    /\ sess' = [sess EXCEPT ![c] = "broken"]
    /\ UNCHANGED <<phase, key, addr, serverSession, clientSession, sweepVars, streamVars, stop>>

KeepAlive(c) ==
    /\ sess[c] = "broken"
    /\ sess' = [sess EXCEPT ![c] = "closed"]
    /\ UNCHANGED <<phase, key, addr, serverSession, clientSession, sweepVars, streamVars, stop>>

(* Stop: cancel, close the listener, close the sessions of one table, then *)
(* those of the other.                                                     *)
StopCancel ==
    /\ stop = "run"
    /\ stop' = "cancelled"
    /\ UNCHANGED <<connVars, serverSession, clientSession, sweepVars, streamVars>>

StopListen ==
    /\ stop = "cancelled"
    /\ stop' = "deaf"
    /\ UNCHANGED <<connVars, serverSession, clientSession, sweepVars, streamVars>>

CloseAll(table, from_, to_) ==
    /\ stop = from_
    /\ stop' = to_
    /\ sess' = [c \in Conns |-> IF \E x \in DOMAIN table : table[x] = c
                                THEN "closed" ELSE sess[c]]
    /\ UNCHANGED <<phase, key, addr, serverSession, clientSession, sweepVars, streamVars>>

StopClients == CloseAll(clientSession, "deaf", "clients")

StopServers == CloseAll(serverSession, "clients", "stopped")

Stop == StopCancel \/ StopListen \/ StopClients \/ StopServers

-----------------------------------------------------------------------------
Handler(c) ==
    \/ NegoReject(c)
    \/ \E k \in Keys : ClientNego(c, k)
    \/ \E k \in Keys, a \in Addrs : ServerNego(c, k, a)
    \/ ServerReply(c)
    \/ ServerEnd(c)
    \/ ClientReply(c)
    \/ ClientUpsert(c)

Next ==
    \/ \E c \in Conns : Connect(c) \/ Handler(c) \/ Break(c) \/ KeepAlive(c)
    \/ \E c \in Conns, t \in Streams : AcceptStream(c, t)
    \/ \E t \in Streams : ProxyStream(t) \/ ProxyEnd(t)
    \/ Sweep
    \/ Stop

(* Goroutines run and timers fire.  Nodes need not connect, nor negotiate, *)
(* connections need not fail, and a joined pair may last.                  *)
Fairness ==
    /\ \A c \in Conns : /\ WF_vars(ServerReply(c) \/ ServerEnd(c))
                        /\ WF_vars(ClientReply(c) \/ ClientUpsert(c))
                        /\ WF_vars(KeepAlive(c))
    /\ \A t \in Streams : WF_vars(ProxyStream(t)) /\ WF_vars(ProxyCut(t))
    /\ WF_vars(Sweep)
    /\ WF_vars(Stop /\ CtxDone)

Spec == Init /\ [][Next]_vars /\ Fairness

-----------------------------------------------------------------------------
(* A stream is joined only to a stream of a client node with the secret    *)
(* key of the server node it came from, although clients of that key and   *)
(* of others connect, are replaced and are swept while proxyStream is      *)
(* between the lookup and OpenStream (bridge.go:242-267).                  *)
RoutedByKey ==
    \A t \in Streams : pc[t] \in {"open", "proxy"} =>
        /\ to[t] # Nil
        /\ key[from[t]] = key[to[t]]

(* No stream is opened on a client's session before the client has been    *)
(* sent its reply: frames ahead of the reply would be read as the reply    *)
(* (bridge.go:218-225).                                                    *)
ReplyFirst ==
    /\ \A k \in Keys : clientSession[k] # Nil => phase[clientSession[k]] = "registered"
    /\ \A t \in Streams : to[t] # Nil => phase[to[t]] = "registered"

(* The address table holds no session whose handler is gone, although      *)
(* handlers remove entries by address and replace each other's             *)
(* (bridge.go:184-198).                                                    *)
NoStaleServer ==
    \A a \in Addrs : serverSession[a] # Nil =>
        /\ phase[serverSession[a]] \in {"sreply", "accept"}
        /\ addr[serverSession[a]] = a

(* Both tables hold what may be used: a server session whose handler runs, *)
(* under its own address, and a client session whose node has its reply    *)
(* (bridge.go:184-198, 218-225).                                           *)
TablesHoldUsable == NoStaleServer /\ ReplyFirst

(* A client session that is not closed with it leaves its key in one way   *)
(* only: the sweep found an older session of the key closed, and removes   *)
(* the key after the client has registered again (bridge.go:69-76,         *)
(* 218-225, manager.go:41-50).                                             *)
LostOnlyInRace ==
    [][\A k \in Keys, c \in Conns :
         clientSession[k] = c /\ clientSession'[k] # c /\ sess'[c] # "closed" =>
            \E d \in Conns \ {c} : doomed = <<k, d>> /\ sess[d] = "closed" /\ key[d] = k]_vars

(* A server session that is not closed with it leaves the table, where     *)
(* Stop finds it, in one way only: the handler of an older connection of   *)
(* its address, which had failed, ends late and removes the address        *)
(* (bridge.go:184-198).                                                    *)
ServerLostToNamesake ==
    [][\A a \in Addrs, c \in Conns :
         serverSession[a] = c /\ serverSession'[a] # c /\ sess'[c] # "closed" =>
            \E d \in Conns \ {c} : addr[d] = a /\ sess[d] # "open"
                                  /\ phase[d] = "accept" /\ phase'[d] = "idle"]_vars

(* A stream accepted from a server node is joined or closed: lookups end   *)
(* (bridge.go:240-271).                                                    *)
StreamSettles ==
    \A t \in Streams : pc[t] = "bind" ~> pc[t] \in {"proxy", "idle"}

(* A client session that is closed leaves the table while the bridge runs, *)
(* also when no stream asks for it (bridge.go:69-76).                      *)
ClosedClientIsSwept ==
    \A k \in Keys, c \in Conns :
        (clientSession[k] = c /\ sess[c] = "closed") ~> (clientSession[k] # c \/ CtxDone)

(* A registered client whose session works is sooner or later the one      *)
(* found under its key: clientSession is the "sk ---> session" mapping     *)
(* (bridge.go:53), and nothing but the client's own session would tell the *)
(* client node that it has to register again.                              *)
ClientIsFound ==
    \A c \in Conns :
        (phase[c] = "registered" /\ sess[c] = "open") ~>
            ((\E k \in Keys : clientSession[k] = c) \/ sess[c] # "open" \/ CtxDone)

=============================================================================
