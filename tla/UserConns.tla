----------------------------- MODULE UserConns -----------------------------
(***************************************************************************)
(* The proxy services that relay one user connection each to a target:     *)
(* http (services/http/http.go), socks (services/socks/socks.go), sps      *)
(* (services/sps/sps.go) and the streams of tcp (services/tcp/tcp.go).     *)
(* They have one shape: Start checks the configuration, makes the parts    *)
(* (filter, load balancer, ssh client) and listens; a handler per          *)
(* connection reads the request, dials, answers or asks the parent, stores *)
(* the connection in userConns under the user's address and copies both    *)
(* ways until one way ends; Stop closes the parts and what is in           *)
(* userConns.  They differ in what is retried and in what is closed when,  *)
(* which is what the definitions named after each of them say.             *)
(*                                                                         *)
(* The UDP relays of sps are in SpsUdp, those of tcp in StreamUdp, the     *)
(* counts of the load balancer in Balanced.  A connection is "open", "eof" *)
(* (the other end closed it, or it failed) or "closed" (by this program).  *)
(* An ssh dial that answers after its time-out leaves a connection that no *)
(* goroutine has; such connections are not followed.                       *)
(***************************************************************************)
EXTENDS Naturals, FiniteSets

CONSTANTS Services,     \* the services and configurations that are started
          Conns,        \* user connections over the whole run; a bound
          Srcs,         \* addresses of users
          MaxRetries,   \* retries of a dial (5 in the code)
          Nil

(* A service has no parents, a set of them behind the load balancer, one   *)
(* ssh server, or one fixed parent; http, sps and tcp may reach parents    *)
(* through a socks5 proxy (the flag --proxy).                              *)
AllServices ==
    [kind : {"http", "socks"}, parent : {"none", "lb", "ssh"}, proxy : {FALSE}]
        \cup [kind : {"http", "sps"}, parent : {"lb"}, proxy : BOOLEAN]
        \cup [kind : {"tcp"}, parent : {"fixed"}, proxy : BOOLEAN]

ASSUME UserConnsAssumption ==
    /\ Services \subseteq AllServices
    /\ MaxRetries \in Nat
    /\ Nil \notin Conns

VARIABLES svc,      \* the service that was started
          phase,    \* how far Start has got
          part,     \* part[p]: the listeners, balancer, filter and ssh client
          ka,       \* the goroutine that keeps the ssh client alive
          stop,     \* how far Stop has got
          pc,       \* pc[c]: where the handler of c is
          src,      \* src[c]: the user's address, or Nil
          in, out,  \* in[c], out[c]: the user's connection and the target's
          via,      \* via[c]: how the target is dialled, or Nil
          tries,    \* retries the handler of c has used
          users     \* userConns: address -> connection, or Nil

startVars == <<svc, phase, part, ka>>
connVars == <<pc, src, in, out, via, tries, users>>
vars == <<startVars, stop, connVars>>

Parts == {"listener", "lb", "filters", "ssh"}

TypeOK ==
    /\ svc \in Services
    /\ phase \in {"new", "init", "listen", "run", "failing", "failed", "crashed"}
    /\ part \in [Parts -> {"none", "on", "closed"}]
    /\ ka \in {"off", "probe", "redial", "wait"}
    /\ stop \in {"no", "cancelled", "parts", "done"}
    /\ pc \in [Conns -> {"idle", "request", "dial", "greet", "backoff", "ask",
                         "register", "proxy", "release", "close", "done"}]
    /\ src \in [Conns -> Srcs \cup {Nil}]
    /\ in \in [Conns -> {"none", "open", "eof", "closed"}]
    /\ out \in [Conns -> {"none", "open", "eof", "closed", "left"}]
    /\ via \in [Conns -> {Nil, "direct", "lb", "ssh", "fixed"}]
    /\ tries \in [Conns -> 0..MaxRetries]
    /\ users \in [Srcs -> Conns \cup {Nil}]

Init ==
    /\ svc \in Services
    /\ phase = "new"
    /\ part = [p \in Parts |-> "none"]
    /\ ka = "off"
    /\ stop = "no"
    /\ pc = [c \in Conns |-> "idle"]
    /\ src = [c \in Conns |-> Nil]
    /\ in = [c \in Conns |-> "none"]
    /\ out = [c \in Conns |-> "none"]
    /\ via = [c \in Conns |-> Nil]
    /\ tries = [c \in Conns |-> 0]
    /\ users = [a \in Srcs |-> Nil]

Is(kind) == svc.kind = kind
CtxDone == stop # "no" /\ ~Is("sps")    \* sps has no context

-----------------------------------------------------------------------------
(* Start *)

(* What Start does with an error: http and socks call Stop, tcp cancels    *)
(* its context, sps only returns.                                          *)
StartFails ==
    IF Is("http") \/ Is("socks")
    THEN phase' = "failing" /\ stop' = "cancelled"
    ELSE phase' = "failed" /\ stop' = IF Is("tcp") THEN "done" ELSE stop

(* The checks of a configuration pass, or one of them fails.               *)
Inspected ==
    \/ phase' = "init" /\ UNCHANGED stop
    \/ StartFails

HttpInspectConfig == Is("http") /\ Inspected
SocksInspectConfig == Is("socks") /\ Inspected
SpsInspectConfig == Is("sps") /\ Inspected
TcpInspectConfig == Is("tcp") /\ Inspected

InspectConfig ==
    /\ phase = "new"
    /\ HttpInspectConfig \/ SocksInspectConfig \/ SpsInspectConfig \/ TcpInspectConfig
    /\ UNCHANGED <<svc, part, ka, connVars>>

Made(ps) == [p \in Parts |-> IF p \in ps THEN "on" ELSE part[p]]

(* The parts ps were made; an ssh client has its keepalive goroutine.      *)
Initialised(ps) ==
    /\ phase' = "listen"
    /\ part' = Made(ps)
    /\ ka' = IF "ssh" \in ps THEN "probe" ELSE ka
    /\ UNCHANGED stop

InitFails(ps) ==
    /\ StartFails
    /\ part' = Made(ps)
    /\ ka' = IF "ssh" \in ps THEN "probe" ELSE ka

(* Parents get a filter and a balancer, then the ssh client is dialled.    *)
(* The error of a direct file that cannot be read is logged, and is still  *)
(* in err when the function returns.                                       *)
ParentParts ==
    CASE svc.parent = "none" -> {}
      [] svc.parent = "lb" -> {"filters", "lb"}
      [] svc.parent = "ssh" -> {"filters", "lb", "ssh"}

InitParents ==
    \/ Initialised(ParentParts)
    \/ svc.parent # "none" /\ InitFails(ParentParts)
    \/ svc.parent = "ssh" /\ InitFails(ParentParts \ {"ssh"})

(* http ends when the authentication file cannot be read, before parents.  *)
HttpInit == Is("http") /\ (InitFails({}) \/ InitParents)

SocksInit == Is("socks") /\ InitParents

(* Authentication data of a parent does not decode; ciphers are made after *)
(* the balancer.                                                           *)
SpsInit ==
    /\ Is("sps")
    /\ Initialised({"lb"}) \/ InitFails({}) \/ InitFails({"lb"})

TcpInit == Is("tcp") /\ Initialised({})

InitService ==
    /\ phase = "init"
    /\ HttpInit \/ SocksInit \/ SpsInit \/ TcpInit
    /\ UNCHANGED <<svc, connVars>>

Listening(next) ==
    /\ part' = [part EXCEPT !["listener"] = "on"]
    /\ phase' \in next
    /\ UNCHANGED stop

(* Faulty: Start returns the error of Listen as it is. *)
HttpListenReturns ==
    /\ Is("http")
    /\ \/ Listening({"listen", "run"})
       \/ phase' = "failed" /\ UNCHANGED <<part, stop>>

(* A listener is opened; http and sps have one or more, and serve on the   *)
(* first before the last is open.                                          *)
HttpListen ==
    /\ Is("http")
    /\ Listening({"listen", "run"}) \/ (StartFails /\ UNCHANGED part)

SocksListen == Is("socks") /\ (Listening({"run"}) \/ (StartFails /\ UNCHANGED part))

(* sps also starts the UDP relay of the address, which can fail.           *)
SpsListen ==
    /\ Is("sps")
    /\ \/ Listening({"listen", "run"})
       \/ StartFails /\ part' \in {part, [part EXCEPT !["listener"] = "on"]}

TcpListen == Is("tcp") /\ (Listening({"run"}) \/ (StartFails /\ UNCHANGED part))

Listen ==
    /\ phase = "listen"
    /\ HttpListen \/ SocksListen \/ SpsListen \/ TcpListen
    /\ UNCHANGED <<svc, ka, connVars>>

-----------------------------------------------------------------------------
(* Stop *)

StopCancel ==
    /\ phase = "run" /\ stop = "no"
    /\ stop' = "cancelled"
    /\ UNCHANGED <<startVars, connVars>>

Closed(ps) ==
    [p \in Parts |-> IF p \in ps /\ part[p] = "on" THEN "closed" ELSE part[p]]

(* Connections through the ssh client end with it.                         *)
SshEnds ==
    out' = [c \in Conns |-> IF via[c] = "ssh" /\ out[c] = "open" THEN "eof" ELSE out[c]]

(* The filter is closed when there are parents and the ssh client when     *)
(* they are reached by ssh, whether or not Start got to make them: a call  *)
(* on what is not there crashes the program.                               *)
HttpStop ==
    /\ Is("http")
    /\ IF \/ svc.parent # "none" /\ part["filters"] = "none"
          \/ svc.parent = "ssh" /\ part["ssh"] = "none"
       THEN phase' = "crashed" /\ UNCHANGED part
       ELSE part' = Closed(Parts) /\ UNCHANGED phase
    /\ SshEnds

SocksStop ==
    /\ Is("socks")
    /\ IF svc.parent = "ssh" /\ part["ssh"] = "none"
       THEN phase' = "crashed" /\ UNCHANGED part
       ELSE part' = Closed(Parts) /\ UNCHANGED phase
    /\ SshEnds

(* The balancer of sps is closed after the connections; nothing here       *)
(* depends on that order.                                                  *)
SpsStop ==
    /\ Is("sps")
    /\ part' = Closed({"listener", "lb"})
    /\ UNCHANGED <<phase, out>>

TcpStop ==
    /\ Is("tcp")
    /\ part' = Closed({"listener"})
    /\ UNCHANGED <<phase, out>>

StopParts ==
    /\ stop = "cancelled" /\ phase # "crashed"
    /\ HttpStop \/ SocksStop \/ SpsStop \/ TcpStop
    /\ stop' = IF phase' = "crashed" THEN "done" ELSE "parts"
    /\ UNCHANGED <<svc, ka, pc, src, in, via, tries, users>>

(* Faulty: the connections are left alone. *)
StopUsersNone ==
    /\ stop = "parts"
    /\ stop' = "done"
    /\ phase' = IF phase = "failing" THEN "failed" ELSE phase
    /\ UNCHANGED <<svc, part, ka, connVars>>

(* What is in userConns is closed; a failed Start returns its error.       *)
StopUsers ==
    /\ stop = "parts"
    /\ stop' = "done"
    /\ phase' = IF phase = "failing" THEN "failed" ELSE phase
    /\ in' = [c \in Conns |-> IF \E a \in Srcs : users[a] = c THEN "closed" ELSE in[c]]
    /\ UNCHANGED <<svc, part, ka, pc, src, out, via, tries, users>>

-----------------------------------------------------------------------------
(* The keepalive goroutine of the ssh client (http and socks) *)

(* A plain connection to the parent shows whether it can be reached.  When *)
(* not, the client is closed and dialled again.                            *)
Probe ==
    /\ ka = "probe"
    /\ \/ ka' = "wait" /\ UNCHANGED <<part, out>>
       \/ /\ ka' = "redial"
          /\ part' = [part EXCEPT !["ssh"] = "closed"]
          /\ SshEnds
    /\ UNCHANGED <<svc, phase, stop, pc, src, in, via, tries, users>>

Redial ==
    /\ ka = "redial"
    /\ ka' = "wait"
    /\ part' \in {part, [part EXCEPT !["ssh"] = "on"]}
    /\ UNCHANGED <<svc, phase, stop, connVars>>

Tick ==
    /\ ka = "wait"
    /\ ka' = "probe"
    /\ UNCHANGED <<svc, phase, part, stop, connVars>>

KeepaliveEnds ==
    /\ ka = "wait" /\ CtxDone
    /\ ka' = "off"
    /\ UNCHANGED <<svc, phase, part, stop, connVars>>

-----------------------------------------------------------------------------
(* The handler of a connection *)

(* A user connects.  An address can be used again once the user has closed *)
(* its end of the older connection.                                        *)
Accept(c, a) ==
    /\ part["listener"] = "on"
    /\ pc[c] = "idle"
    /\ \A d \in Conns : src[d] = a => in[d] # "open"
    /\ pc' = [pc EXCEPT ![c] = "request"]
    /\ src' = [src EXCEPT ![c] = a]
    /\ in' = [in EXCEPT ![c] = "open"]
    /\ UNCHANGED <<startVars, stop, out, via, tries, users>>

(* The handler returns before the connection is stored.                    *)
Drop(c) ==
    /\ pc' = [pc EXCEPT ![c] = "close"]
    /\ UNCHANGED <<src, in, via, tries, users>>

Route(c, r) ==
    /\ pc' = [pc EXCEPT ![c] = "dial"]
    /\ via' = [via EXCEPT ![c] = r]
    /\ UNCHANGED <<src, in, out, tries, users>>

(* isUseProxy: never without parents; with them a target on the intranet   *)
(* is dialled directly, and the filter or Always decides about the others. *)
Routes == IF svc.parent = "none" THEN {"direct"} ELSE {"direct", svc.parent}

(* The request does not decode, the user is not authorised, or the target  *)
(* is this listener; else the filter chooses the route.                    *)
HttpRequest(c) ==
    /\ Is("http")
    /\ (Drop(c) /\ UNCHANGED out) \/ \E r \in Routes : Route(c, r)

SocksRequest(c) ==
    /\ Is("socks")
    /\ (Drop(c) /\ UNCHANGED out) \/ \E r \in Routes : Route(c, r)

(* Socks5, http or shadowsocks, as the first bytes say, each of which can  *)
(* be disabled or fail.                                                    *)
SpsRequest(c) == Is("sps") /\ ((Drop(c) /\ UNCHANGED out) \/ Route(c, "lb"))

TcpRequest(c) == Is("tcp") /\ Route(c, "fixed")

Request(c) ==
    /\ pc[c] = "request"
    /\ HttpRequest(c) \/ SocksRequest(c) \/ SpsRequest(c) \/ TcpRequest(c)
    /\ UNCHANGED <<startVars, stop>>

(* A parent of socks, or a socks5 proxy before a parent, is greeted.       *)
Greets(c) == via[c] # "direct" /\ (Is("socks") \/ svc.proxy)

AfterDial == IF Is("tcp") THEN "register" ELSE "ask"

Dialled(c) ==
    /\ pc' = [pc EXCEPT ![c] = IF Greets(c) THEN "greet" ELSE AfterDial]
    /\ out' = [out EXCEPT ![c] = "open"]
    /\ UNCHANGED <<src, in, via, tries, users>>

Backoff(c) ==
    /\ pc' = [pc EXCEPT ![c] = "backoff"]
    /\ tries' = [tries EXCEPT ![c] = @ + 1]
    /\ UNCHANGED <<src, in, via, users>>

(* dialParent: an ssh client that was closed dials nothing.                *)
HttpDialParent(c) == (via[c] = "ssh" => part["ssh"] = "on") /\ Dialled(c)
SocksDialParent(c) == (via[c] = "ssh" => part["ssh"] = "on") /\ Dialled(c)

(* Faulty: the retries are not counted. *)
HttpRetryForever(c) ==
    /\ Is("http")
    /\ \/ /\ via[c] # "direct" /\ ~CtxDone
          /\ pc' = [pc EXCEPT ![c] = "backoff"]
          /\ UNCHANGED <<src, in, via, tries, users>>
       \/ (via[c] = "direct" \/ CtxDone) /\ Drop(c)

(* A parent is tried again until the retries are used up or Stop cancels.  *)
HttpRetry(c) ==
    /\ Is("http")
    /\ \/ via[c] # "direct" /\ tries[c] < MaxRetries /\ ~CtxDone /\ Backoff(c)
       \/ (via[c] = "direct" \/ tries[c] = MaxRetries \/ CtxDone) /\ Drop(c)

SocksRetry(c) ==
    /\ Is("socks")
    /\ \/ via[c] # "direct" /\ tries[c] < MaxRetries /\ ~CtxDone /\ Backoff(c)
       \/ (via[c] = "direct" \/ tries[c] = MaxRetries \/ CtxDone) /\ Drop(c)

(* A dial failed: sps and tcp do not try again.                            *)
DialFails(c) == HttpRetry(c) \/ SocksRetry(c) \/ ((Is("sps") \/ Is("tcp")) /\ Drop(c))

HttpDial(c) == Is("http") /\ (HttpDialParent(c) \/ (DialFails(c) /\ UNCHANGED out))

SocksDial(c) == Is("socks") /\ (SocksDialParent(c) \/ (DialFails(c) /\ UNCHANGED out))

SpsDial(c) == Is("sps") /\ (Dialled(c) \/ (DialFails(c) /\ UNCHANGED out))

TcpDial(c) == Is("tcp") /\ (Dialled(c) \/ (DialFails(c) /\ UNCHANGED out))

Dial(c) ==
    /\ pc[c] = "dial"
    /\ HttpDial(c) \/ SocksDial(c) \/ SpsDial(c) \/ TcpDial(c)
    /\ UNCHANGED <<startVars, stop>>

(* The SOCKS5 handshake, for which nothing sets a deadline.  The dial has  *)
(* failed with it, and the connection is closed.                           *)
Greet(c) ==
    /\ pc[c] = "greet"
    /\ \/ /\ pc' = [pc EXCEPT ![c] = AfterDial]
          /\ UNCHANGED <<src, in, out, via, tries, users>>
       \/ DialFails(c) /\ out' = [out EXCEPT ![c] = "closed"]
    /\ UNCHANGED <<startVars, stop>>

(* The second of the constant backoff passes, or Stop cancels.             *)
Wake(c) ==
    /\ pc[c] = "backoff"
    /\ \/ pc' = [pc EXCEPT ![c] = "dial"]
       \/ CtxDone /\ pc' = [pc EXCEPT ![c] = "close"]
    /\ UNCHANGED <<startVars, stop, src, in, out, via, tries, users>>

Answered(c) ==
    /\ pc' = [pc EXCEPT ![c] = "register"]
    /\ UNCHANGED <<src, in, out, via, tries, users>>

Shut(f, c) == [f EXCEPT ![c] = IF @ = "none" THEN "none" ELSE "closed"]

(* The answer to CONNECT or the forwarded header; the target of a failed   *)
(* one is left as it is.                                                   *)
HttpAsk(c) == Is("http") /\ (Answered(c) \/ (Drop(c) /\ UNCHANGED out))

(* The reply; closing the target is deferred before it is sent.            *)
SocksAsk(c) == Is("socks") /\ (Answered(c) \/ (Drop(c) /\ out' = Shut(out, c)))

(* The parent, by its own protocol, is asked for the target.  An http      *)
(* parent that fails is closed, a socks or shadowsocks one is left.        *)
SpsAsk(c) ==
    /\ Is("sps")
    /\ Answered(c) \/ (Drop(c) /\ out' \in {out, Shut(out, c)})

Ask(c) ==
    /\ pc[c] = "ask"
    /\ HttpAsk(c) \/ SocksAsk(c) \/ SpsAsk(c)
    /\ UNCHANGED <<startVars, stop>>

(* Faulty: an address that is in the table keeps its connection. *)
RegisterIfAbsent(c) ==
    /\ pc[c] = "register"
    /\ pc' = [pc EXCEPT ![c] = "proxy"]
    /\ users' = [users EXCEPT ![src[c]] = IF @ = Nil THEN c ELSE @]
    /\ UNCHANGED <<startVars, stop, src, in, out, via, tries>>

(* userConns.Upsert closes the connection it displaces; Proxy starts.      *)
Register(c) ==
    /\ pc[c] = "register"
    /\ pc' = [pc EXCEPT ![c] = "proxy"]
    /\ in' = IF users[src[c]] = Nil THEN in ELSE [in EXCEPT ![users[src[c]]] = "closed"]
    /\ users' = [users EXCEPT ![src[c]] = c]
    /\ UNCHANGED <<startVars, stop, src, out, via, tries>>

(* Proxy returns with the first of its two copies to end: each does when   *)
(* the connection it reads from ends.                                      *)
CopyEnd(c) ==
    /\ pc[c] = "proxy"
    /\ in[c] # "open" \/ out[c] # "open"
    /\ pc' = [pc EXCEPT ![c] = "release"]
    /\ UNCHANGED <<startVars, stop, src, in, out, via, tries, users>>

(* The deferred calls: the address is removed from userConns, whichever    *)
(* connection is under it; socks and tcp close the target.                 *)
Release(c) ==
    /\ pc[c] = "release"
    /\ pc' = [pc EXCEPT ![c] = "close"]
    /\ users' = [users EXCEPT ![src[c]] = Nil]
    /\ out' = IF Is("socks") \/ Is("tcp") THEN Shut(out, c) ELSE out
    /\ UNCHANGED <<startVars, stop, src, in, via, tries>>

(* The handler returns, and its locals are gone.  A target that http or    *)
(* sps has not closed is left to the copy that still reads from it.        *)
Close(c) ==
    /\ pc[c] = "close"
    /\ pc' = [pc EXCEPT ![c] = "done"]
    /\ in' = [in EXCEPT ![c] = "closed"]
    /\ via' = [via EXCEPT ![c] = Nil]
    /\ tries' = [tries EXCEPT ![c] = 0]
    /\ out' = [out EXCEPT ![c] = IF @ \in {"open", "eof"} THEN "left" ELSE @]
    /\ UNCHANGED <<startVars, stop, src, users>>

(* The user or the target closes its end, or the network fails.  Before    *)
(* Proxy a target's failure shows as that of asking it.                    *)
Hangup(c) ==
    /\ in[c] = "open"
    /\ in' = [in EXCEPT ![c] = "eof"]
    /\ UNCHANGED <<startVars, stop, pc, src, out, via, tries, users>>

TargetEnds(c) ==
    /\ pc[c] = "proxy"
    /\ out[c] = "open"
    /\ out' = [out EXCEPT ![c] = "eof"]
    /\ UNCHANGED <<startVars, stop, pc, src, in, via, tries, users>>

-----------------------------------------------------------------------------
Start == InspectConfig \/ InitService \/ Listen
Stop == StopParts \/ StopUsers
Keepalive == Probe \/ Redial \/ Tick \/ KeepaliveEnds
Handle(c) == Request(c) \/ Dial(c) \/ Greet(c) \/ Wake(c) \/ Ask(c)
             \/ Register(c) \/ CopyEnd(c) \/ Release(c) \/ Close(c)

Next ==
    \/ Start \/ StopCancel \/ Stop \/ Keepalive
    \/ \E c \in Conns :
        \/ Handle(c) \/ Hangup(c) \/ TargetEnds(c)
        \/ \E a \in Srcs : Accept(c, a)

(* Goroutines run, a TCP dial and asking a parent have time-outs, peers    *)
(* take what is sent to them, a read at the end of a connection returns,   *)
(* and a select with several ready channels takes each of them sometimes.  *)
(* A user that stays connected need not send a request, and a peer that    *)
(* stays connected need not answer a handshake without a deadline: that of *)
(* SOCKS5 and that of ssh.                                                 *)
Silent(c) == \/ pc[c] = "request" /\ in[c] = "open"
             \/ pc[c] = "greet" /\ out[c] = "open"

Fairness ==
    /\ WF_vars(Stop)
    /\ WF_vars(Probe) /\ SF_vars(KeepaliveEnds)
    /\ \A c \in Conns : WF_vars(~Silent(c) /\ Handle(c))

Spec == Init /\ [][Next]_vars /\ Fairness

-----------------------------------------------------------------------------
(* userConns has no connection whose handler has let go of it, and each    *)
(* under its own address, whatever displacements, releases and Stop did    *)
(* (http.go:473-490, socks.go:421-438, sps.go:589-602, tcp.go:241-252): an *)
(* entry that stays would keep the connection in memory for good.          *)
TableHasLive ==
    \A a \in Srcs : users[a] # Nil => src[users[a]] = a /\ pc[users[a]] \in {"proxy", "release"}

(* A working connection is in the table, where Stop finds it, unless an    *)
(* older connection of the same address, displaced by it or not, has run   *)
(* its deferred Remove since: the one way the services lose track of a     *)
(* connection (http.go:485, socks.go:434, sps.go:600, tcp.go:251).         *)
UntrackedOnlyByNamesake ==
    \A c \in Conns :
        pc[c] = "proxy" /\ in[c] = "open" /\ users[src[c]] # c =>
            \E d \in Conns \ {c} : src[d] = src[c] /\ pc[d] \in {"close", "done"}

(* userConns and the handlers agree: what is in it runs, and what runs is  *)
(* in it unless the deferred Remove of a namesake took it out              *)
(* (http.go:473-490, socks.go:421-438, sps.go:589-602, tcp.go:241-252).    *)
TableInStep == TableHasLive /\ UntrackedOnlyByNamesake

(* socks and tcp leave no connection to a target behind, on any of the     *)
(* paths on which their handlers end (socks.go:407, tcp.go:250).           *)
TargetIsClosed ==
    \A c \in Conns :
        pc[c] = "done" /\ (Is("socks") \/ Is("tcp")) => out[c] \in {"none", "closed"}

(* A Start of http, socks or tcp that returned an error has no listener,   *)
(* balancer or filter running, at whichever point it failed                *)
(* (http.go:314-318, socks.go:307-311, tcp.go:156-160).                    *)
FailedStartIsClean ==
    phase = "failed" /\ ~Is("sps") =>
        \A p \in {"listener", "lb", "filters"} : part[p] # "on"

(* What has ended, a handler or a Start that failed, has released what it  *)
(* acquired, at whichever of its early returns it ended (socks.go:391-438, *)
(* tcp.go:231-258; http.go:314-350, socks.go:307-350, tcp.go:156-190).     *)
EndedHasReleased == TargetIsClosed /\ FailedStartIsClean

(* A handler ends once its user is gone, or its connection was closed      *)
(* because another displaced it or by Stop: no retry, dial or copy keeps   *)
(* it (http.go:380-493, socks.go:391-509, sps.go:361-604, tcp.go:231-258). *)
(* One thing does: a parent or proxy that stays connected and leaves the   *)
(* SOCKS5 handshake unanswered for ever (socks.go:483-489, css.go:46-53).  *)
HandlerEnds ==
    \A c \in Conns :
        in[c] \in {"eof", "closed"} ~> (pc[c] = "done" \/ [](pc[c] = "greet"))

(* Stop, also of a failed Start, ends the handlers of what is in the table *)
(* when it starts to close, unless an older connection of the address      *)
(* removes the entry first                                                 *)
(* (http.go:374-376, socks.go:372-374, sps.go:330-334, tcp.go:202-210).    *)
StopEndsRegistered ==
    \A a \in Srcs, c \in Conns :
        (stop = "parts" /\ users[a] = c) ~>
            (pc[c] = "done" \/ \E d \in Conns \ {c} : src[d] = a /\ pc[d] \in {"close", "done"})

(* Stop ends the keepalive goroutine, also when it fails to dial, unless   *)
(* the server leaves the ssh handshake of that dial unanswered for ever    *)
(* (http.go:281-306, socks.go:273-298; http.go:597-605, socks.go:614-623). *)
StopEndsKeepalive == CtxDone ~> (ka = "off" \/ [](ka = "redial"))

(* Stop ends the goroutines the service knows of: the handlers in          *)
(* userConns and the keepalive of the ssh client (http.go:358-378,         *)
(* socks.go:356-376, sps.go:324-341, tcp.go:195-212).                      *)
StopEnds == StopEndsRegistered /\ StopEndsKeepalive

=============================================================================
