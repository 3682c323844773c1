------------------------------ MODULE UdpRelay ------------------------------
(***************************************************************************)
(* The UDP service (services/udp/udp.go).  Every datagram that arrives on  *)
(* the local socket is handled by its own goroutine, which finds or        *)
(* creates the connection to the parent for the datagram's source address  *)
(* and writes the datagram to it.  Finding and creating run inside         *)
(* single.Do, so that datagrams of one source share one attempt.  A        *)
(* receiver goroutine per connection carries the parent's answers back; a  *)
(* connection.Manager closes connections that were idle for udpIdleTime.   *)
(*                                                                         *)
(* proxyUdp2Stream and proxyUdp2Udp differ in how the parent is dialled,   *)
(* in the framing, and in that the latter also ends its receiver when      *)
(* writing to the local socket fails; all of these are one action here.    *)
(* Time is a flag: stale[c] says that lastActiveTime of c is more than     *)
(* udpIdleTime ago.                                                        *)
(***************************************************************************)
EXTENDS Naturals, FiniteSets

CONSTANTS Srcs,       \* source addresses
          Conns,      \* connections to the parent in use at a time; a bound
          Handlers,   \* handler goroutines at a time; a bound
          Nil

ASSUME RelayAssumption == Nil \notin Srcs \cup Conns \cup Handlers

VARIABLES conns,          \* source address -> connection, or Nil
          scan, doomed,   \* the sweep of conns, see ConnManager
          single,         \* single[s]: the handler that runs the function, or Nil
          pc,             \* pc[h]: where handler h is
          src,            \* src[h]: the source of its datagram, or Nil
          item,           \* item[h]: the connection it has, or Nil
          link,           \* link[c]: the connection to the parent
          owner,          \* owner[c]: the source c was created for, or Nil
          recv,           \* recv[c]: where the receiver of c is
          stale,          \* stale[c]: c was idle for too long
          stop            \* how far Stop has got

sweepVars == <<scan, doomed>>
handlerVars == <<single, pc, src, item>>
linkVars == <<link, owner, recv, stale>>
vars == <<conns, sweepVars, handlerVars, linkVars, stop>>

Table == INSTANCE ConnManager WITH Keys <- Srcs, Values <- Conns, table <- conns

TypeOK ==
    /\ Table!MgrTypeOK
    /\ single \in [Srcs -> Handlers \cup {Nil}]
    /\ pc \in [Handlers -> {"idle", "do", "get", "dial", "set", "start", "wait", "write"}]
    /\ src \in [Handlers -> Srcs \cup {Nil}]
    /\ item \in [Handlers -> Conns \cup {Nil}]
    /\ link \in [Conns -> {"open", "closed"}]
    /\ owner \in [Conns -> Srcs \cup {Nil}]
    /\ recv \in [Conns -> {"off", "on", "close"}]
    /\ stale \in [Conns -> BOOLEAN]
    /\ stop \in {"run", "cancelled", "deaf", "stopped"}

Init ==
    /\ Table!MgrInit
    /\ single = [s \in Srcs |-> Nil]
    /\ pc = [h \in Handlers |-> "idle"]
    /\ src = [h \in Handlers |-> Nil]
    /\ item = [h \in Handlers |-> Nil]
    /\ link = [c \in Conns |-> "closed"]
    /\ owner = [c \in Conns |-> Nil]
    /\ recv = [c \in Conns |-> "off"]
    /\ stale = [c \in Conns |-> FALSE]
    /\ stop = "run"

CtxDone == stop # "run"

-----------------------------------------------------------------------------
(* A datagram is read from the local socket and a handler started.         *)
Datagram(h, s) ==
    /\ stop \in {"run", "cancelled"}
    /\ pc[h] = "idle"
    /\ pc' = [pc EXCEPT ![h] = "do"]
    /\ src' = [src EXCEPT ![h] = s]
    /\ UNCHANGED <<conns, sweepVars, single, item, linkVars, stop>>

(* Faulty: every handler runs the function. *)
DoAll(h) ==
    /\ pc[h] = "do"
    /\ single' = [single EXCEPT ![src[h]] = h]
    /\ pc' = [pc EXCEPT ![h] = "get"]
    /\ UNCHANGED <<conns, sweepVars, src, item, linkVars, stop>>

(* single.Do: the first caller for a source runs the function, the others  *)
(* wait for its result.                                                    *)
Do(h) ==
    /\ pc[h] = "do"
    /\ IF single[src[h]] = Nil
       THEN /\ single' = [single EXCEPT ![src[h]] = h]
            /\ pc' = [pc EXCEPT ![h] = "get"]
       ELSE /\ pc' = [pc EXCEPT ![h] = "wait"]
            /\ UNCHANGED single
    /\ UNCHANGED <<conns, sweepVars, src, item, linkVars, stop>>

(* Faulty: the result goes to the caller only. *)
SharingNone(h) == {h}

(* The handlers that share the function's result with h.                   *)
Sharing(h) == {g \in Handlers : g = h \/ (pc[g] = "wait" /\ src[g] = src[h])}

(* The function returns connection c to all who share the call, or an      *)
(* error, at which they return.                                            *)
Return(h, c) ==
    /\ single' = [single EXCEPT ![src[h]] = Nil]
    /\ item' = [g \in Handlers |-> IF g \in Sharing(h) THEN c ELSE item[g]]
    /\ IF c # Nil
       THEN /\ pc' = [g \in Handlers |-> IF g \in Sharing(h) THEN "write" ELSE pc[g]]
            /\ UNCHANGED src
       ELSE /\ pc' = [g \in Handlers |-> IF g \in Sharing(h) THEN "idle" ELSE pc[g]]
            /\ src' = [g \in Handlers |-> IF g \in Sharing(h) THEN Nil ELSE src[g]]

(* conns.Get                                                               *)
Get(h) ==
    /\ pc[h] = "get"
    /\ IF conns[src[h]] # Nil
       THEN Return(h, conns[src[h]])
       ELSE /\ pc' = [pc EXCEPT ![h] = "dial"]
            /\ UNCHANGED <<single, src, item>>
    /\ UNCHANGED <<conns, sweepVars, linkVars, stop>>

(* No goroutine and no table refers to c: a new one may take its name.     *)
Unused(c) ==
    /\ link[c] = "closed"
    /\ recv[c] = "off"
    /\ \A h \in Handlers : item[h] # c
    /\ \A s \in Srcs : conns[s] # c /\ scan[s] # c /\ doomed # <<s, c>>

Dial(h, c) ==
    /\ pc[h] = "dial"
    /\ Unused(c)
    /\ pc' = [pc EXCEPT ![h] = "set"]
    /\ item' = [item EXCEPT ![h] = c]
    /\ link' = [link EXCEPT ![c] = "open"]
    /\ owner' = [owner EXCEPT ![c] = src[h]]
    /\ stale' = [stale EXCEPT ![c] = FALSE]
    /\ UNCHANGED <<conns, sweepVars, single, src, recv, stop>>

DialFail(h) ==
    /\ pc[h] = "dial"
    /\ Return(h, Nil)
    /\ UNCHANGED <<conns, sweepVars, linkVars, stop>>

(* conns.Set                                                               *)
SetItem(h) ==
    /\ pc[h] = "set"
    /\ Table!Set(src[h], item[h])
    /\ pc' = [pc EXCEPT ![h] = "start"]
    /\ UNCHANGED <<sweepVars, single, src, item, linkVars, stop>>

(* The receiver starts, and the function returns.                          *)
StartReceiver(h) ==
    /\ pc[h] = "start"
    /\ recv' = [recv EXCEPT ![item[h]] = "on"]
    /\ Return(h, item[h])
    /\ UNCHANGED <<conns, sweepVars, link, owner, stale, stop>>

(* The datagram is written to the connection, or the write fails.          *)
Write(h) ==
    /\ pc[h] = "write"
    /\ stale' = [stale EXCEPT ![item[h]] = FALSE]
    /\ pc' = [pc EXCEPT ![h] = "idle"]
    /\ src' = [src EXCEPT ![h] = Nil]
    /\ item' = [item EXCEPT ![h] = Nil]
    /\ UNCHANGED <<conns, sweepVars, single, link, owner, recv, stop>>

-----------------------------------------------------------------------------
(* The receiver of c: an answer arrives.                                   *)
Receive(c) ==
    /\ recv[c] = "on"
    /\ link[c] = "open"
    /\ stale' = [stale EXCEPT ![c] = FALSE]
    /\ UNCHANGED <<conns, sweepVars, handlerVars, link, owner, recv, stop>>

(* Reading fails, because c was closed or for another reason, or writing   *)
(* the answer does.  The deferred function removes the source from the     *)
(* table, then closes c.                                                   *)
ReceiveFail(c) ==
    /\ recv[c] = "on"
    /\ recv' = [recv EXCEPT ![c] = "close"]
    /\ Table!Remove(owner[c])
    /\ UNCHANGED <<sweepVars, handlerVars, link, owner, stale, stop>>

(* Faulty: the connection stays open. *)
ReceiverLeaves(c) ==
    /\ recv[c] = "close"
    /\ recv' = [recv EXCEPT ![c] = "off"]
    /\ UNCHANGED <<conns, sweepVars, handlerVars, link, owner, stale, stop>>

ReceiverClose(c) ==
    /\ recv[c] = "close"
    /\ recv' = [recv EXCEPT ![c] = "off"]
    /\ link' = [link EXCEPT ![c] = "closed"]
    /\ UNCHANGED <<conns, sweepVars, handlerVars, owner, stale, stop>>

(* udpIdleTime passes without a datagram on c.                             *)
Expire(c) ==
    /\ link[c] = "open"
    /\ stale' = [stale EXCEPT ![c] = TRUE]
    /\ UNCHANGED <<conns, sweepVars, handlerVars, link, owner, recv, stop>>

-----------------------------------------------------------------------------
(* Manager.Watch with the callback of New, which closes what is stale.     *)
SweepTick ==
    /\ ~CtxDone
    /\ Table!Tick
    /\ UNCHANGED <<handlerVars, linkVars, stop>>

(* Faulty: the callback does not close the connection. *)
SweepVisitOnly(s) ==
    /\ scan[s] # Nil
    /\ Table!Visit(s, FALSE)
    /\ UNCHANGED <<handlerVars, linkVars, stop>>

(* Faulty: the key is removed whether or not its connection was closed. *)
SweepVisitDooms(s) ==
    /\ scan[s] # Nil
    /\ Table!Visit(s, TRUE)
    /\ link' = IF stale[scan[s]] THEN [link EXCEPT ![scan[s]] = "closed"] ELSE link
    /\ UNCHANGED <<handlerVars, owner, recv, stale, stop>>

SweepVisit(s) ==
    /\ scan[s] # Nil
    /\ Table!Visit(s, stale[scan[s]])
    /\ link' = IF stale[scan[s]] THEN [link EXCEPT ![scan[s]] = "closed"] ELSE link
    /\ UNCHANGED <<handlerVars, owner, recv, stale, stop>>

SweepDelete ==
    /\ Table!Delete
    /\ UNCHANGED <<handlerVars, linkVars, stop>>

Sweep == SweepTick \/ (\E s \in Srcs : SweepVisit(s)) \/ SweepDelete

(* Stop: cancel, close the local socket, close what is in the table.       *)
StopCancel ==
    /\ stop = "run"
    /\ stop' = "cancelled"
    /\ UNCHANGED <<conns, sweepVars, handlerVars, linkVars>>

StopListen ==
    /\ stop = "cancelled"
    /\ stop' = "deaf"
    /\ UNCHANGED <<conns, sweepVars, handlerVars, linkVars>>

StopClose ==
    /\ stop = "deaf"
    /\ stop' = "stopped"
    /\ link' = [c \in Conns |-> IF \E s \in Srcs : conns[s] = c THEN "closed" ELSE link[c]]
    /\ UNCHANGED <<conns, sweepVars, handlerVars, owner, recv, stale>>

-----------------------------------------------------------------------------
Handle(h) ==
    \/ Do(h) \/ Get(h) \/ (\E c \in Conns : Dial(h, c)) \/ DialFail(h)
    \/ SetItem(h) \/ StartReceiver(h) \/ Write(h)

ReceiverEnd(c) == (link[c] = "closed" /\ ReceiveFail(c)) \/ ReceiverClose(c)

Next ==
    \/ \E h \in Handlers : Handle(h) \/ (\E s \in Srcs : Datagram(h, s))
    \/ \E c \in Conns : Receive(c) \/ ReceiveFail(c) \/ ReceiverClose(c) \/ Expire(c)
    \/ Sweep
    \/ StopCancel \/ StopListen \/ StopClose

(* Goroutines run: dialling and writing have time-outs, a read on a closed *)
(* connection fails, the ticker fires.  Datagrams need not arrive, and a   *)
(* read on an open connection need not return.                             *)
Fairness ==
    /\ \A h \in Handlers : WF_vars(Handle(h))
    /\ \A c \in Conns : WF_vars(ReceiverEnd(c))
    /\ WF_vars(Sweep)
    /\ WF_vars(StopListen) /\ WF_vars(StopClose)

Spec == Init /\ [][Next]_vars /\ Fairness

-----------------------------------------------------------------------------
(* A connection in the table is never overwritten by another: at most one  *)
(* datagram of a source creates one at a time, and only when the table has *)
(* none (udp.go:200-215, 279-299).  An overwritten one would be out of     *)
(* reach of the sweep and of Stop.                                         *)
SetNeverOverwrites ==
    [][\A s \in Srcs : conns[s] # Nil => conns'[s] \in {conns[s], Nil}]_vars

(* A datagram is written to a connection that was created for its own      *)
(* source, also when it waited for the result of another datagram's call:  *)
(* the parent's answers would otherwise go to another source               *)
(* (udp.go:249-251, 332-334).                                              *)
SentForOwnSource ==
    \A h \in Handlers : pc[h] \in {"set", "start", "write"} => owner[item[h]] = src[h]

(* Every open connection has a goroutine that closes it when it ends: its  *)
(* receiver, or the handler that is about to start that.  Nothing is said  *)
(* of when: a parent that stays connected may be read from for ever        *)
(* (udp.go:217-240, 301-325).                                              *)
OpenHasCloser ==
    \A c \in Conns : link[c] = "open" =>
        recv[c] # "off" \/ \E h \in Handlers : pc[h] \in {"set", "start"} /\ item[h] = c

(* An open connection leaves the table when its own receiver ends, or by   *)
(* one of two late steps of an older connection of the same source: the    *)
(* Remove of that one's receiver, or the Remove of a sweep that found that *)
(* one idle and closed it (udp.go:91-100, 220, 304, manager.go:41-50).     *)
LostOnlyToNamesake ==
    [][\A s \in Srcs, c \in Conns :
         conns[s] = c /\ link[c] = "open" /\ conns'[s] # c =>
            \/ recv'[c] = "close"
            \/ \E d \in Conns \ {c} :
                /\ owner[d] = s
                /\ \/ recv[d] = "on" /\ recv'[d] = "close"
                   \/ doomed = <<s, d>> /\ link[d] = "closed"]_vars

(* Every datagram's handler ends: nobody waits for a call that does not    *)
(* return (udp.go:200-247, 279-330).                                       *)
HandlerEnds ==
    \A h \in Handlers : pc[h] = "do" ~> pc[h] = "idle"

(* What is in the table and idle is closed, while the service runs         *)
(* (udp.go:91-100).                                                        *)
IdleIsClosed ==
    \A s \in Srcs, c \in Conns :
        (conns[s] = c /\ stale[c]) ~> (link[c] = "closed" \/ ~stale[c] \/ conns[s] # c \/ CtxDone)

-----------------------------------------------------------------------------
(* What single.Do, Get and Set promise the sources, without waiting and    *)
(* dialling.  A connection is being created from the failed Get to the Set *)
(* or to the error.                                                        *)
Flows == INSTANCE FlowTable
             WITH entry <- conns,
                  creating <- {s \in Srcs : \E h \in Handlers :
                                 pc[h] \in {"dial", "set"} /\ src[h] = s}

(* However many datagrams of a source arrive together, one connection is   *)
(* created at a time and only while the table has none: an overwritten one *)
(* would be out of reach of the sweep and of Stop (udp.go:200-215,         *)
(* 279-299).                                                               *)
OneFlowPerSource == Flows!Spec

=============================================================================
