---------------------------- MODULE UdpRelayProofs ----------------------------
(***************************************************************************)
(* The safety of the UDP service, for any sets of sources, connections and *)
(* handlers.                                                               *)
(*                                                                         *)
(* The invariant follows the single flight: the handler that runs the      *)
(* function for a source is the one recorded in single, so there is one at *)
(* most, and from its failed Get to its Set the table has nothing for the  *)
(* source, because nobody else can set it.  Names of connections are taken *)
(* again only when nothing refers to them, so what refers to a connection  *)
(* agrees on the source it was dialled for.                                *)
(***************************************************************************)
EXTENDS UdpRelay, TLAPS

(* A handler with a datagram knows its source; one inside the function is  *)
(* the one of its source's flight; from the failed Get on, the table has   *)
(* nothing for the source.                                                 *)
Flight ==
    \A h \in Handlers :
      /\ pc[h] # "idle" => src[h] \in Srcs
      /\ pc[h] \in {"get", "dial", "set", "start"} => single[src[h]] = h
      /\ pc[h] \in {"dial", "set"} => conns[src[h]] = Nil

(* Handlers, table and receivers refer to connections by their source.     *)
Sources ==
    /\ \A h \in Handlers : pc[h] \in {"set", "start", "write"} => item[h] \in Conns
    /\ \A s \in Srcs : conns[s] # Nil => owner[conns[s]] = s
    /\ \A c \in Conns : recv[c] # "off" => owner[c] \in Srcs

Inv == TypeOK /\ Flight /\ Sources /\ SentForOwnSource /\ OpenHasCloser

(* Nothing is open and nobody is at work at the start.                     *)
LEMMA InitInv == Init => Inv
BY RelayAssumption DEF Init, Inv, TypeOK, Flight, Sources, SentForOwnSource, OpenHasCloser,
   Table!MgrInit, Table!MgrTypeOK, Table!Empty

(* Every step keeps the invariant.                                         *)
LEMMA StepInv == Inv /\ [Next]_vars => Inv'
<1> SUFFICES ASSUME Inv, [Next]_vars
             PROVE  Inv'
  OBVIOUS
<1> USE RelayAssumption DEF Inv
<1>1. ASSUME NEW h \in Handlers, NEW s \in Srcs, Datagram(h, s)
      PROVE  Inv'
  BY <1>1 DEF Datagram, CtxDone, TypeOK, Table!MgrTypeOK, Flight, Sources,
     SentForOwnSource, OpenHasCloser, handlerVars, linkVars, sweepVars
<1>2. ASSUME NEW h \in Handlers, Do(h)
      PROVE  Inv'
  BY <1>2 DEF Do, TypeOK, Table!MgrTypeOK, Flight, Sources,
     SentForOwnSource, OpenHasCloser, handlerVars, linkVars, sweepVars
<1>3. ASSUME NEW h \in Handlers, Get(h)
      PROVE  Inv'
  <2>1. TypeOK'
    BY <1>3 DEF Get, Return, Sharing,
       TypeOK, Table!MgrTypeOK, Flight, Sources, handlerVars, linkVars, sweepVars
  <2>2. Flight'
    BY <1>3 DEF Get, Return, Sharing,
       TypeOK, Table!MgrTypeOK, Flight, Sources, handlerVars, linkVars, sweepVars
  <2>3. Sources'
    BY <1>3 DEF Get, Return, Sharing,
       TypeOK, Table!MgrTypeOK, Flight, Sources, SentForOwnSource, handlerVars, linkVars, sweepVars
  <2>4. SentForOwnSource'
    BY <1>3 DEF Get, Return, Sharing,
       TypeOK, Table!MgrTypeOK, Flight, Sources, SentForOwnSource, handlerVars, linkVars, sweepVars
  <2>5. OpenHasCloser'
    BY <1>3 DEF Get, Return, Sharing,
       TypeOK, Table!MgrTypeOK, Flight, Sources, OpenHasCloser, handlerVars, linkVars, sweepVars
  <2> QED
    BY <2>1, <2>2, <2>3, <2>4, <2>5
<1>4. ASSUME NEW h \in Handlers, NEW c \in Conns, Dial(h, c)
      PROVE  Inv'
  <2>1. TypeOK'
    BY <1>4 DEF Dial, Unused,
       TypeOK, Table!MgrTypeOK, Flight, Sources, handlerVars, linkVars, sweepVars
  <2>2. Flight'
    BY <1>4 DEF Dial, Unused,
       TypeOK, Table!MgrTypeOK, Flight, Sources, handlerVars, linkVars, sweepVars
  <2>3. Sources'
    BY <1>4 DEF Dial, Unused,
       TypeOK, Table!MgrTypeOK, Flight, Sources, SentForOwnSource, handlerVars, linkVars, sweepVars
  <2>4. SentForOwnSource'
    BY <1>4 DEF Dial, Unused,
       TypeOK, Table!MgrTypeOK, Flight, Sources, SentForOwnSource, handlerVars, linkVars, sweepVars
  <2>5. OpenHasCloser'
    BY <1>4 DEF Dial, Unused,
       TypeOK, Table!MgrTypeOK, Flight, Sources, OpenHasCloser, handlerVars, linkVars, sweepVars
  <2> QED
    BY <2>1, <2>2, <2>3, <2>4, <2>5
<1>5. ASSUME NEW h \in Handlers, DialFail(h)
      PROVE  Inv'
  <2>1. TypeOK'
    BY <1>5 DEF DialFail, Return, Sharing,
       TypeOK, Table!MgrTypeOK, Flight, Sources, handlerVars, linkVars, sweepVars
  <2>2. Flight'
    BY <1>5 DEF DialFail, Return, Sharing,
       TypeOK, Table!MgrTypeOK, Flight, Sources, handlerVars, linkVars, sweepVars
  <2>3. Sources'
    BY <1>5 DEF DialFail, Return, Sharing,
       TypeOK, Table!MgrTypeOK, Flight, Sources, SentForOwnSource, handlerVars, linkVars, sweepVars
  <2>4. SentForOwnSource'
    BY <1>5 DEF DialFail, Return, Sharing,
       TypeOK, Table!MgrTypeOK, Flight, Sources, SentForOwnSource, handlerVars, linkVars, sweepVars
  <2>5. OpenHasCloser'
    BY <1>5 DEF DialFail, Return, Sharing,
       TypeOK, Table!MgrTypeOK, Flight, Sources, OpenHasCloser, handlerVars, linkVars, sweepVars
  <2> QED
    BY <2>1, <2>2, <2>3, <2>4, <2>5
<1>6. ASSUME NEW h \in Handlers, SetItem(h)
      PROVE  Inv'
  <2>1. TypeOK'
    BY <1>6 DEF SetItem, Table!Set,
       TypeOK, Table!MgrTypeOK, Flight, Sources, handlerVars, linkVars, sweepVars
  <2>2. Flight'
    BY <1>6 DEF SetItem, Table!Set,
       TypeOK, Table!MgrTypeOK, Flight, Sources, handlerVars, linkVars, sweepVars
  <2>3. Sources'
    BY <1>6 DEF SetItem, Table!Set,
       TypeOK, Table!MgrTypeOK, Flight, Sources, SentForOwnSource, handlerVars, linkVars, sweepVars
  <2>4. SentForOwnSource'
    BY <1>6 DEF SetItem, Table!Set,
       TypeOK, Table!MgrTypeOK, Flight, Sources, SentForOwnSource, handlerVars, linkVars, sweepVars
  <2>5. OpenHasCloser'
    BY <1>6 DEF SetItem, Table!Set,
       TypeOK, Table!MgrTypeOK, Flight, Sources, OpenHasCloser, handlerVars, linkVars, sweepVars
  <2> QED
    BY <2>1, <2>2, <2>3, <2>4, <2>5
<1>18. ASSUME NEW h \in Handlers, StartReceiver(h)
      PROVE  Inv'
  <2>1. TypeOK'
    BY <1>18 DEF StartReceiver, Return, Sharing,
       TypeOK, Table!MgrTypeOK, Flight, Sources, handlerVars, linkVars, sweepVars
  <2>2. Flight'
    BY <1>18 DEF StartReceiver, Return, Sharing,
       TypeOK, Table!MgrTypeOK, Flight, Sources, handlerVars, linkVars, sweepVars
  <2>3. Sources'
    BY <1>18 DEF StartReceiver, Return, Sharing,
       TypeOK, Table!MgrTypeOK, Flight, Sources, SentForOwnSource, handlerVars, linkVars, sweepVars
  <2>4. SentForOwnSource'
    BY <1>18 DEF StartReceiver, Return, Sharing,
       TypeOK, Table!MgrTypeOK, Flight, Sources, SentForOwnSource, handlerVars, linkVars, sweepVars
  <2>5. OpenHasCloser'
    BY <1>18 DEF StartReceiver, Return, Sharing,
       TypeOK, Table!MgrTypeOK, Flight, Sources, OpenHasCloser, handlerVars, linkVars, sweepVars
  <2> QED
    BY <2>1, <2>2, <2>3, <2>4, <2>5
<1>19. CASE StopListen
  BY <1>19 DEF StopListen, TypeOK, Table!MgrTypeOK, Flight, Sources,
     SentForOwnSource, OpenHasCloser, handlerVars, linkVars, sweepVars
<1>7. ASSUME NEW h \in Handlers, Write(h)
      PROVE  Inv'
  BY <1>7 DEF Write, TypeOK, Table!MgrTypeOK, Flight, Sources,
     SentForOwnSource, OpenHasCloser, handlerVars, linkVars, sweepVars
<1>8. ASSUME NEW c \in Conns, Receive(c)
      PROVE  Inv'
  BY <1>8 DEF Receive, TypeOK, Table!MgrTypeOK, Flight, Sources,
     SentForOwnSource, OpenHasCloser, handlerVars, linkVars, sweepVars
<1>9. ASSUME NEW c \in Conns, ReceiveFail(c)
      PROVE  Inv'
  BY <1>9 DEF ReceiveFail, Table!Remove, TypeOK, Table!MgrTypeOK, Flight, Sources,
     SentForOwnSource, OpenHasCloser, handlerVars, linkVars, sweepVars
<1>10. ASSUME NEW c \in Conns, ReceiverClose(c)
      PROVE  Inv'
  BY <1>10 DEF ReceiverClose, TypeOK, Table!MgrTypeOK, Flight, Sources,
     SentForOwnSource, OpenHasCloser, handlerVars, linkVars, sweepVars
<1>11. ASSUME NEW c \in Conns, Expire(c)
      PROVE  Inv'
  BY <1>11 DEF Expire, TypeOK, Table!MgrTypeOK, Flight, Sources,
     SentForOwnSource, OpenHasCloser, handlerVars, linkVars, sweepVars
<1>12. CASE SweepTick
  BY <1>12 DEF SweepTick, CtxDone, Table!Tick, Table!Empty, TypeOK, Table!MgrTypeOK, Flight, Sources,
     SentForOwnSource, OpenHasCloser, handlerVars, linkVars, sweepVars
<1>13. ASSUME NEW s \in Srcs, SweepVisit(s)
      PROVE  Inv'
  BY <1>13 DEF SweepVisit, Table!Visit, TypeOK, Table!MgrTypeOK, Flight, Sources,
     SentForOwnSource, OpenHasCloser, handlerVars, linkVars, sweepVars
<1>14. CASE SweepDelete
  BY <1>14 DEF SweepDelete, Table!Delete, Table!Remove, TypeOK, Table!MgrTypeOK, Flight, Sources,
     SentForOwnSource, OpenHasCloser, handlerVars, linkVars, sweepVars
<1>15. CASE StopCancel
  BY <1>15 DEF StopCancel, TypeOK, Table!MgrTypeOK, Flight, Sources,
     SentForOwnSource, OpenHasCloser, handlerVars, linkVars, sweepVars
<1>16. CASE StopClose
  BY <1>16 DEF StopClose, TypeOK, Table!MgrTypeOK, Flight, Sources,
     SentForOwnSource, OpenHasCloser, handlerVars, linkVars, sweepVars
<1>17. CASE UNCHANGED vars
  BY <1>17 DEF vars, handlerVars, linkVars, sweepVars, TypeOK, Table!MgrTypeOK,
     Flight, Sources, SentForOwnSource, OpenHasCloser
<1> QED
  BY <1>1, <1>2, <1>3, <1>4, <1>5, <1>6, <1>7, <1>8, <1>9, <1>10, <1>11, <1>12, <1>13, <1>14, <1>15, <1>16, <1>17,
     <1>18, <1>19
     DEF Next, Handle, Sweep

(* The invariant holds throughout.                                         *)
LEMMA AlwaysInv == Spec => []Inv
BY InitInv, StepInv, PTL DEF Spec

(* A datagram goes to a connection created for its own source              *)
(* (udp.go:200-215, 249-274).                                              *)
THEOREM OwnSource == Spec => []SentForOwnSource
<1>1. Inv => SentForOwnSource
  BY DEF Inv
<1> QED
  BY <1>1, AlwaysInv, PTL

(* Every open connection has a goroutine that closes it when it ends       *)
(* (udp.go:217-240, 301-326).                                              *)
THEOREM Closers == Spec => []OpenHasCloser
<1>1. Inv => OpenHasCloser
  BY DEF Inv
<1> QED
  BY <1>1, AlwaysInv, PTL

(* Only Set, the deferred Remove of a receiver and the Remove of the sweep *)
(* change the table.                                                       *)
LEMMA TableSteps ==
    Next => \/ \E h \in Handlers : SetItem(h)
            \/ \E c \in Conns : ReceiveFail(c)
            \/ SweepDelete
            \/ UNCHANGED conns
<1>1. ASSUME NEW h \in Handlers, Handle(h) \/ (\E s \in Srcs : Datagram(h, s))
      PROVE  SetItem(h) \/ UNCHANGED conns
  BY <1>1 DEF Handle, Datagram, Do, Get, Dial, DialFail, StartReceiver, Write
<1>2. ASSUME NEW c \in Conns, Receive(c) \/ ReceiverClose(c) \/ Expire(c)
      PROVE  UNCHANGED conns
  BY <1>2 DEF Receive, ReceiverClose, Expire
<1>3. ASSUME SweepTick \/ (\E s \in Srcs : SweepVisit(s)) \/ StopCancel \/ StopListen
             \/ StopClose
      PROVE  UNCHANGED conns
  BY <1>3 DEF SweepTick, SweepVisit, StopCancel, StopListen, StopClose, Table!Tick, Table!Visit
<1> QED
  BY <1>1, <1>2, <1>3 DEF Next, Sweep

(* A connection in the table is not overwritten by another: the single     *)
(* flight and the Get inside it leave one that sets, and only what is      *)
(* absent (udp.go:200-215, 279-299).                                       *)
THEOREM NoOverwrite == Spec => SetNeverOverwrites
<1>1. Inv /\ [Next]_vars =>
        [\A s \in Srcs : conns[s] # Nil => conns'[s] \in {conns[s], Nil}]_vars
  <2> SUFFICES ASSUME Inv, Next, NEW s \in Srcs, conns[s] # Nil
               PROVE  conns'[s] \in {conns[s], Nil}
    BY DEF vars
  <2>1. ASSUME NEW h \in Handlers, SetItem(h)
        PROVE  conns'[s] \in {conns[s], Nil}
    BY <2>1 DEF Inv, Flight, TypeOK, Table!MgrTypeOK, SetItem, Table!Set
  <2>2. ASSUME NEW c \in Conns, ReceiveFail(c)
        PROVE  conns'[s] \in {conns[s], Nil}
    BY <2>2 DEF Inv, TypeOK, Table!MgrTypeOK, ReceiveFail, Table!Remove
  <2>3. CASE SweepDelete
    BY <2>3 DEF Inv, TypeOK, Table!MgrTypeOK, SweepDelete, Table!Delete, Table!Remove
  <2>4. CASE UNCHANGED conns
    BY <2>4
  <2> QED
    BY <2>1, <2>2, <2>3, <2>4, TableSteps
<1> QED
  BY <1>1, AlwaysInv, PTL DEF Spec, SetNeverOverwrites

(* The variables of the udp service keep their types.                      *)
THEOREM TypeCorrect == Spec => []TypeOK
<1>1. Inv => TypeOK
  BY DEF Inv
<1> QED
  BY <1>1, AlwaysInv, PTL

-----------------------------------------------------------------------------
(* Nobody waits for a call that nobody runs: who waits for the result of   *)
(* another datagram's call waits for a handler of its own source that is   *)
(* inside the function (udp.go:200-247, 279-330).                          *)
WaitsForRunner ==
    \A h \in Handlers : pc[h] = "wait" =>
        \E g \in Handlers :
            single[src[h]] = g /\ src[g] = src[h] /\ pc[g] \in {"get", "dial", "set", "start"}

(* What single records is a handler inside the function of that source;    *)
(* there is one for everybody who waits.                                   *)
Runners ==
    /\ \A s \in Srcs : single[s] # Nil =>
        pc[single[s]] \in {"get", "dial", "set", "start"} /\ src[single[s]] = s
    /\ \A h \in Handlers : pc[h] = "wait" => single[src[h]] # Nil

LEMMA RunnersInit == Init => Runners
BY RelayAssumption DEF Init, Runners

(* Every step keeps it: only Do makes anybody wait, and the return of the  *)
(* function that clears single takes everybody who waits along.            *)
LEMMA RunnersStep == Inv /\ Runners /\ [Next]_vars => Runners'
<1> SUFFICES ASSUME Inv, Runners, [Next]_vars
             PROVE  Runners'
  OBVIOUS
<1>0. /\ single \in [Srcs -> Handlers \cup {Nil}]
      /\ pc \in [Handlers -> {"idle", "do", "get", "dial", "set", "start", "wait", "write"}]
      /\ src \in [Handlers -> Srcs \cup {Nil}]
      /\ conns \in [Srcs -> Conns \cup {Nil}]
      /\ Nil \notin Srcs \cup Conns \cup Handlers
  BY RelayAssumption DEF Inv, TypeOK, Table!MgrTypeOK
<1>1. Flight /\ \A h \in Handlers : pc[h] \in {"set", "start", "write"} => item[h] \in Conns
  BY DEF Inv, Sources
<1>2. ASSUME NEW h \in Handlers, NEW s \in Srcs, Datagram(h, s)
      PROVE  Runners'
  BY <1>0, <1>1, <1>2 DEF Datagram, Runners, Flight
<1>3. ASSUME NEW h \in Handlers, Do(h)
      PROVE  Runners'
  BY <1>0, <1>1, <1>3 DEF Do, Runners, Flight
<1>4. ASSUME NEW h \in Handlers, NEW c \in Conns \cup {Nil}, pc[h] \in {"get", "dial", "set", "start"},
             Return(h, c)
      PROVE  Runners'
  <2>1. src[h] \in Srcs /\ single[src[h]] = h
    BY <1>1, <1>4 DEF Flight
  <2>2. \A g \in Handlers \ Sharing(h) : pc'[g] = pc[g] /\ src'[g] = src[g]
    <3>1. CASE c # Nil
      BY <1>4, <3>1 DEF Return
    <3>2. CASE c = Nil
      BY <1>4, <3>2 DEF Return
    <3> QED
      BY <3>1, <3>2
  <2>3. \A g \in Sharing(h) : pc'[g] \in {"idle", "write"}
    BY <1>0, <1>4 DEF Return, Sharing
  <2>4. single' = [single EXCEPT ![src[h]] = Nil]
    BY <1>4 DEF Return
  <2>5. ASSUME NEW s \in Srcs, single'[s] # Nil
        PROVE  pc'[single'[s]] \in {"get", "dial", "set", "start"} /\ src'[single'[s]] = s
    <3>1. s # src[h] /\ single'[s] = single[s] /\ single[s] \in Handlers
      BY <1>0, <2>1, <2>4, <2>5
    <3>2. pc[single[s]] \in {"get", "dial", "set", "start"} /\ src[single[s]] = s
      BY <1>0, <3>1 DEF Runners
    <3>3. single[s] \notin Sharing(h)
      BY <3>1, <3>2 DEF Sharing
    <3> QED
      BY <2>2, <3>1, <3>2, <3>3
  <2>6. ASSUME NEW g \in Handlers, pc'[g] = "wait"
        PROVE  single'[src'[g]] # Nil
    <3>1. g \notin Sharing(h)
      BY <2>3, <2>6
    <3>2. pc[g] = "wait" /\ src'[g] = src[g]
      BY <2>2, <2>6, <3>1
    <3>3. src[g] # src[h] /\ src[g] \in Srcs /\ single[src[g]] # Nil
      BY <1>1, <3>1, <3>2 DEF Sharing, Runners, Flight
    <3> QED
      BY <1>0, <2>4, <3>2, <3>3
  <2> QED
    BY <2>5, <2>6 DEF Runners
<1>5. ASSUME NEW h \in Handlers, Get(h)
      PROVE  Runners'
  <2>1. CASE conns[src[h]] # Nil
    <3>1. src[h] \in Srcs
      BY <1>1, <1>5 DEF Get, Flight
    <3>2. conns[src[h]] \in Conns \cup {Nil}
      BY <1>0, <3>1
    <3> QED
      BY <1>4, <1>5, <2>1, <3>2 DEF Get
  <2>2. CASE conns[src[h]] = Nil
    BY <1>0, <1>1, <1>5, <2>2 DEF Get, Runners, Flight
  <2> QED
    BY <2>1, <2>2
<1>6. ASSUME NEW h \in Handlers, NEW c \in Conns, Dial(h, c)
      PROVE  Runners'
  BY <1>0, <1>1, <1>6 DEF Dial, Runners, Flight
<1>7. ASSUME NEW h \in Handlers, DialFail(h)
      PROVE  Runners'
  BY <1>4, <1>7 DEF DialFail
<1>8. ASSUME NEW h \in Handlers, SetItem(h)
      PROVE  Runners'
  BY <1>0, <1>1, <1>8 DEF SetItem, Runners, Flight
<1>11. ASSUME NEW h \in Handlers, StartReceiver(h)
       PROVE  Runners'
  BY <1>1, <1>4, <1>11 DEF StartReceiver
<1>9. ASSUME NEW h \in Handlers, Write(h)
      PROVE  Runners'
  BY <1>0, <1>1, <1>9 DEF Write, Runners, Flight
<1>10. CASE UNCHANGED handlerVars
  BY <1>10 DEF handlerVars, Runners
<1> QED
  BY <1>2, <1>3, <1>5, <1>6, <1>7, <1>8, <1>9, <1>10, <1>11
     DEF Next, Handle, Sweep, Receive, ReceiveFail, ReceiverClose, Expire, SweepTick, SweepVisit,
         SweepDelete, StopCancel, StopListen, StopClose, vars

(* Whoever waits, waits for a running call of its own source, for any      *)
(* number of handlers and sources: with calls that end, which dialling     *)
(* with a time-out does, every handler ends (udp.go:200-247, 279-330).     *)
THEOREM NobodyWaitsInVain == Spec => []WaitsForRunner
<1>1. Inv /\ Runners => WaitsForRunner
  <2> SUFFICES ASSUME Inv, Runners, NEW h \in Handlers, pc[h] = "wait"
               PROVE  \E g \in Handlers :
                        single[src[h]] = g /\ src[g] = src[h] /\ pc[g] \in {"get", "dial", "set", "start"}
    BY DEF WaitsForRunner
  <2>1. src[h] \in Srcs /\ single[src[h]] \in Handlers
    BY DEF Inv, TypeOK, Flight, Runners
  <2> QED
    BY <2>1, RelayAssumption DEF Runners
<1> QED
  BY <1>1, AlwaysInv, RunnersInit, RunnersStep, PTL DEF Spec

-----------------------------------------------------------------------------
(* What the sweep has copied is of the source it is copied under, and what *)
(* it is about to remove it has closed.                                    *)
Swept ==
    /\ \A s \in Srcs : scan[s] # Nil => owner[scan[s]] = s
    /\ doomed # Nil => owner[doomed[2]] = doomed[1] /\ link[doomed[2]] = "closed"

LEMMA SweptInit == Init => Swept
BY RelayAssumption DEF Init, Swept, Table!MgrInit, Table!Empty

(* Every step keeps it: a name that the sweep holds is not taken again.    *)
LEMMA SweptStep == Inv /\ Swept /\ [Next]_vars => Swept'
<1> SUFFICES ASSUME Inv, Swept, [Next]_vars
             PROVE  Swept'
  OBVIOUS
<1>0. /\ conns \in [Srcs -> Conns \cup {Nil}]
      /\ scan \in [Srcs -> Conns \cup {Nil}]
      /\ doomed \in (Srcs \X Conns) \cup {Nil}
      /\ link \in [Conns -> {"open", "closed"}]
      /\ owner \in [Conns -> Srcs \cup {Nil}]
      /\ \A s \in Srcs : conns[s] # Nil => owner[conns[s]] = s
  BY DEF Inv, TypeOK, Table!MgrTypeOK, Sources
<1>1. ASSUME NEW h \in Handlers, NEW c \in Conns, Dial(h, c)
      PROVE  Swept'
  <2>1. (\A s \in Srcs : scan[s] # c) /\ (doomed # Nil => doomed[2] # c)
    BY <1>0, <1>1 DEF Dial, Unused
  <2>2. UNCHANGED <<scan, doomed>>
    BY <1>1 DEF Dial, sweepVars
  <2>3. \A d \in Conns \ {c} : owner'[d] = owner[d] /\ link'[d] = link[d]
    BY <1>0, <1>1 DEF Dial
  <2> QED
    BY <1>0, <2>1, <2>2, <2>3, RelayAssumption DEF Swept
<1>2. ASSUME NEW c \in Conns, ReceiverClose(c)
      PROVE  Swept'
  BY <1>0, <1>2 DEF ReceiverClose, sweepVars, Swept
<1>3. CASE SweepTick
  BY <1>0, <1>3 DEF SweepTick, Table!Tick, linkVars, Swept
<1>4. ASSUME NEW s \in Srcs, SweepVisit(s)
      PROVE  Swept'
  <2>1. owner[scan[s]] = s /\ scan[s] \in Conns
    BY <1>0, <1>4 DEF SweepVisit, Swept
  <2>2. scan' = [scan EXCEPT ![s] = Nil] /\ owner' = owner /\ doomed = Nil
    BY <1>4 DEF SweepVisit, Table!Visit
  <2>3. doomed' = Nil \/ (doomed' = <<s, scan[s]>> /\ link' = [link EXCEPT ![scan[s]] = "closed"])
    BY <1>4 DEF SweepVisit, Table!Visit
  <2>4. \A r \in Srcs : scan'[r] # Nil => owner'[scan'[r]] = r
    BY <1>0, <2>2 DEF Swept
  <2>5. doomed' # Nil => owner'[doomed'[2]] = doomed'[1] /\ link'[doomed'[2]] = "closed"
    BY <1>0, <2>1, <2>2, <2>3
  <2> QED
    BY <2>4, <2>5 DEF Swept
<1>5. CASE SweepDelete
  BY <1>0, <1>5 DEF SweepDelete, Table!Delete, linkVars, Swept
<1>6. CASE StopClose
  BY <1>0, <1>6 DEF StopClose, sweepVars, Swept
<1>7. CASE UNCHANGED <<scan, doomed, link, owner>>
  BY <1>7 DEF Swept
<1> QED
  BY <1>1, <1>2, <1>3, <1>4, <1>5, <1>6, <1>7
     DEF Next, Handle, Sweep, Datagram, Do, Get, DialFail, SetItem, StartReceiver, Write, Receive,
         ReceiveFail, Expire, StopCancel, StopListen, vars, sweepVars, linkVars

(* How an open connection gets out of the table, for any number of         *)
(* connections and sources: by its own receiver, or by the late Remove of  *)
(* an older connection of its source, its receiver's or the sweep's        *)
(* (udp.go:91-100, 220, 304).                                              *)
THEOREM LossIsANamesakes == Spec => LostOnlyToNamesake
<1> DEFINE Lost(s, c) ==
      \/ recv'[c] = "close"
      \/ \E d \in Conns \ {c} :
          /\ owner[d] = s
          /\ \/ recv[d] = "on" /\ recv'[d] = "close"
             \/ doomed = <<s, d>> /\ link[d] = "closed"
<1>1. Inv /\ Swept /\ [Next]_vars =>
        [\A s \in Srcs, c \in Conns :
            conns[s] = c /\ link[c] = "open" /\ conns'[s] # c => Lost(s, c)]_vars
  <2> SUFFICES ASSUME Inv, Swept, Next, NEW s \in Srcs, NEW c \in Conns,
                      conns[s] = c, link[c] = "open", conns'[s] # c
               PROVE  Lost(s, c)
    BY DEF vars
  <2>0. /\ conns \in [Srcs -> Conns \cup {Nil}]
        /\ doomed \in (Srcs \X Conns) \cup {Nil}
        /\ recv \in [Conns -> {"off", "on", "close"}]
        /\ Nil \notin Conns
    BY RelayAssumption DEF Inv, TypeOK, Table!MgrTypeOK
  <2>1. ASSUME NEW h \in Handlers, SetItem(h)
        PROVE  FALSE
    BY <2>0, <2>1 DEF Inv, Flight, SetItem, Table!Set
  <2>2. ASSUME NEW d \in Conns, ReceiveFail(d)
        PROVE  Lost(s, c)
    <3>1. recv[d] = "on" /\ recv'[d] = "close" /\ conns' = [conns EXCEPT ![owner[d]] = Nil]
      BY <2>0, <2>2 DEF ReceiveFail, Table!Remove
    <3>2. owner[d] = s
      BY <2>0, <3>1
    <3> QED
      BY <3>1, <3>2
  <2>3. CASE SweepDelete
    <3>1. PICK r \in Srcs, d \in Conns : doomed # Nil /\ doomed = <<r, d>>
      BY <2>0, <2>3 DEF SweepDelete, Table!Delete
    <3>2. conns' = [conns EXCEPT ![r] = Nil]
      BY <2>3, <3>1 DEF SweepDelete, Table!Delete, Table!Remove
    <3>3. r = s
      BY <2>0, <3>2
    <3>4. owner[d] = s /\ link[d] = "closed"
      BY <3>1, <3>3 DEF Swept
    <3> QED
      BY <3>1, <3>3, <3>4
  <2>4. CASE UNCHANGED conns
    BY <2>4
  <2> QED
    BY <2>1, <2>2, <2>3, <2>4, TableSteps
<1> QED
  BY <1>1, AlwaysInv, SweptInit, SweptStep, PTL DEF Spec, LostOnlyToNamesake

-----------------------------------------------------------------------------
(* The initial state is one of FlowTable. *)
LEMMA FlowInit == Init => Flows!Init
BY DEF Init, Flows!Init, Table!MgrInit, Table!Empty

(* Every step begins, aborts or finishes the creation of a connection,     *)
(* removes an entry, or leaves the table and the creations alone.          *)
LEMMA FlowStep == Inv /\ [Next]_vars => [Flows!Next]_(Flows!vars)
<1> DEFINE At(h, s) == pc[h] \in {"dial", "set"} /\ src[h] = s
           K == {s \in Srcs : \E h \in Handlers : At(h, s)}
<1> SUFFICES ASSUME Inv, [Next]_vars
             PROVE  Flows!Next \/ UNCHANGED <<conns, K>>
  BY DEF Flows!vars
<1>0. /\ conns \in [Srcs -> Conns \cup {Nil}]
      /\ doomed \in (Srcs \X Conns) \cup {Nil}
      /\ pc \in [Handlers -> {"idle", "do", "get", "dial", "set", "start", "wait", "write"}]
      /\ src \in [Handlers -> Srcs \cup {Nil}]
      /\ Nil \notin Srcs \cup Conns \cup Handlers
  BY RelayAssumption DEF Inv, TypeOK, Table!MgrTypeOK
<1>1. /\ \A h \in Handlers : pc[h] \in {"get", "dial", "set", "start"} =>
            src[h] \in Srcs /\ single[src[h]] = h
      /\ \A h \in Handlers : pc[h] \in {"dial", "set"} => conns[src[h]] = Nil
  BY DEF Inv, Flight
<1>2. ASSUME NEW h \in Handlers,
             (\E s \in Srcs : Datagram(h, s)) \/ Do(h) \/ (\E c \in Conns : Dial(h, c)) \/ Write(h)
      PROVE  UNCHANGED <<conns, K>>
  <2>1. \A g \in Handlers, s \in Srcs : At(g, s)' <=> At(g, s)
    BY <1>0, <1>2 DEF Datagram, Do, Dial, Write
  <2>2. UNCHANGED conns
    BY <1>2 DEF Datagram, Do, Dial, Write
  <2> HIDE DEF At
  <2> QED
    BY <2>1, <2>2
<1>3. ASSUME NEW h \in Handlers, NEW c \in Conns \cup {Nil}, pc[h] \in {"get", "dial", "set", "start"},
             Return(h, c)
      PROVE  K' = K \ {src[h]}
  <2>1. \A g \in Handlers, s \in Srcs : At(g, s)' <=> At(g, s) /\ g # h
    <3>1. CASE c # Nil
      BY <1>0, <1>3, <3>1 DEF Return, Sharing
    <3>2. CASE c = Nil
      BY <1>0, <1>3, <3>2 DEF Return, Sharing
    <3> QED
      BY <3>1, <3>2
  <2>2. \A g \in Handlers, s \in Srcs : At(g, s) => (g # h <=> s # src[h])
    BY <1>1, <1>3
  <2> HIDE DEF At
  <2> QED
    BY <2>1, <2>2
<1>4. ASSUME NEW h \in Handlers, Get(h)
      PROVE  Flows!Next \/ UNCHANGED <<conns, K>>
  <2>0. src[h] \in Srcs /\ src[h] \notin K /\ UNCHANGED conns
    BY <1>1, <1>4 DEF Get
  <2>1. CASE conns[src[h]] # Nil
    <3>1. K' = K \ {src[h]}
      BY <1>0, <1>3, <1>4, <2>0, <2>1 DEF Get
    <3> QED
      BY <2>0, <3>1
  <2>2. CASE conns[src[h]] = Nil
    <3>1. \A g \in Handlers, s \in Srcs : At(g, s)' <=> At(g, s) \/ (g = h /\ s = src[h])
      BY <1>0, <1>4, <2>2 DEF Get
    <3>2. K' = K \cup {src[h]}
      <4> HIDE DEF At
      <4> QED
        BY <2>0, <3>1
    <3>3. PICK s \in Srcs : s = src[h]
      BY <2>0
    <3>4. Flows!Begin(s)
      BY <2>0, <2>2, <3>2, <3>3 DEF Flows!Begin
    <3> QED
      BY ONLY s \in Srcs, <3>4, Zenon DEF Flows!Next
  <2> QED
    BY <2>1, <2>2
<1>5. ASSUME NEW h \in Handlers, DialFail(h)
      PROVE  Flows!Next
  <2>1. K' = K \ {src[h]} /\ UNCHANGED conns /\ src[h] \in Srcs
    BY <1>1, <1>3, <1>5 DEF DialFail
  <2> QED
    BY <2>1 DEF Flows!Next, Flows!Abort
<1>6. ASSUME NEW h \in Handlers, SetItem(h)
      PROVE  Flows!Next
  <2>1. item[h] \in Conns /\ owner[item[h]] = src[h] /\ src[h] \in Srcs /\ conns[src[h]] = Nil
    BY <1>1, <1>6 DEF SetItem, Inv, Sources, SentForOwnSource
  <2>2. K' = K \ {src[h]} /\ conns' = [conns EXCEPT ![src[h]] = item[h]] /\ src[h] \in K
    <3>1. \A g \in Handlers, s \in Srcs : At(g, s)' <=> At(g, s) /\ g # h
      BY <1>0, <1>6 DEF SetItem
    <3>2. \A g \in Handlers, s \in Srcs : At(g, s) => (g # h <=> s # src[h])
      BY <1>1, <1>6 DEF SetItem
    <3>3. conns' = [conns EXCEPT ![src[h]] = item[h]] /\ At(h, src[h])
      BY <1>6 DEF SetItem, Table!Set
    <3> HIDE DEF At
    <3> QED
      BY <2>1, <3>1, <3>2, <3>3
  <2>3. \A r \in Srcs : conns[r] # item[h]
    BY <1>0, <2>1 DEF Inv, Sources
  <2>4. PICK s \in Srcs, c \in Conns : s = src[h] /\ c = item[h]
    BY <2>1
  <2>5. Flows!Finish(s, c)
    BY <2>1, <2>2, <2>3, <2>4 DEF Flows!Finish
  <2> QED
    BY ONLY s \in Srcs, c \in Conns, <2>5, Zenon DEF Flows!Next
<1>7. CASE UNCHANGED <<pc, src, conns>>
  BY <1>7
<1>10. ASSUME NEW h \in Handlers, StartReceiver(h)
       PROVE  UNCHANGED <<conns, K>>
  <2>1. item[h] \in Conns /\ pc[h] = "start" /\ UNCHANGED conns /\ Return(h, item[h])
    BY <1>10 DEF StartReceiver, Inv, Sources
  <2>2. K' = K \ {src[h]}
    BY <1>3, <2>1
  <2>3. src[h] \notin K
    BY <1>1, <2>1
  <2> QED
    BY <2>1, <2>2, <2>3
<1>8. ASSUME NEW c \in Conns, ReceiveFail(c)
      PROVE  Flows!Next
  <2>1. owner[c] \in Srcs /\ conns' = [conns EXCEPT ![owner[c]] = Nil] /\ UNCHANGED <<pc, src>>
    BY <1>8 DEF ReceiveFail, Table!Remove, handlerVars, Inv, Sources
  <2>2. PICK s \in Srcs : s = owner[c]
    BY <2>1
  <2>3. Flows!Forget(s)
    BY <2>1, <2>2 DEF Flows!Forget
  <2> QED
    BY ONLY s \in Srcs, <2>3, Zenon DEF Flows!Next
<1>9. CASE SweepDelete
  <2>1. doomed[1] \in Srcs /\ conns' = [conns EXCEPT ![doomed[1]] = Nil] /\ UNCHANGED <<pc, src>>
    BY <1>0, <1>9 DEF SweepDelete, Table!Delete, Table!Remove, handlerVars
  <2>2. PICK s \in Srcs : s = doomed[1]
    BY <2>1
  <2>3. Flows!Forget(s)
    BY <2>1, <2>2 DEF Flows!Forget
  <2> QED
    BY ONLY s \in Srcs, <2>3, Zenon DEF Flows!Next
<1> HIDE DEF K
<1> QED
  BY <1>2, <1>4, <1>5, <1>6, <1>7, <1>8, <1>9, <1>10
     DEF Next, Handle, Sweep, Receive, ReceiverClose, Expire, SweepTick, SweepVisit, StopCancel,
         StopListen, StopClose, Table!Tick, Table!Visit, handlerVars, vars

(* The UDP service implements FlowTable, for any number of handlers,       *)
(* sources and connections (udp.go:200-215, 279-299).                      *)
THEOREM Refinement == Spec => OneFlowPerSource
BY FlowInit, FlowStep, AlwaysInv, PTL DEF Spec, OneFlowPerSource, Flows!Spec

===============================================================================
