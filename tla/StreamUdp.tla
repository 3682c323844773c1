----------------------------- MODULE StreamUdp -----------------------------
(***************************************************************************)
(* The far end of datagrams that are carried over streams:                 *)
(* proxyStream2UDP of the TCP service (kind "tcp") and proxyUDP of the     *)
(* client node (kind "mux").  A handler per stream reads framed datagrams, *)
(* finds or creates the local UDP connection of the datagram's source and  *)
(* writes the data to it; a receiver goroutine per local connection frames *)
(* the answers and writes them to the stream.                              *)
(*                                                                         *)
(* The near end is the UDP service or the server node; each of its streams *)
(* carries the datagrams of one source.  It opens and closes streams as it *)
(* likes, several for one source too: the server node opens one for every  *)
(* datagram it handles before the first stream is stored.                  *)
(*                                                                         *)
(* Idle time may pass at any moment: the sweep of the connection manager   *)
(* closes what it likes.  Its snapshot and the callback are one step, the  *)
(* removal of the key another.                                             *)
(***************************************************************************)
EXTENDS Captain, FiniteSets

CONSTANTS Srcs,       \* the source addresses, as Captain has them
          Streams,    \* streams in use at a time; a bound
          Locals,     \* local connections in use at a time; a bound
          Lengths,    \* lengths of data for FramesInStep
          Nil

ASSUME StreamUdpAssumption ==
    /\ Nil \notin Srcs \cup Streams \cup Locals
    /\ "start" \notin Locals
    /\ Nil # "start"
    /\ \A s \in Srcs : Plain(s)
    /\ Lengths \subseteq Nat

VARIABLES kind,      \* the TCP service or the client node
          src,       \* src[t]: the source whose datagrams stream t carries
          stream,    \* stream[t]: "open", or "closed" by one of its ends
          hpc,       \* where the handler of stream t is
          item,      \* the local connection the handler last used, or Nil
          single,    \* "tcp": the handler that runs the function for a key
          udpConns,  \* source -> local connection (userConns in the TCP service)
          doomed,    \* the key the sweep is about to remove, or Nil
          local,     \* local[l]: "open" or "closed"
          conn,      \* conn[l]: the stream that answers on l go to
          recv,      \* recv[l]: the local connection receiver l reads; "start" or Nil
          closing,   \* closing[l]: the one it is about to close, or Nil
          stop       \* the far end was stopped

farVars == <<hpc, item, single, udpConns, doomed>>
localVars == <<local, conn, recv, closing>>
vars == <<kind, src, stream, farVars, localVars, stop>>

Ends == {"open", "closed"}

TypeOK ==
    /\ kind \in {"tcp", "mux"}
    /\ src \in [Streams -> Srcs \cup {Nil}]
    /\ stream \in [Streams -> Ends]
    /\ hpc \in [Streams -> {"off", "read", "dial", "wait"}]
    /\ item \in [Streams -> Locals \cup {Nil}]
    /\ single \in [Srcs -> Streams \cup {Nil}]
    /\ udpConns \in [Srcs -> Locals \cup {Nil}]
    /\ doomed \in Srcs \cup {Nil}
    /\ local \in [Locals -> Ends]
    /\ conn \in [Locals -> Streams \cup {Nil}]
    /\ recv \in [Locals -> Locals \cup {"start", Nil}]
    /\ closing \in [Locals -> Locals \cup {Nil}]
    /\ stop \in BOOLEAN

Init ==
    /\ kind \in {"tcp", "mux"}
    /\ src = [t \in Streams |-> Nil]
    /\ stream = [t \in Streams |-> "closed"]
    /\ hpc = [t \in Streams |-> "off"]
    /\ item = [t \in Streams |-> Nil]
    /\ single = [s \in Srcs |-> Nil]
    /\ udpConns = [s \in Srcs |-> Nil] /\ doomed = Nil
    /\ local = [l \in Locals |-> "closed"]
    /\ conn = [l \in Locals |-> Nil]
    /\ recv = [l \in Locals |-> Nil]
    /\ closing = [l \in Locals |-> Nil]
    /\ stop = FALSE

Range(f) == {f[x] : x \in DOMAIN f}

(* No goroutine and no table refers to it: its name may be used again.     *)
FreeLocal(l) ==
    /\ local[l] # "open" /\ recv[l] = Nil /\ closing[l] = Nil
    /\ l \notin Range(udpConns) \cup Range(item) \cup Range(recv) \cup Range(closing)

FreeStream(t) ==
    /\ stream[t] = "closed" /\ hpc[t] = "off"
    /\ \A l \in Locals : conn[l] = t => FreeLocal(l)

(* The source that the far end finds in the frames of a source, and in     *)
(* those of stream t.                                                      *)
Decoded == [s \in Srcs |-> Parse(Header(s, 1), 1).addr]
Source(t) == Decoded[src[t]]

-----------------------------------------------------------------------------
(* The near end. *)

Open(t, s) ==
    /\ ~stop /\ FreeStream(t)
    /\ src' = [src EXCEPT ![t] = s]
    /\ stream' = [stream EXCEPT ![t] = "open"]
    /\ hpc' = [hpc EXCEPT ![t] = "read"]
    /\ UNCHANGED <<kind, item, single, udpConns, doomed, localVars, stop>>

PeerClose(t) ==
    /\ stream[t] = "open"
    /\ stream' = [stream EXCEPT ![t] = "closed"]
    /\ UNCHANGED <<kind, src, farVars, localVars, stop>>

-----------------------------------------------------------------------------
(* The far end: proxyStream2UDP and proxyUDP. *)

(* The handlers of streams T return.  That of the client node also removes *)
(* the source and closes the connections it used last.                     *)
Return(T) ==
    LET used == IF kind = "mux" THEN {item[t] : t \in T} \ {Nil} ELSE {}
    IN /\ hpc' = [t \in Streams |-> IF t \in T THEN "off" ELSE hpc[t]]
       /\ item' = [t \in Streams |-> IF t \in T THEN Nil ELSE item[t]]
       /\ stream' = [t \in Streams |->
                       IF t \in T \/ \E l \in used : conn[l] = t THEN "closed" ELSE stream[t]]
       /\ local' = [l \in Locals |-> IF l \in used THEN "closed" ELSE local[l]]
       /\ udpConns' = [s \in Srcs |->
                         IF used # {} /\ \E t \in T : Source(t) = s THEN Nil ELSE udpConns[s]]

(* A datagram is read and its source looked up; in the TCP service inside  *)
(* single.Do, and a failing write ends the handler.  The context is looked *)
(* at before the read: a handler that blocks in it while Stop runs serves  *)
(* one more datagram (here, several) before it returns.                    *)
Read(t) ==
    LET k == Source(t)
        l == udpConns[k]
        inCall == kind = "tcp" /\ single[k] # Nil
        writable == kind = "mux" \/ local[l] = "open"
    IN /\ hpc[t] = "read" /\ stream[t] = "open"
       /\ \/ /\ inCall
             /\ hpc' = [hpc EXCEPT ![t] = "wait"]
             /\ UNCHANGED <<item, single, udpConns, stream, local>>
          \/ /\ ~inCall /\ l = Nil
             /\ hpc' = [hpc EXCEPT ![t] = "dial"]
             /\ single' = IF kind = "tcp" THEN [single EXCEPT ![k] = t] ELSE single
             /\ UNCHANGED <<item, udpConns, stream, local>>
          \/ /\ ~inCall /\ l # Nil /\ writable
             /\ item' = [item EXCEPT ![t] = l]
             /\ UNCHANGED <<hpc, single, udpConns, stream, local>>
          \/ /\ ~inCall /\ l # Nil /\ ~writable
             /\ Return({t})
             /\ UNCHANGED single
       /\ UNCHANGED <<kind, src, doomed, conn, recv, closing, stop>>

(* Faulty: nobody shares the result. *)
SharingNone(t) == {t}

Sharing(t) == {t} \cup {u \in Streams : hpc[u] = "wait" /\ Source(u) = Source(t)}

(* DialUDP and Set; the receiver starts.  That of the client node looks    *)
(* its connection up, that of the TCP service has it.                      *)
Dial(t, l) ==
    /\ hpc[t] = "dial"
    /\ FreeLocal(l)
    /\ local' = [local EXCEPT ![l] = "open"]
    /\ conn' = [conn EXCEPT ![l] = t]
    /\ recv' = [recv EXCEPT ![l] = IF kind = "tcp" THEN l ELSE "start"]
    /\ udpConns' = [udpConns EXCEPT ![Source(t)] = l]
    /\ single' = [single EXCEPT ![Source(t)] = Nil]
    /\ item' = [u \in Streams |-> IF u \in Sharing(t) THEN l ELSE item[u]]
    /\ hpc' = [u \in Streams |-> IF u \in Sharing(t) THEN "read" ELSE hpc[u]]
    /\ UNCHANGED <<kind, src, stream, doomed, closing, stop>>

DialFail(t) ==
    /\ hpc[t] = "dial"
    /\ Return(Sharing(t))
    /\ single' = [single EXCEPT ![Source(t)] = Nil]
    /\ UNCHANGED <<kind, src, doomed, conn, recv, closing, stop>>

(* Reading the stream fails, or the context is done.                       *)
ReadFail(t) ==
    /\ hpc[t] = "read" /\ (stream[t] = "closed" \/ stop)
    /\ Return({t})
    /\ UNCHANGED <<kind, src, single, doomed, conn, recv, closing, stop>>

(* runUdpReceive of the client node. *)
LocalStart(l) ==
    /\ recv[l] = "start"
    /\ recv' = [recv EXCEPT ![l] = udpConns[Source(conn[l])]]
    /\ UNCHANGED <<kind, src, stream, farVars, local, conn, closing, stop>>

(* Reading the local connection fails: the source is removed,              *)
LocalFail(l) ==
    /\ recv[l] \in Locals
    /\ udpConns' = [udpConns EXCEPT ![Source(conn[l])] = Nil]
    /\ closing' = [closing EXCEPT ![l] = recv[l]]
    /\ recv' = [recv EXCEPT ![l] = Nil]
    /\ UNCHANGED <<kind, src, stream, hpc, item, single, doomed,
                   local, conn, stop>>

(* Faulty: the local connection is left open. *)
LocalCloseStream(l) ==
    /\ closing[l] # Nil
    /\ stream' = [stream EXCEPT ![conn[closing[l]]] = "closed"]
    /\ closing' = [closing EXCEPT ![l] = Nil]
    /\ UNCHANGED <<kind, src, farVars, local, conn, recv, stop>>

(* and stream and local connection are closed.                             *)
LocalClose(l) ==
    /\ closing[l] # Nil
    /\ local' = [local EXCEPT ![closing[l]] = "closed"]
    /\ stream' = [stream EXCEPT ![conn[closing[l]]] = "closed"]
    /\ closing' = [closing EXCEPT ![l] = Nil]
    /\ UNCHANGED <<kind, src, farVars, conn, recv, stop>>

(* An answer cannot be written to the stream: the client node closes the   *)
(* local connection.                                                       *)
AnswerFail(l) ==
    /\ kind = "mux" /\ local[l] = "open" /\ l \in Range(recv) /\ stream[conn[l]] = "closed"
    /\ local' = [local EXCEPT ![l] = "closed"]
    /\ UNCHANGED <<kind, src, stream, farVars, conn, recv, closing, stop>>

CloseItems(L) ==
    /\ local' = [l \in Locals |-> IF l \in L THEN "closed" ELSE local[l]]
    /\ stream' = [t \in Streams |-> IF \E l \in L : conn[l] = t THEN "closed" ELSE stream[t]]

Sweep(s) ==
    /\ doomed = Nil /\ udpConns[s] # Nil /\ ~stop
    /\ CloseItems({udpConns[s]})
    /\ doomed' = s
    /\ UNCHANGED <<kind, src, hpc, item, single, udpConns, conn, recv, closing,
                   stop>>

SweepDelete ==
    /\ doomed # Nil
    /\ udpConns' = [udpConns EXCEPT ![doomed] = Nil]
    /\ doomed' = Nil
    /\ UNCHANGED <<kind, src, stream, hpc, item, single, localVars, stop>>

(* Stop of the TCP service closes what is in the table, that of the client *)
(* node closes the session and with it the streams.                        *)
Stop ==
    /\ ~stop
    /\ stop' = TRUE
    /\ IF kind = "tcp"
       THEN CloseItems(Range(udpConns) \ {Nil})
       ELSE /\ stream' = [t \in Streams |-> IF stream[t] = "open" THEN "closed" ELSE stream[t]]
            /\ UNCHANGED local
    /\ UNCHANGED <<kind, src, farVars, conn, recv, closing>>

-----------------------------------------------------------------------------
Serve(t) ==
    (\E l \in Locals : Dial(t, l)) \/ DialFail(t) \/ (stream[t] = "closed" /\ ReadFail(t))

Next ==
    \/ \E t \in Streams :
        \/ (\E s \in Srcs : Open(t, s)) \/ PeerClose(t)
        \/ Read(t) \/ ReadFail(t) \/ Serve(t)
    \/ \E l \in Locals : LocalStart(l) \/ LocalFail(l) \/ LocalClose(l) \/ AnswerFail(l)
    \/ (\E s \in Srcs : Sweep(s)) \/ SweepDelete
    \/ Stop

(* Goroutines run; dialling ends; reading from a closed stream fails.      *)
(* Whether a handler that reads an open stream sees that the context is    *)
(* done depends on the near end.                                           *)
Fairness == \A t \in Streams : WF_vars(Serve(t))

Spec == Init /\ [][Next]_vars /\ Fairness

-----------------------------------------------------------------------------
(* Framing keeps the stream in step: for every address and every length up *)
(* to the largest, the reader finds the address, byte for byte the data    *)
(* and the beginning of the next frame; longer data is refused by the      *)
(* writer (captain DataLen, ParseDataLen, Header, ParseStreamDatagram).    *)
FramesInStep ==
    \A t \in Streams, n \in Lengths :
        stream[t] = "open" =>
            IF n > MaxDataLen THEN DataLen(n) = <<>>
            ELSE Parse(Header(src[t], n), n) = [status |-> "ok", addr |-> src[t]]

(* A datagram is written to a local connection whose answers go to a       *)
(* stream of the datagram's own source, also when several streams carry    *)
(* one source, share a call of single.Do, or find connections that others  *)
(* created (tcp.go:285-312, client.go:264-287).                            *)
OwnSource ==
    \A t \in Streams : item[t] # Nil => src[conn[item[t]]] = src[t]

Touched(s) ==
    \/ udpConns'[s] # udpConns[s]
    \/ \E t \in Streams : src[t] = s /\ src'[t] = s /\ stream'[t] # stream[t]
    \/ \E l \in Locals :
        conn[l] # Nil /\ conn'[l] = conn[l] /\ src[conn[l]] = s /\ local'[l] # local[l]

(* Whatever happens to a stream, a local connection or the table entry of  *)
(* one source - end of file, sweep, failing dial, failing receiver -       *)
(* leaves those of every other source alone, except for Stop.              *)
SourcesApart ==
    [][~stop' => \A s1, s2 \in Srcs : Touched(s1) /\ Touched(s2) => s1 = s2]_vars

(* The TCP service never overwrites the entry of a source: a connection    *)
(* that is overwritten is out of reach of the sweep and of Stop.  Several  *)
(* streams of one source may look it up at a time (tcp.go:285-313).        *)
NeverOverwritten ==
    [][kind = "tcp" =>
         \A s \in Srcs : udpConns[s] # Nil => udpConns'[s] \in {udpConns[s], Nil}]_vars

(* In the TCP service every open local connection has its own receiver,    *)
(* which closes it when it ends, whatever became of its table entry and    *)
(* its stream (tcp.go:303-312).                                            *)
OpenHasReceiver ==
    kind = "tcp" => \A l \in Locals : local[l] = "open" => l \in {recv[l], closing[l]}

(* The handler of a stream that either side closed ends, also when it      *)
(* waits for the result of another handler's call (tcp.go:269-365,         *)
(* client.go:249-293).                                                     *)
HandlerEnds ==
    \A t \in Streams : (hpc[t] # "off" /\ stream[t] = "closed") ~> hpc[t] = "off"

-----------------------------------------------------------------------------
(* What single.Do, Get and Set of the TCP service promise the sources.     *)
(* The client node has no single flight and promises none of it.           *)
Flows == INSTANCE FlowTable
             WITH Conns <- Locals,
                  entry <- IF kind = "tcp" THEN udpConns ELSE [s \in Srcs |-> Nil],
                  creating <- {s \in Srcs : kind = "tcp" /\ \E t \in Streams :
                                 hpc[t] = "dial" /\ src[t] = s}

(* However many streams carry datagrams of a source, the TCP service       *)
(* creates one local connection for it at a time, only while the table has *)
(* none, and shares none between sources (tcp.go:285-313).                 *)
OneFlowPerSource == Flows!Spec

=============================================================================
