-------------------------- MODULE StreamUdpProofs --------------------------
(***************************************************************************)
(* Proofs about Captain's frames, for every length and every address that  *)
(* the runtime writes, and about StreamUdp, for any sources, streams and   *)
(* local connections.                                                      *)
(***************************************************************************)
EXTENDS StreamUdp, TLAPS

(* What ParseDataLen makes of one byte, and of two. *)
LEMMA OneByte ==
    ASSUME NEW ds, Len(ds) = 1, ds[1] \in 0..127
    PROVE  ParseDataLen(ds) = [status |-> "ok", length |-> ds[1], used |-> 1]
  <1> DEFINE more(i) == i <= Len(ds) /\ ds[i] >= 128
             digit(i) == IF i <= Len(ds) THEN ds[i] % 128 ELSE 0
             n == IF ~more(1) THEN 1 ELSE IF ~more(2) THEN 2 ELSE 3
  <1>1. ParseDataLen(ds) =
          [status |-> IF n > Len(ds) THEN "out of step" ELSE IF more(n) THEN "error" ELSE "ok",
           length |-> digit(1) + (IF n > 1 THEN digit(2) * 128 ELSE 0)
                               + (IF n > 2 THEN digit(3) * 16384 ELSE 0),
           used |-> n]
    BY SMT DEF ParseDataLen
  <1>2. n = 1 /\ ~more(n) /\ digit(1) = ds[1]
    BY SMT
  <1> HIDE DEF n, more, digit
  <1> QED BY <1>1, <1>2, SMT

LEMMA TwoBytes ==
    ASSUME NEW ds, NEW a \in 0..127, NEW b \in 0..127, Len(ds) = 2, ds[1] = 128 + a, ds[2] = b
    PROVE  ParseDataLen(ds) = [status |-> "ok", length |-> a + b * 128, used |-> 2]
  <1> DEFINE more(i) == i <= Len(ds) /\ ds[i] >= 128
             digit(i) == IF i <= Len(ds) THEN ds[i] % 128 ELSE 0
             n == IF ~more(1) THEN 1 ELSE IF ~more(2) THEN 2 ELSE 3
  <1>1. ParseDataLen(ds) =
          [status |-> IF n > Len(ds) THEN "out of step" ELSE IF more(n) THEN "error" ELSE "ok",
           length |-> digit(1) + (IF n > 1 THEN digit(2) * 128 ELSE 0)
                               + (IF n > 2 THEN digit(3) * 16384 ELSE 0),
           used |-> n]
    BY SMT DEF ParseDataLen
  <1>2. n = 2 /\ ~more(n) /\ digit(1) = a /\ digit(2) = b
    BY SMT
  <1> HIDE DEF n, more, digit
  <1> QED BY <1>1, <1>2, SMT

(* ParseDataLen reads what DataLen wrote, and no byte more. *)
LEMMA LengthRead ==
    ASSUME NEW n \in Nat, n <= MaxDataLen
    PROVE  ParseDataLen(DataLen(n)) = [status |-> "ok", length |-> n, used |-> Len(DataLen(n))]
  <1> USE DEF MaxDataLen
  <1>1. CASE n < 128
    <2>1. DataLen(n) = <<n>> /\ n % 128 = n
      BY <1>1, SMT DEF DataLen
    <2> DEFINE ds == DataLen(n)
    <2>2. Len(ds) = 1 /\ ds[1] = n
      BY <2>1, SMT
    <2> HIDE DEF ds
    <2>3. ParseDataLen(ds) = [status |-> "ok", length |-> n, used |-> Len(ds)]
      BY <1>1, <2>1, <2>2, OneByte, SMT
    <2> QED BY <2>3, SMT DEF ds
  <1>2. CASE n >= 128 /\ n < 16384
    <2> DEFINE a == n % 128  b == n \div 128  ds == DataLen(n)
    <2>1. ds = <<128 + a, b>>
      BY <1>2, SMT DEF DataLen
    <2>2. a \in 0..127 /\ b \in 0..127 /\ n = a + b * 128
      BY <1>2, SMT
    <2> HIDE DEF a, b, ds
    <2>3. Len(ds) = 2 /\ ds[1] = 128 + a /\ ds[2] = b
      BY <2>1, <2>2, SMT
    <2>4. ParseDataLen(ds) = [status |-> "ok", length |-> a + b * 128, used |-> 2]
      <3> HIDE DEF MaxDataLen
      <3> QED BY <2>2, <2>3, TwoBytes, ZenonT(60)
    <2>5. ParseDataLen(ds) = [status |-> "ok", length |-> n, used |-> Len(ds)]
      <3> HIDE DEF MaxDataLen
      <3> QED BY <2>2, <2>3, <2>4, Zenon
    <2> QED BY <2>5, SMT DEF ds
  <1>3. CASE n >= 16384
    <2> DEFINE a == n % 128  b == (n \div 128) % 128  c == n \div 16384
    <2>1. DataLen(n) = <<128 + a, 128 + b, c>>
      BY <1>3, SMT DEF DataLen
    <2>2. a \in 0..127 /\ b \in 0..127 /\ c \in 0..127 /\ n = a + b * 128 + c * 16384
      BY <1>3, SMT
    <2> HIDE DEF a, b, c
    <2>3. (128 + a) % 128 = a /\ (128 + b) % 128 = b /\ c % 128 = c
      BY <2>2, SMT
    <2> QED BY <2>1, <2>2, <2>3, SMT DEF ParseDataLen
  <1> QED BY <1>1, <1>2, <1>3, SMT

(* The far end finds the address that the near end wrote. *)
LEMMA AddressRead ==
    ASSUME NEW s, Plain(s), NEW n
    PROVE  Parse(Header(s, n), n).addr = s
  <1>1. s.port \in Nat BY SMT DEF Plain
  <1>2. (s.port \div 256) * 256 + (s.port % 256) = s.port
    BY <1>1, SMT
  <1>3. Written(s.host) = s.host
    BY SMT DEF Plain, Written, AddrType
  <1>4. Parse(Header(s, n), n).addr = [host |-> Written(s.host), port |-> (s.port \div 256) * 256 + (s.port % 256)]
    BY SMT DEF Parse, Header
  <1> QED BY <1>2, <1>3, <1>4, SMT DEF Plain

(* A frame is read as it was written. *)
LEMMA FrameRead ==
    ASSUME NEW s, Plain(s), NEW n \in Nat, n <= MaxDataLen
    PROVE  Parse(Header(s, n), n) = [status |-> "ok", addr |-> s]
  <1>1. s.host.text % 256 = s.host.text
    BY SMT DEF Plain
  <1>2. Parse(Header(s, n), n).status = "ok"
    BY <1>1, LengthRead, SMT DEF Parse, Header
  <1>3. Parse(Header(s, n), n).addr = s
    BY AddressRead, SMT
  <1>4. PICK st : Parse(Header(s, n), n) = [status |-> st, addr |-> Parse(Header(s, n), n).addr]
    <2> DEFINE f == Header(s, n)
               got == ParseDataLen(f.len)
    <2>1. Parse(f, n) = [status |-> IF got.status # "ok" THEN got.status
                                  ELSE IF \/ f.type = "Domain" /\ f.size # f.host.text
                                          \/ got.used # Len(f.len) \/ got.length # n
                                  THEN "out of step" ELSE "ok",
                         addr |-> [host |-> Written(f.host), port |-> f.port[1] * 256 + f.port[2]]]
      BY DEF Parse
    <2> HIDE DEF f, got
    <2>2. \A x, y : [status |-> x, addr |-> y].addr = y
      OBVIOUS
    <2>3. \E st : Parse(f, n) = [status |-> st, addr |-> Parse(f, n).addr]
      BY <2>1, <2>2, Zenon
    <2> QED BY <2>3, SMT DEF f
  <1>5. \A x, y : [status |-> x, addr |-> y].status = x
    OBVIOUS
  <1> QED BY <1>2, <1>3, <1>4, <1>5

-----------------------------------------------------------------------------
(* The source a handler finds in a frame is that of its stream. *)
LEMMA SourceOf ==
    ASSUME NEW t \in Streams, src[t] \in Srcs
    PROVE  Source(t) = src[t]
  <1>1. Plain(src[t])
    BY StreamUdpAssumption
  <1>2. Parse(Header(src[t], 1), 1).addr = src[t]
    BY <1>1, AddressRead
  <1> QED BY <1>2 DEF Source, Decoded

(* A stream that is open or served has a source, and a handler that has    *)
(* returned holds no local connection.                                     *)
StreamInv ==
    \A t \in Streams :
        /\ stream[t] = "open" \/ hpc[t] # "off" => src[t] \in Srcs
        /\ hpc[t] = "off" => item[t] = Nil

(* A local connection in use belongs to a stream with a source. *)
ConnInv ==
    \A l \in Locals :
        /\ conn[l] # Nil => src[conn[l]] \in Srcs
        /\ local[l] = "open" \/ recv[l] # Nil \/ closing[l] # Nil => conn[l] # Nil

Of(l, s) == conn[l] # Nil /\ src[conn[l]] = s

(* The local connections that the table, a handler or a receiver holds are *)
(* of its own source.                                                      *)
TableInv == \A s \in Srcs : udpConns[s] # Nil => Of(udpConns[s], s)
ItemInv == \A t \in Streams : item[t] # Nil => Of(item[t], src[t])
RecvInv ==
    \A l \in Locals :
        /\ recv[l] \in Locals => Of(recv[l], src[conn[l]])
        /\ closing[l] # Nil => Of(closing[l], src[conn[l]])

(* The receivers of the TCP service read their own connections, and a      *)
(* handler that dials is the one of its key and found no entry.            *)
TcpInv ==
    kind = "tcp" =>
        /\ \A l \in Locals : recv[l] \in {l, Nil} /\ closing[l] \in {l, Nil}
        /\ \A t \in Streams : hpc[t] = "dial" => single[src[t]] = t /\ udpConns[src[t]] = Nil

Inv ==
    /\ TypeOK
    /\ StreamInv
    /\ ConnInv
    /\ TableInv
    /\ ItemInv
    /\ RecvInv
    /\ TcpInv
    /\ OpenHasReceiver

Apart == StreamInv /\ ConnInv /\ TableInv /\ ItemInv /\ RecvInv

(* The invariant holds in the initial states. *)
LEMMA InitInv == Init => Inv
  <1> SUFFICES ASSUME Init PROVE Inv
    OBVIOUS
  <1> USE StreamUdpAssumption DEF Init
  <1>1. TypeOK BY ZenonT(60) DEF TypeOK, Ends
  <1>2. Apart BY DEF Apart, StreamInv, ConnInv, TableInv, ItemInv, RecvInv
  <1>3. TcpInv /\ OpenHasReceiver BY DEF TcpInv, OpenHasReceiver
  <1> QED BY <1>1, <1>2, <1>3 DEF Inv, Apart

(* A step that starts no stream and dials nothing: what is held afterwards *)
(* was held before, or was found in the table under the holder's source.   *)
HeldByStreams ==
    \A t \in Streams :
        /\ stream'[t] = "open" => stream[t] = "open"
        /\ hpc'[t] # "off" => hpc[t] # "off"
        /\ hpc'[t] = "off" => item'[t] = Nil
        /\ item'[t] \in {item[t], Nil} \/ (src[t] \in Srcs /\ item'[t] = udpConns[src[t]])

HeldByLocals ==
    \A l \in Locals :
        /\ local'[l] = "open" => local[l] = "open"
        /\ recv'[l] # Nil => recv[l] # Nil
        /\ recv'[l] \in {recv[l], Nil} \/ recv'[l] = udpConns[src[conn[l]]]
        /\ closing'[l] # Nil => closing[l] = closing'[l] \/ (recv[l] \in Locals /\ closing'[l] = recv[l])

Held ==
    /\ UNCHANGED <<src, conn>>
    /\ HeldByStreams
    /\ \A s \in Srcs : udpConns'[s] \in {udpConns[s], Nil}
    /\ HeldByLocals

(* Sources stay apart in such a step. *)
LEMMA Keep ==
    ASSUME Inv, Held
    PROVE  Apart'
  <1> USE StreamUdpAssumption DEF Inv, Of, Held, HeldByStreams, HeldByLocals
  <1>1. StreamInv' BY DEF StreamInv
  <1>2. ConnInv' BY DEF ConnInv
  <1>3. TableInv' BY DEF TableInv
  <1>4. ItemInv' BY DEF ItemInv, TableInv
  <1>5. RecvInv'
    <2> SUFFICES ASSUME NEW l \in Locals
                 PROVE  /\ recv'[l] \in Locals => Of(recv'[l], src[conn[l]])
                        /\ closing'[l] # Nil => Of(closing'[l], src[conn[l]])
      BY DEF RecvInv
    <2>1. recv'[l] \in Locals => conn[l] # Nil /\ src[conn[l]] \in Srcs
      BY DEF ConnInv
    <2>2. recv'[l] \in Locals => Of(recv'[l], src[conn[l]])
      BY <2>1 DEF RecvInv, TableInv
    <2>3. closing'[l] # Nil => Of(closing'[l], src[conn[l]])
      BY DEF RecvInv
    <2> QED BY <2>2, <2>3
  <1> QED BY <1>1, <1>2, <1>3, <1>4, <1>5 DEF Apart

(* Handlers return. *)
LEMMA Returning ==
    ASSUME Inv, NEW T \in SUBSET Streams, Return(T),
           UNCHANGED <<kind, src, conn, recv, closing>>
    PROVE  /\ hpc' = [t \in Streams |-> IF t \in T THEN "off" ELSE hpc[t]]
           /\ item' = [t \in Streams |-> IF t \in T THEN Nil ELSE item[t]]
           /\ stream' \in [Streams -> Ends]
           /\ local' \in [Locals -> Ends]
           /\ udpConns' \in [Srcs -> Locals \cup {Nil}]
           /\ \A s \in Srcs : udpConns'[s] \in {udpConns[s], Nil}
           /\ kind = "tcp" => UNCHANGED <<local, udpConns>>
           /\ Apart'
  <1> USE StreamUdpAssumption
  <1>1. TypeOK BY DEF Inv
  <1> DEFINE used == IF kind = "mux" THEN {item[t] : t \in T} \ {Nil} ELSE {}
  <1>2. /\ hpc' = [t \in Streams |-> IF t \in T THEN "off" ELSE hpc[t]]
        /\ item' = [t \in Streams |-> IF t \in T THEN Nil ELSE item[t]]
        /\ stream' = [t \in Streams |->
                        IF t \in T \/ \E l \in used : conn[l] = t THEN "closed" ELSE stream[t]]
        /\ local' = [l \in Locals |-> IF l \in used THEN "closed" ELSE local[l]]
        /\ udpConns' = [s \in Srcs |->
                          IF used # {} /\ \E t \in T : Source(t) = s THEN Nil ELSE udpConns[s]]
    BY DEF Return
  <1>3. kind = "tcp" => used = {}
    OBVIOUS
  <1> HIDE DEF used
  <1>4. /\ stream' \in [Streams -> Ends]
        /\ local' \in [Locals -> Ends]
        /\ udpConns' \in [Srcs -> Locals \cup {Nil}]
        /\ \A s \in Srcs : udpConns'[s] \in {udpConns[s], Nil}
    BY <1>1, <1>2 DEF TypeOK, Ends
  <1>5. kind = "tcp" => UNCHANGED <<local, udpConns>>
    BY <1>1, <1>2, <1>3 DEF TypeOK
  <1>6. /\ \A t \in Streams : /\ stream'[t] = "open" => stream[t] = "open"
                              /\ hpc'[t] # "off" => hpc[t] # "off"
                              /\ hpc'[t] = "off" => item'[t] = Nil
                              /\ item'[t] \in {item[t], Nil}
        /\ \A l \in Locals : local'[l] = "open" => local[l] = "open"
    BY <1>2 DEF Inv, StreamInv
  <1>7. Apart'
    <2>1. HeldByStreams BY <1>6 DEF HeldByStreams
    <2>2. HeldByLocals BY <1>6 DEF HeldByLocals
    <2> QED BY <1>4, <2>1, <2>2, Keep DEF Held
  <1> QED BY <1>2, <1>4, <1>5, <1>7

(* The steps of the near end preserve the invariant: a stream is opened    *)
(* only under a name that nothing in use refers to.                        *)
LEMMA NearStep ==
    ASSUME NEW t \in Streams, Inv, PeerClose(t) \/ \E s \in Srcs : Open(t, s)
    PROVE  Inv'
  <1> USE StreamUdpAssumption
  <1>1. TypeOK BY DEF Inv
  <1>2. CASE PeerClose(t)
    <2>1. /\ stream' = [stream EXCEPT ![t] = "closed"]
          /\ UNCHANGED <<kind, src, hpc, item, single, udpConns, doomed, local, conn, recv, closing, stop>>
      BY <1>2 DEF PeerClose, farVars, localVars
    <2>2. TypeOK' BY <1>1, <2>1 DEF TypeOK, Ends
    <2>3. Apart'
      <3>1. HeldByStreams BY <1>1, <2>1 DEF Inv, TypeOK, StreamInv, HeldByStreams
      <3>2. HeldByLocals BY <1>1, <2>1 DEF HeldByLocals
      <3> QED BY <1>1, <2>1, <3>1, <3>2, Keep DEF Held
    <2>4. TcpInv' /\ OpenHasReceiver' BY <2>1 DEF Inv, TcpInv, OpenHasReceiver
    <2> QED BY <2>2, <2>3, <2>4 DEF Inv, Apart
  <1>3. CASE \E s \in Srcs : Open(t, s)
    <2>1. PICK s \in Srcs : Open(t, s) BY <1>3
    <2>2. /\ src' = [src EXCEPT ![t] = s]
          /\ stream' = [stream EXCEPT ![t] = "open"]
          /\ hpc' = [hpc EXCEPT ![t] = "read"]
          /\ UNCHANGED <<kind, item, single, udpConns, doomed, local, conn, recv, closing, stop>>
          /\ FreeStream(t)
      BY <2>1 DEF Open, localVars
    <2>3. \A l \in Locals : conn[l] = t => FreeLocal(l)
      BY ZenonT(60), <2>2 DEF FreeStream
    <2>4. /\ \A d \in Srcs : udpConns[d] # Nil => conn[udpConns[d]] # t
          /\ \A u \in Streams : item[u] # Nil => conn[item[u]] # t
          /\ \A l \in Locals : recv[l] \in Locals => conn[recv[l]] # t /\ conn[l] # t
          /\ \A l \in Locals : closing[l] # Nil => conn[closing[l]] # t /\ conn[l] # t
          /\ item[t] = Nil
      BY <1>1, <2>2, <2>3 DEF FreeStream, FreeLocal, Range, TypeOK, Inv, StreamInv
    <2>5. TypeOK' BY ZenonT(60), <1>1, <2>2 DEF TypeOK, Ends
    <2>6. StreamInv' /\ ConnInv'
      BY <1>1, <2>2, <2>4, ZenonT(60) DEF Inv, TypeOK, StreamInv, ConnInv
    <2>7. TableInv' /\ ItemInv'
      BY <1>1, <2>2, <2>4, SMTT(30) DEF Inv, TypeOK, TableInv, ItemInv, Of
    <2>8. RecvInv'
      BY <1>1, <2>2, <2>4, SMTT(30) DEF Inv, TypeOK, RecvInv, Of
    <2>9. TcpInv' /\ OpenHasReceiver'
      BY <1>1, <2>2 DEF Inv, TypeOK, TcpInv, OpenHasReceiver
    <2> QED BY <2>5, <2>6, <2>7, <2>8, <2>9 DEF Inv
  <1> QED BY <1>2, <1>3

(* A handler reads: it waits, becomes the one that dials for its key,      *)
(* takes the connection in the table, or returns.                          *)
LEMMA ReadStep ==
    ASSUME NEW t \in Streams, Inv, Read(t) \/ ReadFail(t)
    PROVE  Inv'
  <1> USE StreamUdpAssumption
  <1>1. TypeOK /\ hpc[t] = "read" /\ UNCHANGED <<kind, src, doomed, conn, recv, closing, stop>>
    BY DEF Inv, Read, ReadFail
  <1>2. src[t] \in Srcs /\ Source(t) = src[t]
    BY <1>1, SourceOf DEF Inv, StreamInv
  <1>3. CASE Return({t}) /\ UNCHANGED single
    <2>1. /\ hpc' = [u \in Streams |-> IF u \in {t} THEN "off" ELSE hpc[u]]
          /\ item' = [u \in Streams |-> IF u \in {t} THEN Nil ELSE item[u]]
          /\ stream' \in [Streams -> Ends] /\ local' \in [Locals -> Ends]
          /\ udpConns' \in [Srcs -> Locals \cup {Nil}]
          /\ kind = "tcp" => UNCHANGED <<local, udpConns>>
          /\ Apart'
      BY <1>1, <1>3, Returning
    <2>2. TypeOK' BY <1>1, <1>3, <2>1 DEF TypeOK
    <2>3. TcpInv' /\ OpenHasReceiver'
      BY <1>1, <1>3, <2>1 DEF Inv, TcpInv, OpenHasReceiver
    <2> QED BY <2>1, <2>2, <2>3 DEF Inv, Apart
  <1>4. CASE hpc' = [hpc EXCEPT ![t] = "wait"] /\ UNCHANGED <<item, single, udpConns, stream, local>>
    <2>1. TypeOK' BY <1>1, <1>4 DEF TypeOK
    <2>2. Apart'
      <3>1. HeldByStreams BY <1>1, <1>4 DEF Inv, TypeOK, StreamInv, HeldByStreams
      <3>2. HeldByLocals BY <1>1, <1>4 DEF HeldByLocals
      <3> QED BY <1>1, <1>4, <3>1, <3>2, Keep DEF Held
    <2>3. TcpInv' /\ OpenHasReceiver' BY <1>1, <1>4 DEF Inv, TypeOK, TcpInv, OpenHasReceiver
    <2> QED BY <2>1, <2>2, <2>3 DEF Inv, Apart
  <1>5. CASE /\ hpc' = [hpc EXCEPT ![t] = "dial"] /\ udpConns[src[t]] = Nil
             /\ kind = "tcp" => single[src[t]] = Nil
             /\ single' = IF kind = "tcp" THEN [single EXCEPT ![src[t]] = t] ELSE single
             /\ UNCHANGED <<item, udpConns, stream, local>>
    <2>1. TypeOK' BY <1>1, <1>2, <1>5 DEF TypeOK
    <2>2. Apart'
      <3>1. HeldByStreams BY <1>1, <1>5 DEF Inv, TypeOK, StreamInv, HeldByStreams
      <3>2. HeldByLocals BY ZenonT(60), <1>1, <1>5 DEF HeldByLocals
      <3> QED BY ZenonT(60), <1>1, <1>5, <3>1, <3>2, Keep DEF Held
    <2>3. TcpInv' BY <1>1, <1>2, <1>5, SMTT(30) DEF Inv, TypeOK, TcpInv, StreamInv
    <2>4. OpenHasReceiver' BY <1>1, <1>5 DEF Inv, OpenHasReceiver
    <2> QED BY <2>1, <2>2, <2>3, <2>4 DEF Inv, Apart
  <1>6. CASE /\ item' = [item EXCEPT ![t] = udpConns[src[t]]]
             /\ UNCHANGED <<hpc, single, udpConns, stream, local>>
    <2>1. TypeOK' BY <1>1, <1>2, <1>6 DEF TypeOK
    <2>2. Apart'
      <3>1. HeldByStreams BY <1>1, <1>2, <1>6 DEF Inv, TypeOK, StreamInv, HeldByStreams
      <3>2. HeldByLocals BY <1>1, <1>2, <1>6 DEF HeldByLocals
      <3> QED BY ZenonT(60), <1>1, <1>2, <1>6, <3>1, <3>2, Keep DEF Held
    <2>3. TcpInv' /\ OpenHasReceiver' BY ZenonT(60), <1>1, <1>6 DEF Inv, TcpInv, OpenHasReceiver
    <2> QED BY <2>1, <2>2, <2>3 DEF Inv, Apart
  <1>7. CASE Read(t)
    BY <1>2, <1>3, <1>4, <1>5, <1>6, <1>7 DEF Read
  <1>8. CASE ReadFail(t)
    BY <1>3, <1>8 DEF ReadFail
  <1> QED BY ZenonT(60), <1>7, <1>8

(* The handlers that get the result of a call are those of its source. *)
LEMMA SharingOf ==
    ASSUME NEW t \in Streams, Inv, hpc[t] = "dial"
    PROVE  /\ src[t] \in Srcs /\ Source(t) = src[t]
           /\ Sharing(t) \in SUBSET Streams /\ t \in Sharing(t)
           /\ \A u \in Sharing(t) : hpc[u] \in {"dial", "wait"} /\ src[u] = src[t]
           /\ \A u \in Sharing(t) : hpc[u] = "dial" => u = t
  <1>1. \A u \in Streams : hpc[u] # "off" => src[u] \in Srcs
    BY DEF Inv, StreamInv
  <1>2. \A u \in Streams : hpc[u] # "off" => Source(u) = src[u]
    BY <1>1, SourceOf
  <1> QED BY ZenonT(60), <1>1, <1>2 DEF Sharing

(* Dialling gives the source a fresh local connection, which nothing else  *)
(* refers to; failing to dial ends the handlers that waited.               *)
LEMMA DialStep ==
    ASSUME NEW t \in Streams, Inv, DialFail(t) \/ \E l \in Locals : Dial(t, l)
    PROVE  Inv'
  <1> USE StreamUdpAssumption
  <1>1. TypeOK /\ hpc[t] = "dial"
    BY DEF Inv, DialFail, Dial
  <1>2. /\ src[t] \in Srcs /\ Source(t) = src[t]
        /\ Sharing(t) \in SUBSET Streams /\ t \in Sharing(t)
        /\ \A u \in Sharing(t) : hpc[u] \in {"dial", "wait"} /\ src[u] = src[t]
        /\ \A u \in Sharing(t) : hpc[u] = "dial" => u = t
    BY <1>1, SharingOf
  <1>3. \A u \in Streams : kind = "tcp" /\ hpc[u] = "dial" /\ src[u] = src[t] => u = t
    BY <1>1 DEF Inv, TcpInv
  <1>4. CASE DialFail(t)
    <2>1. /\ Return(Sharing(t)) /\ single' = [single EXCEPT ![src[t]] = Nil]
          /\ UNCHANGED <<kind, src, doomed, conn, recv, closing, stop>>
      BY <1>2, <1>4 DEF DialFail
    <2>2. /\ hpc' = [u \in Streams |-> IF u \in Sharing(t) THEN "off" ELSE hpc[u]]
          /\ item' = [u \in Streams |-> IF u \in Sharing(t) THEN Nil ELSE item[u]]
          /\ stream' \in [Streams -> Ends] /\ local' \in [Locals -> Ends]
          /\ udpConns' \in [Srcs -> Locals \cup {Nil}]
          /\ kind = "tcp" => UNCHANGED <<local, udpConns>>
          /\ Apart'
      BY <1>2, <2>1, Returning
    <2>3. TypeOK' BY ZenonT(60), <1>1, <2>1, <2>2 DEF TypeOK
    <2>4. TcpInv'
      BY ZenonT(60), <1>1, <1>2, <1>3, <2>1, <2>2 DEF Inv, TypeOK, TcpInv, StreamInv
    <2>5. OpenHasReceiver' BY <2>1, <2>2 DEF Inv, OpenHasReceiver
    <2> QED BY <2>2, <2>3, <2>4, <2>5 DEF Inv, Apart
  <1>5. CASE \E l \in Locals : Dial(t, l)
    <2>1. PICK l \in Locals : Dial(t, l) BY <1>5
    <2>2. /\ local' = [local EXCEPT ![l] = "open"]
          /\ conn' = [conn EXCEPT ![l] = t]
          /\ recv' = [recv EXCEPT ![l] = IF kind = "tcp" THEN l ELSE "start"]
          /\ udpConns' = [udpConns EXCEPT ![src[t]] = l]
          /\ single' = [single EXCEPT ![src[t]] = Nil]
          /\ item' = [u \in Streams |-> IF u \in Sharing(t) THEN l ELSE item[u]]
          /\ hpc' = [u \in Streams |-> IF u \in Sharing(t) THEN "read" ELSE hpc[u]]
          /\ UNCHANGED <<kind, src, stream, doomed, closing, stop>>
      BY <1>2, <2>1 DEF Dial
    <2>3. FreeLocal(l) BY <2>1 DEF Dial
    <2>4. /\ \A d \in Srcs : udpConns[d] # l
          /\ \A u \in Streams : item[u] # l
          /\ \A m \in Locals : recv[m] # l /\ closing[m] # l
          /\ recv[l] = Nil /\ closing[l] = Nil
      BY <1>1, <2>3 DEF FreeLocal, Range, TypeOK
    <2>5. TypeOK' BY ZenonT(60), <1>1, <2>2 DEF TypeOK, Ends
    <2>6. StreamInv'
      BY ZenonT(60), <1>1, <1>2, <2>2 DEF Inv, TypeOK, StreamInv
    <2>7. ConnInv'
      BY ZenonT(60), <1>1, <1>2, <2>2 DEF Inv, TypeOK, ConnInv
    <2>8. TableInv'
      BY <1>1, <1>2, <2>2, <2>4, ZenonT(60) DEF Inv, TypeOK, TableInv, Of
    <2>9. ItemInv'
      BY ZenonT(60), <1>1, <1>2, <2>2, <2>4 DEF Inv, TypeOK, ItemInv, Of
    <2>10. RecvInv'
      <3> SUFFICES ASSUME NEW m \in Locals
                   PROVE  /\ recv'[m] \in Locals => Of(recv[m], src[conn[m]])' 
                          /\ closing'[m] # Nil => Of(closing[m], src[conn[m]])'
        BY DEF RecvInv
      <3>1. CASE m = l
        BY ZenonT(60), <1>1, <2>2, <2>4, <3>1 DEF TypeOK, Of
      <3>2. CASE m # l
        <4>1. recv'[m] = recv[m] /\ conn'[m] = conn[m] /\ closing'[m] = closing[m]
          BY <1>1, <2>2, <3>2 DEF TypeOK
        <4>2. \A k \in Locals : k # l => conn'[k] = conn[k]
          BY ZenonT(60), <1>1, <2>2 DEF TypeOK
        <4> QED BY <1>1, <2>2, <2>4, <4>1, <4>2, SMTT(30) DEF Inv, TypeOK, RecvInv, Of
      <3> QED BY <3>1, <3>2
    <2>11. TcpInv'
      BY <1>1, <1>2, <1>3, <2>2, SMTT(30) DEF Inv, TypeOK, TcpInv, StreamInv
    <2>12. OpenHasReceiver'
      BY <1>1, <2>2 DEF Inv, TypeOK, OpenHasReceiver
    <2> QED BY <2>5, <2>6, <2>7, <2>8, <2>9, <2>10, <2>11, <2>12 DEF Inv
  <1> QED BY ZenonT(60), <1>4, <1>5

(* The steps of a receiver preserve the invariant. *)
LEMMA LocalStep ==
    ASSUME NEW l \in Locals, Inv, LocalStart(l) \/ LocalFail(l) \/ LocalClose(l) \/ AnswerFail(l)
    PROVE  Inv'
  <1> USE StreamUdpAssumption
  <1>1. TypeOK /\ UNCHANGED <<kind, src, hpc, item, single, doomed, conn, stop>>
    BY ZenonT(60) DEF Inv, LocalStart, LocalFail, LocalClose, AnswerFail, farVars
  <1>2. recv[l] # Nil => conn[l] \in Streams /\ src[conn[l]] \in Srcs /\ Source(conn[l]) = src[conn[l]]
    BY <1>1, SourceOf DEF Inv, ConnInv, TypeOK
  <1>3. HeldByStreams /\ TypeOK' /\ OpenHasReceiver' /\ TcpInv'
        /\ HeldByLocals /\ \A s \in Srcs : udpConns'[s] \in {udpConns[s], Nil}
    <2>1. CASE LocalStart(l)
      <3>1. /\ recv[l] = "start" /\ recv' = [recv EXCEPT ![l] = udpConns[src[conn[l]]]]
            /\ UNCHANGED <<stream, udpConns, local, closing>>
        BY ZenonT(60), <1>2, <2>1 DEF LocalStart, farVars
      <3>2. TypeOK' BY <1>1, <1>2, <3>1 DEF TypeOK
      <3>3. HeldByStreams BY ZenonT(60), <1>1, <3>1 DEF Inv, StreamInv, HeldByStreams
      <3>4. HeldByLocals BY ZenonT(60), <1>1, <3>1 DEF TypeOK, HeldByLocals
      <3>5. TcpInv' /\ OpenHasReceiver'
        BY <1>1, <3>1 DEF Inv, TcpInv, OpenHasReceiver
      <3> QED BY <3>1, <3>2, <3>3, <3>4, <3>5
    <2>2. CASE LocalFail(l)
      <3>1. /\ recv[l] \in Locals /\ udpConns' = [udpConns EXCEPT ![src[conn[l]]] = Nil]
            /\ closing' = [closing EXCEPT ![l] = recv[l]] /\ recv' = [recv EXCEPT ![l] = Nil]
            /\ UNCHANGED <<stream, local>>
        BY ZenonT(60), <1>2, <2>2 DEF LocalFail
      <3>2. TypeOK' BY ZenonT(60), <1>1, <3>1 DEF TypeOK
      <3>3. HeldByStreams BY ZenonT(60), <1>1, <3>1 DEF Inv, StreamInv, HeldByStreams
      <3>4. HeldByLocals BY ZenonT(60), <1>1, <3>1 DEF TypeOK, HeldByLocals
      <3>5. TcpInv' BY ZenonT(60), <1>1, <3>1 DEF Inv, TypeOK, TcpInv, StreamInv
      <3>6. OpenHasReceiver' BY ZenonT(60), <1>1, <3>1 DEF Inv, TypeOK, TcpInv, OpenHasReceiver
      <3>7. \A s \in Srcs : udpConns'[s] \in {udpConns[s], Nil} BY <1>1, <3>1 DEF TypeOK
      <3> QED BY SMTT(60), <3>2, <3>3, <3>4, <3>5, <3>6, <3>7
    <2>3. CASE LocalClose(l)
      <3>1. /\ closing[l] # Nil /\ local' = [local EXCEPT ![closing[l]] = "closed"]
            /\ stream' = [stream EXCEPT ![conn[closing[l]]] = "closed"]
            /\ closing' = [closing EXCEPT ![l] = Nil]
            /\ UNCHANGED <<udpConns, recv>>
        BY SMTT(60), <2>3 DEF LocalClose, farVars
      <3>2. TypeOK' BY ZenonT(60), <1>1, <3>1 DEF TypeOK, Ends
      <3>3. HeldByStreams BY ZenonT(60), <1>1, <3>1 DEF Inv, TypeOK, StreamInv, HeldByStreams
      <3>4. HeldByLocals BY ZenonT(60), <1>1, <3>1 DEF TypeOK, HeldByLocals
      <3>5. TcpInv' BY ZenonT(60), <1>1, <3>1 DEF Inv, TypeOK, TcpInv
      <3>6. OpenHasReceiver' BY <1>1, <3>1 DEF Inv, TypeOK, TcpInv, OpenHasReceiver
      <3> QED BY <3>1, <3>2, <3>3, <3>4, <3>5, <3>6
    <2>4. CASE AnswerFail(l)
      <3>1. /\ kind = "mux" /\ local' = [local EXCEPT ![l] = "closed"]
            /\ UNCHANGED <<stream, udpConns, recv, closing>>
        BY ZenonT(60), <2>4 DEF AnswerFail, farVars
      <3>2. TypeOK' BY <1>1, <3>1 DEF TypeOK, Ends
      <3>3. HeldByStreams BY ZenonT(60), <1>1, <3>1 DEF Inv, StreamInv, HeldByStreams
      <3>4. HeldByLocals BY ZenonT(60), <1>1, <3>1 DEF TypeOK, HeldByLocals
      <3>5. TcpInv' /\ OpenHasReceiver' BY <1>1, <3>1 DEF TcpInv, OpenHasReceiver
      <3> QED BY ZenonT(60), <3>1, <3>2, <3>3, <3>4, <3>5
    <2> QED BY <2>1, <2>2, <2>3, <2>4
  <1>4. Apart'
    BY <1>1, <1>3, Keep DEF Held
  <1> QED BY ZenonT(60), <1>3, <1>4 DEF Inv, Apart

(* The sweep and Stop close connections and remove entries. *)
LEMMA SweepStep ==
    ASSUME Inv, SweepDelete \/ Stop \/ \E s \in Srcs : Sweep(s)
    PROVE  Inv'
  <1> USE StreamUdpAssumption
  <1>1. TypeOK /\ UNCHANGED <<kind, src, hpc, item, single, conn, recv, closing>>
    BY ZenonT(60) DEF Inv, SweepDelete, Stop, Sweep, farVars, localVars
  <1>2. /\ local' \in [Locals -> Ends] /\ stream' \in [Streams -> Ends]
        /\ \A l \in Locals : local'[l] = "open" => local[l] = "open"
        /\ \A t \in Streams : stream'[t] = "open" => stream[t] = "open"
    <2>1. CASE SweepDelete BY ZenonT(60), <1>1, <2>1 DEF SweepDelete, localVars, TypeOK
    <2>2. CASE Stop BY <1>1, <2>2, SMTT(30) DEF Stop, CloseItems, TypeOK, Ends
    <2>3. CASE \E s \in Srcs : Sweep(s) BY <1>1, <2>3, SMTT(30) DEF Sweep, CloseItems, TypeOK, Ends
    <2> QED BY ZenonT(60), <2>1, <2>2, <2>3
  <1>3. /\ udpConns' \in [Srcs -> Locals \cup {Nil}]
        /\ \A s \in Srcs : udpConns'[s] \in {udpConns[s], Nil}
        /\ doomed' \in Srcs \cup {Nil} /\ stop' \in BOOLEAN
    BY ZenonT(60), <1>1 DEF SweepDelete, Stop, Sweep, farVars, TypeOK
  <1>4. TypeOK' BY <1>1, <1>2, <1>3 DEF TypeOK
  <1>5. HeldByStreams BY <1>1, <1>2 DEF Inv, StreamInv, HeldByStreams
  <1>6. HeldByLocals BY <1>1, <1>2 DEF HeldByLocals
  <1>7. Apart' BY <1>1, <1>3, <1>5, <1>6, Keep DEF Held
  <1>8. TcpInv' BY <1>1, <1>3 DEF Inv, StreamInv, TcpInv
  <1>9. OpenHasReceiver' BY <1>1, <1>2 DEF Inv, OpenHasReceiver
  <1> QED BY <1>4, <1>7, <1>8, <1>9 DEF Inv, Apart

(* The invariant is inductive, and always holds. *)
LEMMA NextInv == Inv /\ [Next]_vars => Inv'
  <1> SUFFICES ASSUME Inv, [Next]_vars PROVE Inv'
    BY ZenonT(60)
  <1>1. CASE UNCHANGED vars
    BY <1>1 DEF vars, farVars, localVars, Inv, TypeOK, StreamInv, ConnInv, TableInv, ItemInv, RecvInv, Of,
       TcpInv, OpenHasReceiver
  <1>2. CASE Next
    <2>1. ASSUME NEW t \in Streams,
                 \/ (\E s \in Srcs : Open(t, s)) \/ PeerClose(t)
                 \/ Read(t) \/ ReadFail(t) \/ Serve(t)
          PROVE  Inv'
      BY <2>1, NearStep, ReadStep, DialStep DEF Serve
    <2>2. ASSUME NEW l \in Locals, LocalStart(l) \/ LocalFail(l) \/ LocalClose(l) \/ AnswerFail(l)
          PROVE  Inv'
      BY <2>2, LocalStep
    <2> QED BY <1>2, <2>1, <2>2, SweepStep DEF Next
  <1> QED BY <1>1, <1>2

LEMMA AlwaysInv == Spec => []Inv
  BY InitInv, NextInv, PTL DEF Spec

(* The variables keep their types. *)
THEOREM TypeCorrect == Spec => []TypeOK
  <1>1. Inv => TypeOK BY DEF Inv
  <1> QED BY AlwaysInv, <1>1, PTL

(* Frames of every source and every length are read as they were written,  *)
(* and too long ones are not written (captain).                            *)
THEOREM FramingCorrect == Spec => []FramesInStep
  <1>1. Inv => FramesInStep
    <2> SUFFICES ASSUME Inv, NEW t \in Streams, NEW n \in Lengths, stream[t] = "open"
                 PROVE  IF n > MaxDataLen THEN DataLen(n) = <<>>
                        ELSE Parse(Header(src[t], n), n) = [status |-> "ok", addr |-> src[t]]
      BY DEF FramesInStep
    <2>1. n \in Nat BY StreamUdpAssumption
    <2>2. Plain(src[t]) BY StreamUdpAssumption DEF Inv, StreamInv
    <2>3. CASE n > MaxDataLen BY <2>1, <2>3 DEF DataLen
    <2>4. CASE ~(n > MaxDataLen)
      <3>1. n <= MaxDataLen BY <2>1, <2>4, SMT DEF MaxDataLen
      <3>2. Parse(Header(src[t], n), n) = [status |-> "ok", addr |-> src[t]]
        BY <2>1, <2>2, <3>1, FrameRead
      <3> QED BY <2>4, <3>2
    <2> QED BY <2>3, <2>4
  <1> QED BY AlwaysInv, <1>1, PTL

(* A datagram goes to a local connection of its own source. *)
THEOREM OwnSources == Spec => []OwnSource
  <1>1. Inv => OwnSource BY DEF Inv, ItemInv, Of, OwnSource
  <1> QED BY AlwaysInv, <1>1, PTL

(* In the TCP service an open local connection has its receiver. *)
THEOREM Received == Spec => []OpenHasReceiver
  <1>1. Inv => OpenHasReceiver BY DEF Inv
  <1> QED BY AlwaysInv, <1>1, PTL

-----------------------------------------------------------------------------
(* What a step may touch: the source k, and no other. *)
Touch(k) == \A s \in Srcs : Touched(s) => s = k

(* The handlers of one source return and touch nothing of another. *)
LEMMA ReturnTouch ==
    ASSUME Inv, NEW T \in SUBSET Streams, NEW k \in Srcs, Return(T),
           \A t \in T : src[t] = k, UNCHANGED <<src, conn>>
    PROVE  Touch(k)
  <1> USE StreamUdpAssumption
  <1>1. TypeOK /\ ItemInv BY DEF Inv
  <1>2. \A t \in T : Source(t) = k
    BY ZenonT(60), SourceOf
  <1> DEFINE used == IF kind = "mux" THEN {item[t] : t \in T} \ {Nil} ELSE {}
  <1>3. /\ stream' = [t \in Streams |->
                        IF t \in T \/ \E l \in used : conn[l] = t THEN "closed" ELSE stream[t]]
        /\ local' = [l \in Locals |-> IF l \in used THEN "closed" ELSE local[l]]
        /\ udpConns' = [s \in Srcs |->
                          IF used # {} /\ \E t \in T : Source(t) = s THEN Nil ELSE udpConns[s]]
    BY DEF Return
  <1>4. \A l \in used : src[conn[l]] = k
    BY <1>1 DEF ItemInv, Of
  <1> HIDE DEF used
  <1> SUFFICES ASSUME NEW s \in Srcs, Touched(s) PROVE s = k
    BY DEF Touch
  <1>5. CASE udpConns'[s] # udpConns[s]
    BY <1>2, <1>3, <1>5
  <1>6. CASE \E t \in Streams : src[t] = s /\ src'[t] = s /\ stream'[t] # stream[t]
    BY <1>3, <1>4, <1>6
  <1>7. CASE \E l \in Locals :
               conn[l] # Nil /\ conn'[l] = conn[l] /\ src[conn[l]] = s /\ local'[l] # local[l]
    BY <1>3, <1>4, <1>7
  <1> QED BY <1>5, <1>6, <1>7 DEF Touched

(* Every step but Stop touches at most one source. *)
LEMMA OneTouched ==
    ASSUME Inv, Next, ~stop'
    PROVE  \E k : Touch(k)
  <1> USE StreamUdpAssumption
  <1>1. TypeOK /\ ~Stop BY DEF Inv, Stop
  <1>2. ASSUME UNCHANGED <<stream, udpConns, local>> PROVE \E k : Touch(k)
    BY ZenonT(60), <1>2 DEF Touch, Touched
  <1>3. ASSUME NEW t \in Streams, NEW s \in Srcs, Open(t, s) PROVE Touch(s)
    BY ZenonT(60), <1>1, <1>3 DEF Open, localVars, Touch, Touched, TypeOK
  <1>4. ASSUME NEW t \in Streams, PeerClose(t) PROVE Touch(src[t])
    BY ZenonT(60), <1>1, <1>4 DEF PeerClose, farVars, localVars, Touch, Touched, TypeOK
  <1>5. ASSUME NEW t \in Streams, Read(t) \/ ReadFail(t) PROVE \E k : Touch(k)
    <2>1. \/ UNCHANGED <<stream, udpConns, local>>
          \/ Return({t}) /\ UNCHANGED <<src, conn>>
      BY ZenonT(60), <1>5 DEF Read, ReadFail
    <2>2. hpc[t] = "read"
      BY ONLY ZenonT(60), <1>5 DEF Read, ReadFail
    <2>3. src[t] \in Srcs
      BY ONLY ZenonT(60), Inv, t \in Streams, <2>2 DEF Inv, StreamInv
    <2> QED BY SMTT(60), <1>2, <2>1, <2>3, ReturnTouch
  <1>6. ASSUME NEW t \in Streams, DialFail(t) PROVE Touch(src[t])
    <2>1. hpc[t] = "dial" /\ Return(Sharing(t)) /\ UNCHANGED <<src, conn>>
      BY ZenonT(60), <1>6 DEF DialFail
    <2> QED BY <2>1, SharingOf, ReturnTouch
  <1>7. ASSUME NEW t \in Streams, NEW l \in Locals, Dial(t, l) PROVE Touch(src[t])
    <2>1. Source(t) = src[t] /\ src[t] \in Srcs
      BY ZenonT(60), <1>7, SharingOf DEF Dial
    <2>2. /\ local' = [local EXCEPT ![l] = "open"] /\ conn' = [conn EXCEPT ![l] = t]
          /\ udpConns' = [udpConns EXCEPT ![src[t]] = l] /\ UNCHANGED <<src, stream>>
      BY <1>7, <2>1 DEF Dial
    <2> QED BY ZenonT(60), <1>1, <2>2 DEF TypeOK, Touch, Touched
  <1>8. ASSUME NEW l \in Locals, LocalStart(l) \/ LocalFail(l) \/ LocalClose(l) \/ AnswerFail(l)
        PROVE  \E k : Touch(k)
    <2>1. CASE LocalStart(l) BY <1>2, <2>1 DEF LocalStart, farVars
    <2>2. CASE LocalFail(l)
      <3>1. udpConns' = [udpConns EXCEPT ![Source(conn[l])] = Nil] /\ UNCHANGED <<stream, local>>
        BY ZenonT(60), <2>2 DEF LocalFail
      <3>2. Touch(Source(conn[l])) BY ZenonT(60), <1>1, <3>1 DEF TypeOK, Touch, Touched
      <3> QED BY <3>2
    <2>3. CASE LocalClose(l)
      <3>1. /\ local' = [local EXCEPT ![closing[l]] = "closed"]
            /\ stream' = [stream EXCEPT ![conn[closing[l]]] = "closed"]
            /\ UNCHANGED <<src, conn, udpConns>>
        BY ZenonT(60), <2>3 DEF LocalClose, farVars
      <3>2. Touch(src[conn[closing[l]]]) BY ZenonT(60), <1>1, <3>1 DEF TypeOK, Touch, Touched
      <3> QED BY <3>2
    <2>4. CASE AnswerFail(l)
      <3>1. local' = [local EXCEPT ![l] = "closed"] /\ UNCHANGED <<src, conn, stream, udpConns>>
        BY ZenonT(60), <2>4 DEF AnswerFail, farVars
      <3>2. Touch(src[conn[l]]) BY ZenonT(60), <1>1, <3>1 DEF TypeOK, Touch, Touched
      <3> QED BY <3>2
    <2> QED BY <1>8, <2>1, <2>2, <2>3, <2>4
  <1>9. ASSUME NEW s \in Srcs, Sweep(s) PROVE Touch(s)
    <2>1. /\ udpConns[s] # Nil /\ UNCHANGED <<src, conn, udpConns>>
          /\ local' = [l \in Locals |-> IF l \in {udpConns[s]} THEN "closed" ELSE local[l]]
          /\ stream' = [t \in Streams |->
                          IF \E l \in {udpConns[s]} : conn[l] = t THEN "closed" ELSE stream[t]]
      BY <1>9 DEF Sweep, CloseItems
    <2>2. src[conn[udpConns[s]]] = s
      BY ZenonT(60), <2>1 DEF Inv, TableInv, Of
    <2> QED BY ZenonT(60), <2>1, <2>2 DEF Touch, Touched
  <1>10. ASSUME SweepDelete PROVE Touch(doomed)
    BY <1>1, <1>10 DEF SweepDelete, localVars, TypeOK, Touch, Touched
  <1> QED BY <1>1, <1>3, <1>4, <1>5, <1>6, <1>7, <1>8, <1>9, <1>10 DEF Next, Serve

(* No step but Stop touches two sources. *)
THEOREM SourcesStayApart == Spec => SourcesApart
  <1>1. Inv /\ [Next]_vars =>
          [~stop' => \A s1, s2 \in Srcs : Touched(s1) /\ Touched(s2) => s1 = s2]_vars
    BY OneTouched DEF Touch
  <1> QED BY <1>1, AlwaysInv, PTL DEF Spec, SourcesApart

(* The TCP service never overwrites an entry of its table. *)
THEOREM EntriesKept == Spec => NeverOverwritten
  <1> DEFINE Step == kind = "tcp" =>
        \A s \in Srcs : udpConns[s] # Nil => udpConns'[s] \in {udpConns[s], Nil}
  <1>1. Inv /\ [Next]_vars => [Step]_vars
    <2> SUFFICES ASSUME Inv, Next, kind = "tcp" PROVE Step
      OBVIOUS
    <2>1. TypeOK BY ZenonT(60) DEF Inv
    <2>2. ASSUME NEW t \in Streams, NEW l \in Locals, Dial(t, l) PROVE Step
      <3>1. Source(t) = src[t] /\ hpc[t] = "dial"
        BY ZenonT(60), <2>2, SharingOf DEF Dial
      <3>2. udpConns[src[t]] = Nil /\ udpConns' = [udpConns EXCEPT ![src[t]] = l]
        BY ZenonT(60), <2>2, <3>1 DEF Dial, Inv, TcpInv
      <3> QED BY SMTT(60), <2>1, <3>2 DEF TypeOK
    <2>3. ASSUME NEW T \in SUBSET Streams, Return(T) PROVE Step
      BY <2>1, <2>3 DEF Return, TypeOK
    <2>4. ASSUME NEW k, udpConns' = [udpConns EXCEPT ![k] = Nil] PROVE Step
      BY <2>1, <2>4 DEF TypeOK
    <2>5. ASSUME UNCHANGED udpConns PROVE Step
      BY <2>5
    <2> HIDE DEF Step
    <2>6. ASSUME NEW t \in Streams,
                 \/ (\E s \in Srcs : Open(t, s)) \/ PeerClose(t)
                 \/ Read(t) \/ ReadFail(t) \/ Serve(t)
          PROVE  Step
      <3>1. CASE (\E s \in Srcs : Open(t, s)) \/ PeerClose(t)
        BY <2>5, <3>1 DEF Open, PeerClose, farVars
      <3>2. CASE Read(t) \/ ReadFail(t)
        <4>1. UNCHANGED udpConns \/ Return({t})
          BY <3>2 DEF Read, ReadFail
        <4> QED BY ZenonT(60), <2>3, <2>5, <4>1
      <3>3. CASE DialFail(t)
        <4>1. Return(Sharing(t)) /\ Sharing(t) \in SUBSET Streams
          BY <3>3 DEF DialFail, Sharing
        <4> QED BY <2>3, <4>1
      <3> QED BY <2>2, <2>6, <3>1, <3>2, <3>3 DEF Serve
    <2>7. ASSUME NEW l \in Locals, LocalStart(l) \/ LocalFail(l) \/ LocalClose(l) \/ AnswerFail(l)
          PROVE  Step
      <3>1. CASE LocalFail(l) BY ZenonT(60), <2>4, <3>1 DEF LocalFail
      <3>2. CASE LocalStart(l) \/ LocalClose(l) \/ AnswerFail(l)
        BY ZenonT(60), <2>5, <3>2 DEF LocalStart, LocalClose, AnswerFail, farVars
      <3> QED BY SMTT(60), <2>7, <3>1, <3>2
    <2>8. ASSUME SweepDelete \/ Stop \/ \E s \in Srcs : Sweep(s) PROVE Step
      BY ZenonT(60), <2>4, <2>5, <2>8 DEF SweepDelete, Stop, Sweep, farVars
    <2> QED BY ZenonT(60), <2>6, <2>7, <2>8 DEF Next
  <1> QED BY <1>1, AlwaysInv, PTL DEF Spec, NeverOverwritten

-----------------------------------------------------------------------------
(* A handler that waits for the result of another's call waits for one     *)
(* that dials for the same source (tcp.go:285-313).                        *)
WaitsForRunner ==
    \A t \in Streams : hpc[t] = "wait" =>
        \E u \in Streams : single[src[t]] = u /\ src[u] = src[t] /\ hpc[u] = "dial"

(* What single records is a handler that dials for that source; there is   *)
(* one for everybody who waits.                                            *)
Runners ==
    /\ \A s \in Srcs : single[s] # Nil => hpc[single[s]] = "dial" /\ src[single[s]] = s
    /\ \A t \in Streams : hpc[t] = "wait" => single[src[t]] # Nil

LEMMA RunnersInit == Init => Runners
BY ZenonT(60), StreamUdpAssumption DEF Init, Runners

(* A call that ends takes everybody along who waits for it.                *)
LEMMA RunnersEnd ==
    ASSUME NEW t \in Streams, Inv, Runners, hpc[t] = "dial", NEW to \in {"read", "off"},
           hpc' = [u \in Streams |-> IF u \in Sharing(t) THEN to ELSE hpc[u]],
           single' = [single EXCEPT ![src[t]] = Nil], src' = src
    PROVE  Runners'
  <1>1. /\ src[t] \in Srcs
        /\ \A u \in Sharing(t) : hpc[u] \in {"dial", "wait"} /\ src[u] = src[t]
        /\ t \in Sharing(t)
    BY ZenonT(60), SharingOf
  <1>2. single \in [Srcs -> Streams \cup {Nil}] /\ Nil \notin Streams
    BY ZenonT(60), StreamUdpAssumption DEF Inv, TypeOK
  <1>3. \A u \in Streams : hpc[u] # "off" => src[u] \in Srcs /\ Source(u) = src[u]
    BY ZenonT(60), SourceOf DEF Inv, StreamInv
  <1>4. ASSUME NEW s \in Srcs, single'[s] # Nil
        PROVE  hpc'[single'[s]] = "dial" /\ src[single'[s]] = s
    <2>1. s # src[t] /\ single'[s] = single[s] /\ single[s] \in Streams
      BY ZenonT(60), <1>1, <1>2, <1>4
    <2>2. hpc[single[s]] = "dial" /\ src[single[s]] = s
      BY ZenonT(60), <1>2, <2>1 DEF Runners
    <2>3. single[s] \notin Sharing(t)
      BY ZenonT(60), <1>1, <2>1, <2>2
    <2> QED BY ZenonT(60), <2>1, <2>2, <2>3
  <1>5. ASSUME NEW u \in Streams, hpc'[u] = "wait"
        PROVE  single'[src[u]] # Nil
    <2>1. u \notin Sharing(t) /\ hpc[u] = "wait"
      BY ZenonT(60), <1>5
    <2>2. src[u] \in Srcs /\ src[u] # src[t]
      BY ZenonT(60), <1>1, <1>3, <2>1 DEF Sharing
    <2>3. single[src[u]] # Nil
      BY <2>1 DEF Runners
    <2> QED BY ZenonT(60), <1>2, <2>2, <2>3
  <1> QED BY ZenonT(60), <1>4, <1>5 DEF Runners

(* Every step keeps it. *)
LEMMA RunnersStep == Inv /\ Runners /\ [Next]_vars => Runners'
  <1> SUFFICES ASSUME Inv, Runners, [Next]_vars PROVE Runners'
    OBVIOUS
  <1>0. /\ single \in [Srcs -> Streams \cup {Nil}]
        /\ hpc \in [Streams -> {"off", "read", "dial", "wait"}]
        /\ src \in [Streams -> Srcs \cup {Nil}]
        /\ Nil \notin Streams
        /\ \A t \in Streams : hpc[t] # "off" => src[t] \in Srcs /\ Source(t) = src[t]
    BY ZenonT(60), StreamUdpAssumption, SourceOf DEF Inv, TypeOK, StreamInv
  <1>1. CASE UNCHANGED <<hpc, single, src>>
    BY ZenonT(60), <1>1 DEF Runners
  <1>2. ASSUME NEW t \in Streams, NEW s \in Srcs, Open(t, s) PROVE Runners'
    BY <1>0, <1>2 DEF Open, FreeStream, Runners
  <1>3. ASSUME NEW t \in Streams, hpc[t] = "read", hpc' = [u \in Streams |-> IF u \in {t} THEN "off" ELSE hpc[u]],
               UNCHANGED <<single, src>>
        PROVE  Runners'
    BY <1>0, <1>3 DEF Runners
  <1>4. ASSUME NEW t \in Streams, Read(t) PROVE Runners'
    <2>1. hpc[t] = "read" /\ src' = src /\ src[t] \in Srcs /\ Source(t) = src[t]
      BY ZenonT(60), <1>0, <1>4 DEF Read
    <2>2. \/ single[src[t]] # Nil /\ hpc' = [hpc EXCEPT ![t] = "wait"] /\ UNCHANGED single
          \/ /\ hpc' = [hpc EXCEPT ![t] = "dial"]
             /\ \/ single[src[t]] = Nil /\ single' = [single EXCEPT ![src[t]] = t]
                \/ kind # "tcp" /\ UNCHANGED single
          \/ UNCHANGED <<hpc, single>>
          \/ Return({t}) /\ UNCHANGED single
      BY ZenonT(60), <1>4, <2>1 DEF Read
    <2>3. CASE single[src[t]] # Nil /\ hpc' = [hpc EXCEPT ![t] = "wait"] /\ UNCHANGED single
      BY SMTT(60), <1>0, <2>1, <2>3 DEF Runners
    <2>4. CASE hpc' = [hpc EXCEPT ![t] = "dial"] /\ single[src[t]] = Nil
               /\ single' = [single EXCEPT ![src[t]] = t]
      BY <1>0, <2>1, <2>4 DEF Runners
    <2>5. CASE hpc' = [hpc EXCEPT ![t] = "dial"] /\ UNCHANGED single
      BY SMTT(60), <1>0, <2>1, <2>5 DEF Runners
    <2>6. CASE Return({t}) /\ UNCHANGED single
      BY <1>3, <2>1, <2>6 DEF Return
    <2>7. CASE UNCHANGED <<hpc, single>>
      BY ZenonT(60), <1>1, <2>1, <2>7
    <2> QED BY SMTT(60), <2>2, <2>3, <2>4, <2>5, <2>6, <2>7
  <1>5. ASSUME NEW t \in Streams, ReadFail(t) PROVE Runners'
    BY <1>3, <1>5 DEF ReadFail, Return
  <1>6. ASSUME NEW t \in Streams, DialFail(t) PROVE Runners'
    <2>1. /\ hpc[t] = "dial" /\ src' = src /\ single' = [single EXCEPT ![src[t]] = Nil]
          /\ hpc' = [u \in Streams |-> IF u \in Sharing(t) THEN "off" ELSE hpc[u]]
      BY ZenonT(60), <1>0, <1>6 DEF DialFail, Return
    <2> QED BY ZenonT(60), <2>1, RunnersEnd
  <1>7. ASSUME NEW t \in Streams, NEW l \in Locals, Dial(t, l) PROVE Runners'
    <2>1. /\ hpc[t] = "dial" /\ src' = src /\ single' = [single EXCEPT ![src[t]] = Nil]
          /\ hpc' = [u \in Streams |-> IF u \in Sharing(t) THEN "read" ELSE hpc[u]]
      BY ZenonT(60), <1>0, <1>7 DEF Dial
    <2> QED BY ZenonT(60), <2>1, RunnersEnd
  <1>8. ASSUME NEW t \in Streams, PeerClose(t) PROVE Runners'
    BY ZenonT(60), <1>1, <1>8 DEF PeerClose, farVars
  <1>9. ASSUME NEW l \in Locals, LocalStart(l) \/ LocalFail(l) \/ LocalClose(l) \/ AnswerFail(l)
        PROVE  Runners'
    BY <1>1, <1>9 DEF LocalStart, LocalFail, LocalClose, AnswerFail, farVars
  <1>10. ASSUME SweepDelete \/ Stop \/ \E s \in Srcs : Sweep(s) PROVE Runners'
    BY ZenonT(60), <1>1, <1>10 DEF SweepDelete, Stop, Sweep, farVars
  <1>11. CASE UNCHANGED vars
    BY <1>1, <1>11 DEF vars, farVars
  <1> HIDE DEF Runners
  <1> QED
    BY ONLY [Next]_vars, <1>2, <1>4, <1>5, <1>6, <1>7, <1>8, <1>9, <1>10, <1>11, ZenonT(60)
    DEF Next, Serve

(* Whoever waits, waits for a handler that dials for its own source, for   *)
(* any number of streams: with dials that end, every handler of a closed   *)
(* stream ends (tcp.go:285-313).                                           *)
THEOREM NobodyWaitsInVain == Spec => []WaitsForRunner
  <1>1. Inv /\ Runners => WaitsForRunner
    <2> SUFFICES ASSUME Inv, Runners, NEW t \in Streams, hpc[t] = "wait"
                 PROVE  \E u \in Streams :
                          single[src[t]] = u /\ src[u] = src[t] /\ hpc[u] = "dial"
      BY ZenonT(60) DEF WaitsForRunner
    <2>1. src[t] \in Srcs /\ single[src[t]] # Nil
      BY DEF Inv, StreamInv, Runners
    <2>2. single[src[t]] \in Streams
      BY <2>1 DEF Inv, TypeOK
    <2> QED BY <2>1, <2>2 DEF Runners
  <1> QED BY <1>1, AlwaysInv, RunnersInit, RunnersStep, PTL DEF Spec

-----------------------------------------------------------------------------
(* The initial states are states of FlowTable. *)
LEMMA FlowInit == Init => Flows!Init
BY DEF Init, Flows!Init

(* What reading a datagram does to the handlers and the table of the TCP   *)
(* service: wait for a call, begin one for a source without an entry, go   *)
(* on, or return.                                                          *)
LEMMA ReadEffect ==
  ASSUME NEW t \in Streams, Read(t), kind = "tcp"
  PROVE  /\ hpc[t] = "read" /\ src' = src
         /\ \/ hpc' = [hpc EXCEPT ![t] = "wait"] /\ udpConns' = udpConns
            \/ /\ hpc' = [hpc EXCEPT ![t] = "dial"] /\ udpConns' = udpConns
               /\ udpConns[Source(t)] = Nil /\ single[Source(t)] = Nil
            \/ hpc' = hpc /\ udpConns' = udpConns
            \/ Return({t})
BY ZenonT(60) DEF Read

(* Every step begins, aborts or finishes the creation of a connection,     *)
(* removes an entry, or leaves the table and the creations alone.          *)
LEMMA FlowStep == Inv /\ [Next]_vars => [Flows!Next]_(Flows!vars)
  <1> DEFINE At(t, s) == hpc[t] = "dial" /\ src[t] = s
             E == IF kind = "tcp" THEN udpConns ELSE [s \in Srcs |-> Nil]
             K == {s \in Srcs : kind = "tcp" /\ \E t \in Streams : At(t, s)}
  <1> SUFFICES ASSUME Inv, [Next]_vars PROVE Flows!Next \/ UNCHANGED <<E, K>>
    BY ZenonT(60) DEF Flows!vars
  <1> HIDE DEF At, E, K
  <1>0. /\ udpConns \in [Srcs -> Locals \cup {Nil}]
        /\ hpc \in [Streams -> {"off", "read", "dial", "wait"}]
        /\ src \in [Streams -> Srcs \cup {Nil}]
        /\ doomed \in Srcs \cup {Nil}
        /\ Nil \notin Srcs \cup Streams \cup Locals
        /\ \A t \in Streams : hpc[t] # "off" => src[t] \in Srcs /\ Source(t) = src[t]
    BY ZenonT(60), StreamUdpAssumption, SourceOf DEF Inv, TypeOK, StreamInv
  <1>1. kind = "tcp" => \A t \in Streams : hpc[t] = "dial" =>
                           single[src[t]] = t /\ udpConns[src[t]] = Nil
    BY SMTT(60) DEF Inv, TcpInv
  <1>2. UNCHANGED kind
    BY ZenonT(60)
    DEF Next, Open, PeerClose, Read, ReadFail, Serve, Dial, DialFail, LocalStart, LocalFail, LocalClose,
        AnswerFail, Sweep, SweepDelete, Stop, vars
  <1>3. CASE kind # "tcp"
    BY ONLY ZenonT(60), <1>2, <1>3 DEF E, K
  <1>4. ASSUME UNCHANGED udpConns, \A t \in Streams, s \in Srcs : At(t, s)' <=> At(t, s)
        PROVE  UNCHANGED <<E, K>>
    BY ONLY <1>2, <1>4 DEF E, K
  <1>5. ASSUME kind = "tcp", NEW s \in Srcs, udpConns' = [udpConns EXCEPT ![s] = Nil],
               UNCHANGED <<hpc, src>>
        PROVE  Flows!Next
    <2>1. E' = [E EXCEPT ![s] = Nil]
      BY ONLY <1>2, <1>5 DEF E
    <2>2. UNCHANGED K
      BY ONLY <1>2, <1>5, ZenonT(60) DEF K, At
    <2>3. Flows!Forget(s)
      BY ONLY <2>1, <2>2, ZenonT(60) DEF Flows!Forget, E, K, At
    <2> QED BY ONLY s \in Srcs, <2>3, ZenonT(60) DEF Flows!Next
  <1>6. ASSUME NEW t \in Streams, NEW s \in Srcs, Open(t, s) PROVE UNCHANGED <<E, K>>
    <2>1. UNCHANGED udpConns /\ hpc[t] = "off" /\ hpc' = [hpc EXCEPT ![t] = "read"]
          /\ src' = [src EXCEPT ![t] = s]
      BY ONLY <1>6, ZenonT(60) DEF Open, FreeStream
    <2>2. \A u \in Streams, q \in Srcs : At(u, q)' <=> At(u, q)
      BY ONLY <1>0, <2>1 DEF At
    <2> QED BY ONLY <1>4, <2>1, <2>2
  <1>7. ASSUME NEW t \in Streams, PeerClose(t) PROVE UNCHANGED <<E, K>>
    BY ONLY ZenonT(60), <1>4, <1>7 DEF PeerClose, farVars, At
  <1>8. ASSUME kind = "tcp", NEW t \in Streams, hpc[t] = "read", Return({t}), UNCHANGED src
        PROVE  UNCHANGED <<E, K>>
    <2>1. hpc' = [u \in Streams |-> IF u \in {t} THEN "off" ELSE hpc[u]]
          /\ udpConns' = [s \in Srcs |-> udpConns[s]]
      BY ONLY <1>8 DEF Return
    <2>2. udpConns' = udpConns
      BY ONLY <1>0, <2>1
    <2>3. \A u \in Streams, q \in Srcs : At(u, q)' <=> At(u, q)
      BY ONLY <1>0, <1>8, <2>1 DEF At
    <2> QED BY ONLY ZenonT(60), <1>4, <2>2, <2>3
  <1>9. ASSUME kind = "tcp", NEW t \in Streams, Read(t)
        PROVE  Flows!Next \/ UNCHANGED <<E, K>>
    <2>1. hpc[t] = "read" /\ src' = src /\ src[t] \in Srcs /\ Source(t) = src[t]
      BY ONLY ZenonT(60), t \in Streams, <1>0, <1>9, ReadEffect
    <2>2. \/ hpc' = [hpc EXCEPT ![t] = "wait"] /\ udpConns' = udpConns
          \/ /\ hpc' = [hpc EXCEPT ![t] = "dial"] /\ udpConns' = udpConns
             /\ udpConns[src[t]] = Nil /\ single[src[t]] = Nil
          \/ hpc' = hpc /\ udpConns' = udpConns
          \/ Return({t})
      BY ONLY ZenonT(60), t \in Streams, <1>9, <2>1, ReadEffect
    <2>3. CASE hpc' = [hpc EXCEPT ![t] = "wait"] /\ udpConns' = udpConns
      <3>1. \A u \in Streams, q \in Srcs : At(u, q)' <=> At(u, q)
        BY ONLY <1>0, <2>1, <2>3 DEF At
      <3> QED BY ONLY ZenonT(60), <1>4, <2>3, <3>1
    <2>4. CASE hpc' = hpc /\ udpConns' = udpConns
      BY ONLY ZenonT(60), <1>4, <2>1, <2>4 DEF At
    <2>5. CASE Return({t})
      BY ONLY ZenonT(60), t \in Streams, <1>8, <1>9, <2>1, <2>5
    <2>6. CASE /\ hpc' = [hpc EXCEPT ![t] = "dial"] /\ udpConns' = udpConns
               /\ udpConns[src[t]] = Nil /\ single[src[t]] = Nil
      <3>1. PICK s \in Srcs : s = src[t]
        BY <2>1
      <3>2. s \notin K
        BY ONLY <1>0, <1>1, <1>9, <2>6, <3>1 DEF K, At
      <3>3. \A u \in Streams, r \in Srcs : At(u, r)' <=> At(u, r) \/ (u = t /\ r = s)
        BY ONLY t \in Streams, <1>0, <2>1, <2>6, <3>1 DEF At
      <3>4. K' = K \cup {s}
        BY ONLY ZenonT(60), s \in Srcs, t \in Streams, <1>2, <1>9, <3>3 DEF K
      <3>5. E[s] = Nil /\ E' = E
        BY ONLY <1>2, <1>9, <2>6, <3>1 DEF E
      <3>6. Flows!Begin(s)
        BY ONLY ZenonT(60), <3>2, <3>4, <3>5 DEF Flows!Begin, E, K, At
      <3> QED BY ONLY s \in Srcs, <3>6, ZenonT(60) DEF Flows!Next
    <2> QED BY ONLY ZenonT(60), <2>2, <2>3, <2>4, <2>5, <2>6
  <1>10. ASSUME kind = "tcp", NEW t \in Streams, ReadFail(t) PROVE UNCHANGED <<E, K>>
    BY ONLY ZenonT(60), <1>8, <1>10 DEF ReadFail
  <1>11. ASSUME kind = "tcp", NEW t \in Streams, hpc[t] = "dial", NEW to \in {"read", "off"},
                hpc' = [u \in Streams |-> IF u \in Sharing(t) THEN to ELSE hpc[u]], src' = src
         PROVE  K' = K \ {src[t]}
    <2>1. \A u \in Streams, r \in Srcs : At(u, r)' <=> At(u, r) /\ u # t
      <3>1. hpc[t] = "dial" /\ \A u \in Streams : u \in Sharing(t) => u = t \/ hpc[u] = "wait"
        BY ONLY ZenonT(60), <1>11 DEF Sharing
      <3>2. t \in Sharing(t)
        BY ONLY ZenonT(60) DEF Sharing
      <3> HIDE DEF Sharing
      <3> QED BY ONLY <1>0, <1>11, <3>1, <3>2 DEF At
    <2>2. \A u \in Streams, r \in Srcs : At(u, r) => (u # t <=> r # src[t])
      BY ONLY <1>1, <1>11 DEF At
    <2> QED BY ONLY ZenonT(60), <1>2, <1>11, <2>1, <2>2 DEF K
  <1>12. ASSUME kind = "tcp", NEW t \in Streams, DialFail(t) PROVE Flows!Next
    <2>1. PICK s \in Srcs : s = src[t]
      BY ONLY ZenonT(60), <1>0, <1>12 DEF DialFail
    <2>2. hpc[t] = "dial" /\ src' = src /\ udpConns' = udpConns
          /\ hpc' = [u \in Streams |-> IF u \in Sharing(t) THEN "off" ELSE hpc[u]]
      <3>1. hpc[t] = "dial" /\ src' = src /\ Return(Sharing(t))
        BY ONLY ZenonT(60), <1>12 DEF DialFail
      <3>2. /\ udpConns' = [q \in Srcs |-> udpConns[q]]
            /\ hpc' = [u \in Streams |-> IF u \in Sharing(t) THEN "off" ELSE hpc[u]]
        BY ONLY <1>12, <3>1 DEF Return
      <3> QED BY ONLY <1>0, <3>1, <3>2
    <2>3. K' = K \ {s}
      BY ONLY ZenonT(60), t \in Streams, <1>11, <1>12, <2>1, <2>2
    <2>4. E' = E
      BY ONLY ZenonT(60), <1>2, <2>2 DEF E
    <2>5. Flows!Abort(s)
      BY ONLY ZenonT(60), <2>3, <2>4 DEF Flows!Abort, E, K, At
    <2> QED BY ONLY s \in Srcs, <2>5, ZenonT(60) DEF Flows!Next
  <1>13. ASSUME kind = "tcp", NEW t \in Streams, NEW l \in Locals, Dial(t, l) PROVE Flows!Next
    <2>1. PICK s \in Srcs : s = src[t]
      BY ONLY ZenonT(60), <1>0, <1>13 DEF Dial
    <2>2. /\ hpc[t] = "dial" /\ src' = src /\ udpConns' = [udpConns EXCEPT ![s] = l]
          /\ hpc' = [u \in Streams |-> IF u \in Sharing(t) THEN "read" ELSE hpc[u]]
      <3>1. hpc[t] = "dial" /\ t \in Streams /\ Source(t) = s
        BY ONLY ZenonT(60), <1>0, <1>13, <2>1 DEF Dial
      <3> QED BY ONLY ZenonT(60), <1>13, <3>1 DEF Dial
    <2>3. K' = K \ {s}
      BY ONLY ZenonT(60), t \in Streams, <1>11, <1>13, <2>1, <2>2
    <2>4. s \in K
      BY ONLY ZenonT(60), t \in Streams, <1>13, <2>1, <2>2 DEF K, At
    <2>5. \A r \in Srcs : udpConns[r] # l
      <3>1. l \notin Range(udpConns)
        BY ONLY ZenonT(60), <1>13 DEF Dial, FreeLocal
      <3> QED BY ONLY <1>0, <3>1 DEF Range
    <2>6. E' = [E EXCEPT ![s] = l] /\ E[s] = Nil /\ \A r \in Srcs : E[r] # l
      BY ONLY t \in Streams, <1>1, <1>2, <1>13, <2>1, <2>2, <2>5 DEF E
    <2>7. Flows!Finish(s, l)
      BY ONLY ZenonT(60), <2>3, <2>4, <2>6 DEF Flows!Finish, E, K, At
    <2> QED BY ONLY s \in Srcs, l \in Locals, <2>7, ZenonT(60) DEF Flows!Next
  <1>14. ASSUME kind = "tcp", NEW l \in Locals, LocalFail(l) PROVE Flows!Next
    <2>1. conn[l] \in Streams /\ src[conn[l]] \in Srcs
      BY <1>0, <1>14 DEF LocalFail, Inv, TypeOK, ConnInv
    <2>2. PICK s \in Srcs : s = Source(conn[l])
      BY ONLY <2>1, SourceOf
    <2> QED BY ONLY ZenonT(60), <1>5, <1>14, <2>2 DEF LocalFail
  <1>15. ASSUME NEW l \in Locals, LocalStart(l) \/ LocalClose(l) \/ AnswerFail(l)
         PROVE  UNCHANGED <<E, K>>
    BY ONLY ZenonT(60), <1>4, <1>15 DEF LocalStart, LocalClose, AnswerFail, farVars, At
  <1>16. ASSUME kind = "tcp", SweepDelete PROVE Flows!Next
    <2>1. PICK s \in Srcs : s = doomed
      BY ONLY ZenonT(60), <1>0, <1>16 DEF SweepDelete
    <2> QED BY ONLY ZenonT(60), <1>5, <1>16, <2>1 DEF SweepDelete
  <1>17. ASSUME Stop \/ (\E s \in Srcs : Sweep(s)) \/ UNCHANGED vars PROVE UNCHANGED <<E, K>>
    BY ONLY ZenonT(60), <1>4, <1>17 DEF Stop, Sweep, farVars, vars, At
  <1> QED
    BY ONLY [Next]_vars, <1>3, <1>6, <1>7, <1>9, <1>10, <1>12, <1>13, <1>14, <1>15, <1>16, <1>17,
            ZenonT(60)
    DEF Next, Serve

(* The TCP service implements FlowTable, as the UDP service does, for any  *)
(* number of streams, sources and local connections (tcp.go:285-313).      *)
THEOREM Refinement == Spec => OneFlowPerSource
BY FlowInit, FlowStep, AlwaysInv, PTL DEF Spec, OneFlowPerSource, Flows!Spec

=============================================================================
