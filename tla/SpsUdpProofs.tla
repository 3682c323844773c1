---------------------------- MODULE SpsUdpProofs ----------------------------
(***************************************************************************)
(* Proofs about SpsUdp, for any associations, sources, packet connections  *)
(* and addresses of hosts.                                                 *)
(***************************************************************************)
EXTENDS SpsUdp, TLAPS

(* The types of pc, sock and hello in TypeOK. *)
PcType == [Procs -> {"greet", "auth", "request", "dial", "handshake", "relay", "out"} \cup Ended]

SockType == [Assocs -> [in : {"up", "lost", "closed"}, listener : BOOLEAN,
                        parent : {"none", "up", "lost", "closed"}]]

HelloType == [Assocs -> [center : Centers, pair : Pairs, accepted : BOOLEAN]]

(* A request is read only from a client that may be served. *)
AuthInv ==
    \A a \in Assocs : pc[a] = "request" => ~hello[a].center.on \/ hello[a].accepted

(* A handler that dials has a source, which it accepted. *)
SrcInv ==
    \A p \in Procs : pc[p] = "out" => src[p] \in Srcs /\ Accepts(p, src[p])

(* An association has no packet connection before its relay begins. *)
OutInv ==
    \A a \in Assocs : pc[a] \notin {"relay", "out", "done"} => out[a] = Nil

(* An entry whose packet connection is open was made for its own source.   *)
TableInv ==
    \A s \in Srcs : table[s] # Nil /\ conn[table[s]] # "closed" => opened[table[s]].for = s

(* A copier that has yet to read outUDPConn belongs to an association. *)
CopierInv ==
    \A c \in Conns : copier[c] = "start" => opened[c].by \in Assocs

Inv ==
    /\ TypeOK
    /\ AuthInv
    /\ SrcInv
    /\ OutInv
    /\ TableInv
    /\ CopierInv
    /\ EndReleases
    /\ EntryHasCopier
    /\ OwnHost

(* The invariant holds in the initial states. *)
LEMMA InitInv == Init => Inv
  <1> SUFFICES ASSUME Init PROVE Inv
    OBVIOUS
  <1> USE SpsUdpAssumption DEF Init, Procs, Ended, Nobody
  <1>0. hello \in HelloType BY DEF HelloType
  <1>1. TypeOK BY <1>0 DEF TypeOK, HelloType
  <1>2. AuthInv /\ SrcInv /\ OutInv BY DEF AuthInv, SrcInv, OutInv
  <1>3. TableInv /\ CopierInv BY DEF TableInv, CopierInv
  <1>4. EndReleases /\ EntryHasCopier /\ OwnHost BY DEF EndReleases, EntryHasCopier, OwnHost
  <1> QED BY <1>1, <1>2, <1>3, <1>4 DEF Inv

(* The part of the invariant about packet connections survives a step that *)
(* dials none: it may close connections, let an association lose or end    *)
(* its own, and leaves the table, the copiers and their owners alone.      *)
LEMMA Closing ==
    ASSUME Inv,
           UNCHANGED <<table, opened, copier>>,
           \A c \in Conns : conn[c] = "closed" => conn'[c] = "closed",
           \A a \in Assocs : pc'[a] \in {"relay", "out"} =>
                /\ pc[a] \in {"relay", "out"} \/ out'[a] = Nil
                /\ out'[a] = out[a] \/ out'[a] = Nil
    PROVE  TableInv' /\ CopierInv' /\ EntryHasCopier' /\ OwnHost'
  <1>0. /\ \A s \in Srcs : table[s] # Nil => table[s] \in Conns
        /\ \A a \in Assocs : out[a] # Nil => out[a] \in Conns
    BY ZenonT(60) DEF Inv, TypeOK
  <1>1. TableInv' BY ZenonT(60), <1>0 DEF Inv, TableInv
  <1>2. CopierInv' BY ZenonT(60) DEF Inv, CopierInv
  <1>3. EntryHasCopier' BY ZenonT(60) DEF Inv, EntryHasCopier
  <1>4. OwnHost' BY ZenonT(60), <1>0 DEF Inv, OwnHost
  <1> QED BY <1>1, <1>2, <1>3, <1>4

(* The same for a step that touches no packet connection.                  *)
LEMMA Quiet ==
    ASSUME Inv, UNCHANGED <<connVars, out, src>>,
           \A a \in Assocs : \/ pc'[a] = pc[a]
                             \/ pc'[a] \notin {"relay", "out"}
                             \/ pc[a] \notin {"relay", "out", "done"} /\ pc'[a] = "relay",
           pc'[SS] = pc[SS]
    PROVE  TableInv' /\ CopierInv' /\ EntryHasCopier' /\ OwnHost' /\ SrcInv'
  <1>1. UNCHANGED <<table, opened, copier, conn, out, src>>
    BY DEF connVars
  <1>2. \A a \in Assocs : pc'[a] \in {"relay", "out"} =>
                /\ pc[a] \in {"relay", "out"} \/ out'[a] = Nil
                /\ out'[a] = out[a] \/ out'[a] = Nil
    BY <1>1 DEF Inv, OutInv
  <1>3. SrcInv'
    BY <1>1 DEF Inv, SrcInv, Accepts, Procs
  <1> QED BY <1>1, <1>2, <1>3, Closing

(* What is forgotten has its type. *)
LEMMA ForgottenType ==
    ASSUME NEW a \in Assocs, hello \in HelloType, Forget(a)
    PROVE  hello' \in HelloType /\ \A b \in Assocs \ {a} : hello'[b] = hello[b]
  <1>1. NoCenter \in Centers /\ "empty" \in Pairs
    BY DEF Centers, Pairs
  <1>2. Forgotten \in [center : Centers, pair : Pairs, accepted : BOOLEAN]
    BY <1>1 DEF Forgotten
  <1> QED BY <1>2 DEF Forget, HelloType

(* What a handshake that is refused changes.                               *)
LEMMA Refused ==
    ASSUME NEW a \in Assocs, TypeOK, Refuse(a)
    PROVE  /\ hello' \in HelloType
           /\ sock' \in SockType
           /\ \A b \in Assocs \ {a} : sock'[b] = sock[b] /\ hello'[b] = hello[b]
           /\ pc'[a] # "request"
  <1>1. sock' = [sock EXCEPT ![a].in = "closed"] /\ sock \in SockType
    BY DEF Refuse, TypeOK, SockType
  <1>2. sock' \in SockType /\ \A b \in Assocs \ {a} : sock'[b] = sock[b]
    BY <1>1 DEF SockType
  <1>3. pc'[a] # "request"
    BY DEF Refuse, To, TypeOK, Procs
  <1>4. hello \in HelloType /\ Forget(a)
    BY DEF Refuse, TypeOK, HelloType
  <1> QED BY <1>2, <1>3, <1>4, ForgottenType

(* Removing an entry by address takes nothing else away. *)
LEMMA RemovedEntry ==
    ASSUME NEW a \in Assocs, users \in [Assocs -> SUBSET {"client", "parent"}]
    PROVE  /\ Without(a) \in [Assocs -> SUBSET {"client", "parent"}]
           /\ \A b \in Assocs : Without(a)[b] \subseteq users[b]
  BY DEF Without

(* The steps of the handshake preserve the invariant.                      *)
LEMMA HandshakeStep ==
    ASSUME NEW a \in Assocs, Inv, Drop(a) \/ Greet(a) \/ Authenticate(a) \/ Request(a)
    PROVE  Inv'
  <1> USE SpsUdpAssumption DEF To
  <1>1. /\ UNCHANGED <<connVars, out, src, stopVars>>
        /\ pc[a] \in {"greet", "auth", "request"}
        /\ \E w \in {"auth", "request", "dial", "refused", "tcp"} : To(a, w)
    BY ZenonT(60) DEF Drop, Greet, Authenticate, Request, Refuse
  <1>2. a # SS /\ pc \in [Procs -> {"greet", "auth", "request", "dial", "handshake", "relay", "out"} \cup Ended]
    BY DEF Inv, TypeOK
  <1>3. TableInv' /\ CopierInv' /\ EntryHasCopier' /\ OwnHost' /\ SrcInv'
    BY <1>1, <1>2, Quiet DEF Procs
  <1>4. OutInv'
    BY <1>1, <1>2 DEF Inv, OutInv, Procs
  <1>5. /\ hello' \in HelloType
        /\ sock' \in SockType
        /\ users' \in [Assocs -> SUBSET {"client", "parent"}]
        /\ watch' \in [Assocs -> SUBSET {"reader", "writer", "parentReader"}]
        /\ \A b \in Assocs \ {a} :
              sock'[b] = sock[b] /\ users'[b] \subseteq users[b] /\ hello'[b] = hello[b]
        /\ pc'[a] = "request" => ~hello'[a].center.on \/ hello'[a].accepted
    <2> USE <1>1, <1>2 DEF Inv, Procs
    <2>1. TypeOK /\ hello \in HelloType BY DEF Inv, TypeOK, HelloType
    <2>2. CASE Drop(a)
      BY ZenonT(60), <2>1, <2>2, Refused DEF Drop, TypeOK, SockType
    <2>3. CASE Greet(a)
      <3>1. \/ Refuse(a)
            \/ To(a, "auth") /\ UNCHANGED <<hello, sock>>
            \/ To(a, "request") /\ ~hello[a].center.on /\ UNCHANGED <<hello, sock>>
        BY ZenonT(60), <2>3 DEF Greet, SelectMethod
      <3> QED BY ZenonT(60), <2>1, <2>3, <3>1, Refused DEF Greet, TypeOK, SockType
    <2>4. CASE Authenticate(a)
      <3>1. \/ Refuse(a)
            \/ hello' = [hello EXCEPT ![a].accepted = TRUE] /\ UNCHANGED sock
        BY <2>4 DEF Authenticate
      <3>2. CASE Refuse(a)
        BY ZenonT(60), <2>1, <2>4, <3>2, Refused DEF Authenticate, TypeOK
      <3>3. CASE hello' = [hello EXCEPT ![a].accepted = TRUE] /\ UNCHANGED sock
        <4>1. /\ hello \in [Assocs -> [center : Centers, pair : Pairs, accepted : BOOLEAN]]
              /\ hello' = [hello EXCEPT ![a] = [hello[a] EXCEPT !.accepted = TRUE]]
          BY <2>1, <3>3 DEF HelloType
        <4>2. /\ hello' \in HelloType
              /\ hello'[a].accepted
              /\ \A b \in Assocs \ {a} : hello'[b] = hello[b]
          BY ONLY ZenonT(60), <4>1, a \in Assocs DEF HelloType
        <4>3. UNCHANGED <<sock, users, watch>>
          BY <2>4, <3>3 DEF Authenticate
        <4> QED BY <2>1, <4>2, <4>3 DEF TypeOK, SockType
      <3> QED BY <3>1, <3>2, <3>3
    <2>5. CASE Request(a)
      <3>1. \/ Refuse(a) /\ UNCHANGED <<users, watch>>
            \/ To(a, "tcp") /\ Forget(a) /\ UNCHANGED <<sock, users, watch>>
            \/ /\ To(a, "refused") /\ Forget(a)
               /\ sock' = [sock EXCEPT ![a] = [in |-> "closed", listener |-> TRUE, parent |-> @.parent]]
               /\ UNCHANGED <<users, watch>>
            \/ /\ To(a, "dial") /\ Forget(a)
               /\ sock' = [sock EXCEPT ![a].listener = TRUE]
               /\ users' = [Without(a) EXCEPT ![a] = {"client"}]
               /\ watch' = [watch EXCEPT ![a] = {"reader", "writer"}]
        BY <2>5, ZenonT(60) DEF Request
      <3>2. CASE Refuse(a) /\ UNCHANGED <<users, watch>>
        BY ZenonT(60), <2>1, <3>2, Refused DEF TypeOK
      <3>3. CASE To(a, "tcp") /\ Forget(a) /\ UNCHANGED <<sock, users, watch>>
        BY ZenonT(60), <2>1, <3>3, ForgottenType DEF TypeOK, SockType
      <3>4. CASE /\ To(a, "refused") /\ Forget(a)
                 /\ sock' = [sock EXCEPT ![a] = [in |-> "closed", listener |-> TRUE, parent |-> @.parent]]
                 /\ UNCHANGED <<users, watch>>
        <4>1. sock \in SockType
          BY ZenonT(60), <2>1 DEF TypeOK, SockType
        <4>2. sock' \in SockType /\ \A b \in Assocs \ {a} : sock'[b] = sock[b]
          BY <3>4, <4>1 DEF SockType
        <4>3. To(a, "refused") /\ Forget(a) /\ UNCHANGED <<users, watch>>
          BY <3>4
        <4> QED BY ZenonT(60), <2>1, <4>2, <4>3, ForgottenType DEF TypeOK
      <3>5. CASE /\ To(a, "dial") /\ Forget(a)
                 /\ sock' = [sock EXCEPT ![a].listener = TRUE]
                 /\ users' = [Without(a) EXCEPT ![a] = {"client"}]
                 /\ watch' = [watch EXCEPT ![a] = {"reader", "writer"}]
        <4>1. sock \in SockType
          BY <2>1 DEF TypeOK, SockType
        <4>2. sock' \in SockType /\ \A b \in Assocs \ {a} : sock'[b] = sock[b]
          <5>1. sock' = [sock EXCEPT ![a].listener = TRUE] BY <3>5
          <5> QED BY ONLY ZenonT(60), <4>1, <5>1, a \in Assocs DEF SockType
        <4>3. /\ To(a, "dial") /\ Forget(a)
              /\ watch' = [watch EXCEPT ![a] = {"reader", "writer"}]
          BY <3>5
        <4>4. /\ users' \in [Assocs -> SUBSET {"client", "parent"}]
              /\ \A b \in Assocs \ {a} : users'[b] \subseteq users[b]
          BY <2>1, <3>5, RemovedEntry DEF TypeOK
        <4>5. watch' \in [Assocs -> SUBSET {"reader", "writer", "parentReader"}]
          BY ZenonT(60), <2>1, <4>3 DEF TypeOK
        <4>6. pc'[a] # "request"
          BY <4>3
        <4> QED BY ZenonT(60), <2>1, <4>2, <4>3, <4>4, <4>5, <4>6, ForgottenType
      <3> QED BY <3>1, <3>2, <3>3, <3>4, <3>5
    <2> QED BY <2>2, <2>3, <2>4, <2>5
  <1>6. TypeOK'
    BY <1>1, <1>2, <1>5 DEF Inv, TypeOK, HelloType, SockType, Procs, Ended, connVars, stopVars
  <1>7. AuthInv' /\ EndReleases'
    BY <1>1, <1>2, <1>5 DEF Inv, AuthInv, EndReleases, Procs
  <1> QED BY <1>3, <1>4, <1>6, <1>7 DEF Inv

(* What the deferred clean of an association leaves behind.                *)
LEMMA Cleaned ==
    ASSUME NEW a \in Assocs, Inv, Clean(a)
    PROVE  /\ sock' \in SockType
           /\ users' \in [Assocs -> SUBSET {"client", "parent"}]
           /\ conn' \in [Conns -> {"closed", "open", "deferred"}]
           /\ \A c \in Conns : conn[c] = "closed" => conn'[c] = "closed"
           /\ sock'[a].in = "closed" /\ ~sock'[a].listener
           /\ sock'[a].parent \in {"none", "closed"} /\ users'[a] = {}
           /\ \A b \in Assocs \ {a} : sock'[b] = sock[b] /\ users'[b] \subseteq users[b]
  <1>1. /\ sock \in SockType /\ conn \in [Conns -> {"closed", "open", "deferred"}]
        /\ users \in [Assocs -> SUBSET {"client", "parent"}]
    BY DEF Inv, TypeOK, SockType
  <1>2. /\ users' \in [Assocs -> SUBSET {"client", "parent"}] /\ users'[a] = {}
        /\ \A b \in Assocs \ {a} : users'[b] \subseteq users[b]
    BY <1>1, RemovedEntry DEF Clean
  <1>3. /\ sock' = [sock EXCEPT ![a] = [in |-> "closed", listener |-> FALSE,
                        parent |-> IF @.parent = "none" THEN "none" ELSE "closed"]]
        /\ conn' = Close({out[a]})
    BY DEF Clean
  <1>4. /\ sock' \in SockType
        /\ sock'[a].in = "closed" /\ ~sock'[a].listener /\ sock'[a].parent \in {"none", "closed"}
        /\ \A b \in Assocs \ {a} : sock'[b] = sock[b]
    BY <1>1, <1>3 DEF SockType
  <1>5. /\ conn' \in [Conns -> {"closed", "open", "deferred"}]
        /\ \A c \in Conns : conn[c] = "closed" => conn'[c] = "closed"
    BY <1>1, <1>3 DEF Close
  <1> QED BY ONLY ZenonT(60), <1>2, <1>4, <1>5

(* A handler that returns leaves the invariant true.                       *)
LEMMA Returned ==
    ASSUME NEW a \in Assocs, Inv, Return(a), pc[a] \in {"dial", "handshake", "relay"},
           UNCHANGED <<hello, watch, src, table, opened, copier, stopVars>>,
           out' \in [Assocs -> Conns \cup {Nil}],
           \A b \in Assocs \ {a} : out'[b] = out[b]
    PROVE  Inv'
  <1> USE SpsUdpAssumption
  <1>1. pc' = [pc EXCEPT ![a] = "done"] /\ Clean(a) /\ a # SS
    BY DEF Return, To
  <1>2. pc \in [Procs -> {"greet", "auth", "request", "dial", "handshake", "relay", "out"} \cup Ended]
    BY DEF Inv, TypeOK
  <1>3. TableInv' /\ CopierInv' /\ EntryHasCopier' /\ OwnHost'
    BY <1>1, <1>2, Cleaned, Closing DEF Procs
  <1>4. TypeOK'
    BY ZenonT(60), <1>1, <1>2, Cleaned DEF Inv, TypeOK, SockType, Procs, Ended, stopVars
  <1>5. EndReleases'
    BY <1>1, <1>2, Cleaned, SMTT(30) DEF Inv, EndReleases, Procs
  <1>6. AuthInv' /\ SrcInv' /\ OutInv'
    BY <1>1, <1>2 DEF Inv, AuthInv, SrcInv, OutInv, Procs, Accepts
  <1> QED BY <1>3, <1>4, <1>5, <1>6 DEF Inv

(* The steps of an association that is set up, watched or ended preserve   *)
(* the invariant.                                                          *)
LEMMA AssocStep ==
    ASSUME NEW a \in Assocs, Inv,
           \/ Dial(a) \/ HandshakeSocksParent(a) \/ ListenerClosed(a)
           \/ Watch(a)
           \/ \E who \in {"reader", "parentReader"} : ReadByte(a, who)
           \/ \E end \in {"in", "parent"} : Hangup(a, end)
    PROVE  Inv'
  <1> USE SpsUdpAssumption
  <1>1. /\ a # SS /\ pc \in PcType /\ sock \in SockType /\ TypeOK
        /\ out \in [Assocs -> Conns \cup {Nil}]
    BY DEF Inv, TypeOK, PcType, SockType
  <1>2. CASE /\ Return(a) /\ pc[a] \in {"dial", "handshake", "relay"}
             /\ UNCHANGED <<hello, watch, src, out, table, opened, copier, stopVars>>
    BY <1>1, <1>2, Returned
  <1>3. CASE /\ pc[a] = "dial" /\ To(a, "handshake")
             /\ sock' = [sock EXCEPT ![a].parent = "up"]
             /\ UNCHANGED <<hello, users, watch, src, out, connVars, stopVars>>
    <2>1. sock' \in SockType /\ \A b \in Assocs \ {a} : sock'[b] = sock[b]
      <3>1. sock' = [sock EXCEPT ![a].parent = "up"] BY <1>3
      <3> QED BY <1>1, <3>1 DEF SockType
    <2>2. /\ pc[a] = "dial" /\ pc' = [pc EXCEPT ![a] = "handshake"]
          /\ UNCHANGED <<hello, users, watch, src, out, connVars, stopVars>>
      BY <1>3 DEF To
    <2>3. TableInv' /\ CopierInv' /\ EntryHasCopier' /\ OwnHost' /\ SrcInv'
      BY ZenonT(60), <1>1, <2>2, Quiet DEF PcType, Procs
    <2>4. TypeOK'
      BY ZenonT(60), <1>1, <2>1, <2>2 DEF TypeOK, SockType, PcType, Procs, connVars, stopVars
    <2>5. AuthInv' /\ OutInv' /\ EndReleases'
      BY ZenonT(60), <1>1, <2>1, <2>2 DEF Inv, AuthInv, OutInv, EndReleases, PcType, Procs
    <2> QED BY <2>3, <2>4, <2>5 DEF Inv
  <1>4. CASE /\ pc[a] = "handshake" /\ To(a, "relay")
             /\ users' = [users EXCEPT ![a] = @ \cup {"parent"}]
             /\ watch' = [watch EXCEPT ![a] = @ \cup {"parentReader"}]
             /\ UNCHANGED <<hello, sock, src, out, connVars, stopVars>>
    <2>1. TableInv' /\ CopierInv' /\ EntryHasCopier' /\ OwnHost' /\ SrcInv'
      BY ZenonT(60), <1>1, <1>4, Quiet DEF To, PcType, Procs
    <2>2. TypeOK'
      BY ZenonT(60), <1>1, <1>4 DEF To, TypeOK, PcType, Procs, connVars, stopVars
    <2>3. AuthInv' /\ OutInv' /\ EndReleases'
      BY ZenonT(60), <1>1, <1>4 DEF To, Inv, TypeOK, AuthInv, OutInv, EndReleases, PcType, Procs
    <2> QED BY <2>1, <2>2, <2>3 DEF Inv
  <1>5. CASE Watch(a)
    <2>1. PICK who \in {"reader", "writer", "parentReader"} : WatchEnds(a, who)
      BY <1>5 DEF Watch
    <2>2. /\ Clean(a) /\ watch' = [watch EXCEPT ![a] = @ \ {who}]
          /\ UNCHANGED <<pc, hello, src, out, table, opened, copier, stopVars>>
      BY <2>1 DEF WatchEnds
    <2>3. TableInv' /\ CopierInv' /\ EntryHasCopier' /\ OwnHost'
      BY ZenonT(60), <2>2, Cleaned, Closing
    <2>4. TypeOK'
      BY ZenonT(60), <1>1, <2>2, Cleaned DEF TypeOK, SockType, stopVars
    <2>5. AuthInv' /\ OutInv' /\ SrcInv'
      BY ZenonT(60), <2>2 DEF Inv, AuthInv, OutInv, SrcInv, Accepts
    <2>6. EndReleases'
      <3>1. /\ sock'[a].in = "closed" /\ ~sock'[a].listener
            /\ sock'[a].parent \in {"none", "closed"} /\ users'[a] = {}
            /\ \A b \in Assocs \ {a} : sock'[b] = sock[b] /\ users'[b] \subseteq users[b]
        BY <2>2, Cleaned
      <3>2. UNCHANGED pc
        BY <2>2
      <3> QED BY <3>1, <3>2 DEF Inv, EndReleases
    <2> QED BY ZenonT(60), <2>3, <2>4, <2>5, <2>6 DEF Inv
  <1>6. CASE \E who \in {"reader", "parentReader"} : ReadByte(a, who)
    <2>1. PICK who \in {"reader", "parentReader"} : ReadByte(a, who)
      BY <1>6
    <2>2. /\ watch' = [watch EXCEPT ![a] = @ \ {who}]
          /\ UNCHANGED <<pc, hello, sock, users, src, out, connVars, stopVars>>
      BY <2>1 DEF ReadByte
    <2>3. TableInv' /\ CopierInv' /\ EntryHasCopier' /\ OwnHost' /\ SrcInv'
      BY ZenonT(60), <2>2, Quiet
    <2>4. TypeOK'
      BY ZenonT(60), <1>1, <2>2 DEF TypeOK, connVars, stopVars
    <2>5. AuthInv' /\ OutInv' /\ EndReleases'
      BY ZenonT(60), <2>2 DEF Inv, AuthInv, OutInv, EndReleases
    <2> QED BY <2>3, <2>4, <2>5 DEF Inv
  <1>7. CASE \E end \in {"in", "parent"} : Hangup(a, end)
    <2>1. /\ sock' \in SockType
          /\ \A b \in Assocs : pc[b] = "done" => sock'[b] = sock[b]
      <3>1. CASE Hangup(a, "in")
        <4>1. sock[a].in = "up" /\ sock' = [sock EXCEPT ![a].in = "lost"]
          BY ZenonT(60), <3>1 DEF Hangup
        <4>2. sock' \in SockType /\ \A b \in Assocs \ {a} : sock'[b] = sock[b]
          BY <1>1, <4>1 DEF SockType
        <4>3. pc[a] # "done"
          BY <4>1 DEF Inv, EndReleases
        <4> QED BY <4>2, <4>3
      <3>2. CASE Hangup(a, "parent")
        <4>1. sock[a].parent = "up" /\ sock' = [sock EXCEPT ![a].parent = "lost"]
          BY ZenonT(60), <3>2 DEF Hangup
        <4>2. sock' \in SockType /\ \A b \in Assocs \ {a} : sock'[b] = sock[b]
          BY <1>1, <4>1 DEF SockType
        <4>3. pc[a] # "done"
          BY <4>1 DEF Inv, EndReleases
        <4> QED BY <4>2, <4>3
      <3> QED BY <1>7, <3>1, <3>2
    <2>2. UNCHANGED <<pc, hello, users, watch, src, out, connVars, stopVars>>
      BY <1>7 DEF Hangup
    <2>3. TableInv' /\ CopierInv' /\ EntryHasCopier' /\ OwnHost' /\ SrcInv'
      BY ZenonT(60), <2>2, Quiet
    <2>4. TypeOK'
      BY ZenonT(60), <1>1, <2>1, <2>2 DEF TypeOK, SockType, connVars, stopVars
    <2>5. AuthInv' /\ OutInv' /\ EndReleases'
      BY <2>1, <2>2 DEF Inv, AuthInv, OutInv, EndReleases
    <2> QED BY <2>3, <2>4, <2>5 DEF Inv
  <1>8. CASE Dial(a)
    BY ZenonT(60), <1>2, <1>3, <1>8 DEF Dial, connVars
  <1>9. CASE HandshakeSocksParent(a)
    BY ZenonT(60), <1>2, <1>4, <1>9 DEF HandshakeSocksParent, connVars
  <1>10. CASE ListenerClosed(a)
    BY <1>2, <1>10 DEF ListenerClosed
  <1> QED BY <1>5, <1>6, <1>7, <1>8, <1>9, <1>10

(* The SS loop returns: packet connections are closed, no more.            *)
LEMMA SsReturned ==
    ASSUME Inv, SsReturn,
           UNCHANGED <<hello, watch, out, table, opened, copier, stopVars>>,
           src' = src \/ src' = [src EXCEPT ![SS] = Nil]
    PROVE  Inv'
  <1> USE SpsUdpAssumption
  <1>1. /\ pc \in PcType /\ TypeOK
        /\ pc' = [pc EXCEPT ![SS] = "done"]
        /\ conn' = Close({c \in Conns : conn[c] = "deferred"})
        /\ UNCHANGED <<sock, users>>
    BY ZenonT(60) DEF Inv, TypeOK, PcType, SsReturn, To
  <1>2. \A b \in Assocs : b # SS /\ pc'[b] = pc[b]
    BY <1>1 DEF PcType, Procs
  <1>3. TableInv' /\ CopierInv' /\ EntryHasCopier' /\ OwnHost'
    BY <1>1, <1>2, Closing DEF Close
  <1>4. TypeOK'
    BY ZenonT(60), <1>1 DEF TypeOK, PcType, Procs, Ended, Close, stopVars
  <1>5. AuthInv' /\ OutInv' /\ EndReleases'
    BY ZenonT(60), <1>1, <1>2 DEF Inv, AuthInv, OutInv, EndReleases
  <1>6. SrcInv'
    BY ZenonT(60), <1>1, <1>2 DEF Inv, TypeOK, SrcInv, Accepts, PcType, Procs
  <1> QED BY ZenonT(60), <1>3, <1>4, <1>5, <1>6 DEF Inv

(* A datagram whose source is in the table, or is not: an association      *)
(* takes up the connection it finds, which by TableInv was opened for this *)
(* source if it is still open.                                             *)
LEMMA LookupStep ==
    ASSUME NEW p \in Procs, NEW s \in Srcs, Inv, Reuse(p, s) \/ Miss(p, s)
    PROVE  Inv'
  <1> USE SpsUdpAssumption
  <1>1. /\ pc \in PcType /\ TypeOK /\ pc[p] = "relay" /\ Accepts(p, s)
        /\ \A b \in Assocs : b # SS /\ b \in Procs
    BY DEF Inv, TypeOK, PcType, Reuse, Miss, Listening, Procs
  <1>2. CASE Miss(p, s)
    <2>1. /\ pc' = [pc EXCEPT ![p] = "out"] /\ src' = [src EXCEPT ![p] = s]
          /\ UNCHANGED <<assocVars, out, connVars, stopVars>>
      BY <1>2 DEF Miss, To
    <2>2. TableInv' /\ CopierInv' /\ EntryHasCopier' /\ OwnHost'
      BY ZenonT(60), <1>1, <2>1, Closing DEF PcType, connVars
    <2>3. TypeOK'
      BY ZenonT(60), <1>1, <2>1 DEF TypeOK, PcType, Ended, assocVars, connVars, stopVars
    <2>4. SrcInv'
      BY ZenonT(60), <1>1, <2>1 DEF Inv, TypeOK, SrcInv, Accepts, PcType
    <2>5. AuthInv' /\ OutInv' /\ EndReleases'
      BY <1>1, <2>1 DEF Inv, AuthInv, OutInv, EndReleases, PcType, assocVars
    <2> QED BY <2>2, <2>3, <2>4, <2>5 DEF Inv
  <1>3. CASE Reuse(p, s) /\ p = SS /\ conn[table[s]] = "closed"
    BY <1>3, SsReturned DEF Reuse
  <1>4. CASE Reuse(p, s) /\ p = SS /\ conn[table[s]] # "closed"
    <2>1. /\ conn' = [conn EXCEPT ![table[s]] = "deferred"]
          /\ UNCHANGED <<pc, hello, sock, users, watch, src, out, table, opened, copier, stopVars>>
      BY <1>4 DEF Reuse
    <2>2. \A c \in Conns : conn[c] = "closed" => conn'[c] = "closed"
      BY <1>1, <1>4, <2>1 DEF TypeOK
    <2>3. TableInv' /\ CopierInv' /\ EntryHasCopier' /\ OwnHost'
      BY <2>1, <2>2, Closing
    <2>4. TypeOK'
      BY ZenonT(60), <1>1, <2>1 DEF TypeOK, stopVars
    <2>5. AuthInv' /\ SrcInv' /\ OutInv' /\ EndReleases'
      BY <2>1 DEF Inv, AuthInv, SrcInv, Accepts, OutInv, EndReleases
    <2> QED BY <2>3, <2>4, <2>5 DEF Inv
  <1>5. CASE Reuse(p, s) /\ p # SS /\ conn[table[s]] = "closed"
    <2>1. /\ p \in Assocs /\ out' = [out EXCEPT ![p] = table[s]] /\ Return(p)
          /\ UNCHANGED <<hello, watch, src, table, opened, copier, stopVars>>
      BY <1>5 DEF Reuse, Procs
    <2>2. /\ out' \in [Assocs -> Conns \cup {Nil}]
          /\ \A b \in Assocs \ {p} : out'[b] = out[b]
      BY <1>1, <2>1 DEF TypeOK
    <2> QED BY ZenonT(60), <1>1, <2>1, <2>2, Returned
  <1>6. CASE Reuse(p, s) /\ p # SS /\ conn[table[s]] # "closed"
    <2>1. /\ p \in Assocs /\ out' = [out EXCEPT ![p] = table[s]] /\ table[s] # Nil
          /\ UNCHANGED <<pc, hello, sock, users, watch, src, table, conn, opened, copier, stopVars>>
      BY ZenonT(60), <1>6 DEF Reuse, Procs
    <2>2. opened[table[s]].for = s /\ HostOf[s] = HostOf[p]
      BY ZenonT(60), <1>1, <1>6, <2>1 DEF Inv, TableInv, Accepts
    <2>3. OwnHost'
      BY ZenonT(60), <1>1, <2>1, <2>2 DEF Inv, TypeOK, OwnHost
    <2>4. TypeOK'
      BY ZenonT(60), <1>1, <2>1 DEF TypeOK, stopVars
    <2>5. AuthInv' /\ SrcInv' /\ EndReleases'
      BY ZenonT(60), <2>1 DEF Inv, AuthInv, SrcInv, Accepts, EndReleases
    <2>6. OutInv'
      BY ZenonT(60), <1>1, <2>1 DEF Inv, TypeOK, OutInv
    <2>7. TableInv' /\ CopierInv' /\ EntryHasCopier'
      BY <2>1 DEF Inv, TableInv, CopierInv, EntryHasCopier
    <2> QED BY ZenonT(60), <2>3, <2>4, <2>5, <2>6, <2>7 DEF Inv
  <1> QED BY ZenonT(60), <1>2, <1>3, <1>4, <1>5, <1>6

(* Dialling a packet connection: nothing refers to the one that is taken,  *)
(* so no entry and no association that is still working changes owner.     *)
LEMMA DialStep ==
    ASSUME NEW p \in Procs, Inv, DialUDP(p)
    PROVE  Inv'
  <1> USE SpsUdpAssumption
  <1>1. PICK c \in Conns :
          /\ Unused(c)
          /\ out' = IF p = SS THEN out ELSE [out EXCEPT ![p] = c]
          /\ table' = [table EXCEPT ![src[p]] = c]
          /\ conn' = [conn EXCEPT ![c] = IF p = SS THEN "deferred" ELSE "open"]
          /\ opened' = [opened EXCEPT ![c] = [by |-> p, for |-> src[p]]]
          /\ copier' = [copier EXCEPT ![c] = IF p = SS THEN c ELSE "start"]
    BY ZenonT(60) DEF DialUDP
  <1>2. /\ pc[p] = "out" /\ src' = [src EXCEPT ![p] = Nil] /\ pc' = [pc EXCEPT ![p] = "relay"]
        /\ UNCHANGED <<hello, sock, users, watch, stopVars>>
    BY ZenonT(60) DEF DialUDP, To
  <1>3. /\ pc \in PcType /\ TypeOK /\ src[p] \in Srcs /\ Accepts(p, src[p])
        /\ \A b \in Assocs : b # SS /\ b \in Procs
        /\ p # SS => p \in Assocs
    BY ZenonT(60), <1>2 DEF Inv, TypeOK, SrcInv, PcType, Procs
  <1>4. /\ conn[c] = "closed" /\ copier[c] = "off"
        /\ \A d \in Srcs : table[d] # c
        /\ \A b \in Assocs : out[b] = c => pc[b] = "done"
    BY ZenonT(60), <1>1 DEF Unused
  <1>5. TypeOK'
    BY ZenonT(60), <1>1, <1>2, <1>3 DEF TypeOK, PcType, Ended, stopVars
  <1>6. AuthInv' /\ SrcInv' /\ EndReleases'
    BY <1>2, <1>3, ZenonT(120) DEF Inv, TypeOK, AuthInv, SrcInv, Accepts, EndReleases, PcType
  <1>7. OutInv'
    BY ZenonT(60), <1>1, <1>2, <1>3 DEF Inv, TypeOK, OutInv, PcType
  <1>8. TableInv'
    BY ZenonT(60), <1>1, <1>3, <1>4 DEF Inv, TypeOK, TableInv
  <1>9. CopierInv'
    BY <1>1, <1>3 DEF Inv, TypeOK, CopierInv
  <1>10. EntryHasCopier'
    <2> SUFFICES ASSUME NEW d \in Srcs, table'[d] # Nil
                 PROVE  \E e \in Conns : copier'[e] # "off" /\ opened'[e].for = d
      BY DEF EntryHasCopier
    <2>1. CASE d = src[p]
      BY ZenonT(60), <1>1, <1>3, <2>1 DEF TypeOK
    <2>2. CASE d # src[p]
      <3>1. PICK e \in Conns : copier[e] # "off" /\ opened[e].for = d
        BY ZenonT(60), <1>1, <1>3, <2>2 DEF Inv, TypeOK, EntryHasCopier
      <3> QED BY ZenonT(60), <1>1, <1>3, <1>4, <3>1 DEF TypeOK
    <2> QED BY <2>1, <2>2
  <1>11. OwnHost'
    <2> SUFFICES ASSUME NEW b \in Assocs, pc'[b] \in {"relay", "out"}, out'[b] # Nil,
                        conn'[out'[b]] # "closed"
                 PROVE  HostOf[opened'[out'[b]].for] = HostOf[b]
      BY ZenonT(60) DEF OwnHost
    <2>1. CASE b = p
      BY ZenonT(60), <1>1, <1>3, <2>1 DEF TypeOK, Accepts
    <2>2. CASE b # p
      <3>1. pc'[b] = pc[b] /\ out'[b] = out[b] /\ out[b] # c
        BY ZenonT(60), <1>1, <1>2, <1>3, <1>4, <2>2 DEF TypeOK, PcType
      <3>2. conn'[out[b]] = conn[out[b]] /\ opened'[out[b]] = opened[out[b]]
        BY <1>1, <1>3, <3>1 DEF TypeOK
      <3> QED BY ZenonT(60), <3>1, <3>2 DEF Inv, OwnHost
    <2> QED BY <2>1, <2>2
  <1> QED BY SMTT(60), <1>5, <1>6, <1>7, <1>8, <1>9, <1>10, <1>11 DEF Inv

(* Dialling fails.                                                         *)
LEMMA DialFailsStep ==
    ASSUME NEW p \in Procs, Inv, DialUDPFails(p)
    PROVE  Inv'
  <1> USE SpsUdpAssumption
  <1>1. CASE p = SS
    BY ZenonT(60), <1>1, SsReturned DEF DialUDPFails
  <1>2. CASE p # SS
    <2>1. /\ p \in Assocs /\ pc[p] = "out" /\ src' = [src EXCEPT ![p] = Nil]
          /\ pc' = [pc EXCEPT ![p] = "relay"] /\ out' = [out EXCEPT ![p] = Nil]
          /\ UNCHANGED <<sock, users, conn, hello, watch, table, opened, copier, stopVars>>
      BY ZenonT(60), <1>2 DEF DialUDPFails, To, Procs
    <2>2. pc \in PcType /\ TypeOK /\ \A b \in Assocs : b # SS /\ b \in Procs
      BY ZenonT(60) DEF Inv, TypeOK, PcType, Procs
    <2>3. TableInv' /\ CopierInv' /\ EntryHasCopier' /\ OwnHost'
      BY ZenonT(60), <2>1, <2>2, Closing DEF TypeOK, PcType
    <2>4. TypeOK'
      BY <2>1, <2>2 DEF TypeOK, PcType, stopVars
    <2>5. AuthInv' /\ SrcInv' /\ OutInv' /\ EndReleases'
      <3>1. \A q \in Procs : pc'[q] = IF q = p THEN "relay" ELSE pc[q]
        BY ZenonT(60), <2>2, <2>1 DEF PcType
      <3>2. /\ \A q \in Procs \ {p} : src'[q] = src[q]
            /\ \A a \in Assocs \ {p} : out'[a] = out[a]
            /\ UNCHANGED <<sock, users, hello>>
        BY ZenonT(60), <2>1, <2>2 DEF TypeOK
      <3>3. AuthInv' BY <2>2, <3>1, <3>2 DEF Inv, AuthInv
      <3>4. SrcInv' BY <3>1, <3>2 DEF Inv, SrcInv, Accepts
      <3>5. OutInv' BY <2>2, <3>1, <3>2 DEF Inv, OutInv
      <3>6. EndReleases' BY <2>2, <3>1, <3>2 DEF Inv, EndReleases
      <3> QED BY ZenonT(60), <3>3, <3>4, <3>5, <3>6
    <2> QED BY <2>3, <2>4, <2>5 DEF Inv
  <1> QED BY SMTT(60), <1>1, <1>2

(* A lost parent of the SS loop, and Stop: connections are closed.         *)
LEMMA CloseStep ==
    ASSUME Inv, Stop \/ \E c \in Conns : SsParentLost(c)
    PROVE  Inv'
  <1> USE SpsUdpAssumption
  <1>1. /\ UNCHANGED <<pc, hello, users, watch, src, out, table, opened, copier>>
        /\ \E cs : conn' = Close(cs)
    BY ZenonT(60) DEF Stop, SsParentLost, assocVars
  <1>2. TypeOK /\ sock \in SockType
    BY ZenonT(60) DEF Inv, TypeOK, SockType
  <1>3. /\ conn' \in [Conns -> {"closed", "open", "deferred"}]
        /\ \A c \in Conns : conn[c] = "closed" => conn'[c] = "closed"
    BY <1>1, <1>2 DEF Close, TypeOK
  <1>4. TableInv' /\ CopierInv' /\ EntryHasCopier' /\ OwnHost'
    BY <1>1, <1>3, Closing
  <1>5. /\ sock' \in SockType /\ stopped' \subseteq Assocs /\ ssListens' \in BOOLEAN
        /\ \A a \in Assocs : users[a] = {} => sock'[a] = sock[a]
    <2>1. CASE Stop
      <3>1. sock' = [a \in Assocs |-> [sock[a] EXCEPT !.in = IF "client" \in users[a] THEN "closed" ELSE @]]
        BY <2>1 DEF Stop
      <3>2. sock' \in SockType
        BY ZenonT(120), <1>2, <3>1 DEF SockType
      <3>3. \A a \in Assocs : users[a] = {} => sock'[a] = sock[a]
        BY <1>2, <3>1 DEF SockType
      <3> QED BY ZenonT(60), <2>1, <3>2, <3>3 DEF Stop
    <2>2. CASE \E c \in Conns : SsParentLost(c)
      BY <1>2, <2>2 DEF SsParentLost, assocVars, stopVars, TypeOK
    <2> QED BY <2>1, <2>2
  <1>6. TypeOK'
    BY SMTT(60), <1>1, <1>2, <1>3, <1>5 DEF TypeOK, SockType
  <1>7. AuthInv' /\ SrcInv' /\ OutInv' /\ EndReleases'
    BY <1>1, <1>5 DEF Inv, AuthInv, SrcInv, Accepts, OutInv, EndReleases
  <1> QED BY <1>4, <1>6, <1>7 DEF Inv

(* A copier starts, or ends and removes the entry of its source.  An entry *)
(* of another source has its copier still.                                 *)
LEMMA CopyStep ==
    ASSUME NEW c \in Conns, Inv, CopyStart(c) \/ CopyEnd(c)
    PROVE  Inv'
  <1> USE SpsUdpAssumption
  <1>1. TypeOK /\ UNCHANGED <<pc, assocVars, src, out, conn, stopVars>>
    BY ZenonT(60) DEF Inv, CopyStart, CopyEnd
  <1>2. AuthInv' /\ SrcInv' /\ OutInv' /\ EndReleases'
    BY <1>1 DEF Inv, AuthInv, SrcInv, Accepts, OutInv, EndReleases, assocVars
  <1>3. CASE CopyStart(c)
    <2>1. PICK h \in Conns \cup {"nil"} :
            copier' = [copier EXCEPT ![c] = h] /\ UNCHANGED <<table, opened>>
      <3>1. out[opened[c].by] \in Conns \cup {Nil}
        BY ZenonT(60), <1>1, <1>3 DEF Inv, CopierInv, CopyStart, TypeOK
      <3> QED BY ZenonT(60), <1>3, <3>1 DEF CopyStart
    <2>2. TypeOK'
      BY ZenonT(60), <1>1, <2>1 DEF TypeOK, assocVars, stopVars
    <2>3. TableInv' /\ OwnHost'
      BY ZenonT(60), <1>1, <2>1 DEF Inv, TableInv, OwnHost
    <2>4. CopierInv' /\ EntryHasCopier'
      <3>1. /\ "nil" # "start" /\ "nil" # "off"
            /\ "start" \notin Conns /\ "off" \notin Conns
        BY SpsUdpAssumption
      <3>2. /\ copier'[c] # "start" /\ copier'[c] # "off"
            /\ \A d \in Conns : d # c => copier'[d] = copier[d]
        BY ONLY <1>1, <2>1, <3>1, ZenonT(60) DEF TypeOK
      <3>3. CopierInv'
        BY ZenonT(60), <2>1, <3>2 DEF Inv, CopierInv
      <3> QED BY ZenonT(60), <2>1, <3>2, <3>3 DEF Inv, EntryHasCopier
    <2> QED BY <1>2, <2>2, <2>3, <2>4 DEF Inv
  <1>4. CASE CopyEnd(c)
    <2>1. /\ copier' = [copier EXCEPT ![c] = "off"]
          /\ table' = [table EXCEPT ![opened[c].for] = Nil]
          /\ opened' = IF conn[c] # "closed" THEN opened ELSE [opened EXCEPT ![c] = Nobody]
      BY <1>4 DEF CopyEnd
    <2>2. /\ \A d \in Srcs : table'[d] # Nil => table'[d] = table[d] /\ d # opened[c].for
          /\ \A d \in Conns : d # c => copier'[d] = copier[d] /\ opened'[d] = opened[d]
          /\ \A d \in Conns : conn[d] # "closed" => opened'[d] = opened[d]
          /\ copier'[c] = "off"
      BY SMTT(60), <1>1, <2>1 DEF TypeOK
    <2>3. TypeOK'
      BY ZenonT(60), <1>1, <2>1 DEF TypeOK, Nobody, assocVars, stopVars
    <2>4. TableInv' /\ OwnHost'
      <3>1. /\ \A s \in Srcs : table[s] # Nil => table[s] \in Conns
            /\ \A a \in Assocs : out[a] # Nil => out[a] \in Conns
        BY ZenonT(60), <1>1 DEF TypeOK
      <3>2. TableInv'
        BY <1>1, <2>2, <3>1 DEF Inv, TableInv
      <3>3. OwnHost'
        BY <1>1, <2>2, <3>1, ZenonT(120) DEF Inv, OwnHost
      <3> QED BY <3>2, <3>3
    <2>5. CopierInv'
      BY ZenonT(60), <2>2 DEF Inv, CopierInv
    <2>6. EntryHasCopier'
      <3> SUFFICES ASSUME NEW s \in Srcs, table'[s] # Nil
                   PROVE  \E d \in Conns : copier'[d] # "off" /\ opened'[d].for = s
        BY DEF EntryHasCopier
      <3>1. table[s] # Nil /\ s # opened[c].for
        BY <2>2
      <3>2. PICK d \in Conns : copier[d] # "off" /\ opened[d].for = s
        BY <3>1 DEF Inv, EntryHasCopier
      <3> QED BY <2>2, <3>1, <3>2
    <2> QED BY <1>2, <2>3, <2>4, <2>5, <2>6 DEF Inv
  <1> QED BY ZenonT(60), <1>3, <1>4

(* The loop of the Shadowsocks service ends.                               *)
LEMMA SsEndsStep == Inv /\ SsEnds => Inv'
  BY SsReturned DEF SsEnds

(* The invariant is inductive, and always holds.                           *)
LEMMA NextInv == Inv /\ [Next]_vars => Inv'
  <1> SUFFICES ASSUME Inv, [Next]_vars PROVE Inv'
    BY ZenonT(60)
  <1>1. CASE UNCHANGED vars
    BY ZenonT(60), <1>1 DEF vars, Inv, TypeOK, AuthInv, SrcInv, OutInv, TableInv, CopierInv, EndReleases,
       EntryHasCopier, OwnHost, Accepts
  <1>2. CASE Next
    <2>1. ASSUME NEW a \in Assocs,
                 \/ Drop(a) \/ Greet(a) \/ Authenticate(a) \/ Request(a) \/ Handle(a) \/ Watch(a)
                 \/ \E who \in {"reader", "parentReader"} : ReadByte(a, who)
                 \/ \E end \in {"in", "parent"} : Hangup(a, end)
          PROVE  Inv'
      <3>1. a \in Procs BY DEF Procs
      <3> QED BY <2>1, <3>1, HandshakeStep, AssocStep, DialStep, DialFailsStep DEF Handle
    <2>2. SS \in Procs BY DEF Procs
    <2> QED BY <1>2, <2>1, <2>2, LookupStep, DialStep, DialFailsStep, SsEndsStep, CloseStep, CopyStep
            DEF Next
  <1> QED BY <1>1, <1>2

LEMMA AlwaysInv == Spec => []Inv
  BY InitInv, NextInv, PTL DEF Spec

(* The variables keep their types.                                         *)
THEOREM TypeCorrect == Spec => []TypeOK
  <1>1. Inv => TypeOK BY DEF Inv
  <1> QED BY AlwaysInv, <1>1, PTL

(* proxyUDP leaves nothing of an association behind.                       *)
THEOREM AssociationReleased == Spec => []EndReleases
  <1>1. Inv => EndReleases BY DEF Inv
  <1> QED BY AlwaysInv, <1>1, PTL

(* No entry of udpRelatedPacketConns outlives the copiers of its source,   *)
(* one of which takes it out when it ends.                                 *)
THEOREM EntriesCopied == Spec => []EntryHasCopier
  <1>1. Inv => EntryHasCopier BY DEF Inv
  <1> QED BY AlwaysInv, <1>1, PTL

(* Associations use only packet connections of their own client's host.    *)
THEOREM HostsApart == Spec => []OwnHost
  <1>1. Inv => OwnHost BY DEF Inv
  <1> QED BY AlwaysInv, <1>1, PTL

(* With a center nobody is served who avoided the exchange of user and     *)
(* password, or to whom the center has not said yes, whatever it was       *)
(* asked: a step that begins to serve a client is its request, which       *)
(* AuthInv guards.                                                         *)
THEOREM Authenticated == Spec => AuthFirst
  <1> DEFINE Step ==
        \A a \in Assocs : pc[a] \notin Served /\ pc'[a] \in Served
          => ~hello[a].center.on \/ hello[a].accepted
  <1>1. Inv /\ [Next]_vars => [Step]_vars
    <2> SUFFICES ASSUME Inv, Next, NEW a \in Assocs, pc[a] \notin Served, pc'[a] \in Served
                 PROVE  ~hello[a].center.on \/ hello[a].accepted
      OBVIOUS
    <2>1. pc \in PcType /\ a \in Procs /\ a # SS
      BY SpsUdpAssumption DEF Inv, TypeOK, PcType, Procs
    <2> SUFFICES pc[a] = "request"
      BY DEF Inv, AuthInv
    <2>2. pc'[a] # pc[a]
      OBVIOUS
    <2>3. ASSUME NEW b \in Assocs, Drop(b) \/ Greet(b) \/ Authenticate(b) \/ Request(b)
          PROVE  pc[a] = "request"
      <3>1. \E w \in {"auth", "request", "dial", "refused", "tcp"} : To(b, w)
        BY ZenonT(60), <2>3 DEF Drop, Greet, Authenticate, Request, Refuse
      <3>2. b = a
        BY <2>1, <2>2, <3>1 DEF To, PcType
      <3>3. \/ pc[a] = "request"
            \/ To(a, "auth") \/ To(a, "request") \/ To(a, "refused")
        BY ZenonT(60), <2>3, <3>2 DEF Drop, Greet, Authenticate, Request, Refuse
      <3> QED BY <2>1, <3>3 DEF To, PcType, Served, Active
    <2>4. ASSUME NEW p \in Procs, pc[p] \in Served, NEW w, To(p, w) PROVE FALSE
      BY <2>1, <2>2, <2>4 DEF To, PcType
    <2>5. ASSUME NEW b \in Assocs, Handle(b) \/ Watch(b) PROVE FALSE
      <3>1. b \in Procs BY DEF Procs
      <3>2. \/ UNCHANGED pc
            \/ pc[b] \in Served /\ \E w \in {"done", "handshake", "relay"} : To(b, w)
        BY SpsUdpAssumption, <2>5 DEF Handle, Watch, Dial, HandshakeSocksParent, ListenerClosed, DialUDP,
           DialUDPFails, WatchEnds, Return, Served, Active
      <3> QED BY <2>2, <2>4, <3>1, <3>2
    <2>6. ASSUME UNCHANGED pc PROVE FALSE
      BY <2>2, <2>6
    <2>7. ASSUME To(SS, "done") \/ To(SS, "relay") \/ To(SS, "out") PROVE FALSE
      BY <2>1, <2>2, <2>7 DEF To, PcType
    <2>8. ASSUME NEW p \in Procs, NEW d \in Srcs, Reuse(p, d) \/ Miss(p, d) PROVE FALSE
      <3>1. \/ UNCHANGED pc
            \/ pc[p] \in Served /\ \E w \in {"done", "out"} : To(p, w)
        BY ZenonT(60), <2>8 DEF Reuse, Miss, Listening, Return, SsReturn, Served, Active
      <3> QED BY ZenonT(60), <2>4, <2>6, <3>1
    <2>9. ASSUME DialUDP(SS) \/ DialUDPFails(SS) \/ SsEnds PROVE FALSE
      BY <2>7, <2>9 DEF DialUDP, DialUDPFails, SsEnds, SsReturn
    <2>10. ASSUME \/ Stop
                  \/ \E c \in Conns : SsParentLost(c) \/ CopyStart(c) \/ CopyEnd(c)
                  \/ \E b \in Assocs : \E who \in {"reader", "parentReader"} : ReadByte(b, who)
                  \/ \E b \in Assocs : \E end \in {"in", "parent"} : Hangup(b, end)
           PROVE  FALSE
      BY ZenonT(60), <2>6, <2>10 DEF Stop, SsParentLost, CopyStart, CopyEnd, ReadByte, Hangup
    <2> QED BY ZenonT(60), <2>3, <2>5, <2>8, <2>9, <2>10 DEF Next
  <1> QED BY <1>1, AlwaysInv, PTL DEF Spec, AuthFirst
=============================================================================
