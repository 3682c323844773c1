------------------------------- MODULE SpsUdp -------------------------------
(***************************************************************************)
(* UDP through the sps service: SOCKS5 associations (services/sps/         *)
(* socksudp.go, started by the socks5 branch of proxyTCP in sps.go) and    *)
(* the Shadowsocks datagram loop (services/sps/ssudp.go), which share the  *)
(* table udpRelatedPacketConns of packet connections towards the parent.   *)
(*                                                                         *)
(* An association is one client connection.  Besides its handler, three    *)
(* goroutines watch it: a reader and a writer of the client connection and *)
(* a reader of the parent connection, each of which runs clean when its    *)
(* connection fails.  A packet connection has a copier, the goroutine      *)
(* that carries the parent's answers back to the datagrams' source.        *)
(***************************************************************************)
EXTENDS Socks5

CONSTANTS Assocs,   \* the client connections that speak SOCKS5
          SS,       \* the Shadowsocks loop
          Srcs,     \* addresses datagrams come from
          Conns,    \* packet connections to parents
          Nil,      \* no source, no connection
          HostOf,   \* the IP address of a source or of an association's client
          AddrOf    \* the address and port of an association's client: one at
                    \* several listeners, or one that comes back, has the same

ASSUME SpsUdpAssumption ==
    /\ SS \notin Assocs
    /\ Nil \notin Srcs \cup Conns
    /\ Conns \cap {"off", "start", "nil"} = {}
    /\ DOMAIN HostOf = Srcs \cup Assocs
    /\ DOMAIN AddrOf = Assocs

VARIABLES
    pc,        \* where each handler is
    hello,     \* per association, during its handshake: the center of the
               \* service, the pair the client sends if it is asked for one,
               \* and whether the center was asked and said yes
    sock,      \* per association: client connection, UDP listener, parent
    users,     \* per association: which of its entries are in userConns
    watch,     \* per association: the goroutines still running
    src,       \* the source of the datagram a handler is working on
    out,       \* the variable outUDPConn of each association
    table,     \* udpRelatedPacketConns: source -> packet connection
    conn,      \* per packet connection: closed, open, or open and "deferred",
               \* when a clean that the SS loop has deferred will close it
    opened,    \* who opened a packet connection, and for which source
    copier,    \* per packet connection, the goroutine started with it
    stopped,   \* associations whose client connection Stop has closed
    ssListens  \* the SS loop's listener is open

vars == <<pc, hello, sock, users, watch, src, out, table, conn,
          opened, copier, stopped, ssListens>>

assocVars == <<hello, sock, users, watch>>
connVars  == <<table, conn, opened, copier>>
stopVars  == <<stopped, ssListens>>

Procs == Assocs \cup {SS}
Ended == {"done", "refused", "tcp"}
Active == {"dial", "handshake", "relay", "out", "done"}
Served == Active \cup {"tcp"}
Nobody == [by |-> Nil, for |-> Nil]

Init ==
    /\ pc = [p \in Procs |-> IF p = SS THEN "relay" ELSE "greet"]
    /\ \E center \in Centers, sent \in [Assocs -> Pairs] :
          hello = [a \in Assocs |-> [center |-> center, pair |-> sent[a], accepted |-> FALSE]]
    /\ sock = [a \in Assocs |-> [in |-> "up", listener |-> FALSE, parent |-> "none"]]
    /\ users = [a \in Assocs |-> {}]
    /\ watch = [a \in Assocs |-> {}]
    /\ src = [p \in Procs |-> Nil]
    /\ out = [a \in Assocs |-> Nil]
    /\ table = [s \in Srcs |-> Nil]
    /\ conn = [c \in Conns |-> "closed"]
    /\ opened = [c \in Conns |-> Nobody]
    /\ copier = [c \in Conns |-> "off"]
    /\ stopped = {}
    /\ ssListens = TRUE

TypeOK ==
    /\ pc \in [Procs -> {"greet", "auth", "request", "dial", "handshake", "relay", "out"} \cup Ended]
    /\ hello \in [Assocs -> [center : Centers, pair : Pairs, accepted : BOOLEAN]]
    /\ sock \in [Assocs -> [in : {"up", "lost", "closed"}, listener : BOOLEAN,
                         parent : {"none", "up", "lost", "closed"}]]
    /\ users \in [Assocs -> SUBSET {"client", "parent"}]
    /\ watch \in [Assocs -> SUBSET {"reader", "writer", "parentReader"}]
    /\ src \in [Procs -> Srcs \cup {Nil}]
    /\ out \in [Assocs -> Conns \cup {Nil}]
    /\ table \in [Srcs -> Conns \cup {Nil}]
    /\ conn \in [Conns -> {"closed", "open", "deferred"}]
    /\ opened \in [Conns -> [by : Procs \cup {Nil}, for : Srcs \cup {Nil}]]
    /\ copier \in [Conns -> {"off", "start", "nil"} \cup Conns]
    /\ stopped \subseteq Assocs
    /\ ssListens \in BOOLEAN

-----------------------------------------------------------------------------
(* The handshake of an association, Server.Handshake: one action for each  *)
(* message read.  The reply to it may fail to be written, and a read may   *)
(* fail or time out: Drop.  What a handshake has learnt is forgotten when  *)
(* it is over.                                                             *)

To(p, where) == pc' = [pc EXCEPT ![p] = where]
Forgotten == [center |-> NoCenter, pair |-> "empty", accepted |-> FALSE]
Forget(a) == hello' = [hello EXCEPT ![a] = Forgotten]

(* The handler returns before proxyUDP: handle closes the client, and      *)
(* nobody closes the UDP listener.                                         *)
Refuse(a) ==
    /\ To(a, "refused")
    /\ Forget(a)
    /\ sock' = [sock EXCEPT ![a].in = "closed"]

Drop(a) ==
    /\ pc[a] \in {"greet", "auth", "request"}
    /\ Refuse(a)
    /\ UNCHANGED <<users, watch, src, out, connVars, stopVars>>

Greet(a) ==
    /\ pc[a] = "greet"
    /\ \E offered \in SUBSET Methods :
          LET method == SelectMethod(hello[a].center, offered) IN
          \/ method = "unacceptable" /\ Refuse(a)
          \/ method = "userpass" /\ To(a, "auth") /\ UNCHANGED <<hello, sock>>
          \/ method = "noauth" /\ To(a, "request") /\ UNCHANGED <<hello, sock>>
    /\ UNCHANGED <<users, watch, src, out, connVars, stopVars>>

Authenticate(a) ==
    /\ pc[a] = "auth"
    /\ \E answer \in BOOLEAN :
          IF AuthAccepts(hello[a].center, hello[a].pair, answer)
          THEN /\ To(a, "request")
               /\ hello' = [hello EXCEPT ![a].accepted = TRUE]
               /\ UNCHANGED sock
          ELSE Refuse(a)
    /\ UNCHANGED <<users, watch, src, out, connVars, stopVars>>

(* userConns without an entry under the client's address, which may be the *)
(* entry of a namesake.                                                    *)
Without(a) ==
    [b \in Assocs |-> IF AddrOf[b] = AddrOf[a] THEN users[b] \ {"client"} ELSE users[b]]

(* The request.  An association opens its listener before the reply is     *)
(* written; if that write fails the listener stays open.  Otherwise        *)
(* proxyUDP enters the client in userConns and starts the two goroutines   *)
(* that watch it.                                                          *)
Request(a) ==
    /\ pc[a] = "request"
    /\ \E cmd \in Commands, listens \in BOOLEAN, replied \in BOOLEAN :
          LET outcome == RequestOutcome(cmd, TRUE, listens) IN
          \/ /\ outcome = "refused"
             /\ Refuse(a)
             /\ UNCHANGED <<users, watch>>
          \/ /\ outcome \in {"connect", "other"}
             /\ To(a, "tcp") /\ Forget(a)
             /\ UNCHANGED <<sock, users, watch>>
          \/ /\ outcome = "associate" /\ ~replied
             /\ To(a, "refused") /\ Forget(a)
             /\ sock' = [sock EXCEPT ![a] = [in |-> "closed", listener |-> TRUE, parent |-> @.parent]]
             /\ UNCHANGED <<users, watch>>
          \/ /\ outcome = "associate" /\ replied
             /\ To(a, "dial") /\ Forget(a)
             /\ sock' = [sock EXCEPT ![a].listener = TRUE]
             /\ users' = [Without(a) EXCEPT ![a] = {"client"}]
             /\ watch' = [watch EXCEPT ![a] = {"reader", "writer"}]
    /\ UNCHANGED <<src, out, connVars, stopVars>>
-----------------------------------------------------------------------------
(* The association, proxyUDP.                                              *)

Close(cs) == [c \in Conns |-> IF c \in cs THEN "closed" ELSE conn[c]]

(* clean: close the packet connection outUDPConn holds now, the client,    *)
(* the listener and the parent if it has been dialled, and remove what     *)
(* userConns has under the client's address and, once that is known, the   *)
(* parent's.                                                               *)
Clean(a) ==
    /\ sock' = [sock EXCEPT ![a] = [in |-> "closed", listener |-> FALSE,
                                    parent |-> IF @.parent = "none" THEN "none" ELSE "closed"]]
    /\ users' = [Without(a) EXCEPT ![a] = {}]
    /\ conn' = Close({out[a]})

(* A faulty variant: no clean is deferred, those of the goroutines and of  *)
(* the failures before the relay have to do.                               *)
ReturnBare(a) ==
    /\ To(a, "done")
    /\ IF pc[a] \in {"dial", "handshake"} THEN Clean(a) ELSE UNCHANGED <<sock, users, conn>>

(* The handler returns, and its deferred clean runs.                       *)
Return(a) ==
    /\ To(a, "done")
    /\ Clean(a)

Dial(a) ==
    /\ pc[a] = "dial"
    /\ \/ Return(a)
       \/ /\ To(a, "handshake")
          /\ sock' = [sock EXCEPT ![a].parent = "up"]
          /\ UNCHANGED <<users, conn>>
    /\ UNCHANGED <<hello, watch, src, out, table, opened, copier, stopVars>>

(* HandshakeSocksParent, with whatever credentials are configured; it can  *)
(* succeed only on a connection that is still up.                          *)
HandshakeSocksParent(a) ==
    /\ pc[a] = "handshake"
    /\ \E ok \in ParentOutcomes :
          \/ /\ ~ok \/ sock[a].parent # "up"
             /\ Return(a)
             /\ UNCHANGED watch
          \/ /\ ok /\ sock[a].parent = "up"
             /\ To(a, "relay")
             /\ users' = [users EXCEPT ![a] = @ \cup {"parent"}]
             /\ watch' = [watch EXCEPT ![a] = @ \cup {"parentReader"}]
             /\ UNCHANGED <<sock, conn>>
    /\ UNCHANGED <<hello, src, out, table, opened, copier, stopVars>>

(* The connection a goroutine watches.                                     *)
Watched(a, who) == IF who = "parentReader" THEN sock[a].parent ELSE sock[a].in

(* The goroutines.  Each reader reads one byte: if it gets it, the         *)
(* goroutine is over and nobody reads that connection any more.  If the    *)
(* read fails, it cleans.  The writer writes a byte every five seconds     *)
(* until that fails, and then cleans.                                      *)
ReadByte(a, who) ==
    /\ who \in watch[a] \ {"writer"}
    /\ Watched(a, who) = "up"
    /\ watch' = [watch EXCEPT ![a] = @ \ {who}]
    /\ UNCHANGED <<pc, hello, sock, users, src, out, connVars, stopVars>>

(* A faulty variant: the writer's goroutine ends without cleaning.         *)
WatchEndsMute(a, who) ==
    /\ who \in watch[a]
    /\ Watched(a, who) # "up"
    /\ watch' = [watch EXCEPT ![a] = @ \ {who}]
    /\ IF who = "writer" THEN UNCHANGED <<sock, users, conn>> ELSE Clean(a)
    /\ UNCHANGED <<pc, hello, src, out, table, opened, copier, stopVars>>

WatchEnds(a, who) ==
    /\ who \in watch[a]
    /\ Watched(a, who) # "up"
    /\ watch' = [watch EXCEPT ![a] = @ \ {who}]
    /\ Clean(a)
    /\ UNCHANGED <<pc, hello, src, out, table, opened, copier, stopVars>>

(* The listener has been closed: the handler's read fails and it returns.  *)
ListenerClosed(a) ==
    /\ pc[a] = "relay"
    /\ ~sock[a].listener
    /\ Return(a)
    /\ UNCHANGED <<hello, watch, src, out, table, opened, copier, stopVars>>
-----------------------------------------------------------------------------
(* Datagrams.  The handler of an association and the SS loop both look the *)
(* source up in the table, dial a packet connection if it is absent, and   *)
(* write to it.                                                            *)

(* The SS loop returns: every clean it has deferred runs, which closes the *)
(* packet connection of each datagram it has forwarded.  Its listener is   *)
(* left open.                                                              *)
SsReturn ==
    /\ To(SS, "done")
    /\ conn' = Close({c \in Conns : conn[c] = "deferred"})
    /\ UNCHANGED <<sock, users>>

(* A faulty guard: the handler does not look at where a datagram is from.  *)
AcceptsAny(p, s) == TRUE

(* An association takes only datagrams of its client's host.               *)
Accepts(p, s) == p # SS => HostOf[s] = HostOf[p]

Listening(p) == pc[p] = "relay" /\ IF p = SS THEN ssListens ELSE sock[p].listener

(* A datagram whose source has a packet connection in the table, whoever   *)
(* opened it.  If it is closed the write ends the handler; another error   *)
(* is only logged.                                                         *)
Reuse(p, s) ==
    /\ Listening(p) /\ Accepts(p, s) /\ table[s] # Nil
    /\ IF p = SS
       THEN /\ IF conn[table[s]] # "closed"
               THEN conn' = [conn EXCEPT ![table[s]] = "deferred"] /\ UNCHANGED <<pc, sock, users>>
               ELSE SsReturn
            /\ UNCHANGED out
       ELSE /\ out' = [out EXCEPT ![p] = table[s]]
            /\ IF conn[table[s]] # "closed" THEN UNCHANGED <<pc, sock, users, conn>> ELSE Return(p)
    /\ UNCHANGED <<hello, watch, src, table, opened, copier, stopVars>>

(* A datagram whose source has none: the lookup, and then the dialling,    *)
(* which the other handlers may overtake.                                  *)
Miss(p, s) ==
    /\ Listening(p) /\ Accepts(p, s) /\ table[s] = Nil
    /\ To(p, "out")
    /\ src' = [src EXCEPT ![p] = s]
    /\ UNCHANGED <<assocVars, out, connVars, stopVars>>

(* A packet connection nothing refers to any more.                         *)
Unused(c) ==
    /\ conn[c] = "closed"
    /\ copier[c] = "off"
    /\ \A d \in Conns : copier[d] # c
    /\ \A s \in Srcs : table[s] # c
    /\ \A a \in Assocs : out[a] = c => pc[a] = "done" /\ watch[a] = {}

(* The connection is dialled and entered, its copier is started, and the   *)
(* datagram is written to it.                                              *)
DialUDP(p) ==
    /\ pc[p] = "out"
    /\ \E c \in Conns : Unused(c)
    /\ LET c == CHOOSE c \in Conns : Unused(c) IN
          /\ out' = IF p = SS THEN out ELSE [out EXCEPT ![p] = c]
          /\ table' = [table EXCEPT ![src[p]] = c]
          /\ conn' = [conn EXCEPT ![c] = IF p = SS THEN "deferred" ELSE "open"]
          /\ opened' = [opened EXCEPT ![c] = [by |-> p, for |-> src[p]]]
          /\ copier' = [copier EXCEPT ![c] = IF p = SS THEN c ELSE "start"]
    /\ src' = [src EXCEPT ![p] = Nil]
    /\ To(p, "relay")
    /\ UNCHANGED <<hello, sock, users, watch, stopVars>>

(* Dialling fails.  The association goes on with the next datagram; the SS *)
(* loop, which also dials a parent and shakes hands here, returns.         *)
DialUDPFails(p) ==
    /\ pc[p] = "out"
    /\ src' = [src EXCEPT ![p] = Nil]
    /\ IF p = SS
       THEN SsReturn /\ UNCHANGED out
       ELSE /\ To(p, "relay")
            /\ out' = [out EXCEPT ![p] = Nil]
            /\ UNCHANGED <<sock, users, conn>>
    /\ UNCHANGED <<hello, watch, table, opened, copier, stopVars>>

(* The loop ends with the first datagram that the local cipher or the      *)
(* parser rejects, and when its listener is closed.                        *)
SsEnds ==
    /\ pc[SS] = "relay"
    /\ SsReturn
    /\ UNCHANGED <<hello, watch, src, out, table, opened, copier, stopVars>>

(* The parent connection the SS loop dialled for a packet connection is    *)
(* lost: its goroutine closes the packet connection.                       *)
SsParentLost(c) ==
    /\ conn[c] # "closed"
    /\ opened[c].by = SS
    /\ conn' = Close({c})
    /\ UNCHANGED <<pc, assocVars, src, out, table, opened, copier, stopVars>>

(* An association's copier starts.  It reads the variable outUDPConn only  *)
(* now: by then it may hold the connection of a later source, or none.     *)
(* (The SS loop has a variable of its own for each datagram.)              *)
CopyStart(c) ==
    /\ copier[c] = "start"
    /\ LET held == out[opened[c].by] IN
       copier' = [copier EXCEPT ![c] = IF held = Nil THEN "nil" ELSE held]
    /\ UNCHANGED <<pc, assocVars, src, out, table, conn, opened, stopVars>>

(* A faulty variant: the entry is left behind.                             *)
CopyEndKeeps(c) ==
    /\ copier[c] \in Conns \cup {"nil"}
    /\ copier' = [copier EXCEPT ![c] = "off"]
    /\ UNCHANGED <<pc, assocVars, src, out, table, conn, opened, stopVars>>

(* RunUDPCopy returns: its connection was closed or refused, an SS copier  *)
(* has waited for five seconds, or the listener it writes to was closed; a *)
(* copier of no connection panics at its first read, and the pool          *)
(* recovers.  The deferred Remove takes the source's entry out, whichever  *)
(* connection it holds; the packet connection is not closed.               *)
CopyEnd(c) ==
    /\ copier[c] \in Conns \cup {"nil"}
    /\ copier' = [copier EXCEPT ![c] = "off"]
    /\ table' = [table EXCEPT ![opened[c].for] = Nil]
    /\ opened' = IF conn[c] # "closed" THEN opened ELSE [opened EXCEPT ![c] = Nobody]
    /\ UNCHANGED <<pc, assocVars, src, out, conn, stopVars>>
-----------------------------------------------------------------------------
(* The client or the parent of an association goes away.                   *)
Hangup(a, end) ==
    /\ pc[a] \in Active
    /\ sock[a][end] = "up"
    /\ sock' = [sock EXCEPT ![a][end] = "lost"]
    /\ UNCHANGED <<pc, hello, users, watch, src, out, connVars, stopVars>>

(* Stop closes the connections in userConns that are net.Conns, which the  *)
(* parents' entries are not, and the packet connections in the table; the  *)
(* SS loop's listener is one of these.                                     *)
Stop ==
    /\ ssListens
    /\ ssListens' = FALSE
    /\ stopped' = {a \in Assocs : "client" \in users[a]}
    /\ sock' = [a \in Assocs |-> [sock[a] EXCEPT !.in = IF "client" \in users[a] THEN "closed" ELSE @]]
    /\ conn' = Close({table[s] : s \in Srcs})
    /\ UNCHANGED <<pc, hello, users, watch, src, out, table, opened, copier>>

Handle(a) ==
    Dial(a) \/ HandshakeSocksParent(a) \/ ListenerClosed(a) \/ DialUDP(a) \/ DialUDPFails(a)

Watch(a) == \E who \in {"reader", "writer", "parentReader"} : WatchEnds(a, who)

Next ==
    \/ \E a \in Assocs : Greet(a) \/ Authenticate(a) \/ Request(a) \/ Drop(a) \/ Handle(a) \/ Watch(a)
    \/ \E a \in Assocs : \E who \in {"reader", "parentReader"} : ReadByte(a, who)
    \/ \E a \in Assocs : \E end \in {"in", "parent"} : Hangup(a, end)
    \/ \E p \in Procs, s \in Srcs : Reuse(p, s) \/ Miss(p, s)
    \/ DialUDP(SS) \/ DialUDPFails(SS) \/ SsEnds
    \/ \E c \in Conns : SsParentLost(c) \/ CopyStart(c) \/ CopyEnd(c)
    \/ Stop

(* Fair are the steps the runtime takes of itself: a dial and a handshake  *)
(* with a parent have a timeout, a read or write on a dead connection      *)
(* returns an error.  Parents are dialled directly: a socks5 proxy before  *)
(* them (the flag --proxy) is greeted without a deadline, see UserConns.   *)
Fairness == \A a \in Assocs : WF_vars(Handle(a)) /\ WF_vars(Watch(a))

Spec == Init /\ [][Next]_vars /\ Fairness
-----------------------------------------------------------------------------
(* With a center, no client is served that avoided the exchange of user    *)
(* and password, whatever methods it offers, and none to which the center  *)
(* did not say yes.  What the center was asked is another matter, see      *)
(* KnownPairPasses (server.go:103-186).                                    *)
AuthFirst ==
    [][\A a \in Assocs : pc[a] \notin Served /\ pc'[a] \in Served
          => ~hello[a].center.on \/ hello[a].accepted]_vars

(* A client that sends a pair its server was started with is not turned    *)
(* away for it: "username and password, multiple user repeat -a"           *)
(* (proxy/cmd/sps.go:59).                                                  *)
KnownPairPasses ==
    [][\A a \in Assocs : Authenticate(a) /\ hello[a].pair \in hello[a].center.pairs
          => pc'[a] = "request"]_vars

(* When proxyUDP has returned, nothing of the association is left: the     *)
(* client, the listener and the parent are closed and userConns has        *)
(* neither of its entries, even if a goroutine cleaned while the handler   *)
(* was still dialling the parent.                                          *)
EndReleases ==
    \A a \in Assocs : pc[a] = "done" =>
        /\ sock[a].in = "closed"
        /\ ~sock[a].listener
        /\ sock[a].parent \in {"none", "closed"}
        /\ users[a] = {}

(* An entry of udpRelatedPacketConns does not outlive the copiers that     *)
(* were started for its source: with the last of them it is gone, although *)
(* handlers overwrite each other's entries and copiers remove whatever     *)
(* they find.  A copier may be one that waits for as long as its packet    *)
(* connection is neither closed nor refused (socksudp.go:166-193,          *)
(* ssudp.go:93-130).                                                       *)
EntryHasCopier ==
    \A s \in Srcs : table[s] # Nil =>
        \E c \in Conns : copier[c] # "off" /\ opened[c].for = s

(* An association writes only to packet connections opened for its own     *)
(* client's host, by whichever handler, since the table is keyed by the    *)
(* full address and datagrams of other hosts are dropped.                  *)
OwnHost ==
    \A a \in Assocs : pc[a] \in {"relay", "out"} /\ out[a] # Nil /\ conn[out[a]] # "closed" =>
        HostOf[opened[out[a]].for] = HostOf[a]

(* An association ends once its client is gone, although the reader of the *)
(* client may have returned with a byte and only the writer finds out;     *)
(* once its parent is gone, if the parent has sent nothing after the       *)
(* handshake; and once Stop has found it in userConns, although Stop skips *)
(* the entry of the parent and does not know the listener                  *)
(* (socksudp.go:69-130, sps.go:325-340).                                   *)
AssociationEnds ==
    \A a \in Assocs :
        (\/ sock[a].in = "lost"
         \/ "parentReader" \in watch[a] /\ sock[a].parent = "lost"
         \/ a \in stopped) ~> pc[a] = "done"

=============================================================================
