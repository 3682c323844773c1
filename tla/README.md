# Verification of jocasta

jocasta is a suite of proxies in Go: TCP, UDP, HTTP(S), SOCKS5 and "SPS"
(protocol-converting) proxies, and a NAT traversal service ("mux") that joins
two nodes behind NATs through a bridge. This directory holds TLA+ models of its
concurrent core, TLC configurations that check them on small instances, and
TLAPS proofs that hold for instances of any size. `PROJECT.json` maps each
definition to the source lines it models.

## 1. Inventory of the system

| part | source | state | operations | what is hard |
|---|---|---|---|---|
| connection manager | `connection/manager.go` | concurrent map key -> connection or session | Get, Set, Upsert, Remove, Watch | Watch removes by key what it judged in a snapshot |
| mux server node | `services/mux/server.go` | mutex, one session field, a watcher per session, handlers | GetConn, handleTCP, handleUDP, watcher, Stop | shared session made on demand, closed by four parties |
| mux bridge | `services/mux/bridge.go` | two session tables, proxyStream goroutines | handler (negotiation), sweep, proxyStream, Stop | routing while nodes reconnect and are swept |
| mux client node | `services/mux/client.go` | session field, accept loop, stream goroutines | Start's loop, proxyTCP, proxyUDP, Stop | reconnecting for ever, a Stop that takes no lock |
| udp service | `services/udp/udp.go` | source -> connection, single flights, receivers | handle, receiver, idle sweep, Stop | creation, expiry and failure of one source's connection overlap |
| load balancer | `core/loadbalance/*.go` | upstreams (health, counts, times), selector state | Select, ConnsIncrease/Decrease, probes, Reset, Close | selectors shared by callers, overlapping probes, counting after dialling |
| stream binding | `core/binding/binding.go` | two copying goroutines | Proxy, Copy, RunUDPCopy | ends when either side does |
| tcp service | `services/tcp/tcp.go` | user connections, source -> local connection, single flights, receivers | handler, proxyStream2Stream, proxyStream2UDP, sweep, Stop | streams of one source share a local connection; a buffer goes back to its pool before it is used |
| http, socks, sps services | `services/{http,socks,sps}` | parts made by Start, table of user connections, ssh keepalive | Start, handle, retries, Stop | replacing and removing entries by the same address; a Start that fails half-way |
| UDP through sps | `services/sps/{socksudp,ssudp}.go` | associations, packet connections by source, copiers | proxyUDP, clean, Shadowsocks loop, Stop | four goroutines clean one association; two users of one table |
| socks5 protocol | `core/socks5` | per-connection negotiation | server and client handshakes | two-sided order of messages |
| domain filter | `core/filter` | domain -> counters, blocked/direct lists | Add, IsProxy, background probing | counters updated while read |
| framing | `core/captain`, `pkg/through` | none | length field, addresses, (stream) datagrams | encoding and decoding are inverse within bounds |
| dns resolver | `core/idns` | cache with expiry | Resolve | expired entries, concurrent refresh |
| basic auth | `core/basicAuth` | users, auth centre | Verify, retries | retry against the centre |
| dialing, listening, adapters | `connection`, `cs`, `pkg/ccs` | none of their own | dial, listen, wrap | one step that succeeds or fails, for the services |
| pools, command line, certificates, logging | `pkg/*`, `proxy/cmd`, `services/keygen` | process-wide | start-up | sequential I/O |

A server node accepts users, and opens a stream for each over one smux session
to the bridge. The bridge finds the client node with the same secret key, opens
a stream to it and joins both; the client node joins its stream with a local
service. The bridge and the udp service keep their tables in a connection
manager. Datagrams that enter at the udp service or at a server node travel in
frames on a stream to the tcp service or to a client node, which keeps one local
connection per source. The http, socks and sps services dial upstreams picked by
the load balancer; http and socks ask the domain filter first whether to use a
parent at all.

What makes the system correct, in one line each: a stream reaches the client of
its own key and no other; there is one session per server node, and it is not
lost while it works; a client node keeps trying until Stop, and Stop misses
nothing; a datagram travels on a connection of its own source and every
connection has a goroutine that closes it when it ends; connection counts are what is open;
each selection method picks what its name says; the health flag and the verdict
on a domain follow the host; the table of user connections is what Stop can rely
on; a datagram's answer goes back to its own source; an association that ends
leaves nothing; nobody is served before the handshake is over, and nobody who
has the right credentials is turned away.

## 2. Modules

| module | models | role |
|---|---|---|
| `ConnManager` | `connection/manager.go` | operators of the map and of one round of Watch, instantiated by its owners |
| `SessionSlot` | - | abstract specification: one session at a time, shared by all streams |
| `FlowTable` | - | abstract specification: a connection per source, created by one at a time and never replaced |
| `MuxServer` | `services/mux/server.go` (TCP) | server node; implements `SessionSlot` |
| `MuxBridge` | `services/mux/bridge.go` | bridge; instantiates `ConnManager` as the client table |
| `MuxClient` | `services/mux/client.go` (loop, TCP) | client node; implements `SessionSlot` |
| `UdpRelay` | `services/udp/udp.go` | udp service; instantiates `ConnManager` as the table of sources; implements `FlowTable` |
| `Captain` | `core/captain` | the frame of a datagram on a stream: length field, address, header, both ways |
| `StreamUdp` | `services/tcp/tcp.go` (UDP), `services/mux/client.go` (UDP) | far end of datagrams over streams; extends `Captain`; as the tcp service, implements `FlowTable` |
| `UserConns` | `services/{http,socks,sps,tcp}` | the four proxies of user connections, from Start to Stop |
| `Socks5` | `core/socks5`, `core/basicAuth` | decisions and outcomes of the SOCKS5 handshake |
| `SpsUdp` | `services/sps/{socksudp,ssudp}.go` | UDP associations and the Shadowsocks loop of sps; extends `Socks5` |
| `Filter` | `core/filter/filter.go` | the domain filter |
| `Upstream` | `core/loadbalance/upstream.go`, ticker of `loadbalance.go` | health of one upstream under overlapping probes |
| `Selectors` | `core/loadbalance/selector.go` | the selection methods as operators on a pool |
| `Balanced` | `core/loadbalance/loadbalance.go` and its callers | handlers that select, dial, count and proxy |
| `MCBalanced`, `MCUserConns`, `MCFilter`, `MCStreamUdp`, `MCSpsUdp` | - | symmetry sets and values of constants for TLC |
| `MuxNodesProofs` (server and client node), `MuxBridgeProofs`, `UdpRelayProofs`, `SelectorsProofs` (lemmas), `BalancedProofs`, `UserConnsProofs` (with `Filter` and `Upstream`), `StreamUdpProofs`, `SpsUdpProofs` | - | theorems |

Definitions called faulty in a comment are variants of the one that follows
them with a plausible mistake. No specification uses them: putting one in the
place of the original makes TLC report the property it is meant for.

### Conventions

- A goroutine is a function entry `pc[h]`; its labels are the points where
  another goroutine can act: taking a lock, calling the network, reading a
  field another goroutine writes. What happens between two such points is one
  action.
- A Go mutex is a variable that holds its owner. Map operations of the
  concurrent map are atomic (it locks a shard).
- Names of connections, sessions and goroutines are reused once nothing refers
  to them (`Unused`), so behaviours are unbounded although the sets are finite.
  `UserConns` and the client connections of `SpsUdp` are the exception: a
  connection is used once.
- smux is external. A session is *open*; *broken* when its connection has
  failed, at which OpenStream and AcceptStream fail while IsClosed is still
  false; *closed* after Close or when the keep-alive timer gives up.
- Time is abstract: a back-off, an idle time or a tick may pass at any moment.
- Payloads, addresses and protobuf messages are model values: no property
  depends on their bytes. Whether they parse is a nondeterministic choice. The
  exception is the frame of a datagram, whose fields `Captain` computes: what
  the receiver takes for the source is what it reads from the frame.

### Correspondence

**ConnManager.** `table` is the concurrent map, `scan` the pairs of `Items()`
not yet visited, `doomed` the pair whose callback said true and whose key has
not been removed yet. `Tick`, `Visit(k, verdict)` and `Delete` are one round of
`Watch` (manager.go:31-52). `Items()` copies shard by shard; one copy stands for
it, since no property compares two keys.

**MuxServer.** `mu` and `sessions` are the fields of `Server`; `conn[s]` is a
parent connection with the session on it; `watcher[s]` is the goroutine of
server.go:324-341, which looks at the *field* rather than at the session it was
started for. `Lock`, `Dial`, `DialFail`, `NegoOk`, `NegoFail`, `OpenStream`,
`OpenFail` are the steps and returns of `GetConn`; `Accept`, `Retry`, `GiveUp`,
`Handshake`, `HandshakeFail`, `ProxyEnd` those of `handleTCP` and
`dialThroughRemote`. A negotiation that the bridge refuses leaves its connection
*abandoned*: that return does not close it. `StopCancel`, `StopTest`,
`StopRead`, `StopClose` are the steps of `Stop`, which reads the field without
the mutex, once to test it and once more to close what it holds; when a watcher
clears it in between, the call on nil ends the process (`StopCrash`, the `End`
of `SessionSlot`).

**MuxBridge.** `phase[c]` is where the handler of connection c is. A server's
session is stored in `serverSession` before its reply, a client's in
`clientSession` after it, as in the code. `Lookup`, `Open`, `OpenFail`, `Again`,
`Retry`, `GiveUp`, `ProxyEnd` are `proxyStream`; `SweepTick`, `SweepVisit`,
`SweepDelete` are the Watch of NewBridge. The guard of `ServerNego` states what
TCP ensures: two working connections have different remote addresses. Stop
cancels, closes the listener (`StopListen`) and then closes one table after the
other; connections are accepted until the second of these.

**MuxClient.** `loop` is the goroutine of `Start`; `Store` and `Check` are
apart, because `Stop` may run between storing the session and looking at the
context. The test of the field in `Stop` and the read that follows it are one
step: the field is never set back to nil here. A stream whose request does not
parse is left as it is until its session ends (`HandFail`).

**UdpRelay.** `single[s]` is the flight of singleflight for source s; `Return`
hands its result to all handlers waiting for it. `SetItem` stores the
connection, and `StartReceiver` starts its receiver: the sweep may close the
connection in between. `recv[c]` is the receiver
goroutine, whose deferred function removes the source (`ReceiveFail`) and then
closes the connection (`ReceiverClose`). Both kinds of parent (stream and udp)
have these steps; where only one can fail, the failure is a choice.

**Captain.** `DataLen` and `ParseDataLen` are the length field of one to three
bytes, computed as sequences of byte values; `Written` and `AddrType` are what
an address becomes when it is written (an IPv4 address in IPv6 form is written
as IPv4, and the length of a name in one byte); `Header` and `Parse` are the
frame. A frame whose fields do not fit what the writer meant reads as out of
step.

**StreamUdp.** `kind` chooses the tcp service or the client node, which differ
in single flights, in what a failing write does and in how a receiver finds its
connection: that of the client node looks the source up when it starts (`LocalStart`
reads `udpConns`, not the connection it was started for). `Open` and
`PeerClose` are the near end; `Read`, `ReadFail`, `Dial`, `DialFail` the
handler; `LocalFail`, `LocalClose` the receiver's deferred calls; `Sweep` and
`SweepDelete` the Watch of the table. A handler looks at the
context before it reads: one that waits in the read while Stop runs still serves
what it gets.

**UserConns.** `svc` is which of the four services is started, how it reaches
targets, and whether a socks5 proxy stands before its parents.
`InspectConfig`, `InitService`, `Listen` are Start, with every return it can take; `part` is what it has made. `Accept`, `Request`, `Dial`, `Greet`
(the SOCKS5 handshake with a parent or a proxy, which is part of the dial and has
no deadline), `Wake`, `Ask`, `Register`, `CopyEnd`, `Release`, `Close` are a
handler; where the services differ, the action is a disjunction of `Http...`, `Socks...`, `Sps...`
and `Tcp...` definitions. `StopCancel`, `StopParts`, `StopUsers` are Stop, which
http and socks also run when Start fails; a Stop that calls a method on a part
that was never made ends in phase *crashed*. `Probe`, `Redial`, `Tick`,
`KeepaliveEnds` are the goroutine that keeps the ssh client alive.

**Socks5, SpsUdp.** `Greet`, `Authenticate`, `Request` are the server's
handshake, decided by `SelectMethod` and `Verify`. A center has pairs of its own
and may ask a URL; `Verified` is the pair it is asked about, which is not the one
that was sent. `Without` removes by the client's address, as the code does, and
so may remove the entry of a namesake. `Dial` and
`HandshakeSocksParent` go to the parent; `watch[a]` are the goroutines that
watch the client (a reader and a writer) and the parent, each of which runs
`Clean` at the end. `Reuse`, `Miss`, `DialUDP` are one datagram, for an
association or for the Shadowsocks loop; `copier[c]` is the goroutine that
carries answers back, which reads the variable `outUDPConn` only when it starts.

**Filter.** `cache` is the map of items, `probes` the copies of items that
running probes work on: a probe stores its copy when it ends, whatever the cache
has by then. `up` is the environment. An age counts in steps around
`aliveThreshold`.

**Upstream.** Each atomic operation of `healthCheck` is a step. `evidence` is a
history variable for the properties.

**Selectors, Balanced.** Methods that draw at random yield the set of positions
they may return. `RoundRobin` is one step per upstream it looks at, because its
counter is shared; the number of its values is the constant `RobinValues`.
The loop of a method is a recursive function of the number of upstreams it has
looked at, and the method is what the loop holds at the end of the pool.
The stateless methods are one step per call: each upstream is looked at once,
and its health may change at any time. A call of `Weight` has a beginning
(`SelectWeight`) and an end. If no other call is under way between the two, the
end is what the method computes (`WeightAlone`). Calls that overlap read and
write `index` and `curWeight` under a read lock, that is, unsynchronised: they
leave and return any of the values in `Races` (`WeightRaced`). `picks`, a history
variable, has the picks since the last such call.

## 3. What is checked

| run | module, configuration | states | properties |
|---|---|---|---|
| `mux_server` | MuxServer, `MuxServer.cfg` | 67,815 | SharesOneSession (refinement); HandlerGetsThrough, ClosedSessionIsDropped, StopEndsGoroutines |
| `mux_bridge` | MuxBridge, `MuxBridge.cfg` | 241,184 | RoutedByKey, TablesHoldUsable; LostOnlyInRace, ServerLostToNamesake, StreamSettles, ClosedClientIsSwept |
| `mux_client` | MuxClient, `MuxClient.cfg` | 70,265 | SharesOneSession (refinement); StopEndsAll, KeepsConnecting |
| `udp_relay` | UdpRelay, `UdpRelay.cfg` | 81,908 | OpenHasCloser; OneFlowPerSource (refinement), LostOnlyToNamesake, HandlerEnds, IdleIsClosed |
| `upstream` | Upstream, `Upstream.cfg` | 8,112 | HealthFollows, RunOfResults |
| `balanced` | MCBalanced, `Balanced.cfg` | 442,592 | TypeOK, CountsConns, PicksByMethod, TurnsAreFair |
| `user_conns` | MCUserConns, `UserConns.cfg` | 206,266 | TableInStep, EndedHasReleased; HandlerEnds, StopEnds |
| `filter` | MCFilter, `Filter.cfg` | 119,328 | ListsDecide; VerdictFollows, VerdictLasts |
| `stream_udp` | MCStreamUdp, `StreamUdp.cfg` | 365,252 | FramesInStep, OwnSource, OpenHasReceiver; HandlerEnds |
| `sps_udp` | MCSpsUdp, `SpsUdp.cfg` | 310,863 | EndReleases, EntryHasCopier, OwnHost; AuthFirst, AssociationEnds |

All hold. Of the type invariants, which are all proved (section 4), the runs repeat
only that of `Balanced`; nor do they repeat the invariants of the server node and
of the client node that serve as lemmas of a property in the table,
SentForOwnSource of `UdpRelay`, which says nothing of one source, its
SetNeverOverwrites, which follows from its OneFlowPerSource, and
SourcesApart, NeverOverwritten and OneFlowPerSource of `StreamUdp`.

What the runs show, where the name of a property does not say it:

- `mux_client`: the node has one working connection at a time, the next one is
  made only when it is gone and under a name no stream still has, and a stream
  begins only on one that works: the same abstract slot as that of the server
  node, although it is filled by a loop, not on demand.
- `mux_bridge`: a client session that is not closed with it loses its key in one
  way only: a sweep has found an older session of the key closed and removes the
  key late. `mux_bridge_client` (below) shows that this does happen. A server
  session is lost in one way too: an older connection of its address had failed,
  and its handler ends late.
- `udp_relay`: however handlers of a source interleave, one of them creates a
  connection, only while there is none, and no step replaces an entry. An open
  connection leaves the table when its receiver ends, or by the Remove of the
  receiver or the sweep of another connection of its source.
- `user_conns`: whatever displaces, releases, retries, fails or stops, userConns
  has no connection whose handler let go of it, and a working connection is
  missing only after the deferred Remove of another one of the same address;
  socks and tcp leave no target open; a Start of http, socks or tcp that fails
  leaves nothing running; no handler outlives its user, unless a parent or a
  proxy leaves the SOCKS5 handshake unanswered for ever; Stop ends what is in the
  table, and the keepalive goroutine, unless the ssh server does so with its own.
- `balanced`: the counts are right; each method picks what it is for; the shares
  of the weighted scheduler are exact over every cycle of calls that do not
  overlap, whatever failures, and calls that did overlap, came before.
- `filter`: the files decide for every domain under one of their entries; the
  verdict on any other follows a target that stays up or stays down, although
  probes overlap and overwrite each other; a settled verdict lasts for
  `aliveThreshold`.
- `stream_udp`: frames are read back at every boundary of the length field; a
  datagram is written only to a connection whose answers go to its own source,
  also when several streams carry one source; no local connection of the tcp
  service is without a receiver; no handler outlives its stream.
- `sps_udp`: with a center of credentials nobody is served to whom it did not say
  yes; an association that ends has closed and unregistered everything, although
  any of four goroutines may clean at any time; it ends when its client or Stop
  ends it, and when its parent does while that has sent nothing after the
  handshake; an entry of the shared table does not outlive its copiers, and an
  association writes only to connections of its own client's host.

Two further runs state what a comment and the help text of a flag say of the
code, and TLC finds a behaviour of the code that disagrees.

| run | property | what happens |
|---|---|---|
| `mux_bridge_client` | ClientIsFound | The sweep copies the table, a client with a key already in it registers and its predecessor is closed, the sweep finds the copied session closed and removes the *key*: the new client is connected, is found by nobody and is not told so. |
| `sps_auth` | KnownPairPasses | The server was started with a pair of user and password (`-a`, proxy/cmd/sps.go:59) and no URL, and a socks client sends that pair. The handshake keeps it in `pAuth` and asks the center about `user` and `password`, fields nothing assigns (socks5/server.go:158): the client is refused. |

### Behaviours to know of

The models contain these, no property forbids them, and the properties above are
stated so that they hold in their presence.

- *udp service*: the sweep's Remove, or that of an old receiver, can take a newer
  connection of the source out of the table; it works on, out of reach of the
  sweep and of Stop, until it fails. LostOnlyToNamesake says that there is no
  other way.
- *round robin*: two Selects advance one counter; one of them can look at
  upstreams that are down each time and return nil although another was up
  throughout. At the wrap of the counter one upstream can be looked at twice.
- *weight*: one call makes one pass at one or two values of the current weight;
  while the heavy upstream is down it can return nil although a lighter one is
  up. Later calls find it. Concurrent calls race on two fields: they may repeat
  or skip turns, and the shares of a cycle in which calls overlap are not those of
  the weights.
- *limits*: Select tests MaxConnections before the caller dials and counts; the
  limit can be exceeded. No service of the repository sets it. After a Reset
  counts can be negative, and -1 also means "none yet" (selector.go:75).
- *mux bridge*: a negotiation that ends after Stop stores a session Stop has not
  seen. The late end of a server's handler can take a newer session of its address
  out of serverSession, where Stop does not find it.
- *server node*: Stop can crash, when a watcher clears the session between its
  test and its call of Close (server.go:231-232).
- *handshakes without a deadline*: the SOCKS5 handshake with a parent or a proxy
  (socks.go:483-489, css.go:46-53) and the ssh handshake of a redial
  (socks.go:614-623, http.go:597-605) wait for as long as the peer stays
  connected, also after Stop.
- *client node*: two streams of one source can both find no local connection; the
  second one stored hides the first, which stays open and unread until its
  handler ends. A receiver can remove the key of a newer connection.
- *http, sps*: the connection to a target is not closed by the handler, but left
  to the copy that still reads from it (http.go:492). A failed Start of sps
  returns the error and leaves earlier listeners and the balancer running
  (sps.go:303, 316).
- *http, socks*: Stop of a Start that failed early calls methods of parts that
  were never made (http.go:369, socks.go:370). The error of a direct file that
  cannot be read is logged as a warning and returned all the same (http.go:226).
  A redial of the ssh client that ends after Stop stores a client nobody closes.
- *sps associations*: a copier may start with the connection of a later source
  (socksudp.go:173); a connection found in the table may be one of an association
  that ended, and writing to it ends this one; clean closes only the last packet
  connection (socksudp.go:43); the listener of an association whose reply fails
  stays open (socks5/server.go:221). A copier reads without a time-out from a
  packet connection (socksudp.go:173), so that an entry of the table can stay for
  as long as the other end is silent; one that starts when outUDPConn is nil
  panics, which is recovered, and removes the entry.
- *Shadowsocks loop*: a datagram that cannot be read ends the loop (ssudp.go:78).
- Two comments do not say what their code does: filter.go:57 has `<` for `>=`, and
  datalen.go:9 has 2097121 for 2097151.
- Not in the models: a pooled buffer that is used after it was put back
  (tcp.go:340), concurrent refreshes of one cached name (idns.go:60), the address
  of a filtered domain that is resolved once (filter.go:124), and the length of a
  domain that wraps in a byte (socks5/structs.go:296).

### Bounds

- *MuxServer*: 2 handlers and 2 sessions. One handler uses the session while the
  other makes, loses or retries; with a second session a closed one can still be
  in the field, watched or held by Stop while the next is made. MaxRetries is 1
  (10 in the code): one retry and one refusal to retry.
- *MuxBridge*: 2 connections at a time (server and client, a client and the one
  that replaces it, two servers of one address), 2 keys, 1 address, 2 streams;
  connections are reused, so that a run has any number of them.
- *MuxClient*: 3 sessions (the loop's, the field's and the one Stop holds may
  all differ), 2 streams.
- *UdpRelay*: 1 source, 2 handlers (the runner of a flight and one that waits), 2
  connections (one that ends and the next of its source). Sources meet nowhere but
  in the sweep, which takes them one by one. Safety was also explored once with 2
  sources and 3 handlers (364,000 states with symmetry).
- *StreamUdp*: 2 sources whose ports differ in the high byte only, 2 streams (of
  one source or of two), 2 local connections; the lengths on both sides of each
  boundary of the length field, the largest datagram, the largest length and the
  one above it.
- *UserConns*: seven configurations (each service; no parents, parents behind the
  balancer, an ssh server, a fixed parent; a socks5 proxy before the parents of http
  and of tcp; the ssh server with socks only, whose steps with it are those of
  http), 2 connections of one address, one retry. Tables of different
  addresses do not interact.
- *SpsUdp*: 1 association beside the Shadowsocks loop, which share the table; a
  source on the client's host and one on another; 2 packet connections. That
  associations do not disturb each other is proved, not checked.
- *Filter*: thresholds of 2, counts up to 3, 2 overlapping probes of a domain; 5
  domains: one of one label, which is in no table although a file has it; one under
  the direct file, one under the proxy file, one under both, and an entry itself.
- *Upstream*: thresholds of 2, so that one result is not enough; 2 overlapping
  probes. Counters stop at the thresholds, to which alone they are compared.
- *Balanced*: 3 upstreams of weights 4, 2, 2 (a gcd other than 1, a heavy one
  and two equal ones), at most 2 connections each, 2 handlers, one Reset, a
  round robin counter of 16 values, which wraps, and 3 does not divide 16. The
  pool is not empty.

### Fairness

Goroutines that can run do (weak fairness of their steps), tickers and
keep-alive timers fire, dialling and writing have time-outs and so end, one way
or the other. A negotiation ends in an answer or a failure of its connection:
the code sets no deadline there, and without this assumption a silent bridge
blocks `GetConn` with the mutex held (listed as a hazard). Taking the mutex in
`GetConn` has strong fairness: a Go mutex hands itself over to a waiter that has
starved for a millisecond. The end of the keepalive goroutine of `UserConns` has
strong fairness too: its select has the ticker and the context to choose from,
and Go chooses among ready channels at random. A handler of `UserConns` that
waits for the request is only required to move once its user is gone, and one that
waits in the SOCKS5 handshake with a parent or proxy is not required to move at
all while that connection is open (`Silent`); nor is the redial of the ssh client,
whose handshake has no deadline either. A receiver of the udp service may read for
ever from a connection that stays alive. Nothing is assumed of the environment's
choices: users need not
connect, send or leave, connections need not break or be accepted, datagrams
need not arrive, joined streams need not end, Stop need not be called. A proxied
stream ends only if one of its sessions does (`ProxyCut`).

Most models really stop: after Stop nothing is accepted any more, and when the
last goroutine has ended no step is left. `CHECK_DEADLOCK FALSE` is set for
those; for `Balanced`, `Upstream` and `Filter` TLC also checks that they never
get stuck.

## 4. What is proved

For every value of the constants that satisfies the named assumptions
(`ServerAssumption`, `BridgeAssumption`, `ClientAssumption`, `RelayAssumption`,
`BalancedAssumption`, `UserConnsAssumption`, `StreamUdpAssumption`,
`SpsUdpAssumption`): Nil and the names of program points are not members of the
other sets, the bounds are natural numbers, handlers of the balancer are finitely
many, services are of the kinds that exist, hosts are given for every source, and
the sources of datagrams are addresses as the runtime prints them (`Plain`: an
IPv4 address is not in IPv6 form, the text fits a length byte, the port 16
bits). The theorems on `Filter` and `Upstream` name their assumptions
(`FilterAssumption`, `ThresholdAssumption`) in the statement, because those
modules are instantiated where they are proved about: thresholds are positive,
the filter's counters have room for them, and the entries of its files and the
domains asked for are not empty (`loadfile2ConcurrentMap` drops empty lines).

| theorem | statement |
|---|---|
| `MuxNodesProofs!TypeCorrect` | `Spec => []TypeOK` |
| `MuxNodesProofs!OneSession` | `Spec => []LiveSessionIsCurrent` |
| `MuxNodesProofs!Watched` | `Spec => []SessionIsWatched` |
| `MuxNodesProofs!MutualExclusion` | `Spec => [](CriticalSection /\ Ownership)` |
| `MuxNodesProofs!Refinement` | `Spec => SharesOneSession`, that is, `Slot!Spec` |
| `MuxBridgeProofs!Routing` | `Spec => []RoutedByKey` |
| `MuxBridgeProofs!Tables` | `Spec => []TablesHoldUsable` |
| `MuxBridgeProofs!LossIsARace` | `Spec => LostOnlyInRace` (an action property) |
| `MuxBridgeProofs!ServerLossIsANamesakes` | `Spec => ServerLostToNamesake` (an action property) |
| `MuxBridgeProofs!TypeCorrect` | `Spec => []TypeOK` |
| `MuxNodesProofs!ClientTypes` | `C!Spec => []C!TypeOK`, where `C` is `MuxClient` |
| `MuxNodesProofs!SingleConnection` | `C!Spec => []C!OneConnection` |
| `MuxNodesProofs!StopIsSeen` | `C!Spec => []C!StopReachesLoop` |
| `MuxNodesProofs!LoopEndsByStop` | `C!Spec => []`(if the loop has ended, Stop was called and no connection works) |
| `MuxNodesProofs!ClientRefinement` | `C!Spec => C!SharesOneSession`, that is, `C!Slot!Spec` |
| `UdpRelayProofs!TypeCorrect` | `Spec => []TypeOK` |
| `UdpRelayProofs!OwnSource` | `Spec => []SentForOwnSource` |
| `UdpRelayProofs!Closers` | `Spec => []OpenHasCloser` |
| `UdpRelayProofs!NoOverwrite` | `Spec => SetNeverOverwrites` (an action property) |
| `UdpRelayProofs!LossIsANamesakes` | `Spec => LostOnlyToNamesake` (an action property) |
| `UdpRelayProofs!NobodyWaitsInVain` | `Spec => []WaitsForRunner` |
| `UdpRelayProofs!Refinement` | `Spec => OneFlowPerSource`, that is, `Flows!Spec` |
| `BalancedProofs!Accounting` | `Spec => []CountsConns` |
| `BalancedProofs!BalancedTypes` | `Spec => []TypeOK` |
| `BalancedProofs!Picks` | `Spec => []PicksByMethod` |
| `BalancedProofs!FairTurns` | `Spec => []TurnsAreFair` |
| `UserConnsProofs!TypeCorrect` | `Spec => []TypeOK` |
| `UserConnsProofs!UserTable` | `Spec => []TableInStep` |
| `UserConnsProofs!Released` | `Spec => []EndedHasReleased` |
| `UserConnsProofs!FilterTypes` | `F!FilterAssumption /\ F!Spec => []F!TypeOK`, where `F` is `Filter` |
| `UserConnsProofs!FilterLists` | `F!FilterAssumption /\ F!Spec => []F!ListsDecide` |
| `UserConnsProofs!FilterVerdict` | `F!FilterAssumption /\ F!Spec => F!VerdictLasts` (an action property) |
| `UserConnsProofs!UpstreamTypes` | `U!ThresholdAssumption /\ U!Spec => []U!TypeOK`, where `U` is `Upstream` |
| `UserConnsProofs!UpstreamRuns` | `U!ThresholdAssumption /\ U!Spec => U!RunOfResults` (an action property) |
| `StreamUdpProofs!TypeCorrect` | `Spec => []TypeOK` |
| `StreamUdpProofs!FramingCorrect` | `Spec => []FramesInStep` |
| `StreamUdpProofs!OwnSources` | `Spec => []OwnSource` |
| `StreamUdpProofs!Received` | `Spec => []OpenHasReceiver` |
| `StreamUdpProofs!SourcesStayApart` | `Spec => SourcesApart` (an action property) |
| `StreamUdpProofs!EntriesKept` | `Spec => NeverOverwritten` (an action property) |
| `StreamUdpProofs!NobodyWaitsInVain` | `Spec => []WaitsForRunner` |
| `StreamUdpProofs!Refinement` | `Spec => OneFlowPerSource`, that is, `Flows!Spec` |
| `SpsUdpProofs!TypeCorrect` | `Spec => []TypeOK` |
| `SpsUdpProofs!AssociationReleased` | `Spec => []EndReleases` |
| `SpsUdpProofs!EntriesCopied` | `Spec => []EntryHasCopier` |
| `SpsUdpProofs!HostsApart` | `Spec => []OwnHost` |
| `SpsUdpProofs!Authenticated` | `Spec => AuthFirst` (an action property) |

Each proof has the same shape: an inductive invariant `Inv`, a lemma that it
holds initially, a lemma that every step preserves it (one step per action), and
a temporal step. The invariants and what they are needed for:

- *MuxServer*: TypeOK, CriticalSection, Ownership, LiveSessionIsCurrent and
  SessionIsWatched are inductive together. A session is stored only into an
  empty field, because its maker has held the mutex since the test; a closer
  never closes a connection that is just becoming a session, because neither
  the field nor Stop's copy names a connection under negotiation. The refinement
  maps the live sessions and the streams to the abstract slot.
- *MuxBridge*: RoutedByKey needs `FiledByKey` (sessions are stored under their
  own key) and `References` (a connection some stream refers to does not
  negotiate again). LostOnlyInRace needs `Swept`: what the sweep has copied stays
  the registered session of its key, and what it is about to remove is closed.
  ServerLostToNamesake follows from the types alone, by the two steps that change
  the table.
- *MuxClient*: StopReachesLoop needs `Handover`: a loop that waits for streams
  has looked at the context after storing its session, so if Stop has read the
  field since, it has read that session. The refinement maps the connections that
  are dialed or open to the live sessions, and needs `StreamsBegin` (a goroutine
  that waits for a stream is on no session).
- *UdpRelay*: `Flight` (whoever runs the function for a source is the recorded
  flight, and from its failed Get to its Set the table has nothing for the
  source) and `Sources` (table, handlers and receivers agree on whose
  connection it is). `Runners` (what single records is a handler inside the
  function of that source, and there is one for everybody who waits) is the safety
  half of HandlerEnds: nobody waits for a call that nobody runs. `Swept` (what the
  sweep copied is of the source it is copied under, and what it is about to remove
  it has closed) gives LostOnlyToNamesake. The refinement maps the handlers
  between their failed Get and their Set to the creations of FlowTable; `Flight`
  makes each of them the only one of its source.
- *Balanced, accounting*: CountsConns with the shapes of the variables. What
  Select returns plays no part: only that a handler keeps its address between the
  two calls.
- *Balanced, what a method returns*: an induction over the pool for each loop.
  The loop is a function defined by recursion, so first there is the lemma that
  the function does what its definition says (`RandomLoopSteps`,
  `LeastLoopSteps` and so on, from `LoopExists`), then an invariant of the loop:
  for LeastConn, that the sample holds exactly the upstreams seen so far whose
  value is the minimum. Induction itself is a lemma on a set of numbers
  (`Induction`), which follows from its least counterexample.
- *Balanced, weights*: with the gcd of the weights as the unit, the states of the
  scheduler form a circle of places: rows of the current weight, from the largest
  down to one unit, of N upstreams each. A turn moves to the next place
  (`TurnMoves`), and a place is a *hit* if the upstream's weight reaches the row.
  Upstream i has Weights[i] / gcd hits, so a cycle is the number of hits
  (`CycleIsHits`). While all are available a call goes to the next hit
  (`WeightHits`). The inductive invariant `Scheduled` says that the scheduler is
  at a place and that the picks in `picks` are an arc of hits that ends there: one
  more call adds one hit, and an arc of as many hits as there are is all of them,
  wherever it began. That is why earlier failures, and calls that overlapped,
  which leave the scheduler anywhere, do not change the shares of later cycles;
  that what a race leaves is a place too is the lemma `RacedPlaced`.
- *Balanced, round robin*: a call moves the counter to the first free position
  after it (`RobinFinds`); N positions in a row are different
  (`PositionsDiffer`), so as many calls as there are available upstreams pass
  each of them once, within N positions (`RobinEven`).
- *Balanced, types*: TypeOK with `Scheduled` and CountsConns: a handler dials an
  upstream of the pool because the methods return one, and the current weight is
  in its range because the scheduler is at a place.
- *Upstream*: `RunInv` says at every step of a probe how the counters relate to
  the run of results seen. While the flag is up, successCount is stuck at its
  threshold and failureCount is the length of the run of failures (`WhileUp`);
  while it is down it is the other way around (`WhileDown`).
- *Filter*: TypeOK with `FilterTable`: a domain that is cached or being probed is
  under no entry of a file, because Add is the only way in. That `Match`, which
  tries each suffix of the domain, finds what is under an entry is the lemma
  `MatchIsUnder`.
- *UserConns*: `SrcInv` (a handler has an address), `TargetInv` (a target exists
  only after a dial, and socks and tcp have closed it before they close the
  user's connection) and `StartInv` (which parts there are at each stage of Start
  and Stop; tcp makes its listener last).
- *StreamUdp*: the lemmas on frames first: `LengthRead` (the length field is read
  back, by cases on its one, two or three bytes), `AddressRead` and `FrameRead`.
  They make the source a handler reads the source of its stream, after which
  `TableInv`, `ItemInv` and `RecvInv` say that the table, a handler and a receiver
  hold local connections of their own source, and `TcpInv` that a handler of the
  tcp service that dials runs the flight of its source and found no entry. The
  lemma `Keep` does the actions that change no ownership at one go. `Runners` and
  the refinement of FlowTable are as for the udp service, from `TcpInv`; for the
  client node, which has no single flight, the abstract table stays empty and the
  refinement says nothing: what it can do to a source is listed above, under
  *Behaviours to know of*.
- *SpsUdp*: `AuthInv` (who has got to the request has the center's yes, or there is
  no center), `SrcInv` (a
  handler dials for a source it accepts), `TableInv` (an entry whose connection
  is open was made for that source), `OutInv` and `CopierInv` (what an association
  and a copier that has not started yet can hold). EndReleases is inductive with
  them because the handler itself runs `clean` last.

### Only model-checked

- Liveness (HandlerGetsThrough, ClosedSessionIsDropped, StopEndsGoroutines,
  StreamSettles, ClosedClientIsSwept, StopEndsAll, KeepsConnecting, the
  HandlerEnds of three modules, IdleIsClosed, HealthFollows, StopEnds,
  VerdictFollows, AssociationEnds): proofs under fairness need ENABLED.

Every safety invariant, every action property and every refinement that a run
checks is also a theorem, except `ClientIsFound` and `KnownPairPasses`, which the
code violates.

## 5. What is not modelled, and the plan

Not modelled at all: byte transformations (compression, ciphers, rate limits),
sockets and TLS, the DNS cache, buffer and goroutine pools, flags, certificates,
logging, generated code. They are sequential or pure I/O, or hold data the models
abstract from, and enter the models as steps that succeed or fail.

Modelled in part:

- The UDP listener of the server node (`handleUDP`, `runUDPReceive`) is the
  environment of `StreamUdp` only: it opens and closes streams as it likes.
- The socks service's `udp.go` is not called by the service and is left out; its
  SOCKS5 negotiation is a library's and is one step.
- The byte layout of SOCKS5 requests and datagrams, and captain's datagram without
  a stream, which no service uses. The negotiation messages of captain and
  `pkg/through` are steps that succeed or fail.
- The files and the HTTP request of the credentials center; its verdict is
  modelled.
- Copying of bytes in the stream binding: a joined pair of connections ends when
  either side does.

Limits of what is modelled: which values a race of `Weight.Select` calls really
produces (any in range); the address-by-address copy of `Items()`; a balancer with
an empty
pool, and pools that Reset gives other addresses; ssh dials that answer after
their time-out.

What could be added:

1. *MuxTunnel*: server node, bridge and client node composed over a network that
   may lose connections; the abstract specification is a pipe between a user and
   the local service of the same key.
2. The server node's UDP listener, with its table of tunnels, composed with
   `StreamUdp`.
3. The DNS cache under concurrent refresh.
4. Who holds a pooled buffer.
