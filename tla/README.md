# Ironhide in TLA+

Ironhide (`src/`) is the proxy at the two ends of a service function chain. As
an **ingress** it accepts TCP connections and UDP datagrams from clients, files
each flow in its own maps and in *roulette* (a remote HTTP service), puts an SFC
header before the packet and sends it to the first function of the chain; when
an answer comes back from the chain it finds the client again and delivers it.
As an **egress** it takes the packets that leave the chain, sends them to their
destination and returns to the chain what the destination answers.

This directory models the program's concurrent core, checks it with TLC and
proves its main invariants with TLAPS. Paths below are relative to `src/src/`.

## 1. Inventory

| component | state | operations | talks to |
|---|---|---|---|
| `endpoint/endpoint.cpp` Endpoint | `connection_map`, `map_to_remote`, static `classifier_`, `roulette_` | `add_entry`, `update_entry`, `delete_entry`, `retrieve_connection_2` | roulette (`DBQuery`) |
| `endpoint/ingress.cpp` Ingress | locals of each thread | `manage_entering_tcp_packets`, `manage_entering_udp_packets`, `manage_pkt_from_chain`, `start` | Endpoint, Classifier, DBQuery, ClientUDP, client sockets |
| `endpoint/egress.cpp` Egress | locals of each thread | `manage_pkt_from_chain`, `manage_exiting_tcp_packets`, `manage_exiting_udp_packets`, `start` | Endpoint, Classifier, DBQuery, ClientTCP, ClientUDP, raw sockets |
| `endpoint/connectionentry.cpp` | six constant fields | `operator==`, `operator<` | keys of both maps |
| `classifier/` | `sfc_map`, written by every call | `classify_pkt` | Endpoint's threads |
| `db/dbquery.cpp` | roulette's address; one curl handle per call | `create_entry`, `update_endpoint`, `delete_entry`, `get_route_list`, `get_entry` (unused); `Query` and its `Builder` | roulette over HTTP |
| `server/` ServerUDP, ServerTCP | the server's socket, `stopped_` | `run`, `stop` (unused), signal handlers | starts a detached thread per datagram or connection (`GO_ASYNC`) |
| `server/utils/threadpool.h`, `asynctaskexecutor` | queue, `stop`, workers | `enqueue`, destructor | made by a static singleton; nothing submits to it |
| `client/` ClientUDP, ClientTCP | a socket | `send_and_wait_response`, `connect_to_server` | next hop, destination |
| `endpoint/utils/`, `utils/packetutils` | none | SFC header, packet parsing and forging, checksum | all of the above |
| log, exceptions, `main`, Address, URLBuilder | none that matters | formatting, options | |

How they interact: three servers (ingress) or one (egress) each run a loop in a
thread and hand every datagram or connection to a **detached thread**. All these
threads share the two maps, the classifier's map and the descriptors of the
process, and **nothing is locked**. Everything hard about the program follows:

* interleavings of the steps of `add_entry`, `delete_entry` and
  `retrieve_connection_2` for one flow, and undefined behaviour where two of them
  use one `std::map` at the same time;
* requests to roulette in the middle of an operation, which may fail after they
  were applied; exceptions that leave a thread end the process;
* answers that are late, lost or duplicated, or that come after a restart;
* descriptors that are closed by one thread, kept as numbers by others, and given
  by the kernel to another connection;
* an `operator<` that is not an order of the keys of both maps;
* one key that two processes compute, from bytes in both byte orders, from text and
  from the SFC header, and one roulette entry that both write;
* arithmetic on headers: six bits for a ttl, a checksum whose carries are folded
  twice, a `strncpy` over binary data.

What makes each part right: a flow's answer goes to a client of that flow; the
entry of a flow leaves roulette when the flow is over; one failure does not reach
other flows; a thread that waits ends when what it waits for has happened; every
task of the pool is run once accepted; both ends compute one key for a flow; a
forged datagram is one that its destination accepts; a call gives back what it
opened, or there is a known reason why it does not. `PROJECT.json` lists the hazards line by
line, each with the properties that watch it.

## 2. Modules

| module | models | extends / uses |
|---|---|---|
| `ConnectionEntry` | the key and its two operators, exactly; `Crossing` keys and `Ordered` sets of keys | |
| `StdMap` | abstract: what the endpoint relies on, a finite map | |
| `StdMapTree` | libstdc++'s tree under that `operator<`, up to three nodes; refines `StdMap` on ordered keys | `ConnectionEntry`, `StdMap` |
| `Endpoint` | the two maps for keys of any kind, roulette, the steps of the operations, what the other half does to the maps, `Conflict` | `ConnectionEntry` |
| `UdpRelay` | abstract: what the ingress promises UDP clients | |
| `IngressUdp` | the UDP half of the ingress, signals and restarts; refines `UdpRelay` | `Endpoint`, `UdpRelay` |
| `IngressUdpDelete` | `IngressUdp` with a history variable: which calls of `add_entry` had returned when a `delete_entry` began | `IngressUdp` |
| `IngressTcp` | the TCP half of the ingress, sockets and descriptors | `Endpoint` |
| `EgressTcp` | the TCP half of the egress | `Endpoint` |
| `EgressUdp` | the UDP half of the egress and its raw sockets | `Endpoint` |
| `UdpProxy` | the composition: `IngressUdp`, the chain, `EgressUdp`, roulette | instances of both |
| `Codec` | headers, byte orders, the SFC header's fields, the forged datagram, the checksum | |
| `PacketJourney` | one packet through both endpoints and back, byte by byte, and the requests to roulette that name it | `Codec` |
| `RemoteCall` | abstract: what a request to roulette promises its caller | |
| `NetworkCalls` | the calls that use the network: requests with their curl handles, datagrams and connections with their loops over addresses, all on one table of descriptors; refines `RemoteCall` | `RemoteCall` |
| `ThreadPool` | the pool | |
| `…Proofs` | the theorems of a module (`CodecProofs`: of `PacketJourney` and `Codec`; `UdpProxyProofs`: of `ConnectionEntry`, `StdMapTree` and `UdpProxy`) | that module, TLAPS |
| `MC…` | instances for TLC | the module, TLC |

How they read. `pc[t]` is where thread `t` is; a packet, connection or reply
names the thread that handles it. An action is the code between two points where
another thread can be seen: an access to a shared map, a request to roulette, a
system call. `Die("exit")` is `exit(EXIT_FAILURE)`, `Die("terminate")` an
exception that leaves a detached thread, `Die("undefined")` (action `Race`) two
threads that use one map at once. After `undefined` nothing more is claimed; the
actions themselves give the outcomes in which the two accesses happen one after
the other.

How the levels fit. `NetworkCalls` justifies what a request, a datagram and a
connection may do in one step of the endpoint modules; `StdMapTree` justifies their
maps; `PacketJourney` justifies that a flow is a constant of a datagram which
both endpoints agree on; `UdpProxy` puts two endpoints together.

In `UdpProxy` a step is a step of `IngressUdp` or of `EgressUdp`, each with its own
variables; a reply's thread starts only for something the egress has returned, a
packet's thread only for a datagram the ingress has sent. `created` records the ids
that roulette has ever held.

In `PacketJourney` a packet and its headers are sequences of bytes; `U16` and
`U32` load an integer from memory, `Store` stores one, and `Swap` is `htons`. `stage` is how
far the packet is: `client`, `chain`, `destination`, `back`, `delivered`.
The program reads the last byte of an address as the highest of a
word, and that is what the model's words do.

Where a name is not the code's: `conn` is `connection_map`, `remote` is
`map_to_remote`, and each gives a flow the set of its records, which has one
element at most while `tangled` does not hold (below). The id of a roulette entry
is the thread that created it; `roulette` is the set of ids it holds, and `kept`
those it refused to delete or gave no id for. `registered` is the egress socket it
has for a flow. Two variables are history: `closed` in `IngressTcp` has `<<n, c>>`
when number `n` was closed while it stood for connection `c`, and `missed` in
`EgressUdp` says how often each datagram had come when a thread opened its socket. In `NetworkCalls`, `held` is
the process's table of descriptors, with the call that opened each, `handles` the
curl handles not given back, `inflight` the requests that roulette may still carry
out, and `outcome` what a call came to.

`Faulty:` operators stand before the definition they imitate. They are not part
of any specification: each is a plausible mistake in that definition, with which
TLC finds the property that `PROJECT.json` pairs it with violated.

### What is abstracted, and under which restrictions

* `Flows` is any set of keys, crossing ones included. On keys that `operator<` orders
  a map is a function (checked in `map` and proved: `MapImplemented`, and
  that the order is total). Two keys that cross are enough to lose one: the second
  is inserted on the left of the first, and find goes to the right. What a tree
  that two such keys have entered does depends on its shape; the endpoint modules
  keep of it only that it is `tangled`, for the rest of the run, and then let find
  miss a record that is there, `insert` and `operator[]` file a second one, and
  `erase` take neighbours or nothing. They never let find give another
  key's record, which is what remains true in `StdMapTree` (`FindIsSound`). The
  tree is finite and its descents end, so no access of one thread is undefined.
* Bytes are in `Codec` and `PacketJourney` only; elsewhere a flow is read from a
  header in one step. Packets are well-formed, are shorter than 65536 bytes (their
  length has 16 bits in the IP header, and `BUFFER_SIZE` is 65536), and have no IP or
  TCP options (`ihl = 5`, `doff = 5`). In the run the last byte of an address is below 128,
  because TLC's integers have 32 bits; the theorems have no such bound.
* `strncpy` is modelled by what it does: bytes up to the first zero, then zeros.
* Roulette: each request is applied or not and then answered `ok`, answered
  otherwise, or fails, and a failed one may be applied later (`NetworkCalls`). An
  `ok` may come with an empty id: then the entry is made and not remembered. An
  answer that is not JSON, or JSON of another shape, throws: the second kind of
  exception (`Json::LogicError`) is not one that the TCP threads catch.
  `update_endpoint` puts
  `INGRESS_T` in the path of a request that carries the egress endpoint; the model
  follows the body.
* In `NetworkCalls` a new descriptor is any free number, where the kernel gives
  the lowest: other threads' descriptors make that any of them. curl's connection
  is one descriptor, held until the handle is cleaned up.
* The ingress modules leave the ACK to the chain out (its result is ignored).
  Descriptors other than the client connections' (requests, servers) are the
  reason why accept may give any free number.
* In `EgressTcp` a descriptor is its connection, since the egress closes none. In
  `EgressUdp` all answers have the same size, below `BUFFER_SIZE`, so the receive
  loop ends after one datagram.
* A connection whose client has gone away may make `send` fail earlier or later
  than the model's socket: both results are there where the kernel may give both.
* TCP and UDP flows differ in the field `prt`, so the two halves of an endpoint
  share the maps and no key. Each half has a module of its own, in which the keys of
  the other are `Strangers`: they come to the maps and leave them (`Neighbour`), may
  cross the half's own keys, and are never looked at. A race with a thread of the
  other half is left out: it ends where `Race` does, in `undefined`. Bytes from a TCP
  connection that happen to name another protocol in the place of the IP header are
  looked up as UDP by the ingress (`PacketJourney`). Restarts are in `IngressUdp` and `UdpProxy`,
  those of the ingress only.

## 3. Runs

All bounds are constants of the modules: `MaxRestarts`, `MaxPackets`,
`MaxAnswers`, `MaxOthers`, `MaxCalls`, `MaxAddrs`, and the sizes of the sets of
threads, descriptors, packets and keys.

| run | instance | question |
|---|---|---|
| `udp_restart` | 2 datagrams of one flow from 2 addresses, 2 replies, 1 restart, 1 TCP key that crosses the flow's | does a lookup fail only for a reason (`MissIsExplained`), and is the ingress a relay (`ImplementsUdpRelay`) |
| `udp_live` | 3 datagrams of 2 flows, one of them unclassifiable, 2 replies, no restart | does the entry of a flow of one datagram stay within reach (`SoleEntryIsReachable`), and is it removed (`SoleEntryIsRemoved`) |
| `tcp` | 2 connections of 2 flows, 2 descriptors, 1 reply, 1 packet each, 1 UDP key | whose descriptor is it (`OwnDescriptor`, `ForeignDeliveryIsExplained`), and does a client that leaves leave no entry (`DisconnectCleans`) |
| `egress_tcp` | 3 packets of 2 flows, 2 connections, 1 answer each, 1 UDP key | are flows kept apart (`FlowIsKept`), and does a hang-up end every wait (`HangupEndsWait`) |
| `egress_udp` | packets of 2 flows whose keys cross, 1 TCP key, their answers, 1 datagram of another program | is an early answer kept (`NoAnswerMissed`), did what a thread takes for its answer come after it opened its socket (`ForeignAnswerIsExplained`), and does an answer end the wait (`AnswerEndsWait`) |
| `proxy` | 2 flows, 2 datagrams, 2 packets of the chain, 1 reply, 1 answer each, 1 restart of the ingress | did what a client gets go through both endpoints (`DeliveryHasItsRoundTrip`), and is the entry still there when the egress writes to it (`EntryAwaitsEgress`) |
| `journey` | some 300 packets: every pair of four ports with a low, a high and two like bytes; payloads that are empty, odd, with zeros, and 256 that between them need both carries; paths of 0, 1, 61 and 62 functions | is one key used throughout (`KeysAgree`, `EntryHasBothEnds`), and are ttl, checksum, lengths and payloads right (`TtlCoversPath`, `ForgedIsAccepted`, `PayloadsArrive`) |
| `calls` | 2 threads, one of them with 2 calls in a row, 3 descriptors, 2 addresses | does a call use and close only its own (`OwnDescriptor`), what is left open (`LeaksAreExplained`, `ConnectReturnsConnection`), what is a request's answer worth (`ImplementsRemoteCall`), does a call end (`CallsEnd`) |
| `map` | 2 values and each of four sets of 3 keys: one pair of hosts, growing, three clients, all crossing | is what is found the right record (`FindIsSound`), and on ordered keys is the tree a map (`ImplementsStdMap`, `FindIsComplete`) |
| `pool` | 2 workers, 3 tasks | `NoLostWakeup`, `DrainedWhenDestroyed`, `EveryTaskRuns`, `DestructorReturns` |

Why these bounds are enough. The interesting events need two threads of one flow
(an overwritten id, a duplicated answer, a doubled connection) or two connections
and a number that is closed and given again (by an answer's thread, or by a
connection's after a failed request), and one thread of another flow to interfere
with; the instances have them. Every run starts all threads in all orders, and
each request can fail in each of its ways. One reply is enough in `tcp` for a
stale number: a connection that failed has closed its descriptor, `accept` gives
the number again, and `connection_map` still has it. Two replies (a double close)
multiply the states by thirty; the two safety properties are proved for any
number of them. In `calls` a second call of a thread meets what its first one
left, three descriptors are one fewer than two connections take, so that sockets
also run out, and two addresses make the loops close one socket and open the next.
In `proxy` each flow has one datagram; datagrams of one flow meet in `udp_restart`.
Crossing keys are in `udp_restart` (a key of either half), `egress_udp` (two of one
half) and `map`. The other runs have ordered keys: what `tangled` allows would excuse
their properties, or multiply their states without bearing on them, and the safety
properties among them are proved for any keys.
A tree of three nodes is the smallest with a rotation and with a node on either
side of the root; at most two threads meet at a time on a map of more entries,
whose other nodes only lengthen the descent. The pool needs two workers and a
third task for a task that is queued while nobody waits. Symmetry: the replies of
`udp_restart`, whose properties are safety properties; the descriptors of `tcp` and
the connections of `egress_tcp`, of which neither the fairness nor a property names
one, so that a permutation of a fair behaviour is fair and the quotient has a fair cycle
wherever the specification has. Deadlock is not checked except in `map`, because a
process that has ended, whose clients are gone or whose calls are over does stop.

Two runs expect a **violation**: each states what a comment of the repository
says and TLC shows a behaviour of the code that does otherwise.

| run | comment | what the code does |
|---|---|---|
| `udp_delete` | "delete a connection to local map and to remote roulette" (`endpoint.h:81`) | a second datagram overwrites the id of the first: a `delete_entry` that begins after both `add_entry` have returned deletes the last id only |
| `tcp_packets` | packets are classified and sent to the chain (`ingress.h:29-31`) | after the first one that was sent, packets are dropped |

Other places where the code and its comments part. The models follow the code in
each, and the properties above are stated so that they hold with it:

* `connectionentry.cpp:26`: `operator<` is there "to use ConnectionEntry with
  std::map" (`connectionentry.h:47-48`) and is no order: of two connections whose
  keys cross, one is filed and not found again (`FindIsComplete`
  claims it for keys that do not cross, `FindIsSound` holds of all; in the endpoint
  modules `tangled`);
* `egress.cpp:92`: the thread "waits for the response" (`egress.h:53-54`) and takes
  the first UDP datagram of the host but the chain packet, which may be anybody's
  (`ForeignAnswerIsExplained` says that it came after the thread opened its socket);
* `classifier.cpp:10`: `sfc_map.at` throws for the type `DEFAULT` and the process
  ends, where `classifier.cpp:17` has "default chain" (`Classify`);
* `ingress.cpp:82`: a packet without a route leaves the loop without
  `delete_entry`, and the entry stays in roulette (`Route`);
* `ingress.cpp:230`: an answer's thread closes the descriptor and leaves its number
  in `connection_map` (`Close`), which later answers then use;
* `egress.cpp:281`: two packets of a flow that look it up before either has filed
  its connection open two (`Lookup`, `Connect`);
* `endpoint.cpp:69`: of two updates of a flow, roulette keeps the last and
  `connection_map` the first (`Update`, `Insert`);
* `egress.cpp:238`: a short read ends the wait; what the destination sends after it
  is read by the thread of a later packet, or by nobody (`Read`);
* `sfcutilities.cpp:14`: a path of 62 functions or more has a ttl that wraps in its
  six bits (`TtlCoversPath` claims shorter ones);
* `packetutils.cpp:132`, `egress.cpp:162`: `strncpy` replaces what follows a zero
  byte of a payload by zeros (`PayloadsArrive`);
* `dbquery.h:84`: a request that throws leaves its handle and its connection open,
  and `clienttcp.cpp:4` opens a socket that line 54 forgets (`LeaksAreExplained`).

### Fairness

Weak fairness for each thread that has begun (`FairSpec`): the operating system
schedules detached threads, and no thread holds a lock another needs. It covers
roulette's answer too: a request ends or fails. The code sets no timeout, so this
is an assumption on the network. Nothing is assumed of clients, of the chain or
of destinations: `Write`, `Leave`, `FromChain`, `Answer`, `Hangup` and the
kernel's choices may never happen; in `NetworkCalls` no thread has to begin a call
and roulette need not carry out a request that has failed. In `EgressUdp` a thread
in `recvfrom` goes on only once its socket has a datagram. A connection in the
backlog is accepted when there is a descriptor. In the pool each worker gets the
mutex in the end, a call that has begun goes on, tasks end, and spurious wake-ups
are never relied on.

## 4. Proofs

Every theorem is for all values of the constants under the named assumptions of
the modules, so for any number of threads, flows, descriptors, packets and
restarts. The assumptions say what the constants are: threads of different kinds
differ, a datagram has a flow and an address, a flow is a key (any: what the maps
do with crossing keys is in the models), a key is of one half, a packet is
well-formed, bounds are natural numbers.

| theorem | result | argument |
|---|---|---|
| `TypeCorrect` (seven modules), `MapTypeCorrect` | `Spec => []TypeOK` | one step per action; `TypeOK` alone is inductive, but in `IngressUdp`, where it needs that a map that is not tangled has one record of a flow at most (`OneId`) |
| `MissAlwaysExplained` | `[]MissIsExplained` | for any keys: that two that cross have met is one of the reasons. `MissIsExplained` speaks of a reply that has looked up already; the invariant adds what a map that is not tangled holds for every flow that was sent and not cleaned, that a datagram past `insert` is in the map or its flow was cleaned, and that what was sent was inserted in this run or is of a dead thread |
| `RelayImplemented` | `Spec => UdpRelay` | for any keys, without an excuse: a tangled map loses answers and misdelivers none. Each step is a step of the relay or a stutter; needs that a datagram is sent by its own thread once, and that an address in the map, or in a reply's hands, is that of a known datagram of the flow |
| `SoleEntryReachable` | `[]SoleEntryIsReachable` | for any keys, as long as no two that cross have been in a map together (then the claim is lost, and says so). An entry exists only for a datagram whose thread has asked for it; no reply of a flow runs before that thread has remembered the id (`RepliesAfter`); once a reply is about to forget the id, roulette has deleted the entry or refused to |
| `DescriptorOwned`, `ForeignDeliveryExplained` (`IngressTcp`) | who uses which descriptor | a number in a thread's hands or in `connection_map` was that of its flow when it was filed; it changes owner only after a close of that number while it stood for that connection, which `closed` keeps (`StillOwn`, `ForeignIsClosed`), and whoever closed it has ended (`ClosedByOne`, `ClosedUnder`) |
| `FlowsKept` | `[]FlowIsKept` | every connection in a thread's hands and in the map was opened for the flow |
| `AnswersSeen` | `[]NoAnswerMissed` | a thread listens before it sends, and nothing is answered before it was sent |
| `ForeignAnswersExplained` | `[]ForeignAnswerIsExplained` | the invariant compares how often each datagram had come when the thread opened its socket (`missed`) with how often it has come (`Arrivals`): the second number is larger for what is in its socket, in its hands or returned, and never falls |
| `KeysAlwaysAgree` | `[]KeysAgree` | `Swap` is its own inverse; a header read back has the fields it was made of, since path ids fit in 24 bits and addresses and ports in their words |
| `BothEndsInEntry` | `[]EntryHasBothEnds` | between the ingress's insert and the egress's update roulette holds the entry of the key that the header carries |
| `PayloadsDelivered` | `[]PayloadsArrive` | what is written to the destination is forged out of the client's own packet; the bytes behind a header of four 16-bit integers are the payload, and `strncpy` keeps a payload without zeros |
| `TtlSufficient` | `[]TtlCoversPath` | below 64 the six bits change nothing |
| `ForgedAlwaysAccepted` | `[]ForgedIsAccepted` | below |
| `TwoCarriesAreEnough` | of any sum up to 2^31, `csum`'s two carries leave 16 bits congruent to it modulo 65535 | arithmetic on quotient and remainder |
| `DescriptorOwned`, `LeaksExplained`, `ConnectionReturned` (`NetworkCalls`) | descriptors and handles | an invariant of one thread and of one call: where the thread is says what it holds and what its outcome is; a call not begun holds nothing. A step changes what one call of one thread holds (`Touches`), so the invariant is looked at for that thread and that call only (`StepKeeps`) |
| `RequestsImplementRemoteCall` | `Spec => Remote!Spec` | each step is a step of `RemoteCall` or a stutter; needs that an answer `ok` in a thread's hands is of a request already applied and that one not `ok` will never be |
| `WakeupsKept` | `[]NoLostWakeup` | counting: awake workers and pending notifications cover the queue while anyone sleeps |
| `Drained` | `[]DrainedWhenDestroyed` | an accepted task is queued, in a worker's hands or run; a worker exits only when stopped and with an empty queue, and stays so |
| `EquivalentIsSame` | the map's equivalence is `operator==` | why a find is never wrong, even for crossing keys |
| `OrderedKeysAreTotallyOrdered` | `operator<` is a strict total order on ordered keys | two keys that do not cross are ordered field by field |
| `FindIsAlwaysSound`, `FindIsAlwaysComplete` | `[]FindIsSound`, `[]FindIsComplete` of `StdMapTree` | below |
| `MapImplemented` | `MapSpec => ImplementsStdMap` | below |
| `DeliveriesHaveTheirRoundTrip`, `EntriesAwaitEgress` | `[]DeliveryHasItsRoundTrip`, `[]EntryAwaitsEgress` of `UdpProxy` | below |

**The map.** The inductive invariant is `MapInv == TypeOK /\ Shape /\ Sorted`: the
root has at most one node on either side, and on ordered keys the sequence of
nodes is strictly increasing. A descent visits at most two nodes, so
where it ends is said by cases on the number of nodes and on the root. A find is
sound without `Sorted`, because it compares both ways at its end and
`EquivalentIsSame`: that is why crossing keys lose records and never give a wrong
one. It is complete because on ordered keys `operator<` is transitive and total.
`MapImplemented` then shows that each insert, erase and find is that of the
abstract map: the nodes stand for a function of their keys, which `Sorted` makes
single-valued. On keys that are not ordered the instance stutters, and nothing is
claimed.

**The proxy.** `UdpProxy`'s steps are those of its two halves, so
`UdpProxyProofs` instantiates `EgressUdpProofs` and `IngressUdpProofs` and takes
their inductive invariants over (`EgP!AInv`, `EgP!EInv`, `InP!RInv`). What relates
the halves is added, one conjunct for each place where something is handed on: a
packet's thread runs only for a datagram that is in the chain (`PacketsWereSent`);
a thread past `sendto` has sent (`SentWhenPast`); what is on the way back was
returned by a thread that has ended, so its origin can no longer change
(`ReturnedIsOver`); a reply carries something returned, of its own flow
(`CarriedWasReturned`); a delivery went to the address of a datagram of that flow
(`DeliveredToSource`). From these follows the round trip of every delivery. For the
entry, `map_to_remote` holds under a flow only ids of its own (`RemoteOwnsId`), crossing keys or not, so
an id leaves roulette only through a reply of its flow (`GoneAfterReply`); while a
packet's thread is about to update, that reply cannot be an answer to that packet.

**The checksum.** `csum` adds words that it reads in the host's order, folds, and
the destination adds them in the network's order. The sums are folds over the
words in an order that `CHOOSE` fixes. `SumIsLast` gives a fold as a recursive
function over the subsets of its domain, whose existence is proved
(`SumsExist`), and `SubsetInduction` is induction in that order. Two facts are
proved so: a linear relation that holds of the elements holds of the sums
(`SumsRelated`), and a bound on each bounds the sum (`SumInRange`), which keeps
the sum within what `TwoCarriesAreEnough` takes. A word in one order is 256 times
the word in the other modulo 65535, and so are the sums: `csum`'s complement
makes the host's sum a multiple of 65535, hence the network's. It remains that filling the checksum in changes one word
by its value (`FilledSum`) and that the length in the header is the datagram's.

Only model-checked: all liveness (`SoleEntryIsRemoved`, `DisconnectCleans`,
`HangupEndsWait`, `AnswerEndsWait`, `CallsEnd`, `EveryTaskRuns`,
`DestructorReturns`), since fairness and ENABLED are beyond the prover. Every
safety property and every refinement of a passing run is stated by a theorem. The
tree is bounded to three nodes by construction (`MapCapacity`), in the proofs too.

## 5. Not modelled

* `stop()`, `get_entry`, `send_only`, `send_and_receive` and `close_connection`
  are called by nobody. The singleton of `AsyncTaskExecutor` is never destroyed.
* Log, `main`'s options, the exceptions' types and `Address` (parsed once, before
  any thread starts) have no state that a property could be about. Of URLs and
  JSON the fields are modelled, the text is not.
* The servers' own sockets: what fails there ends the process before a client was
  seen.
* `inet_ntoa`'s static buffer, which threads share in the C library of the alpine
  image and not in others (a hazard without a property).
* Packets with IP or TCP options, and packets shorter than their headers announce.
* The pool that `AsyncTaskExecutor` makes has `hardware_concurrency()` workers,
  which may be 0; `ThreadPool` takes at least one. Memory (`delete` of an array,
  `free` of what `new` gave, the list of headers that `update_endpoint` does not
  free) is not modelled.

## 6. Plan

Done: every component of the inventory with state of its own, the composition of
the UDP proxy, and the theorems above. What could come next:

1. the TCP proxy composed (`IngressTcp`, chain, `EgressTcp`), with descriptors on
   both sides;
2. what `Endpoint` says of a tangled map (`Found`, `Erased`), derived from
   `StdMapTree` as its refinement on crossing keys;
3. races between threads of the two halves of an endpoint;
4. a tree of any size, with its rotations, in place of the three nodes;
5. packets with options.
