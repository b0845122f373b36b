# Sansgrid in TLA+

Sansgrid connects sensors to a web server. A sensor talks over an XBee radio to
a router (a C daemon on a small computer), the router talks to the server (PHP
and a database) over TCP. A sensor joins the network by a fixed sequence of
packets, then it sends data ("chirps") and answers heartbeats until it leaves or
is lost.

This directory holds TLA+ models of that system, translated from the source,
the TLC runs that check them on small instances, and TLAPS proofs for every
size of the instances. `PROJECT.json` maps each definition to the lines it
models.

## 1. The system

Paths are relative to `src/src/`; `R/` stands for `router/sansgridrouter/`.

| Part | Source | State | Operations |
|---|---|---|---|
| Dispatch queue | `R/dispatch/dispatch.c` | ring of slots, two indices, a mutex, two semaphores | blocking and trying enqueue and dequeue, size, maximal size |
| Heartbeat counter | `R/routing_table/heartbeat.c` | health of one device, two thresholds | decrement (ping), refresh (heard), stale?, lost? |
| Device authentication | `R/routing_table/auth_status.c` | last packet, next expected packets, level | set, check a payload type |
| Routing table | `R/routing_table/routing_table.c` | 256 slots, search pointer, pool of rdids, count, default level | assign, free, look up by address or rdid, the two above per device, iteration |
| Payload handlers | `R/payload_handlers/payload_handlers.c` | none of their own | one handler per payload type, free one device, free all |
| Router threads | `R/main.c` | the queue `dispatch`, pause and dump flags | dispatch, SPI reader, heartbeat, fly, and the main thread on the command socket |
| Command socket | `R/daemon/sansgrid_daemon.c` | router options | insert packet, drop, auth, pause, resume, status, kill |
| SPI transfer | `R/communication/sg_serial_rpi.c` | `tx_buffer` (a second queue), `transfer_lock`, `wait_on_slave` | send, receive |
| Conversion | `R/communication/sg_tcp*.c` | none | packets to and from key/value text, address to rdid and back |
| Radio firmware | `radio/` | reassembly ring, table of serial numbers and addresses, network flag, timeout counter | SPI, XBee frames |
| Sensor firmware | `sensor/` | the flags of the connection loop, key and address | one handler per payload type |
| Server | `server/www/` | pipeline of joining devices, table of sensors, triggers | one API call per payload type |

How they interact: all packets for the router pass through one queue,
`dispatch`. Its producers are the SPI reader (packets from the radio), the
command socket (packets from the server, whose rdid is translated into an
address before they are queued), the heartbeat thread (pings and notices), the
fly thread, and the dispatch thread itself (a device is back "online"). Its only
consumer is the dispatch thread, which runs one handler per packet. A handler
looks up and changes the routing table, posts to the server, and puts packets
into `tx_buffer`, whose only consumer is the SPI reader. The heartbeat thread
and the command socket change the same table without any lock.

What is hard here:

- **threads around two bounded queues**: a ring whose full and empty states
  differ only in semaphore counts; a consumer that is its own producer; a cycle
  of two queues;
- **order of packets**: the radio, the server and the operator send what they
  like, a device may be gone, or another may have its address, by the time a
  packet is handled;
- **numbering**: rdids are slot numbers unless these are taken, then numbers of
  a pool that wraps around; the search reads an uninitialised node;
- **reports of change**: stale, lost and online notices rest on the values that
  single calls return;
- **a server behind**: every packet is posted once and may be lost; the calls run
  side by side, while the router has moved on; attempts to join expire by the clock;
- **halves and edges**: packets travel in two frames, and board and radio wake each
  other by edges of pins that either may miss;
- **shutdown**: threads are cancelled anywhere, one of them asynchronously.

The `hazards` of `PROJECT.json` list these one by one, each at its line, with
the properties that cover it.

What makes each part correct:

| Part | Correct if |
|---|---|
| Dispatch queue | it is a FIFO queue of size - 1 packets under any interleaving; whoever keeps consuming gets the packets |
| Heartbeat counter | stale and lost exactly after the configured number of pings, each change reported once |
| Routing table | rdids are unique and lead back to the device; leases are stable; a search always ends; sensors can always be freed; one level for all |
| Handlers and threads | devices pass the sequence in order; nobody leaves without the server and the sensor hearing of it; rejections change nothing; no deadlock; notices reach the right device |
| SPI, radio | every packet handed over is transferred or refused; fragments of one packet are joined |
| Sensor, server | flags and pipeline agree with the router's view; the join ends in a nest or in a clean refusal |

## 2. The modules

| Module | Models | Checked by | Proved in |
|---|---|---|---|
| `BoundedFifo` | abstract: a bounded FIFO queue with calls that begin, commit and return | | |
| `Dispatch` | `dispatch.c`, one action per statement that touches shared memory | `MCDispatch` | `DispatchProof` |
| `RouterThreads` | the threads around the two queues, at every place where one can wait; `sg_serial_rpi.c` | `MCRouterThreads` | `RouterThreadsProof` |
| `Heartbeat` | `heartbeat.c` as operators | | |
| `HeartbeatWatch` | one device, with what the returned values tell | `MCHeartbeat` | `RouterProof` (last section) |
| `DeviceAuth` | `auth_status.c` as operators | | |
| `RoutingTable` | `routing_table.c` as operators, and as a machine under any calls | `MCRoutingTable` | `RoutingTableProof` |
| `PayloadHandlers` | `payload_handlers.c` and the body of the dispatch loop as operators | | |
| `Router` | the router as one step per packet, heartbeat turn or command | `MCRouter` | `RouterProof` |
| `Conversion` | `sg_tcp_handler.c` as operators: a packet printed as text, text read as a packet | | |
| `Gateway` | the conversion at work between the table and the server | `MCGateway` | `GatewayProof` |
| `SgRadio` | `sgRadio.cpp`, `sgSnIp.cpp` as operators on a radio | | |
| `RadioNetwork` | the radios of a network and what they hear of each other | `MCRadioNetwork` | `RadioNetworkProof` |
| `SensorNode` | a sensor board, its radio and the line between them | `MCSensorNode` | `SensorNodeProof` |
| `Server` | the calls of the API, `mate.php` and `cleanPipeline` on the tables `sensor` and `pipeline` | `MCServer`, `MCServerChirp` | `ServerProof` |

`RoutingTable` EXTENDS `Heartbeat` and `DeviceAuth`, `PayloadHandlers` EXTENDS
`RoutingTable`, `Router` EXTENDS `PayloadHandlers`; `Gateway` EXTENDS
`Conversion`, which EXTENDS `RoutingTable`; `RadioNetwork` and `SensorNode`
EXTEND `SgRadio`. `Dispatch` instantiates `BoundedFifo`. `RouterThreads` stands
alone: it counts packets, which is all the blocking depends on, and takes each
call of a queue for one step, as the refinement of `BoundedFifo` by `Dispatch`
allows. `Server` stands alone, too: of router and devices it keeps who has which
rdid and what that device waits for.

Definitions marked "Mutant of" are the changed code that the runs are tried
against; no specification uses them.

### Dispatch

A thread's place in a call is `pc[t]`. `enqueue` is claim (semaphore wait or
try), lock, write, increment, post, unlock; `dequeue` mirrors it. `list`,
`queue_index_start`, `queue_index_end`, `queue_lock`, `queue_full_lock` and
`queue_empty_lock` are the fields of `struct Queue`; a slot that was never
written holds `Nothing`. `queueSize` is two actions, because it reads the two
indices without the lock. `BoundedFifo` is what the header promises; the mapping
takes the contents between the two indices for the sequence and lets a call
take effect when it increments its index.

### Heartbeat, DeviceAuth, RoutingTable

Bits are members of sets: the returned status is a set of bits, a mask of payload
types a set of names, `SG_DEVSTATUS_NULL` the empty set. An address is its
distance from `base`; `N` stands for every address outside of the table, which
the code maps to slot 0 (`routing_table.c:202`). The rdid of a new node is
`Garbage` while its own rdid is being searched, as `malloc` leaves it. `Word` is
the number of values of an rdid, so the pool wraps. The loop over the pool and
the loop over the slots are minima over their number of rounds. Functions that
change the table are operators from table to table; what they return, where a
caller looks at it, is an operator next to them.

### PayloadHandlers and Router

A handler is an operator on an outcome: the table, what was sent to the server
and over SPI, what was put back into the dispatch queue (each in order), and the
exit code. Every call a handler makes is in it, in the order of the code.
`Dispatched` is one round of `dispatchRuntime` with the removal in strict mode,
`HeartbeatTurn` one round of `heartbeatRuntime`. `Router` applies them to a
nondeterministic packet: the contents of the queue are not kept, since the
environment may send any packet at any time and an address may have changed
hands while its packet was queued. Only the Hatch is known to be first. The
history variable `trail` keeps the steps each device was taken through since its
Eyeball; `outcome` and `handled` hold the last step for the action properties.
They decide nothing to come, so the VIEW of the runs leaves them out; TLC checks
action properties on every step, also on steps to a state it has seen.

### RouterThreads

Kept is where a thread can wait. `queued` and `tx_buffer` count packets, `todo[t]`
is what is left of the blocking calls of thread t (`enqueue` into dispatch, `send`
into tx_buffer, `post` the semaphore), chosen when a handler, a heartbeat turn or
a command starts. The SPI thread is spelled out (`spi`, one place per statement
that reads or changes shared state): the pin and the queue are looked at, then
`wait_on_slave` is waited for; `transfer_lock` is taken, and kept when the device
does not open; a packet that comes in is put into dispatch before the lock is
given back. The pause and the dump are the two flags of `main.c`.

### Conversion and Gateway

A text is a sequence of keys and values. What the C code does byte by byte is kept
where a field can change by it: `addHexField` drops zeros at both ends, `atox` pads
on the left and cuts, `strncpy` fills with NUL, only 64 bytes of a key are printed,
the rdid is returned through an `int8_t`. `Gateway` has devices come and go in the
table, prints the reports of sensors and reads the answers of a server that keeps
its conversations longer than the router its devices. `printed` and `answer` hold
the last text for the properties and are emptied by `Delivered`.

### SgRadio, RadioNetwork, SensorNode

A radio is a record: mode, network flag, timeout counter, table of serial numbers.
Handlers map a radio and a packet to a radio and what is passed on. `defragF0` and
`defragF1` keep the slots of half packets. `RadioNetwork` has one radio per board;
a write is two steps, one per frame, and each radio that a frame is for hears or
misses it. `SensorNode` is one board with the flags of `SensorConfig`, its radio
with `cmd`, `spi_rx`, `spi_tx` and `process_flag`, and the pin: one action per round
of either loop, with the interrupts (edge of the pin, bytes of a transfer, button)
between them. The network says any packet at any time.

### Server

`sensor` and `pipeline` are sets of rows, as the tables are. A call of the API is
an action for what it does before it first sends something; the rest of it is a
record of `running`: what it still sends, then the one change (`op`) it makes at
its end. In between other calls run, because the web server runs them side by side
and the router waits for an answer two seconds at most. `xmitToRouter` sends one
packet, `Ends` makes the last change, `Awaits` is a turn of the loop that polls for
Squawk2. `cleanPipeline` removes a row that has expired; every page and every call
runs it, and since the model has no clock, any row of a type that expires may go at
any time. Outcomes that depend on keys, random numbers or the operator are choices.

Of the router and the devices there are the leases: `who` has an rdid, `step` is
what that device does or waits for next, as the handlers of the router order it
(`Moves`). Any call on its way to the server may be lost, since nobody repeats it;
a device may start over or leave at any time. `Settled` is what the sketches'
`delay(1000)` grants: a device answers or starts over only when the call before,
which takes milliseconds, has ended, but for one that waits for Squawk2. `unheard`
and `orphaned` are history and decide nothing.

## 3. The runs

| Run | Instance | Shows |
|---|---|---|
| `dispatch` | 3 threads (producer, both, consumer), 2 packets, ring of 4 | no corruption, FIFO refinement |
| `dispatch_live` | 2 producers, 1 consumer that reads the size, ring of 3, fair | progress; the consumer never sees more than there is |
| `heartbeat` | all thresholds up to 8, the default | stale and lost on time, changes reported once |
| `routing_table` | 5 slots (2 sensors), 6 rdids, leftovers that name a slot or none | numbering, counting, leases, levels |
| `router` | 5 slots, 2 pings to lost, 1 to stale, all packets about addresses 0 to 3 | sequence, departures, notices, rejections |
| `threads` | queues of one packet each, dispatch, SPI, heartbeat and main thread, fair | no lost wake-up; packets are taken and the line is served unless one of four jams has happened, and these last |
| `conversion` | 6 slots, 7 rdids, 3 sensors of which 2 are joined, short fields | answers find their device; identities and fields survive the way to the server and back |
| `radio` | one sensor with two missed frames, two sensors with none, 1 address | halves of different packets are never joined unless two frames were missed; no packet reaches another sensor |
| `sensor` | one board and radio, 9 types of packets, watchdog of 3 rounds, fair | board and radio agree; one answer per challenge; packets are handed over or lost in one of two ways |
| `router_chirp` | as `router` | the inverted check of chirps |
| `server` | 2 devices, 2 leases, 2 calls at a time, any call lost, fair | a chirp is stored for its sender; who is online has a lease, who has been let in is online, or one of the named accidents has happened; every call ends |
| `server_chirp` | as `server` | one stale sensor, and the chirps of another are dropped |

Why the bounds are enough:

- *Queue.* A ring of 4 with three threads wraps, fills, empties and has all three
  threads inside the calls at once, blocked and unblocked.
- *Table.* Two sensors are needed for collisions of rdids, slots 0, 1 and N-1 for
  the reserved ones, and one rdid more than addresses, so that the pool wraps
  within a few joins. The table fits N - 3 devices (`tableChkFull`): of the two
  sensor slots of the instance only one can be in use next to the router, two when
  the router is not in the table; the full table and the wrapped search pointer are
  reached after one or two joins. A heartbeat needs one healthy, one stale and one
  lost value.
- *Threads.* What a wait depends on is whether a queue is full, empty or between;
  with one slot each the first two alternate, and all four jams are reached. The
  fly thread makes a call that the heartbeat thread makes, too, so one timer thread
  stands for both. `MaxGoodbyes` 1: "drop all" is the same pair of calls again.
- *Conversion.* Fields have the fewest bytes on which padding, cutting and
  dropping of zeros at both ends differ; a byte is zero or not. `ByteValues` 5
  lets one of the 7 rdids look like -1. A fresh node holds a leftover 0 or 2, so
  an rdid is its slot's number, or one from the pool. One conversation of the
  server at a time is enough for a late answer to meet a table that has changed
  any number of times. Reports are tried while the server keeps none: printing
  looks at the table only.
- *Radio.* Two slots for halves, two entries of the table and two sensors: a ring
  that wraps, a table that is full, an address that changes hands. Missed frames
  count while anything of their packet is still on its way, so two can be missed
  again and again. A loss makes a radio hear less, and with one sensor nobody can
  get another's packet; so the two-sensor world needs none for that question.
- *Sensor.* All types the board tells apart but those it treats alike. The counter
  of the watchdog has 3 values instead of 2^32: it is reset or counted, nothing
  looks at its size.
- *Server.* Two leases are two devices at a time, or one that starts over while its
  first attempt is still in the pipeline; two calls run at a time, so each pair of
  calls can overlap. A device may be known from before. The safety properties were
  also checked with three leases (13.8 million states, without the loss of packets).

Deadlock is checked in the runs of `Dispatch`, the table, the router and the
gateway. `threads`, `radio`, `sensor` and `server` set `CHECK_DEADLOCK FALSE`:
there the system may really stop. In `threads` that is what the jams are (a jam
that holds all threads is a deadlock, one of them leaves timers running; the
properties say which), in `radio` and `sensor` nobody owes a packet, and a lost edge
leaves board and radio waiting; in `server` the leases run out.

**Fairness.** Safety runs assume none.

- `dispatch_live` assumes weak fairness of each thread inside a call: a thread that
  is not blocked runs on. A wait for a token or for the mutex is a disabled step,
  and one that is disabled again and again (another thread takes each token) is
  promised nothing: hence some blocked producer proceeds, not each. It also assumes
  that a consumer between two calls comes back to `queueDequeue`, as the endless
  loop of `dispatchRuntime` does; this is strong fairness because the consumer reads
  `queueSize` in between, as the dump loop does. Nothing makes a producer call.
- `threads` assumes weak fairness of the SPI and of the dispatch thread, which run
  for ever, and strong fairness of each call a thread has begun: the other callers
  are timers with seconds between two turns, so one that waits for room gets it if
  there is room again and again. Nobody has to start a call, no packet has to arrive.
- `sensor` assumes that both boards run: weak fairness of the board and of the end
  of a write; strong fairness of `BoardTurns` and of the radio's look at
  `process_flag`, both parts of a loop that comes round between any two packets,
  which take seconds. The network and the button owe nothing.
- `server` assumes weak fairness of what is left of each call, as the web server runs
  it, and of the expiry of each row: every page and every call begins with
  `cleanPipeline`, and the refreshing of the pages or the next Eyeball is one.
  Nobody has to call, and nobody has to join.

## 4. The proofs

`DispatchProof` (any threads, packets, size). The inductive invariant says that
each semaphore counts the slots or packets nobody has claimed, that a claim is
held exactly between wait and post, that the indices differ by what is stored,
and that slots between them hold packets. `TokensConserved` alone is not
inductive: it does not say that who writes holds the mutex. Type correctness,
mutual exclusion, both memory safety properties and the refinement of
`BoundedFifo` follow from it. `SoleConsumerSizeExact` needs an invariant of its own:
the consumer's two reads of the indices bracket a time in which only the end index
moved, so what it computes is what is stored when it returns (`ConsumerInv`). What
such a proof settles and is shallow by itself (the types, mutual exclusion, no
garbage taken from a slot) is not checked again by a run.

`RoutingTableProof` (any N >= 4, any width of rdids above N, any leftovers). The
invariant `Legal` is a set of tables: types, the count equals the number of
nodes, no node outside of 1 .. N - 2, unique rdids, one level. Each operator is
shown to stay in it, so it serves every module that composes them. The search
of a free slot ends because a table that is not full has fewer nodes than
sensor slots; the search of an rdid ends because there are more rdids than
nodes; `Install` keeps rdids unique although one node of the table still holds
a leftover, since that node is replaced by the result of the search.

`RouterProof` (any table, any set of packet types). `StepsInOrder` is not
inductive: whether the next packet is in order depends on what the table admits.
The invariant `IInv` adds that link: what `next_expected_packet` of a device
contains has been earned by the steps in its trail (`EarnedAt`), a sensor that
was nested or has chirped expects `LEASED` only (`SettledAt`, from which
`OnlyLeasedAreLost` follows), the table is `Legal`, and the router sits in it
from the Hatch on. The operators of the table are reduced to three relations:
one device moves to another place (`Moved`), devices leave and the rest stay
(`Unmoved`), one joins blank; a handler is a chain of these (`Arrives`), and the
outcomes of a packet are five: steered, chirped, joined, idle, rejected. In
loose mode the device is marked and nothing is claimed of it.

The two reports of the router need no more of the state than a legal table; what is
to be shown is about each handler. For `OnlineIsNews` an outcome is followed through
the calls of a handler: it is `Quiet` as long as nobody was heard, and `Truthful` when
what was put back names a device that was stale before and is not now (`Back`); an
outcome stays truthful because no call after a refresh makes a device stale or frees
it. For `DeparturesAreAnnounced` it is `Unsaid` while nobody has left, and `Politely`
says that whoever is in the table of before and not in the one of now was announced.
Freeing all devices needs that the list of rounds has each device of the table on it.

Its last section is about `HeartbeatWatch` (any bound), the counter that the table keeps
of each device, on its own. Health and silence are two counters of one thing; from that
and `known = Status(watched)` follow the reports and the times.

`GatewayProof` (any table, any widths of fields, any devices, any number of
conversations). Most of it is about texts. A text is put together by
concatenating fields, so what `Matched` finds is settled one field at a time (`Grown`): a
field that is added leaves the values of the other keys alone. What a field reads as
after it was printed is settled by its form. Of bytes: `addHexField` drops zeros at both
ends and `atox` pads on the left, so bytes that do not end in a zero come back as they
were (`HexKept`); those that do come back moved, and the properties claim nothing of
them. Of characters: a field comes back up to its first NUL (`CharFieldKept`). From
these and the keys that a packet has follows what each of the six kinds of reports reads
as. A key of which only 64 bytes are printed comes back at the end of its field: its
digits are compared one by one, counted from the end (`KeyRead`), and no number is
computed, so no induction is needed. The invariant `GatewayLegal`
is what the texts depend on: the table is `Legal`; a device that holds a slot is in the
table (`Present`); a conversation of the server is about an rdid that the table can give
and the identity as it was printed; the text on its way to the server spells its packet
(`Spells`); an answer on its way is what the table, as it still is, makes of the text of
a conversation (`Reads`). `AnswersFindTheirDevice` then rests on the table: while
the device is there under its rdid, the rdid leads to its address and to no other.

Stating `ReadsBack` for every width showed two things about it. A Peacock comes back as
it was only if its units are a string, too: the run, in which the units are one
character wide, could not tell. And `SameKey` says what is the same in two numbers of
different widths, the digits from the end, where it used to compare sums.

`RouterThreadsProof` (any capacities, any timers, any number of goodbyes).
`NoLostWakeup` is not inductive: it speaks of the moment the SPI thread sleeps, and
what makes it true happened before. The invariant adds `AwakeInv`: calls come in
pairs, a send is followed by a post; where the thread has looked at the pin, the pin
was high, and whatever came since has posted or is about to. The four jams last
because each thread in one waits for what only a thread in the same jam could give.

`ServerProof` (any leases, devices, calls at a time and losses). None of the four
safety properties is inductive: whose row a call changes at its end was settled when
the call began, or when the attempt it belongs to did. `Relations` has three parts.
`Claims`: all that is under way for an rdid, in `running` and in `pipeline`, is about
one row, of the device that the rdid is leased to, and a row that has not mated is
claimed by one rdid only; with this `StoredForSender`, `MatedOnce` and `OnlineIsLeased`
survive each step. `UnderWay`: which calls can run at which step of the device; at most
one call answers for an rdid. `OnTheWay`: the newest attempt of a device that is still
there has its row until the device is let in (`NestedIsOnline`).

`SensorNodeProof` (any packets of the network, any watchdog). `JoinedTogether` speaks of
the moments when board and radio both rest. The invariant says what holds in between:
a radio on a network whose board is not nested, or is about to answer a goodbye, has
the Nest still out and unread (`NestWaits`). That lasts until the board reads it,
because the radio hears nothing while a packet is out, and what a time-out puts in its
place comes when the radio has left the network. A board on its way to an answer has
been asked (`Challenge`). A lost edge lasts because there is none while the pin is low,
the board reads at an edge only, and only its reading lets the radio raise the pin.

`RadioNetworkProof` (any sensors, addresses, table, slots, any number of missed
frames). `HalvesBelongTogether` speaks of the moment when a packet is completed. The
invariant says of each half in a slot that its other half is still to come or was
missed (`SecondComes`), and of each second half that is still to come that a reader has
no other half under its number, or has missed the first (`FirstCame`). Both need that
one radio hears a number from one board only, which `Addressed` gives. For
`ReachesItsDevice`, `TableOK` says that the table of the router's radio never has an
address under a number that the router has not given it to, though devices change the
table before the router hears of it. What the run bounds, the frames that are missed and
the boards there are, is unbounded here.

Model-checked only:

- Liveness (`OldestIsConsumed`, `SomeEnqueueProceeds`, `PacketsAreTaken`,
  `LineIsServed`, `HandedOver`, `KeepsAnswering`, `CallsEnd`): it rests on fairness, and
  so on ENABLED, which the provers do not handle.

Every invariant that a run checks is proved.

The assumptions of the theorems are the named assumptions of the modules, and TLC
evaluates them on every run: at least two slots in a ring and four in a table, room for
a packet in each queue, more rdids than slots, `Nothing` no packet, `NoNode` no node,
`NoDevice` no device, fields of at least one byte, of a key no more bytes printed than it
has. Three of them say something about the code:

- `ThresholdAssumption` (`RoutingTable`): a device is stale no later than it is lost, as
  `heartbeat.h:28-30` sets the two thresholds. Without it a device that comes back from
  being lost could be called online without ever having been stale.
- `HeardAssumption` (`SensorNode`): a board gets no answers to challenges from the network.
  The handlers of the router send a sensor none (`payload_handlers.c:649-706`).
- `NetworkAssumption` (`RadioNetwork`): no serial number and no address is one of the
  values that the code gives a meaning of its own (all zero: for all; all 0xFE: unknown).

## 5. What the code does differently from what it says

Two runs expect a violation; `findings` quotes the lines.

1. `routerHandleChirp` checks only the disconnection request: in filtered mode a
   device that has not authenticated may chirp and is leased by it.
2. `processChirpData` counts the sensors that are online under the rdid, or stale
   under any: as long as one sensor is stale, the chirps of all others are dropped.

What the models show besides, without a run of its own:

- `queueSize` reads two indices without the lock and can return a number the queue
  never held (`dispatch.c:215`); a full queue holds one packet less than
  `queueMaxSize` says.
- The timer of a radio is restarted by every whole packet, broadcasts and packets for
  others included (`sgRadio.cpp:180`, against `sgRadio.h:277`): a sensor that its
  router has forgotten stays on the network as long as Flies go by.
- A serial number that ends in a zero byte comes back shifted: zeros at its end are
  not printed, and what is left is read as the end of the field
  (`sg_tcp_handler.c:594`, against `payloads.h:183`).
- `INSTALL.php:38` creates the table `sensor` without the column `rdid` that the
  queries read and set (`zz_api_functions.php:768`, `zz_sensor.php:45`): with that
  table no sensor could nest. `Server` models a database that has the column.
- The accidents that the properties of `Server` name: a departure that is lost, or
  heard between the sending of a Nest and the change of the row, leaves a sensor
  online that is gone; an attempt that expires takes the row of a later attempt with
  it, and its device is nested for nobody.
- `hbDecrement` and `hbRefresh` return the bits that changed, not the codes of their
  comments (`heartbeat.c:167`, `:198`).
- `routerHandleEyeball` compares the requested address with its own copy
  (`payload_handlers.c:359`), so no request is ever honoured.
- The four jams of `RouterThreads`: the dispatch thread waits for room in the queue
  that only it empties; it waits for the SPI thread, which waits for it; the SPI
  thread waits for the lock it kept; the main thread, which could resume the router,
  waits for room in the paused queue. The first needs one stale device that is heard
  while the queue is full.
- An answer under an rdid that no node has goes to the slot `rdid & 0xff`
  (`routing_table.c:616`); the -1 of a failed lookup is not looked at
  (`sg_tcp_handler.c:526`). An answer under an rdid that is 255 modulo 256 is
  refused, because the rdid is returned through an `int8_t`.
- `connecting == true;` (`sensorPayloadHandler.cpp:355`) compares, so a board is
  never "connecting" and answers every Fly; `peck` has a loop without effect
  (`:47`), so a Peck for another device is taken.
- A board clears `received` after it has handled a packet and so forgets an edge
  that came meanwhile: the pin stays low, and board and radio are deaf to each
  other until the power is cut (`LostEdgeLasts`). The radio forgets the end of a
  transfer in the same way (`sansgridRadio.ino:215`).

## 6. Not modelled, and the plan

Not modelled by choice: web pages and forms, triggers, logging, parsing of options and
configuration, daemon start, the tests and their stubs, vendored libraries, the
layout of payloads (padding, byte order), memory that is leaked or freed.

Left out of modules that are there:

- `RouterThreads` does not know what packets say: which handler runs is a choice.
  What handlers do is in `Router`, where nobody waits.
- The table has no lock, and `Router` changes it in one step per packet. Its
  statements interleaved with those of a reader are not modelled: the size of the
  table and of the places in its functions together is out of reach of the checker.
- `Gateway` and `Conversion`: the delimiters of a text, and the splitting at them;
  the server but for what it prints. A text is on its way between two calls only,
  since the router waits for curl and the server for the socket.
- `RadioNetwork`: a restart of the router, which leaves the radio's table as it is;
  a radio reads a frame when it is written, since the one before has been taken out
  of its serial line by then or waits there in the same order.
- `Server`: the values in `io` and the triggers over them; the pages that delete or
  rename a sensor; a second router, whose rdids
  would be numbers of its own. Ciphers are a
  choice: nothing in the tables depends on more than whether they fit.
- `SensorNode`: the contents of payloads; which of the answers of `squawk` a board
  gives depends on keys and is a choice where it does. A transfer is one step. The
  branch for `spi_err` cannot be reached. The delays of the sketch are taken at
  their word (`LineIsFree`, `place # "write"`).

To come, in this order:

1. `Shutdown`: cancellation, join, destruction of the queues. The heartbeat thread is
   cancelled asynchronously, and `pthread_mutex_lock` is no cancellation point: the
   joins return unless a thread waits for a lock that is never given back.
2. `Join`: sensor, radios, router and server over lossy links, as an implementation
   of an abstract authentication sequence; theorems about its invariant.
