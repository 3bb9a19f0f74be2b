# A TLA+ model of bxcommon

`bxcommon` is the library that the gateways and relays of the bloXroute network
share: connections and their event loop, the cache of transactions and short ids,
feeds and the RPC servers that offer them, and the utilities below these. A node is
one asyncio process. Handlers (messages, alarms, callbacks) run to completion one
after the other, and a few thread pools run blocking requests beside them.

Paths below are relative to `src/src/bxcommon` in the tree this project sits beside.

## The parts of the system

| part | sources | state | what interleaves | status |
|---|---|---|---|---|
| transaction cache | `services/transaction_service.py` | short id maps, contents, size, three expiry queues, tracked blocks, alarm flags | handlers, alarms, exceptions inside loops | partly: all but the history of removed transactions and statistics |
| block cleanup | `services/normal_cleanup_service_helpers.py` | none of its own | with the cache | modelled |
| expiration queue | `utils/expiration_queue.py` | OrderedDict of timestamps | adds, refreshes, expiry | modelled |
| expiring set and dictionary | `utils/expiring_set.py`, `utils/expiring_dict.py` | contents, queue, alarm | adds, removals, late alarms | modelled |
| alarm queue | `utils/alarm_queue.py` | heap of alarms, approximate alarms | callbacks register and cancel while the loop fires | modelled |
| thread pool, threaded requests | `utils/concurrency/thread_pool.py`, `services/threaded_request_service.py` | work items, futures, timeouts | real threads | modelled |
| transaction sync | `services/tx_sync_service*.py` | sync alarms, snapshot, position, pings | with the cache, with pongs and closing connections | partly |
| connection pool | `connections/connection_pool.py` | five indexes of connections | duplicates, change of type | modelled |
| connections and node | `connections/abstract_*.py`, `connections/internal_node_connection.py` | handshake, pings, retries | timeouts, closes, retries | partly |
| network layer | `network/*.py` | sockets, connection tasks | callbacks of asyncio, timeouts of tasks | partly |
| buffers | `utils/buffers/*.py` | bytes, message boundaries | partial sends, pieces of messages | partly |
| feeds, websocket server | `feed/*.py`, `rpc/abstract_ws_rpc_handler.py`, `rpc/ws/*.py` | subscribers, queues, accounts | publication, slow readers, closes | server modelled, feeds partly |
| websocket client | `rpc/provider/*.py` | pending calls, socket, tasks | reconnection, late answers, close | partly |
| message versions | `messages/versioning/*.py`, `messages/bloxroute/v*/*.py` | kept conversions | none | modelled |
| messages | `messages/bloxroute/*.py` | layouts | none | partly |
| encrypted cache, limited collections, broadcast service | `storage/*.py`, `utils/limited_size_*.py`, `services/broadcast_service.py` | small collections | none | left out |
| extension cache | `services/extension_*.py` | in a C++ library | as the cache | left out: the library is not here |
| models, HTTP clients, statistics, TLS | the rest | data, I/O | none | left out |

How they meet. The event loop opens sockets for the node, which keeps a connection object
for each in the connection pool. A connection takes bytes from its input buffer, finds the
version of its peer, converts messages and hands them to the node; what it sends goes
through the output buffer. Every timeout, retry, ping and expiry is an alarm of the alarm
queue. A message may change the transaction cache, start a transaction sync, or be
published on a feed, whose subscribers are served by the websocket server.

## Modules

**OrderedItems** is the order an OrderedDict keeps: the keys and which was inserted
before which. Assigning to a present key keeps its place; this matters, since every
queue here is one. It is a set with a relation, so that proofs need no induction.

**TransactionService** is the cache. Its variables carry the names of the fields of
the class; a dictionary is a function with `{}`, `NoTx` or `0` for no entry, and
contents are their length. Each public operation is an operator (`AssignShortId`,
`SetTransactionContents`, `RemoveTransactionByKey`, `RemoveTransactionByShortId`,
`RemoveSidByKey`, `ClearCache`) that sets the maps, the queues and the alarm flags.
Handlers start in an `Idle` state. A handler that makes several calls leaves them in
`work`, and a while loop is in `loop`, so each call and iteration is a step and a
`KeyError` can end the handler between two of them. It is then up to the caller
what happens: `AfterCallback` is what `AlarmQueue.fire_alarms` does with an alarm
whose function raised. Whether the head of a queue has expired is a free choice.

The constant `Reassign` separates two environments. The network assigns a short id
to one transaction, so with `Reassign = FALSE` no short id is assigned to a second
transaction while a first one still lists it. The code does not check this; with
`Reassign = TRUE` it is free.

**ExpiringSet** has the clock that TransactionService abstracts from. Items have
ages and alarms have times left; ages stop one past the time to live. `Cleanup`
pops the expired prefix of the queue; the callback returns 0, so the alarm is gone.
`MaxWait` bounds how late the event loop fires an alarm. `ExactClock` says whether
an alarm may run at the very instant of its `fire_time`; the run excludes that instant,
see below.

**ThreadedRequests** is the thread pool and the service that submits to it. A step
is what a thread does between two points where another can run: the unlocked read of
`_stop_requested`, a section under the condition's lock, the request, one call on the
future. `Future` and `Condition` are external and behave as in Python 3.8 or later:
setting the outcome of a cancelled future raises, `wait` returns only when notified.

**ConnectionPool** has the indexes of the pool and its operations as functions from a pool to a
pool. **NodeConnections** is a node with its connections: one action per callback of asyncio
(`ConnectionMade`, `Accept`, `ConnectionLost`), per end of a connection task, per message
(`MsgHello`, `MsgAck`, ...), per alarm (`ConnectionTimeout`, `SendPing`, `PongMsgTimeout`,
`RetryInitClientSocket`) and for `on_updated_peers`. `attempt[e]` is the task that opens a socket
to `e`; it may time out just after `connection_made` has run, also when that has turned the socket
away, and then the node is told of a failure as well. Alarms carry no times, so any pending alarm
may be next. `conns[c]` is a connection object; one that was disposed of stays while its
connection timeout is pending.

**ConnectionLife** is what a node promises of each peer, as a state machine with seven
states. `LifeOf` in NodeConnections is the refinement mapping. **MCNodeConnections** has the
networks: an SDN; a relay the node connects to, alone or while the relay connects to the node,
authenticated or not; a proxy with one endpoint, or with two and so two connections.

**WireFormats** gives every message as fields with names and widths, in each version that
changed it; **Messages** packs and reads them, with previews and validation; **Versions** has
the factories, the converters and the version manager; **InputBuffer** is the buffer with the
pieces of a stream. **VersionedLink** composes them into a node between two peers of other
versions. A byte is a field's name with a position and a value, so a byte read at the wrong
place is seen. For version 22 the version manager holds modules where the others have factories
(`ImportedModule`). A conversion that raises takes its message with it (`ConversionFails`). A
peer opens with its hello, with another message, or with a request of HTTP.
**MCVersionedLink** lists the scenarios.

**TxSync** is a sync of the cache with a peer in each of its three ways, with its pings. The
cache changes between two messages. An entry of the expire queue is a short id with its place,
which it keeps, and its timestamp, which a second assignment renews; `FromTime` searches by
timestamp and walks by place, as the code does. `passed_over` is a history variable: the short
ids that a message by time left behind an entry whose timestamp was renewed.

**OutputBuffer** is the buffer with the batches and the socket that takes part of what it is
offered. **Feeds** is a feed with its subscribers and the websocket connections that serve them,
two bounded queues in a row; `StopServer` closes a connection from the side of the server.
**WsProvider** is the client: calls, the listener (which a response without an id ends), the
status check, the reconnect task and `close`. **AlarmQueue** has the heap, cancellation,
rescheduling and the approximate alarms. **MCServices** checks these four in one run. They do not
share state: `part` says which of them moves in a behaviour and the others stay as they began. It
extends all four, whose definitions therefore have distinct names (`OutputSpec`, `FeedsSpec`,
`ProviderSpec`, `AlarmsSpec`), so that what it checks is what is proved. In the same way
**MCBackground** holds TransactionService, ExpiringSet and ThreadedRequests, and **MCProtocol**
TxSync and VersionedLink.

**MCTransactionService** gives TLC the lists of short ids and the symmetry. The modules whose
names end in **Proofs** hold the proofs.

## Runs

| run | bounds | shows |
|---|---|---|
| TransactionService | 2 transactions, 3 short ids, 2 blocks, sizes 1 and 2 with limit 2 | `MappingsAgree`, `EverythingExpires`, `AlarmPending`, `MemoryBounded`, `SizeIsSum` |
| Reassign (violated) | 2 transactions, 2 short ids, 1 block | `AlarmPending` fails when a live short id is reassigned |
| Background: cache | 2 transactions, 2 short ids, lists of 2 | `HandlersEnd` |
| Background: expiring set | 3 items, time to live 2, lateness 2 | `NothingStranded`, `CleanupsSpaced`, `Drains` |
| Background: threads | 2 workers, 2 requests | `NothingLost`, `RunAtMostOnce`, `CalledBackOnce`, `OutcomeFinal`, `EveryRequestEnds` |
| CloseReturns (violated) | the same threads, requests end | `close` can hang |
| NodeConnections | 2 connections, 6 networks of 1 or 2 endpoints, 1 retry, 1 bad message | `IndexesAgree`, `MarksAreLive`, `AlarmsOwned` |
| NodeIdLost (violated) | the same | `FoundByNodeId` fails for a proxy with two connections |
| ConnectionLife | the same, 2 networks, no symmetry | `ImplementsLife`, with its liveness |
| Protocol: versions | every type of message from every version, the converted ones between versions of distinct formats, broadcasts cut in 1 or 2 places, other openings | `FieldsArrive`, `InStep`, `VersionAgreed`, `CutThroughAgrees`, `PreviewAgrees` |
| WrongConversions (violated) | the conversions that the former leaves out, and those that raise | `AllArrive` fails |
| Version22 (violated) | a peer of version 22, its stream cut in one of 11 places | `SupportedStaysOpen` fails |
| Protocol: sync | 2 transactions, 3 short ids, 3 assignments, 2 syncs | `MissingOnlyPassedOver`, `Throttled`, `SyncEnds` |
| SyncRefresh (violated) | the same | `SyncTellsAll` fails when a queued short id is assigned again |
| Services: output | 4 messages, one of them as large as a batch | `WholeMessages`, `HeldBytesLeave` |
| Services: feeds | 1 connection, 2 subscribers, queues of 1, 3 messages | `NoGaps`, `NothingLeftBehind`, `SlowReaderClosed` |
| Services: provider | 2 calls, 3 sockets | `CallsEnd`, `ClosedStaysClosed` |
| Services: alarms | 3 functions, 3 alarms, delays to 3, slop 1, lateness 1 | `ApproxInStep`, `ApproxSpaced`, `EachFires` |

Why the bounds are enough. Two transactions with three short ids have a transaction with several
short ids beside one with its own, which is where removal of one, of all and of the last differ.
Sizes 1 and 2 with limit 2 give contents that fit, contents that evict one or more others, and
contents without short id that force `clear`. Two blocks with a final count of 2 give a tracked
block and one that is popped. Two workers are needed for a stolen wakeup and for the death of one
worker while another lives; both can die, which is when `EveryRequestEnds` rests on the timeout
alone. Three items give a refreshed front with items behind it, and a time to live of 2 lets adds
fall inside and outside the window of a pending alarm. Two connection objects are a connection
beside its duplicate, or beside the one that is disposed of but still has its timeout; networks of
one endpoint are those where a node id must lead to its connection. The indexes and the steps of
the life are proved for any number. One retry separates a peer that is tried again from one that
is given up, and an SDN, which has no limit, from both. In TxSync the third short id is assigned
to a transaction that the snapshot or the position of a sync has passed or not, or an entry is
renewed with older ones behind it, and the second sync meets late pongs of the first. Queues of
one message are full after one, so both the queue of a subscriber and that of a connection
overflow. Three sockets let a call live through a break and a reconnection.

Fairness, which is weak unless noted.
- TransactionService: `Step`; a handler that has started is not suspended.
- ExpiringSet: `Tick` and `Cleanup`; time passes and the event loop fires due alarms.
- ThreadedRequests: every thread is scheduled and alarms fire. `RequestsSpec` does not assume that a
  request ends (`Run` is not fair); `EndingSpec` does, to show that the hang of `close` is
  not the fault of a request.
- NodeConnections: the event loop takes requests, tasks end (`wait_for` bounds them), retry
  alarms and connection timeouts fire, and asyncio reports the loss of a transport that was
  closed or aborted. Messages, losses of healthy sockets and updates of peers are not fair.
- TxSync: the alarm of a sync fires, and its time limit passes. Pongs may be lost.
- OutputBuffer: time passes, and the alarm that flushes the buffers fires.
- Feeds: the `async_close` task runs, and so does the task of a connection (`EndConnection`):
  `handle` returns once `disconnect_event` is set, and its `finally` closes the connection.
- WsProvider: the tasks run, a call that has begun among them (`CallStep`). `Connect` is strongly
  fair: an endpoint that is tried for ever accepts at some time. This is an assumption about the
  server.
- AlarmQueue: the loop of `fire_alarms` goes on, callbacks end (`LoopStep`) and time passes.

The runs Background, Services and Protocol state the fairness of each part for the steps in which
that part moves.

Deadlock is not checked for Background, CloseReturns, Protocol, WrongConversions, Version22,
SyncRefresh and Services: a closed pool, a scenario that is over, a cache without a sync to come,
a closed connection and a bounded number of messages or alarms have nothing more to do. The
other runs check it.

## What the runs found

*Reassign.* Assigning `s` to `t1`, then to `t2`, and removing `t2` leaves `s` in the set
of `t1` and nowhere else. When `t1` expires, `remove_sid_by_key` raises `KeyError`
(`transaction_service.py:446`); the alarm queue drops the alarm while
`tx_without_content_alarm_scheduled` stays True, and short ids without contents never
expire again.

*CloseReturns.* A worker reads `_stop_requested` as False, `stop` sets it and notifies,
the worker takes the lock, finds nothing to do and waits (`thread_pool.py:91-95`). `join`
never returns.

*NodeIdLost.* A proxy may have two connections. The one that comes later takes the entry of the
node id; when the earlier one is lost, `delete` removes the entry without asking whose it is
(`connection_pool.py:169`), and the later one, still in the pool, is not found by its node id.
`IndexesAgree` therefore asks for the entry of an authenticated connection only where the node
has one endpoint, and otherwise that an entry, if there is one, leads to a connection of the node.

*WrongConversions.* Each of the four sets of scenarios violates `AllArrive` by itself.
- Transactions to and from version 7 are cut as if the time had four bytes; it has eight
  (`tx_message_converter_v7.py:38`).
- In the statistics of version 14, and of 11 to 13 which take its converter, the memory is copied
  twice (`bdn_performance_stats_message_converter_v14.py:104`), and the message is longer than it
  declares.
- Version 17 introduced statistics of several nodes, and its message factory reads them, but its
  converter is that of version 16, which copies the fields of one node at fixed places
  (`message_converter_factory_v17.py:15`).
- From version 18 the count of nodes, two bytes, is read as four
  (`bdn_performance_stats_message_converter_v18.py:83`). With an IPv6 address behind it the count
  is huge and the conversion raises, or runs out of memory before.

`Wrong` in MCVersionedLink names the first three, which Protocol leaves out; `FieldsArrive` and
`InStep` except the messages of the fourth.

*Version22.* `bloxroute_version_manager.py:5` imports the modules of version 22 in place of the
factories in them. Version 22 counts as supported, but a module cannot look at a header, and the
connection is closed at the hello. `InStep` holds of all other supported versions.

*SyncRefresh.* A sync by time stops at an entry whose short id was assigned again: the entry has
kept its place in the queue and has a later timestamp. The next call starts from that timestamp
and passes over the older entries behind it (`tx_sync_service_helpers.py:65`); then the peer is
told that the sync is complete. `MissingOnlyPassedOver` says that this is the only way to leave
something out.

Three things the passing runs step around.
- `ExactClock = TRUE` breaks `NothingStranded`: `register_approx_alarm` relies on an alarm due
  exactly `expiration_time` from now, and `remove_expired` spares an item of exactly that age.
  An alarm that runs at its exact `fire_time` leaves the item with no cleanup to come. With a
  real clock this instant is unlikely.
- `ClosedStaysClosed` is about a websocket provider that was connected when `close` was called. A
  `close` during a reconnection is undone by an attempt that succeeds, since `connect` sets `running`
  again (`abstract_ws_provider.py:107`); the model has these behaviours.
- `CallsEnd` lets a call wait while its socket is open. A response without an id ends the listener
  (`abstract_ws_provider.py:228`) and leaves the socket open, so the calls sent on it wait until it
  breaks; the model has these behaviours too.

## Proofs

All of them are for every value of the constants that the named assumptions allow. A theorem
about a property names the definition that the run checks. There are seven modules: those of the
cache (TransactionServiceProofs), its sync (TxSyncProofs), the threads
(ThreadedRequestsProofs), the alarms and what expires by them (AlarmProofs), the connections
(NodeConnectionsProofs), what they send (OutputBufferProofs) and the
websockets of both sides (WebsocketProofs).

**TransactionServiceProofs**: `TypeCorrect` in both environments; `MappingsAlwaysAgree`,
`EverythingAlwaysExpires`, `AlarmAlwaysPending`, `MemoryAlwaysBounded` assuming
`Reassign = FALSE`. None of the four is inductive alone. `IInv` is their conjunction with
`TypeOK` and two more parts. `FlagsAgree` says that the `*_alarm_scheduled` flags are true
exactly for the alarms in the alarm queue; an addition trusts the flag. It holds because no
callback raises, and none raises because `MappingsAgree` makes every `del` find its key, so the
parts need one another. `AssignsPermitted` says that the assignments a sync message has still to
make are for short ids that no other transaction holds; the eviction loop may run in between.

In the same module, `SizeAlwaysIsSum`, for finitely many transactions, in both environments. Given
that the contents are lengths the property is inductive; the work is in the sum. `SumFunction` is
a fold that takes members with `CHOOSE`, so it must be shown to exist, and not to depend on the
choices, before one can say that a store or a removal changes it by one summand. The induction is
on the size of the set, stated for a set of numbers (`SetInduction`) and shown from the
well-foundedness of the naturals.

**TxSyncProofs**: `OneMessageAtATime` and `CompleteTellsAll`, from `SyncConstants`. For the first,
the sync under way has at most one ping or pong out and its items only before that ping
(`OnePing`), nothing of it is out once the answer is known (`NothingOut`), and the nonces that
count as an answer are of this sync (`Current`); a pong of an earlier sync, or a ping that was
forgotten, thus releases nothing. For the second, `SyncOwed` says that each short id promised and
still assigned was heard, is on the wire, was passed over, or is still to come: in the snapshot,
behind `start_time` in the queue, or in the buffer. The way by time needs `Queues`: what is
assigned is in the queue, with a time that is past; an entry that a message moves `start_time`
over is then in the message, in an earlier one, or passed over, and a second assignment only moves
an entry behind `start_time`, where it is still to come. `CompleteKept` carries the promise to the
message that says it is complete.

**AlarmProofs**: of AlarmQueue, `ApproxAlwaysInStep` and `ApproxAlwaysSpaced`, assuming
`AlarmConstants`: the numbers are naturals and a function is registered in one way only. The
assertion of `fire_alarms`, that the alarm just fired heads the heap of its function, needs
`FiringFirst`: what a callback registers meanwhile is due later. That the heap has a head at all
is shown from the well-foundedness of the naturals.
Of ExpiringSet, `TypeCorrect` and `CleanupsAlwaysSpaced`, at any clock, and `NeverStranded`,
assuming `~ExactClock`. The invariant says that an item that has not expired is covered by an
alarm that fires no earlier than it expires (`Covered`), and that a queue with an item has an
alarm (`QueueWatched`). After a cleanup what is left is an item that has not expired or one
behind such an item, and the alarm that covers that one is not the alarm just fired.

**ThreadedRequestsProofs**: `TypeCorrect`, `NothingIsLost`, `RunsOnce`, `CallsBackOnce`,
`OutcomesAreFinal`. `NothingLost` counts places, so the invariant says instead that a request is
at one index of the queue or in the hands of one worker and never both (`OnePlace`), that it is
somewhere while it has no outcome (`Tracked`), and that what is somewhere has not been run before
its turn (`Unhandled`). `Sending` is about the window between `submit` and `add_done_callback`,
in which the future may already be done.

**NodeConnectionsProofs**: `TypeCorrect`, `IndexesAlwaysAgree`, `MarksAlwaysLive`,
`AlarmsAlwaysOwned`, from the assumptions on constants in ConnectionPool and NodeConnections. The
pool is handled apart from the node: `GoodPool(p, cs)` says that the indexes of `p` describe the
connections `cs`, and `add`, `delete` and `index_conn_node_id` keep it, so that
`update_connection_type`, which is made of the three, does. An entry of one connection in the
index of types goes as a whole, which is right only because the entry is that connection. For
the steps of a connection, `Becomes` says what never changes in an object, and changes of fields
are composed from that. `OnlyOutbound` is what makes the retries well typed: what is retried was
opened by the node.

`IndexesAgree` asks more of the node ids than that they lead to nothing wrong, and `IInv` does not
give it. `NInv` adds that the node opens sockets only to endpoints there are (`Sources`), that a
pooled connection has the node id behind its endpoint or none (`Named`), and `NodeIdLeads` itself.
Where a node has one endpoint these leave it one pooled connection, for an endpoint has one
(`OnlyOne`): adding it sets the entry, by either way of `on_connection_authenticated`, and the loss
of any other connection carries another node id, so `delete` leaves the entry alone.

In the same module, `LivesAsPromised`, that NodeConnections implements the safety part of
ConnectionLife. Two facts are added to the invariant: a pooled connection with a peer the node
connects to was opened by the node (`FromMe`), for otherwise an SDN's lost connection would not be
retried; and a peer whose task has made a connection is known (`Remembered`), for a task that is
cancelled late may drop it. Each action moves the life of at most the peers it is about.

**OutputBufferProofs**: `MessagesAlwaysWhole`, for any number of messages of any sizes and any
`min_size`, from `OutputAssumption` (a message has at least one byte: its header).
`WholeMessages` speaks of what was written and what is unsent as one sequence of bytes, which
says too little of the places where the next message may go. `OutputInv` says that the
batch and every piece of the buffer are whole messages (`Sound`), that what was written is whole
messages followed by what `index` counts of the first piece, and that these with all the buffer
holds are in order, messages put to the front aside (`Fits`). A prepended message therefore goes
between two pieces, never into one; `advance_buffer` moves a piece from one side to the other when
its last byte is sent; `safe_empty` drops pieces behind the first. `Joined`, which joins the
pieces, is a recursive function, and what it does with a piece more at either end is shown by
induction over the number of pieces, again with `SetInduction`.

**WebsocketProofs**: of Feeds, `NoMessageSkipped`, `NothingStays` and `ServedIsOpen`. For the
last two, a subscription belongs to one connection, so that closing one leaves the tasks of the
others alone. `NoGaps` says only what clients have got and needs to know what the two queues on the way
hold. `GapInv` counts, for each subscriber, the messages still pending (due and not delivered),
and says: every queue is in the order of publication (`InOrder`); the messages of a subscriber go
through one connection (`OnePath`); what is pending and older than a message in the queue of a
connection is ahead of it there (`OutWhole`); what is pending and older than a message in the
queue of a subscriber is ahead of it there or in the queue of the connection, and as long as the
feed adds to the queue of the subscriber all that is pending is in one of them (`MessagesWhole`).
The last part is why a subscriber whose queue was full must be dropped by the very publication
that finds it full. The lemmas are about queues as values, one for each thing that happens to one.
Of WsProvider, `ClosedForGood`: only the current socket can be open or watched, and a reconnection
begins when the socket is gone and its check has ended.

Only model-checked: every liveness property, since the prover has neither fairness nor `ENABLED`;
and the five properties of VersionedLink, which compare layouts of fixed messages field by field:
they have no parameter to generalize over but the ways a stream is cut, and packing is a fold over a layout.

## What the models abstract

TransactionService leaves out the history of removed transactions and its cleanup, the
statistics, and the null short id (an early return). A sync message carries one transaction
and a block cleanup one hash: longer ones are sequences of these. The number of expiries per
alarm is any number, for the limit of 500. ExpiringSet leaves out the values of
the dictionary; assigning to a present key there touches nothing that is modelled.
ThreadedRequests starts with a started pool, and one caller submits and closes.

NodeConnections abstracts the Fibonacci delays of retries with the times of all alarms. The
special case of addresses that begin with 172 is left out, and so is `update_port`, which has no
caller. The node id in a hello is the one behind the endpoint. The type the node asks for and the
certificate agree about being an SDN (`NodeConstants`). `num_retries_by_ip` is counted up to
`RetryCap`; a step that could double the retry of a peer is taken only while fewer than `MaxAlarms`
of its retries are due.

VersionedLink abstracts data to one value per field; the widths are those of the code. TxSync lets
a message end anywhere, since size and time decide it, runs one sync of a network at a time, and
makes no two assignments at the same instant. Of a head that is cut through, `CutThroughAgrees`
takes those that reach past the broadcast type. Feeds charges one account and numbers messages;
whether a message matches a filter, or the filter raises, is free. AlarmQueue registers under the
lock, so threads that register are serialized already. OutputBuffer has bytes named by their
message.

## Not modelled, and why

- The extension cache is a wrapper of a C++ library that is not in the repository; the Python side
  repeats the transaction cache.
- The history of removed transactions is written and cleaned but decides nothing else.
- HTTP clients and servers, JSON RPC, TLS, statistics and data classes do I/O, parsing or logging
  and hold no state that interleaves.
- The encrypted cache, the limited collections and the broadcast service are sequential wrappers of
  collections that are modelled elsewhere or trivial; nothing in them depends on order between
  actors.
- `MessageTracker` is not used by anything in the library; its users are not here.
- The shutdown of a node closes every connection and stops; what remains is the loop's own.
- The notification queues of the websocket client hold what the server sends in order, one queue
  per subscription, and share nothing with the calls.
- Payloads of blockchain messages belong to the blockchain protocols, which are other packages.
