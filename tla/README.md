# Formal models of effect-nats

effect-nats wraps the official NATS SDK (nats.js) in Effect: connections become scoped services,
callbacks and async iterators become streams, and acknowledgements follow from how a handler's effect
ends. The library itself is thin; what can go wrong lies in how three schedulers meet - Effect's
fibers and scopes, the SDK's callbacks and generators, and the server with its timers. These models
are about that meeting.

`src/src/` is the library, `src/repos/nats.js` the SDK it is built on and `src/repos/effect-v4` the
Effect runtime; all three are modelled from their source where a step of the library runs through
them. The NATS server is not in the repository: it is modelled from how the code uses it, and marked
external.

## 1. Inventory

| Component | State it keeps | Operations | Talks to |
|---|---|---|---|
| `JsMessage` | the SDK's `didAck` flag of each delivery | `ack nak term working confirmAck`, `tapAck`, `mapEffectAcked` | server (published answers, one request) |
| `JetStream` | a consumer handle; the SDK's pull window | `consumer`, `consume`, `fetch`, `next`, `publish` | SDK `PullConsumerMessagesImpl`, stream adapter |
| `internal/iterator` | scope with two finalizers per run | `streamFromQueuedIterator` | SDK iterator, Effect scopes and channels |
| SDK `QueuedIteratorImpl` | queue, signal, done/err, generator position | `push`, `stop`, `iterate`, `return` | subscription callbacks, event loop |
| `NatsClient` | one SDK connection: its buffer, who waits for a PONG, the loop that dials | `make`/`release`, `publish`, `request`, `requestMany`, `subscribe`, `flush`, `status`, `closed` | SDK protocol handler and transport |
| `internal/connect`, `NatsConnector`, `NodeConnector` | a process-wide semaphore; the SDK's global transport factory | `connect` | SDK `connect` |
| `NatsKv` | none of its own; a `firstEntry` flag per watch | `get put create update delete purge keys history watch`, `KeyValueStore` | SDK `Bucket`, stream of the bucket |
| `NatsMicro` | error counters per endpoint | `make`, `runEndpoint`, `handleOne`, `patchStats`, `client` | SDK `ServiceImpl`, stream adapter |
| `NatsObjectStore` | none; a put is chunks, then a metadata entry | `put get delete list watch` | SDK object store |
| `JetStreamManager` | none; an offset per listing | CRUD calls and paginated listings | JetStream API requests |
| error mappers, option translators, messages, headers | none | pure functions | - |

Behaviours that are hard here, with what makes the component correct:

- **Acknowledgement policy.** The server knows messages, not deliveries: an answer that is late, for a
  delivery that expired, still decides the message while another worker is running it. Handlers may
  answer by themselves before the policy does; fibers are interrupted between the end of a handler and
  the answer; answers are fire and forget and lost with the connection. Correct means: a message is
  done only if some handler accepted it, discarded only if some handler refused it, answered once per
  delivery, and never handed out again after a confirmation that returned true.
- **Stream adapter.** Two finalizers (`iter.return()` and `onRelease`) run in an order that depends on
  how the run ends; both can wait. Correct means: in order, without gap or repetition, complete when
  the source was complete, no wakeup lost, and closing ends with the interest removed.
- **Pull window.** Requests overlap with deliveries, expiry, missed heartbeats and reconnects; the window
  must neither run dry nor grow without bound.
- **Connections.** Drain against a timeout, close during drain and during a dial, publish while draining,
  PINGs in flight when the connection drops. Correct means: what a drain or flush has confirmed is at
  the server, and a release ends and leaves nothing open. Dials are serialised by a semaphore against a
  global that reconnects read too.
- **Key-value.** Compare-and-set operations composed of several requests; watch's catch-up against live
  updates.
- **Services.** Failures of handlers and of answers stay with their request and are counted; the SDK
  couples the endpoints, so that the end of one is the end of all; three parties may stop a service while
  handlers run. Correct means: every request is settled or the service ends as a whole, and its scope
  closes with nothing left running.
- **Object store.** A put is many publishes, a record and a purge; a failed one is rolled back; readers
  and writers of one object overlap. Correct means: each call takes effect at one moment, a get is whole
  or fails, the live object has its data, and no data is left behind.
- **Manager.** Paginated listings under concurrent deletion.

`PROJECT.json` lists every hazard at its line and the property that covers it, or why none does yet.

## 2. Plan

In order of importance. A, B, E, F, G and H are modelled as far as section 3 says, and all safety
properties their runs check are proved.

| | Module | Models | Abstract specification | State |
|---|---|---|---|---|
| A | `JsDelivery` | acknowledgement policy, workers, server | `AtLeastOnce` | done; safety and the refinement proved |
| B | `StreamAdapter` on `QueuedIterator` | one run of a stream | next: a scoped flow (acquire, hand out a prefix, release once) | done; safety proved |
| E | `MicroService` on `QueuedIterator` | endpoints, answers, counters, stopping | - | done; safety proved |
| F | `KvBucket`, `KvWatch` | compare-and-set operations, clear; watch and resuming it | next: an atomic map with revisions | done, safety proved; next `size` and `modify` |
| G | `ClientLifecycle` | publish, flush, drain, close, release, dialling | - | done; safety proved |
| H | `ObjectStore` | put, get, delete of one object | `AtomicObject` | done; safety and the refinement proved |
| C | `PullConsumer` | pending, threshold, heartbeat, reset | a bounded window that is always refilled | to do: window bounded, never dry for ever |
| D | `Connector` | semaphore and transport factory | mutual exclusion per dial | to do: a dial uses its own transport |
| I | `Paging` | offset listing under deletion | a listing of a set | to do: what is there throughout is listed |

To prove next: that `StreamAdapter` implements a scoped flow and `KvBucket` an atomic map, both by the
invariants that are proved already; and from `RunInv` that a run which is over has run each finalizer once.

## 3. Modules and how they correspond to the code

### A. `JsDelivery`, `AtLeastOnce`, `JsDeliveryProofs`

A worker is a fiber running `consumer.consume() |> JsMessage.tapAck(handler) |> runDrain`; several share
one durable. `phase[w]` is where that fiber is: pulling (`idle`), in the handler (`running`), waiting in
`confirmAck` (`confirming`), past the handler with the exit `applyAckPolicy` matches on (`success`,
`fail`, `die`, `interrupt`), or not there (`down`). `buffer[w]` is the queue of the SDK iterator,
`didAck` the SDK's flag, keyed by the delivery - the pair of message and delivery count that a reply
subject encodes. `wire` holds published answers, `replies` the server's confirmations.

| Actions | Code |
|---|---|
| `Take`, `HandlerEnds`, `ApplyAckPolicy` | `tapAck`, `mapEffectAcked`, `applyAckPolicy`, `nakOnFailure` |
| `HandlerAnswers`, `HandlerWorking`, `Publish` | `ack nak term working` and `JsMsgImpl.doAck` |
| `HandlerConfirms`, `ConfirmSucceeds`, `ConfirmTimesOut` | `confirmAck` and `JsMsgImpl.ackAck` |
| `Deliver`, `DeliverLost`, `AckWaitExpires`, `Receive`, `StatusAfter` | the server, external |
| `Interrupt`, `Crash`, `Restart` | interruption of the fiber, end and restart of the process |
| `Disconnect`, `Reconnect` | `ProtocolHandler.disconnected`, `resetOutbound`, `prepare` |

`HandlerEnds` and `ApplyAckPolicy` are two steps because the fiber may be interrupted between them.
`sent` and `history` are history variables: no action reads them. `sent[d]` is the sequence of final
answers published for the delivery `d`, so that a second one of the same kind is seen as well.

`AtLeastOnce` is the promise: attempts are bounded, a message is done only after an attempt accepted it,
rejected only after one refused it, given up on only when the budget is spent. `Fate` is the refinement
mapping.

Abstractions: the pull window is not modelled (any deliverable message may be delivered to any connected
worker); the wire is an unordered set, which is more than one TCP connection does; `ack_wait` is not
timed, so it may expire at any moment, and a progress report, which only restarts it, changes nothing;
concurrency within one stream is modelled by further workers.

### B. `QueuedIterator`, `StreamAdapter`, `QueuedIteratorProofs`, `StreamAdapterProofs`

`QueuedIterator` has no variables: each SDK operation is a function from one record - the iterator's
fields and its generator's position - to the next, because between two suspensions nothing else runs.
The generator suspends at `await this.signal` (`waiting`) and at `yield` (`paused`). `promise` and
`value` are what the last `next()` came to.

`StreamAdapter` is one run of `streamFromQueuedIterator` over one of three sources, told apart by what
their `onRelease` does: core subscriptions drain for at most 100 ms, JetStream's `consume` and `fetch`
call `close()`, everything else stops the iterator. A run that ends closes its scopes; `pending` lists
the finalizers still to run. The order is the runtime's: an end seen downstream closes the scope of the
whole run in reverse order of registration (`return`, then `release`), while a pull that fails or is
interrupted first closes the scope in which `acquireRelease` ran (`release`, then `return`).

| Actions | Code |
|---|---|
| `Arrive`, `SourceEnds`, `SourceFails` | `ProtocolHandler.processMsg`, `SubscriptionImpl.callback`, `push`, `stop` |
| `Pull`, `GeneratorWakes`, `Receive`, `Finish`, `Fail` | `Stream.fromAsyncIterable` over `QueuedIteratorImpl.iterate` |
| `Acquire`, `AcquireInterrupted` | `Effect.acquireRelease` |
| `CutBetween`, `CutPulling`, `CutPrefetching` | an end downstream, an interruption while pulling, an end downstream of a concurrent stage |
| `BeginFinalizer`, `Returned`, `Released`, `DrainEnds`, `Close` | `scopeCloseFinalizers`, `iter.return()`, `releaseSubscription`, `closeConsumerMessages` |

Abstractions: the queue holds messages and the two functions that matter (stop, stop with an error);
counters, the slow-consumer notice and the iterator's yield time are left out; a consume's pull requests
are not modelled, and messages arrive whenever there is interest.

### E. `MicroService`, `MicroServiceProofs`

One service with its endpoints, each a subscription (`sub[e]`), the SDK's iterator (`iter[e]`, the record
of `QueuedIterator`) and a fiber (`fiber[e]`) that keeps up to `concurrency` requests in its `window[e]`.
`cause` and `done` are the SDK's `_stopped` and `_done`. `fate[e][n]` is what the handler made of request
`n`, `answers[e][n]` what was sent for it, and `errors[e]` the counter that `patchStats` adds.

| Actions | Code |
|---|---|
| `Arrive`, `SubscriptionFails` | the callback that `setupHandler` subscribes with |
| `Pull`, `GeneratorWakes`, `Take`, `Retire` | `Stream.mapEffect` over the iterator, sequential or concurrent |
| `HandlerEnds` with `Sent` and `Counted`, `Crash` | `handleOne`, `incrementError`, `respondError` |
| `IteratorClosed`, `CloseService`, `DrainEnds`, `Settle` | `_addEndpoint`, `ServiceImpl.close`, `SubscriptionImpl.drain` |
| `CallerStops`, `ConnectionCloses` | `RunningService.service.stop()`, the close listener |
| `CloseScope`, `Interrupt`, `Release`, `ScopeClosed` | finalizers of the scope in reverse order, then `release` |

A handler returns a payload or nothing, fails with an `EndpointError` whose description a header can hold
or not (`garbled`: `respondError` throws, `catchCause` answers 500), fails in another way, or throws
before it returns an effect (`throws`), which nothing catches. The internal subscriptions (ping, info,
stats) are drained with the others and left out, and so are a handler that responds by itself and the
SDK's latency counters. A request is a number, its arrival order.

### F. `KvBucket`, `KvWatch`, `KvBucketProofs`, `KvWatchProofs`

`KvBucket` has the bucket (`entry`, `seq`), requests on their way (`wire`), answers on their way
(`reply`), and what each client has called (`call`, `list` for a clear) and got (`result`). The server is
external: it takes requests one at a time and a conditional write only at the expected revision, 0 for a
key without any message. `call[c].step` is the place in the operation: the `first` request, create's
`look` and `retake`, clear's `list` and `purge`.

| Actions | Code |
|---|---|
| `Begin`, `Ask` | `makeBucket`, `Bucket._put`, `_doDeleteOrPurge`, `get` |
| `Receive`, `React`, `Refused`, `Vacant`, `Ended` | `Bucket.create` step by step, and the outcome `makeBucket` makes of it |
| `TimesOut` | request timeouts: the request was lost, or its answer, or it is only late |
| `BeginClear`, `Listed`, `ListEnds`, `PurgeNext`, `EndClear` | `Bucket.keys` and `KeyValueStore.clear` |
| `Serve`, `Expire` | the server, external |

A listing ends with the last key it knows of, or by `ListEnds`: any heartbeat of its consumer, and the
closing of that consumer for whatever reason, is taken for the end, whatever is still to deliver. A
listing that cannot be opened fails the clear before it has done anything and is left out. `during` and
`before` are history: what the key went through during a call, which values a clear found; so is the field
`cut` of a listing, which says that it ended with something still to deliver.

`KvWatch` extends the bucket with one watcher. Each run of the stream `Kv.watch` returns has a consumer of
its own (`cursor`); `firstEntry` belongs to the stream and survives from one run to the next
(`WatchAgain`); `WatchStart` makes a new stream, which may resume after the last entry seen. The field
`from` is history: the revision since which the runs leading up to this one have skipped nothing. `event`
carries the one of the run that emitted it, because that is what a stream resuming after it goes on from.

Abstractions: one message is kept for a key, which is `history`'s default; a late request is remembered
once however often it is repeated; reads are served by the leader, so a direct read from a lagging
replica is not modelled; keys, values and their codecs are left out. The SDK's own flag `isUpdate` is not
in the model, since the library does not use it.

### G. `ClientLifecycle`, `ClientLifecycleProofs`

The connection of one client, from the moment `acquireRelease` has it. `outbound` is the SDK's buffer,
`wire` what the socket was given, `pongs` who waits for a PONG; `closed`, `draining` and
`noMorePublishing` are the SDK's flags, `drain` and `flush` promises, `release` the finalizer. `dial` is the
loop that reconnects: at its head (`loop`), looking up the server's name or about to try the next address
(`lookup`), waiting for the socket and the server's INFO (`connect`), or for the first PONG (`handshake`).

| Actions | Code |
|---|---|
| `Publish`, `Flush`, `Send`, `Await` | `_check`, `publish`, `flush`, `sendCommand`, `flushPending` |
| `ServerTakes`, `Settle` | the server, external; `processPong`, and the continuations of those who waited |
| `CallerDrains`, `BeginDrain`, `SubscriptionsDrained`, `DrainCloses` | `drain` of connection, protocol and subscription |
| `Release`, `ReleaseGivesUp`, `ReleaseCloses`, `Close` | `release` with its timeout, `close` |
| `ConnectionLost` | the transport's `closed()` and `disconnected` |
| `NextAttempt`, `Dial`, `SocketOpens`, `Connected`, `DialFails`, `LookUpFails`, `GiveUp` | `dodialLoop`, `_doDial`, `prepare`, `dial` |

`accepted`, `promised` and `dropped` are history: what `publish` accepted, what was accepted before the
flush, what went down with a connection (in the socket, or in the buffer that `prepare` resets).
Abstractions: one server with several addresses and one subscription; the option `reconnect` is on, as by
default; a buffer is flushed in the step that fills it, not a microtask later; `close()` is one step,
while the code awaits the status listeners, which end at once; heartbeats are one more way in which
`ConnectionLost` happens.

### H. `ObjectStore`, `AtomicObject`, `ObjectStoreProofs`

One name in a bucket: its `record`, and `chunks[i]` of the object that put `i` made. A call `j` has the
operation `op[j]`, the place `step[j]` in it, the object `old[j]` it has looked up, and what its caller was
told, `result[j]`. A request that is not answered was lost, was served and only its answer was lost, or
waits in the buffer of its client (`late`) until the connection is back.

| Actions | Code |
|---|---|
| `LookUp`, `LookUpFails` | `rawInfo` |
| `Upload`, `InputFails`, `Publish`, `PurgeOld`, `Rollback` | `_put`: chunks, record with a roll-up, purge of the old object, the `catch` |
| `PublishDeletion`, `PurgeOld` | `delete` |
| `Receive`, `ReadFails` | the loop of `get` with its digest and `checkDigest`; its chunk iterator fails |
| `Begin`, `Interrupt` | `makeStore`; a fiber that is interrupted leaves the promise of a write behind |
| `Serve`, `ServeLate`, `Expire`, `ExpireRecord` | the stream, external |

`AtomicObject` knows an object, calls that take effect at one moment, and results; the refinement maps
`object` to the id of a live record. `stray` is history: objects that nobody is going to purge, because
two writers looked up the same one or an answer was lost. Abstractions: every object has the same number
of chunks, at least one; the digest is that of all chunks in their order; a chunk iterator that merely
closes is one from which nothing is received any more, after which the get goes on waiting; links, metadata updates and the
batched publish of newer servers are left out.

## 4. Runs and bounds

| Run | Instance | Shows |
|---|---|---|
| `js_delivery` | 2 workers, 1 message, 2 deliveries, every outcome and verb; symmetric | all safety and action properties, and the refinement |
| `stream_adapter` | 4 messages, every kind of source, every cut | order, completeness, nothing left open, no lost wakeup, closing |
| `stream_close_hangs` | 2 messages, JetStream | **violation**: `close()` may never resolve |
| `kv_bucket` | 2 clients, 1 key, 3 revisions, 1 late write | the conditional operations and what calls report |
| `kv_clear` | a clearing client and a writing one, 2 keys, 5 revisions, expiry; symmetric | clear takes all its list came to, and a list not cut short comes to all |
| `kv_watch` | 1 writer, 2 keys, 3 revisions, expiry, 3 runs of a watch | no last value is missed |
| `kv_is_update` | 1 writer, 2 keys, 1 run | **violation**: the catch-up says it is live |
| `micro_service` | a sequential endpoint with 1 request and a concurrent one with 3 | answers, counters, containment, and every way to end |
| `object_store` | a client that puts, one that gets and deletes; 3 calls, 2 chunks, 1 lost answer, 2 chunks that expire | atomicity, whole gets, no loss and no leak but the named ones |
| `object_get_hangs` | the same without faults | **violation**: a get may never end |
| `client_lifecycle` | 3 messages, 2 lost connections, 2 addresses, 2 attempts | confirmed is received, release ends, dialling stops |
| `client_leak` | nothing published, 1 lost connection | **violation**: a released client connects again |

Two workers and two deliveries are the smallest instance in which a late answer meets a running
redelivery, and in which the last permitted delivery differs from the first. Four messages let the
iterator hold a batch being walked, entries pushed meanwhile and one already handed out. `MaxMsgs` bounds
what one source pushes. Three revisions are a value, its deletion and a value again, with two clients the
shortest history in which each step of create meets a change. A clear needs five: a value of each key, one
overwritten behind the list's back, and the purges of both. `MaxRev`, `MaxLate` and `MaxRuns` bound
them, the writes given up on, and the runs of a watch. Three runs are the fewest in which the history of a
run differs from that of the entry a later one resumes after: one that emits an entry, a fresh one that
skips what is old and is cut at once, and one that resumes after the first one's entry.
`MaxDeliver` is the consumer's own `max_deliver`,
not a bound of the model.

In `MicroService`, `Requests` bounds what an endpoint gets: three fill a window of two and leave one
waiting in the iterator, and two endpoints are what coupling and the order of finalizers need. In
`ObjectStore`, `MaxCalls` bounds the calls, `MaxLost` the faults and `MaxExpired` the chunks that expire:
three calls are two overlapping puts and a get, or a put, its replacement and a deletion; two chunks can be
lost in part. In `ClientLifecycle`, `MaxPubs` and `MaxLosses`: three messages may be on the wire, in the
buffer and lost at once; the second loss falls into what the first left behind; `MaxAttempts` is the
client's own option.

A run of `StreamAdapter` stops when it is closed, a bucket when its revisions are used up, and a service,
an object store or a client when nothing is called any more, so their configurations do not check
deadlock; that of `JsDelivery` does.

Some properties name the exceptions the code makes. `ReleaseCompletes` says that a close that has begun
ends, unless it waits for ever in one of two places, `AwaitsMessage` (`return()` behind a pending
`next()`) and `AwaitsReader` (`close()` with nobody reading). `DiallingStops` excepts an attempt that waits
for a server which accepts the socket and is silent: `close()` has cancelled the timer of that attempt
(`NoTimer`). `FailuresContained` and `EveryRequestSettled` except a handler that throws. `LiveIsWhole`
excepts an object whose own put was reported as failed: the answer to its record was lost, and the put
purged its chunks. `ClearTakesListed` excepts the values a list that was cut short had not come to. Each
says that there is no other way. Section 7 lists those that contradict a document.

## 5. Fairness

`JsDelivery`, `KvBucket`, `KvWatch`: none; only safety is stated.

`StreamAdapter`: weak fairness of settled promises, fibers and the drain timer. No message has to
arrive, no source has to end.

`MicroService`: one weak fairness condition for everything that promises, fibers, handlers and the
answer to a drain do by themselves. No step of these can be repeated for ever, so it makes all of them
complete; that a drain is answered is what the connection's heartbeats see to, which close it otherwise.
No request has to arrive and nothing has to end the service.

`ObjectStore` (for `MissingReported` only): requests are answered, refused or given up on, and the loop of
a get takes what is there.

`ClientLifecycle`: weak fairness of the drain's and the finalizer's continuations and timer, of the loop
that dials, and of an attempt as long as its timer runs. The server need not answer anything.

## 6. What is proved

Every safety property of the passing runs is a theorem, for every value of the constants that the named
`ASSUME`s of the modules allow: any sets of workers, messages, clients and keys (finite or not), any
`max_deliver`, concurrency, number of endpoints, chunks and addresses, any choice of operations and
outcomes, and all bounds. These assumptions give the constants their types; the only others are that
numbers of which there must be one are not 0, and that an object store has a client. No fairness is used.

Each module has an inductive invariant, checked by TLC on the run's instance before it was proved; the
theorems follow from it. None of the properties is inductive by itself.

**`JsDeliveryProofs`**. That an acknowledged message was accepted says nothing of the acknowledgement still
on its way. `IInv` adds to `TypeOK`
- `Coherent`: a delivery that exists anywhere has a count the server has already reached, and a worker
  holds a delivery exactly in the phases in which it should;
- `Justified`: every answer sent or on the wire fits an event of `history`, and every status is
  justified by one;
- `Once`: a delivery in `didAck` has had exactly one final answer, every other none;
- `Replied`: a reply exists only for a message that is settled.

From it follow the invariants of the run and its action properties, `PolicyAlwaysAnswers` by way of
`OnlyThePolicyMovesOn`, and that `JsDelivery` implements `AtLeastOnce`: each step is one of its actions
under `Fate`, or a stutter.

**`QueuedIteratorProofs`** describes each operation of the SDK's iterator by its effect, so that the modules
on top never look into the loop: it waits with an empty queue, yields the first message, or ends
(`LoopsTo`). `AtRest` is the invariant of an iterator between two suspensions. `Queued(q, h, a)` says of one
that was pushed `1 .. a`, of which `h` were received: batch and queue together hold `h + 1 .. a` in that
order, then functions only. All operations keep both.

**`StreamAdapterProofs`** (`RunInv`). `HandedInOrder` and `EndIsComplete` need what is still queued
(`Lossless`) and that no function is queued while the source may push (`Receptive`); `NothingLeftOpen`
needs what each finalizer that has run has brought about, in either order (`Finalized`, `Started`), and how
the run's phase goes with the finalizers still due (`Course`); `Complete` says that while the run goes on
only the source ends the iterator.

**`MicroServiceProofs`** (`ServiceInv`). `Served` is the queue of each endpoint, with `fate` in the place of
what was handed out, and that a request is asked for only with room in the window; `Coupled`, that the
subscriptions are given up together; `Contained`, who may have stopped the service. `FailuresContained`
needs all three: a service stops by itself when an iterator is done, and an iterator is done only when the
service gave up its subscription, when the scope is closing, or when a handler threw out of its fiber. `RequestsTakenInOrder`
(requests reach the handler in the order of their arrival) is proved without being a property of the run.

**`KvBucketProofs`**. `Coherent`: a client waits for at most one answer, which fits the step it is in.
`Warranted`: every request, answer and result names a revision of which it is known once and for all
whether it is the one of a value; it makes `BucketInv`, and with it `CreateNeverOverwrites` and
`UpdatesOnTop`, however late a request is served. `Remembered` adds that the entries a call has witnessed
include the one its answer speaks of (`ReadsAreCurrent`, `SuccessIsMine`); `Tracked`, that every value a
clear has found and that is still there is `Accounted` for: the list has not come to it (`Beyond`), it is
queued, or its purge is out and not answered. `Beyond` adds that a list which has ended leaves nothing
ahead of it unless it was cut short, whence `ClearTakesListed`; a list may be cut short at any moment.

**`KvWatchProofs`** (`WatchInv`). `Followed`: a run has shown all it has passed since its `from`, the run that
emitted the last entry had done so up to that entry, and so had the runs before the stream was made.
`ViewCurrent` follows, across every run and stream a watcher went through. The attempt to prove it showed
that the history `from` was wrong as first written: a stream that resumed after an entry took over the
history of the run before it, which may be a later one than the run that had emitted the entry. The model
and its bound were corrected. `WatchIsABucket`: the watched bucket implements `BucketSpec`, so that all
that is proved of `KvBucket` holds of it.

**`ClientLifecycleProofs`** (`ClientInv`). That an answered drain means received messages needs to know which
PING a PONG is for. `Queued(pongs, Line, ...)` says that those who wait match the PINGs on the line one by
one, in order, and that each message promised to one of them is ahead of its PING, has been received, or
went down with a connection (`Ahead`); it holds while connected or
dialling an address (`Ordered`), not while a name is looked up, when those of a lost connection still wait. `Accounted`: while the connection can come back (`Alive`),
an accepted message is received, dropped with a connection, or on the line. `Barred`: nothing is published
behind the PING of a drain. `Shape` relates the flags of the connection.

**`ObjectStoreProofs`** (`ObjectInv`). `CallOK`: what a call has done at its step; `Buffered`: what a request
in a client's buffer may still do, and that there is one of a kind for a call; `RecordOK` and `ChunksOK`:
whose data is there, and that data is purged only if its record is retired or its own put has failed;
`OneByOne`: a fiber makes one call after the other; and `NoOtherLeak`, which is inductive with these. The
refinement of `AtomicObject` is proved step by step:

| Step of `ObjectStore` | Steps of `AtomicObject` |
|---|---|
| `Begin` | `Begin` |
| `LookUp` of a get | `Read`, and `Return` when there is no object |
| `LookUp` of a deletion that finds no record | `Write` and `Return` |
| a record is served (`Publish`, `PublishDeletion`, `ServeLate`) | `Write`, and `Return` when the call ends with it |
| `PurgeOld`, `Rollback`, `Receive`, `LookUpFails`, `Interrupt`, when they end a call | `Return` |
| `ExpireRecord` | `Vanish` |
| every other step | a stutter |

Only model-checked: the liveness properties `ReleaseCompletes`, `NoLostWakeup`, `EveryRequestSettled`,
`NoHalfService`, `ScopeCloses`, `ReleaseEnds` and `DiallingStops`, since fairness and ENABLED are out of the
prover's reach; and the four disagreements, which are behaviours that TLC exhibits. No proof is by
induction over a sequence, for which the provers cannot use the library's theorems: `Queued`, `Lossless`
and their kind speak of the elements of a queue by their index, and each operation changes one end of it.

## 7. Disagreements found

Shown by a run:

1. `close()` of a JetStream stream waits for a reader that is gone (`stream_close_hangs`).
2. `isUpdate` is true from the second entry of a catch-up on (`kv_is_update`).
3. The stream of a get whose object is replaced or deleted meanwhile neither ends nor fails
   (`object_get_hangs`).
4. A client released while its loop looks up a name, or between two addresses, connects afterwards, and
   nothing closes that connection (`client_leak`).

Visible in the models as the exception a property names, or in a behaviour no property forbids:

5. A handler that ends in its own interruption has its message terminated, so it is never delivered
   again, while `src/docs/DESIGN.html:966` says it comes back (`TermedOnlyIfRefused` counts the
   interruption as a refusal).
6. A stream cut while a concurrent stage prefetches keeps its subscription until another message comes
   (`AwaitsMessage`), while `src/docs/DESIGN.html:671` says that the interest is removed.
7. An error that reaches an iterator between two pulls is swallowed: the stream ends as if complete, while
   `src/docs/DESIGN.html:670` promises each iterator error (`EndIsComplete` speaks of sources that ended).
8. `create` says `KeyExistsError` of a key that was deleted all through the call, when another deletion
   falls between its look and its second write.
9. A heartbeat, or the closing of its consumer, ends the listing of a clear, which then succeeds and leaves
   the values not yet listed, while `KeyValueStore.ts:61` says "Removes all entries."
   (`ClearTakesListed`, where `cut`).
10. A handler of a service that throws before it returns an effect stops the whole service
    (`FailuresContained`), while `src/docs/DESIGN.html:1265` says that it never crashes on a bad request.
11. A request whose error answer cannot be sent, because no header can hold its description, counts as two
    errors, while `src/docs/DESIGN.html:1269` to 1272 says that the statistics stay accurate
    (`ErrorsCounted`, where `garbled`).
12. A put whose record was published but not acknowledged purges the chunks of the object that is live
    (`LiveIsWhole`).
13. Two puts that looked up the same object before either wrote its record both purge that one, and the
    chunks of the put that is replaced stay for ever (`NoOtherLeak`, in `stray`).
14. `close()` cancels the timer of the attempt under way, which then waits for a silent server without
    end (`NoTimer`).
15. Who waits for a flush when the connection closes is never told: `close()` settles no PONG.

## 8. Not modelled

Error mapping, option translation, messages and headers are pure and kept to unit tests. The connector
and the manager follow in the plan (D, I), and so do the pull window (C) and `size` and `modify` of the
key-value store. `request`, `requestMany` and `rtt` are single requests of the SDK; the status stream
shares one SDK iterator between all its readers, whose order is that of `StreamAdapter`. Reads of a
stream's log (history, list and watch of an object store, get of an old revision) need the log, of which
the models keep the last message of a subject. The Effect runtime and the SDK are modelled only where a
step of the library runs through them; the rest of `src/repos` (the AI, SQL and CLI packages of Effect, the
SDK's management API and its tests) is vendored code the library does not use. Throughout, payloads,
subjects, names and wording are left out.
