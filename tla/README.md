# Go_warmup in TLA+

This directory holds a TLA+ development of Go_warmup: models of its programs, the
TLC configurations that check them on small instances, and proofs that TLAPS
checks for every instance. Most of it is about `7-day-golang`, the RPC framework
*geerpc*, which is where the repository has concurrency, failure and a protocol
of its own.

- [The system](#the-system) lists the parts, their state and what is hard about them.
- [Modules](#modules) says which module models what, and how it corresponds to the code.
- [Runs](#runs), [Fairness](#fairness), [Proofs](#proofs) say what is checked and proved.
- [What the models show of the code](#what-the-models-show-of-the-code) lists the disagreements found.
- [Plan](#plan) and [Not modelled](#not-modelled) say what is left.

To check: `tlc -config RpcClient_gob.cfg MCRpcClient`, `tlapm RpcClientProofs.tla`.

## The system

### geerpc (`src/7-day-golang`)

| Part | State | Operations | Talks to |
|---|---|---|---|
| **codec** (`codec/gob.go`, `json.go`) | a connection, a buffered writer that keeps its first error, a decoder | `ReadHeader`, `ReadBody`, `Write`, `Close` | the stream to the other end |
| **client** (`client/client.go`) | `seq`, the map `pending`, `closed`, `shutdown` under `mu`; the header `h` under `sending` | `Go`, `Call`, `send`, `registerCall`, `removeCall`, `Close`; the goroutine `receive`, `terminateCalls` | users, through `Done` channels and contexts; the server, through the codec |
| **server connection** (`service/server.go`) | the loop of `ServerCodec`, a mutex `sending`, a WaitGroup; per request two goroutines, two unbuffered channels and one shared header | `ServerConn`, `readRequest`, `handleRequest`, `sendResponse` | the client; the methods of the services |
| **service** (`service/service.go`, `server.go:23-55`) | a `sync.Map` from name to service; the methods of each, found by reflection | `Register`, `newService`, `registerMethods`, `findService`, `call` | the methods |
| **HTTP transport** (`client.go:280-293`, `server.go:236-256`) | the buffers through which both ends read HTTP | `NewHTTPClient`, `ServeHTTP` | net/http, the RPC client and server that follow |
| **demo program** (`main/main.go`) | three WaitGroups | `startRegistry`, `startServer`, `call`, `broadcast` | everything above, in one process |
| **dialling** (`client.go:137-220, 280-313`) | the goroutine that runs `NewClient`, an unbuffered channel | `Dial`, `XDial`, `dialTimeout`, `NewClient` | the server's `ServerConn` or HTTP `CONNECT` |
| **registry** (`registry/registry.go`) | a map from address to the time of its last heartbeat | `putServer`, `aliveServers` (which also deletes) | heartbeats (POST), discoveries (GET) |
| **heartbeat** (`registry.go:100-127`) | one goroutine per server, a ticker, `err` | `Heartbeat`, `sendHeartbeat` | the registry |
| **discovery** (`xclient/Discovery.go`, `discovery_registry.go`) | the cached list, `lastUpdate`, `index` | `Refresh`, `Get`, `GetAll`, `Update` | the registry; its users |
| **XClient** (`discovery_registry.go:91-182`) | a map from address to client | `dial`, `Call`, `Broadcast`, `Close` | a discovery, clients |

What is hard, and which property stands for it:

- *Who completes a call.* A goroutine whose `Write` failed, the receive goroutine, a
  cancellation and `terminateCalls` all take calls from `pending`; between taking one
  and `done()` no lock is held. Exactly one may complete it (`DoneOnce`,
  `CompletedIsFinal`), somebody must (`NoOrphan`, `AnsweredCompletes`), and with the
  right answer whatever the order of the replies (`ReplyMatches`).
- *Two goroutines per request.* The handler that times out and the worker that
  returns share a header, a codec and the WaitGroup that decides when the
  connection is closed (`AnsweredOnce`, `WritesExclusive`, `NoWriteAfterClose`,
  `ReplyMeansExecuted`).
- *A stream with two readers.* What one side leaves unread, or reads ahead, is the
  next thing the other decoder meets (`DiscardKeepsReceiving`, `RequestIsAnswered`,
  the refinements of `GeeRpc`).
- *Failure.* A `Write` may be lost without an error, cut after the header, or fail;
  either end may close at any moment. The promise to the user must survive
  (`Promise`, `SuccessMeansExecuted`).
- *Time.* Heartbeats, expiry and a cached list, each with its own clock and its own
  timeout (`NeverDropsBeating`, `RefreshedIsRecent`, `LiveIsRegistered`).
- *Locks held across blocking calls.* `done()` under `mu` and `sending`, `http.Get`
  under the discovery's mutex, `XDial` under the XClient's (`DoneWaitsForReader`,
  `ContextHonoured`, `OneConnection`).
- *Shared connections.* Goroutines share the clients of an XClient while clients break,
  dials time out and `Close` empties the cache; the goroutines of `Broadcast` race
  for its error and its reply, and cancel each other (`NoLeak`, `OneConnection`,
  `CauseReported`, `BroadcastComplete`, `BroadcastEnds`).
- *Registration while requests come in.* Two values of one type name race for the
  map, and requests look methods up meanwhile (`RegisteredIsServed`).
- *Changing protocols on one connection.* Either end drops the buffer it read HTTP
  through (`HandoverLosesNothing`).
- *Starting up.* Goroutines listen, register, announce themselves and serve, and only
  WaitGroups order them; what they send at once may be read with the Option
  (`CallsReachServers`, `MainEnds`).

### The rest of the repository

They do not interact with geerpc or with each other.

| Part | State | Operations | What is hard |
|---|---|---|---|
| **leaky bucket** (`FlowControl/leaky_bucket`) | `cur`, `lasttime`, a mutex | `Check`, `Take` | the outflow is counted request by request, by admitted and refused ones alike, at a rate that is not the documented one (`AdmissionIsBounded`, `RefusalsCostNothing`, `RefusesForCause`) |
| **token bucket** (`FlowControl/token_bucket`) | a channel of tokens, a ticker | `Init` with its goroutine, `Comsume` | the refill blocks on a full channel while ticks wait or are dropped (`BurstIsBounded`) |
| **Redis queue** (`delay_queue/redis`) | a sorted set in Redis | a producer and a consumer goroutine | whole seconds at the boundary; a consumer that ends at an empty set (`NeverEarly`, `AllConsumedInOrder`) |
| **RabbitMQ queue** (`delay_queue/rabittmq`) | two exchanges, two queues and two bindings in the broker | `Publish`, `Comsume`, `DestroyMq` | a broker that restarts between the steps, errors that are dropped, runs that share the queues (`NotDroppedNorRepeated`) |
| **observer** (`design_mode/observer_mode`) | the slice `ObjArr` | `AddObject`, `DeleteObject`, `NotifyObjects` | elements are cut out of a slice that is being ranged over (`DeleteIsExact`) |

`admin_project` (a web skeleton), `micro_demo` (a go-micro hello world), the
decorator, vendored libraries and notes are listed under [Not modelled](#not-modelled).

## Modules

```
RpcConn          one connection: the two codecs over a stream of frames
 |- RpcClient    client.go, with any peer          RpcClientProofs  its proofs
 |- RpcServer    server.go, with any client        RpcServerProofs  its proofs
 `- GeeRpc       RpcClient and an instance of RpcServer on one RpcConn
     `- RpcPromise   the abstract specification that GeeRpc implements
        GeeRpcProofs   the refinements, from the proofs of client and server
Registry         registry.go with its heartbeats
 `- Discovery    RegistryDiscovery over a Registry   DiscoveryProofs  proofs of both
XClient          the cache of clients, dialling, Call and Broadcast   XClientProofs
ServiceMap       Register, findService and reflection   ServiceMapProofs  its proofs
HttpConnect      CONNECT, and the handover to RPC
Demo             main.go
LeakyBucket, TokenBucket         FlowControl    FlowControlProofs  proofs of both
RedisQueue, RabbitQueue, Observer               delay_queue, design_mode
 |  StandaloneProofs   proofs of HttpConnect, Demo, RedisQueue and RabbitQueue
 `- MCStandalone   XClient to Observer, one at a time, as one instance for TLC
MCRpcClient, MCRpcServer, MCGeeRpc, MCDiscovery, MCRegistry   instances for TLC
```

**RpcConn.** A *frame* is a header and its body. `wire[e]` has the frames that end
`e` wrote and its peer has not read; `ends` says which ends are open; `broken` that
the `bufio.Writer` of an end holds an error. `WriteFrame`, `WriteLost` and
`WriteFails` are the three outcomes of `Codec.Write`: sent; lost although `Write`
returns nil, because the error of `Flush` is dropped; failed and closed, perhaps
with a header on the wire that no body follows. `BodyCanDecode` and its companions
say when `ReadBody` may succeed and may fail; `ReadBody(nil)` succeeds over gob and
never over JSON. The field `call` of a frame is invisible to the code: properties
use it to ask whether an answer reached the call it belongs to. Frames of one
direction are a set, since neither side looks at their order; every order of
delivery is thereby covered.

**RpcClient.** One action per critical section or blocking operation. `pc[c]` is
where the goroutine of call `c` is in `send` and `Call`, `rpc` where `receive` and
`terminateCalls` are.

| Code | Actions |
|---|---|
| `Go`, `send` (222-268) | `Issue`, `LockSending`, `RegisterCall` / `RegisterRefused`, `WriteRequest` / `WriteRequestFails`, `Unregister`, `FailCall` |
| `Call` (267-276) | `Consume`, `ExpireContext`, `ContextDone`, `RemoveCancelled` |
| `Close` (51-59) | `Close` |
| `receive` (107-134) | `ReadHeader` / `ReadHeaderFails`, `RemoveReplied`, `DropReply` / `ReceiveError` / `ReceiveReply`, `ReceiverDone` |
| `terminateCalls` (93-105) | `TerminateCalls`, `TerminateNext`, `ReceiverDone`, `TerminateEnd` |

The mutex `sending` is a variable. `mu` is held across a blocking operation only in
`terminateCalls` (it blocks in `done()`), so the other sections under `mu` are one
action each, guarded by `MuFree`. `terminateCalls` visits the map in any order and
leaves the entries in it, as the code does. The peer of `Spec` answers anything at
any time; that of `OncePeerSpec` answers each request at most once, which makes
three calls affordable.

**RpcServer.** `loop` is the place in `ServerConn` and `ServerCodec`, `handler[c]`
and `worker[c]` the two goroutines of `handleRequest`. A rendezvous on `called` or
`sent` is one joint action of both (`Called`, `Sent`), so a worker whose handler has
timed out stays at `"called"`, as the goroutine that leaks does. `request[c]` is the
header they share; `args[c]` says whether the method ran on what was sent or on
zero values. `Unknown` holds the calls to a service that may not be registered yet:
for them `findService` may succeed or fail. `timed` says whether the Option set a
`HandleTimeout`, which `DefaultOption` does not (`HandleTimeouts` are the cases of an
instance). `OptionFails` is `ServerConn` returning before there is a codec: the connection
was cut, or what came is no Option, has another `MagicNumber` or an unknown codec; it is not closed then. A refused request leaves its body in
the stream (`ahead = "body"`): over JSON it is read as an empty header, refused and
answered under number 0; over gob the loop ends.

**GeeRpc** composes the two on one connection, each action of one with the
variables of the other unchanged. It checks that each is the environment the other
was specified with (`ClientSpec`, `ServerSpec`) and that together they implement
**RpcPromise** under the refinement mapping `Outcome`: a call ends once; its method
runs at most once, maybe after the caller was told of an error; a success is
reported only after it ran.

**Registry** and **Discovery.** Times are kept as ages and countdowns (`age`, `wait`,
`spent`, `updated`, `fetching`), all bounded, so that time can go on for ever in
finitely many states; `RegistryAges` and `Tick` pass one unit unless a goroutine is
due. `putServer`, `aliveServers` and `Refresh` keep their names. The registry may
crash and restart with an empty map, a POST may fail before or after it was
handled, a server may die. In Discovery `mu` is the mutex that `Refresh` holds across
`http.Get`; `Get` and `GetAll` are `Call`, a refresh (`RefreshCached`, or
`RefreshFetch`, `FetchAnswered`, `FetchReturns` / `FetchFails`), then `ChooseAny` or
`ChooseRobin` under the mutex again; other goroutines run between the two. The mode
matters only at the last step and is chosen there. `round` and `silent` are history.

**XClient** sees of a client what its users do: whether it is available, and that a sent
call returns an answer, an error once the client is down, or its context's error;
RpcClient shows that it does. What is followed in return are the connections: `open`
holds those that nobody has closed, `addr` the server each goes to, `clients` and `mu`
are the fields of `XClient`. A process is a goroutine that runs `xc.call`: one of
`Callers` (`Call`, with a context that never ends, as in `main.go`), or the one
`Broadcast` starts for a server.

| Code | Actions |
|---|---|
| `XClient.dial` (108-126) | `DialCached`; `DialAnew`, then `DialReturns` or `DialFails` |
| `XDial`, `dialTimeout` (client.go 169-199, 301-314) | `Connect` / `ConnectFails`; `DialReturns` / `DialFails`, the latter also when the client is made: the timeout wins the `select` |
| the goroutine in `dialTimeout` (184-188) | `NewClient` |
| `Client.Call` and the receive loop | `Send`, `Answer`, `Shutdown`, `ContextDone`; `Breaks` |
| `XClient.Call`, `Close` (97-106, 140-146) | `Call`, `Close` |
| `Broadcast` (149-182) | `Broadcast`, `Report`, `BroadcastReturns`; `Expires` ends the context it was given |

**ServiceMap.** A method is the record of what `registerMethods` asks of it: the number
of its parameters and results, whether the result is an `error`, whether the types are
exported or built in; and of what it does not ask, whether the reply is a pointer (`Replies`).
`NewService` and `LoadOrStore` are the two halves of `Register`, between which other
goroutines run; `FindService` and `CallMethod` are what a request does. A reply type
without an element makes `newReplyv` panic in the former, one that is a slice or a map makes
`f.Call` panic in the latter, and either panic ends the server.

**HttpConnect.** `toServer` and `toClient` are the two directions of the connection, `lost`
what was in a buffer that an end dropped. `WriteConnect`, `ReadResponse` and
`NewRpcClient` are `NewHTTPClient`; `ServeHTTP` and `Refuse` are `ServeHTTP` and the
answers of net/http to other requests; `HttpReads` is net/http, which reads as much as
it finds. `SendRequest` and `ServeRpc` stand for all that RpcClient and RpcServer do.

**Demo.** `StartRegistry` and `StartServer` are the sequences of steps of these functions,
and `registry` and `server[s]` the places in them. A heartbeat that meets no listener is
refused, and waits if there is one that does not serve yet. `MainStarts` to
`MainReturns` are the pieces of `main` between its waits. The goroutines of `call` and
`broadcast` (`Ask`, `Answered`, `Finish`) share a connection to each server, of which the
module has what RpcServer and RpcClient show: `ReadOption` may take requests that came with
the Option (`server_readahead`), which nobody answers then, and what is left of one
breaks the connection; so does the reply to a call that timed out or was cancelled
(`LateReplyBreaks`, after `client_discard`); `ConnectionEnds` fails the calls that wait on
it. `SleepTimesOut` is the context of two seconds; `Foo.Sum` has none. The sleeps
of `main` are left out, and nothing that is checked needs them.

**LeakyBucket.** `Check` is one action (it holds the mutex); `Take` is `TakeAtOnce`, or
`TakeSleeps` and, at any time after the end of the sleep, `TakeWakes`. Water is counted
in integers, in what flows out in one unit of time; the code's `float64` rounds. `leftOver` and
`lastPass` are history: the room that the last admitted request left, and its time.

**TokenBucket.** `AddToken` and `TakeTick` are the goroutine of `Init`, `Comsume` and
`ComsumeFails` the two cases of the `select`. `TimePasses` drops the tick when
`tic.C` holds one, as `time.Ticker` does. Time goes round, so that the run is endless.

**RedisQueue.** `zset` is the sorted set, with the moment each message was made as history.
`ZAdd` is the producer; `ZRange`, `ZRangeBreaks`, `Act` and `ZRem` are the consumer.
`Calls` lets a call to Redis fail: `ZAdd` and `ZRem` drop the error, `ZRangeWithScores`
ends the consumer.

**RabbitQueue.** `Publish` is the sequence of steps from `NewRabitMq` to `DestroyMq`;
`ConsumerStarts`, `Deliver`, `Handle` and `LoopEnds` are `Comsume`. `Crash` is an
interrupt or a panic of either goroutine; `Run` starts the program again. The broker is
external: `Expire` moves a message whose time is up to the exchange for dead letters,
`Restart` forgets everything, since nothing is declared durable.

**Observer.** `Deleted` is the loop of `DeleteObject` over the length and the array that the
slice had at its start, with `Cut` moving the elements of that array underneath it.

**MCStandalone.** These eight and XClient share nothing. `alone` picks the one that a
behaviour is of, and the others stay in their initial states, so that one run checks them all.

A few definitions are marked *faulty, for mutation* (`Kept`, `SameSeq`, `NoWait`,
`CalledBuffered`, `AliveLonger`, ...). No specification uses them: each is a
plausible bug that, in the place of the definition below it, breaks a property, and so
shows that the property depends on that line of the code.

## Runs

| Run | Instance | What it shows |
|---|---|---|
| `client_gob` | 3 calls: one `Call`, two `Go` on one channel with room for one; gob; a peer that answers once | type, `DoneOnce`, `ReplyMatches`, `NoOrphan`, `DoneWaitsForReader`, `CompletedIsFinal`, `NoRequestAfterShutdown` |
| `client_fair` | 2 calls, one not encodable, one whose reply does not fit; JSON; `FairSpec` | `AnsweredCompletes`, `ContextHonoured`: calls end |
| `client_discard` | 2 calls; JSON | **violated:** `DiscardKeepsReceiving` |
| `client_blockedwrite` | 2 calls; a server that may stop reading | **violated:** `ContextHonoured` |
| `server_timeout` | 2 requests, one to a service that may be unknown and with a reply that cannot be encoded; with and without `HandleTimeout`; methods that may hang | `AnsweredOnce`, `NoWriteAfterClose`, `WritesExclusive`, `ReplyMeansExecuted`; `ReadIsAnswered`, `CutIsClosed` under fairness |
| `server_badargs` | 1 request whose body does not decode | **violated:** `ArgumentsDelivered` |
| `server_readahead` | 1 request, methods that return | **violated:** `RequestIsAnswered` |
| `rpc` | client and server, 2 calls; JSON | `SuccessMeansExecuted`; the refinements `ClientSpec`, `ServerSpec`, `Promise` |
| `discovery` | 2 servers, 2 goroutines, a registry that crashes | type (with the index of the round robin), `NeverDropsBeating`, `RefreshedIsRecent`, `RoundRobinFair` |
| `heartbeat` | 1 server | **violated:** `LiveIsRegistered` |
| `standalone` | each of the nine parts of MCStandalone, one at a time | for XClient (2 servers, one goroutine of `Call`, one `Broadcast`, 3 connections) `NoLeak`, `OneConnection`, `CauseReported`, `BroadcastComplete`, and `BroadcastEnds` under fairness; that the limiters bound what they admit; that the delay queues neither hasten, repeat nor drop a message; that a deletion, a registration and the handover from HTTP are exact; that the demo starts up in order (`CallsReachServers`) and, under fairness, ends unless a request was read ahead (`MainEnds`) |
| `leaky_rate` | the leaky bucket, 2 requests per second | **violated:** `RefusesForCause` |

The runs that are to pass end in 0.03 to 1.5 million distinct states. The peer that
answers anything at any time (`Spec`) is covered by the proofs and, in `rpc`, as
`ClientSpec`; with liveness it is beyond TLC at these sizes.
The inductive invariants of the proofs were checked on the runs' instances before they were
proved; the proofs make it unnecessary to check them in every run.

**Bounds.** `Calls` bounds the concurrency; two calls meet in every pair of places,
and three let one more be on its way while two collide on a `Done` channel.
`MaxSeq` equals the number of calls, so `registerCall` never runs out of numbers in
a run (the code's `uint64` does not either). `MaxUnread` bounds the replies on
their way to the client, which can only read one at a time; the peer sends further
ones later. `Cap` may be anything but 0, which is all that `Go` refuses
(client.go:251-256); in `client_gob` two calls share a channel with room for one, so that
`done()` does block. The client that RpcServer is specified with
writes at most `MaxSeq` requests. In `rpc`, `MaxUnread` is more than the server ever has
under way (`RpcAssumption`), so that the bound never holds it up, and
`BadArgs` holds every call and there is no `HandleTimeout`: the value of the
arguments and the timeout do not matter to that run's questions, and are covered in
the server's own runs. In `discovery`, `Period + MaxDelay = Timeout - 1`, the tightest
case in which a heartbeat comes in time (the code's default: every 4 minutes, for a
timeout of 5), `UpdateTimeout` is long enough that a cached list ages, and `MaxAge` is
the least age at which no property can tell older from old. For XClient, `MaxClients`
bounds the connections that are open, cached or in use at one time, not those that
are ever made: numbers are reused. Three suffice for a goroutine to hold a client that
was replaced while both servers have a new one. `Broadcast` runs once, with a `reply` that is
not nil, to any subset of the servers.

In `standalone`: five seconds of a limiter of 2 per second, in quarters (`MaxTime`,
`Second`), fill and empty the leaky bucket more than once. The token bucket (3 tokens, 2 per tick) is
larger than one round and smaller than two. The Redis queue has 3 messages, seconds of
2 fractions, a producer that may be one fraction late, a consumer that starts after the
first message and one call that fails: `Delay` (4 seconds) is longer than the producer
takes, as the code's 20 seconds are longer than its 10, and without that
`AllConsumedInOrder` is false. Two runs of the program and one restart of the broker let a
message outlive the run it is from. Four places for three objects hold one twice, or
two between two others. Four values, two of each name and one of a type that is not
exported, with a method for each condition of `registerMethods` and for each kind of
reply. Two requests pile up in a buffer. Two servers as in `main.go`, and two goroutines where
it has five: one whose call times out, is cancelled or read ahead, and one that it disturbs.

**Deadlock** is not checked (`CHECK_DEADLOCK FALSE`): with finitely many calls the
client and the server really stop, once every call has ended and the connection is
closed, an XClient rests when nobody calls it, a Registry whose servers are all dead has nothing left
to do, and the programs of `standalone` end, at the latest when their bounds do.

## Fairness

- `CallerFairness`: the scheduler runs every goroutine that can run (weak fairness);
  `sync.Mutex` hands itself over to a waiter after at most a millisecond (its
  starvation mode), so `LockSending` is strongly fair, as are `RefuseLock`,
  `TimeoutLock` and `ReplyLock` of the server.
- `WriteFairness`: a `Write` to a connection returns. This needs a peer that reads;
  `FairSpec` assumes it, `BlockedWriteSpec` assumes it only once the connection is
  cut, and shows what depends on it.
- `ReceiverFairness`, `ReaderFairness`: the receive goroutine runs, users read their
  `Done` channels.
- `ServerFairness` says nothing of `Execute`: a method may hang for ever.
  `MethodsReturnSpec` adds that it does not.
- `FairSpec` of XClient, in the run as `XClientFairness`: goroutines run, `XClient.mu` wakes its waiters in the end, dials end
  (`ConnectTimeout` is 10 seconds unless an Option says 0), and a call whose context
  is done returns, which is `ContextHonoured`. No server is assumed to answer.
- `DemoFairness`: the goroutines of the demo and of its servers run, and the timer of a context
  expires. A request that is still in the stream of a connection is answered in the end, one that was read
  ahead is not; no late reply has to come. Of the other parts only safety is checked.
- `MainEnds` and `BroadcastEnds` are stated with `[]<>`: `main` and a `Broadcast` that has
  given up run once, so that not to be on the way again and again is to have ended.
- `HeartbeatFairness`: tickers fire, a registry that is down comes up again, a POST
  that can succeed again and again does.

## Proofs

Every safety property of a run that is to pass is a theorem, with the exception given
below, and so are the refinements of `rpc`.

### The client

`RpcClientProofs` proves, for any set of calls, any channels and capacities, any
`MaxSeq`, either codec and the most general peer (`Spec`):

| Theorem | States |
|---|---|
| `ClientTypeCorrect` | `TypeOK` |
| `ClientDoneOnce` | no call is completed twice |
| `ClientNoOrphan` | a call that is waited for is registered or in a live receiver's hands |
| `ClientReplyMatches` | a reply only reaches its own call; success only with it |
| `ClientCompletedIsFinal` | `Error` and `Reply` of a completed call never change |
| `ClientNoRequestAfterShutdown` | no request is written after `shutdown` |
| `ClientInvariant` | the inductive invariant behind them |
| `ClientQueueInvariant` | `QueueInv`: a `Done` channel holds completed calls of its users, each once |
| `ClientDoneWaitsForReader` | `DoneWaitsForReader`: `done()` blocks only on completed calls that users of `Go` have yet to read, never on the channel of a `Call` |

*The argument.* `DoneOnce` is not inductive: a call may be about to be completed by
one goroutine while it still is in the map. The invariant `ClientInv` says who owns a
call. `SendingInv` ties the mutex to the places that hold it. `SeqInv`: numbers are not
reused and `pending[s]` has number `s`, so taking entry `s` out takes the only one. `OwnerInv`: a
call in the map, in the hands of the receiver or about to fail in `send` has not
been completed, and is in only one of these places. The delicate case is
`terminateCalls`, which completes calls without deleting them: after `shutdown`,
ownership of an entry means that it is in `left`, and `ReceiverInv` shows that no
goroutine is then between registration and the end of its `Write`, because
`terminateCalls` took `sending` first. `LocatedInv` is the converse, that an open
call has an owner, and gives `NoOrphan`. `FrameInv` (a frame carries the number of
its call) and `OutcomeInv` (a call completed without an error holds its own
answer) build on these and give `ReplyMatches`.

`QueueInv` adds where a completed call is: in its channel, once, or with its user. A call
that is not completed is in no channel. So the channel of a `Call`, which nobody else uses, is
empty until `done()` (`ClientAssumption`, from `make(chan *Call, 1)` in client.go:268); and one that `done()` finds full
holds calls that were completed before and not read. Nothing is assumed of capacities but that they are
not 0 (client.go:254).

### The server

`RpcServerProofs` proves, for any set of calls, with and without a `HandleTimeout`, any
unknown services and bodies that do not decode or encode, and the most general client:

| Theorem | States |
|---|---|
| `ServerTypeCorrect` | `TypeOK` |
| `ServerAnsweredOnce` | no request is answered twice, by handler, worker or loop |
| `ServerWritesExclusive` | one goroutine at a time is in `Codec.Write` |
| `ServerNoWriteAfterClose` | when the codec is closed nobody can reach `sendResponse` any more |
| `ServerReplyMeansExecuted` | a response without an error follows one execution |
| `ServerInvariant` | the inductive invariant behind them |

*The argument.* `StreamInv` and `RefusalInv` say that a request that is on the wire, or that
the loop is refusing, is untouched. `PairInv` lists the places its two goroutines can be in
together: both waiting; the handler answering for itself, with the worker left at or before
`called`; the worker answering, with the handler at `sent`; both at an end. A rendezvous
takes both, so no other pair can be reached: this is the line `AnsweredOnce` rests
on. `loop = "closed"` comes after `wg.Wait`, when no handler is left, and a worker without a
handler never passes `called`. `LockInv` ties `sending` to the places that write.

### Client and server

`GeeRpcProofs` proves, for the two on one connection and any of the above:

| Theorem | States |
|---|---|
| `RpcImplementsClient` | `ClientSpec`: their steps are steps of the client with its most general peer |
| `RpcImplementsServer` | `ServerSpec`: and of the server with its most general client |
| `RpcSuccessMeansExecuted` | a call that reports success was executed and answered, once |
| `RpcKeepsPromise` | `Promise`: the refinement of RpcPromise |
| `RpcInvariant` | the inductive invariant behind them |

*The argument.* The step lemmas of `RpcClientProofs` and `RpcServerProofs` are used as they
are: `RpcInv` is the conjunction of `ClientInv`, `QueueInv`, `ServerInv` (of the instance,
with `Written` for the requests sent) and three conjuncts of its own. `NumberInv`: requests
are written in the order of their numbers, which makes the frame that `WriteRequest` puts on
the wire the one the server's client would. `LinkInv`: what the server copied of a header
still has the number of its call. `ReplyInv`: a reply is on the wire once, and one without an
error, on the wire or decoded, is of a method that ran; with `OutcomeInv` of the client this
gives `SuccessMeansExecuted`. For the promise, `Outcome(c)` is `"success"` or `"error"` from
the moment the call is completed, so that a step of either side is seen to change it in the
way of an action of RpcPromise, or not at all; `DoneOnce` and `CompletedIsFinal` are what is
needed of the client, `PairInv` (executed at most once) of the server. That the server is an
allowed peer needs `MaxUnread` to be no bound (`RpcAssumption`): a request has one answer at
most, and over JSON there is one stray one.

### Registry and Discovery

`DiscoveryProofs` proves, for any number of servers and goroutines and any times:

| Theorem | States |
|---|---|
| `HeartbeatKeepsServer` | if `Period + MaxDelay < Timeout`, or there is no timeout, the registry never deletes a server whose heartbeat runs |
| `DiscoveryHasRegistry` | a Discovery implements `RegistrySpec`, so the above holds of it |
| `DiscoveryTypeCorrect` | `TypeOK`; a choice leaves the index of the round robin below the number of servers it chose from |
| `RefreshBoundsStaleness` | `RefreshedIsRecent`: a server in a refreshed list was heard of within the sum of the timeouts |
| `RoundRobinIsFair` | `RoundRobinFair`: no server is chosen twice before every other, across refreshes |

*The argument.* `BeatInv` bounds the age of an entry by the countdown of its server's
ticker. `AgeInv` equates age and silence while an entry exists. `MutexInv` says that
one goroutine fetches at a time, so that nobody else replaces the answer it is
about to store; `AnswerInv` and `ListInv` carry the bound from the registry to the
answer, with the time the fetch takes, and to the list, with the time since the
update.

`RoundRobinFair` needs that a refresh which brings the same servers brings them in the same
places: a set has one sorted list, because the place of a server in a sorted list is the
number of those not after it (`PlaceInSorted`). `TurnInv` then says that the servers chosen in a
round are those on an arc of the list that ends at `index % n`; the next choice is off the
arc. Only `RefreshBoundsStaleness` needs that the registry has a timeout: without one there is
no bound.

### XClient

`XClientProofs` proves, for any servers, goroutines and number of connections:

| Theorem | States |
|---|---|
| `XTypeCorrect` | `TypeOK`; who holds `mu` |
| `XNoLeak` | an open connection is in the cache or in the hands of the goroutine that dials it |
| `XOneConnection` | one open connection to a server |
| `XCauseReported` | `Broadcast` reports a context error only if its caller's context was done |
| `XBroadcastComplete` | when `Broadcast` returns its goroutines have ended; success means that each succeeded |
| `XInvariant` | the inductive invariant behind them |

*The argument.* `PlaceInv`: the goroutine that holds `mu` found no client of its server in the
cache, and nobody else can put one there; with `NoLeak`, two open connections to one server
would both be the cached one. `CauseInv`, `ResultInv`: `cancel` is called after `e` was set, by the same
goroutine under the same mutex, so the first call that ends by its context while `e` is nil
was ended by the caller's. `ReplyInv` relates `e` and `reply` to what each goroutine reported.

### Flow control and the service map

`FlowControlProofs` and `ServiceMapProofs` prove, for every value of the constants:

| Theorem | States |
|---|---|
| `LeakyAdmissionIsBounded` | `Check` admits a bucketful and `limit` requests per second at most, `Take` one request per `perReqtime` |
| `LeakyRefusalsCostNothing` | whether `Check` admits a request does not depend on those it refused before |
| `LeakyInvariant` | the inductive invariant behind them, with the types of the bucket |
| `TokenBurstIsBounded` | at most the bucket and two rounds are taken between two ticks |
| `ServiceRegisteredIsServed` | an accepted value stays the one its name finds, and requests find methods of accepted values only |

*The argument.* `CheckInv` balances the requests that passed and the room that is left
against the bucket and the outflow up to `lasttime`; before the first request the
bucket is empty and `lasttime` is the zero time, which the balance must not count.
`RoomInv` says that the room at `lasttime` is what the last pass left and what has flowed out
from then to `lasttime`, so that refused requests, which move `lasttime`, lose nothing. `TakeInv` says that each pass moves `lasttime` by
`PerReqTime`, however late `Take` wakes. `TokenInv` adds what was taken, what is there
and what is still to be added before the next tick. `MapInv` and `FoundInv` tie the
map to the values that `Register` accepted, and what requests found to the map.

### The other parts of MCStandalone

`StandaloneProofs` proves, of the specification that each module has of its own:

| Theorem | States |
|---|---|
| `RedisNeverEarly` | no message is acted on before its delay, whatever fails |
| `RedisAllConsumedInOrder` | every message is acted on once, in order, if no call fails, the consumer starts after the first message and `Delay` is 2 seconds or more |
| `RabbitNotDroppedNorRepeated` | for any number of runs and restarts of the broker, no message expires into nothing or is acted on twice |
| `HttpHandoverLosesNothing` | the buffers that are dropped at the handover are empty, for any number of requests |
| `DemoCallsReachServers` | no job of the demo starts before the registry knows every server and each has registered `Foo`, and a `Foo.Sum` of `call` fails only if requests were read ahead with the Option, for any finite set of servers and any goroutines |

*The argument.* **Redis**: `SpacedInv` says that messages are made a second apart at least, so
that their scores differ and the first of the set is the oldest; a score of at most
`now - Delay`, both in whole seconds, is that of a message that is `Delay` seconds old
(`AgeInv`). For the order, `QueuedInv` says that the set holds the messages from `Oldest` on, and `ProducerInv`
that the producer is never more than `Late` behind: a message that is acted on is 2 seconds old, so its successor has been
made, and the set is not empty when the consumer asks again. The hypotheses are the numbers of
`redis.go:31, 35-45`: the consumer starts after 5 seconds and waits for 20. **RabbitMQ**: `BoundInv` says that a
publisher which still is connected finds all it has declared, since a restart of
the broker cuts it off; `OnceInv` that a message is in one queue or in hand, or acted on, and never
both. **HTTP**: until both ends speak RPC there is one message in one place (`HttpInv`), so that there is nothing behind it to be
read. **Demo**: `StartupInv` says that the counter of `wg` is the number of servers that the registry
does not know yet, so that main calls when it knows them all. `CallsInv` says that while `call` runs
every request in a connection is waited for, so that no late reply can break it, and that a
broken one has had a request read ahead; `PhaseInv` says when that holds.

### What the proofs assume, and what is only model-checked

The assumptions are the named ones of the modules (`ConnAssumption`, `ClientAssumption`,
`ServerAssumption`, `RpcAssumption`, `RegistryAssumption`, `DiscoveryAssumption`,
`XClientAssumption`, `LeakyAssumption`, `TokenAssumption`, `ServiceAssumption`,
`RedisAssumption`, `RabbitAssumption`, `HttpAssumption`, `DemoAssumption`), which TLC
evaluates in the runs, and those stated in the theorems, of which the runs' instances
are examples.

*Only model-checked:* all liveness (`AnsweredCompletes`, `ContextHonoured`,
`ReadIsAnswered`, `CutIsClosed`, `BroadcastEnds`, `MainEnds`: it rests on fairness and
ENABLED), and `DeleteIsExact`, since what `DeleteObject` leaves of a slice of any length is
an induction over the slice. The properties that the code violates are, of course,
not proved either.

## What the models show of the code

1. `client.go:118, 122`: over JSON `ReadBody(nil)` always fails, so the late reply to a
   cancelled call, or an error reply, ends the receive loop and all other calls
   (`client_discard`; Day2.md:121-122 say that the loop goes on).
2. `server.go:184`: a body that does not decode is only logged and the method runs on
   zero values (`server_badargs`). Over gob that is every request: the client encodes
   a pointer to an interface value.
3. `client.go:268`: the context of `Call` is looked at only after the request was
   written, so a call blocked in `Write` ignores it (`client_blockedwrite`).
4. `server.go:107`: the decoder of the Option reads ahead; requests in its buffer are
   lost (`server_readahead`).
5. `registry.go:110`: the first failed POST ends the heartbeat for ever (`heartbeat`).
6. `leaky_bucket.go:63`: `Rate` is `1/limit`, so that a full bucket admits one request in
   `limit` seconds and refuses the others (`leaky_rate`), where leaky_bucket.go:69 and
   FlowControl/README.md:239 say 10 requests per second for a limit of 10. `Check` keeps below that
   rate (`AdmissionIsBounded`), and `Take`, which nothing uses, keeps to it.

Others are in the models without a violated run of their own. Two of them contradict what the
repository says:

- `token_bucket.go:35`: FlowControl/README.md:60 says that new tokens are dropped or refused
  when the bucket is full; the code holds the refill up instead. The round that waits is added
  as soon as there is room, and so is the one of the tick that waited in `tic.C`: after a pause
  the bucket and two rounds go through within a second, where dropping would let one round
  through. `BurstIsBounded` is what the code keeps to, not what that line promises.
- `service.go:66-78`: `newReplyv` has the comment that the reply should be a pointer (line 35), but
  `registerMethods` does not ask for it. A request for a method whose reply is an `int` panics in `newReplyv`
  (line 36), one whose reply is a slice or a map in `f.Call` (line 95); nothing recovers, so
  the server ends. ServiceMap has both; no property of it excludes them.

The rest is not spoken of elsewhere:

- `main.go:73, 88`: the demo sends requests right after the Option, without a timeout for
  `Foo.Sum`. By 4, one that is read ahead is never answered, and `main` waits for ever
  (the second disjunct of `MainEnds`); or what is left of it ends the connection, and the calls on it
  fail (`failed` in `CallsReachServers`).
- `server.go:75-80, 142`: `DefaultOption` sets no `HandleTimeout`. A method that never returns
  then keeps its request unanswered and the connection open after the client has gone
  (`Unreturned` in `ReadIsAnswered` and `CutIsClosed`).
- `server.go:107-119`: `ServerConn` does not close the connection when the Option is invalid (`loop =
  "abandoned"`); a worker whose request timed out never ends; after `XClient.Close` a call
  dials again, so that its client stays open until the next `Close`.
- `client.go:33, 102`: `Go` takes any channel that is not unbuffered. While one is full `done()`
  blocks, and in `terminateCalls` every new call and `Close` with it, until a user reads (`DoneWaitsForReader`).
- `leaky_bucket.go:24-38`: `Take` has no lock, and lowers `cur` for ever.
- `redis.go:46-47`: a message is acted on before it is removed, and acted on again if the
  removal fails; `AllConsumedInOrder` therefore speaks of runs in which no call does.
- `rabittmq.go:127-140`: a failed `QueueBind` or `Publish` is not noticed, and main prints that the message was sent. A failed
  `Consume` leaves a nil channel on which the consumer waits for ever (`"hangs"`). A
  message that waits while the broker restarts is lost: nothing is durable.
- `subject.go:22-26`: an object that was added twice may survive its deletion, or the
  deletion panics; `DeleteIsExact` speaks of those that were added at most once.

## Plan

Done: the models of all parts listed under [Modules](#modules), their runs, and the proofs of every
safety property that a run checks but `DeleteIsExact`.

Next, in this order:

1. **Types.** `RabbitTypeOK`, `HttpTypeOK` and `DemoTypeOK` are conjuncts of the invariants in
   StandaloneProofs; they and the types of the other parts can be stated as theorems of their own.
2. **`DeleteObject`** with one action per step of its loop in place of a fold, so that
   `DeleteIsExact` follows from an invariant of the loop.
3. **MCStandalone** implements each of its parts: what is proved of `RedisSpec` and its
   like then holds of the instance that TLC runs by theorem, too.

## Not modelled

- *The goroutine of a dial that timed out* (`client.go:184-188`): its connection is closed and
  the model forgets it; it stays blocked on the unbuffered `ch` for ever.
- *`Update` of the discoveries*: nothing in the repository calls it.
- *`parseOptions`* (`client.go:204-216`): it checks the number of options and fills in constants.
  That it writes to an Option which concurrent dials may share is a race on the caller's memory.
- *The debug page* (`debug/debug.go`) is an empty file.
- *Two goroutines in one leaky bucket by `Take`*: `Take` has no lock, and nothing calls it.
- *admin_project*: each handler is one or two queries, all its state is in MySQL, what could
  be said of it is about access control, and a third of it is generated documentation.
- *micro_demo*, *vendored code*, *the decorator*: no state of their own.
- *Bytes*: encodings are abstracted to frames and to whether a body decodes. The
  contents of arguments and replies are not followed beyond whose they are.
- *Data races on user memory*: `receive` decodes into `call.Reply` even if `Call` has
  returned on its context; the order is in the model, the memory is not.
