# opinionated-machine in TLA+

opinionated-machine is a Fastify framework: modules and controllers registered
in an awilix container, typed routes, server-sent events (SSE) with rooms and
subscriptions, test clients, and gateway configuration generated from route
metadata. What can go wrong for reasons a unit test hardly reaches is mostly in
the SSE part: connections that end before or after the handlers that opened
them, two Maps that must mirror each other, broadcasts that await between two
recipients, commands to Redis that overtake each other, clients that give up a
read. The rest is start-up and shutdown of an application whose components may
fail, and pure functions with many cases: content negotiation, merging of
metadata, three renderers. All of these are modelled here and checked with TLC;
all but one of the safety properties are proved with TLAPS, too, for instances of
any size.

Paths below are relative to the repository.

## The system

| Component | State | Operations | Hard behaviour |
|---|---|---|---|
| Room manager (`lib/sse/rooms/SSERoomManager.ts`) | `connectionRooms`, `roomConnections` | join, leave, leaveAll, queries; calls adapter.subscribe when a room gets its first connection, unsubscribe when it loses its last | two Maps kept inverse over any sequence of calls; adapter calls are not awaited |
| Redis room adapter (`packages/sse-rooms-redis`) | `subscribedChannels` | connect, subscribe, unsubscribe, publish, disconnect, handleMessage | each call tests the record, awaits Redis, then changes the record; calls overlap and fail |
| Room broadcaster (`SSERoomBroadcaster.ts`) | a bounded cache of message ids per connection; the senders; the filter | broadcastMessage, handleRemoteBroadcast, unregister of a connection's cache | loops that await a filter and a send per connection while connections join, leave and go; several copies of a message |
| SSE context, session and route handler (`lib/routes/fastifyRouteUtils.ts`, `fastifyRouteBuilder.ts`) | mode, `responseSent`, `headersSent`, whether onClose was called, reconnection promise | start, respond, sendHeaders, session.send, sendStream, rooms.join, rooms.leave, the socket's close listener, the end of the handler, error handling | handler, socket listener, plugin callbacks, replay and the rest of the program race over one session |
| Dual-mode routes and content negotiation (same files) | the reply's status | determineMode, determineSyncFormat, handleSyncMode | preferences of equal weight; a status set before the body it goes with is checked |
| SSE controller (`lib/sse/AbstractSSEController.ts`) | `connections` | registerConnection, unregisterConnection, sendEvent, closeConnection, closeAllConnections, joinRoom, broadcasts | a failed send closes; closing twice must call the hook once |
| Subscription manager (`lib/sse/subscriptions/SSESubscriptionManager.ts`) | `connectionStates`, `userConnections` | handleConnect, handleDisconnect, refreshConnection, refreshUser, publish, shouldDeliver | each of them awaits application code and then acts on what it read before |
| Session spy (`SSESessionSpy.ts`) | events, active and claimed connections, two queues of waiters, timers | waitForConnection, waitForDisconnection, two notifications, clear | waits before, after and between the events; timeouts; clear |
| SSE parser (`sseParser.ts`) | none; the reader keeps a buffer | parseSSEEvents, parseSSEBuffer | a chunk may end anywhere |
| SSE HTTP test client (`lib/testing/sseHttpClient.ts`) | buffer, reader, abort controller | connect, events, collectEvents, close | timed-out reads; a consumer that stops between two events |
| Dependency injection (`lib/DIContext.ts`, `resolverFunctions.ts`, `diConfigUtils.ts`, `AbstractModule.ts`) | the container's registrations, the lists of controllers, what awilix-manager has started | registerDependencies, registerRoutes, registerSSERoutes, registerDualModeRoutes, init, destroy | names that clash between modules; failing starts and disposals; sessions open at shutdown |
| Gateway metadata and manifest (`lib/gateway`) | metadata attached to routes | withGatewayMetadata, buildGatewayManifest, the plugin's decorator and route | three layers merged, with unions among the fields |
| Gateway renderers (`packages/gateway-envoy`, `-kong`, `-krakend`) | none | renderEnvoyConfig, renderKongConfig, renderKrakendConfig | some forty fields, each to be mapped or warned of; routes that share one setting |
| Other SSE test helpers, the in-memory adapter, REST route building | none | | |

How they interact: `DIContext` registers what modules declare and hands the
routes of controllers to Fastify. A route handler creates a *context*; `start()` in it makes a
session and registers it with the *controller*, which calls the hooks and tells
the *spy*. The session's `rooms` and the *subscription manager* call the *room
manager*, which calls the *adapter* at the first join and last leave of a room.
A broadcast asks the room manager for an audience, asks the filter (the
subscription manager's `shouldDeliver`) for each connection, hands the event to
the controller that has it, then publishes through the adapter; the adapters of
the other nodes hand what they receive to their room manager, which drops its
own messages and passes the rest to its broadcaster. When a session ends the
controller calls its hook, has the room manager take it out of its rooms and
forgets it. `destroy()` closes the sessions first and disposes of the rest in an
order of priorities. The manifest is built from the same controllers that routes
were registered from, and rendered for a gateway in front of the server.

JavaScript runs one callback at a time, so a step of the models is what runs
between two awaits. Everything that overlaps, overlaps at an await.

What makes each component correct, in the order of importance used here:

1. Rooms: the two Maps are one relation. Redis is subscribed to the occupied
   rooms. A connection that is gone is in no room.
2. Broadcast: at most one copy per connection of a message that has an id, nobody
   left out, truthful counts,
   and only to those whom the resolvers permit.
3. Session: hooks once, one response, sends in order and after the replay, and complete
   clean-up, however the ends of a session race; the mode the client prefers, and
   no answer that its contract refuses.
4. Subscriptions: rooms, context and user index agree; a gone connection is
   forgotten; a failing resolver costs no room.
5. Spy, parser, client: the test tools give each session out once and always settle;
   what they report is independent of chunking and loses nothing.
6. Application: every name belongs to who has a right to it; shutdown is complete
   and in order.
7. Gateways: the route has the last word, and no declaration is lost silently.

## Modules

| Module | Models | EXTENDS |
|---|---|---|
| `RoomMembership` | what a room manager promises: one relation, joins and leaves | |
| `SSERoomManager` | the room manager as code: two Maps, early returns, deletion of empty sets | |
| `RedisSubscriptions` | one node: the room manager over the Redis adapter and Redis | `SSERoomManager` |
| `SSERoomBroadcaster` | broadcasts over several nodes | |
| `SSESession` | one request: context, session, handler, socket listener, replay, controller | |
| `Collections` | what the code does with objects and arrays: spread, find, sort | |
| `ContentNegotiation` | the two functions of the Accept header | `Collections` |
| `DualModeRoute` | a dual-mode route: the header decides between a session and a sync handler | `SSESession`, `ContentNegotiation` |
| `SSESubscriptions` | the subscription manager over the room manager | `SSERoomManager` |
| `SubscriptionDelivery` | its filter, at work on messages meanwhile | `SSESubscriptions` |
| `SSESessionSpy` | the spy | |
| `SSEParser` | the parser and the loop that feeds it | |
| `SSEHttpClient` | the test client over an open response | `SSEParser` |
| `Resolvers` | what modules declare, and the flags that enable it | `Collections` |
| `DIContext` | registration, routes, init, sessions, destroy | `Resolvers` |
| `GatewayMetadata` | metadata as trees of leaves, its schema | `Collections` |
| `GatewayManifest` | paths, methods, merging, collection, order | `GatewayMetadata` |
| `EnvoyConfig`, `KongConfig`, `KrakendConfig` | what each renderer makes of a manifest | `GatewayManifest` |
| `Application` | an application with gateways in front | `DIContext` and the three |
| `…Proofs` | proofs about `SSERoomManager`, `RedisSubscriptions`, `SSERoomBroadcaster`, `SSESession` with `DualModeRoute`, `SSESubscriptions` with `SubscriptionDelivery`, `SSESessionSpy`, `SSEHttpClient`, `Application` with `DIContext` and `Resolvers` | the module they are about; `RedisSubscriptionsProofs` and `SSESubscriptionsProofs` also `SSERoomManagerProofs` |
| `MC…` | the small instances | the module they instantiate |

Correspondence with the code, per module:

- **SSERoomManager.** The variables are the two Maps; a key is present when it is
  in the function's domain. `Join` and `Leave` take a set of rooms and are the
  whole methods, `LeaveAll` is a leave of all rooms. `NewlyOccupied` and
  `NewlyEmpty` are the rooms for which the code calls the adapter.
- **RedisSubscriptions.** `JoinRooms` and `LeaveRooms` are join and leave with
  the adapter calls they make up to their awaits: the early return on
  `subscribedChannels`, then a command. `Execute` and `Reject` are Redis
  (external: one client's commands are executed and answered in order).
  `Subscribed`, `Unsubscribed` and `Disconnected` are the calls after their
  await. The commands of one call travel as one batch, because the code sends
  them without an await in between. After `disconnect()` has begun, leaves still
  happen (sessions close) and joins do not (the server takes no requests).
- **SSERoomBroadcaster.** A loop `<<n, b, r>>` is broadcastMessage on node n
  (r = `Local`) or handleRemoteBroadcast for the copy of message b that came over
  room r. A loop is at "next" (between two connections), "filter", "send",
  "unowned" (awaiting a send by senders none of which has the connection) or
  "failed". While some loop of a node is running, no other step of that node can
  happen (`Quiet`): its only steps at that point are the synchronous ones of the
  loop. Whether the filter allows, the schema accepts, the send succeeds and the
  publish succeeds is arbitrary. A message may have no id (`unnamed`), since
  broadcastMessage takes any SSEMessage: no copy of it is a duplicate, nor remembered.
  That an application gives two messages one id is left out. `ManagerId` and
  `AdapterId` are the ids a node's manager and adapter draw, or share. Copies on their
  way from Redis arrive in any order or never, at the nodes that have connections
  (`Hosts`): another has no room to subscribe to. Membership is the relation of
  `RoomMembership`, which the code's room manager is proved to implement.
- **SSESession.** `handler` is the program counter of the route handler with the
  code around it, `listener` that of the request's close listener. Between two
  awaits of its own the handler may call any of `SendHeaders`, `Start`, `Respond`,
  `Send`, `Join`, `ControllerJoin`, `Leave`, return or throw. The socket may close
  whenever the event loop runs; @fastify/sse (external) may call its callbacks
  before or after the framework's listener. `Habits` names what an application
  may do that the framework does not survive: see the findings. A call of
  session.send, by the handler or by other code, awaits reconnectionPromise, also
  when it has resolved already, and the promise's callbacks run in the order in which
  they came: `pending`, from which `SendGoesOn` takes the first. `wire` is what a
  reconnecting client is written, by them, by the replay (`ReplayWrites`), and by
  what waits for nothing: `SendStream`, `Broadcast`, which stands for sendEventInternal
  too, and the error event (`Throw`).
- **DualModeRoute.** `Dispatch` reads the Accept header; after it a request is a
  session of `SSESession`, step by step, or a sync handler that sets the status,
  sends by itself, throws or returns. `HandleSyncMode` is the code after the
  handler: both checks, the reset of the status between them, the answer. A body
  is given by the schemas it conforms to. `Negotiate` is determineSyncFormat, which
  the routes do not call and a handler may.
- **ContentNegotiation.** A header is a sequence of entries of a type and a
  quality, as it is after split, trim and parseFloat. Sorting is `Arranged` of
  `Collections`: the places of the header in the order `Better`, in which the earlier of
  two equals comes first, since `sort()` is stable.
- **SSESubscriptions.** Every await of the four handlers is a step: resolving the
  user, each resolver of a chain. `BeginRefresh` reads the state that
  `ApplyRefresh` works on after the chain. The two sets of rooms `was.rooms` (read
  before) and `new` are compared, as the code does, and not the current rooms.
- **SubscriptionDelivery.** `Publish` takes the snapshot of the audience,
  `ShouldDeliver` reads the context, `Evaluate` is the pipeline, `TurnEnds` the
  send. One member of the audience stands for all, since their turns touch nothing
  of each other; every step of `SSESubscriptions` may happen in between.
- **SSESessionSpy.** Every method is one step; a waiter's predicate is the set of
  connections it accepts.
- **SSEParser.** A text is a sequence of characters in which the name of a field is
  one character, and a chunk may end after any character, so also within a line; a
  chunk that ends within a field's name is left out, since the parser passes over
  such a line as over any unfinished one and keeps it in the buffer. `ParseSSELine`
  is one turn of the loop, `Parsed` the loop, `ParseSSEBuffer` and `ParseSSEEvents`
  the two functions, `Chunk` the reader.
- **SSEHttpClient.** `call` is the consumer: collecting, asking events() for the
  next event, or paused at one. `Read` is a chunk that a pending read gets, parsed
  by `Chunk` of `SSEParser`; `Abort` gives up a read, which stays pending in
  `orphans` and takes the next chunk with it. The body of the response is external.
- **Resolvers, DIContext.** A resolver is a record of what awilix and
  awilix-manager read of it. `a ++ b` is `{...b, ...a}`: what an application gives and
  what a function adds are merged with it, and so are the targets of modules. What
  modules return and the overrides are objects, in which a name stands once
  (`NamedOnce` in `AppsAssumption`). What is computed of an application takes it as a
  parameter (`TargetDiConfig(a)`), so that facts about it are facts about a function.
  `RegisterDependencies` is the method with all it calls; `AddRoutes` hands routes to
  Fastify, which refuses a duplicate, so that the method throws half-way; `Start`,
  `StartFails`, `Dispose` and `DisposeFails` are one turn of awilix-manager's loops. `app` is what the application declares.
- **GatewayMetadata, GatewayManifest.** A metadata object is a function from paths
  to leaves, so that ts-deepmerge is `++` with the leaves it hides removed. `Valid`
  is the strict schema. A URL is a sequence of segments; locale order is external:
  `Collation` is a route as it is compared, `Precedes` the order of routes, in which
  the earlier of two equals comes first.
- **EnvoyConfig, KongConfig, KrakendConfig.** A rendered route is a tree, too. The
  tables of pairs (`EnvoyMapped` and the like) name the field and where it goes. Two
  things are narrower than the code: KrakenD's rewritten prefixes end with a segment
  (`ApplyRewrite`), where the code compares strings, so that `/api` also strips the
  front of `/apis`, and gives `/` for a path of which nothing is left, here the path of
  no segments; and what is appended to Kong's plugins from `extensions.kong_plugins`
  (`gateway-kong/src/render.ts:227-229`) is left out, since the schema of metadata
  refuses an array there. No property depends on either.
- **Application.** `BuildGatewayManifest` may happen at any time once dependencies
  are registered, `RenderConfig` makes the configurations of the last manifest.

Every module has a few operators with a comment that begins with "deviation".
They are one plausible mistake each, and are not part of the behaviour: put in the
place of the definition below them they make a property fail, which shows that
the property depends on the code.

## Runs

`tlc -config X.cfg M` for each row. Unless it says otherwise a run passes.

| Run | Checks | Bounds and why they are enough |
|---|---|---|
| `redis_subscriptions` (MCRedisSubscriptions) | `MapsMirror`, `ImplementsMembership`, `RecordMatchesRedis`, `SettledUnlessRaced`, and under fairness `OccupiedRoomGetsSubscribed` | 2 connections, 2 rooms, 3 batches in flight, 1 rejection. A call can overtake another of the same room before and after Redis executed it. The safety properties are proved without bounds. |
| `redis_subscribe_race` (MCRedisSubscribeRace.cfg) | **violated:** `SubscribedWhileOccupied` | as above without rejections |
| `broadcast` (MCBroadcast) | `TypeOK`, `AtMostOnce`, `CountsAreRight`, `NobodyForgotten` | 2 nodes, the first with one id for manager and adapter, the second with two, and a message from each, with an id or without; 2 rooms, a cache of one id. `Setups` says how many rooms may be sent to altogether: three with one connection, on either node, so that a message comes twice, over two rooms or as an echo, after the other has pushed its id out of the cache; two with two connections on the first node; one where two connections hear echoes or are apart. Each of the three exemptions of `AtMostOnce` is used: the run fails without it. All four are proved without bounds. |
| `session` (MCSession) | `TypeOK`, `HooksOnce`, `NoStaleMember`, `SendsInOrder`, `OneResponse`, `InvalidBodyIsServerError`, `ClientGetsWhatItPrefers`, and under fairness `CleanedUp`, `SendsGoOn` | Sessions need no bound: connection ids are fresh, sessions are independent, and one in one room has finitely many states but for what is written to a reconnecting client: `MaxCalls` = 2 calls of session.send wait or are made while the other goes on, `MaxReplay` = 2 events are replayed, with other writes before, between and after. `Habits` has early headers and onReconnect calling send. Accept headers have up to three entries, with equal qualities, rejected ones and one that is no number: enough for two types to be preferred differently by quality and by place, and for a third to stand between. A sync handler chooses among a status with the success schema, one with its own and one with none. The invariants and `ClientGetsWhatItPrefers` are proved without bounds, `NoStaleMember` for the habits named under Proofs. |
| `session_late_start` (SSESession) | **violated:** `ServerCleansUp` | `Habits` = start() after the client has gone |
| `session_fail_alive` (SSESession) | **violated:** `LeavesAllRooms` | `Habits` = a send that throws on a live stream |
| `subscriptions` (MCSubscriptions) | `TypeOK`, `UserIndexAgrees`, `RoomsMatchContext`, `GoneIsForgotten`, `FailureKeepsRooms`, `DeliveredToThePermitted` | 2 connections, 2 users, chains of 2 resolvers whose rooms overlap. One refreshing call at a time (`Call`), together with any number of connects and disconnects. One message is delivered at a time, and while it is, one connection has begun to connect: it is followed through its whole turn while it is refreshed to another user or closes. The verdicts are chosen so that each rule of the pipeline decides for somebody, with `deny` as the default policy. All six are proved without bounds. |
| `subscriptions_close` (MCSubscriptions, MCSubscriptionsClose.cfg) | **violated:** `ClosedLeavesRooms` | one connection, a chain of one resolver |
| `spy` (SSESessionSpy, MCSessionSpy.cfg) | `UniqueSessions`, `NobodyOverlooked`, `ActiveWhenReturned`, and under fairness `PromisesSettle` | 2 connections, 2 waiters with any predicates, 1 waiter for a disconnection; clear at any time, any number of times. The invariants are proved without bounds. |
| `client` (MCHttpClient) | `HandedOverOnce`, `ArrivesOnce`, and under fairness `CallsSettle` | all streams of up to four lines of four kinds and a blank one, the last one blank, cut at any places, for one call; three of them, with two events or an event of several lines, for two calls, so that the second meets the read the first left pending. Two chunks wait in the reader at most. A collect asks for one event, for two, or until it sees a given one. `HandedOverOnce` and `ArrivesOnce` are proved for streams, chunks and calls without bounds. |
| `parser_anywhere` (MCParser) | **violated:** `NoChunkMatters` | streams of up to five lines |
| `application` (MCApplication) | `TypeOK`, `NamesBelongToTheirOwners`, `ShutdownInOrder`, `NothingLeftRunning`, `RouteHasTheLastWord`, `GatewaysReachRoutes`, `NothingDroppedSilently`, `KongKeepsLimits`, `CorsKeptOrReported` | 184 applications. In one family two modules with a component of every kind, clashing names and overrides are registered, started and destroyed, with one failure anywhere. In the others three routes, with a parameter, a literal in its place and a wildcard, declare one thing or another of the metadata: alone, in both profiles of Kong; over defaults of service and controller; or two next to each other, with different timeouts and CORS. Requests have up to three segments (`MaxWords`). All but `NothingDroppedSilently` are proved without bounds, the two on shutdown for applications that are `Orderly`. |

Deadlock is checked in the two Redis runs and in `spy`, whose clients can always
call again. The others stop: broadcasts and streams come to an end, as do requests
and applications and, once all connections have closed, refreshes.

### What the histories are for

Some of the properties are conditional on a history variable, a part of the
model that records what happened and influences nothing:

- `raced` in `RedisSubscriptions`: rooms whose last call of subscribe or
  unsubscribe met another on its way, or was rejected. On these the code does
  not do what its documentation says (`redis_subscribe_race`).
- `raced` in `SSESubscriptions`: connections that closed, or were refreshed,
  while another call on the same connection awaited.
- `evicted` in `SSERoomBroadcaster`: ids that the bounded cache has dropped. A
  copy that arrives after that is delivered again, which a bounded cache cannot
  avoid.
- `served`, `relayed`, `denied` and `screened` there: copies that the publisher's loop
  sent and those that loops for messages from Redis sent, and whom the filter of
  the one and of the others denied.
- `cutShort` in `SSEParser`: a chunk has ended with the line break of a field.
- `calls`, `wire` and `hooks` in `SSESession`: how many calls of session.send had to
  wait, what was written, and the hooks that have run, in order. Of direct writes
  `wire` has those made while the replay goes on, each run of them as one.
- `skipped` and `dropped` in `SSEHttpClient`: a chunk went to a read that had been
  given up or was in the reader when the connection ended; events that were parsed
  did not reach the consumer. The two properties say that nothing else is lost.
- `had` in `SubscriptionDelivery`: the users a connection has been during its turn.
- `atShutdown` in `DIContext`: the sessions open when destroy began.

### Fairness

Four runs check liveness.

- `redis_subscriptions`: Redis executes and answers what it does not reject (the
  client library sends and retries, and settles every promise); the number of
  rejections is finite.
- `session`: the event loop runs every continuation whose promise has settled; the
  application's onClose and onReconnect hooks settle. A hook that never settles
  keeps the session registered, so the code depends on that too. Nothing makes
  a handler return, a client leave, or the program close a session.
- `spy`: timers fire.
- `client`: a chunk that waits is read by a read that waits for it, a response that
  is over or has failed settles the read, and the timer of a collect fires. Nothing
  makes the server send, the consumer resume, or a signal given to events() fire.

## Findings

Five runs show the code in disagreement with its documentation:

1. `redis_subscribe_race`: the room manager does not await the adapter, whose
   early returns trust a record that a call on its way is about to change. A room
   that is left and joined again (or joined, left and joined) within the round trip
   ends occupied and not subscribed to; the node misses the other nodes' broadcasts
   until its next first join.
2. `session_late_start`: start() registers a session although the socket has
   closed; its close listener has already run, or was attached too late, and a
   keepAlive session stays registered for good.
3. `session_fail_alive`: sendEvent unregisters the session on any failure. If the
   stream is alive the session can still join rooms, which nobody leaves any more.
4. `subscriptions_close`: handleConnect joins its rooms after its awaits without
   looking whether the connection closed in between.
5. `parser_anywhere`: a buffer that ends with a line break has an empty last
   line, which the parser takes for the blank line that ends an event: the event is
   split when a chunk ends there.

Observed while modelling and not kept as runs.

Rooms, sessions and subscriptions:

- With the node ids that manager and adapter draw on their own (README.md,
  example at 1829-1844), a node does not recognise its own messages and delivers
  them twice, where README.md:1698 promises one copy per connection. One node of the
  run is like that: `AtMostOnce` allows its connections this one copy more.
- A message without an id, which broadcastMessage (`SSERoomBroadcaster.ts:128`) takes
  as any other, is never a duplicate (`SSERoomBroadcaster.ts:229`): a connection of
  another node gets it once per room it is in. `AtMostOnce` exempts it.
- A connection whose schema rejects an event makes the loop throw: later connections
  and the other nodes do not get the message (`SSERoomBroadcaster.ts:147`).
  `NobodyForgotten` exempts such loops.
- sendStream, broadcasts and the error event do not wait for the replay: they stand
  among its events, and between those of session.send (`fastifyRouteUtils.ts:316`).
  `SendsInOrder` speaks of session.send, as the comment at 288 does.
- The cache of a connection that has gone is created again by a loop that still
  has it in hand (`SSERoomBroadcaster.ts:183`, `233`), and stays.
- Two overlapping refreshes of one connection leave it in rooms its context does
  not name; a refresh on its way when the connection closes stores its state again
  (`SSESubscriptionManager.ts:201`, `212-222`).
- A refresh that replaces the context during an evaluation does not affect it: the
  message is delivered by the old one. A closing connection that handleDisconnect
  has forgotten and that is still in its rooms gets every message past the filter
  (`SSESubscriptionManager.ts:184`): `DeliveredToThePermitted` names both.
- `onReconnect` that calls session.send, as `fastifyRouteTypes.ts:439` suggests,
  waits for its own end (`fastifyRouteUtils.ts:290`): `SendsGoOn` exempts it.
- Headers sent ahead followed by no start() get a second response
  (`fastifyRouteBuilder.ts:468`): `OneResponse` exempts it.
- controller.joinRoom does not look whether the connection is registered
  (`AbstractSSEController.ts:542`): a habit of the application, not in the runs.
- disconnect() with a subscribe on its way leaves the channel subscribed
  (`RedisAdapter.ts:75-76`): the properties stop at disconnect.
- A response whose headers fail their check keeps the status its handler set
  (`fastifyRouteBuilder.ts:220`), where a body that fails resets it to 500: the
  property speaks of bodies.
- A client that prefers `*/*` to a listed type of lower quality gets the listed type,
  and `application/json;q=0` does not keep a route whose default is json from it
  (`fastifyRouteUtils.ts:655-670`). The comment of determineSyncFormat lists
  text/event-stream as the first priority; the code goes by the header's order.

- Two resolvers of one name share an entry in the Map of their rooms, and the second
  takes the place of the first. `types.ts:78` asks for unique names and nothing checks
  it: `NamesAssumption`.

Test tools:

- The fields of a block without data become part of the next event
  (`sseParser.ts:48`): the properties are about the data.
- A collectEvents that times out loses what it had collected and the next chunk
  (`sseHttpClient.ts:285`); if that chunk ended an event begun in the buffer, the
  next event takes the text of both. It returns fewer events, without an error, when
  the response ends first.
- connect() that waits for the spy and times out leaves the response open, with
  nobody to close it (`sseHttpClient.ts:184`).

Start-up and shutdown:

- A controller whose name another module declares too is filed twice, and the
  winner's routes are registered twice: Fastify refuses (`DIContext.ts:97-113`).
- An override of an unknown name throws after the overrides before it were
  registered (`DIContext.ts:179`).
- init() that fails leaves what was started up, and destroy() that fails at one
  component skips the rest and the container (`DIContext.ts:439-446`); called again
  it finishes. A handler on its way may start a session after closeAllConnections.
- An empty list of queues counts as enabled when asked without a name
  (`diConfigUtils.ts:38`), and the manager of all queues is then started with none.

Gateways:

- Two layers with match rules of different kinds keep both after the merge, and the
  renderers take the first of exact, prefix and regex: a route's `{prefix}` loses to
  a default's `{exact}`, although README.md:3022 has layers merge in the order service,
  controller, route. Keys of a rate limit of two kinds make the manifest fail.
- `gatewayMetadata.ts:163` says that generators put unmapped data into warnings. Not
  so for `tags`, `timeouts.idle` and `timeouts.connect` anywhere, `retry.backoff` in
  Envoy, all of `retry` and part of `auth.jwt` in Kong, and match rules of headers
  and queries, `cache.methods` and all of `retry` but its attempts in KrakenD:
  `Silent` in `Application` lists them, and `NothingDroppedSilently` is about the rest.
- Of a route with an optional parameter only the path with it is reached through
  Envoy and Kong. KrakenD is given `{wildcard}` as it is, which it takes for one
  segment. The order of routes puts `{id}` before `me`, and Envoy takes the first
  that matches (`buildManifest.ts:132`).
- A Kong route without a timeout inherits that of its service, and windows of more
  than a day become a day, which is looser.
- `extensions.kong` is merged shallowly and may overwrite the generated plugins; an
  array as in `gateway-kong/README.md:57` does not pass the schema.
- KrakenD's one CORS policy also applies to routes that declare none.
- Extensions replace what is generated: `extensions.envoy.match`, `extensions.kong.paths`
  and `extensions.kong.plugins` take the place of the route's own
  (`gateway-kong/src/render.ts:108`, `182`, `283`). The properties exempt such routes.
- A parameter that is called `wildcard` becomes `{wildcard}`, which renderers take for a
  wildcard (`pathNormalize.ts:28`, `39`): Envoy then matches more than Fastify serves.
- One controller filed twice gives two routes of one origin, if only their ids differ:
  the properties speak of some route of an origin.

## Proofs

`tlapm M.tla` checks them. They hold for every set of connections, rooms, nodes,
users, waiters, streams and applications and every value of the bounds. What they
assume are the assumptions of the modules on their constants:

| Assumption | Why the code justifies it |
|---|---|
| bounds are natural numbers (`MaxInFlight`, the `budget` of `Setups`, `MaxCalls`, `CacheSize` at least 1, ...) | they are the model's, `CacheSize` is a positive constant of the code |
| `BroadcastAssumption`: one origin per message, node ids for all nodes, finitely many rooms | a run of the program names finitely many rooms |
| `ChainAssumption`, `NamesAssumption`: resolvers of a chain have different names | `types.ts:78`; see the findings |
| `ConnectionAssumption`: no session is one of the words an outcome can be; no call is of two methods | model values |
| `StreamsAssumption`: a stream is a sequence of characters and ends with a blank line | that is how an event ends on the wire; a stream that breaks off within an event is one of which not everything arrives |
| `HeaderAssumption`, `FormatAssumption`: a header is a sequence of entries of a type and a number; a handler that negotiates supports some format | what split, trim and parseFloat give; the fallback for no format is a constant of the code |
| `WordsAssumption`, `AlphabetAssumption`: the bound of a request's length is a number; names are strings | |
| `GatewayAssumption`: metadata is a tree whose keys are strings, the URL of a route has segments of the four kinds and at least one | JavaScript; Fastify refuses a URL that does not begin with a slash, as `pathNormalize.ts:23` does |
| `AppsAssumption`: modules and overrides are objects, a name stands once in each; a resolver has the fields awilix gives it | JavaScript |

A theorem that needs more says so: two habits, `Orderly`; see below.

**SSERoomManagerProofs.** `ManagerInvariant`: types, `MapsAgree` and `NoEmptySets`
are together inductive. None is inductive alone: a leave deletes a room's entry
when the set becomes empty, which is right only if the two Maps agree, and
agreement is stated through reads with default that hide an empty set.
`ManagerTypeCorrect`, `MapsAlwaysAgree` and `NeverEmptySets` are its parts,
`MapsAlwaysMirror` joins the latter two, and `ManagerImplementsMembership` shows
that the manager, read through `roomConnections`, implements `RoomMembership`.

**RedisSubscriptionsProofs.**

- `NodeKeepsManager`: a step of the node is a step of its manager or leaves it
  alone, so the theorems above hold of the node (`NodeMapsMirror`,
  `NodeImplementsMembership`).
- `RecordInvariant`: `RecordMatchesRedis` speaks of channels with nothing on its
  way; to be inductive it has to say what happens to the others. `RecordFollows`
  does: the last reply not yet processed that names a channel says what Redis
  holds of it, and without such a reply the record does. It needs
  `OneDisconnect`, because the reply to disconnect() clears the whole record and
  may not arrive among other replies. `RecordAlwaysMatches` follows.
- `SettledInvariant`: of a channel that has not raced, one batch at most is on its
  way; what it does is what the membership asks for, and without one Redis is right
  already. Channels whose disconnect is on its way are exempt. Relative to
  `RecordInvariant` this is inductive: a call on an idle channel returns early only
  when the record, and so Redis, is right. `SettledRoomsAreRight` follows.
- `NodeTypeCorrect`.

**SSESessionProofs** is about `Spec` of `SSESession`, whose steps are those of
the "sse" branch of a dual-mode route in the run `session`.

- `ResponseInvariant`: until the handler is done the only response is the stream's
  headers, and nothing takes them back. `OneResponseOnly` follows.
- `LiveInvariant`: a session in a room is registered, and one that has started and
  is connected is registered; the second part is what makes the first inductive,
  since a join looks at the connection and not at the registration. It assumes that
  no send fails on a live stream and that controller.joinRoom is only called for
  registered sessions: without the first, `session_fail_alive` refutes it.
  `NoMemberIsStale` follows.
- `HookInvariant`: which hooks have run can be read off the session's state, so a
  hook whose guard is passed has not run. `HooksRunOnce` follows, for all habits.
- `OrderInvariant`, for all habits and any number of calls: `SendsInOrder` is not
  inductive, since it says nothing of what is still to be written. `OrderInv` adds that
  the calls in the queue stand in the order of their numbers, that what was sent is
  of calls before all of these, and that nothing was while the replay goes on. A new
  call has the highest number and goes to the end, the first of the queue is written
  after all that was sent, and direct writes disturb neither. `SendsStayInOrder` follows.
- `SessionTypeCorrect`.
- `RouteInvariant` is about a dual-mode route: it answers by itself on its sync branch
  only and once, and before and beside the SSE branch nothing of a session has happened.
  Steps of the SSE branch are steps of `SSESession`, so all of the above hold of the route
  (`RouteRespondsOnce`, `RouteHooksRunOnce`, `RouteSendsStayInOrder`, `RouteMembersAreLive`,
  `RouteTypeCorrect`). The rest of it follows the status from the handler through
  both checks, with the reset between them, to the answer: `InvalidBodiesAreErrors`.
- `ClientAlwaysGetsWhatItPrefers`: `ArrangedIs` shows that the position of a place, the
  number of places up to it, is a bijection if the order is total, so that sorting puts
  every place once and in order. `FirstIsBest` takes from it that the first of the sorted
  entries that are good for something is the one of the highest quality and, among
  these, the first of the header, and that there is one as soon as any is good. The two
  functions say what is good in their own terms: `ModeIsBest`, `FormatIsBest`.

**SSESessionSpyProofs.**

- `UniqueInvariant`: whoever was given a session was given one that had connected and
  was claimed or is gone, and no other waiter has it. `SessionsAreUnique` follows, and
  `GivenWhileActive`, which needs that the code's search finds the first of the events
  that fit: `FirstExists` derives that a set of indexes has a least element from the
  well-foundedness of strict inclusion.
- `AttentionInvariant`: the calls that wait, no others, stand in the queues, each once
  and with its timer; no active session that one of them accepts is unclaimed, and no
  disconnection one of them is after is on record. Since a new wait searches the record
  and not the active sessions, every active session has to be on record.
  `NobodyIsOverlooked` follows.

**SSESubscriptionsProofs** is about any number of resolvers, calls and connections;
the room manager's part is `ManagerInv`, by `SSERoomManagerProofs`.

- `SubscriptionInvariant`: of a connection that has not raced, index, context and rooms
  agree, and one call at most is under way. What makes this inductive is what that
  call knows (`OneCall`): a connect that the connection has no state yet, a refresh
  that the state it read is the one still stored. Only with the latter does comparing
  `was.rooms` with the new rooms, as the code does, set right what the connection is
  really in. Resolvers that threw, or were not asked yet, keep what they had
  (`FailedKeep`). `UserIndexAlwaysAgrees`, `RoomsAlwaysMatch`, `GoneAlwaysForgotten`,
  `SubscriptionsTypeCorrect` and the action property `FailuresKeepRooms` follow.
- `DeliveryIsSubscriptions`: the filter at work refines the subscription manager.
- `AlwaysDeliveredToThePermitted`: during a turn, the verdicts heard so far are those
  of the user whose context was read when the turn began, none of them a denial, and
  `hasAllow` tells whether one allowed (`HeardSoFar`). So the decision is that of the
  whole pipeline however many refreshes happen before it is made.

**SSERoomBroadcasterProofs.** Every step is a step of one loop with one connection in
hand, or leaves the loops alone (`NextIs`); each lemma says of both what they change.

- `BroadcastTypeCorrect`: with the types, a loop holds connections of its own node and
  audience, and no copy of a message comes twice to one node over one room
  (`StartedOnce`, `NotYetSent`).
- `NobodyEverForgotten`: whoever a loop has passed is served, denied, gone or in another
  loop's hand. The last makes it inductive: a loop passes over a connection whose
  cache has the id, and the id is put there before the send, so the one that put it
  there either still has the connection in hand or has served it.
- `DeliveredAtMostOnce`, for any node ids: the publisher's one loop serves each
  connection once (`ServedOnce`). Loops for what comes from Redis meet on one node, one
  per room, and `SeenOnce` says that of a message with an id one of them at most has
  the connection, that the id is in the cache from then on, and that nobody has it to
  whom the message was relayed, unless the cache has dropped the id. The sum is two at
  most where both happen, and `RelayedAsForeign` says that on the publisher's own node
  nothing is relayed unless it hears its echo.
- `CountsAlwaysRight`: the counter is the cardinality of the set of those served, by the
  library's theorems on finite sets.

**SSEHttpClientProofs.**

- `AllNumbers` derives induction over numbers from the well-foundedness of strict
  inclusion; `LoopRuns` and `LoopKeeps` derive from it that a function defined by
  recursion over the turns of a loop has a value at each turn, and what holds before
  the loop and is kept by a turn holds after it. `ParserReturns` uses them to show that the
  parser returns events and a rest of its text for every text.
- `HandInvariant`: what was given to the consumer, what the call holds and what is left
  of the chunk in hand are, joined, a part of what was parsed, in order, and a call
  holds events in one way only. `HandedOverInOrder` follows.
- `ArrivesInOrder` is about what the parser computes, so it needs induction over texts.
  `AllSequences` derives it from `AllNumbers`: with it each loop is described by what one
  more character or line adds (`FinishedGrows`, `TurnsGrow`), and two loops over the same
  lines are compared turn by turn (`LoopsAgree`). `ParserSplits` says that a text is a
  front, whose events the parser returns, and the rest it keeps: either an event is over
  at the end of the front, or the text ends with the line break of an event's field, and
  only a chunk that `cutShort` records ends like that (`CutIsCutShort`). `BlocksAreEvents`
  says that the data of the events is that of the blocks between blank lines.
- `ArriveInvariant` is inductive because its conjunct `Continues` speaks of every text that
  may follow: what has been read with `more` after it has the data lines that were
  received and those of the buffer with `more` after it, and the same events unless a
  chunk was cut within one. Without the quantifier nothing would follow for the next
  chunk. `Waiting` adds that the chunks in the queue go on from there. `ArrivesOnce` is
  the case of no text for the data lines, and that of the rest of the stream for the
  events.

**ApplicationProofs.** The loops over modules, controllers and overrides are recursive
functions, so `LoopRuns` and `LoopKeeps` serve here, too (`AssignedIs`, `FlattenIs`,
`OverrideIs`).

- `NamesAlwaysBelong`: `TargetIs` says that the entry of a name is that of the last
  declaration which claims it, `RegisteredIs` adds the overrides up to the first whose
  name nobody claims, where the code throws. `RegistrationInvariant` says that registration
  happens once and nothing touches the container afterwards.
- `ApplicationTypeCorrect`: the names that routes are registered for are in the container.
- `LifecycleInvariant`: what is up has a disposal; while destroy() is at work what is up
  is still to be disposed of and a session that was open when it began still to be closed.
  A failing disposal leaves it in the set, so the next destroy() finds it.
  `NothingEverLeftRunning` and the action property `ShutdownAlwaysInOrder` follow for
  applications that are `Orderly`: resolvers are disposed of as the functions of
  `resolverFunctions.ts` have it, and nothing but another streaming controller takes the
  name of one. Both are the application's to break, by giving a worker a priority of its
  own or replacing a controller with a plain class, and then the order is lost.
  `ResolversInPlace` shows that every one of the functions makes resolvers that satisfy
  it, provided that the caller's options leave disposal alone (`Untouched`).

- `GatewaysFollow`, the inductive invariant of the gateways: once an application is
  registered nothing collects controllers anew, so the last manifest is the one they give
  with some defaults, and a configuration is what was rendered from the manifest that is
  there. Building a manifest has to forget the configurations for this, and does. With it the
  four properties become facts about functions:
  - `RoutesHaveTheLastWord`: `EntriesAre` and `ManifestIs` say that the manifest has the
    entries of the controllers and no others, sorted (`ArrangedIs`, `PrecedesOrders`);
    `MergedIs` that a merge keeps all of what stands over; `ParsedIs` what the schema strips.
  - `GatewaysAlwaysReachRoutes`: `NormalizedIs` keeps segments and their places,
    `PatternServes` compares a pattern with a URL segment by segment, `EnvoyKeepsPattern`
    and `KongKeepsPaths` follow the pattern through the rest of the rendering, where
    extensions are merged last.
  - `KongAlwaysKeepsLimits`: `ServiceWaits` says that the shared timeout is one of those
    of the routes and not below any, and that routes below it are warned of;
    `KongKeepsLimiter` that no other plugin takes the limiter's place, and `BucketFits`
    that the bucket chosen is no shorter than the window.
  - `CorsAlwaysKeptOrReported`: the policy is that of the first route that has one, and
    the others are compared with it.

**Only model-checked:**

- the liveness properties `OccupiedRoomGetsSubscribed`, `CleanedUp`, `SendsGoOn`,
  `PromisesSettle` and `CallsSettle`, which the prover does not reach;
- `NothingDroppedSilently`: it renders a route again without one of its fields, for each
  of some forty fields and three gateways, and asks whether anything changed. A proof would
  be one case per field and gateway, each of which the run goes through.

## Not modelled, and why

- What an application writes by itself, to the stream that `getStream` hands out or
  through `reply`; the data of an event, of which the model has only whether its
  schema accepts it.
- `broadcastIf` and the other loops of the controller: a sequence of sendEvent.
- The inject client and helpers: one request, one complete response.
- Of the renderers, the document around the routes: listeners, clusters, services'
  addresses, the serialisation to YAML or JSON. A warning is the field it names.
- Of route building, contracts and the types of handlers; options of routes other
  than preHandlers and rateLimit. They are configuration and types without state.
- The in-memory adapter: all of its operations are empty.

## Plan

What is left, in this order:

1. Composition: a node of `RedisSubscriptions` per node of `SSERoomBroadcaster`, so
   that which copies arrive follows from the subscriptions.
2. A second session in `SSESession`, so that the controller's loops over its
   connections (`AbstractSSEController.ts:337`) and closeAllConnections are steps.
