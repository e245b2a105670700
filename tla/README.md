# Verification of roq-aster-futures

TLA+ models of the roq gateway to Aster Futures, the TLC runs that check them
on small instances, and TLAPS proofs of their main invariants for every value
of the constants. Paths are relative to `src/roq/aster_futures/` of the
repository; line numbers of every definition are in `PROJECT.json` ("map").

## 1. The system

The gateway is one process with one event loop. Every callback (a client's
request, a timer, a web socket event, a REST answer) runs to its end before the
next one starts. There are no locks and no threads of its own: what makes the
gateway hard is the order of callbacks of *different* connections, and state
that is kept across them.

| Component | State it keeps | Operations | Talks to |
|---|---|---|---|
| `Controller` (gateway/controller) | `drop_copy_`, `drop_copy_zombies_`, `market_data_`, `OrderEntryRR::index_`, `stream_id_` | Start, Timer, Subscribe, routing of order requests, `SymbolsUpdate`, `ListenKeyUpdate`, `Remove` | owns all others |
| `OrderEntry` (gateway/order_entry) | ready, `next_heartbeat_`, requests outstanding on a pipelined REST connection | create / modify / cancel / cancel-all and their answers, listen-key, account, open-orders and user-trades downloads, countdown-cancel-all | exchange, server (oms), Controller (`ListenKeyUpdate`), Request |
| `Request` (gateway/request) | four `core::limit::Request` of an account: listen-key, account, open-orders, user-trades | request, check_pending, commit, has_response | DropCopy asks, the master OrderEntry sends and commits |
| `DropCopy` (gateway/drop_copy) | connection, `download_`, `listen_key_`, `next_listen_key_refresh_`, `stop_` | session events, timer, ListenKeyUpdate, ListenKeyExpired, OrderTradeUpdate, AccountUpdate | Request, server, Controller (`Remove`) |
| `Rest` (gateway/rest) | connection, `download_` | exchange-info, depth snapshots | Controller (`SymbolsUpdate`), Shared |
| `MarketData` (gateway/market_data) | connection, `request_queue_` | subscribe, session events, market data messages | Shared, server |
| `Shared` (gateway/shared) | all symbols, slices, instruments, depth request queue, rate limiter | - | all |
| `Account`, `Crypto` (gateway/account, tools/crypto) | the last nonce, shared by all connections of the account | sign a query | OrderEntry |
| `Throttle` (tools/throttle) | `suspend_until_`, counters | response headers and statuses | REST clients |
| `Encoder`, `Map`, `Parser` (protocol/json) | - | conversions | OrderEntry, DropCopy, Rest, MarketData |
| `Config`, flags, bridges, application | configuration | start-up | - |

Hard behaviour, and what makes the components correct:

- *User stream.* A stream lives as long as its listen-key. The key may go stale
  while an answer is on its way, while the socket is down, or unnoticed. A
  stream is stopped first and removed by a later timer, and its downloads go
  through requests that outlive its sessions. Correct: no stream in use is
  removed, no stale stream is kept, no account is forgotten, READY means
  downloaded in this session, a download ends.
- *Orders.* Requests of one order take different connections. Answers, the
  stream and snapshots tell the same change in any order. Connections and
  sessions are lost with messages on them. Correct: a client that keeps the
  latest update has the exchange's state, no closed order is reopened, every
  request is replied to, every fill is published.
- *Symbols.* The exchange and clients add symbols while the sockets that must
  subscribe them come and go. Correct: each known symbol is subscribed once per
  session, by one stream.
- *Cancel on disconnect.* A countdown at the exchange is renewed by a timer.
  The timer goes on while the throttle suspends requests, without sending any.
  Correct: it never fires while the gateway is alive and may send, and always
  fires when it is cut off.
- *Order book.* Updates come on one connection and snapshots on another; both
  feed one sequencer per instrument. Updates are lost with a session, snapshots
  are late, too old, asked for twice or refused. Correct: the book clients see
  is the exchange's at the sequence it is published for, it only goes forward,
  and an instrument that waits for its book has a request on its way.
- *Nonces.* All connections of an account share one nonce, which is made from the
  time an event was *created*. Events are handled in another order, one event
  signs several requests, the clock is stepped back, and the last nonce is lost
  with the process. Correct: no nonce is used twice, and they grow on each
  connection.
- *Throttling.* A 418 or a 429 suspends requests for a minute by a clock that may
  be stepped back, while answers to earlier requests tell of limits again.
  Correct: no request is sent while the exchange was promised silence.
- *Balances.* The account snapshot and the events of the user stream race.
  Correct: a client that keeps the latest update has the exchange's state.
- *Terms of orders.* They are encoded by one set of tables and decoded by
  another. Correct: an order comes back as it was asked for.

`PROJECT.json` lists every hazard at its line, with the properties for it.

## 2. Modules

| Module | What it models |
|---|---|
| `UserStream` | Controller, Request, master OrderEntry and DropCopy around one user stream per account |
| `StreamLifecycle` | abstract: what clients may conclude from StreamStatus messages |
| `UserStreamProofs` | proofs about `UserStream` |
| `OrderFlow` | order requests, their routing, the three sources of order updates |
| `MCOrderFlow` | instances of `OrderFlow`, for the other runs |
| `OrderView` | abstract: what a client is shown of the states an order went through |
| `OrderHistory` | `OrderFlow` with history variables; implements `OrderView` |
| `MCOrderHistory` | instance of `OrderHistory`, for OrderFlowRaces |
| `OrderFlowProofs` | proofs about `OrderFlow` and `OrderHistory` |
| `Terms` | the tables of `Map` around `Encoder::place_order`, with theorems |
| `Subscriptions` | Rest's exchange-info, Controller's symbols, MarketData's subscriptions |
| `SubscriptionsProofs` | proofs about `Subscriptions` |
| `Depth` | the order book of an instrument: MarketData's updates, Rest's snapshots, the queue of depth requests |
| `MarketBook` | abstract: what clients may conclude from the published book |
| `DepthProofs` | proofs about `Depth` |
| `Countdown` | cancel on disconnect in discrete time |
| `CountdownProofs` | proofs about `Countdown` |
| `SystemClock` | the host's clock, which may be stepped back, and the absence of a process |
| `Signing` | nonces of an account (`Crypto`), on `SystemClock` |
| `Throttle` | suspension of requests, on `SystemClock` |
| `Account` | composes `Signing` and `Throttle` with an account's connections, its funds and positions |
| `MCAccount` | instance of `Account` |
| `AccountProofs` | proofs about `Signing`, `Throttle` and `Account` |
| `SequenceFacts` | lemmas on sequences for the proofs |

### UserStream

`dc[a]` is the DropCopy of account `a`: its key (`listen_key_`), `stop_`, the
state of its connection, `download_.state()`, the status last published and
`next_listen_key_refresh_`. A null pointer is `conn = "NONE"`. `zombies` is the
Controller's list. `want`, `sent` and `have` are the three things a
`core::limit::Request` knows: asked for, sent, `has_response()`. `late` counts
user-trades answers outstanding (one request is sent per symbol, and the first
answer commits). `offered` holds the keys the outstanding listen-key request may
be answered with: the exchange's key when it was sent or a later one. `last`,
`refused` and `done` are history.

`Timer` is one callback for all accounts, in the code's order: zombies are
removed and new keys asked for, every OrderEntry sends what the rate limiter
admits, every stream that is left looks for answers, enters the next download
state and refreshes its key. All other actions are single callbacks:
`ListenKeyAck` contains the `ListenKeyUpdate` it dispatches, which creates a
stream or stops the one with another key. `ListenKeyError` stands for errors,
time-outs and lost connections, which commit and log. A commit for a request
that was asked again meanwhile may or may not count as the response.

`ImplementsLifecycle` is the refinement: mapped through the last published
status, `UserStream` implements `StreamLifecycle`. A stream is created closed,
downloads from nothing in every session, becomes READY when everything required
was fetched, announces the end of a session, and goes away only when closed.

### OrderFlow

`wire[c]` is the pipeline of a REST connection. An entry is a request, the
category of its answer, and the order's state in the body. `book` is the
exchange, `feed` the user stream, `snap` an open-orders answer on its way.
`view` is the latest state published for an order, by the exchange's time, as
the server's order cache keeps it. `open` holds requests a client waits for.
`Route` is `OrderEntryRR::get_next`; `Outcome` is `process_response`;
`Named` is the encoder's choice of ids.

`OrderHistory` changes nothing of it and adds two history variables: `past`, the
states each order has been in, and `behind`, the lots that were not reported
when the session of the stream began. With them `ImplementsOrderView` is the
refinement: what the sources tell between them implements `OrderView`, in which
a client is shown states the order really had and none older than the last it
saw. `FillsOnce` counts `TradeUpdate`s: those of a session miss nothing and
repeat nothing.

### Subscriptions

`symbols` is the list of `Shared`, cut into slices of `Max`; `ready`, `queue`
and `sub` hold for each MarketData its readiness, its request queue and what the
exchange received in this session. `SymbolsUpdate` is the Controller's handler,
called by `Subscribe` and `ExchangeInfoAck`. That new symbols are appended, into
how many slices they are cut and what a slice holds is the contract of
`core::Symbols`, outside the repository. `download`, `asked`, `status` and
`answer` are Rest's download.

### Depth

`hist` is the exchange's book: which price level each of its versions changed. A
book maps a level to the version that changed it last, which tells a missing
change from one that is merged over a later one. `wire` and `answers` are the two
connections, `queue` is `depth_request_queue`, `book` and `bookSeq` are what the
published messages add up to.

`market::mbp::Sequencer` is not in the repository. Its contract is read from its
callers. An update that does not follow the one before throws BadState. The
first update asks for a snapshot, since nothing else does; later ones may when
`sequencer_timeout` has passed. Updates are cached, since a snapshot is published
with `apply`. A snapshot older than the cached updates is asked for again, since
the handler of snapshots passes `request_snapshot`; one newer than them is held,
since the handler of updates passes `publish_snapshot`. A snapshot nobody waits
for is ignored, and any may be refused by BadState.

`Handle` is what both handlers do with the outcome, and `BadState` their common
`catch`. `DepthUpdate` and `DepthAck` are the handlers. Other instruments share
only the queue, and delay what is in it. The sides of the book and the depth
limit of a snapshot are abstracted. `log::fatal` sets `dead`: the gateway stops,
so deadlock is not checked in this run.

`ImplementsMarketBook` is the refinement: `hist`, the published `book` and
`bookSeq`, and whether the sequencer is synchronised implement `MarketBook`. An
incremental update takes clients to the book of a later version, and only while
the gateway follows the exchange; a snapshot begins to follow, and never takes
clients back; a gap loses track and shows nothing.

### Account

`Signing` and `Throttle` are modules of their own on one clock, each with a
specification, and `Account` conjoins their actions with its own.

`Sign(origin, k)` is what one event does that was created at `origin` and signs
`k` requests; `low` and `high` are the times events of this process may carry.
`MessageEnd` is the throttle's handler; `quiet` is for how much longer the
exchange was promised silence, in true time. `Restart` is a new process: a new
`Crypto` and a new `Throttle`, no connection, nothing published.

`wire[c]` is the pipeline of a connection. `Send` signs the requests an event
leads to and puts them on a connection, unless requests are suspended. `book` is
the exchange's account, each item named by the time it changed last, `feed` the
user stream and `view` the latest state a client was told, by item and margin
mode. `Deliver` is `account_ack` (and the throttle's handler on the same
message), `AccountUpdate` the stream's handler. `current` is history: was a
snapshot delivered that was taken in this session of the stream.

### Terms

No state: `Query` is what `place_order` puts in the query of a `CreateOrder`,
`Report` the exchange's view of it, and `Published` the terms of the update made
of any report. The tables `json => roq` and `roq => json` of `Map` are one
operator each. Prices, quantities and ids are not part of the terms.

### Countdown

Time is discrete and relative: `wait` until `next_heartbeat_` has passed, `idle`
since the last timer, the ages of the requests on their `wire`, `left` of the
exchange's countdown. `Window` is what the exchange is told, ping_freq in whole
seconds. `Period` and `Delay` bound timers and network, and `Losses` is how many
requests in a row may have no effect. `held` is a suspension by `Throttle`
(`Suspended`, `Resumed`), which any request of the gateway may bring about:
`check_countdown_cancel_all` knows nothing of it and moves `next_heartbeat_` on,
but nothing is sent. It lasts a minute, longer than the countdown, so the
countdown of a gateway that is alive may run out meanwhile; `KeptAlive` speaks of
the time after (`free`, the time since requests were last suspended).

## 3. Runs

| Run | Bounds | Shows |
|---|---|---|
| UserStreamSafety | 1 account, 2 keys, fills of 2 symbols, 3 such answers outstanding | TypeOK, ZombieSound, ReadyMeansDownloaded, NoOrphan, StaleIsStopped, ReplacedCleanly, DownloadComing, ImplementsLifecycle |
| UserStreamLive | 1 account, 2 keys, no fills | StreamBecomesCurrent, DownloadEnds |
| UserStreamRefused | 1 account, 1 key | EveryAccountGetsStream is violated |
| OrderFlowRaces | 1 order of 2 lots, 2 requests for it, 1 connection, the stream is lost once | TypeOK, ViewConverges, FillsOnce, ClosedStaysClosed, ImplementsOrderView |
| OrderFlowRouting | 1 order, 3 requests, 2 connections, no stream | NoStarvation, NamedExists, OnlyRefusedForgotten, AnsweredOrRefused |
| OrderFlowForgotten, OrderFlowCancelAll, OrderFlowFills | as OrderFlowRaces; cancel-all with 2 orders of 2 instruments | NoRequestForgotten, CancelAllTruthful, FillsReachClients are violated |
| Subscriptions | 4 symbols, 1 discarded, 2 per stream, 1 connection lost | TypeOK, SubscribedOnce, KnownOnce, ServedByOne, RestNeverIdle, KnownSubscribed |
| Depth | 2 levels, 4 changes, 2 connections lost, 1 retry | TypeOK, BookExact, SyncedIsCurrent, SnapshotComing, NeverBack, ImplementsMarketBook |
| Account | 2 connections, events of 2 requests, 3 requests, 2 changes of an asset and a position with cross margin, 5 ticks with one step back, backoff of 2, 1 stream lost, restarts | AccountTypeOK, NoncesUnique, NoncesGrow, BalancesConverge, SilenceKept |
| Countdown | ping_freq 7.5 s in ticks of 0.25 s, timers and requests up to 2 and 3 ticks late, 1 refused in a row | TypeOK, KeptAlive, RunsOutWhenCutOff |

Why the bounds are enough. *UserStream*: two keys make one replacement, and with
it a stale answer, a stale response and a removal; a third repeats the second.
Accounts meet only in `Timer`, which treats each by itself, and the invariants
are proved for any number of them. Two symbols are the least with a first and a
later commit. *OrderFlow*: the races need a change on the stream, one in an
answer and one in a snapshot, which one order with two requests and two lots
gives; a third request and a second connection give overtaking and a round robin
that goes round with a connection missing. The history adds few
states to these: a lot may trade before the first session or between two, which
makes a session begin `behind`. That no connection starves is proved
for any number of them. `RoutingSpec` keeps the stream down and admits two
requests on their way; no step that fairness asks for is lost by it, so that
liveness is checked in the same run. *Account*: two requests in one event make
the nonce run ahead of the clock, one step back and one restart make it forget;
funds and positions do not depend on the clock, so the constraint `OneAtATime`
of `MCAccount` follows either of them while the other rests. The theorems know no
such constraint. *Subscriptions*: four
symbols fill one slice and open a second, and one of them is discarded; the
connection lost is any of them, Rest's in the middle of a download included.
*Depth*: four changes in updates of one or more give a gap with updates on both
sides of it, and a snapshot from each side; two losses take the stream and Rest
away, or one of them twice; the second retry is one too many.
*Countdown*: the settings meet `MarginAssumption` with one tick to spare; a
suspension begins and ends at any time; the theorems cover all other settings.

Bounds in guards: `MaxKey`, `MaxTradeAnswers`, `MaxVersion`, `MaxDown`,
`MaxDrops`, `MaxTime`, `MaxDrift`, `MaxRequests`, `MaxChanges`, `Ahead` (how far
the nonce runs ahead of the clock), one cancel-all, one open-orders answer on
its way, `elapsed` capped at twice `Window`, `free` beyond `Resettled`. Deadlock is checked in every run but Depth.

### Fairness

`UserStream`: the event loop keeps calling the timer (weak fairness for the work
it always finds, strong for what needs a ready socket or a rate limiter that
admits again and again); a REST client answers or times out
(`request_timeout`); a REST connection comes back; a socket that closes reports
it; the clock goes on. Of the exchange: it accepts a web socket and answers a
listen-key request with a current key, again and again if asked again and
again. `UserStreamRefused` has the same fairness: asked again the exchange would
answer, but it is asked only once.

`OrderFlow`: a connection delivers its oldest answer or is lost.
`Subscriptions`: connections and sockets come up, the queue's timer runs.

### What the violations show

1. `OrderFlowCancelAll`: `cancel_all_orders_ack` (gateway/order_entry.cpp:897)
   takes code 0 for success, the exchange's success is 200
   (`test/json_cancel_all_orders_ack.cpp:22`): a cancel-all that is done is
   published as rejected.
2. `OrderFlowForgotten`: a 4xx other than 403 and 429 reaches no handler
   (gateway/order_entry.cpp:1003): the client waits for ever.
   `OnlyRefusedForgotten` and `AnsweredOrRefused` show that this is the only way.
3. `UserStreamRefused`: one error as answer to the first listen-key request and
   the account has no stream for ever (gateway/order_entry.cpp:275).
   `NoOrphan` and `StreamBecomesCurrent` show that this is the only way.
4. `OrderFlowFills`: fills that are downloaded are only logged
   (gateway/order_entry.cpp:497), so one that happens while the stream is down
   is never published.

## 4. Proofs

All theorems hold for every value of the constants that meets the modules'
named assumptions.

**UserStreamProofs.** Assumptions: `TradeSymbols` and the bounds are naturals.
`TypeCorrect` is inductive with the conjunct that a missing stream has no
leftovers. `ZombiesAreDead` is inductive over types once a stopped stream
that is down is known to stay down until the next timer. `ReadyIsDownloaded`
needs more: READY may rest on a response from an earlier session only if that
response cannot be taken for this one's, so the invariant `DownloadInv` says for
each state of the download what was answered, what is in `have` and what may
still be committed late. `ReplacedOnlyWhenStopped` (an action property) and
`NoAccountForgotten` follow from how each step keeps a stream or takes it away
(lemma `ReplaceStep`). `StaleStreamsStop` relates the key of a stream to
the last answer. `LifecycleImplemented` is `Spec => ImplementsLifecycle`: every
step is a step of `StreamLifecycle` for every account (`CycleStep`). It rests on
`DownloadInv`, which says that a stream becomes READY only from DOWNLOADING and
with everything required fetched, and that a socket comes up only for a stream
announced as closed; and on `ZombieSound`: what is removed was announced, too.

`NothingLost` is `Spec => []DownloadComing`: a stream never waits for an answer
that cannot come, although Request is shared by all its sessions and several
answers to user-trades are outstanding at once. `ComingInv` adds that user-trades
are waited for only if there are symbols to ask for. The lemma `CommitComing` is
the heart of it: an answer that commits a request either leaves a response, or a
newer request that is queued. Together with fairness this is why a download
ends, which TLC checks.

**OrderFlowProofs.** Assumptions: `N` is a positive natural, orders are finitely
many and have a symbol, the bounds are naturals. `RoundRobin` is
`Spec => []NoStarvation`. The property alone is not inductive. `RoutingInv`
bounds the lag of a ready connection by its distance from the index: `lag` plus
the distance still to go stays below `N`, and choosing a connection brings all
ready ones that were passed nearer by one at least.

`NamedReachKnown`, `NeverReopened` and `LatestIsRight` rest on `KnownInv`: what
is on a connection, on the stream, in a snapshot and in the client's view is an
older state of the order, or the order itself (`Older`), and a request that
names an order is for one the exchange knows. `NeverReopened` follows from it,
since a closed order has no later state. `LatestIsRight` needs `ConvInv` in
addition: an order whose state the client lacks is told on the stream, or is in a
snapshot still on its way, or closed while there was no stream, or the session's
snapshot is still to come. `TypeCorrect` needs `FillInv`, for the quantity
that updates add up to, and `OnlyRefusedWait` needs `WaitInv`: who waits has a
request on a connection, or was refused.

`OrderViewImplemented` is `HistorySpec => ImplementsOrderView`, and needs the
history: whether a state that is published late is one the order had cannot be
told from the present. `PastInv` says that what is on a connection, on the stream
or in a snapshot (`Told`) is in `past`, and that `past` ends with the order's
state; `WireNews`, `FeedNews` and `SnapNews` show that no step tells of a state
that was not told of, or reached, before. What `OrderView` asks of a new state (a
later time, no lot given back, nothing after the end) is the lemma `UpdateBook`.

`EveryFillOnce` is `HistorySpec => []FillsOnce`. FillsOnce says nothing while
trades are on their way, so the inductive `BehindInv` says what they are: `NoGap`,
the trades on the stream make the order filled, one lot after the other, from
what was reported and `behind` up to what was executed. An event that leaves the
stream is the first of them (`TakeNoGap`), one that enters it the next
(`UpdateNoGap`).

**SubscriptionsProofs.** Assumptions: symbols are finitely many, a slice holds
one at least. The lemma `SliceExtends` carries the proof: what a slice holds of
the old list, followed by what it holds of the new one beyond the length of the
old, is what it holds of the new. `StreamGrows` lifts it to an update of the
symbols and all streams, in whatever state each of them is: `SliceSubscribed`.
`NoDuplicates` (the list holds each known symbol once, by counting),
`TypeCorrect` and `AskedAgain` have the
invariants `ListInv`, `StreamInv` and `RestInv`. `EachSymbolOneStream` joins the
two halves: a list as long as its elements are many holds each of them once
(`ListedOnce`, by counting), every position of it is in one slice and in one only
(`SliceOf`), there is a stream for that slice, and a stream that is ready carries
its slice and nothing else.

**AccountProofs.** Assumptions: the bounds are naturals, `Burst` is positive, and
`DowntimeAssumption`: a restart takes longer than the nonce may be ahead of a
clock that was stepped back. `NeverSignedTwice` is proved of `Signing` alone.
`NonceInv` says that a nonce is at most the last one of this process, or so old
that even the steps back still to come do not reach it; it is kept by a restart
because of `DowntimeAssumption`, which nothing in the repository enforces.
`SilenceIsSuspension` is proved of `Throttle` alone; `QuietInv` says that the
suspension lasts for as long as the silence does. `AccountComposes` says that
every step of `Account` is a step or a stutter of both, which makes the two
theorems hold of the composition. `ConnectionsGrow` needs that pipelines are
`Orderly`: nonces grow along each of them, and from what arrived last.
`SilenceIsKept` is an action property. `BalancesAgree` has `BalanceInv`, which
is to items what `ConvInv` is to orders.

**Terms.** No assumption. `TermsSurvive`: for every order that the exchange takes,
encoding, report and decoding give back its side, type, time in force and
position effect. `NothingInvented`: whatever the exchange reports of orders
placed elsewhere, no defined term is published that it did not report.

**CountdownProofs.** Assumptions: settings are naturals and leave a margin,
`(Losses + 1) * Spacing + Delay < Window`. `AliveIsKept` and `CutOffRunsOut` are
the two promises. The invariant follows requests, because KeptAlive says nothing
of them: `SendingInv` bounds the time since the last request that will have an
effect by the number refused since, unless requests are suspended; `RunningInv`
says that the countdown left is `Window` less the time since the request that set
it, or the session, or the time since a suspension (`HeldInv`), is too young;
`CutOffInv` says that what is on its way without a connection is at least
as old as the loss of it.

**DepthProofs.** Assumption: the bounds are naturals. `BookIsRight`,
`SyncedFollows`, `OnlyForward` and `TypeCorrect` rest on one invariant,
`BookInv`. BookExact alone is not inductive: whether a snapshot and the cached
updates add up to a book depends on what is cached. `SequencerOK` says that the
sequencer waits with updates cached that are `Linked` (each begins where the one
before ends, the last one is the last received), or is synchronised and where
the published book is; `WireOK` says that what is still on its way comes after
what was received. `JoinRight` joins them: of linked updates those beyond the
snapshot are linked again (`BeyondLinked`), and if the first of them begins at or
before it they name every level that changed since, so that `AppliedRight` gives
the book of the last update. `MergeRight` does it for a single update.

`WaitingHasRequest` is `Spec => []SnapshotComing`. It is not inductive: the
sequencer asks only for the first update it caches, so `ComingInv` adds that
before the first update received nothing is cached, and the types this rests on.
The lemmas `JoinOutcome`, `UpdateOutcome` and `SnapshotOutcome` say how the
sequencer may end a call: with a snapshot, with a request, or waiting as before.

`MarketBookImplemented` is `Spec => ImplementsMarketBook`, from `BookInv` again:
`ShownBook` says that a book that is right for its version is one `MarketBook`
may show, `SilentWait` that a sequencer that waits publishes nothing, and
`MarketStep` maps every step of `Depth` to a step or a stutter of `MarketBook`.

Only model-checked: liveness under fairness (`StreamBecomesCurrent`,
`DownloadEnds`, `AnsweredOrRefused`, `KnownSubscribed`), which is out of the
prover's reach. Every other property of a passing run is a theorem. The
violations are found by TLC.

## 5. What is not modelled

- Outside the repository, modelled by the contract the code relies on:
  the exchange, `web::rest::Client`, `web::socket::Client`,
  `market::mbp::Sequencer`, `core::limit::Request`, `core::Download2`, `core::Symbols`, the server's
  order cache. These definitions are marked external.
- Conversions without a property about them: queries, JSON, number formats.
- `CONFLICT` (409) hits `assert(false)`; the model is that of a release build,
  where it is treated like other 4xx.
- A redirection (3xx) as answer to a request ends the process by
  `log::fatal`, as everything else in it ends; no property is about it.
- What a request meets that is made while requests are suspended is decided by
  `web::rest::Client`. `Countdown` takes the worse case, that it is lost.
- A cut of the countdown to 0 seconds (`MarginAssumption`) and a restart within
  the time the nonce ran ahead (`DowntimeAssumption`): excluded, and listed as
  hazards without a property.
- An answer on a connection is delivered in the order of the requests. A
  request that times out closes the connection, as the REST client is set up.
- The clock is stepped back, not forward, while the process runs: a step forward
  would only make nonces larger and a suspension shorter than promised.
- Positions in hedge mode, and margin modes but for the one an update carries.
  Isolated positions are excluded from `BalancesConverge`: the snapshot
  publishes them as CROSS and the stream as ISOLATED. The run `Account` has none.
- The tables of `Map` for reference data (contract types, contract statuses,
  margin types, filters), and the publishing of trades, tickers and mark prices:
  they keep no state.
- The two counters that `Throttle` takes from headers are stored and used nowhere.
- Config, flags, API paths, bridges, application: no state after start-up.

## 6. Plan

1. *Done*: UserStream with StreamLifecycle, OrderFlow, Subscriptions, Depth,
   Countdown, Signing, Throttle, Account, Terms, and their theorems.
2. *Done*: `MarketBook` and `OrderView`, what clients are promised of a book and
   of an order, with `Depth` and `OrderHistory` shown to implement them.
3. *Next*: the same for the balances of `Account`, whose snapshots and events race
   as those of orders do.
4. *Hedge mode*: positions with two sides, once it is known which mode accounts
   of the gateway use.
