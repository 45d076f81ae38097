# Verification of plainworks

plainworks is a TypeScript monorepo of libraries for web applications: a session layer (OIDC on the
server, a session store in the browser), a resumable event channel, an HTTP and a Connect client, a
live query cache, scoped state, an application kernel, devtools and a UI kit. Most of it runs on one
JavaScript thread, so what can go wrong is not a torn read. It is that something was decided before
an `await`, a callback or a timer, and the world is different after it.

This directory holds the TLA+ models of those parts, the TLC configurations that check them and the
proofs TLAPS checks. `PROJECT.json` maps every definition to the lines it models and lists the
components, the runs, the mutants, the findings, the hazards and the theorems. Paths below are
relative to `src/`.

To check a run: `tlc -workers 2 -config ServerSession_races.cfg MCServerSession.tla`. To check a
proof module: `tlapm StateReconcilerProofs.tla`.

## 1. The system

### Modelled

| Component | State it keeps | Operations | Talks to |
|---|---|---|---|
| **State reconciler** `packages/std/src/seam/state-reconciler.ts` | the mirror, an abort controller per lifetime, write revision, read tickets, one write in flight and one waiting, a deferred read | `set`, `remove`, `start`, teardown; a subscription callback; settlements | a `StateSource` backend (storage, URL, remote) by promises and notifications; the state store by callbacks |
| **Browser session store** `packages/auth/src/session/store.ts` | generation, owner of the last login, blocked flag, CSRF proof, expiry timer, protected lifetime, the single status check in flight, the published snapshot; a queue of mutations | `revalidate`, `login`, `logout`, `invalidate`, `close`, `acquire`; expiry | the server over HTTP, other tabs through the shared cookie, transports that borrow leases |
| **Channel lifecycle** `packages/channel/src/lifecycle/channel.ts` | the session object of each `connect()`, status, retry count, attempt with its lease and timers | `connect`, `close`, the reconnect loop, attempts, status checks | a transport, a protected session, observers that may call back in |
| **Event delivery** `channel.ts`, `packages/channel/src/events/router.ts`, `packages/std/src/resilience/bounded-queue.ts` | resume cursor, receipt and acknowledgement orders, delivery generations, pending ids, a bounded queue, a drain loop | `dispatch`, `acknowledge`, `resetCursor`, offer, deliver, snapshot, close | the server's log, sinks called one after the other |
| **Server session** `packages/auth/src/server/server-session.ts`, `opaque-store/*` | session generations in families, login transactions, the provider custody of refresh tokens, cookies | `beginLogin`, `completeLogin`, `logout`, `refreshProvider` | an atomic store, the OIDC adapter, the browser's cookies |
| **Refresh token custody** `packages/auth/src/adapter/oidc/adapter.ts`, `refresh-store.ts`, `apps/next-host/src/server/custody/refresh-store.ts` | the token held for each provider handle (or that it was dropped), the refreshes in flight and their abort controllers | `completeLogin` from the code exchange on, `refresh`, `logout`; deadlines, restarts | a rotating provider, a store whose calls may take effect late |
| **Live query and optimistic mutations** `packages/query/src/cache/*`, `packages/query/src/mutation/optimistic.ts` | status, generation, attempts, one recovery with its fetch; for each mutation what it wrote and what it replaced; one entry of the cache | `connected`, `deliver`, `reset`, `refresh`, `close`; `mutate` with its four callbacks; the invalidator | TanStack Query's cache, a backend whose resource changes |
| **HTTP exchange** `packages/http/src/exchange/*`, `packages/std/src/resilience/*` | each request: attempt number, timer, budget left, outcome; each attempt: its lease, whether its request is out | `request`: attempts, waits, timeouts, deadline, caller's abort | a protected session it leases from, a server |

How they meet: the server session is the environment of the browser store (its `server` variable);
the browser store's protected session is what a channel attempt borrows and what a reconnect
revalidates (the lifecycle's `leased`, `invalid` and `check`); the lifecycle's connections are the
environment of event delivery (its `conn`). Sinks are where live queries and reconcilers hang on: a
live query's `Deliver` and `Boundary` are the events and resets that delivery brings. The provider
custody is what the server session keeps as the set `custody`; its `Refresh` is one exchange of
`ProviderCustody`. An HTTP exchange borrows the browser store's lease and may invalidate it, which is
the store's `Rejected` protected call.

What makes each one hard, and what makes it correct:

- **Reconciler.** Reads resolve in any order, after newer writes and after a restart. Correct: a
  read never overwrites something newer, the mirror shows a pending write, the backend ends on the
  latest write, and the mirror converges on the backend.
- **Browser store.** A status answer, a login answer, a timer callback and a lease all outlive the
  session they were for. Correct: a session that ended stays ended until the next `login()`; what
  the store vouches for is what the cookie names; a confirmed logout leaves nothing usable; leases
  die with their session; the queue of mutations drains.
- **Channel lifecycle.** Every notification can re-enter `connect()` or `close()`. Loops of closed
  sessions resume from their awaits. Correct: one live stream, a true status, no leaked lease or
  timer, no effect on the session from a loop that lost its place, every session opens or ends.
- **Event delivery.** Reconnects replay, queues overflow, sinks fail half way, generations change
  while an item is being delivered. Correct: the cursor skips nothing that was not settled, nothing
  is applied twice in a generation, log order holds, everything settles.
- **Server session.** A handler suspends at each store and provider call while other requests of the
  same browser commit. Correct: a revoked family is never readable again, one generation of a family
  is live, provider custody is never orphaned, a logout answers only when it is complete.
- **Custody.** A deadline or a logout settles the promise of an exchange while the exchange itself
  runs on to its next look at the signal; issue and clean-up of a login can cross. Correct: the
  token held is the one the provider accepts, a session is called compromised only for a cause,
  nothing late puts a token back after a logout or a failed login, no slot leaks.
- **Live query and mutations.** A snapshot is fetched before an event and arrives after it; two
  mutations of one key settle in either order. Correct: what is called fresh was read after the last
  event and holds no unconfirmed guess, a rollback undoes only the newest write, recovery ends.
- **HTTP exchange.** An abandoned attempt goes on: its lease can be granted and its answer can arrive
  when the next attempt is under way or the session is another. Correct: leases come back, nothing
  abandoned supplies a result or signs a newer session out, every call ends.

### Not modelled, or only in part

| Component | What it is | Why not, or when |
|---|---|---|
| The rest of the OIDC adapter | discovery, `beginLogin`, `authenticate`, token verification | no state of its own beyond a cached document |
| SQLite session store, capacities, retention | persistence of the host | `SessionFamilies` states what both stores promise; tables, sealing, capacities and the retention window are left out |
| Query options, keys, hydration | values built for TanStack Query | only `routing.ts` keeps something: it is in `QueryCache` |
| HTTP codecs, URLs, lists, interceptors | pure functions and a chain | input and output only; the chain's outcome is one of the answers in `HttpExchange` |
| Connect interceptors | deadlines, an idle guard, protected calls | the retry driver and the leases are those of `HttpExchange`; the idle guard needs a model of a stream |
| Application kernel | capability ordering, readiness, hydration | mostly a pure ordering algorithm |
| Devtools session and client port | a request and reply protocol over a port | needs a model of the port and of both ends |
| Scoped state, state store, React bindings | thin layers over the reconciler and the channel | their hard part is the reconciler |
| JWT, CSRF, redirects, API keys, codecs, URL, list and form helpers, SSE parser | pure functions | input and output only; cryptography is out of scope |
| Theme, elements, ui, markdown, observability, mocks, templates, tooling, showcase | views, assets, build | no protocol state |

## 2. Modules

| Module | Models | Checked by | Proofs |
|---|---|---|---|
| `StateReconciler` | `createSourceReconciler` | `MCStateReconciler` | `StateReconcilerProofs` |
| `AuthStore` | `createAuthStore`, its retried status request and its server | `MCAuthStore` | `AuthStoreProofs` |
| `ChannelLifecycle` | `createChannel`: connect, close, the loop, the attempts | `MCChannelLifecycle` | `ChannelLifecycleProofs` |
| `EventDelivery` | dispatch, acknowledge and reset of the channel, the event router | `MCEventDelivery` | `EventDeliveryProofs` |
| `SessionFamilies` | *abstract*: what a session store and its owner promise | through `MCServerSession` | `ServerSessionProofs` |
| `ServerSession` | `createServerSession` over `createMemorySessionStore` | `MCServerSession` | `ServerSessionProofs` |
| `ProviderCustody` | login, refresh and logout of the OIDC adapter over a `RefreshTokenStore` and a rotating provider | `MCProviderCustody` | `ProviderCustodyProofs` |
| `QueryCache` | `createLiveQuery`, `optimisticMutation`, `optimisticUpdate`, the invalidator, over one cache entry | `MCQueryCache` | `QueryCacheProofs` |
| `HttpExchange` | `request` of the HTTP client over `runWithRetry`, `withTimeout` and a lease | `MCHttpExchange` | `HttpExchangeProofs` |

A synchronous stretch of code between two awaits is one action. An `await` splits an operation into
the call, its effect elsewhere and its settlement, and anything may run between these. In the
lifecycle a handler can also be re-entered through a notification: there the `stack` variable holds
the rest of the interrupted handlers, innermost first, and only observers' calls run until it is
empty.

How state and actions correspond to the code:

- **StateReconciler.** `controller` is the lifetime whose `AbortController` is installed.
  `writeRevision` and `latestPull` are the closure variables of the same names, `inflight`/`queued`
  the drain's current and waiting write, `deferredPull` the read put off until the drain ends.
  `Enqueue` is `set` and `remove`; `PersistWrite` is the backend taking the write and `SettleWrite`
  the drain's continuation; `AnswerPull` is the backend reading its slot, `SettlePull` and
  `RejectPull` the continuations; `Start`, `Teardown`, `Notify` are `start`, what it returns and the
  subscription's callback. `ExternalChange` is another writer.
- **AuthStore.** `store` holds the closure variables. `mutations` is the promise chain behind
  `enqueue`, `checks` the status checks in flight including superseded ones. `Ask` and `AnswerCheck`
  are the request reaching the server and its answer, `SettleCheck` what the store does with it;
  `StartMutation`, `AnswerLogin`, `AnswerLogout`, `SettleMutation` and `AbandonMutation` the same for
  logins and logouts. `TimerElapses` and `Expire` are split because a timer callback that is due can
  still be behind other work.
- **ChannelLifecycle.** `sessions[s]` is one `connect()` cycle; `loop` says which await its loop is
  at, `attempt` how far its attempt is. `leased` and `late` count leases borrowed and acquires that
  outlived their attempt.
- **EventDelivery.** `cgen` and `rgen` are the delivery generations of the channel and the router,
  `order` and `ackOrder` the receipt counter and the newest acknowledged receipt. `drain` is the one
  loop that takes items from the queue and walks the sinks. `overtaken` remembers that a stream without
  a cursor was opened while there was a cursor or a pending delivery (see *Divergences*). `NewRouter`
  waits until the drain of the closed router stopped: the microtasks that drain has left write nothing a
  new router starts from, and commute with its creation.
- **ServerSession.** `records` is the store's map of generations, `requests[r].at` the await a
  handler is at. Each store operation is atomic, as both stores are. `Admit` is the read
  of the predecessor and the `create` after it in one step: `create` decides by itself whether it is
  admitted. `Deliver` is the response's cookies reaching the browser; a failed callback whose
  transaction was not usable only clears the transaction's. A generation, a handle and a
  login transaction are named by the request that makes them, so no two are equal, as 256 random
  bits make them.
- **SessionFamilies.** The abstract specification: `readable[f]` is what a read finds of family `f`.
  `ServerSession!Families` is the refinement mapping: readable generations are the `Live` ones,
  `closed` the families revoked or expired. `Open` and `Replace` are `create()` without and with a
  predecessor, `End` a revocation or an expiry; all other steps of the handlers stutter.
- **ProviderCustody.** `store` is the `RefreshTokenStore`, `granted` what the provider accepts,
  `inFlight` and `controllers` the two maps of the adapter. `exchanges[x].at` is the await `doRefresh`
  is at and `outcome` what the promise of `withTimeout` around it settled with, which can be earlier;
  `settled` says its `finally` ran. `Rotate` is the store's atomic compare-and-rotate, `SignalReuse`
  the revocation of a reused credential, which the store may refuse, `LateIssue` an `issue()` that lands after its login was cut
  off, `Restart` the host's end: store and provider keep their state.
- **QueryCache.** `slot` is the cache entry: the query object, its data (the version read and the
  folds since), its `dataUpdateCount` and whether it is invalidated. `recovery` is the `recover()` loop
  and the fetch it awaits; its `current` says that no event came since the fetch began, which the code
  keeps as a generation number. `mutations[m].at` is the callback a mutation is at.
- **HttpExchange.** `calls[c]` is one `request()` with the timers that run for it; `attempts[c][k]`
  its k-th attempt, which outlives the call's interest in it. `Tick` lowers all timers together and
  never passes one that is due.

Abstractions that matter, all of them named in the modules: only `HttpExchange` has time; elsewhere a
timer or a budget may run out whenever it is armed; the attempts of one status check are one question with one
answer; an abandoned mutation's request acts at the moment it is abandoned or never; a session
stands for its identity, its expiry and its proof; a delivered event is its position in the log;
in `ServerSession` every
login is granted refresh custody, and custody has no time to live (both are in `ProviderCustody`). The
microtasks between the settlement of a promise and the code that awaits it are not split in
`HttpExchange`; `QueryCache` splits them, because an abort or a close in between has an effect there.

## 3. Runs

Safety and liveness of one bound are checked together, so each run is one question.

| Run | Shows | Bounds |
|---|---|---|
| `reconciler_writes` | pending writes are shown, the backend ends on the latest write; with a backend that may reject | 2 values, 3 writes, 2 lifetimes |
| `reconciler_converge` | with other writers, a mirror at rest agrees with an occupied slot, and a lasting lifetime converges | 2 values, 2 writes, 2 lifetimes, 1 external change |
| `auth_session` | a session that ended stays ended, what is vouched for is the cookie's, leases follow the session, a confirmed logout leaves nothing, the last login lands | 3 user calls, 2 checks, 1 outage, 1 end by the server, queue of 2 |
| `auth_drains` | the queue drains and an ended session does not stay signed in, with a reconnecting channel | 3 calls, 1 check, 1 outage, 1 bad answer, 1 end, 1 reconnect |
| `auth_slow` | *violation*: a slow check of a reconnecting channel signs the user out (finding 1) | 1 call, 2 checks, 1 outage, 1 reconnect |
| `lifecycle_reentry` | one live session, a true status, no leak, no stray invalidation, progress, under re-entry from any notification | 3 sessions, 2 closes, 1 retry, 1 stable end, 1 observed frame |
| `delivery_replays` | delivery under drops, faults, resets, shedding and closes, and that everything settles | 3 events, 2 sinks, queue of 1, 1 drop, 1 fault, 1 close, two overflow policies |
| `delivery_reopen` | *violation*: a close and a reconnect reorder deliveries (finding 2) | 3 events, queue of 3, 1 close |
| `server_races` | the handlers implement the session families; custody is known to somebody, a revocation's release is owed, no tokens after a logout | a signed-in browser and 4 requests, 1 interruption, 1 expired family |
| `custody_refresh` | custody follows the provider, a denial has a cause, logouts and failed logins are final, slots come back | 2 handles, a store of 1 entry, 1 slot, 2 exchanges, 2 calls, 1 logout, 1 fault |
| `query_live` | fresh means current and without guesses, rollbacks are their owner's, recovery ends | 2 mutations (one may evict), 2 refetches, 1 change of the resource, any number of events |
| `http_retry` | leases return, no stale success, newer sessions are spared, every call ends | 2 calls, 2 attempts, budget 4, attempt timeout 2, waits of 0 or 2 ticks, 2 session changes |

Why the bounds are enough:

- A third write is the first that can replace a waiting one while another is in flight; a second
  lifetime is the first that can be confused with another. A read needs one write and one restart to
  be stale in both ways.
- Three calls of the browser store cover login-logout-login, and a queue of two is full while one
  mutation runs, which the full-queue logout needs. Two checks: one outstanding, one superseding it.
- Three sessions let a loop of the first resume while the second closes and the third is installed;
  with two, its `active` comparison could not go wrong towards a later session.
- A queue of one with three events makes overflow, replay and a pending item meet. Two sinks make
  "the first applied it, the second failed" possible.
- Two generations made over the same predecessor take two begins and two completes, which with the
  login that the initial state holds is five requests. One interruption suffices to lose a response
  and then to log in over the dead cookie.

- Two exchanges of one handle are the least that can overlap after a timeout or a logout took the
  first out of the map; two handles with a store of one entry and one slot make both limits bind. One
  fault: the properties exempt a disturbed handle, so a second one only exempts more.
- Two mutations are the least that can overlap, and a third adds no new relation between a rollback
  and "the newest write". One change of the resource makes a snapshot old. Two refetches: an attempt
  that is raced and the one after it, and then none.
- A budget of 4 with attempts of 2 ticks and a wait of 2 makes a wait that would fit but for an
  equality (`Worthwhile`), a deadline during the second attempt, and a deadline that coincides with
  the attempt's timer. Two session changes: a lease of one session meets two later ones.

`CHECK_DEADLOCK FALSE` is set everywhere: each model stops when its bounds are used up, and each
system may rest for good.

Every property of a passing run has a mutant in `PROJECT.json`: a small change of one definition,
with the comment `Slip:` in the module, that TLC refutes under the same configuration.

### Fairness

Only what the runtime owes is fair, and weakly so.

- Reconciler: backend calls settle, the subscription's notifications run. Nobody has to write,
  start or tear down. `reconciler_converge` assumes a backend that rejects only aborted calls.
- Browser store: requests are answered or run into their timeouts (`withTimeout`, `retry`), promise
  continuations run, timers elapse. The user, other tabs and leases owe nothing.
- Lifecycle: handlers return, acquires and checks are answered or time out, backoffs elapse, the
  connect timeout ends an attempt that does not open. A stream that is open may last for ever.
- Delivery: promise continuations run, sinks settle, the loop retries, the server answers; a host
  that closed the router mounts it again. Faults and drops are bounded, so in the end they stop.
- Live query: the wait's timer fires (`Begin`), the budget passes (`Timeout`), promise continuations
  run (`Commit`, `Resume`). No answer, event or mutation has to come.
- HTTP exchange: the clock ticks and due timers fire (`Tick`, `Wake`, `Timeout`, `Deadline`). No lease
  and no answer has to come, so `CallEnds` is the timers' doing alone.
- Custody: no liveness is checked. `SlotsAreHeld` says that a slot or a waiting caller has an exchange
  that has not settled, whose deadline settles it.
- Server session: no liveness is checked. `RevokedIsOwed` says which handler still has to release
  what, and each handler takes finitely many steps.

## 4. Findings

Two places where the code does something else than its docs say are runs whose counterexample is the
evidence; `PROJECT.json` quotes the text.

1. `auth_slow`: the channel's one-second status check passes its own timeout to `invalidate()`
   (`packages/channel/src/lifecycle/channel.ts:570`), so a slow network does sign the user out.
2. `delivery_reopen`: `close()` keeps the router's pending items while the replay after `connect()`
   starts from the old cursor; a sink can get event 3 and then event 2 again.

Without a reconnecting channel, and with no untrustworthy answer, the property of 1 holds: this is
proved (`SlowNetworkKeepsTheUser`, section 5), not checked by a run. The order that 2 breaks is kept as long as
nobody closes and no stream passes deliveries under way (`Undisturbed`, `ReplaysKeepLogOrder`); the
first of the divergences below is the other way to break it.

### Divergences

Met while modelling or proving, described here without a run of their own; the models contain the
behaviour.

- An attempt that started before the first acknowledgement has no cursor (`channel.ts:421`), so the
  server serves it from now on. Event 1 is acknowledged meanwhile, the stream skips event 2 and brings
  event 3, which is queued; after another drop the replay from cursor 1 brings event 2, and the router
  queues it behind 3. It takes two drops and no close (`SinksSeeLogOrder` is violated with
  `MaxCloses = 0` and `MaxDrops = 2`). With three drops an event can be applied twice in one generation.
  `AppliedOncePerGeneration` and `ReplaysKeepLogOrder` exempt this (`overtaken`).
- `login()` aborts the check a reconnecting channel awaits; the channel takes that abort for a failure
  and invalidates, and the answer of the login in flight is discarded (`channel.ts:570`).
- A notified removal that is merged into a deferred initial read is taken for an empty initial slot,
  and the mirror keeps the removed value (`state-reconciler.ts:87`).
- `refreshProvider` takes a generation that a re-login replaced for a revoked one and revokes the
  family, which ends the new login (`server-session.ts:368`).
- A rollback recognises its write by the query object and its update count. With two mutations that
  may both evict the entry, an absent entry looks the same to both, and the older one's rollback can
  undo the newer one's eviction (`packages/query/src/cache/routing.ts:66`). `query_live` has one.
- Two mutations whose last callbacks run in one round of microtasks both count two pending and neither
  invalidates (`mutation/optimistic.ts:84`). `QueryCache` has the two steps `Settle` and `Finish`, and
  `GuessesAreResynced` therefore speaks of the time since the last final invalidation.
- An abort of the cache invalidator cancels a live query's fetch; the query, which has data, then
  reports "fresh" without having read. `FreshIsCurrent` exempts this (`cut`).
- A lost answer, a deadline or a crash after the provider rotated the token leaves the old one in
  custody, and the next refresh is treated as a compromise. This is the cost of rotation that the
  code accepts; `DenialHasACause` names it (`disturbed`).
- A timed-out attempt whose `acquire` has not settled still runs beside its successor, against the
  comment that attempts run one at a time (`packages/http/src/exchange/client.ts:184`). It sends
  nothing and returns its lease (`LeasesReturn`).

## 5. Proofs

The theorems hold for every value of the constants under the named assumptions of the module
(`ValuesAssumption`, `BoundsAssumption`, `NothingAssumption`, `AuthAssumption`, `LifecycleAssumption`,
`DeliveryAssumption`, `ServerAssumption`, `HttpAssumption`, `CustodyAssumption`, `QueryAssumption`), which TLC evaluates in
each run. Five theorems have a hypothesis besides, named below. Each proof follows the same line: an
inductive `IInv`, one lemma per action that it is preserved, one lemma that `Next` preserves it, and a
temporal step.

- **StateReconcilerProofs.** `TypeCorrect`, `ReadsNeverOverwriteNewer`, `PendingWriteStaysShown`,
  `BackendOnLatest`, `RestingMirrorAgrees`. None of the safety properties is inductive. `IInv` adds `LifetimeInv` (the
  installed controller is the running lifetime's), `StampsInv` (no read was begun in the future),
  `WriteOutdatesReads` (while a write is pending no read has the current revision; that is why a read
  that started before a write never applies), `NewestReadInv` (the newest read belongs to the current
  lifetime, because a restart begins one), `QueueInv` (a write waits only behind another, and has not
  been persisted) and `OwedInv` (the newest write is the one waiting, else the one in flight, else
  what the slot holds). `RestingMirrorAgrees` adds `MirrorInv`: a write of an earlier lifetime, which may be
  cancelled, has a read waiting behind it (`OldWriteInv`); a read that may still apply brings what the
  slot holds, or a change is yet to be announced (`FreshReadInv`); and with no change to announce the
  mirror shows the slot after the pending writes, after the newest read, or already (`AgreesInv`). Its
  hypothesis is `~Faults`, as in the run: a backend that rejects a read, or a write after a read was
  discarded for it (`state-reconciler.ts:98`), leaves the mirror behind.
- **AuthStoreProofs.** All the safety of the two passing runs. `StoreTypeCorrect` and
  `SignedOutForGood` need to know that nothing in flight can still sign in after a teardown:
  `OwnersPast` and `EpochsPast` bound what mutations and checks carry by the store's counters,
  `SingleCheck` says that only the check in flight has the current generation, `AskedAlone` and `Judged`
  that a check with a usable answer was asked with no mutation outstanding, and `TornDown` that, once
  ended, the store is blocked and no check or login in flight is current. `QuietlyAgrees`,
  `LeasesFollow` and `ConfirmedIsGone` relate the store to the cookie. Their invariant `AInv` stands on
  `IInv`: `Alone` (while a mutation is outstanding the store vouches for nothing), `QueueShape` (which
  of the queued mutations can still be current, and what the first one's answer says of the cookie),
  `Lent` (no lease is of a lifetime to come) and `Agreement` (what the store
  holds, lent or could still adopt names the cookie's session, unless another tab changed it).
  `LastLoginSignsIn` needs `LastCall`, that the last call's login is current until it settles, and has
  the hypothesis `MaxReconnects = 0`: a reconnecting channel does break `LastLoginLands` (the second of
  the divergences), so no theorem without it is true.
  `SlowNetworkKeepsTheUser` is about the property that `auth_slow` refutes: with `MaxReconnects = 0` and
  `MaxBad = 0` (no untrustworthy answer, for which the code signs out on purpose) it holds. Its invariant
  `DInv` follows the identity on display: the server holds no session but the cookie's (`Held`), nobody
  names a session it did not issue (`Issued`), a session vouched for is on display and none is while a
  mutation waits (`Displayed`), and a timer or an answer that says a session ended says so only after it
  did (`Honest`).
- **ChannelLifecycleProofs.** All the safety of the lifecycle run: `TypeCorrect`, `OneStream`,
  `StatusHolds`, `LeasesReturn` and `NoStrays`, for any number of sessions and any depth of re-entry. The
  invariant is about the interrupted handlers. `Ordered` says that above a handler which ends the
  installed session there are only notifications, and that a loop has one frame; `FrameGood` says what
  each interrupted handler still finds; `StatusGood` which announcement is owed when status and attempt
  differ. `LeasesCounted` makes `leased` the number of sessions that hold one, so a lease that is
  returned twice or never would show.
- **EventDeliveryProofs.** All the safety of delivery but the violated run's: `TypeCorrect`,
  `CursorIsSafe`, `AppliedOnce`, `ReplaysInOrder`. The invariant looks at the flight: the item the drain
  holds, then the queue. `Items` says that an outdated item is covered by a snapshot and the current ones
  follow each other and the last acknowledgement in the order of receipt; `Pending` that `pendingIds` are
  the current ones. `Behind` and `Stream` carry `CursorIsSafe`: whatever an item, or the position of the
  stream, has passed is settled or further ahead in the flight, so acknowledging the head passes only what
  is settled. The other two properties hold only while nothing disturbed the router, and need `Run`: the
  current items are then a gapless run right behind the cursor (`RunItems`), the stream replays it or
  stands at its end (`RunStream`), and no sink has seen more than the item at its head (`RunSinks`). A step
  keeps the flight or takes its head (`Moves`), adds to its end (`Grows`), drops from it on overflow, or
  outdates all of it at a gap (`Resets`); each of these has its lemmas, and each action is one of them.
- **QueryCacheProofs.** `TypeCorrect`, `GuessesEnd`, `FreshHolds` and `RollbackHolds`. `FetchInv` says
  that a current fetch is the entry's own and reads nothing older than what was announced; `Vouched`
  names the states in which the live query answers for the entry, from the commit of a current fetch on;
  `OwnGood` says that whatever a mutation's rollback would still put back was read no earlier than what
  it replaces. The last two theorems have the hypothesis `OneEvictor`: at most one mutation may evict
  the entry, without which the code takes an absent entry for either's own (`routing.ts:66`).
- **ServerSessionProofs.** The safety of the handlers: `SessionTypeCorrect`,
  `EndedForGood`, `OneGeneration`, `NoOrphanedCustody`, `LogoutCompletes`, `RevokedCustodyIsOwed` and
  the action property `TokensNeverAfterLogout`. `IInv` has three groups. The records: a family is
  named by its first generation, which is stored in it (`FamilyRoots`, so that a new family is never
  an ended one); a revocation marked all of its family (`RevokedTogether`); one generation of a
  family is active, expired or not (`OneActive`). The requests: what each stage says about its kind,
  its cookie and its own generation (`Kinds`, `Admitted`, `Cookies`, `HandlesKept`). The custody: who
  is about to release owes everything its family still holds (`Releasing`), which makes the answer of
  a logout complete although other handlers release and store in between. Only two actions change
  generations, so the lemma `RequestStep` does the others once.
  `HandlersImplementFamilies`: `ServerSession` implements `SessionFamilies`, for any number of requests. On top of `IInv` it needs that an expired family is
  named by a stored generation (`ExpiredRoots`). `CommitMaps`, `ExpireMaps` and `AdmitMaps` show which
  abstract step the three visible steps are; `ReadableBecomes` turns what happens to each generation
  into the abstract update; every other step leaves the mapped variables alone.
- **HttpExchangeProofs.** `HttpTyping`, `LeasesAreReturned`, `WaitsFitTheBudget` and the action
  properties `SuccessIsCurrent` and `NewerSessionsAreSpared`. `IInv` says of every attempt that was
  sent that its call awaits it and that it holds the lease of the session that is alive
  (`GoodAttempt`), and of a waiting call that its wait fits the budget (`GoodCall`). A step of one call
  is dealt with once (`OneCallStep`); the end of the session and the clock, which change all calls,
  have lemmas of their own.
- **ProviderCustodyProofs.** `CustodyTyping`, `CustodyIsTheProviders`, `DenialsHaveACause`,
  `LogoutsAreFinal`, `FailedLoginsHoldNothing` and `SlotsAlwaysHeld`: all the safety of the custody run.
  `ChainInv` carries the first two: as long as a handle is not logged out and its chain of tokens was
  not cut (`Own`), the exchange that has not settled has the handle's slot (so two are never between
  reading and rotating), what it read is what the store holds until it rotates it, and it is never
  refused. `settled` ends with the slot free whoever took it, so `OneUnsettled` is what makes the
  adapter's unconditional clean-up harmless there. `LoginGood` carries the next two: an `issue()` that
  lands late finds the entry the clean-up left. `MoveStep`, `ChainStep` and `HandleStep` deal once with
  what a step of one exchange or of one handle can disturb.

What stays with TLC: all liveness (`Converges`, `QueueDrains`, `EndsWithTheServer`, `OpensOrCloses`,
`EveryEndIsComplete`, `EverythingSettles`, `RecoveryEnds`, `CallEnds`), which this prover does not do
under fairness. Every other property of a passing run is stated by a theorem.

## 6. Plan

1. *Refine.* An abstract session (signed in, signed out, unknown) that `AuthStore` implements; an abstract
   delivery (a sink is given the log in order, or told to take a snapshot) that an undisturbed
   `EventDelivery` implements.
2. *Prove.* Both refinements; the lemmas of liveness that are not temporal, such as that a pending call,
   read or write always has an action that settles it.
3. *Model.* The Connect idle guard, the devtools client port, the kernel's ordering; `AuthStore`
   composed with the whole `ChannelLifecycle`, where finding 1 lives.
4. *Runs.* New questions join the runs of the modules they concern, so that the suite stays at a dozen
   runs of a few minutes each.
