# A TLA+ model of service-template

`service-template` is a Go template for services: one `App` object that owns the
shutdown of a process, and a set of parts (worker pool, etcd registration, load
balancer, leader election, WebSocket server and client, distributed cron,
migrations, HTTP, gRPC and SSE servers, Rabbit consumers and publishers, storage
clients) that the binaries under `cmd/` put together. This directory models the
parts that have a protocol of their own, checks them with TLC on small instances
and proves their safety properties with TLAPS for all instances.

## 1. Inventory

| Part (code) | State | Operations | Interaction | What is hard | What makes it correct |
|---|---|---|---|---|---|
| Application (`application/application.go`, the mains in `cmd/`) | linked list of shutdown functions, its mutex, channel `sig`, root context | `RegisterShutdown`, `ShutdownByName`, `Stop`, `Start`, `RegisterRecovers`, `Run` | every part registers a shutdown function; the watcher goroutine cancels the root context | functions run under the mutex and may panic or exit; signals before, during and after the sweep | order of priority and registration, nothing lost or run twice to the end, shutdown ends |
| Command pool (`pkg/worker_pool.go`) | atomics `runAtom`, `taskAtom`, `inWork`; channel; context | `Run`, `Apply`, `Stop`, `Reconnect`, `Shutdown`, the workers | `Stop` is called by the sweep of App | loads and stores of several goroutines, a channel closed under senders, panicking handlers | a stopped pool is quiet and has handled what it accepted; calls end |
| Etcd registration (`pkg/etcd.go`) | client, lease, key in etcd, wait group | `Register`, `restart`, `Close` | the balancers see the key; `Close` is a shutdown function | lost answers, leases that run out, retries, a shutdown in the middle of an attempt | the key hangs on the lease that is renewed; attempts do not pile up clients; `Close` returns |
| Load balancer (`pkg/etdc_load_balancer.go`) | list of backends, `Current`, `Alive` flags | `UpdateBackends`, `WatchBackends`, `HealthCheck`, `RoundRobbinNextBackend`, `ServeHTTP` | reads what the registrations write to etcd; `run.Group` ties watch and health checks | snapshot and installation apart, flags outside the list's mutex, objects shared by places | list right when the watch is quiet, even shares, no false 503, dead backends skipped |
| Leader election (`DoElection`) | session, election key | campaign, resign, stop | session of `pkg/etcd.go` | a dead session, a stop while blocked, a lease lost before its owner notices | one leader among live leases, no abandoned key, somebody leads; the goroutine ends |
| WebSocket server (`server/websocket_server.go`, `internal/websocket_handler/`) | hub of clients, `responses` channel per session | `Register`, `Unregister`, `CollectGarbageConnections`, `WritePump`, session loop | shutdown function of App | reader and writer of a connection end in either order | no session is left waiting, the hub forgets closed ones |
| WebSocket client (`server/websocket_clent.go`, `internal/websocket_client/`) | connection, `responses`, `errChan` | read loop, `WritePump`, reconnect loop | root context | reader blocked on a writer that left | it reconnects or ends |
| Distributed cron (`internal/cron/`, `pkg/cron.go`) | a lock in Redis with a time to live | `Lock` | several instances | a job that outlives its lock, an error that is not `ErrNotObtained` | one instance runs a job |
| Migrations (`pkg/migrations_*.go`, `rabbit_migrations/`) | applied versions | `Migrate`, `MigrateRabbitMq`, `applyCustom` | several instances start at once | failure or a stop between the migration and its record | one instance migrates, what is recorded is there |
| Linked list, queue, stack (`pkg/data_struct/`) | nodes | `PushFront`, `PushBack`, `PopFront`, `PopBack`, `Insert`, `Remove`, `Get` | used by no program | first, last and only element | behaves as a sequence |
| Services and wiring (`container/dig.go`, mains) | the graph of components, their priorities | construction, registration, start, `Stop` | App; units of work reach services | priorities chosen by hand in every main, constructors that fail, a deadline on HTTP shutdown | a component is closed after its users, and all are closed |
| Consumers and publishers (`internal/consumer/`, `pkg/rabbit_mq.go`) | channels of the library | start, close | wiring | order of closing | publishers before the connection |
| HTTP, gRPC, SSE, storage clients, handlers, configuration, logging, metrics | little or none | thin wrappers | App | - | - |

`PROJECT.json` lists every part with its sources, and the hazards of each at their lines.

## 2. Plan

Modelled, in this order: (1) App with its abstract registry, (2) command pool, (3) etcd
registration, (4) load balancer, (5) the mains and their services, composed with the
abstract registry, (6) migrations and cron under Redis locks, (7) WebSocket server and
client, (8) leader election. Each has its module of proofs: every safety property that a
run checks, and the refinement of the abstract registry, is a theorem.

Next: stronger facts on the way to the liveness properties (which step is always possible
where a goroutine waits, what a step never undoes), as invariants and action properties.

## 3. Modules

- `ShutdownRegistry`: what App promises, with no list, lock or goroutine.
- `App`: the code; `App_proofs`: its theorems; `MCApp`: its instances.
- `CommandPool`, `CommandPool_proofs`, `MCCommandPool`.
- `EtcdRegistration`, `EtcdRegistration_proofs`, `MCEtcdRegistration`.
- `LoadBalancer`, `LoadBalancer_proofs`, `MCLoadBalancer`.
- `Mains`: the programs of `cmd/` as data; `Services`: a process that runs one of them,
  over the variables and actions of `ShutdownRegistry`; `Services_proofs`, `MCServices`.
- `LockedJobs`, `LockedJobs_proofs`, `MCLockedJobs`: migrations and cron.
- `WebSocket`, `WebSocket_proofs`, `MCWebSocket`: server and client.
- `Election`, `Election_proofs`, `MCElection`.

In each component's module an operator whose comment begins with "Mistake" is
used by no action: it is a plausible error in the operator below it, and shows that
the named property would notice.

### App

`list` is the linked list `app.shutdown`, head first; a node's `id` is the ordinal
of its registration. `RegisterShutdown` is one step, since nothing is called under
its lock. `ShutdownByName` and the sweep hold the mutex across a call of a shutdown
function, so beginning a call (`ShutdownByName`, `StopCallHead`) and its end are
different steps: it returns (`FnReturns`, the node is unlinked), panics (`FnPanics`,
the deferred unlock runs and the node stays) or ends the process (`FnFatal`,
`logger.Fatal`). `pc[Main]` follows `func main`: start, startup, `Run`, and the deferred
calls recover, `Stop`, cancel, in the order Go runs them. `sig` is the one-place channel
of signals, `notify` whether the runtime relays to it, `watcher` the goroutine of
`Start`, its receive, cancel and deferred `signal.Stop` a step each.

### CommandPool

Channels and contexts are numbered by generation (`Reconnect` makes new ones), 0 is
nil. Each atomic load, store, send, receive, close and cancel is a step. A worker: load
`taskAtom`, select, count, handle, uncount. `Apply`: load, check, send. `Stop`: the polling
loop (`inWork`, then the length of the channel), cancel, close, nil, wait, zero, clear.
One goroutine calls `Run`, `Stop` and `Reconnect`, as in `cmd/custom_worker_pool`; any
number call `Apply`. Two concurrent `Stop` calls are not modelled. `accepted`, `executed`,
`aborted` and `due` only record history.

### EtcdRegistration

`pc` is the goroutine of `Register` inside `restart`, `cpc` the one that runs `Close`. etcd
is external: it grants leases, binds the key to the lease of the last Put and drops a lease
with its key. Every call may fail, and a failed Grant or Put may still have been
carried out. `open` counts clients made and not closed.

### LoadBalancer

Backends are objects with a URL and an `Alive` flag, as in the code: a refresh keeps the
object of a URL that it finds again, so one object may stand in two places.
`UpdateBackends` is two steps: the Get, and the installation under `lb.Mutex`, which
includes the construction of the new list (it reads only what this goroutine itself
writes); a Get that fails leaves the old list. A request takes the mutex
(`Request`) and then reads one `Alive` flag a step (`Scan`), so health checks write
between two reads. Each tick starts a goroutine per place, which asks (`Probe`) and
later writes (`SetAlive`). The ticker's period (10 s) is five times the time-out of a
check (2 s): the model lets no check survive until the next tick. `fresh`, `steady` and
`served` only record history. The root context is not a variable: its end lets Get fail
and both goroutines end, which they may do at any time in the model.

### Mains and Services

`Mains` writes down what each program is: the graph of its container (a provider and its
arguments, `container/dig.go`), the steps of its `main` (build, register a shutdown function
with its priority, migrate, start a server, call) and, per server, how it starts and stops
and which services its units of work reach. A constructor is described by whether its result
has to be closed and what it does on an error: end the process, drop the error and return nil
(`r, _ :=` around `NewClusterConn`, `CreateSession`), or nothing. A file of data keeps the
twelve programs comparable with their mains line by line.

`Services` picks one program and runs it: `dig` builds a service after its arguments,
`Register` adds to the registry, servers start, a signal goes through `app.sig` to the watcher
(`WatcherReceives`), which cancels the context, and `Stop` calls the functions in the
registry's order. A panic of main first runs the function of `RegisterRecovers`
(`RecoverSends`), which sends to `app.sig` and waits while it is full; `Stop` begins
only then. `Stuck` is the state in which it waits for ever: two signals came before
the panic. The registry is `ShutdownRegistry`, which App is proved
to refine: this is the composition of the two. An HTTP request, a gRPC call, a message,
a cron job or a tick of a loop is a unit (`Arrive`, `Finish`). HTTP shutdown waits for
units or for five seconds; `GracefulStop` waits; cron's `Stop` and a consumer's `Close` do not.
`misuse` records a unit that reached a closed service (`UseClosed`). `Exit` is the end of the
process by `Fatal`, by a panic in a goroutine nobody recovers (`ServePanics`,
`PublishPanics`, `ReturnPanics`), or by a panic inside `Stop` (the nil connection).

What the order of steps and priorities in a main has to be is stated as assumptions of
`Services`, which TLC evaluates on the twelve programs and from which the theorems follow
for any others: one server or service per registration (`StepsAssumption`); a server that
is to end before a service it uses does so for every registration of the two, and main
cannot panic between its start and its registration (`ServersAssumption`); a service is
registered to be closed before what it was built on, and before main can panic with the two
half registered (`ContainerAssumption`); every server but the goroutines that end with
the root context is registered, and so is the logger (`ReleaseAssumption`). `MayStop` are the
steps in which a main can panic: a call of `http_client`, and a constructor that is given
the nil pointer of a failed one. The mistakes that the properties are tried against are
ones of `Stop` and of the servers.

The assumptions do not say that a main is right. None of them compares a server with a
service that its main puts in front of it, or asks for a service to be registered: a
main may close its publishers before its consumers, its hub before its HTTP servers, or
leave its Redis client open, and pass all of them. `NoUseAfterClose` and `ClosedAfterStop`
leave those cases open too: they are about `Stop` doing what main asked for. What main
should have asked for, by the promise of the repository's README, is stated by
`AllGivenBack`, which two programs violate (section 4). Two more things the model reaches
and no run checks: with RabbitMQ away `Stop` of `cron` and `grps_server` comes to the `Close`
of a nil connection, panics there and runs nothing behind it (`CloseServiceFails`); and
units of the consumers and of `websocket_server` reach the closed publishers and the
swept hub (`UseClosed`), because main puts those first.

### LockedJobs

A Redis lock is a key with an owner. `Migrate` takes one and then `goose.Up` is one step, in
a transaction of its own; `MigrateRabbitMq` takes another, looks into
the table `rabbit_migrations` (`Exists`), carries out the six statements of `Up202412170001` one
a step, and records the version. That table is one of those goose makes: before it is there
(`schema`), `Exists` finds nothing and `Record` fails, and both errors are only logged. A replica that does not get a lock goes on without migrating. So on a fresh
database a replica that skipped goose can carry out the RabbitMQ migration without
recording it while the other, still in goose, later skips RabbitMQ: the version stays
unrecorded until some replica starts again. `MigratedOrFaulty` promises the record only to a
replica that comes to RabbitMQ after goose made the table, and tables and topology always. In a serving
replica every tick may start a run of the job (`Tick`), also while an older run is
under way; only `ErrNotObtained` skips it. `Expire` ends a lock at any time: under an owner that
still works it counts as early. `crashes`, `errors` and `early` count faults, so that the
properties can say which fault they tolerate: `Blank` sleeps as long as its lock lives, so early
expiry is to be expected in the cron. `http_server` and the others differ in what they serve only.

### WebSocket

A session is a connection with its goroutines on both sides. The server's reader
is MainLoop of `Ws`, its pump `WritePump`; the channel between them has `Cap` places. Frames are
"ok" (decoded, echoed), "bad" (answered by an error) and "close" (a close code that the handler
logs and does not leave on; the library then fails every read and panics at the
thousandth, `ReadLimit`). The peer is either the repository's client, which echoes
what it gets, or a browser that sends what it likes. `Break` loses the link with what is under
way. A write that fails leaves the server's pump running (the `break` leaves the `select`) and
ends the client's. `DoClientApp` reads the error channel of the current connection.

A reader that answers a browser which sent bad frames can be left for ever in a send to a
full channel after its pump has gone; `SessionEnds` names that case and excludes no other.

### Election

A candidate's key hangs on its session's lease; `ahead[i]` are the keys put before that of
`i`, which `Campaign` waits for. A campaign that etcd reports as failed may have put its
key all the same (`CampaignRefused`). `done` is the closed channel `session.Done()`, which
follows the end of the lease some time later. `Resign` does nothing under a cancelled
context, so a stopped instance gives its key back only through `StopSession`. An instance whose
session has ended campaigns on without pause and never becomes a candidate again; `SomeoneLeads`
therefore speaks of instances whose session lives.

## 4. Runs

| Run | Module, configuration | Shows |
|---|---|---|
| `app` | `MCApp.cfg` | `RegistryOrder`, `Accounted`, `NoOverlap`, `SignalKillsOnlyAfterCancel`; refinement of `ShutdownRegistry`; `ShutdownCompletes` |
| `app_panic` | `MCApp_panic.cfg` | violation of `PanicLeadsToStop` |
| `pool` | `MCCommandPool.cfg` | `InWorkExact`, `StoppedPoolIsQuiet`, `StopDrains`, `ControllerNeverPanics`; `CallsReturn` |
| `pool_shutdown` | `MCCommandPool_shutdown.cfg` | violation of `StopReturns` |
| `etcd` | `MCEtcdRegistration.cfg` | `RegisteredKeyIsOurs`, `ConnectionsBounded`; `KeyGoesAway`, `CloseReturns`, `RegisteredOrExhausted` |
| `etcd_reconnect` | `MCEtcdRegistration_reconnect.cfg` | violation of `Reconnects` |
| `balancer` | `MCLoadBalancer.cfg` | `TypeOK` (with the index in range), `FairShare`, `CaughtUp`; `NoFalseUnavailable`; `DeadBackendsSkipped` |
| `services` | `MCServices.cfg` | `NoUseAfterClose`, `HeldBelow`, `ClosedAfterStop`; `StopEnds`, for all twelve programs |
| `services_leak` | `MCServices_leak.cfg` | violation of `AllGivenBack` |
| `locked_jobs` | `MCLockedJobs.cfg` | `OneMigrates`, `OneJob`, `RecordedIsApplied`; `MigratedOrFaulty`, `JobRuns` |
| `websocket` | `MCWebSocket.cfg` | `HubHoldsLive`, `OneInFlight`; `SessionEnds`, `ClientReconnects` |
| `election` | `MCElection.cfg` | `OneLeader`, `NoGhost`; `SomeoneLeads`, `ElectionStops` |

The `TypeOK` of LoadBalancer holds the index `Current` in range and is part of a run; that
of the other modules is proved for all instances and is part of none.

The four violations are behaviours of the code:

- `app_panic`: `RegisterRecovers` sends to the one-place channel `app.sig` and blocks when
  a second signal filled it behind the watcher's single receive; `Stop` then never runs.
- `pool_shutdown`: with the root context cancelled the workers may leave with
  commands queued, and `Stop` polls the length of the channel for ever.
- `etcd_reconnect`: when the keep-alive channel closes, `restart` returns
  `contextCancelledErr` and the goroutine ends, though the log says it reconnects.
- `services_leak`: a whole `Stop` of `grpc_client` leaves its TLS connection open, because
  the closure registered for it calls a variable that the next connection overwrote.
  `http_server` registers nothing for its Redis client.

Each is a finding of `PROJECT.json`, which quotes the text it contradicts: a log line of
`pkg/etcd.go`, or the "graceful shutdown for all components" of the repository's README.

One more disagreement is written into the model without a run of its own: after
`maxReconnectAttempts` failures `restart` returns the service, not the nil of its comment
(`pkg/etcd.go` 245-246), so the branch in which `Register` leaves (138-142) is dead and it tries
again for ever (`GiveUp`). No property rests on it: `RegisteredOrExhausted` ends with the
last attempt, and holds of the code and of the comment alike.

### Bounds

- App: three registrations, two names, two priorities and one goroutine besides main
  are enough for equal priorities, a shared name, removal at the head, inside and at
  the end, and a caller that holds the mutex when `Stop` begins. The proofs
  need no bound.
- Pool: one worker (a channel of one place), one applier and the controller, three
  commands (one queued, one in hand, one waiting) and two generations (one
  `Reconnect`), with handlers that may panic. The invariants are proved for any number of
  workers. `MaxCmds` ends the stream of commands: that an endless stream of `Apply` calls can
  keep `Stop` waiting is outside `CallsReturn`.
- Etcd: five attempts as in the code; three leases besides the constructor's, so that
  an abandoned attempt, the current one and a lost answer have one each; a lease is
  used again only after nothing refers to it.
- Balancer: two places and two requests per place, the least for which `FairShare` can
  fail; three changes in etcd, so that one falls between a refresh's Get and its
  installation, one while its event is handled and one after, and a backend can go
  and come back as a new object; one URL, which both places may share, since each of the
  properties is about one backend and its objects. A dead place between two living
  ones needs a third place: `FairShare`, like `TypeOK`, `CaughtUp` and
  `NoFalseUnavailable`, is proved for lists of any length and any number of changes
  and URLs (section 5); `DeadBackendsSkipped` is not.
- Services: two units in each server, so that one can end while the other is left behind.
- Locked jobs: two replicas, two runs of the job in each (one overlaps the next) and two
  faults of any kind, so that a crash can meet an early expiry or a failed call.
- WebSocket: one connection at a time, any number one after the other (its number is
  used again when the goroutines of both sides have ended); a channel of two places and
  four reads of a failed connection, so that both the full channel and the panic happen.
- Election: two instances, with and without a session, and one failed call.

`CHECK_DEADLOCK FALSE` stands where a state in which nobody can move is real: a pool with a
panicked client, a process that has ended (services), sessions and elections that are over.
The properties say which ends are allowed. Elsewhere a finished process has an explicit
stuttering step (`Ended`), and the replicas of `LockedJobs` never stop.

### Fairness

- App: main and the watcher are scheduled. `StopAcquire` is strongly fair: a Go mutex
  in starvation mode is handed to the goroutine that waits longest. Nothing is assumed of
  signals, callers or the startup. That shutdown functions end is a
  premise (`ShutdownFnsEnd`) inside `ShutdownCompletes`, since it is the business of each part.
- Pool: every goroutine that can take a step takes it; a handler that was called ends.
- Etcd: the two goroutines are scheduled and calls return, by success or by
  error; a lease that is not renewed runs out. Nothing makes etcd answer successfully.
- Balancer: the ticker ticks and gets the mutex although requests take it again and again
  (strong fairness of `Tick`, for the same reason); requests and checks end. No fairness of
  etcd or of the watch is needed.
- Services: the watcher receives; what main calls returns (the gRPC and HTTP calls of the clients have no deadline;
  a server that never answers would hold their main), gRPC calls end, and `DoClientApp` ends on
  a cancelled context. Nothing is assumed of HTTP requests, messages, jobs and ticks.
- Locked jobs: replicas that can go on do, a process that went down is started again, ticks
  come and jobs end, and a lock runs out.
- WebSocket: goroutines are scheduled; a read fails once the link is down, or after five
  seconds when no pump asks for a pong; a ping on a lost connection fails. Nothing makes a
  peer send, break or stop.
- Election: goroutine and main go on, a campaign that can be won is won, one under a
  cancelled context returns; a lease without keep-alive runs out and its client notices.

## 5. Proofs

All for arbitrary constants, from the named assumptions only.

- `App_proofs`. The inductive invariant `IInv` adds to the order and the accounting of the
  list that whoever runs a function holds the mutex and its index is still the node it
  found (`MutexInv`), and that ids are unique: without them a removal could take out another
  node. Its first lemmas state what inserting into and removing from a sequence does to its
  elements. From `IInv`: `TypeCorrect`, `OrderHolds`, `AccountedHolds`, `NoOverlapHolds`.
  `SignalsHandled` has an invariant of its own: relaying stops only after the
  cancellation. `RegistryRefined` maps each step of App to one of `ShutdownRegistry` or to a
  stutter; the head of the list is the abstract first function because the list is sorted.
- `CommandPool_proofs`. `PoolInv` is `TypeOK`, what the local copies of each goroutine
  mean (`LocalsInv`), where workers can exist (`WorkersInv`), the counter
  (`InWorkExact`), where every accepted command is (`DrainInv`: in its channel, in a worker's
  hands, or handled) and that the channel in `taskAtom` is open except in the
  middle of `Stop` (`OpenInv`). Theorems `PoolTypeCorrect`, `StoppedIsQuiet`, `InWorkIsExact`,
  `StopDrainsAll`, `ControllerIsSafe`.
- `EtcdRegistration_proofs`. `RegInv` is `TypeOK`, `KeyInv` (from the Put on, the key
  hangs on the current lease as long as that lives) and `ConnInv` (a second client is open exactly
  while `restart` uses it). Theorems `RegistrationTypeCorrect`, `KeyIsOurs`,
  `NoConnectionLeak` (clients do not pile up over attempts; the last may outlive the
  goroutine).

- `LockedJobs_proofs`. `IInv` adds to `TypeOK` that, until a lock runs out early, whoever works
  under it owns its key (`LocksHeld`), that a job without the lock means a failed call
  (`BareIsError`), and how far the statements of the migration have got (`Progress`; a
  restart begins with the first again, and what exists stays). Theorems `JobsTypeCorrect`,
  `MigrationsAlone`, `JobsAlone`, `RecordSound`.
- `Election_proofs`. `IInv` is `TypeOK`, the order of the keys (`Queue`: of two keys one is ahead of
  the other), that a leader with a live lease has the oldest key (`Led`) and `NoGhost`.
  Theorems `ElectionTypeCorrect`, `LeaderIsUnique`, `NoGhostKeys`.

- `LoadBalancer_proofs`. `FairShare` is not inductive: it says nothing of who is next.
  `Rotation` orders the places by their distance from the one that is read next and says
  that, of two living places, the farther one has been served as often as the nearer or
  once more; a read moves the place it serves to the end and all others one nearer.
  `Ahead` says where the objects alive since the scan began still have to be read, which
  leaves no room for one when the last read comes (`UnavailableOnlyIfDead`). `Tracked` follows etcd
  through snapshot and list: as long as the watch missed nothing, the snapshot or the list is
  what etcd holds, or an event is still to come. What a refresh builds (`NewList`,
  `InstallUrls`) rests on the lemmas that a finite set of numbers has an i-th element
  (`NthInSet`) and that there are objects enough for every new URL. Theorems
  `BalancerTypeCorrect`, `RequestsAreShared`, `ListFollowsEtcd`, `UnavailableOnlyIfDead`, for
  any number of keys and URLs and any bounds.
- `Services_proofs`. The registry is described by the registrations of main that are done
  (`Done`): `Pool` ties them to the entries, `InOrder` says that what precedes a done
  registration is done, `Closing` that each has stopped its server or closed its service
  and that nothing else was closed, `Building` where a service was built, `Serving` where a
  server was started and that a stopped one has no unit but those left behind, `Halted`
  that a Stop before the end of main began at a step that may panic; `Rescue` says the same
  of the time between such a panic and its Stop, when the recover waits to send. With the assumptions
  on the mains (section 3) they give `ProcessTypeCorrect`, `UsersBeforeServices`,
  `StopRespectsContainer` and `StopGivesBack` (every service that main registered), for any programs, any number of units
  and every interleaving with the signal, failing constructors and panics. `ProcessUsesRegistry`
  shows that a process moves the registry only as `ShutdownRegistry` allows: with
  `RegistryRefined` this closes the composition of the mains with App.
- `WebSocket_proofs`. `IInv` adds to `TypeOK` and `HubHoldsLive` that nothing is swept before
  the sweep of the hub (`Sweep`) and, for the repository's client as peer (`ClientInv`), that
  frames under way, filled places of both channels and readers about to send add up to one
  at most (`Load`), that nothing is left under way where nobody reads any more
  (`Exchange`), and that the client dials only without a connection (`Dialling`): otherwise a
  frame of the old connection would meet the greeting of the next. Theorems `SessionsTypeCorrect`, `HubIsExact`, `ExchangeIsAlternate`, and
  `ClientSendsNeverBlock`: with that peer no reader ever finds its channel full, so the
  block that a browser can cause (section 3) does not happen between client and server of
  the repository. For any number of sessions and any capacity.

Each inductive invariant was first checked by TLC on the instance of its run.

Only model-checked: the liveness properties (`ShutdownCompletes`, `CallsReturn`,
`KeyGoesAway`, `CloseReturns`, `RegisteredOrExhausted`, `DeadBackendsSkipped`, `StopEnds`,
`MigratedOrFaulty`, `JobRuns`, `SessionEnds`, `ClientReconnects`, `SomeoneLeads`,
`ElectionStops`), since the prover does not reason about fairness and ENABLED, and the four
violations. No theorem needs induction over data: the lemma `LeastNat` takes the least number
of a set from the well-foundedness of the order, which the library states without an operator
parameter.

## 6. Not modelled

- `pkg/data_struct` (list, queue, stack): no program uses it, only its own tests; so with
  `internal/container.go` and `pkg/map_store.go`.
- Code that nobody calls: `handleUserInput`, `NewWebSocketHttpClientConnection`,
  `NewClusterClient`; the operations of `pkg/elastic.go`, used by an experiment only.
- Configuration, serialization, profiling, what requests and messages contain, SQL, metrics.
- The experiments `cmd/epoll`, `cmd/generic`, `cmd/execution`, `cmd/t`, `cmd/custom`,
  `cmd/custom_gc`, `cmd/elastic`, and generated code.
- In the modelled parts: concurrent `Stop` calls of the pool, what commands compute, values in
  etcd that are not URLs, what a proxied request does, delivery and confirmation of RabbitMQ
  messages, the etcd mutex of `EmptyHandler` (it guards nothing: it is released at once), and
  a missing certificate file of the WebSocket client, which ends its process.
