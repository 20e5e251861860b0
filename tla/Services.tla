------------------------------ MODULE Services ------------------------------
(***************************************************************************)
(* One process of cmd/: its main goroutine builds services (directly or    *)
(* through the dig container), registers their shutdown functions, starts  *)
(* servers, waits for the cancelled context and runs Stop; requests,       *)
(* messages, jobs and ticks ("units") run concurrently and reach services. *)
(* The registry of application.App is taken as what it promises: this      *)
(* module moves the variables of ShutdownRegistry, which App refines.  Its *)
(* signal channel is kept, since the recover of a panic sends to it.  The  *)
(* programs themselves are data, in module Mains.                          *)
(***************************************************************************)
EXTENDS Integers, Sequences, FiniteSets

CONSTANTS
    Programs,       \* the mains: [graph, steps, kind, uses]
    Closable,       \* services that hold something a shutdown function gives back
    FatalOnError,   \* services whose constructor ends the process on an error
    NilOnError,     \* services whose constructor drops the error and returns nil
    MaxUnits        \* bound on the units in flight in one server

ASSUME MaxUnitsAssumption == MaxUnits \in Nat \ {0}
VARIABLES
    main,       \* the program this process runs
    pc,         \* index of main's next step
    built,      \* services constructed so far
    nil,        \* constructed services whose pointer is nil
    open,       \* closable services held by the process
    father,     \* the root context is cancelled: the watcher has received
    sig,        \* a signal is in the one-place channel app.sig
    panicked,   \* main panicked, and runs the function of RegisterRecovers, then Stop
    server,     \* server |-> "off", "on", "draining" or "stopped"
    units,      \* server |-> units in flight
    left,       \* servers whose shutdown function returned with units in flight
    misuse,     \* <<server, service>>: a unit reached a service after it was closed
    pending, completed, nreg, phase     \* application.App: see ShutdownRegistry

processVars == <<main, pc, built, nil, open, father, sig, panicked>>
serverVars == <<server, units, left, misuse>>
appVars == <<pending, completed, nreg, phase>>
vars == <<processVars, serverVars, appVars>>

MaxPriority == 200

Servers(p) == DOMAIN p.kind
AllServers == UNION {Servers(p) : p \in Programs}
Services(p) == DOMAIN p.graph

App == INSTANCE ShutdownRegistry
         WITH Names <- AllServers \cup Closable, Priorities <- 0 .. MaxPriority

----------------------------------------------------------------------------
(* What dig builds for a set of services: the services it reaches through   *)
(* constructor arguments.                                                   *)
Step(p, S) == S \cup UNION {p.graph[s] : s \in S \cap Services(p)}
Reach(p, S) == Step(p, Step(p, Step(p, S)))

(* Every provider that a main asks the container for is there, so Invoke's *)
(* error branches are never taken.                                         *)
ASSUME ProvidersAssumption ==
    \A p \in Programs :
      /\ DOMAIN p.uses = DOMAIN p.kind
      /\ \A i \in DOMAIN p.steps :
           p.steps[i].op = "need" => Reach(p, p.steps[i].what) \subseteq Services(p)

Uses(p, s) == Reach(p, p.uses[s]) \cap Closable

(* The registrations of a main, and the order in which Stop runs them. *)
Registrations(p) == {i \in DOMAIN p.steps : p.steps[i].op = "register"}

Registers(p, i, n) == i \in Registrations(p) /\ p.steps[i].what = {n}

Precedes(p, i, j) ==
    \/ p.steps[i].priority < p.steps[j].priority
    \/ p.steps[i].priority = p.steps[j].priority /\ i < j

(* The shutdown function of a runs before that of b, both being registered. *)
Ordered(p, a, b) ==
    \E i, j \in Registrations(p) :
      Registers(p, i, a) /\ Registers(p, j, b) /\ Precedes(p, i, j)

----------------------------------------------------------------------------
(* What the mains keep to. *)

(* A registration is of one server or service. *)
ASSUME StepsAssumption ==
    /\ "logger" \in Closable /\ AllServers \cap Closable = {}
    /\ \A p \in Programs :
         /\ p.steps \in Seq([op : STRING, what : SUBSET STRING, priority : 0 .. MaxPriority])
         /\ \A i \in Registrations(p) :
              \E n \in AllServers \cup Closable : p.steps[i].what = {n}
         /\ p.graph["logger"] = {}

(* The steps in which main may panic, so that Stop runs on what was          *)
(* registered before: a client's call, a constructor that gets a nil pointer. *)
MayStop(p, t) ==
    \/ p.steps[t].op = "do" /\ p.steps[t].what \subseteq {"httpClient", "httpsClient"}
    \/ /\ p.steps[t].op = "need"
       /\ \E s \in Reach(p, p.steps[t].what) : p.graph[s] \cap NilOnError # {}

(* A server that Stop is to end before a service its units use is so for    *)
(* every registration of the two, and main does not panic between the start *)
(* of the server and its registration.                                      *)
ASSUME ServersAssumption ==
    \A p \in Programs :
      \A s \in Servers(p) :
        /\ \A r \in Uses(p, s) : ~(Ordered(p, s, r) /\ Ordered(p, r, s))
        /\ \A k, i, t \in DOMAIN p.steps :
             /\ p.steps[k].op = "serve" /\ s \in p.steps[k].what
             /\ Registers(p, i, s) /\ k < t /\ t < i
             => ~MayStop(p, t)

(* Each registration of a service q that r is built on comes, in the order  *)
(* of Stop, after one of r, which main makes before it may panic with r     *)
(* built (by step k) and q registered.                                      *)
ASSUME ContainerAssumption ==
    \A p \in Programs :
      \A r \in Services(p) \cap Closable : \A q \in p.graph[r] \cap Closable :
        \A j, k \in DOMAIN p.steps :
          /\ Registers(p, j, q)
          /\ p.steps[k].op = "need" /\ r \in Reach(p, p.steps[k].what)
          => \E i \in DOMAIN p.steps :
               /\ Registers(p, i, r) /\ Precedes(p, i, j)
               /\ \A t \in DOMAIN p.steps : t >= k /\ t > j /\ MayStop(p, t) => i < t

(* Every server but the goroutines that end with the root context is        *)
(* registered, and so is the logger.                                        *)
ASSUME ReleaseAssumption ==
    \A p \in Programs :
      /\ \A s \in Servers(p) : p.kind[s] \notin {"loop", "joined"} =>
           \E i \in DOMAIN p.steps : Registers(p, i, s)
      /\ \E i \in DOMAIN p.steps : Registers(p, i, "logger")

----------------------------------------------------------------------------
Doing(op) == /\ phase = "open" /\ ~panicked
             /\ pc <= Len(main.steps) /\ main.steps[pc].op = op
Wanted == main.steps[pc].what
Advance == pc' = pc + 1 /\ UNCHANGED <<main, father, sig, panicked>>

Init == /\ main \in Programs
        /\ pc = 1
        /\ built = {"logger"} /\ nil = {} /\ open = {"logger"}
        /\ father = FALSE /\ sig = FALSE /\ panicked = FALSE
        /\ server = [s \in Servers(main) |-> "off"]
        /\ units = [s \in Servers(main) |-> 0]
        /\ left = {} /\ misuse = {}
        /\ App!Init

----------------------------------------------------------------------------
(* The main goroutine: start. *)

Exit == App!Die /\ UNCHANGED <<processVars, serverVars>>

Panic == /\ panicked' = TRUE
         /\ UNCHANGED <<main, pc, built, nil, open, father, sig, serverVars, appVars>>

(* The deferred Stop. *)
StopNow == /\ App!BeginSweep
           /\ UNCHANGED <<main, pc, built, nil, open, father, panicked, serverVars>>

(* The deferred function of RegisterRecovers sends to app.sig before Stop   *)
(* begins: it waits while the channel is full.                              *)
RecoverSends == panicked /\ ~sig /\ sig' = TRUE /\ StopNow

NextToBuild(s) == /\ Doing("need")
                  /\ s \in Reach(main, Wanted) \ built
                  /\ main.graph[s] \subseteq built

(* dig runs a constructor once, after those of its arguments. *)
Construct(s) ==
    /\ NextToBuild(s)
    /\ main.graph[s] \cap nil = {}
    /\ built' = built \cup {s}
    /\ \/ open' = open \cup ({s} \cap Closable) /\ UNCHANGED nil
       \/ s \in NilOnError /\ nil' = nil \cup {s} /\ UNCHANGED open
    /\ UNCHANGED <<main, pc, father, sig, panicked, serverVars, appVars>>

ConstructFatal(s) == NextToBuild(s) /\ s \in FatalOnError /\ Exit

(* RegisterPublisher gives the nil connection to the library. *)
ConstructPanics(s) == NextToBuild(s) /\ main.graph[s] \cap nil # {} /\ Panic

AllBuilt ==
    /\ Doing("need")
    /\ Reach(main, Wanted) \subseteq built
    /\ Advance
    /\ UNCHANGED <<built, nil, open, serverVars, appVars>>

Register ==
    /\ Doing("register")
    /\ \E n \in Wanted :
         pending' = pending \cup {[id |-> nreg + 1, name |-> n,
                                   priority |-> main.steps[pc].priority]}
    /\ nreg' = nreg + 1
    /\ Advance
    /\ UNCHANGED <<completed, phase, built, nil, open, serverVars>>

(* The migrations return, with or without having run, or end the process. *)
RunMigration ==
    /\ Doing("migrate")
    /\ \/ Advance /\ UNCHANGED <<built, nil, open, serverVars, appVars>>
       \/ Exit

(* After a failed call cmd/http_client reads its response, which is nil;     *)
(* cmd/grpc_client only logs it.                                             *)
DoCall ==
    /\ Doing("do")
    /\ \/ Advance /\ UNCHANGED <<built, nil, open, serverVars, appVars>>
       \/ Wanted \subseteq {"httpClient", "httpsClient"} /\ Panic

NewConsumer ==
    /\ Doing("consumer")
    /\ \/ Advance /\ UNCHANGED <<built, nil, open, serverVars, appVars>>
       \/ Exit

Start(k) ==
    /\ Doing("serve")
    /\ \E s \in Wanted : main.kind[s] = k /\ server' = [server EXCEPT ![s] = "on"]
    /\ Advance
    /\ UNCHANGED <<built, nil, open, units, left, misuse, appVars>>

StartFatal(k) == Doing("serve") /\ (\E s \in Wanted : main.kind[s] = k) /\ Exit

RunHTTPServer == Start("http")
RunHTTPSServer == Start("https")
StartGRPC == Start("grpc") \/ StartFatal("grpc")             \* port taken
StartGRPCTLS == Start("grpcs") \/ StartFatal("grpcs")        \* or no certificate
RunConsumer == Start("consumer")
StartCron == Start("cron")
StartLoop == Start("loop")                   \* push, DoElection, StartListen
StartJoined == Start("joined")               \* DoClientApp

(* The goroutine of an HTTP or gRPC server panics on an error of Serve.      *)
ServePanics ==
    /\ phase \in {"open", "sweeping"}
    /\ \E s \in DOMAIN server :
         server[s] = "on" /\ main.kind[s] \in {"http", "https", "grpc", "grpcs"}
    /\ Exit

(* SIGTERM or SIGINT: relayed to app.sig, and dropped when it is full; after  *)
(* the watcher's signal.Stop, which follows the cancellation, it kills.      *)
Signal ==
    /\ phase \in {"open", "sweeping"}
    /\ \/ /\ ~sig
          /\ sig' = TRUE
          /\ UNCHANGED <<main, pc, built, nil, open, father, panicked, serverVars, appVars>>
       \/ father /\ Exit

(* The goroutine of Start receives once. *)
WatcherReceives ==
    /\ phase \in {"open", "sweeping"}
    /\ sig /\ ~father
    /\ sig' = FALSE
    /\ father' = TRUE
    /\ UNCHANGED <<main, pc, built, nil, open, panicked, serverVars, appVars>>

(* Mistake: main does not wait for the goroutine it started. *)
BeginStopUnjoined == phase = "open" /\ pc > Len(main.steps) /\ father /\ StopNow /\ UNCHANGED sig

(* Run returns on the cancelled context, main waits for the goroutines it    *)
(* joins and returns into Stop.                                              *)
BeginStop ==
    /\ phase = "open" /\ pc > Len(main.steps) /\ father
    /\ \A s \in DOMAIN server : main.kind[s] = "joined" => units[s] = 0
    /\ StopNow /\ UNCHANGED sig

----------------------------------------------------------------------------
(* The main goroutine: Stop calls the shutdown functions in order. *)

(* Mistake: the functions run in the order of registration. *)
Next1Oldest(a) == phase = "sweeping" /\ \A b \in pending : a.id <= b.id

(* What Stop calls next. *)
Next1(a) == phase = "sweeping" /\ App!First(a, pending)

CloseService ==
    \E a \in pending :
      /\ Next1(a)
      /\ a.name \notin DOMAIN server
      /\ a.name \notin nil \ {"session"}           \* StopSession checks for nil
      /\ open' = open \ {a.name}
      /\ App!Complete(a)
      /\ UNCHANGED <<main, pc, built, nil, father, sig, panicked, serverVars>>

(* Close of a nil connection panics in the deferred Stop, and an error of   *)
(* postgres' Close is fatal: the rest of the registry is not run.           *)
CloseServiceFails ==
    \E a \in pending :
      /\ Next1(a)
      /\ a.name \in (nil \ {"session"}) \cup {"postgres"}
      /\ Exit

BeginServerShutdown ==
    \E a \in pending :
      /\ Next1(a)
      /\ a.name \in DOMAIN server
      /\ server[a.name] = "on"
      /\ server' = [server EXCEPT ![a.name] = "draining"]
      /\ UNCHANGED <<processVars, units, left, misuse, appVars>>

ShutdownReturns(s) ==
    \E a \in pending :
      /\ Next1(a)
      /\ a.name = s
      /\ server[s] = "draining"
      /\ server' = [server EXCEPT ![s] = "stopped"]
      /\ left' = IF units[s] > 0 THEN left \cup {s} ELSE left
      /\ App!Complete(a)
      /\ UNCHANGED <<processVars, units, misuse>>

(* Mistake: http.Server.Shutdown is called with no deadline. *)
HTTPShutdownWithoutDeadline ==
    \E s \in DOMAIN server :
      main.kind[s] \in {"http", "https"} /\ units[s] = 0 /\ ShutdownReturns(s)

(* Shutdown waits for the requests, but at most five seconds. *)
HTTPShutdown ==
    \E s \in DOMAIN server : main.kind[s] \in {"http", "https"} /\ ShutdownReturns(s)

(* GracefulStop waits for every call. *)
GracefulStop ==
    \E s \in DOMAIN server :
      main.kind[s] \in {"grpc", "grpcs"} /\ units[s] = 0 /\ ShutdownReturns(s)

(* cron.Stop, consumer.Close and the election's close(stopElection). *)
StopWithoutWaiting ==
    \E s \in DOMAIN server :
      main.kind[s] \in {"cron", "consumer", "loop"} /\ ShutdownReturns(s)

EndStop == App!EndSweep /\ UNCHANGED <<processVars, serverVars>>

----------------------------------------------------------------------------
(* Units of work, while the process lives. *)

(* Mistake: the listener stays open after Shutdown. *)
ArriveLate(s) ==
    /\ phase \in {"open", "sweeping"}
    /\ s \in DOMAIN server
    /\ server[s] # "off" /\ units[s] < MaxUnits
    /\ main.kind[s] \in {"loop", "joined"} => ~father
    /\ units' = [units EXCEPT ![s] = @ + 1]
    /\ UNCHANGED <<processVars, server, left, misuse, appVars>>

Arrive(s) ==
    /\ phase \in {"open", "sweeping"}
    /\ s \in DOMAIN server
    /\ server[s] = "on" /\ units[s] < MaxUnits
    /\ main.kind[s] \in {"loop", "joined"} => ~father             \* they leave on Done
    /\ units' = [units EXCEPT ![s] = @ + 1]
    /\ UNCHANGED <<processVars, server, left, misuse, appVars>>

(* A unit reaches a service that was already closed. *)
UseClosed(s) ==
    /\ phase \in {"open", "sweeping"}
    /\ s \in DOMAIN server
    /\ units[s] > 0
    /\ \E r \in (Uses(main, s) \cap built) \ (open \cup nil) :
         misuse' = misuse \cup {<<s, r>>}
    /\ UNCHANGED <<processVars, server, units, left, appVars>>

(* A publish that fails in the consumer's handler, and a returned message    *)
(* that cannot be recorded in PostgreSQL, panic in goroutines of the library: *)
(* confirms[0] of no confirmation, Close of no rows.                         *)
PublishPanics(s) ==
    /\ phase \in {"open", "sweeping"}
    /\ s \in DOMAIN server
    /\ main.kind[s] = "consumer" /\ main.uses[s] # {} /\ units[s] > 0
    /\ Exit

ReturnPanics ==
    /\ phase \in {"open", "sweeping"}
    /\ {"publisherZero", "publisherFirst"} \cap open # {}
    /\ Exit

Finish(s) ==
    /\ phase \in {"open", "sweeping"}
    /\ s \in DOMAIN server
    /\ units[s] > 0
    /\ units' = [units EXCEPT ![s] = @ - 1]
    /\ UNCHANGED <<processVars, server, left, misuse, appVars>>

----------------------------------------------------------------------------
Build(s) == Construct(s) \/ ConstructFatal(s) \/ ConstructPanics(s)

MainStep == \/ \E s \in UNION {Services(p) : p \in Programs} : Build(s)
            \/ AllBuilt \/ Register \/ RunMigration \/ DoCall \/ NewConsumer
            \/ RunHTTPServer \/ RunHTTPSServer \/ StartGRPC \/ StartGRPCTLS
            \/ RunConsumer \/ StartCron \/ StartLoop \/ StartJoined
            \/ BeginStop \/ RecoverSends \/ CloseService \/ CloseServiceFails
            \/ BeginServerShutdown \/ HTTPShutdown \/ GracefulStop \/ StopWithoutWaiting
            \/ EndStop

Next == \/ MainStep
        \/ ServePanics
        \/ Signal
        \/ WatcherReceives
        \/ \E s \in AllServers : Arrive(s) \/ UseClosed(s) \/ PublishPanics(s) \/ Finish(s)
        \/ ReturnPanics

Spec == Init /\ [][Next]_vars

(* The main goroutine and the watcher keep going (what they call returns), a *)
(* gRPC call ends, and DoClientApp ends on Done (module WebSocket); nothing  *)
(* is assumed of HTTP requests, messages and jobs.                           *)
FairSpec == /\ Spec
            /\ WF_vars(MainStep)
            /\ WF_vars(WatcherReceives)
            /\ \A s \in AllServers :
                 WF_vars(/\ Finish(s)
                         /\ \/ main.kind[s] \in {"grpc", "grpcs"} /\ server[s] = "draining"
                            \/ main.kind[s] = "joined" /\ father)

----------------------------------------------------------------------------
(* The types of the variables; a service is held, or is a nil pointer, only *)
(* after its constructor ran.                                               *)
TypeOK ==
    /\ main \in Programs
    /\ pc \in 1 .. Len(main.steps) + 1
    /\ nil \subseteq built /\ open \subseteq built /\ nil \cap open = {}
    /\ father \in BOOLEAN /\ sig \in BOOLEAN /\ panicked \in BOOLEAN
    /\ server \in [Servers(main) -> {"off", "on", "draining", "stopped"}]
    /\ units \in [Servers(main) -> 0 .. MaxUnits]
    /\ left \subseteq Servers(main)
    /\ misuse \subseteq Servers(main) \X Closable

(* A request, call, message or job reaches a service after its shutdown     *)
(* function only if the priorities in main put the service before the       *)
(* server (the publishers and the hub), or if the server's own shutdown     *)
(* function had returned with that unit in flight.                          *)
NoUseAfterClose ==
    \A m \in misuse : Ordered(main, m[1], m[2]) => m[1] \in left

(* The priorities respect the container: what a held service was built on   *)
(* is still held (a session on its client, a publisher on its connection).  *)
HeldBelow ==
    \A r \in open : main.graph[r] \cap Closable \cap built \subseteq open \cup nil

(* After a start that ran to the end, a Stop that runs to the end has       *)
(* stopped every server, cut no unit short but those that a shutdown        *)
(* function gave up on and the ticks of goroutines that have none, and      *)
(* given back every service that main registered.                           *)
ClosedAfterStop ==
    phase = "swept" /\ pc > Len(main.steps) =>
      /\ \A s \in DOMAIN server : server[s] = "stopped" \/ main.kind[s] \in {"loop", "joined"}
      /\ \A s \in DOMAIN units : units[s] > 0 => s \in left \/ main.kind[s] = "loop"
      /\ \A r \in open : ~\E i \in DOMAIN main.steps : Registers(main, i, r)

(* The recover waits for room in app.sig, and the watcher has left. *)
Stuck == phase = "open" /\ panicked /\ sig /\ father

(* A signal, or a panic of main, ends the process, whatever the requests     *)
(* do: each shutdown function returns, the deadline of http.Server.Shutdown  *)
(* included.  The one exception is a panic after two signals, which never    *)
(* gets to Stop: application.go 124 (module App, PanicLeadsToStop).          *)
StopEnds == sig \/ father \/ panicked ~> phase \in {"swept", "dead"} \/ Stuck

----------------------------------------------------------------------------
(* What README.md promises ("graceful shutdown for all components") and two  *)
(* mains do not keep: after a whole start and a whole Stop no service is     *)
(* held any more.                                                            *)
AllGivenBack == phase = "swept" /\ pc > Len(main.steps) => open = {}
=============================================================================
