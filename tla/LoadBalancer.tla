---------------------------- MODULE LoadBalancer ----------------------------
(***************************************************************************)
(* pkg/etdc_load_balancer.go: the list of backends that a goroutine        *)
(* refreshes from etcd after every watch response, the health checks that  *)
(* set the Alive flag of the backends, and the round robin of ServeHTTP.   *)
(*                                                                         *)
(* A Backend is an object: a refresh keeps the objects whose URL it finds  *)
(* again, so the same object may stand in two places, when two keys have   *)
(* the same URL.  An object that left the list is never put back, so the   *)
(* health checks still under way for it are forgotten with it.             *)
(* Requests are served one after the other, as lb.Mutex makes them; the    *)
(* Alive flags are not under that mutex and change during a scan.          *)
(* The root context is not a variable: its end makes Get fail, and lets    *)
(* the watch and the health checks end, in any order and at any time.      *)
(***************************************************************************)
EXTENDS Integers, Sequences, FiniteSets, SequencesExt, FiniteSetsExt

CONSTANTS
    Keys,        \* keys under the watched prefix, in the order of etcd
    Own,         \* the key of the balancer itself
    Urls,        \* the URLs services register
    OwnUrl,      \* the URL of the balancer itself
    Absent,      \* the key is not in etcd
    MaxChanges,  \* bound on the changes in etcd
    MaxServed    \* bound on the requests a place of the list serves in a calm period

ASSUME KeysAreNumbers == Keys \subseteq Nat /\ IsFiniteSet(Keys) /\ Own \in Keys
ASSUME UrlsAreApart == OwnUrl \notin Urls /\ Absent \notin Urls \cup {OwnUrl}
ASSUME LimitsAreNat == MaxChanges \in Nat /\ MaxServed \in Nat

VARIABLES
    reg,        \* etcd: the URL under each key
    nchanges,   \* changes of etcd so far
    up,         \* which URLs answer /health with 200
    Backends,   \* lb.Backends, as a sequence of objects
    Current,    \* lb.Current
    url,        \* the URL of each object
    alive,      \* the Alive flag of each object
    checks,     \* the goroutines of the last tick: the object each checks, and how far it is
    wpc,        \* Run and then the watch goroutine
    snap,       \* the URLs of the Get of this refresh, in the order of the keys
    events,     \* watch events not yet received
    hpc,        \* the health check goroutine
    scan,       \* reads of IsAlive so far in RoundRobbinNextBackend, 0 outside
    fresh,      \* no error and no change escaped the watch: the list should be right
    steady,     \* objects alive since the scan in progress began
    served      \* requests each place of the list served since the last change of list or flags

objects == <<url, alive, checks>>
etcd == <<reg, nchanges, events>>
vars == <<reg, nchanges, up, Backends, Current, url, alive, checks, wpc, snap, events,
          hpc, scan, fresh, steady, served>>

\* All keys but the balancer's own may be in the list; an old and a new list
\* have no more objects than twice that.
Places == 1..Cardinality(Keys \ {Own})
Objects == 1..2 * Cardinality(Keys \ {Own})
NoCheck == [obj |-> 0, state |-> "none"]

\* The list or a flag changes: a new calm period begins.
Calm == served' = [p \in Places |-> 0]

\* lb.Mutex is held by a request between two reads of its scan.
MutexFree == scan = 0

Init == /\ reg \in [Keys -> Urls \cup {OwnUrl, Absent}]
        /\ \A k \in Keys : reg[k] = OwnUrl <=> k = Own
        /\ nchanges = 0
        /\ up = [u \in Urls |-> TRUE]
        /\ Backends = << >>
        /\ Current = 0
        /\ url = [o \in Objects |-> Absent]
        /\ alive = [o \in Objects |-> FALSE]
        /\ checks = [p \in Places |-> NoCheck]
        /\ wpc = "run_get"
        /\ snap = << >>
        /\ events = 0
        /\ hpc = "off"
        /\ scan = 0
        /\ fresh = TRUE
        /\ steady = {}
        /\ served = [p \in Places |-> 0]

-----------------------------------------------------------------------------
(* etcd and the backends themselves *)

Watched == wpc \in {"idle", "get", "install"}

\* A service registers, moves or goes.  Changes before the watch is created,
\* and after it is closed, are not reported.
Change(k, u) ==
    /\ k # Own
    /\ u # reg[k]
    /\ nchanges < MaxChanges
    /\ reg' = [reg EXCEPT ![k] = u]
    /\ nchanges' = nchanges + 1
    /\ IF Watched
         THEN events' = events + 1 /\ UNCHANGED fresh
         ELSE UNCHANGED events /\ fresh' = (fresh /\ wpc = "run_get")
    /\ UNCHANGED <<up, Backends, Current, objects, wpc, snap, hpc, scan, steady,
                   served>>

Flip(u) ==
    /\ up' = [up EXCEPT ![u] = ~@]
    /\ UNCHANGED <<etcd, Backends, Current, objects, wpc, snap, hpc, scan,
                   fresh, steady, served>>

-----------------------------------------------------------------------------
(* UpdateBackends *)

\* The i-th number of the set S.
Nth(S, i) == CHOOSE x \in S : Cardinality({y \in S : y < x}) = i - 1

\* The URLs under the prefix without the balancer's own, in key order.
Registered ==
    LET keys == {k \in Keys : k # Own /\ reg[k] # Absent}
    IN [i \in 1..Cardinality(keys) |-> reg[Nth(keys, i)]]

Get ==
    /\ wpc \in {"run_get", "get"}
    /\ snap' = Registered
    /\ wpc' = IF wpc = "get" THEN "install" ELSE "run_install"
    /\ fresh' = TRUE
    /\ UNCHANGED <<etcd, up, Backends, Current, objects, hpc, scan, steady, served>>

\* The error is logged and the old list stays.
GetFails ==
    /\ wpc \in {"run_get", "get"}
    /\ wpc' = IF wpc = "get" THEN "idle" ELSE "run_watch"
    /\ fresh' = FALSE
    /\ UNCHANGED <<etcd, up, Backends, Current, objects, snap, hpc, scan, steady, served>>

\* The first object of the list with URL u, if there is one.
Known(u) == {o \in ToSet(Backends) : url[o] = u}

FirstKnown(u) == Backends[Min({i \in 1..Len(Backends) : url[Backends[i]] = u})]

\* newBackends: the known object of each URL, a new one where there is none.
NewBackends ==
    LET unused == Objects \ ToSet(Backends)
    IN [i \in 1..Len(snap) |-> IF Known(snap[i]) = {} THEN Nth(unused, i) ELSE FirstKnown(snap[i])]

\* Mistake: Current is left where it was.
ResetCurrentNot == UNCHANGED Current

ResetCurrent == Current' = 0

\* The new list, under lb.Mutex; a new backend is taken to be alive.
Install ==
    /\ wpc \in {"run_install", "install"}
    /\ MutexFree
    /\ LET new == NewBackends
           added == ToSet(new) \ ToSet(Backends)
           UrlOf(o) == IF o \in added THEN snap[CHOOSE i \in 1..Len(new) : new[i] = o] ELSE url[o]
       IN /\ Backends' = new
          /\ url' = [o \in Objects |-> IF o \in ToSet(new) THEN UrlOf(o) ELSE Absent]
          /\ alive' = [o \in Objects |-> o \in added \/ (o \in ToSet(new) /\ alive[o])]
          /\ checks' = [p \in Places |-> IF checks[p].obj \in ToSet(new) \ added
                                         THEN checks[p] ELSE NoCheck]
    /\ ResetCurrent
    /\ wpc' = IF wpc = "install" THEN "idle" ELSE "run_watch"
    /\ snap' = << >>
    /\ Calm
    /\ UNCHANGED <<etcd, up, hpc, scan, fresh, steady>>

-----------------------------------------------------------------------------
(* WatchBackends *)

\* run.Group starts both actors; the watch begins with the changes after this.
Watch ==
    /\ wpc = "run_watch"
    /\ wpc' = "idle"
    /\ hpc' = "running"
    /\ UNCHANGED <<etcd, up, Backends, Current, objects, snap, scan, fresh, steady, served>>

\* Mistake: refreshes run in a goroutine of their own, and a response that
\* comes while one is under way is ignored.
ReceiveIgnoring ==
    /\ wpc \in {"idle", "get", "install"}
    /\ \E n \in 1..events : events' = events - n
    /\ wpc' = IF wpc = "idle" THEN "get" ELSE wpc
    /\ UNCHANGED <<reg, nchanges, up, Backends, Current, objects, snap, hpc, scan,
                   fresh, steady, served>>

\* A watch response with some of the events.
Receive ==
    /\ wpc = "idle"
    /\ \E n \in 1..events : events' = events - n
    /\ wpc' = "get"
    /\ UNCHANGED <<reg, nchanges, up, Backends, Current, objects, snap, hpc, scan,
                   fresh, steady, served>>

\* The watch channel is closed, the root context is cancelled, or run.Group
\* interrupts the watch because the health checks have ended.
WatchEnds ==
    /\ wpc = "idle"
    /\ wpc' = "stopped"
    /\ UNCHANGED <<etcd, up, Backends, Current, objects, snap, hpc, scan,
                   fresh, steady, served>>

-----------------------------------------------------------------------------
(* HealthCheck *)

\* A goroutine for each place of the list.  The ticker's period is five times
\* the time a check may take: no check of the tick before is under way.
Tick ==
    /\ hpc = "running"
    /\ MutexFree
    /\ \A p \in Places : checks[p] = NoCheck
    /\ checks' = [p \in Places |-> IF p <= Len(Backends)
                                   THEN [obj |-> Backends[p], state |-> "probing"] ELSE NoCheck]
    /\ UNCHANGED <<etcd, up, Backends, Current, url, alive, wpc, snap, hpc, scan,
                   fresh, steady, served>>

\* isBackendAlive: what the backend answers when it is asked.
Probe(p) ==
    /\ checks[p].state = "probing"
    /\ checks' = [checks EXCEPT ![p].state = IF up[url[checks[p].obj]] THEN "up" ELSE "down"]
    /\ UNCHANGED <<etcd, up, Backends, Current, url, alive, wpc, snap, hpc, scan,
                   fresh, steady, served>>

\* Mistake: only a good answer is recorded.
SetAliveOnlyUp(p) ==
    /\ checks[p].state \in {"up", "down"}
    /\ alive' = [alive EXCEPT ![checks[p].obj] = @ \/ checks[p].state = "up"]
    /\ checks' = [checks EXCEPT ![p] = NoCheck]
    /\ steady' = steady
    /\ Calm
    /\ UNCHANGED <<etcd, up, Backends, Current, url, wpc, snap, hpc, scan, fresh>>

SetAlive(p) ==
    /\ checks[p].state \in {"up", "down"}
    /\ LET o == checks[p].obj
           answered == checks[p].state = "up"
       IN /\ alive' = [alive EXCEPT ![o] = answered]
          /\ steady' = IF answered THEN steady ELSE steady \ {o}
          /\ IF answered = alive[o] THEN UNCHANGED served ELSE Calm
    /\ checks' = [checks EXCEPT ![p] = NoCheck]
    /\ UNCHANGED <<etcd, up, Backends, Current, url, wpc, snap, hpc, scan, fresh>>

\* The root context is cancelled, or run.Group interrupts the health checks
\* because the watch has ended.
HealthEnds ==
    /\ hpc = "running"
    /\ hpc' = "stopped"
    /\ UNCHANGED <<etcd, up, Backends, Current, objects, wpc, snap, scan,
                   fresh, steady, served>>

-----------------------------------------------------------------------------
(* RoundRobbinNextBackend and ServeHTTP *)

\* A request while the list is empty is answered with 503 and changes nothing.

\* Lock lb.Mutex.
Request ==
    /\ MutexFree
    /\ Backends # << >>
    /\ \A p \in Places : served[p] < MaxServed
    /\ scan' = 1
    /\ steady' = {o \in ToSet(Backends) : alive[o]}
    /\ UNCHANGED <<etcd, up, Backends, Current, objects, wpc, snap, hpc, fresh, served>>

\* Mistake: a place found at the first read is not left behind.
AdvanceInLoopOnly == Current' = IF scan = 1 /\ alive[Backends[Current + 1]]
                                  THEN Current ELSE (Current + 1) % Len(Backends)

Advance == Current' = (Current + 1) % Len(Backends)

\* Mistake: the last place is not looked at.
LastReadTooEarly == scan >= Len(Backends) - 1

\* The first read and those of the loop, which comes back to the first place.
LastReadOfScan == scan = Len(Backends) + 1

\* One read of IsAlive: proxy to the backend, go on, or answer with 503.
Scan ==
    /\ scan > 0
    /\ Advance
    /\ LET found == alive[Backends[Current + 1]]
           ends == found \/ LastReadOfScan
       IN /\ served' = IF found THEN [served EXCEPT ![Current + 1] = @ + 1] ELSE served
          /\ scan' = IF ends THEN 0 ELSE scan + 1
          /\ steady' = IF ends THEN {} ELSE steady
    /\ UNCHANGED <<etcd, up, Backends, objects, wpc, snap, hpc, fresh>>

-----------------------------------------------------------------------------
WatchStep == Get \/ GetFails \/ Install \/ Watch \/ Receive

CheckStep(p) == Probe(p) \/ SetAlive(p)

Next ==
    \/ \E k \in Keys, u \in Urls \cup {Absent} : Change(k, u)
    \/ \E u \in Urls : Flip(u)
    \/ WatchStep
    \/ WatchEnds
    \/ Tick
    \/ \E p \in Places : CheckStep(p)
    \/ HealthEnds
    \/ Request
    \/ Scan

Spec == Init /\ [][Next]_vars

\* The ticker ticks, requests and checks end; the health check goroutine gets
\* lb.Mutex although requests take it again and again.
Fairness ==
    /\ SF_vars(Tick)
    /\ \A p \in Places : WF_vars(CheckStep(p))
    /\ WF_vars(Scan)

FairSpec == Spec /\ Fairness

-----------------------------------------------------------------------------
(* Properties *)

\* The types; in particular the list has no more places than there are keys
\* of other services, and lb.Backends[lb.Current] is in range whenever a
\* request may read it: a list that shrinks never leaves Current behind.
TypeOK ==
    /\ reg \in [Keys -> Urls \cup {OwnUrl, Absent}]
    /\ nchanges \in 0..MaxChanges
    /\ up \in [Urls -> BOOLEAN]
    /\ Backends \in Seq(Objects) /\ Len(Backends) <= Cardinality(Places)
    /\ Current \in Nat /\ (Backends # << >> => Current < Len(Backends))
    /\ url \in [Objects -> Urls \cup {Absent}]
    /\ alive \in [Objects -> BOOLEAN]
    /\ checks \in [Places -> [obj : Objects, state : {"probing", "up", "down"}] \cup {NoCheck}]
    /\ wpc \in {"run_get", "run_install", "run_watch", "idle", "get", "install", "stopped"}
    /\ snap \in Seq(Urls)
    /\ events \in 0..MaxChanges
    /\ hpc \in {"off", "running", "stopped"}
    /\ scan \in 0..Cardinality(Keys)
    /\ fresh \in BOOLEAN
    /\ steady \subseteq Objects
    /\ served \in [Places -> 0..MaxServed]

\* A request is answered with 503 only if no backend of the list was alive
\* through the whole of the scan, whatever the health checks wrote meanwhile.
NoFalseUnavailable == [][scan > 0 /\ scan' = 0 /\ served' = served => steady = {}]_vars

\* As long as the list and the flags do not change, the requests are shared
\* out evenly among the places whose backend is alive, wherever Current stood
\* at the start and however many dead backends are skipped.
FairShare ==
    \A p, q \in 1..Len(Backends) :
      alive[Backends[p]] /\ alive[Backends[q]] => served[p] <= served[q] + 1

BackendUrls == [i \in 1..Len(Backends) |-> url[Backends[i]]]

\* When the watch goroutine has no event left, the list is what etcd holds, in
\* key order and without the balancer itself, although every refresh works on
\* a snapshot that may be old when it is installed; provided the last Get did
\* not fail and no change fell between Run's own Get and the watch.
CaughtUp == wpc = "idle" /\ events = 0 /\ fresh => BackendUrls = Registered

\* If a backend stays down while the health checks run, it is in the end taken
\* out of the rotation for good, under whatever objects refreshes gave it.
DeadBackendsSkipped ==
    \A u \in Urls :
      <>[](~up[u] /\ hpc = "running") =>
        <>[](\A o \in ToSet(Backends) : url[o] = u => ~alive[o])
=============================================================================
