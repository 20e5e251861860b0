-------------------------------- MODULE App --------------------------------
(***************************************************************************)
(* application/application.go: the shutdown registry of a process (a linked*)
(* list under a mutex, kept sorted by priority), the goroutine that turns  *)
(* the first SIGTERM or SIGINT into the cancellation of the root context,  *)
(* and the deferred calls of every main in cmd/:                           *)
(*                                                                         *)
(*     defer cancel(); app.Start(cancel)                                   *)
(*     defer app.Stop(); defer app.RegisterRecovers()()                    *)
(*     ... build, register ...;  app.Run()                                 *)
(*                                                                         *)
(* so that the way out of main is: recover, Stop, cancel.  Callers are the *)
(* other goroutines that use the exported, mutex-protected operations.     *)
(***************************************************************************)
EXTENDS Integers, Sequences, FiniteSets, SequencesExt

CONSTANTS
    Names,       \* names of shutdown functions (several may share one)
    Priorities,  \* the int priorities they are registered with
    Callers,     \* goroutines other than main that call the App's methods
    Main,        \* the goroutine that runs func main
    NoOne,       \* the mutex is free
    MaxRegs      \* bound on the number of registrations

ASSUME PrioritiesAreInts == Priorities \subseteq Int
ASSUME MaxRegsIsNat == MaxRegs \in Nat
ASSUME MainIsNotACaller == Main \notin Callers
ASSUME NoOneIsNobody == NoOne \notin Callers \cup {Main}

Procs == Callers \cup {Main}

VARIABLES
    list,       \* the linked list app.shutdown, head first: [id, name, priority]
    mutex,      \* holder of app.shutdownRWM (every use is Lock), or NoOne
    pc,         \* where each goroutine is
    target,     \* index in list of the node whose function the goroutine runs
    nreg,       \* registrations so far; a node's id is its ordinal
    completed,  \* ids of the functions that returned and were removed
    sig,        \* a signal is in the one-place channel app.sig
    notify,     \* the runtime relays SIGTERM and SIGINT to app.sig
    watcher,    \* the goroutine of Start: "off", "wait", "got", "cancelled", "done"
    ctxDone     \* the root context is cancelled

registry == <<list, nreg, completed>>
signals == <<sig, notify, watcher>>
vars == <<list, mutex, pc, target, nreg, completed, sig, notify, watcher, ctxDone>>

MainPCs == {"new", "startup", "run", "recover", "stop", "stopping", "calling",
            "cancel", "exited", "crashed", "killed", "fatal"}
CallerPCs == {"idle", "calling"}

Node == [id : 1..MaxRegs, name : Names, priority : Priorities]

\* The operating system process has ended, with every goroutine in it.
Over == pc[Main] \in {"exited", "crashed", "killed", "fatal"}

Init == /\ list = << >>
        /\ mutex = NoOne
        /\ pc = [p \in Procs |-> IF p = Main THEN "new" ELSE "idle"]
        /\ target = [p \in Procs |-> 0]
        /\ nreg = 0
        /\ completed = {}
        /\ sig = FALSE
        /\ notify = FALSE
        /\ watcher = "off"
        /\ ctxDone = FALSE

-----------------------------------------------------------------------------
(* The list and the mutex.  The operators whose comment begins with "Mistake" *)
(* are used by no action: each is a plausible error in the operator below it. *)

\* Mistake: the walk stops at equals, newest first among equal priorities.
InsertPosStrict(s, pr) ==
    CHOOSE i \in 1..Len(s) + 1 :
        /\ \A j \in 1..i - 1 : s[j].priority < pr
        /\ i <= Len(s) => s[i].priority >= pr

\* The place of a new node of priority pr: in front of the first node whose
\* priority is greater, behind all of them when there is none.
InsertPos(s, pr) ==
    CHOOSE i \in 1..Len(s) + 1 :
        /\ \A j \in 1..i - 1 : s[j].priority <= pr
        /\ i <= Len(s) => s[i].priority > pr

\* Mistake: the node behind the one that ran is unlinked.
UnlinkNext(s, i) == RemoveAt(s, IF i < Len(s) THEN i + 1 ELSE i)

\* Take the node whose function returned out of the list.
Unlink(s, i) == RemoveAt(s, i)

\* Mistake: shutdownRWM.RLock, which readers share.
LockShared(p) == mutex' = p

\* app.shutdownRWM.Lock() by goroutine p.
Lock(p) == mutex = NoOne /\ mutex' = p

\* Mistake: Unlock as a last statement, which a panic jumps over.
UnlockSkipped == UNCHANGED mutex

\* The deferred app.shutdownRWM.Unlock() when a shutdown function panics.
UnlockOnPanic == mutex' = NoOne

-----------------------------------------------------------------------------
(* RegisterShutdown, ShutdownByName and the sweep of Stop *)

\* Main registers while it builds the service, a caller at any time.  The
\* mutex is held only for the insertion, which calls nothing.
RegisterShutdown(p, n, pr) ==
    /\ ~Over
    /\ pc[p] \in {"startup", "idle"}
    /\ mutex = NoOne
    /\ nreg < MaxRegs
    /\ list' = InsertAt(list, InsertPos(list, pr),
                        [id |-> nreg + 1, name |-> n, priority |-> pr])
    /\ nreg' = nreg + 1
    /\ UNCHANGED <<mutex, pc, target, completed, signals, ctxDone>>

\* Start the function of the first node named n; with no such node the call
\* returns and nothing changes.  The function runs under the mutex.
ShutdownByName(c, n) ==
    /\ ~Over
    /\ pc[c] = "idle"
    /\ Lock(c)
    /\ \E i \in 1..Len(list) :
         /\ list[i].name = n
         /\ \A j \in 1..i - 1 : list[j].name # n
         /\ target' = [target EXCEPT ![c] = i]
    /\ pc' = [pc EXCEPT ![c] = "calling"]
    /\ UNCHANGED <<registry, signals, ctxDone>>

StopAcquire ==
    /\ pc[Main] = "stop"
    /\ Lock(Main)
    /\ pc' = [pc EXCEPT ![Main] = "stopping"]
    /\ UNCHANGED <<registry, target, signals, ctxDone>>

StopCallHead ==
    /\ pc[Main] = "stopping"
    /\ list # << >>
    /\ target' = [target EXCEPT ![Main] = 1]
    /\ pc' = [pc EXCEPT ![Main] = "calling"]
    /\ UNCHANGED <<registry, mutex, signals, ctxDone>>

\* Mistake: the loop condition looks at node.next instead of node.
StopDoneEarly ==
    /\ pc[Main] = "stopping"
    /\ Len(list) <= 1
    /\ mutex' = NoOne
    /\ pc' = [pc EXCEPT ![Main] = "cancel"]
    /\ UNCHANGED <<registry, target, signals, ctxDone>>

\* The list is empty: unlock, and leave Stop for the deferred cancel.
StopDone ==
    /\ pc[Main] = "stopping"
    /\ list = << >>
    /\ mutex' = NoOne
    /\ pc' = [pc EXCEPT ![Main] = "cancel"]
    /\ UNCHANGED <<registry, target, signals, ctxDone>>

\* The function returned: its node is unlinked.  The sweep keeps the mutex and
\* goes on, ShutdownByName unlocks and returns.
FnReturns(p) ==
    /\ ~Over
    /\ pc[p] = "calling"
    /\ completed' = completed \cup {list[target[p]].id}
    /\ list' = Unlink(list, target[p])
    /\ target' = [target EXCEPT ![p] = 0]
    /\ IF p = Main
         THEN /\ pc' = [pc EXCEPT ![p] = "stopping"]
              /\ UNCHANGED mutex
         ELSE /\ pc' = [pc EXCEPT ![p] = "idle"]
              /\ mutex' = NoOne
    /\ UNCHANGED <<nreg, signals, ctxDone>>

\* The function panics: the deferred Unlock runs and the node stays.  In Stop
\* nothing recovers (RegisterRecovers has run already): the deferred cancel
\* runs and the process crashes with the rest of the list unrun.  A caller's
\* own stack recovers, as the HTTP middleware does.
FnPanics(p) ==
    /\ ~Over
    /\ pc[p] = "calling"
    /\ UnlockOnPanic
    /\ target' = [target EXCEPT ![p] = 0]
    /\ IF p = Main
         THEN /\ pc' = [pc EXCEPT ![p] = "crashed"]
              /\ ctxDone' = TRUE
         ELSE /\ pc' = [pc EXCEPT ![p] = "idle"]
              /\ UNCHANGED ctxDone
    /\ UNCHANGED <<registry, signals>>

\* The function ends the process: logger.Fatal, or a panic nobody recovers in
\* a caller.  No deferred call of main runs.
FnFatal(p) ==
    /\ ~Over
    /\ pc[p] = "calling"
    /\ pc' = [pc EXCEPT ![Main] = "fatal"]
    /\ UNCHANGED <<registry, mutex, target, signals, ctxDone>>

-----------------------------------------------------------------------------
(* func main *)

Start ==
    /\ pc[Main] = "new"
    /\ pc' = [pc EXCEPT ![Main] = "startup"]
    /\ notify' = TRUE
    /\ watcher' = "wait"
    /\ UNCHANGED <<registry, mutex, target, sig, ctxDone>>

\* The container cannot be built, or Invoke failed and main logs it with
\* Fatal: the process ends before or without Stop.
StartupFatal ==
    /\ pc[Main] \in {"new", "startup"}
    /\ pc' = [pc EXCEPT ![Main] = "fatal"]
    /\ UNCHANGED <<registry, mutex, target, signals, ctxDone>>

\* Invoke failed and main returns; or main reaches app.Run; or it panics.
StartupEnds ==
    /\ pc[Main] = "startup"
    /\ \E next \in {"stop", "run", "recover"} : pc' = [pc EXCEPT ![Main] = next]
    /\ UNCHANGED <<registry, mutex, target, signals, ctxDone>>

\* Run returns once the root context is cancelled.
RunReturns ==
    /\ pc[Main] = "run"
    /\ ctxDone
    /\ pc' = [pc EXCEPT ![Main] = "stop"]
    /\ UNCHANGED <<registry, mutex, target, signals, ctxDone>>

\* The function RegisterRecovers returned: after a panic, send SIGTERM to
\* app.sig.  The send blocks while the channel is full.
RecoverSend ==
    /\ pc[Main] = "recover"
    /\ ~sig
    /\ sig' = TRUE
    /\ pc' = [pc EXCEPT ![Main] = "stop"]
    /\ UNCHANGED <<registry, mutex, target, notify, watcher, ctxDone>>

\* The deferred cancel, the last thing main does.
CancelAndExit ==
    /\ pc[Main] = "cancel"
    /\ ctxDone' = TRUE
    /\ pc' = [pc EXCEPT ![Main] = "exited"]
    /\ UNCHANGED <<registry, mutex, target, signals>>

-----------------------------------------------------------------------------
(* Signals *)

\* SIGTERM or SIGINT arrives: relayed to app.sig (dropped when it is full) if
\* the runtime relays it, otherwise the default action ends the process.
OsSignal ==
    /\ ~Over
    /\ IF notify
         THEN sig' = TRUE /\ UNCHANGED pc
         ELSE pc' = [pc EXCEPT ![Main] = "killed"] /\ UNCHANGED sig
    /\ UNCHANGED <<registry, mutex, target, notify, watcher, ctxDone>>

WatcherReceives ==
    /\ ~Over
    /\ watcher = "wait"
    /\ sig
    /\ sig' = FALSE
    /\ watcher' = "got"
    /\ UNCHANGED <<registry, mutex, pc, target, notify, ctxDone>>

\* Mistake: the goroutine does not call cancel.
WatcherForgetsCancel ==
    /\ ~Over
    /\ watcher = "got"
    /\ watcher' = "cancelled"
    /\ UNCHANGED <<registry, mutex, pc, target, sig, notify, ctxDone>>

WatcherCancels ==
    /\ ~Over
    /\ watcher = "got"
    /\ ctxDone' = TRUE
    /\ watcher' = "cancelled"
    /\ UNCHANGED <<registry, mutex, pc, target, sig, notify>>

\* The deferred signal.Stop.
WatcherStopsNotify ==
    /\ ~Over
    /\ watcher = "cancelled"
    /\ notify' = FALSE
    /\ watcher' = "done"
    /\ UNCHANGED <<registry, mutex, pc, target, sig, ctxDone>>

-----------------------------------------------------------------------------
MainStep ==
    \/ Start
    \/ StartupFatal
    \/ StartupEnds
    \/ RunReturns
    \/ RecoverSend
    \/ StopAcquire
    \/ StopCallHead
    \/ StopDone
    \/ CancelAndExit

WatcherStep == WatcherReceives \/ WatcherCancels \/ WatcherStopsNotify

FnStep(p) == FnReturns(p) \/ FnPanics(p) \/ FnFatal(p)

ApiStep ==
    \/ \E p \in Procs, n \in Names, pr \in Priorities : RegisterShutdown(p, n, pr)
    \/ \E c \in Callers, n \in Names : ShutdownByName(c, n)
    \/ \E p \in Procs : FnStep(p)

\* A process that has ended does nothing.
Ended == Over /\ UNCHANGED vars

Next == MainStep \/ ApiStep \/ OsSignal \/ WatcherStep \/ Ended

\* The goroutines main and Start's watcher are scheduled.  A goroutine waiting
\* for a Go mutex gets it in the end even if others take it again and again
\* (sync.Mutex, starvation mode): StopAcquire is strongly fair.  Nothing is
\* assumed of the startup, of signals, of callers or of shutdown functions.
Fairness ==
    /\ WF_vars(RunReturns \/ RecoverSend \/ StopCallHead \/ StopDone \/ CancelAndExit)
    /\ SF_vars(StopAcquire)
    /\ WF_vars(WatcherStep)

Spec == Init /\ [][Next]_vars

FairSpec == Spec /\ Fairness

-----------------------------------------------------------------------------
(* Properties *)

\* The types; in particular the list of Go nodes has no hole, whatever is
\* unlinked at its head or inside.
TypeOK ==
    /\ list \in Seq(Node)
    /\ mutex \in Procs \cup {NoOne}
    /\ pc \in [Procs -> MainPCs \cup CallerPCs]
    /\ pc[Main] \in MainPCs
    /\ \A c \in Callers : pc[c] \in CallerPCs
    /\ target \in [Procs -> Nat]
    /\ nreg \in 0..MaxRegs
    /\ completed \subseteq 1..MaxRegs
    /\ sig \in BOOLEAN
    /\ notify \in BOOLEAN
    /\ watcher \in {"off", "wait", "got", "cancelled", "done"}
    /\ ctxDone \in BOOLEAN

Before(a, b) == \/ a.priority < b.priority
                \/ a.priority = b.priority /\ a.id < b.id

\* The list is sorted by priority, and nodes of equal priority stand in the
\* order of their registration, after any mixture of RegisterShutdown,
\* ShutdownByName, panicking functions and a sweep.
RegistryOrder == \A i, j \in 1..Len(list) : i < j => Before(list[i], list[j])

PendingIds == {list[i].id : i \in 1..Len(list)}

\* Every function ever registered is either still in the list or has run to
\* its end, never both: no interleaving of insertions and removals loses a
\* node, and none runs to its end a second time.
Accounted == /\ PendingIds \cup completed = 1..nreg
             /\ PendingIds \cap completed = {}

\* At most one shutdown function is in progress in a live process, whoever
\* calls it, and its node is still where its caller found it: the mutex is
\* held across the call.
NoOverlap == ~Over => \A p \in Procs : pc[p] = "calling" =>
    /\ mutex = p
    /\ target[p] \in 1..Len(list)
    /\ \A q \in Procs \ {p} : pc[q] \notin {"calling", "stopping"}

\* Once Start has installed the handler, SIGTERM or SIGINT takes its default
\* action only on a process whose root context was cancelled before.
SignalKillsOnlyAfterCancel ==
    pc[Main] = "killed" /\ watcher # "off" => ctxDone

Phase == CASE pc[Main] \in {"stopping", "calling"} -> "sweeping"
           [] pc[Main] \in {"cancel", "exited"} -> "swept"
           [] pc[Main] \in {"crashed", "killed", "fatal"} -> "dead"
           [] OTHER -> "open"

Registry == INSTANCE ShutdownRegistry WITH pending <- ToSet(list), phase <- Phase

\* The registry with its list, mutex and goroutines implements the abstract
\* one: a sweep completes the pending functions in the order of priority and
\* registration and ends with none pending.
RefinesRegistry == Registry!Spec

\* If every shutdown function that is called returns, panics or exits, then a
\* service in Run with a signal in the channel or a cancelled context, and a
\* service in Stop, comes to its end, whatever the callers do.
ShutdownFnsEnd ==
    \A p \in Procs : pc[p] = "calling" ~> (pc[p] # "calling" \/ Over)
ShutdownCompletes ==
    ShutdownFnsEnd =>
      ((pc[Main] = "run" /\ (sig \/ ctxDone)) \/ pc[Main] = "stop") ~> Over

\* A panic of main that RegisterRecovers caught is followed by Stop.
PanicLeadsToStop == pc[Main] = "recover" ~> pc[Main] # "recover"
=============================================================================
