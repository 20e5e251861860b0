---------------------------- MODULE CommandPool ----------------------------
(***************************************************************************)
(* pkg/worker_pool.go: a pool of goroutines that take commands from a      *)
(* buffered channel, and that can be stopped and reconnected.              *)
(*                                                                         *)
(* Reconnect makes a new channel and a new context; both are numbered by   *)
(* the generation of the pool, 1 for the ones NewPoolStore makes, and 0    *)
(* stands for nil.  Every load, store, send, receive, close and cancel of  *)
(* the code is a step of its own.  One goroutine, the controller, calls    *)
(* Run, Stop and Reconnect (as cmd/custom_worker_pool does); appliers call *)
(* Apply, the controller too.                                              *)
(***************************************************************************)
EXTENDS Integers, Sequences, FiniteSets

CONSTANTS
    Appliers,       \* goroutines that only call Apply
    Controller,     \* the goroutine that calls Run, Stop, Reconnect and Apply
    Workers,        \* the worker goroutines of a generation
    HandlerPanics,  \* whether the handler given to Run may panic
    MaxCmds,        \* bound on the commands ever applied
    MaxGen          \* bound on the generations of the pool

ASSUME SomeWorkers == IsFiniteSet(Workers) /\ Workers # {}
ASSUME ControllerIsNoApplier == Controller \notin Appliers
ASSUME HandlerPanicsIsBoolean == HandlerPanics \in BOOLEAN
ASSUME BoundsAreNat == MaxCmds \in Nat /\ MaxGen \in Nat \ {0}

Clients == Appliers \cup {Controller}

\* The capacity of the channel, which is also the number of workers Run starts.
Size == Cardinality(Workers)

VARIABLES
    run,        \* runAtom
    task,       \* taskAtom: the generation of the channel in it, 0 for nil
    gen,        \* generations made so far
    buf,        \* what each channel holds
    closed,     \* the generations whose channel is closed
    poolCtx,    \* poolCtx and poolCancel, assigned together: a generation or 0
    cancelled,  \* the generations whose poolCancel was called
    father,     \* the context poolCtx is derived from is cancelled
    inWork,     \* the counter inWork
    wpc,        \* where each worker is, "off" when it does not run
    wcur,       \* the channel a worker loaded
    wcmd,       \* the command a worker received
    pc,         \* where each client is, "idle" between calls
    cur,        \* the channel a client loaded
    cmd,        \* the command a client is applying
    ncmd,       \* commands made so far
    accepted,   \* commands whose send on each channel completed
    executed,   \* commands whose handler returned
    aborted,    \* commands whose handler panicked
    due         \* commands the channel had accepted when Stop was last called

pool == <<run, task, gen, closed, poolCtx, cancelled, father>>
workers == <<wpc, wcur, wcmd>>
clients == <<pc, cur, cmd, ncmd>>
history == <<accepted, executed, aborted, due>>
vars == <<pool, buf, inWork, workers, clients, history>>

Gens == 1..MaxGen
Cmds == 1..MaxCmds

WorkerPCs == {"off", "load", "frozen", "select", "got", "handling"}
ClientPCs == {"idle", "panicked",
              "apply_load", "apply_select", "apply_send",
              "stop_load", "stop_inwork", "stop_len", "stop_cancel", "stop_close",
              "stop_nil", "stop_wait", "stop_zero", "stop_clear",
              "recon_store", "run_check", "run_spawn", "run_set"}

Init == /\ run = FALSE
        /\ task = 1
        /\ gen = 1
        /\ buf = [g \in Gens |-> << >>]
        /\ closed = {}
        /\ poolCtx = 1
        /\ cancelled = {}
        /\ father = FALSE
        /\ inWork = 0
        /\ wpc = [w \in Workers |-> "off"]
        /\ wcur = [w \in Workers |-> 0]
        /\ wcmd = [w \in Workers |-> 0]
        /\ pc = [c \in Clients |-> "idle"]
        /\ cur = [c \in Clients |-> 0]
        /\ cmd = [c \in Clients |-> 0]
        /\ ncmd = 0
        /\ accepted = [g \in Gens |-> {}]
        /\ executed = {}
        /\ aborted = {}
        /\ due = {}

CtxDone(g) == father \/ g \in cancelled

Goto(c, l) == pc' = [pc EXCEPT ![c] = l]
WGoto(w, l) == wpc' = [wpc EXCEPT ![w] = l]

\* The environment: SIGTERM cancels the root context.
CancelFather == /\ ~father
                /\ father' = TRUE
                /\ UNCHANGED <<run, task, gen, closed, poolCtx, cancelled,
                               buf, inWork, workers, clients, history>>

-----------------------------------------------------------------------------
(* A worker *)

WLoad(w) ==
    /\ wpc[w] = "load"
    /\ wcur' = [wcur EXCEPT ![w] = task]
    /\ WGoto(w, IF task = 0 THEN "frozen" ELSE "select")
    /\ UNCHANGED <<pool, buf, inWork, wcmd, clients, history>>

\* No channel: look at the contexts, then load again.  A nil poolCtx would
\* panic and end the worker, like a done one.
WFrozen(w) ==
    /\ wpc[w] = "frozen"
    /\ WGoto(w, IF poolCtx = 0 \/ CtxDone(poolCtx) THEN "off" ELSE "load")
    /\ UNCHANGED <<pool, buf, inWork, wcur, wcmd, clients, history>>

\* The select: any of its cases that is ready may be taken.
WReceive(w) ==
    /\ wpc[w] = "select"
    /\ poolCtx # 0
    /\ buf[wcur[w]] # << >>
    /\ wcmd' = [wcmd EXCEPT ![w] = Head(buf[wcur[w]])]
    /\ buf' = [buf EXCEPT ![wcur[w]] = Tail(@)]
    /\ WGoto(w, "got")
    /\ UNCHANGED <<pool, inWork, wcur, clients, history>>

WExit(w) ==
    /\ wpc[w] = "select"
    /\ \/ poolCtx = 0
       \/ CtxDone(poolCtx)
       \/ wcur[w] \in closed /\ buf[wcur[w]] = << >>
    /\ WGoto(w, "off")
    /\ UNCHANGED <<pool, buf, inWork, wcur, wcmd, clients, history>>

\* Mistake: the command is handled without being counted.
WBeginUncounted(w) ==
    /\ wpc[w] = "got"
    /\ WGoto(w, "handling")
    /\ UNCHANGED <<pool, buf, inWork, wcur, wcmd, clients, history>>

WBegin(w) ==
    /\ wpc[w] = "got"
    /\ inWork' = inWork + 1
    /\ WGoto(w, "handling")
    /\ UNCHANGED <<pool, buf, wcur, wcmd, clients, history>>

\* Mistake: the counter is not decremented.
WFinishCounted(w) ==
    /\ wpc[w] = "handling"
    /\ executed' = executed \cup {wcmd[w]}
    /\ WGoto(w, "load")
    /\ UNCHANGED <<pool, buf, inWork, wcur, wcmd, clients, accepted, aborted, due>>

\* The handler returns and the counter goes down.
WFinish(w) ==
    /\ wpc[w] = "handling"
    /\ executed' = executed \cup {wcmd[w]}
    /\ inWork' = inWork - 1
    /\ WGoto(w, "load")
    /\ UNCHANGED <<pool, buf, wcur, wcmd, clients, accepted, aborted, due>>

\* The handler panics: the deferred recover ends the worker, and the
\* decrement behind the call is not reached.
WPanic(w) ==
    /\ HandlerPanics
    /\ wpc[w] = "handling"
    /\ aborted' = aborted \cup {wcmd[w]}
    /\ WGoto(w, "off")
    /\ UNCHANGED <<pool, buf, inWork, wcur, wcmd, clients, accepted, executed, due>>

-----------------------------------------------------------------------------
(* Apply *)

\* The call, up to the check of isRun.
Apply(c) ==
    /\ pc[c] = "idle"
    /\ ncmd < MaxCmds
    /\ run
    /\ ncmd' = ncmd + 1
    /\ cmd' = [cmd EXCEPT ![c] = ncmd + 1]
    /\ Goto(c, "apply_load")
    /\ UNCHANGED <<pool, buf, inWork, workers, cur, history>>

ApplyLoad(c) ==
    /\ pc[c] = "apply_load"
    /\ cur' = [cur EXCEPT ![c] = task]
    /\ Goto(c, IF task = 0 THEN "idle" ELSE "apply_select")
    /\ UNCHANGED <<pool, buf, inWork, workers, cmd, ncmd, history>>

\* The select with its default case; a nil poolCtx is dereferenced.
ApplySelect(c) ==
    /\ pc[c] = "apply_select"
    /\ Goto(c, IF poolCtx = 0 THEN "panicked"
               ELSE IF CtxDone(poolCtx) THEN "idle" ELSE "apply_send")
    /\ UNCHANGED <<pool, buf, inWork, workers, cur, cmd, ncmd, history>>

\* The send in the default case: it waits while the channel is full, and
\* panics if the channel is closed, before or while it waits.
ApplySend(c) ==
    /\ pc[c] = "apply_send"
    /\ cur[c] \notin closed
    /\ Len(buf[cur[c]]) < Size
    /\ buf' = [buf EXCEPT ![cur[c]] = Append(@, cmd[c])]
    /\ accepted' = [accepted EXCEPT ![cur[c]] = @ \cup {cmd[c]}]
    /\ Goto(c, "idle")
    /\ UNCHANGED <<pool, inWork, workers, cur, cmd, ncmd, executed, aborted, due>>

ApplySendPanics(c) ==
    /\ pc[c] = "apply_send"
    /\ cur[c] \in closed
    /\ Goto(c, "panicked")
    /\ UNCHANGED <<pool, buf, inWork, workers, cur, cmd, ncmd, history>>

-----------------------------------------------------------------------------
(* Stop *)

At(l) == pc[Controller] = l
Then(l) == Goto(Controller, l)

Stop ==
    /\ At("idle")
    /\ run
    /\ due' = IF task = 0 THEN {} ELSE accepted[task]
    /\ Then("stop_load")
    /\ UNCHANGED <<pool, buf, inWork, workers, cur, cmd, ncmd, accepted, executed, aborted>>

StopLoad ==
    /\ At("stop_load")
    /\ cur' = [cur EXCEPT ![Controller] = task]
    /\ Then(IF task = 0 THEN "idle" ELSE "stop_inwork")
    /\ UNCHANGED <<pool, buf, inWork, workers, cmd, ncmd, history>>

StopInWork ==
    /\ At("stop_inwork")
    /\ Then(IF inWork = 0 THEN "stop_len" ELSE "stop_load")
    /\ UNCHANGED <<pool, buf, inWork, workers, cur, cmd, ncmd, history>>

\* Mistake: the length of the channel is not looked at.
StopLenIgnored ==
    /\ At("stop_len")
    /\ Then("stop_cancel")
    /\ UNCHANGED <<pool, buf, inWork, workers, cur, cmd, ncmd, history>>

StopLen ==
    /\ At("stop_len")
    /\ Then(IF buf[cur[Controller]] = << >> THEN "stop_cancel" ELSE "stop_load")
    /\ UNCHANGED <<pool, buf, inWork, workers, cur, cmd, ncmd, history>>

StopCancel ==
    /\ At("stop_cancel")
    /\ cancelled' = cancelled \cup {poolCtx}
    /\ Then("stop_close")
    /\ UNCHANGED <<run, task, gen, closed, poolCtx, father,
                   buf, inWork, workers, cur, cmd, ncmd, history>>

StopClose ==
    /\ At("stop_close")
    /\ closed' = closed \cup {cur[Controller]}
    /\ Then("stop_nil")
    /\ UNCHANGED <<run, task, gen, poolCtx, cancelled, father,
                   buf, inWork, workers, cur, cmd, ncmd, history>>

\* Mistake: the closed channel stays in taskAtom.
StopNilForgotten ==
    /\ At("stop_nil")
    /\ Then("stop_wait")
    /\ UNCHANGED <<pool, buf, inWork, workers, cur, cmd, ncmd, history>>

StopNil ==
    /\ At("stop_nil")
    /\ task' = 0
    /\ Then("stop_wait")
    /\ UNCHANGED <<run, gen, closed, poolCtx, cancelled, father,
                   buf, inWork, workers, cur, cmd, ncmd, history>>

\* Mistake: wg.Wait is left out.
StopWaitSkipped ==
    /\ At("stop_wait")
    /\ poolCtx' = 0
    /\ Then("stop_zero")
    /\ UNCHANGED <<run, task, gen, closed, cancelled, father,
                   buf, inWork, workers, cur, cmd, ncmd, history>>

\* wg.Wait, then poolCancel and poolCtx become nil.
StopWait ==
    /\ At("stop_wait")
    /\ \A w \in Workers : wpc[w] = "off"
    /\ poolCtx' = 0
    /\ Then("stop_zero")
    /\ UNCHANGED <<run, task, gen, closed, cancelled, father,
                   buf, inWork, workers, cur, cmd, ncmd, history>>

StopZero ==
    /\ At("stop_zero")
    /\ inWork' = 0
    /\ Then("stop_clear")
    /\ UNCHANGED <<pool, buf, workers, cur, cmd, ncmd, history>>

StopClear ==
    /\ At("stop_clear")
    /\ run' = FALSE
    /\ Then("idle")
    /\ UNCHANGED <<task, gen, closed, poolCtx, cancelled, father,
                   buf, inWork, workers, cur, cmd, ncmd, history>>

-----------------------------------------------------------------------------
(* Reconnect and Run *)

\* The call, the check of isRun, the new context.
Reconnect ==
    /\ At("idle")
    /\ ~run
    /\ gen < MaxGen
    /\ gen' = gen + 1
    /\ poolCtx' = gen + 1
    /\ Then("recon_store")
    /\ UNCHANGED <<run, task, closed, cancelled, father,
                   buf, inWork, workers, cur, cmd, ncmd, history>>

ReconnectStore ==
    /\ At("recon_store")
    /\ task' = gen
    /\ Then("run_check")
    /\ UNCHANGED <<run, gen, closed, poolCtx, cancelled, father,
                   buf, inWork, workers, cur, cmd, ncmd, history>>

\* Run called by the controller itself.
Run ==
    /\ At("idle")
    /\ Then("run_check")
    /\ UNCHANGED <<pool, buf, inWork, workers, cur, cmd, ncmd, history>>

RunCheck ==
    /\ At("run_check")
    /\ cur' = [cur EXCEPT ![Controller] = task]
    /\ Then(IF run THEN "idle" ELSE "run_spawn")
    /\ UNCHANGED <<pool, buf, inWork, workers, cmd, ncmd, history>>

\* One goroutine for each place of the channel; the capacity of nil is 0.
RunSpawn ==
    /\ At("run_spawn")
    /\ wpc' = IF cur[Controller] = 0 THEN wpc ELSE [w \in Workers |-> "load"]
    /\ Then("run_set")
    /\ UNCHANGED <<pool, buf, inWork, wcur, wcmd, cur, cmd, ncmd, history>>

RunSet ==
    /\ At("run_set")
    /\ run' = TRUE
    /\ Then("idle")
    /\ UNCHANGED <<task, gen, closed, poolCtx, cancelled, father,
                   buf, inWork, workers, cur, cmd, ncmd, history>>

-----------------------------------------------------------------------------
WorkerStep(w) ==
    \/ WLoad(w)
    \/ WFrozen(w)
    \/ WReceive(w)
    \/ WExit(w)
    \/ WBegin(w)
    \/ WFinish(w)
    \/ WPanic(w)

ApplyStep(c) ==
    \/ ApplyLoad(c)
    \/ ApplySelect(c)
    \/ ApplySend(c)
    \/ ApplySendPanics(c)

ControlStep ==
    \/ StopLoad
    \/ StopInWork
    \/ StopLen
    \/ StopCancel
    \/ StopClose
    \/ StopNil
    \/ StopWait
    \/ StopZero
    \/ StopClear
    \/ ReconnectStore
    \/ RunCheck
    \/ RunSpawn
    \/ RunSet

Next ==
    \/ CancelFather
    \/ \E w \in Workers : WorkerStep(w)
    \/ \E c \in Clients : Apply(c) \/ ApplyStep(c)
    \/ Stop
    \/ Reconnect
    \/ Run
    \/ ControlStep

Spec == Init /\ [][Next]_vars

\* Goroutines are scheduled, and handlers end.  Nothing makes a client call.
Fairness ==
    /\ \A w \in Workers : WF_vars(WorkerStep(w))
    /\ \A c \in Clients : WF_vars(ApplyStep(c))
    /\ WF_vars(ControlStep)

FairSpec == Spec /\ Fairness

-----------------------------------------------------------------------------
(* Properties *)

\* The types; in particular Stop cancels a context and closes a channel only
\* when there is one.
TypeOK ==
    /\ run \in BOOLEAN
    /\ task \in 0..MaxGen
    /\ gen \in Gens
    /\ buf \in [Gens -> Seq(Cmds)]
    /\ closed \subseteq Gens
    /\ poolCtx \in 0..MaxGen
    /\ cancelled \subseteq Gens
    /\ father \in BOOLEAN
    /\ inWork \in Int
    /\ wpc \in [Workers -> WorkerPCs]
    /\ wcur \in [Workers -> 0..MaxGen]
    /\ wcmd \in [Workers -> 0..MaxCmds]
    /\ pc \in [Clients -> ClientPCs]
    /\ cur \in [Clients -> 0..MaxGen]
    /\ cmd \in [Clients -> 0..MaxCmds]
    /\ ncmd \in 0..MaxCmds
    /\ accepted \in [Gens -> SUBSET Cmds]
    /\ executed \subseteq Cmds
    /\ aborted \subseteq Cmds
    /\ due \subseteq Cmds

Handling == {w \in Workers : wpc[w] = "handling"}

\* As long as no handler has panicked, inWork is the number of commands being
\* handled, over any number of stops and reconnects.
InWorkExact == aborted = {} => inWork = Cardinality(Handling)

\* When the pool is not running, and Run is not just about to say that it is,
\* no worker is left: the workers of one generation never meet those of the
\* next, nor a poolCtx that is nil or not theirs.
StoppedPoolIsQuiet ==
    ~run /\ ~At("run_set") => \A w \in Workers : wpc[w] = "off"

\* When Stop has got past its wait, and as long as the pool is stopped, every
\* command that Apply had sent before Stop was called has been handled to
\* its end (or its panic), whatever the workers, the appliers and the root
\* context did: a command taken from the channel but not yet counted is not
\* forgotten.
StopDrains ==
    At("stop_zero") \/ At("stop_clear") \/ ~run => due \subseteq executed \cup aborted

\* The goroutine that calls Run, Stop and Reconnect never panics in its own
\* calls of Apply, whatever the appliers and the workers do at the time: the
\* channel it finds is open and has a context.
ControllerNeverPanics == pc[Controller] # "panicked"

\* Unless a handler panics or the root context is cancelled, every call of the
\* pool comes to an end: it returns, or it panics.
CallsReturn ==
    \A c \in Clients :
      pc[c] # "idle" ~> \/ pc[c] \in {"idle", "panicked"}
                        \/ father
                        \/ aborted # {}

\* Stop, which Shutdown calls when the service ends, returns.
StopReturns == At("stop_load") ~> (At("idle") \/ At("panicked"))
=============================================================================
