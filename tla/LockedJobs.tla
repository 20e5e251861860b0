----------------------------- MODULE LockedJobs -----------------------------
(***************************************************************************)
(* Replicas of a service that share Redis, PostgreSQL and RabbitMQ.  Every *)
(* replica starts with Migrations.Migrate (goose, under a Redis lock of    *)
(* ten seconds) and MigrateRabbitMq (under one of sixty), then serves; a   *)
(* cron replica also starts a job at every tick, each run under a lock of  *)
(* ten seconds.  A lock is a key with its owner's token: it goes away when *)
(* its owner releases it or when its time is up, whoever is still working. *)
(***************************************************************************)
EXTENDS Integers

CONSTANTS
    Replicas,       \* the processes
    Runs,           \* slots for the goroutines of one replica's cron job
    None,           \* no owner
    MaxFaults       \* bound on crashes, failed calls and expiries under a live owner

ASSUME MaxFaultsAssumption == MaxFaults \in Nat
ASSUME NoneAssumption == None \notin Replicas \cup (Replicas \X Runs)

Names == {"goose", "rabbit", "cron"}
Topology == 1 .. 6      \* declare, exchange, bind; twice: Up202412170001

VARIABLES
    key,        \* lock name |-> owner, a replica or a run, or None
    pc,         \* replica |-> where its main goroutine is
    step,       \* replica |-> next statement of Up202412170001
    run,        \* <<replica, slot>> |-> "idle", "locked" (its job runs) or "bare"
    schema,     \* goose.Up was done: the table rabbit_migrations exists
    topology,   \* what exists in RabbitMQ
    recorded,   \* the row of the version is in rabbit_migrations
    crashes, errors, early      \* faults so far: crashes, failed calls, early expiries

stores == <<schema, topology, recorded>>
faults == <<crashes, errors, early>>
vars == <<key, pc, step, run, stores, faults>>

Goroutines == Replicas \X Runs

MoreFaults == crashes + errors + early < MaxFaults
Error == MoreFaults /\ errors' = errors + 1 /\ UNCHANGED <<crashes, early>>

Goto(p, l) == pc' = [pc EXCEPT ![p] = l]

Init == /\ key = [l \in Names |-> None]
        /\ pc = [p \in Replicas |-> "migrate"]
        /\ step = [p \in Replicas |-> 1]
        /\ run = [g \in Goroutines |-> "idle"]
        /\ schema = FALSE /\ topology = {} /\ recorded = FALSE
        /\ crashes = 0 /\ errors = 0 /\ early = 0

----------------------------------------------------------------------------
(* The lock of github.com/bsm/redislock. *)

Obtain(l, o) == key[l] = None /\ key' = [key EXCEPT ![l] = o]
NotObtained(l) == key[l] # None /\ UNCHANGED key

(* Release checks the token; a failed one leaves the key to its time limit. *)
Release(l, o) == \/ key' = [key EXCEPT ![l] = IF @ = o THEN None ELSE @] /\ UNCHANGED faults
                 \/ Error /\ UNCHANGED key

(* Still between Obtain and the end of Release. *)
Working(l, o) == CASE l = "goose" -> pc[o] \in {"goose", "release_goose"}
                   [] l = "rabbit" -> pc[o] \in {"rabbit", "up", "record", "release_rabbit"}
                   [] l = "cron" -> run[o] = "locked"

Expire(l) ==
    /\ key[l] # None
    /\ IF Working(l, key[l])
         THEN MoreFaults /\ early' = early + 1 /\ UNCHANGED <<crashes, errors>>
         ELSE UNCHANGED faults
    /\ key' = [key EXCEPT ![l] = None]
    /\ UNCHANGED <<pc, step, run, stores>>

----------------------------------------------------------------------------
(* Fatal ends the process: deferred releases do not run. *)
Fatal(p) == Goto(p, "down") /\ UNCHANGED <<key, step, run, stores>>

(* Mistake: the migrations go on without the lock. *)
MigrateUnlocked(p) ==
    /\ pc[p] = "migrate"
    /\ \/ Obtain("goose", p) \/ NotObtained("goose")
    /\ Goto(p, "goose")
    /\ UNCHANGED <<step, run, stores, faults>>

(* Migrate: not obtained and failed alike, it returns and main goes on. *)
Migrate(p) ==
    /\ pc[p] = "migrate"
    /\ \/ Obtain("goose", p) /\ Goto(p, "goose") /\ UNCHANGED faults
       \/ NotObtained("goose") /\ Goto(p, "migrate_rabbit") /\ UNCHANGED faults
       \/ Error /\ Goto(p, "migrate_rabbit") /\ UNCHANGED key
    /\ UNCHANGED <<step, run, stores>>

GooseUp(p) ==
    /\ pc[p] = "goose"
    /\ \/ /\ schema' = TRUE
          /\ Goto(p, "release_goose")
          /\ UNCHANGED <<key, step, run, topology, recorded, faults>>
       \/ /\ Error                          \* perhaps in a file after the table's
          /\ schema' \in {schema, TRUE}
          /\ Goto(p, "down")
          /\ UNCHANGED <<key, step, run, topology, recorded>>

ReleaseGoose(p) ==
    /\ pc[p] = "release_goose"
    /\ Release("goose", p)
    /\ Goto(p, "migrate_rabbit")
    /\ UNCHANGED <<step, run, stores>>

MigrateRabbitMq(p) ==
    /\ pc[p] = "migrate_rabbit"
    /\ \/ Obtain("rabbit", p) /\ Goto(p, "rabbit") /\ UNCHANGED faults
       \/ NotObtained("rabbit") /\ Goto(p, "serving") /\ UNCHANGED faults
       \/ Error /\ Goto(p, "serving") /\ UNCHANGED key
    /\ UNCHANGED <<step, run, stores>>

(* Mistake: the answer of exists is taken the wrong way round. *)
ApplyCustomInverted(p) ==
    /\ pc[p] = "rabbit"
    /\ Goto(p, IF schema /\ recorded THEN "up" ELSE "release_rabbit")
    /\ step' = [step EXCEPT ![p] = 1]
    /\ UNCHANGED <<key, run, stores, faults>>

(* What exists answers: an error, as of a table that is not there yet, reads *)
(* as "not applied".                                                        *)
Exists == schema /\ recorded

(* setupRabbitMQ and the head of applyCustom.  A failed dial or channel is  *)
(* fatal.                                                                   *)
ApplyCustom(p) ==
    /\ pc[p] = "rabbit"
    /\ \/ Exists /\ Goto(p, "release_rabbit") /\ UNCHANGED <<key, step, run, stores, faults>>
       \/ /\ \/ ~Exists /\ UNCHANGED faults
             \/ Exists /\ Error
          /\ Goto(p, "up")
          /\ step' = [step EXCEPT ![p] = 1]
          /\ UNCHANGED <<key, run, stores>>
       \/ Error /\ Fatal(p)

(* Mistake: the last queue is not bound. *)
UpWithoutLastBind(p) ==
    /\ pc[p] = "up"
    /\ \/ /\ step[p] < 6
          /\ topology' = topology \cup {step[p]}
          /\ step' = [step EXCEPT ![p] = @ + 1]
          /\ UNCHANGED pc
       \/ step[p] = 6 /\ Goto(p, "record") /\ UNCHANGED <<step, topology>>
    /\ UNCHANGED <<key, run, schema, recorded, faults>>

(* Up202412170001 leaves at its first error, which is only logged. *)
Up(p) ==
    /\ pc[p] = "up"
    /\ \/ /\ step[p] \in Topology
          /\ topology' = topology \cup {step[p]}
          /\ step' = [step EXCEPT ![p] = @ + 1]
          /\ UNCHANGED <<pc, faults>>
       \/ step[p] \notin Topology /\ Goto(p, "record") /\ UNCHANGED <<step, topology, faults>>
       \/ step[p] \in Topology /\ Error /\ Goto(p, "record") /\ UNCHANGED <<step, topology>>
    /\ UNCHANGED <<key, run, schema, recorded>>

(* set: the version is recorded whatever Up returned, if goose has made the  *)
(* table; an error is only logged.                                          *)
Record(p) ==
    /\ pc[p] = "record"
    /\ \/ recorded' = (recorded \/ schema) /\ UNCHANGED faults
       \/ Error /\ UNCHANGED recorded
    /\ Goto(p, "release_rabbit")
    /\ UNCHANGED <<key, step, run, schema, topology>>

ReleaseRabbit(p) ==
    /\ pc[p] = "release_rabbit"
    /\ Release("rabbit", p)
    /\ Goto(p, "serving")
    /\ UNCHANGED <<step, run, stores>>

----------------------------------------------------------------------------
(* Mistake: every error of Obtain is passed over, ErrNotObtained too. *)
TickNotSkipped(p, s) ==
    /\ pc[p] = "serving"
    /\ run[<<p, s>>] = "idle"
    /\ \/ Obtain("cron", <<p, s>>) /\ run' = [run EXCEPT ![<<p, s>>] = "locked"]
       \/ NotObtained("cron") /\ run' = [run EXCEPT ![<<p, s>>] = "bare"]
    /\ UNCHANGED <<pc, step, stores, faults>>

(* Mistake: next(father) is not called: the job is made and dropped. *)
TickDropsJob(p, s) ==
    /\ pc[p] = "serving"
    /\ run[<<p, s>>] = "idle"
    /\ Obtain("cron", <<p, s>>)
    /\ UNCHANGED <<pc, step, run, stores, faults>>

(* CronService.Lock: a tick starts a goroutine, whether or not the one of   *)
(* the last tick has ended.  Only ErrNotObtained skips the job.             *)
Tick(p, s) ==
    /\ pc[p] = "serving"
    /\ run[<<p, s>>] = "idle"
    /\ \/ /\ Obtain("cron", <<p, s>>)
          /\ run' = [run EXCEPT ![<<p, s>>] = "locked"]
          /\ UNCHANGED faults
       \/ Error /\ run' = [run EXCEPT ![<<p, s>>] = "bare"] /\ UNCHANGED key
    /\ UNCHANGED <<pc, step, stores>>

(* The job ends; only then is the release deferred and run.  A lock that     *)
(* was never obtained is nil, and its Release does nothing.                  *)
JobEnds(p, s) ==
    /\ pc[p] = "serving"
    /\ run[<<p, s>>] # "idle"
    /\ \/ run[<<p, s>>] = "locked" /\ Release("cron", <<p, s>>)
       \/ run[<<p, s>>] = "bare" /\ UNCHANGED <<key, faults>>
    /\ run' = [run EXCEPT ![<<p, s>>] = "idle"]
    /\ UNCHANGED <<pc, step, stores>>

----------------------------------------------------------------------------
Crash(p) ==
    /\ pc[p] # "down" /\ MoreFaults
    /\ crashes' = crashes + 1
    /\ Goto(p, "down")
    /\ run' = [g \in Goroutines |-> IF g[1] = p THEN "idle" ELSE run[g]]
    /\ UNCHANGED <<key, step, stores, errors, early>>

Restart(p) ==
    /\ pc[p] = "down"
    /\ Goto(p, "migrate")
    /\ UNCHANGED <<key, step, run, stores, faults>>

Main(p) == \/ Migrate(p) \/ GooseUp(p) \/ ReleaseGoose(p)
           \/ MigrateRabbitMq(p) \/ ApplyCustom(p) \/ Up(p) \/ Record(p) \/ ReleaseRabbit(p)
           \/ Restart(p)

Next == \/ \E p \in Replicas : Main(p) \/ Crash(p)
        \/ \E p \in Replicas, s \in Runs : Tick(p, s) \/ JobEnds(p, s)
        \/ \E l \in Names : Expire(l)

Spec == Init /\ [][Next]_vars

FairSpec == /\ Spec
            /\ \A p \in Replicas : WF_vars(Main(p))
            /\ \A p \in Replicas, s \in Runs : WF_vars(Tick(p, s)) /\ WF_vars(JobEnds(p, s))
            /\ \A l \in Names : WF_vars(Expire(l))

----------------------------------------------------------------------------
(* The variables keep their types: a lock belongs to nobody, to a replica   *)
(* that migrates or, the lock of the cron job, to one run of it.            *)
TypeOK ==
    /\ key \in [Names -> Replicas \cup Goroutines \cup {None}]
    /\ key["goose"] \in Replicas \cup {None} /\ key["rabbit"] \in Replicas \cup {None}
    /\ key["cron"] \in Goroutines \cup {None}
    /\ pc \in [Replicas -> {"migrate", "goose", "release_goose", "migrate_rabbit", "rabbit",
                            "up", "record", "release_rabbit", "serving", "down"}]
    /\ step \in [Replicas -> 1 .. 7]
    /\ run \in [Goroutines -> {"idle", "locked", "bare"}]
    /\ schema \in BOOLEAN /\ topology \subseteq Topology /\ recorded \in BOOLEAN
    /\ crashes \in Nat /\ errors \in Nat /\ early \in Nat

(* goose.Up and Up202412170001 run in two replicas at once only after a     *)
(* lock ran out under its owner: crashes, restarts, failed releases and     *)
(* failed calls do not bring two replicas into a migration.                 *)
OneMigrates ==
    early = 0 =>
      \A l \in {"goose", "rabbit"}, p, q \in Replicas : Working(l, p) /\ Working(l, q) => p = q

(* Two runs of a cron job, of one replica or of two, overlap only after the *)
(* lock ran out under a job or Redis failed to answer Obtain.               *)
OneJob ==
    early + errors = 0 =>
      \A g, h \in Goroutines : run[g] # "idle" /\ run[h] # "idle" => g = h

(* What rabbit_migrations records as applied is there, unless a call failed: *)
(* a crash between two statements of Up202412170001, or between the last of  *)
(* them and the record, does not make a later start pass the migration over. *)
RecordedIsApplied == recorded /\ errors = 0 => topology = Topology

Faulty == crashes + errors + early > 0

(* Unless something failed, the tables and the topology of RabbitMQ get      *)
(* made, and the version is recorded by any replica that begins with         *)
(* RabbitMQ after goose has made the table.  (Nothing keeps a replica from   *)
(* serving before; and on a fresh database one that did not get goose's lock *)
(* may be first at RabbitMQ, find no table and leave nothing recorded.)      *)
MigratedOrFaulty ==
    /\ <>((schema /\ topology = Topology) \/ Faulty)
    /\ \A p \in Replicas : pc[p] = "rabbit" /\ schema ~> recorded \/ Faulty

(* The job is run again and again, by some replica: every start ends, and   *)
(* whatever becomes of the owner of the lock its time limit frees it.       *)
JobRuns == []<>(\E g \in Goroutines : run[g] # "idle")
=============================================================================
