------------------------- MODULE LockedJobs_proofs --------------------------
(***************************************************************************)
(* The safety properties of LockedJobs for any number of replicas, of      *)
(* overlapping runs of the job and of faults.  The inductive invariant     *)
(* relates where a goroutine is to the lock it took (LocksHeld), and what  *)
(* Up202412170001 has left to do to what RabbitMQ already has (Progress).  *)
(***************************************************************************)
EXTENDS LockedJobs, TLAPS

(* Until a lock runs out early, who works under it owns its key. *)
LocksHeld ==
    early = 0 =>
      /\ \A p \in Replicas : pc[p] \in {"goose", "release_goose"} => key["goose"] = p
      /\ \A p \in Replicas :
           pc[p] \in {"rabbit", "up", "record", "release_rabbit"} => key["rabbit"] = p
      /\ \A g \in Goroutines : run[g] = "locked" => key["cron"] = g

(* A job runs without the lock only after a failed call to Redis. *)
BareIsError == \A g \in Goroutines : run[g] = "bare" => errors > 0

(* The statements behind step were carried out, before the record all. *)
Progress ==
    errors = 0 =>
      /\ recorded => topology = Topology
      /\ \A p \in Replicas : pc[p] = "up" => 1 .. step[p] - 1 \subseteq topology
      /\ \A p \in Replicas : pc[p] = "record" => topology = Topology

IInv == TypeOK /\ LocksHeld /\ BareIsError /\ Progress

-----------------------------------------------------------------------------
(* The first state, where nobody works, satisfies the invariant. *)
LEMMA InitIInv == Init => IInv
<1> SUFFICES ASSUME Init PROVE IInv
  OBVIOUS
<1>1. schema \in BOOLEAN /\ recorded \in BOOLEAN /\ ~recorded
  BY Zenon DEF Init
<1>2. TypeOK
  BY <1>1 DEF Init, TypeOK, Names, Topology
<1> QED
  BY <1>1, <1>2 DEF Init, IInv, LocksHeld, BareIsError, Progress, Topology

(* Every step keeps the types. *)
LEMMA TypeStep == TypeOK /\ [Next]_vars => TypeOK'
<1> SUFFICES ASSUME TypeOK, [Next]_vars PROVE TypeOK'
  OBVIOUS
<1> USE DEF TypeOK, Goto, Error, Names, stores, faults
<1>1. ASSUME NEW p \in Replicas, Migrate(p) PROVE TypeOK'
  BY <1>1 DEF Migrate, Obtain, NotObtained
<1>2. ASSUME NEW p \in Replicas, GooseUp(p) PROVE TypeOK'
  <2>1. schema' \in BOOLEAN
    BY <1>2, Zenon DEF GooseUp
  <2>2. /\ pc' = [pc EXCEPT ![p] = "release_goose"] \/ pc' = [pc EXCEPT ![p] = "down"]
        /\ errors' = errors \/ errors' = errors + 1
        /\ UNCHANGED <<key, step, run, topology, recorded, crashes, early>>
    BY <1>2, Zenon DEF GooseUp
  <2> QED
    BY <2>1, <2>2
<1>3. ASSUME NEW p \in Replicas, ReleaseGoose(p) PROVE TypeOK'
  BY <1>3 DEF ReleaseGoose, Release
<1>4. ASSUME NEW p \in Replicas, MigrateRabbitMq(p) PROVE TypeOK'
  BY <1>4 DEF MigrateRabbitMq, Obtain, NotObtained
<1>5. ASSUME NEW p \in Replicas, ApplyCustom(p) PROVE TypeOK'
  BY <1>5 DEF ApplyCustom, Fatal
<1>6. ASSUME NEW p \in Replicas, Up(p) PROVE TypeOK'
  <2>1. /\ step[p] \in Topology /\ topology' = topology \cup {step[p]}
        /\ step' = [step EXCEPT ![p] = @ + 1] /\ UNCHANGED <<pc, faults>>
        => TypeOK'
    <3> SUFFICES ASSUME step[p] \in Topology, topology' = topology \cup {step[p]},
                        step' = [step EXCEPT ![p] = @ + 1], UNCHANGED <<pc, faults>>
                 PROVE  TypeOK'
      OBVIOUS
    <3>1. step' \in [Replicas -> 1 .. 7]
      BY DEF Topology
    <3>2. topology' \subseteq Topology
      OBVIOUS
    <3>3. UNCHANGED <<key, run, schema, recorded>>
      BY <1>6 DEF Up
    <3> QED
      BY <3>1, <3>2, <3>3
  <2>2. UNCHANGED <<step, topology>> => TypeOK'
    BY <1>6 DEF Up
  <2> QED
    BY <1>6, <2>1, <2>2 DEF Up
<1>7. ASSUME NEW p \in Replicas, Record(p) PROVE TypeOK'
  <2>1. recorded' \in BOOLEAN
    BY <1>7, Zenon DEF Record
  <2>2. /\ pc' = [pc EXCEPT ![p] = "release_rabbit"]
        /\ errors' = errors \/ errors' = errors + 1
        /\ UNCHANGED <<key, step, run, schema, topology, crashes, early>>
    BY <1>7, Zenon DEF Record
  <2> QED
    BY <2>1, <2>2
<1>8. ASSUME NEW p \in Replicas, ReleaseRabbit(p) PROVE TypeOK'
  BY <1>8 DEF ReleaseRabbit, Release
<1>9. ASSUME NEW p \in Replicas, Restart(p) PROVE TypeOK'
  BY <1>9 DEF Restart
<1>10. ASSUME NEW p \in Replicas, Crash(p) PROVE TypeOK'
  BY <1>10 DEF Crash
<1>11. ASSUME NEW p \in Replicas, NEW s \in Runs, Tick(p, s) PROVE TypeOK'
  BY <1>11 DEF Tick, Obtain, Goroutines
<1>12. ASSUME NEW p \in Replicas, NEW s \in Runs, JobEnds(p, s) PROVE TypeOK'
  BY <1>12 DEF JobEnds, Release, Goroutines
<1>13. ASSUME NEW l \in Names, Expire(l) PROVE TypeOK'
  BY <1>13 DEF Expire
<1>14. CASE UNCHANGED vars
  BY <1>14 DEF vars
<1> QED
  BY <1>1, <1>2, <1>3, <1>4, <1>5, <1>6, <1>7, <1>8, <1>9, <1>10, <1>11, <1>12, <1>13, <1>14
  DEF Next, Main

(* The other parts change only with pc, run, key and the counters. *)
LEMMA HeldStep == TypeOK /\ LocksHeld /\ [Next]_vars => LocksHeld'
<1> SUFFICES ASSUME TypeOK, LocksHeld, [Next]_vars PROVE LocksHeld'
  OBVIOUS
<1> USE NoneAssumption DEF TypeOK, LocksHeld, Goto, Error, Names, stores, faults
<1>1. ASSUME NEW p \in Replicas, Migrate(p) PROVE LocksHeld'
  BY <1>1 DEF Migrate, Obtain, NotObtained
<1>2. ASSUME NEW p \in Replicas, GooseUp(p) PROVE LocksHeld'
  BY <1>2 DEF GooseUp, Fatal
<1>3. ASSUME NEW p \in Replicas, ReleaseGoose(p) PROVE LocksHeld'
  BY <1>3 DEF ReleaseGoose, Release
<1>4. ASSUME NEW p \in Replicas, MigrateRabbitMq(p) PROVE LocksHeld'
  BY <1>4 DEF MigrateRabbitMq, Obtain, NotObtained
<1>5. ASSUME NEW p \in Replicas, ApplyCustom(p) PROVE LocksHeld'
  BY <1>5 DEF ApplyCustom, Fatal
<1>6. ASSUME NEW p \in Replicas, Up(p) PROVE LocksHeld'
  BY <1>6 DEF Up
<1>7. ASSUME NEW p \in Replicas, Record(p) PROVE LocksHeld'
  BY <1>7 DEF Record
<1>8. ASSUME NEW p \in Replicas, ReleaseRabbit(p) PROVE LocksHeld'
  BY <1>8 DEF ReleaseRabbit, Release
<1>9. ASSUME NEW p \in Replicas, Restart(p) PROVE LocksHeld'
  BY <1>9 DEF Restart
<1>10. ASSUME NEW p \in Replicas, Crash(p) PROVE LocksHeld'
  BY <1>10 DEF Crash
<1>11. ASSUME NEW p \in Replicas, NEW s \in Runs, Tick(p, s) PROVE LocksHeld'
  <2>1. <<p, s>> \in Goroutines
    BY DEF Goroutines
  <2> QED
    BY <1>11, <2>1 DEF Tick, Obtain, Goroutines
<1>12. ASSUME NEW p \in Replicas, NEW s \in Runs, JobEnds(p, s) PROVE LocksHeld'
  <2>1. <<p, s>> \in Goroutines
    BY DEF Goroutines
  <2> QED
    BY <1>12, <2>1 DEF JobEnds, Release
<1>13. ASSUME NEW l \in Names, Expire(l) PROVE LocksHeld'
  <2>1. CASE l = "goose"
    BY <1>13, <2>1 DEF Expire, Working
  <2>2. CASE l = "rabbit"
    BY <1>13, <2>2 DEF Expire, Working
  <2>3. CASE l = "cron"
    BY <1>13, <2>3 DEF Expire, Working
  <2> QED
    BY <2>1, <2>2, <2>3
<1>14. CASE UNCHANGED vars
  BY <1>14 DEF vars
<1> QED
  BY <1>1, <1>2, <1>3, <1>4, <1>5, <1>6, <1>7, <1>8, <1>9, <1>10, <1>11, <1>12, <1>13, <1>14
  DEF Next, Main

LEMMA BareStep == TypeOK /\ BareIsError /\ [Next]_vars => BareIsError'
<1> SUFFICES ASSUME TypeOK, BareIsError, [Next]_vars PROVE BareIsError'
  OBVIOUS
<1> USE DEF TypeOK, BareIsError, Error, stores, faults
<1>1. ASSUME NEW p \in Replicas, Main(p) PROVE BareIsError'
  <2>1. UNCHANGED run /\ (errors' = errors \/ errors' = errors + 1)
    BY <1>1, Zenon DEF Main, Migrate, GooseUp, ReleaseGoose, MigrateRabbitMq, ApplyCustom, Up, Record,
                       ReleaseRabbit, Restart, Release, Fatal
  <2> QED
    BY <2>1
<1>2. ASSUME NEW p \in Replicas, Crash(p) PROVE BareIsError'
  BY <1>2 DEF Crash
<1>3. ASSUME NEW p \in Replicas, NEW s \in Runs, Tick(p, s) PROVE BareIsError'
  BY <1>3 DEF Tick, Obtain, Goroutines
<1>4. ASSUME NEW p \in Replicas, NEW s \in Runs, JobEnds(p, s) PROVE BareIsError'
  BY <1>4 DEF JobEnds, Release, Goroutines
<1>5. ASSUME NEW l \in Names, Expire(l) PROVE BareIsError'
  BY <1>5 DEF Expire
<1>6. CASE UNCHANGED vars
  BY <1>6 DEF vars
<1> QED
  BY <1>1, <1>2, <1>3, <1>4, <1>5, <1>6 DEF Next

LEMMA ProgressStep == TypeOK /\ Progress /\ [Next]_vars => Progress'
<1> SUFFICES ASSUME TypeOK, Progress, [Next]_vars PROVE Progress'
  OBVIOUS
<1> USE DEF TypeOK, Progress, Goto, Error, stores, faults
<1>1. ASSUME NEW p \in Replicas, Migrate(p) PROVE Progress'
  BY <1>1 DEF Migrate
<1>2. ASSUME NEW p \in Replicas, GooseUp(p) PROVE Progress'
  <2>1. /\ pc' = [pc EXCEPT ![p] = "release_goose"] \/ pc' = [pc EXCEPT ![p] = "down"]
        /\ errors' = errors \/ errors' = errors + 1
        /\ UNCHANGED <<step, topology, recorded>>
    BY <1>2, Zenon DEF GooseUp
  <2> QED
    BY <2>1
<1>3. ASSUME NEW p \in Replicas, ReleaseGoose(p) PROVE Progress'
  BY <1>3 DEF ReleaseGoose, Release
<1>4. ASSUME NEW p \in Replicas, MigrateRabbitMq(p) PROVE Progress'
  BY <1>4 DEF MigrateRabbitMq
<1>5. ASSUME NEW p \in Replicas, ApplyCustom(p) PROVE Progress'
  BY <1>5 DEF ApplyCustom, Fatal
<1>6. ASSUME NEW p \in Replicas, Up(p) PROVE Progress'
  <2>1. CASE step[p] \in Topology /\ UNCHANGED pc
    <3>1. /\ topology' = topology \cup {step[p]} /\ step' = [step EXCEPT ![p] = @ + 1]
          /\ UNCHANGED <<recorded, errors>>
      BY <1>6, <2>1 DEF Up
    <3>2. errors = 0 /\ recorded' => topology' = Topology
      BY <3>1, <2>1
    <3>3. errors = 0 => \A q \in Replicas : pc[q] = "record" => topology' = Topology
      BY <3>1, <2>1
    <3>4. errors = 0 => \A q \in Replicas : pc[q] = "up" => 1 .. step'[q] - 1 \subseteq topology'
      BY <3>1, <2>1
    <3> QED
      BY <3>1, <3>2, <3>3, <3>4, <2>1
  <2>2. CASE UNCHANGED <<step, topology>> /\ step[p] \notin Topology /\ Goto(p, "record")
    <3>1. errors = 0 => topology = Topology
      <4>1. pc[p] = "up" /\ step[p] = 7
        BY <1>6, <2>2 DEF Up, Topology
      <4>2. errors = 0 => 1 .. 6 \subseteq topology
        BY <4>1
      <4> QED
        BY <4>2 DEF Topology
    <3> QED
      BY <1>6, <2>2, <3>1 DEF Up
  <2>3. CASE Error
    BY <1>6, <2>3
  <2> QED
    BY <1>6, <2>1, <2>2, <2>3 DEF Up
<1>7. ASSUME NEW p \in Replicas, Record(p) PROVE Progress'
  BY <1>7 DEF Record
<1>8. ASSUME NEW p \in Replicas, ReleaseRabbit(p) PROVE Progress'
  BY <1>8 DEF ReleaseRabbit, Release
<1>9. ASSUME NEW p \in Replicas, Restart(p) \/ Crash(p) PROVE Progress'
  BY <1>9 DEF Restart, Crash
<1>10. ASSUME NEW p \in Replicas, NEW s \in Runs, Tick(p, s) \/ JobEnds(p, s) PROVE Progress'
  BY <1>10 DEF Tick, JobEnds, Release
<1>11. ASSUME NEW l \in Names, Expire(l) PROVE Progress'
  BY <1>11 DEF Expire
<1>12. CASE UNCHANGED vars
  BY <1>12 DEF vars
<1> QED
  BY <1>1, <1>2, <1>3, <1>4, <1>5, <1>6, <1>7, <1>8, <1>9, <1>10, <1>11, <1>12 DEF Next, Main

LEMMA Invariant == Spec => []IInv
<1>1. IInv /\ [Next]_vars => IInv'
  BY TypeStep, HeldStep, BareStep, ProgressStep DEF IInv
<1> QED
  BY InitIInv, <1>1, PTL DEF Spec

-----------------------------------------------------------------------------
(* Locks, records and counters of LockedJobs keep their types. *)
THEOREM JobsTypeCorrect == Spec => []TypeOK
  BY Invariant, PTL DEF IInv

(* However many replicas start, crash and start again, two are in one        *)
(* migration only after a lock ran out under its owner.                      *)
THEOREM MigrationsAlone == Spec => []OneMigrates
<1>1. IInv => OneMigrates
  BY DEF IInv, LocksHeld, OneMigrates, Working
<1> QED
  BY Invariant, <1>1, PTL

(* Two runs of the job overlap only after a lock ran out or a call failed. *)
THEOREM JobsAlone == Spec => []OneJob
<1>1. IInv => OneJob
  BY DEF IInv, TypeOK, LocksHeld, BareIsError, OneJob
<1> QED
  BY Invariant, <1>1, PTL

(* Crashes and early expiries alone never leave a recorded migration that    *)
(* was not carried out to its end.                                           *)
THEOREM RecordSound == Spec => []RecordedIsApplied
<1>1. IInv => RecordedIsApplied
  BY DEF IInv, Progress, RecordedIsApplied
<1> QED
  BY Invariant, <1>1, PTL
=============================================================================
