-------------------------- MODULE Election_proofs ---------------------------
(***************************************************************************)
(* The safety properties of Election for any number of instances and of    *)
(* failed calls.  OneLeader needs the age of the keys (Queue: of two keys  *)
(* one was there before the other) and that a leader whose lease lives has *)
(* the oldest of them (Led).                                               *)
(***************************************************************************)
EXTENDS Election, TLAPS

(* Of two keys in etcd one was put before the other. *)
Queue == \A i, j \in keys : i = j \/ i \in ahead[j] \/ j \in ahead[i]

(* A candidate that waits has its key, one that leads the oldest key, as    *)
(* long as their leases live; leading ends before the next campaign.        *)
Led == \A i \in Instances :
         /\ pc[i] = "waiting" /\ lease[i] => i \in keys
         /\ leads[i] => pc[i] = "await"
         /\ leads[i] /\ lease[i] => i \in keys /\ ahead[i] = {}

IInv == TypeOK /\ Queue /\ Led /\ NoGhost

-----------------------------------------------------------------------------
LEMMA InitIInv == Init => IInv
<1> SUFFICES ASSUME Init PROVE IInv
  OBVIOUS
<1>1. /\ done \in [Instances -> BOOLEAN] /\ father \in [Instances -> BOOLEAN]
      /\ held \in [Instances -> BOOLEAN] /\ leads \in [Instances -> BOOLEAN]
      /\ \A i \in Instances : ~leads[i]
  BY Zenon DEF Init
<1>2. TypeOK
  BY <1>1 DEF Init, TypeOK
<1> QED
  BY <1>1, <1>2 DEF Init, IInv, Queue, Led, NoGhost

(* Every step keeps the types. *)
LEMMA TypeStep == TypeOK /\ [Next]_vars => TypeOK'
<1> SUFFICES ASSUME TypeOK, [Next]_vars PROVE TypeOK'
  OBVIOUS
<1> USE DEF TypeOK, Goto, CallFails, etcd, local, process
<1>1. ASSUME NEW i \in Instances, Loop(i) PROVE TypeOK'
  BY <1>1 DEF Loop
<1>2. ASSUME NEW i \in Instances, CampaignPanics(i) PROVE TypeOK'
  BY <1>2 DEF CampaignPanics
<1>3. ASSUME NEW i \in Instances, CampaignPuts(i) PROVE TypeOK'
  BY <1>3 DEF CampaignPuts, Put
<1>4. ASSUME NEW i \in Instances, CampaignRefused(i) PROVE TypeOK'
  BY <1>4 DEF CampaignRefused, Put
<1>5. ASSUME NEW i \in Instances, CampaignWins(i) PROVE TypeOK'
  BY <1>5 DEF CampaignWins
<1>6. ASSUME NEW i \in Instances, CampaignFails(i) PROVE TypeOK'
  BY <1>6 DEF CampaignFails, Delete
<1>7. ASSUME NEW i \in Instances, Await(i) PROVE TypeOK'
  BY <1>7 DEF Await, Resign, Delete
<1>8. ASSUME NEW i \in Instances, ResignOnStop(i) PROVE TypeOK'
  BY <1>8 DEF ResignOnStop, Resign, Delete
<1>9. ASSUME NEW i \in Instances, Cancel(i) PROVE TypeOK'
  BY <1>9 DEF Cancel
<1>10. ASSUME NEW i \in Instances, StopElection(i) PROVE TypeOK'
  BY <1>10 DEF StopElection
<1>11. ASSUME NEW i \in Instances, StopSession(i) PROVE TypeOK'
  <2>1. (done[i] \/ session[i]) \in BOOLEAN
    BY Zenon
  <2>2. done' = [done EXCEPT ![i] = done[i] \/ session[i]]
    BY <1>11, Zenon DEF StopSession
  <2>3. done' \in [Instances -> BOOLEAN]
    BY <2>1, <2>2
  <2> QED
    BY <1>11, <2>3 DEF StopSession
<1>12. ASSUME NEW i \in Instances, Revoke(i) PROVE TypeOK'
  <2>1. stage' \in [Instances -> {"run", "stopped", "closing", "closed"}]
    BY <1>12 DEF Revoke
  <2>2. CASE lease' = [lease EXCEPT ![i] = FALSE] /\ Delete(i) /\ UNCHANGED errs
    BY <1>12, <2>1, <2>2 DEF Revoke, Delete
  <2>3. CASE CallFails /\ UNCHANGED etcd
    BY <1>12, <2>1, <2>3 DEF Revoke
  <2> QED
    BY <1>12, <2>2, <2>3 DEF Revoke
<1>13. ASSUME NEW i \in Instances, LeaseExpires(i) PROVE TypeOK'
  BY <1>13 DEF LeaseExpires, Delete
<1>14. ASSUME NEW i \in Instances, KeepAliveEnds(i) PROVE TypeOK'
  BY <1>14 DEF KeepAliveEnds
<1>15. CASE UNCHANGED vars
  BY <1>15 DEF vars
<1> QED
  BY <1>1, <1>2, <1>3, <1>4, <1>5, <1>6, <1>7, <1>8, <1>9, <1>10, <1>11, <1>12, <1>13, <1>14,
     <1>15 DEF Next, Goroutine, Shutdown

(* A deleted key leaves the order of the others. *)
LEMMA DeleteQueue ==
    ASSUME NEW i \in Instances, TypeOK, Queue, Delete(i)
    PROVE  Queue'
  BY DEF TypeOK, Queue, Delete

(* A step moves the keys by a deletion, by one new key or not at all. *)
LEMMA QueueStep == TypeOK /\ Queue /\ [Next]_vars => Queue'
<1> SUFFICES ASSUME TypeOK, Queue, [Next]_vars PROVE Queue'
  OBVIOUS
<1>1. ASSUME NEW i \in Instances, Put(i) PROVE Queue'
  BY <1>1 DEF Put, Queue, TypeOK
<1>2. ASSUME UNCHANGED <<keys, ahead>> PROVE Queue'
  BY <1>2 DEF Queue
<1>3. ASSUME NEW i \in Instances, CampaignPuts(i) \/ CampaignRefused(i) PROVE Queue'
  BY <1>1, <1>2, <1>3 DEF CampaignPuts, CampaignRefused
<1>4. ASSUME NEW i \in Instances, Await(i) \/ ResignOnStop(i) PROVE Queue'
  BY <1>2, <1>4, DeleteQueue DEF Await, ResignOnStop, Resign
<1>5. ASSUME NEW i \in Instances, CampaignFails(i) PROVE Queue'
  BY <1>2, <1>5, DeleteQueue DEF CampaignFails
<1>6. ASSUME NEW i \in Instances, Revoke(i) \/ LeaseExpires(i) PROVE Queue'
  BY <1>2, <1>6, DeleteQueue DEF Revoke, LeaseExpires, etcd
<1>7. ASSUME NEW i \in Instances,
             \/ Loop(i) \/ CampaignPanics(i) \/ CampaignWins(i)
             \/ Cancel(i) \/ StopElection(i) \/ StopSession(i) \/ KeepAliveEnds(i)
      PROVE  Queue'
  BY <1>2, <1>7 DEF Loop, CampaignPanics, CampaignWins, Cancel, StopElection, StopSession,
                    KeepAliveEnds, etcd
<1>8. CASE UNCHANGED vars
  BY <1>2, <1>8 DEF vars, etcd
<1> QED
  BY <1>3, <1>4, <1>5, <1>6, <1>7, <1>8 DEF Next, Goroutine, Shutdown

(* Who leads, and on what key. *)
LEMMA LedStep == TypeOK /\ Led /\ [Next]_vars => Led'
<1> SUFFICES ASSUME TypeOK, Led, [Next]_vars PROVE Led'
  OBVIOUS
<1> USE DEF TypeOK, Led, Goto, etcd, local, process
<1>1. ASSUME NEW i \in Instances, Loop(i) PROVE Led'
  BY <1>1 DEF Loop
<1>2. ASSUME NEW i \in Instances, CampaignPanics(i) PROVE Led'
  BY <1>2 DEF CampaignPanics
<1>3. ASSUME NEW i \in Instances, CampaignPuts(i) PROVE Led'
  BY <1>3 DEF CampaignPuts, Put
<1>4. ASSUME NEW i \in Instances, CampaignRefused(i) PROVE Led'
  BY <1>4 DEF CampaignRefused, Put
<1>5. ASSUME NEW i \in Instances, CampaignWins(i) PROVE Led'
  BY <1>5 DEF CampaignWins
<1>6. ASSUME NEW i \in Instances, CampaignFails(i) PROVE Led'
  BY <1>6 DEF CampaignFails, Delete
<1>7. ASSUME NEW i \in Instances, Await(i) PROVE Led'
  BY <1>7 DEF Await, Resign, Delete
<1>8. ASSUME NEW i \in Instances, ResignOnStop(i) PROVE Led'
  BY <1>8 DEF ResignOnStop, Resign, Delete
<1>9. ASSUME NEW i \in Instances,
             Cancel(i) \/ StopElection(i) \/ StopSession(i) \/ KeepAliveEnds(i)
      PROVE  Led'
  BY <1>9 DEF Cancel, StopElection, StopSession, KeepAliveEnds
<1>10. ASSUME NEW i \in Instances, Revoke(i) PROVE Led'
  BY <1>10 DEF Revoke, Delete
<1>11. ASSUME NEW i \in Instances, LeaseExpires(i) PROVE Led'
  BY <1>11 DEF LeaseExpires, Delete
<1>12. CASE UNCHANGED vars
  BY <1>12 DEF vars
<1> QED
  BY <1>1, <1>2, <1>3, <1>4, <1>5, <1>6, <1>7, <1>8, <1>9, <1>10, <1>11, <1>12
  DEF Next, Goroutine, Shutdown

(* A key is left behind only by a failed call or a session that ends. *)
LEMMA GhostStep == TypeOK /\ Led /\ NoGhost /\ [Next]_vars => NoGhost'
<1> SUFFICES ASSUME TypeOK, Led, NoGhost, [Next]_vars PROVE NoGhost'
  OBVIOUS
<1> USE DEF TypeOK, NoGhost, Goto, CallFails, etcd, local, process
<1>1. ASSUME NEW i \in Instances, Loop(i) PROVE NoGhost'
  BY <1>1 DEF Loop
<1>2. ASSUME NEW i \in Instances, CampaignPanics(i) PROVE NoGhost'
  BY <1>2 DEF CampaignPanics
<1>3. ASSUME NEW i \in Instances, CampaignPuts(i) PROVE NoGhost'
  BY <1>3 DEF CampaignPuts, Put
<1>4. ASSUME NEW i \in Instances, CampaignRefused(i) PROVE NoGhost'
  BY <1>4 DEF CampaignRefused, Put
<1>5. ASSUME NEW i \in Instances, CampaignWins(i) PROVE NoGhost'
  BY <1>5 DEF CampaignWins
<1>6. ASSUME NEW i \in Instances, CampaignFails(i) PROVE NoGhost'
  BY <1>6 DEF CampaignFails, Delete
<1>7. ASSUME NEW i \in Instances, Await(i) PROVE NoGhost'
  BY <1>7 DEF Await, Resign, Delete
<1>8. ASSUME NEW i \in Instances, ResignOnStop(i) PROVE NoGhost'
  BY <1>8 DEF ResignOnStop, Resign, Delete
<1>9. ASSUME NEW i \in Instances, Cancel(i) \/ StopElection(i) PROVE NoGhost'
  BY <1>9 DEF Cancel, StopElection
<1>10. ASSUME NEW i \in Instances, StopSession(i) \/ KeepAliveEnds(i) PROVE NoGhost'
  BY <1>10 DEF StopSession, KeepAliveEnds
<1>11. ASSUME NEW i \in Instances, Revoke(i) PROVE NoGhost'
  BY <1>11 DEF Revoke, Delete
<1>12. ASSUME NEW i \in Instances, LeaseExpires(i) PROVE NoGhost'
  BY <1>12 DEF LeaseExpires, Delete
<1>13. CASE UNCHANGED vars
  BY <1>13 DEF vars
<1> QED
  BY <1>1, <1>2, <1>3, <1>4, <1>5, <1>6, <1>7, <1>8, <1>9, <1>10, <1>11, <1>12, <1>13
  DEF Next, Goroutine, Shutdown

LEMMA Invariant == Spec => []IInv
<1>1. IInv /\ [Next]_vars => IInv'
  BY TypeStep, QueueStep, LedStep, GhostStep DEF IInv
<1> QED
  BY InitIInv, <1>1, PTL DEF Spec

-----------------------------------------------------------------------------
(* The variables of Election keep their types. *)
THEOREM ElectionTypeCorrect == Spec => []TypeOK
  BY Invariant, PTL DEF IInv

(* Two instances that both take themselves for the leader do not both have   *)
(* a lease, whatever calls failed and however often sessions ended.          *)
THEOREM LeaderIsUnique == Spec => []OneLeader
<1>1. IInv => OneLeader
  BY DEF IInv, TypeOK, Queue, Led, OneLeader
<1> QED
  BY Invariant, <1>1, PTL

(* Without a failed call no key is left behind in etcd by an instance that   *)
(* neither waits nor leads nor is at the end of its session.                 *)
THEOREM NoGhostKeys == Spec => []NoGhost
  BY Invariant, PTL DEF IInv
=============================================================================
