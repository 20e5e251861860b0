------------------------------ MODULE Election ------------------------------
(***************************************************************************)
(* DoElection of pkg/etdc_load_balancer.go in several instances of         *)
(* cmd/etcd_balancer: each campaigns on its etcd session, leads until the  *)
(* session ends, resigns and campaigns again.  A candidate's key hangs on  *)
(* the lease of its session; who put its key first leads, the others wait  *)
(* until the keys put before theirs are gone.  main stops an instance by   *)
(* the stop function of DoElection, then StopSession.                      *)
(***************************************************************************)
EXTENDS Integers

CONSTANTS
    Instances,      \* the processes
    MaxErrors       \* bound on failed calls to etcd, all instances together

ASSUME MaxErrorsAssumption == MaxErrors \in Nat

VARIABLES
    pc,         \* instance |-> where the goroutine of DoElection is
    session,    \* instance |-> CreateSession gave a session (its error is dropped)
    lease,      \* instance |-> etcd knows the session's lease
    done,       \* instance |-> session.Done() is closed
    keys,       \* the instances whose key is in etcd
    ahead,      \* instance |-> keys that were there before its own
    held,       \* instance |-> Election.leaderSession is set
    leads,      \* instance |-> Campaign returned nil and Done was not received since
    father,     \* instance |-> the root context is cancelled
    stage,      \* instance |-> where Stop is: "run", "stopped", "closing", "closed"
    errs        \* failed calls so far

etcd == <<lease, keys, ahead>>
local == <<pc, held, leads>>
process == <<session, done, father, stage>>
vars == <<etcd, local, process, errs>>

Init == /\ pc = [i \in Instances |-> "select"]
        /\ session \in [Instances -> BOOLEAN]
        /\ lease = session
        /\ done = [i \in Instances |-> FALSE]
        /\ keys = {}
        /\ ahead = [i \in Instances |-> {}]
        /\ held = [i \in Instances |-> FALSE]
        /\ leads = [i \in Instances |-> FALSE]
        /\ father = [i \in Instances |-> FALSE]
        /\ stage = [i \in Instances |-> "run"]
        /\ errs = 0

Goto(i, l) == pc' = [pc EXCEPT ![i] = l]
CallFails == errs < MaxErrors /\ errs' = errs + 1

----------------------------------------------------------------------------
(* etcd and the election of its client library. *)

Delete(i) == /\ keys' = keys \ {i}
             /\ ahead' = [j \in Instances |-> ahead[j] \ {i}]

(* The key is put unless it is there already, where it keeps its age. *)
Put(i) == /\ keys' = keys \cup {i}
          /\ ahead' = IF i \in keys THEN ahead ELSE [ahead EXCEPT ![i] = keys]

LeaseExpires(i) ==
    /\ lease[i]
    /\ lease' = [lease EXCEPT ![i] = FALSE]
    /\ Delete(i)
    /\ UNCHANGED <<local, process, errs>>

(* The keep-alive channel closes: the lease is gone, or the client gave up. *)
KeepAliveEnds(i) ==
    /\ session[i] /\ ~done[i]
    /\ \/ ~lease[i] /\ UNCHANGED errs
       \/ lease[i] /\ CallFails
    /\ done' = [done EXCEPT ![i] = TRUE]
    /\ UNCHANGED <<etcd, local, session, father, stage>>

(* Resign forgets the session whether or not the key could be deleted. *)
Resign(i) ==
    /\ held' = [held EXCEPT ![i] = FALSE]
    /\ \/ held[i] /\ ~father[i] /\ i \in keys /\ Delete(i) /\ UNCHANGED errs
       \/ (~held[i] \/ father[i] \/ i \notin keys) /\ UNCHANGED <<keys, ahead, errs>>
       \/ held[i] /\ ~father[i] /\ CallFails /\ UNCHANGED <<keys, ahead>>

----------------------------------------------------------------------------
(* DoElection *)

(* Mistake: the end of the session is awaited before the campaign too. *)
LoopAwaitsFirst(i) ==
    /\ pc[i] = "select"
    /\ Goto(i, IF stage[i] # "run" THEN "resign" ELSE IF done[i] THEN "campaign" ELSE "await")
    /\ UNCHANGED <<etcd, held, leads, process, errs>>

(* Mistake: the loop does not look at stopElection. *)
LoopIgnoresStop(i) ==
    /\ pc[i] = "select"
    /\ Goto(i, "campaign")
    /\ UNCHANGED <<etcd, held, leads, process, errs>>

(* The head of the loop: stopElection is looked at here and nowhere else. *)
Loop(i) ==
    /\ pc[i] = "select"
    /\ Goto(i, IF stage[i] # "run" THEN "resign" ELSE "campaign")
    /\ UNCHANGED <<etcd, held, leads, process, errs>>

(* Campaign on a nil session: the panic is recovered, the goroutine ends. *)
CampaignPanics(i) ==
    /\ pc[i] = "campaign" /\ ~session[i]
    /\ Goto(i, "ended")
    /\ UNCHANGED <<etcd, held, leads, process, errs>>

CampaignPuts(i) ==
    /\ pc[i] = "campaign" /\ lease[i] /\ ~father[i]
    /\ Put(i)
    /\ held' = [held EXCEPT ![i] = TRUE]
    /\ Goto(i, "waiting")
    /\ UNCHANGED <<lease, leads, process, errs>>

(* An error is logged, and the session's end is waited for all the same.     *)
(* etcd may have put the key although the call failed or was cancelled.      *)
CampaignRefused(i) ==
    /\ pc[i] = "campaign" /\ session[i]
    /\ \/ (~lease[i] \/ father[i]) /\ UNCHANGED <<keys, ahead, errs>>
       \/ CallFails /\ UNCHANGED <<keys, ahead>>
       \/ CallFails /\ lease[i] /\ Put(i)
    /\ Goto(i, "await")
    /\ UNCHANGED <<lease, held, leads, process>>

CampaignWins(i) ==
    /\ pc[i] = "waiting" /\ ahead[i] = {}
    /\ leads' = [leads EXCEPT ![i] = TRUE]
    /\ Goto(i, "await")
    /\ UNCHANGED <<etcd, held, process, errs>>

(* The wait ends with an error: the key is deleted if the context ended it, *)
(* and stays if the watch failed.                                           *)
CampaignFails(i) ==
    /\ pc[i] = "waiting"
    /\ \/ father[i] /\ Delete(i) /\ UNCHANGED errs
       \/ CallFails /\ UNCHANGED <<keys, ahead>>
    /\ held' = [held EXCEPT ![i] = FALSE]
    /\ Goto(i, "await")
    /\ UNCHANGED <<lease, leads, process>>

(* Mistake: the leadership is given up before the session's end is awaited. *)
AwaitAfterResign(i) ==
    /\ pc[i] = "await"
    /\ \/ held[i] /\ Resign(i) /\ UNCHANGED <<pc, leads>>
       \/ /\ ~held[i] /\ done[i]
          /\ leads' = [leads EXCEPT ![i] = FALSE]
          /\ Goto(i, "select")
          /\ UNCHANGED <<held, keys, ahead, errs>>
    /\ UNCHANGED <<lease, process>>

(* Mistake: Done() is called and not received from. *)
AwaitNothing(i) ==
    /\ pc[i] = "await"
    /\ leads' = [leads EXCEPT ![i] = FALSE]
    /\ Resign(i)
    /\ Goto(i, "select")
    /\ UNCHANGED <<lease, process>>

(* <-session.Done(), then Resign, and the loop starts again. *)
Await(i) ==
    /\ pc[i] = "await" /\ done[i]
    /\ leads' = [leads EXCEPT ![i] = FALSE]
    /\ Resign(i)
    /\ Goto(i, "select")
    /\ UNCHANGED <<lease, process>>

ResignOnStop(i) ==
    /\ pc[i] = "resign"
    /\ Resign(i)
    /\ Goto(i, "ended")
    /\ UNCHANGED <<lease, leads, process>>

----------------------------------------------------------------------------
(* main: the signal, then the shutdown functions of priorities 97 and 98. *)

Cancel(i) ==
    /\ ~father[i]
    /\ father' = [father EXCEPT ![i] = TRUE]
    /\ UNCHANGED <<etcd, local, session, done, stage, errs>>

StopElection(i) ==
    /\ father[i] /\ stage[i] = "run"
    /\ stage' = [stage EXCEPT ![i] = "stopped"]
    /\ UNCHANGED <<etcd, local, session, done, father, errs>>

(* Session.Close ends the keep-alive, *)
StopSession(i) ==
    /\ stage[i] = "stopped"
    /\ stage' = [stage EXCEPT ![i] = "closing"]
    /\ done' = [done EXCEPT ![i] = @ \/ session[i]]
    /\ UNCHANGED <<etcd, local, session, father, errs>>

(* then revokes the lease; a failed Revoke leaves it to its time limit. *)
Revoke(i) ==
    /\ stage[i] = "closing"
    /\ stage' = [stage EXCEPT ![i] = "closed"]
    /\ \/ lease' = [lease EXCEPT ![i] = FALSE] /\ Delete(i) /\ UNCHANGED errs
       \/ CallFails /\ UNCHANGED etcd
    /\ UNCHANGED <<local, session, done, father>>

----------------------------------------------------------------------------
Goroutine(i) == \/ Loop(i) \/ CampaignPanics(i) \/ CampaignPuts(i) \/ CampaignRefused(i)
                \/ CampaignWins(i) \/ CampaignFails(i) \/ Await(i) \/ ResignOnStop(i)

Shutdown(i) == StopElection(i) \/ StopSession(i) \/ Revoke(i)

Next == \E i \in Instances :
            \/ Goroutine(i) \/ Shutdown(i) \/ Cancel(i)
            \/ LeaseExpires(i) \/ KeepAliveEnds(i)

Spec == Init /\ [][Next]_vars

(* The goroutine and main go on; a campaign that can be won is won and one  *)
(* whose context is cancelled returns; a lease whose keep-alive has ended   *)
(* runs out, and a client notices that its lease is gone.                   *)
FairSpec ==
    /\ Spec
    /\ \A i \in Instances :
         /\ WF_vars(\/ Loop(i) \/ CampaignPanics(i) \/ CampaignPuts(i) \/ CampaignRefused(i)
                    \/ CampaignWins(i) \/ (father[i] /\ CampaignFails(i))
                    \/ Await(i) \/ ResignOnStop(i))
         /\ WF_vars(Shutdown(i))
         /\ WF_vars(done[i] /\ LeaseExpires(i))
         /\ WF_vars(~lease[i] /\ KeepAliveEnds(i))

----------------------------------------------------------------------------
(* The variables keep their types. *)
TypeOK ==
    /\ pc \in [Instances -> {"select", "campaign", "waiting", "await", "resign", "ended"}]
    /\ session \in [Instances -> BOOLEAN] /\ lease \in [Instances -> BOOLEAN]
    /\ done \in [Instances -> BOOLEAN] /\ father \in [Instances -> BOOLEAN]
    /\ held \in [Instances -> BOOLEAN] /\ leads \in [Instances -> BOOLEAN]
    /\ keys \subseteq Instances /\ ahead \in [Instances -> SUBSET Instances]
    /\ stage \in [Instances -> {"run", "stopped", "closing", "closed"}]
    /\ errs \in Nat

(* Two instances take themselves for the leader only while the lease of one *)
(* of them has run out and its client has not noticed.                      *)
OneLeader ==
    \A i, j \in Instances : leads[i] /\ leads[j] /\ lease[i] /\ lease[j] => i = j

(* A key in etcd, which keeps the candidates behind it waiting, belongs to  *)
(* an instance that waits or leads, unless a call to etcd failed or its     *)
(* session is ending: DoElection waits for the session's end after a failed *)
(* Campaign as well, so a key left behind would block the election.         *)
NoGhost ==
    errs = 0 =>
      \A i \in keys : pc[i] = "waiting" \/ leads[i] \/ done[i]

Candidate(i) == session[i] /\ lease[i] /\ ~done[i] /\ ~father[i]

(* While some instance has a live session and is not stopped, somebody      *)
(* comes to lead, unless a call to etcd failed.  An instance that has lost   *)
(* its session campaigns on, but never becomes a candidate again.           *)
SomeoneLeads ==
    (\E i \in Instances : Candidate(i))
      ~> (errs > 0 \/ (\E i \in Instances : leads[i]) \/ ~\E i \in Instances : Candidate(i))

(* A stopped instance leaves: its goroutine, which reads stopElection only  *)
(* between two campaigns, ends because the session is closed next, and its  *)
(* key is gone although Resign fails under the cancelled context.           *)
ElectionStops ==
    \A i \in Instances : father[i] ~> (pc[i] = "ended" /\ ~leads[i] /\ i \notin keys)
=============================================================================
