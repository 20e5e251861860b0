-------------------------- MODULE EtcdRegistration --------------------------
(***************************************************************************)
(* pkg/etcd.go: the goroutine of Register keeps the service's key in etcd, *)
(* bound to a lease that a keep-alive stream renews; Close is the shutdown *)
(* function that main registers.  etcd is external: it grants leases,      *)
(* binds the key to the lease of the last Put, and drops a lease, and the  *)
(* key bound to it, when it is not renewed or is revoked.  An error may    *)
(* hide a request that etcd carried out.                                   *)
(***************************************************************************)
EXTENDS Integers

CONSTANTS
    Leases,                \* the leases restart may be granted, used again once expired
    First,                 \* the lease NewEtcdClientService is granted
    None,                  \* no lease
    MaxReconnectAttempts   \* maxReconnectAttempts, 5 in the code

ASSUME FirstIsApart == First \notin Leases /\ None \notin Leases \cup {First}
ASSUME AttemptsArePositive == MaxReconnectAttempts \in Nat \ {0}

VARIABLES
    pc,        \* the goroutine of Register
    attempts,  \* reconnectAttempts of the current restart
    lease,     \* the lease of the current attempt, which newService holds
    cpc,       \* the goroutine that runs Close
    open,      \* etcd clients that were made and not closed
    father,    \* the root context is cancelled
    live,      \* etcd: the leases that have not expired
    keyLease,  \* etcd: the lease the service's key is bound to, None if there is no key
    kept       \* the lease a keep-alive stream renews, None when the stream is closed

etcd == <<live, keyLease>>
vars == <<pc, attempts, lease, cpc, open, father, live, keyLease, kept>>

PCs == {"off", "loop", "check", "dial", "backoff", "grant", "put", "keepalive", "alive", "exited"}
ClosePCs == {"idle", "revoke", "close", "wait", "done"}

\* NewEtcdClientService: a client and a lease that nothing renews.
Init == /\ pc = "off"
        /\ attempts = 0
        /\ lease = None
        /\ cpc = "idle"
        /\ open = 1
        /\ father = FALSE
        /\ live = {First}
        /\ keyLease = None
        /\ kept = None

Fresh == Leases \ (live \cup {lease, keyLease, kept})

-----------------------------------------------------------------------------
(* The goroutine of Register *)

Register ==
    /\ pc = "off"
    /\ cpc = "idle"
    /\ pc' = "loop"
    /\ UNCHANGED <<attempts, lease, cpc, open, father, etcd, kept>>

\* The select of Register: leave, or enter restart.
Loop ==
    /\ pc = "loop"
    /\ IF father
         THEN pc' = "exited" /\ UNCHANGED attempts
         ELSE pc' = "check" /\ attempts' = 0
    /\ UNCHANGED <<lease, cpc, open, father, etcd, kept>>

\* All attempts failed: restart returns the service it was given, and no
\* error, so that Register goes round again.
GiveUp ==
    /\ pc = "check"
    /\ attempts = MaxReconnectAttempts
    /\ pc' = "loop"
    /\ UNCHANGED <<attempts, lease, cpc, open, father, etcd, kept>>

\* Mistake: the attempts are not counted.
AttemptUncounted ==
    /\ pc = "check"
    /\ attempts < MaxReconnectAttempts
    /\ pc' = IF father THEN "exited" ELSE "dial"
    /\ UNCHANGED <<attempts, lease, cpc, open, father, etcd, kept>>

\* The next attempt, unless the context is done (contextCancelledErr).
Attempt ==
    /\ pc = "check"
    /\ attempts < MaxReconnectAttempts
    /\ IF father
         THEN pc' = "exited" /\ UNCHANGED attempts
         ELSE pc' = "dial" /\ attempts' = attempts + 1
    /\ UNCHANGED <<lease, cpc, open, father, etcd, kept>>

DialOk ==
    /\ pc = "dial"
    /\ open' = open + 1
    /\ pc' = "grant"
    /\ UNCHANGED <<attempts, lease, cpc, father, etcd, kept>>

DialFails ==
    /\ pc = "dial"
    /\ pc' = "backoff"
    /\ UNCHANGED <<attempts, lease, cpc, open, father, etcd, kept>>

\* One second, or the end of the context.
Backoff ==
    /\ pc = "backoff"
    /\ \/ pc' = "check"
       \/ father /\ pc' = "exited"
    /\ UNCHANGED <<attempts, lease, cpc, open, father, etcd, kept>>

\* A call with a done context fails.
GrantOk ==
    /\ pc = "grant"
    /\ ~father
    /\ \E l \in Fresh :
         /\ live' = live \cup {l}
         /\ lease' = l
    /\ pc' = "put"
    /\ UNCHANGED <<attempts, cpc, open, father, keyLease, kept>>

\* newClient is closed; etcd may have made the lease all the same.
GrantFails ==
    /\ pc = "grant"
    /\ \/ \E l \in Fresh : live' = live \cup {l}
       \/ UNCHANGED live
    /\ open' = open - 1
    /\ pc' = "check"
    /\ UNCHANGED <<attempts, lease, cpc, father, keyLease, kept>>

\* What etcd does with a Put under lease l: nothing if the lease is gone.
Bind(l) == keyLease' = IF l \in live THEN l ELSE keyLease

\* Mistake: the key is put under the lease of the service restart was given.
PutUnderFirst ==
    /\ pc = "put"
    /\ ~father
    /\ First \in live
    /\ Bind(First)
    /\ pc' = "keepalive"
    /\ UNCHANGED <<attempts, lease, cpc, open, father, live, kept>>

PutOk ==
    /\ pc = "put"
    /\ ~father
    /\ lease \in live
    /\ Bind(lease)
    /\ pc' = "keepalive"
    /\ UNCHANGED <<attempts, lease, cpc, open, father, live, kept>>

\* Mistake: newClient is not closed.
PutFailsOpen ==
    /\ pc = "put"
    /\ Bind(lease) \/ UNCHANGED keyLease
    /\ pc' = "check"
    /\ UNCHANGED <<attempts, lease, cpc, open, father, live, kept>>

\* newClient is closed; the key may have been bound all the same.
PutFails ==
    /\ pc = "put"
    /\ Bind(lease) \/ UNCHANGED keyLease
    /\ open' = open - 1
    /\ pc' = "check"
    /\ UNCHANGED <<attempts, lease, cpc, father, live, kept>>

KeepAliveOk ==
    /\ pc = "keepalive"
    /\ kept' = lease
    /\ pc' = "alive"
    /\ UNCHANGED <<attempts, lease, cpc, open, father, etcd>>

KeepAliveFails ==
    /\ pc = "keepalive"
    /\ open' = open - 1
    /\ pc' = "check"
    /\ UNCHANGED <<attempts, lease, cpc, father, etcd, kept>>

\* Mistake: the loop over the keep-alive messages does not look at the context.
AliveEndsOnClose ==
    /\ pc = "alive"
    /\ kept = None
    /\ pc' = "exited"
    /\ UNCHANGED <<attempts, lease, cpc, open, father, etcd, kept>>

\* Mistake: the stream has a context of its own, which nobody cancels.
AliveEndsStreamStays ==
    /\ pc = "alive"
    /\ kept = None \/ father
    /\ pc' = "exited"
    /\ UNCHANGED <<attempts, lease, cpc, open, father, etcd, kept>>

\* The channel of keep-alive messages is closed, or the context is done: both
\* return contextCancelledErr, and Register leaves.  The stream ends with the
\* context it was given.
AliveEnds ==
    /\ pc = "alive"
    /\ kept = None \/ father
    /\ kept' = None
    /\ pc' = "exited"
    /\ UNCHANGED <<attempts, lease, cpc, open, father, etcd>>

-----------------------------------------------------------------------------
(* Close, and the end of the service *)

\* Called by the sweep of App.Stop.  The lease it revokes and the client it
\* closes are those of NewEtcdClientService.
Close ==
    /\ cpc = "idle"
    /\ cpc' = "revoke"
    /\ UNCHANGED <<pc, attempts, lease, open, father, etcd, kept>>

\* Revoke fails when the context is done or the lease has expired, and may
\* fail otherwise; the error is logged.
CloseRevokes ==
    /\ cpc = "revoke"
    /\ \/ ~father /\ live' = live \ {First}
       \/ UNCHANGED live
    /\ cpc' = "close"
    /\ UNCHANGED <<pc, attempts, lease, open, father, keyLease, kept>>

CloseClient ==
    /\ cpc = "close"
    /\ open' = open - 1
    /\ cpc' = "wait"
    /\ UNCHANGED <<pc, attempts, lease, father, etcd, kept>>

\* register.Wait
CloseWaits ==
    /\ cpc = "wait"
    /\ pc \in {"off", "exited"}
    /\ cpc' = "done"
    /\ UNCHANGED <<pc, attempts, lease, open, father, etcd, kept>>

CancelFather ==
    /\ ~father
    /\ father' = TRUE
    /\ UNCHANGED <<pc, attempts, lease, cpc, open, etcd, kept>>

-----------------------------------------------------------------------------
(* etcd *)

\* A lease nobody renews runs out, with the key bound to it.
Expire(l) ==
    /\ l \in live
    /\ live' = live \ {l}
    /\ keyLease' = IF keyLease = l THEN None ELSE keyLease
    /\ UNCHANGED <<pc, attempts, lease, cpc, open, father, kept>>

ExpireUnkept == \E l \in live \ {kept} : Expire(l)

\* A lease runs out although it is renewed: the messages do not arrive.
ExpireKept == kept \in live /\ Expire(kept)

\* The client closes the channel of keep-alive messages: the lease is gone,
\* the answers stay away, or the context is done.
StreamCloses ==
    /\ kept # None
    /\ kept' = None
    /\ UNCHANGED <<pc, attempts, lease, cpc, open, father, etcd>>

-----------------------------------------------------------------------------
RegisterStep ==
    \/ Loop
    \/ GiveUp
    \/ Attempt
    \/ DialOk
    \/ DialFails
    \/ Backoff
    \/ GrantOk
    \/ GrantFails
    \/ PutOk
    \/ PutFails
    \/ KeepAliveOk
    \/ KeepAliveFails
    \/ AliveEnds

\* The service is shut down.
Ended == cpc = "done" /\ pc \in {"off", "exited"} /\ UNCHANGED vars

CloseStep == CloseRevokes \/ CloseClient \/ CloseWaits

Next ==
    \/ Register
    \/ RegisterStep
    \/ Close
    \/ CloseStep
    \/ CancelFather
    \/ ExpireUnkept
    \/ ExpireKept
    \/ StreamCloses
    \/ Ended

Spec == Init /\ [][Next]_vars

\* The goroutines are scheduled and calls to etcd return; leases that are not
\* renewed run out.
Fairness ==
    /\ WF_vars(RegisterStep)
    /\ WF_vars(CloseStep)
    /\ \A l \in Leases : WF_vars(l # kept /\ Expire(l))

FairSpec == Spec /\ Fairness

-----------------------------------------------------------------------------
(* Properties *)

\* The types; in particular the key of the service hangs on a lease that
\* restart was granted, never on the constructor's.
TypeOK ==
    /\ pc \in PCs
    /\ attempts \in 0..MaxReconnectAttempts
    /\ lease \in Leases \cup {None}
    /\ cpc \in ClosePCs
    /\ open \in Int
    /\ father \in BOOLEAN
    /\ live \subseteq Leases \cup {First}
    /\ keyLease \in Leases \cup {None}
    /\ kept \in Leases \cup {None}

\* While Register waits for keep-alive messages, and its lease has not run out,
\* the key is there and hangs on that lease: the leases of earlier attempts,
\* whose answers were lost or whose Put came through in spite of an error,
\* cannot take the key with them when they run out.
RegisteredKeyIsOurs == pc = "alive" /\ lease \in live => keyLease = lease

FirstClient == IF cpc \in {"idle", "revoke", "close"} THEN 1 ELSE 0

\* However often restart fails and at whichever call, it has at most one client
\* open besides the one Close closes, and none between two attempts.
ConnectionsBounded ==
    /\ open - FirstClient \in {0, 1}
    /\ pc \in {"off", "loop", "check", "dial", "backoff"} => open = FirstClient

\* Once the goroutine of Register has left, whatever it left behind in etcd
\* runs out, and the load balancers see the key go.
KeyGoesAway == pc = "exited" ~> keyLease = None

\* The shutdown function returns if the root context is cancelled, wherever
\* the goroutine of Register is at the time.
CloseReturns == cpc # "idle" /\ father ~> cpc = "done"

\* Every call of restart comes to an end: the service is registered, the
\* context is cancelled, or all the attempts were made, whichever of the calls
\* fail and whatever becomes of leases granted on the way.  (What follows the
\* last attempt is not part of it: the comments say that Register leaves, the
\* code makes it begin again, GiveUp.)
RegisteredOrExhausted ==
    pc = "loop" ~> \/ pc = "alive" \/ father
                   \/ pc = "check" /\ attempts = MaxReconnectAttempts

\* When the keep-alive channel is closed, a new attempt to connect is made.
Reconnects == pc = "alive" /\ kept = None ~> pc = "dial" \/ father
=============================================================================
