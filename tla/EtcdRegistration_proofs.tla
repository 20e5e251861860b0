---------------------- MODULE EtcdRegistration_proofs ----------------------
(***************************************************************************)
(* Theorems about EtcdRegistration, for every set of leases and every      *)
(* number of attempts.                                                     *)
(***************************************************************************)
EXTENDS EtcdRegistration, TLAPS

\* The key hangs on the lease of the current attempt from its Put on, as long
\* as that lease has not run out; the lease is one restart was granted.
KeyInv ==
    /\ pc \in {"put", "keepalive", "alive"} => lease \in Leases
    /\ pc \in {"keepalive", "alive"} /\ lease \in live => keyLease = lease

\* The client of the current attempt is open exactly while restart uses it.
ConnInv ==
    /\ pc \in {"grant", "put", "keepalive", "alive"} => open = FirstClient + 1
    /\ ConnectionsBounded

\* The inductive invariant.
RegInv == TypeOK /\ KeyInv /\ ConnInv

\* The variables keep their types.
LEMMA TypeStep ==
    ASSUME TypeOK, KeyInv, [Next]_vars
    PROVE  TypeOK'
<1> USE FirstIsApart, AttemptsArePositive DEF TypeOK, KeyInv, PCs, ClosePCs, etcd
<1>1. CASE Register
  BY <1>1 DEF Register
<1>2. CASE Loop
  BY <1>2 DEF Loop
<1>3. CASE GiveUp
  BY <1>3 DEF GiveUp
<1>4. CASE Attempt
  BY <1>4 DEF Attempt
<1>5. CASE DialOk
  BY <1>5 DEF DialOk
<1>6. CASE DialFails
  BY <1>6 DEF DialFails
<1>7. CASE Backoff
  BY <1>7 DEF Backoff
<1>8. CASE GrantOk
  BY <1>8 DEF GrantOk, Fresh
<1>9. CASE GrantFails
  BY <1>9 DEF GrantFails, Fresh
<1>10. CASE PutOk
  BY <1>10 DEF PutOk, Bind
<1>11. CASE PutFails
  BY <1>11 DEF PutFails, Bind
<1>12. CASE KeepAliveOk
  BY <1>12 DEF KeepAliveOk
<1>13. CASE KeepAliveFails
  BY <1>13 DEF KeepAliveFails
<1>14. CASE AliveEnds
  BY <1>14 DEF AliveEnds
<1>15. CASE Close
  BY <1>15 DEF Close
<1>16. CASE CloseRevokes
  BY <1>16 DEF CloseRevokes
<1>17. CASE CloseClient
  BY <1>17 DEF CloseClient
<1>18. CASE CloseWaits
  BY <1>18 DEF CloseWaits
<1>19. CASE CancelFather
  BY <1>19 DEF CancelFather
<1>20. CASE ExpireUnkept
  BY <1>20 DEF ExpireUnkept, Expire
<1>21. CASE ExpireKept
  BY <1>21 DEF ExpireKept, Expire
<1>22. CASE StreamCloses
  BY <1>22 DEF StreamCloses
<1>23. CASE UNCHANGED vars
  BY <1>23 DEF vars
<1> QED
  BY <1>1, <1>2, <1>3, <1>4, <1>5, <1>6, <1>7, <1>8, <1>9, <1>10, <1>11, <1>12, <1>13,
     <1>14, <1>15, <1>16, <1>17, <1>18, <1>19, <1>20, <1>21, <1>22, <1>23, Zenon
     DEF Next, RegisterStep, CloseStep, Ended

\* No expiry, lost answer or retry takes the key from the current lease.
LEMMA KeyStep ==
    ASSUME TypeOK, KeyInv, [Next]_vars
    PROVE  KeyInv'
<1> USE FirstIsApart DEF TypeOK, KeyInv, PCs, etcd
<1>1. CASE Register
  BY <1>1 DEF Register
<1>2. CASE Loop
  BY <1>2 DEF Loop
<1>3. CASE GiveUp
  BY <1>3 DEF GiveUp
<1>4. CASE Attempt
  BY <1>4 DEF Attempt
<1>5. CASE DialOk
  BY <1>5 DEF DialOk
<1>6. CASE DialFails
  BY <1>6 DEF DialFails
<1>7. CASE Backoff
  BY <1>7 DEF Backoff
<1>8. CASE GrantOk
  BY <1>8 DEF GrantOk, Fresh
<1>9. CASE GrantFails
  BY <1>9 DEF GrantFails, Fresh
<1>10. CASE PutOk
  BY <1>10 DEF PutOk, Bind
<1>11. CASE PutFails
  BY <1>11 DEF PutFails, Bind
<1>12. CASE KeepAliveOk
  BY <1>12 DEF KeepAliveOk
<1>13. CASE KeepAliveFails
  BY <1>13 DEF KeepAliveFails
<1>14. CASE AliveEnds
  BY <1>14 DEF AliveEnds
<1>15. CASE Close
  BY <1>15 DEF Close
<1>16. CASE CloseRevokes
  BY <1>16 DEF CloseRevokes
<1>17. CASE CloseClient
  BY <1>17 DEF CloseClient
<1>18. CASE CloseWaits
  BY <1>18 DEF CloseWaits
<1>19. CASE CancelFather
  BY <1>19 DEF CancelFather
<1>20. CASE ExpireUnkept
  BY <1>20 DEF ExpireUnkept, Expire
<1>21. CASE ExpireKept
  BY <1>21 DEF ExpireKept, Expire
<1>22. CASE StreamCloses
  BY <1>22 DEF StreamCloses
<1>23. CASE UNCHANGED vars
  BY <1>23 DEF vars
<1> QED
  BY <1>1, <1>2, <1>3, <1>4, <1>5, <1>6, <1>7, <1>8, <1>9, <1>10, <1>11, <1>12, <1>13,
     <1>14, <1>15, <1>16, <1>17, <1>18, <1>19, <1>20, <1>21, <1>22, <1>23, Zenon
     DEF Next, RegisterStep, CloseStep, Ended

\* Every way out of an attempt closes its client.
LEMMA ConnStep ==
    ASSUME TypeOK, ConnInv, [Next]_vars
    PROVE  ConnInv'
<1> USE DEF TypeOK, ConnInv, ConnectionsBounded, FirstClient, PCs, ClosePCs, etcd
<1>1. CASE Register
  BY <1>1 DEF Register
<1>2. CASE Loop
  BY <1>2 DEF Loop
<1>3. CASE GiveUp
  BY <1>3 DEF GiveUp
<1>4. CASE Attempt
  BY <1>4 DEF Attempt
<1>5. CASE DialOk
  BY <1>5 DEF DialOk
<1>6. CASE DialFails
  BY <1>6 DEF DialFails
<1>7. CASE Backoff
  BY <1>7 DEF Backoff
<1>8. CASE GrantOk
  BY <1>8 DEF GrantOk, Fresh
<1>9. CASE GrantFails
  BY <1>9 DEF GrantFails, Fresh
<1>10. CASE PutOk
  BY <1>10 DEF PutOk, Bind
<1>11. CASE PutFails
  BY <1>11 DEF PutFails, Bind
<1>12. CASE KeepAliveOk
  BY <1>12 DEF KeepAliveOk
<1>13. CASE KeepAliveFails
  BY <1>13 DEF KeepAliveFails
<1>14. CASE AliveEnds
  BY <1>14 DEF AliveEnds
<1>15. CASE Close
  BY <1>15 DEF Close
<1>16. CASE CloseRevokes
  BY <1>16 DEF CloseRevokes
<1>17. CASE CloseClient
  BY <1>17 DEF CloseClient
<1>18. CASE CloseWaits
  BY <1>18 DEF CloseWaits
<1>19. CASE CancelFather
  BY <1>19 DEF CancelFather
<1>20. CASE ExpireUnkept
  BY <1>20 DEF ExpireUnkept, Expire
<1>21. CASE ExpireKept
  BY <1>21 DEF ExpireKept, Expire
<1>22. CASE StreamCloses
  BY <1>22 DEF StreamCloses
<1>23. CASE UNCHANGED vars
  BY <1>23 DEF vars
<1> QED
  BY <1>1, <1>2, <1>3, <1>4, <1>5, <1>6, <1>7, <1>8, <1>9, <1>10, <1>11, <1>12, <1>13,
     <1>14, <1>15, <1>16, <1>17, <1>18, <1>19, <1>20, <1>21, <1>22, <1>23, Zenon
     DEF Next, RegisterStep, CloseStep, Ended

\* The inductive invariant holds in every reachable state.
LEMMA RegInvHolds == Spec => []RegInv
<1>1. ASSUME Init PROVE RegInv
  <2>1. TypeOK
    <3>1. attempts \in 0..MaxReconnectAttempts /\ open \in Int
      BY <1>1, AttemptsArePositive DEF Init
    <3>2. pc \in PCs /\ cpc \in ClosePCs
      BY <1>1 DEF Init, PCs, ClosePCs
    <3>3. live \subseteq Leases \cup {First} /\ father \in BOOLEAN
      BY <1>1 DEF Init
    <3> QED
      BY <1>1, <3>1, <3>2, <3>3 DEF Init, TypeOK
  <2>2. KeyInv
    BY <1>1 DEF Init, KeyInv
  <2>3. ConnInv
    BY <1>1 DEF Init, ConnInv, ConnectionsBounded, FirstClient
  <2> QED
    BY <2>1, <2>2, <2>3 DEF RegInv
<1>2. RegInv /\ [Next]_vars => RegInv'
  BY TypeStep, KeyStep, ConnStep DEF RegInv
<1> QED
  BY <1>1, <1>2, PTL DEF Spec

\* Every variable of the registration keeps its type.
THEOREM RegistrationTypeCorrect == Spec => []TypeOK
<1>1. RegInv => TypeOK
  BY DEF RegInv
<1> QED
  BY <1>1, RegInvHolds, PTL

\* While Register waits for keep-alive messages and its lease lives, the key is
\* in etcd and bound to that lease, after any history of failed attempts.
THEOREM KeyIsOurs == Spec => []RegisteredKeyIsOurs
<1>1. RegInv => RegisteredKeyIsOurs
  BY DEF RegInv, KeyInv, RegisteredKeyIsOurs
<1> QED
  BY <1>1, RegInvHolds, PTL

\* Restart never has more than one client open, and none between attempts.
THEOREM NoConnectionLeak == Spec => []ConnectionsBounded
<1>1. RegInv => ConnectionsBounded
  BY DEF RegInv, ConnInv
<1> QED
  BY <1>1, RegInvHolds, PTL
=============================================================================
