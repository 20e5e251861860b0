------------------------- MODULE CommandPool_proofs -------------------------
(***************************************************************************)
(* Theorems about CommandPool, for every number of appliers and workers    *)
(* and every bound on commands and generations.                            *)
(***************************************************************************)
EXTENDS CommandPool, FiniteSetTheorems, TLAPS

ApplyPCs == {"apply_load", "apply_select", "apply_send"}

\* What the locals of a goroutine hold where it uses them: a worker in its
\* select and a client past its load have a channel; the controller, between
\* its load and the store of nil, has the channel that is in taskAtom, and
\* such a channel comes with a context.
LocalsInv ==
    /\ \A w \in Workers : wpc[w] = "select" => wcur[w] \in Gens
    /\ \A w \in Workers : wpc[w] \in {"got", "handling"} => wcmd[w] \in Cmds
    /\ \A a \in Appliers : pc[a] \in ApplyPCs \cup {"idle", "panicked"}
    /\ \A c \in Clients : pc[c] \in ApplyPCs => cmd[c] \in Cmds
    /\ \A c \in Clients : pc[c] \in {"apply_select", "apply_send"} => cur[c] \in Gens
    /\ pc[Controller] \in {"stop_inwork", "stop_len", "stop_cancel", "stop_close", "stop_nil"}
         => task \in Gens /\ cur[Controller] = task
    /\ task \in Gens => poolCtx \in Gens
    /\ pc[Controller] = "stop_wait" => task = 0
    /\ pc[Controller] = "recon_store" => poolCtx \in Gens

\* Workers live only between RunSpawn and StopWait, which the controller
\* passes with run false and true.
WorkersInv ==
    /\ pc[Controller] \in {"stop_load", "stop_inwork", "stop_len", "stop_cancel", "stop_close",
                          "stop_nil", "stop_wait", "stop_zero", "stop_clear"} => run
    /\ pc[Controller] \in {"recon_store", "run_spawn", "run_set"} => ~run
    /\ pc[Controller] \in {"stop_zero", "stop_clear"} => \A w \in Workers : wpc[w] = "off"
    /\ StoppedPoolIsQuiet

\* Taking the head of a channel's contents loses nothing else.
LEMMA HeadAndTail ==
    ASSUME NEW S, NEW s \in Seq(S), s # << >>
    PROVE  /\ Head(s) \in S
           /\ Tail(s) \in Seq(S)
           /\ \A i \in 1..Len(s) : \/ s[i] = Head(s)
                                   \/ \E j \in 1..Len(Tail(s)) : Tail(s)[j] = s[i]
<1>1. Len(s) \in Nat /\ Len(s) > 0 /\ Head(s) = s[1] /\ Head(s) \in S
  OBVIOUS
<1>2. /\ Tail(s) \in Seq(S)
      /\ Len(Tail(s)) = Len(s) - 1
      /\ \A j \in 1..Len(s) - 1 : Tail(s)[j] = s[j + 1]
  OBVIOUS
<1>3. ASSUME NEW i \in 1..Len(s), i # 1
      PROVE  \E j \in 1..Len(Tail(s)) : Tail(s)[j] = s[i]
  <2>1. i - 1 \in 1..Len(Tail(s)) /\ (i - 1) + 1 = i
    BY <1>1, <1>2, <1>3
  <2> QED
    BY <1>2, <2>1
<1> QED
  BY <1>1, <1>2, <1>3

\* The locals keep what they promise.
LEMMA LocalsStep ==
    ASSUME TypeOK, LocalsInv, [Next]_vars
    PROVE  LocalsInv'
<1> USE ControllerIsNoApplier, BoundsAreNat
    DEF TypeOK, LocalsInv, ApplyPCs, Gens, Cmds, Clients, WorkerPCs, ClientPCs, Goto, WGoto, At, Then, pool, workers, clients, history
<1>1. ASSUME NEW w \in Workers, WLoad(w) PROVE LocalsInv'
  BY <1>1 DEF WLoad
<1>2. ASSUME NEW w \in Workers, WFrozen(w) PROVE LocalsInv'
  BY <1>2 DEF WFrozen
<1>3. ASSUME NEW w \in Workers, WReceive(w) PROVE LocalsInv'
  <2>1. Head(buf[wcur[w]]) \in Cmds
    BY <1>3, HeadAndTail DEF WReceive
  <2> QED
    BY <1>3, <2>1 DEF WReceive
<1>4. ASSUME NEW w \in Workers, WExit(w) PROVE LocalsInv'
  BY <1>4 DEF WExit
<1>5. ASSUME NEW w \in Workers, WBegin(w) PROVE LocalsInv'
  BY <1>5 DEF WBegin
<1>6. ASSUME NEW w \in Workers, WFinish(w) PROVE LocalsInv'
  BY <1>6 DEF WFinish
<1>7. ASSUME NEW w \in Workers, WPanic(w) PROVE LocalsInv'
  BY <1>7 DEF WPanic
<1>8. ASSUME NEW c \in Clients, Apply(c) PROVE LocalsInv'
  BY <1>8 DEF Apply
<1>9. ASSUME NEW c \in Clients, ApplyLoad(c) PROVE LocalsInv'
  BY <1>9 DEF ApplyLoad
<1>10. ASSUME NEW c \in Clients, ApplySelect(c) PROVE LocalsInv'
  BY <1>10 DEF ApplySelect
<1>11. ASSUME NEW c \in Clients, ApplySend(c) PROVE LocalsInv'
  BY <1>11 DEF ApplySend
<1>12. ASSUME NEW c \in Clients, ApplySendPanics(c) PROVE LocalsInv'
  BY <1>12 DEF ApplySendPanics
<1>13. CASE StopLoad
  BY <1>13 DEF StopLoad
<1>14. CASE StopInWork
  BY <1>14 DEF StopInWork
<1>15. CASE StopLen
  BY <1>15 DEF StopLen
<1>16. CASE StopCancel
  BY <1>16 DEF StopCancel
<1>17. CASE StopClose
  BY <1>17 DEF StopClose
<1>18. CASE StopNil
  BY <1>18 DEF StopNil
<1>19. CASE StopWait
  BY <1>19 DEF StopWait
<1>20. CASE StopZero
  BY <1>20 DEF StopZero
<1>21. CASE StopClear
  BY <1>21 DEF StopClear
<1>22. CASE ReconnectStore
  BY <1>22 DEF ReconnectStore
<1>23. CASE RunCheck
  BY <1>23 DEF RunCheck
<1>24. CASE RunSpawn
  BY <1>24 DEF RunSpawn
<1>25. CASE RunSet
  BY <1>25 DEF RunSet
<1>26. CASE CancelFather
  BY <1>26 DEF CancelFather
<1>27. CASE Stop
  BY <1>27 DEF Stop
<1>28. CASE Reconnect
  BY <1>28 DEF Reconnect
<1>29. CASE Run
  BY <1>29 DEF Run
<1>30. CASE UNCHANGED vars
  BY <1>30 DEF vars
<1> QED
  BY <1>1, <1>2, <1>3, <1>4, <1>5, <1>6, <1>7, <1>8, <1>9, <1>10, <1>11, <1>12, <1>13,
     <1>14, <1>15, <1>16, <1>17, <1>18, <1>19, <1>20, <1>21, <1>22, <1>23, <1>24, <1>25, <1>26,
     <1>27, <1>28, <1>29, <1>30, Zenon
     DEF Next, WorkerStep, ApplyStep, ControlStep

\* The variables keep their types.
LEMMA TypeStep ==
    ASSUME TypeOK, LocalsInv, [Next]_vars
    PROVE  TypeOK'
<1> USE BoundsAreNat
    DEF TypeOK, LocalsInv, ApplyPCs, Gens, Cmds, Clients, WorkerPCs, ClientPCs, Goto, WGoto, At, Then, pool, workers, clients, history
<1>1. ASSUME NEW w \in Workers, WLoad(w) PROVE TypeOK'
  BY <1>1 DEF WLoad
<1>2. ASSUME NEW w \in Workers, WFrozen(w) PROVE TypeOK'
  BY <1>2 DEF WFrozen
<1>3. ASSUME NEW w \in Workers, WReceive(w) PROVE TypeOK'
  <2>1. Head(buf[wcur[w]]) \in Cmds /\ Tail(buf[wcur[w]]) \in Seq(Cmds)
    BY <1>3, HeadAndTail DEF WReceive
  <2>2. buf' \in [Gens -> Seq(Cmds)]
    BY <1>3, <2>1 DEF WReceive
  <2>3. wcmd' \in [Workers -> 0..MaxCmds]
    BY <1>3, <2>1 DEF WReceive
  <2>4. wpc' \in [Workers -> WorkerPCs]
    BY <1>3 DEF WReceive
  <2> QED
    BY <1>3, <2>2, <2>3, <2>4 DEF WReceive
<1>4. ASSUME NEW w \in Workers, WExit(w) PROVE TypeOK'
  BY <1>4 DEF WExit
<1>5. ASSUME NEW w \in Workers, WBegin(w) PROVE TypeOK'
  <2>1. inWork' \in Int
    BY <1>5 DEF WBegin
  <2>2. wpc' \in [Workers -> WorkerPCs]
    BY <1>5 DEF WBegin
  <2> QED
    BY <1>5, <2>1, <2>2 DEF WBegin
<1>6. ASSUME NEW w \in Workers, WFinish(w) PROVE TypeOK'
  <2>1. wcmd[w] \in Cmds
    BY <1>6 DEF WFinish
  <2>2. executed' \subseteq Cmds
    BY <1>6, <2>1 DEF WFinish
  <2>3. inWork' \in Int
    BY <1>6 DEF WFinish
  <2>4. wpc' \in [Workers -> WorkerPCs]
    BY <1>6 DEF WFinish
  <2> QED
    BY <1>6, <2>2, <2>3, <2>4 DEF WFinish
<1>7. ASSUME NEW w \in Workers, WPanic(w) PROVE TypeOK'
  <2>1. wcmd[w] \in Cmds
    BY <1>7 DEF WPanic
  <2>2. aborted' \subseteq Cmds
    BY <1>7, <2>1 DEF WPanic
  <2>3. wpc' \in [Workers -> WorkerPCs]
    BY <1>7 DEF WPanic
  <2> QED
    BY <1>7, <2>2, <2>3 DEF WPanic
<1>8. ASSUME NEW c \in Clients, Apply(c) PROVE TypeOK'
  <2>1. ncmd' \in 0..MaxCmds /\ cmd' \in [Clients -> 0..MaxCmds]
    BY <1>8 DEF Apply
  <2>2. pc' \in [Clients -> ClientPCs]
    BY <1>8 DEF Apply
  <2> QED
    BY <1>8, <2>1, <2>2 DEF Apply
<1>9. ASSUME NEW c \in Clients, ApplyLoad(c) PROVE TypeOK'
  BY <1>9 DEF ApplyLoad
<1>10. ASSUME NEW c \in Clients, ApplySelect(c) PROVE TypeOK'
  BY <1>10 DEF ApplySelect
<1>11. ASSUME NEW c \in Clients, ApplySend(c) PROVE TypeOK'
  <2>1. cur[c] \in Gens /\ cmd[c] \in Cmds /\ Append(buf[cur[c]], cmd[c]) \in Seq(Cmds)
    BY <1>11 DEF ApplySend
  <2>2. buf' \in [Gens -> Seq(Cmds)]
    BY <1>11, <2>1 DEF ApplySend
  <2>3. accepted' \in [Gens -> SUBSET Cmds]
    BY <1>11, <2>1 DEF ApplySend
  <2>4. pc' \in [Clients -> ClientPCs]
    BY <1>11 DEF ApplySend
  <2> QED
    BY <1>11, <2>2, <2>3, <2>4 DEF ApplySend
<1>12. ASSUME NEW c \in Clients, ApplySendPanics(c) PROVE TypeOK'
  BY <1>12 DEF ApplySendPanics
<1>13. CASE StopLoad
  BY <1>13 DEF StopLoad
<1>14. CASE StopInWork
  BY <1>14 DEF StopInWork
<1>15. CASE StopLen
  BY <1>15 DEF StopLen
<1>16. CASE StopCancel
  BY <1>16 DEF StopCancel
<1>17. CASE StopClose
  BY <1>17 DEF StopClose
<1>18. CASE StopNil
  BY <1>18 DEF StopNil
<1>19. CASE StopWait
  BY <1>19 DEF StopWait
<1>20. CASE StopZero
  BY <1>20 DEF StopZero
<1>21. CASE StopClear
  BY <1>21 DEF StopClear
<1>22. CASE ReconnectStore
  BY <1>22 DEF ReconnectStore
<1>23. CASE RunCheck
  BY <1>23 DEF RunCheck
<1>24. CASE RunSpawn
  BY <1>24 DEF RunSpawn
<1>25. CASE RunSet
  BY <1>25 DEF RunSet
<1>26. CASE CancelFather
  BY <1>26 DEF CancelFather
<1>27. CASE Stop
  BY <1>27 DEF Stop
<1>28. CASE Reconnect
  BY <1>28 DEF Reconnect
<1>29. CASE Run
  BY <1>29 DEF Run
<1>30. CASE UNCHANGED vars
  BY <1>30 DEF vars
<1> QED
  BY <1>1, <1>2, <1>3, <1>4, <1>5, <1>6, <1>7, <1>8, <1>9, <1>10, <1>11, <1>12, <1>13,
     <1>14, <1>15, <1>16, <1>17, <1>18, <1>19, <1>20, <1>21, <1>22, <1>23, <1>24, <1>25, <1>26,
     <1>27, <1>28, <1>29, <1>30, Zenon
     DEF Next, WorkerStep, ApplyStep, ControlStep

\* Workers appear and disappear where the controller says.
LEMMA WorkersStep ==
    ASSUME TypeOK, LocalsInv, WorkersInv, [Next]_vars
    PROVE  WorkersInv'
<1> USE ControllerIsNoApplier
    DEF TypeOK, LocalsInv, WorkersInv, StoppedPoolIsQuiet, ApplyPCs, Clients, WorkerPCs, ClientPCs, Goto, WGoto, At, Then, pool, workers, clients, history
<1>1. ASSUME NEW w \in Workers, WLoad(w) PROVE WorkersInv'
  BY <1>1 DEF WLoad
<1>2. ASSUME NEW w \in Workers, WFrozen(w) PROVE WorkersInv'
  BY <1>2 DEF WFrozen
<1>3. ASSUME NEW w \in Workers, WReceive(w) PROVE WorkersInv'
  BY <1>3 DEF WReceive
<1>4. ASSUME NEW w \in Workers, WExit(w) PROVE WorkersInv'
  BY <1>4 DEF WExit
<1>5. ASSUME NEW w \in Workers, WBegin(w) PROVE WorkersInv'
  BY <1>5 DEF WBegin
<1>6. ASSUME NEW w \in Workers, WFinish(w) PROVE WorkersInv'
  BY <1>6 DEF WFinish
<1>7. ASSUME NEW w \in Workers, WPanic(w) PROVE WorkersInv'
  BY <1>7 DEF WPanic
<1>8. ASSUME NEW c \in Clients, Apply(c) PROVE WorkersInv'
  BY <1>8 DEF Apply
<1>9. ASSUME NEW c \in Clients, ApplyLoad(c) PROVE WorkersInv'
  BY <1>9 DEF ApplyLoad
<1>10. ASSUME NEW c \in Clients, ApplySelect(c) PROVE WorkersInv'
  BY <1>10 DEF ApplySelect
<1>11. ASSUME NEW c \in Clients, ApplySend(c) PROVE WorkersInv'
  BY <1>11 DEF ApplySend
<1>12. ASSUME NEW c \in Clients, ApplySendPanics(c) PROVE WorkersInv'
  BY <1>12 DEF ApplySendPanics
<1>13. CASE StopLoad
  BY <1>13 DEF StopLoad
<1>14. CASE StopInWork
  BY <1>14 DEF StopInWork
<1>15. CASE StopLen
  BY <1>15 DEF StopLen
<1>16. CASE StopCancel
  BY <1>16 DEF StopCancel
<1>17. CASE StopClose
  BY <1>17 DEF StopClose
<1>18. CASE StopNil
  BY <1>18 DEF StopNil
<1>19. CASE StopWait
  BY <1>19 DEF StopWait
<1>20. CASE StopZero
  BY <1>20 DEF StopZero
<1>21. CASE StopClear
  BY <1>21 DEF StopClear
<1>22. CASE ReconnectStore
  BY <1>22 DEF ReconnectStore
<1>23. CASE RunCheck
  BY <1>23 DEF RunCheck
<1>24. CASE RunSpawn
  BY <1>24 DEF RunSpawn
<1>25. CASE RunSet
  BY <1>25 DEF RunSet
<1>26. CASE CancelFather
  BY <1>26 DEF CancelFather
<1>27. CASE Stop
  BY <1>27 DEF Stop
<1>28. CASE Reconnect
  BY <1>28 DEF Reconnect
<1>29. CASE Run
  BY <1>29 DEF Run
<1>30. CASE UNCHANGED vars
  BY <1>30 DEF vars
<1> QED
  BY <1>1, <1>2, <1>3, <1>4, <1>5, <1>6, <1>7, <1>8, <1>9, <1>10, <1>11, <1>12, <1>13,
     <1>14, <1>15, <1>16, <1>17, <1>18, <1>19, <1>20, <1>21, <1>22, <1>23, <1>24, <1>25, <1>26,
     <1>27, <1>28, <1>29, <1>30, Zenon
     DEF Next, WorkerStep, ApplyStep, ControlStep

\* The set that InWorkExact counts is finite.
LEMMA HandlingFinite == IsFiniteSet(Handling)
<1>1. Handling \subseteq Workers
  BY DEF Handling
<1> QED
  BY <1>1, SomeWorkers, FS_Subset

\* The counter follows the handlers.
LEMMA InWorkStep ==
    ASSUME TypeOK, LocalsInv, WorkersInv, InWorkExact, [Next]_vars
    PROVE  InWorkExact'
<1> USE ControllerIsNoApplier
    DEF TypeOK, InWorkExact, Clients, WorkerPCs, ClientPCs, Goto, WGoto, At, Then, pool, workers, clients, history
<1>1. ASSUME NEW w \in Workers, WLoad(w) PROVE InWorkExact'
  <2>1. Handling' = Handling
    BY <1>1 DEF WLoad, Handling
  <2> QED
    BY <1>1, <2>1 DEF WLoad
<1>2. ASSUME NEW w \in Workers, WFrozen(w) PROVE InWorkExact'
  <2>1. Handling' = Handling
    BY <1>2 DEF WFrozen, Handling
  <2> QED
    BY <1>2, <2>1 DEF WFrozen
<1>3. ASSUME NEW w \in Workers, WReceive(w) PROVE InWorkExact'
  <2>1. Handling' = Handling
    BY <1>3 DEF WReceive, Handling
  <2> QED
    BY <1>3, <2>1 DEF WReceive
<1>4. ASSUME NEW w \in Workers, WExit(w) PROVE InWorkExact'
  <2>1. Handling' = Handling
    BY <1>4 DEF WExit, Handling
  <2> QED
    BY <1>4, <2>1 DEF WExit
<1>5. ASSUME NEW w \in Workers, WBegin(w) PROVE InWorkExact'
  <2>1. Handling' = Handling \cup {w} /\ w \notin Handling
    BY <1>5 DEF WBegin, Handling
  <2>2. Cardinality(Handling') = Cardinality(Handling) + 1
    BY <2>1, HandlingFinite, FS_AddElement
  <2> QED
    BY <1>5, <2>2 DEF WBegin
<1>6. ASSUME NEW w \in Workers, WFinish(w) PROVE InWorkExact'
  <2>1. Handling' = Handling \ {w} /\ w \in Handling
    BY <1>6 DEF WFinish, Handling
  <2>2. Cardinality(Handling') = Cardinality(Handling) - 1
    BY <2>1, HandlingFinite, FS_RemoveElement
  <2>3. Cardinality(Handling) \in Int
    BY HandlingFinite, FS_CardinalityType
  <2> QED
    BY <1>6, <2>2, <2>3 DEF WFinish
<1>7. ASSUME NEW w \in Workers, WPanic(w) PROVE InWorkExact'
  BY <1>7 DEF WPanic
<1>8. ASSUME NEW c \in Clients, Apply(c) PROVE InWorkExact'
  <2>1. Handling' = Handling
    BY <1>8 DEF Apply, Handling
  <2> QED
    BY <1>8, <2>1 DEF Apply
<1>9. ASSUME NEW c \in Clients, ApplyLoad(c) PROVE InWorkExact'
  <2>1. Handling' = Handling
    BY <1>9 DEF ApplyLoad, Handling
  <2> QED
    BY <1>9, <2>1 DEF ApplyLoad
<1>10. ASSUME NEW c \in Clients, ApplySelect(c) PROVE InWorkExact'
  <2>1. Handling' = Handling
    BY <1>10 DEF ApplySelect, Handling
  <2> QED
    BY <1>10, <2>1 DEF ApplySelect
<1>11. ASSUME NEW c \in Clients, ApplySend(c) PROVE InWorkExact'
  <2>1. Handling' = Handling
    BY <1>11 DEF ApplySend, Handling
  <2> QED
    BY <1>11, <2>1 DEF ApplySend
<1>12. ASSUME NEW c \in Clients, ApplySendPanics(c) PROVE InWorkExact'
  <2>1. Handling' = Handling
    BY <1>12 DEF ApplySendPanics, Handling
  <2> QED
    BY <1>12, <2>1 DEF ApplySendPanics
<1>13. CASE StopLoad
  <2>1. Handling' = Handling
    BY <1>13 DEF StopLoad, Handling
  <2> QED
    BY <1>13, <2>1 DEF StopLoad
<1>14. CASE StopInWork
  <2>1. Handling' = Handling
    BY <1>14 DEF StopInWork, Handling
  <2> QED
    BY <1>14, <2>1 DEF StopInWork
<1>15. CASE StopLen
  <2>1. Handling' = Handling
    BY <1>15 DEF StopLen, Handling
  <2> QED
    BY <1>15, <2>1 DEF StopLen
<1>16. CASE StopCancel
  <2>1. Handling' = Handling
    BY <1>16 DEF StopCancel, Handling
  <2> QED
    BY <1>16, <2>1 DEF StopCancel
<1>17. CASE StopClose
  <2>1. Handling' = Handling
    BY <1>17 DEF StopClose, Handling
  <2> QED
    BY <1>17, <2>1 DEF StopClose
<1>18. CASE StopNil
  <2>1. Handling' = Handling
    BY <1>18 DEF StopNil, Handling
  <2> QED
    BY <1>18, <2>1 DEF StopNil
<1>19. CASE StopWait
  <2>1. Handling' = Handling
    BY <1>19 DEF StopWait, Handling
  <2> QED
    BY <1>19, <2>1 DEF StopWait
<1>20. CASE StopZero
  <2>1. Handling' = {}
    BY <1>20 DEF StopZero, Handling, WorkersInv
  <2> QED
    BY <1>20, <2>1, FS_EmptySet DEF StopZero
<1>21. CASE StopClear
  <2>1. Handling' = Handling
    BY <1>21 DEF StopClear, Handling
  <2> QED
    BY <1>21, <2>1 DEF StopClear
<1>22. CASE ReconnectStore
  <2>1. Handling' = Handling
    BY <1>22 DEF ReconnectStore, Handling
  <2> QED
    BY <1>22, <2>1 DEF ReconnectStore
<1>23. CASE RunCheck
  <2>1. Handling' = Handling
    BY <1>23 DEF RunCheck, Handling
  <2> QED
    BY <1>23, <2>1 DEF RunCheck
<1>24. CASE RunSpawn
  <2>1. Handling = {} /\ Handling' = {}
    BY <1>24 DEF RunSpawn, Handling, WorkersInv, StoppedPoolIsQuiet
  <2> QED
    BY <1>24, <2>1 DEF RunSpawn
<1>25. CASE RunSet
  <2>1. Handling' = Handling
    BY <1>25 DEF RunSet, Handling
  <2> QED
    BY <1>25, <2>1 DEF RunSet
<1>26. CASE CancelFather
  <2>1. Handling' = Handling
    BY <1>26 DEF CancelFather, Handling
  <2> QED
    BY <1>26, <2>1 DEF CancelFather
<1>27. CASE Stop
  <2>1. Handling' = Handling
    BY <1>27 DEF Stop, Handling
  <2> QED
    BY <1>27, <2>1 DEF Stop
<1>28. CASE Reconnect
  <2>1. Handling' = Handling
    BY <1>28 DEF Reconnect, Handling
  <2> QED
    BY <1>28, <2>1 DEF Reconnect
<1>29. CASE Run
  <2>1. Handling' = Handling
    BY <1>29 DEF Run, Handling
  <2> QED
    BY <1>29, <2>1 DEF Run
<1>30. CASE UNCHANGED vars
  BY <1>30 DEF vars, Handling
<1> QED
  BY <1>1, <1>2, <1>3, <1>4, <1>5, <1>6, <1>7, <1>8, <1>9, <1>10, <1>11, <1>12, <1>13,
     <1>14, <1>15, <1>16, <1>17, <1>18, <1>19, <1>20, <1>21, <1>22, <1>23, <1>24, <1>25, <1>26,
     <1>27, <1>28, <1>29, <1>30, Zenon
     DEF Next, WorkerStep, ApplyStep, ControlStep

\* Where an accepted command can be: in the hands of a worker or done.
InBuf(g, x) == \E i \in 1..Len(buf[g]) : buf[g][i] = x
Settled(x) == \/ \E w \in Workers : wpc[w] \in {"got", "handling"} /\ wcmd[w] = x
              \/ x \in executed \cup aborted

\* No accepted command vanishes; what was due when Stop was called is in its
\* channel until Stop finds that channel empty, and settled from then on.
DrainInv ==
    /\ \A g \in Gens : \A x \in accepted[g] : InBuf(g, x) \/ Settled(x)
    /\ pc[Controller] \in {"stop_load", "stop_inwork", "stop_len"} =>
         due = {} \/ (task \in Gens /\ due \subseteq accepted[task])
    /\ pc[Controller] \in {"stop_cancel", "stop_close", "stop_nil", "stop_wait"} =>
         \A x \in due : Settled(x)
    /\ StopDrains

\* The bookkeeping of commands is kept.
LEMMA DrainStep ==
    ASSUME TypeOK, LocalsInv, WorkersInv, DrainInv, [Next]_vars
    PROVE  DrainInv'
<1> USE ControllerIsNoApplier
    DEF TypeOK, DrainInv, StopDrains, Settled, InBuf, Clients, WorkerPCs, ClientPCs, Goto, WGoto, At, Then, pool, workers, clients, history
<1>1. ASSUME NEW w \in Workers, WLoad(w) PROVE DrainInv'
  BY <1>1 DEF WLoad
<1>2. ASSUME NEW w \in Workers, WFrozen(w) PROVE DrainInv'
  BY <1>2 DEF WFrozen
<1>3. ASSUME NEW w \in Workers, WReceive(w) PROVE DrainInv'
  <2>1. PICK g0 \in Gens : g0 = wcur[w] /\ buf[g0] # << >>
    BY <1>3 DEF WReceive, LocalsInv
  <2>2. PICK h : h = Head(buf[g0])
    OBVIOUS
  <2>3. /\ buf'[g0] = Tail(buf[g0])
        /\ \A g \in Gens : g # g0 => buf'[g] = buf[g]
        /\ wpc'[w] = "got" /\ wcmd'[w] = h
        /\ UNCHANGED <<accepted, executed, aborted, due, run, task, pc>>
    BY <1>3, <2>1, <2>2 DEF WReceive
  <2>4. \A x : InBuf(g0, x) => x = h \/ InBuf(g0, x)'
    <3>1. buf[g0] \in Seq(Cmds)
      BY <2>1
    <3>2. \A i \in 1..Len(buf[g0]) : \/ buf[g0][i] = Head(buf[g0])
                                     \/ \E j \in 1..Len(Tail(buf[g0])) : Tail(buf[g0])[j] = buf[g0][i]
      BY <2>1, <3>1, HeadAndTail
    <3> QED
      BY <2>2, <2>3, <3>2, Zenon
  <2>5. \A x : Settled(x) => Settled(x)'
    <3>1. \A v \in Workers : wpc[v] \in {"got", "handling"} =>
             wpc'[v] = wpc[v] /\ wcmd'[v] = wcmd[v]
      BY <1>3 DEF WReceive
    <3> QED
      BY <2>3, <3>1
  <2>6. Settled(h)'
    BY <2>3
  <2>7. \A g \in Gens : \A x \in accepted'[g] : InBuf(g, x)' \/ Settled(x)'
    <3> SUFFICES ASSUME NEW g \in Gens, NEW x \in accepted[g]
                 PROVE  InBuf(g, x)' \/ Settled(x)'
      BY <2>3
    <3>1. CASE g # g0
      BY <2>3, <2>5, <3>1
    <3>2. CASE g = g0
      <4>1. InBuf(g0, x) \/ Settled(x)
        BY <3>2
      <4> HIDE DEF InBuf, Settled
      <4> QED
        BY <2>4, <2>5, <2>6, <3>2, <4>1
    <3> QED
      BY <3>1, <3>2
  <2> QED
    BY <2>3, <2>5, <2>7
<1>4. ASSUME NEW w \in Workers, WExit(w) PROVE DrainInv'
  BY <1>4 DEF WExit
<1>5. ASSUME NEW w \in Workers, WBegin(w) PROVE DrainInv'
  BY <1>5 DEF WBegin
<1>6. ASSUME NEW w \in Workers, WFinish(w) PROVE DrainInv'
  BY <1>6 DEF WFinish
<1>7. ASSUME NEW w \in Workers, WPanic(w) PROVE DrainInv'
  BY <1>7 DEF WPanic
<1>8. ASSUME NEW c \in Clients, Apply(c) PROVE DrainInv'
  BY <1>8 DEF Apply
<1>9. ASSUME NEW c \in Clients, ApplyLoad(c) PROVE DrainInv'
  BY <1>9 DEF ApplyLoad
<1>10. ASSUME NEW c \in Clients, ApplySelect(c) PROVE DrainInv'
  BY <1>10 DEF ApplySelect
<1>11. ASSUME NEW c \in Clients, ApplySend(c) PROVE DrainInv'
  <2>1. PICK g0 \in Gens : g0 = cur[c]
    BY <1>11 DEF ApplySend, LocalsInv, ApplyPCs
  <2>2. PICK k \in Cmds : k = cmd[c]
    BY <1>11 DEF ApplySend, LocalsInv, ApplyPCs
  <2>3. /\ buf'[g0] = Append(buf[g0], k)
        /\ accepted'[g0] = accepted[g0] \cup {k}
        /\ \A g \in Gens : g # g0 => buf'[g] = buf[g] /\ accepted'[g] = accepted[g]
        /\ UNCHANGED <<wpc, wcmd, executed, aborted, due, run, task>>
        /\ pc' = [pc EXCEPT ![c] = "idle"]
    BY <1>11, <2>1, <2>2 DEF ApplySend
  <2>4. InBuf(g0, k)' /\ \A x : InBuf(g0, x) => InBuf(g0, x)'
    <3>1. buf[g0] \in Seq(Cmds)
      BY <2>1
    <3>2. /\ \E j \in 1..Len(Append(buf[g0], k)) : Append(buf[g0], k)[j] = k
          /\ \A i \in 1..Len(buf[g0]) :
               \E j \in 1..Len(Append(buf[g0], k)) : Append(buf[g0], k)[j] = buf[g0][i]
      <4>1. PICK b \in Seq(Cmds) : b = buf[g0]
        BY <3>1
      <4>2. /\ \E j \in 1..Len(Append(b, k)) : Append(b, k)[j] = k
            /\ \A i \in 1..Len(b) : \E j \in 1..Len(Append(b, k)) : Append(b, k)[j] = b[i]
        <5>1. /\ Len(b) \in Nat
              /\ Len(Append(b, k)) = Len(b) + 1
              /\ Append(b, k)[Len(b) + 1] = k
              /\ \A i \in 1..Len(b) : Append(b, k)[i] = b[i]
          OBVIOUS
        <5>2. /\ Len(b) + 1 \in 1..Len(Append(b, k))
              /\ \A i \in 1..Len(b) : i \in 1..Len(Append(b, k))
          BY <5>1
        <5> QED
          BY <5>1, <5>2
      <4> QED
        BY <4>1, <4>2
    <3> QED
      BY <2>3, <3>2, Zenon
  <2>5. \A x : Settled(x) => Settled(x)'
    BY <2>3
  <2>6. \A g \in Gens : \A x \in accepted'[g] : InBuf(g, x)' \/ Settled(x)'
    <3> SUFFICES ASSUME NEW g \in Gens, NEW x \in accepted'[g]
                 PROVE  InBuf(g, x)' \/ Settled(x)'
      OBVIOUS
    <3>1. CASE g # g0
      BY <2>3, <2>5, <3>1
    <3>2. CASE g = g0
      <4>1. x = k \/ (InBuf(g0, x) \/ Settled(x))
        BY <2>3, <3>2
      <4> HIDE DEF InBuf, Settled
      <4> QED
        BY <2>4, <2>5, <3>2, <4>1
    <3> QED
      BY <3>1, <3>2
  <2>7. \A g \in Gens : accepted[g] \subseteq accepted'[g]
    BY <2>3
  <2>8. pc'[Controller] = pc[Controller] \/ pc'[Controller] = "idle"
    BY <2>3
  <2> HIDE DEF InBuf, Settled
  <2>9. pc'[Controller] \in {"stop_load", "stop_inwork", "stop_len"} =>
          due' = {} \/ (task' \in Gens /\ due' \subseteq accepted'[task'])
    BY <2>3, <2>7, <2>8
  <2>10. pc'[Controller] \in {"stop_cancel", "stop_close", "stop_nil", "stop_wait"} =>
           \A x \in due' : Settled(x)'
    BY <2>3, <2>5, <2>8
  <2>11. StopDrains'
    BY <2>3, <2>8
  <2> QED
    BY <2>6, <2>9, <2>10, <2>11
<1>12. ASSUME NEW c \in Clients, ApplySendPanics(c) PROVE DrainInv'
  BY <1>12 DEF ApplySendPanics
<1>13. CASE StopLoad
  BY <1>13 DEF StopLoad
<1>14. CASE StopInWork
  BY <1>14 DEF StopInWork
<1>15. CASE StopLen
  <2>1. ASSUME NEW x \in due, buf[cur[Controller]] = << >>
        PROVE  Settled(x)
    <3>1. task \in Gens /\ buf[task] = << >> /\ x \in accepted[task]
      BY <1>15, <2>1 DEF StopLen, LocalsInv
    <3>2. ~ InBuf(task, x)
      BY <3>1
    <3> QED
      BY <3>1, <3>2
  <2>2. UNCHANGED <<buf, wpc, wcmd, accepted, executed, aborted, due, run, task>>
    BY <1>15 DEF StopLen
  <2>3. \A g \in Gens : \A x \in accepted'[g] : InBuf(g, x)' \/ Settled(x)'
    BY <2>2
  <2>4. CASE buf[cur[Controller]] = << >>
    <3>1. pc'[Controller] = "stop_cancel" /\ \A x \in due' : Settled(x)'
      BY <1>15, <2>1, <2>2, <2>4 DEF StopLen
    <3> QED
      BY <1>15, <2>2, <2>3, <3>1 DEF WorkersInv, StopLen
  <2>5. CASE buf[cur[Controller]] # << >>
    BY <1>15, <2>2, <2>3, <2>5 DEF WorkersInv, StopLen
  <2> QED
    BY <2>4, <2>5
<1>16. CASE StopCancel
  BY <1>16 DEF StopCancel
<1>17. CASE StopClose
  BY <1>17 DEF StopClose
<1>18. CASE StopNil
  BY <1>18 DEF StopNil
<1>19. CASE StopWait
  BY <1>19 DEF StopWait
<1>20. CASE StopZero
  BY <1>20 DEF StopZero
<1>21. CASE StopClear
  BY <1>21 DEF StopClear
<1>22. CASE ReconnectStore
  BY <1>22 DEF ReconnectStore
<1>23. CASE RunCheck
  BY <1>23 DEF RunCheck
<1>24. CASE RunSpawn
  BY <1>24 DEF RunSpawn, WorkersInv, StoppedPoolIsQuiet
<1>25. CASE RunSet
  BY <1>25 DEF RunSet
<1>26. CASE CancelFather
  BY <1>26 DEF CancelFather
<1>27. CASE Stop
  BY <1>27, BoundsAreNat DEF Stop, Gens, LocalsInv, WorkersInv
<1>28. CASE Reconnect
  BY <1>28 DEF Reconnect
<1>29. CASE Run
  BY <1>29 DEF Run
<1>30. CASE UNCHANGED vars
  BY <1>30 DEF vars
<1> QED
  BY <1>1, <1>2, <1>3, <1>4, <1>5, <1>6, <1>7, <1>8, <1>9, <1>10, <1>11, <1>12, <1>13,
     <1>14, <1>15, <1>16, <1>17, <1>18, <1>19, <1>20, <1>21, <1>22, <1>23, <1>24, <1>25, <1>26,
     <1>27, <1>28, <1>29, <1>30, Zenon
     DEF Next, WorkerStep, ApplyStep, ControlStep

\* The channel the controller finds is open until it closes it itself, and new
\* generations are never closed before they are used.
OpenInv ==
    /\ closed \subseteq 1..gen
    /\ task <= gen
    /\ task \in closed => pc[Controller] = "stop_nil"
    /\ pc[Controller] \in {"apply_select", "apply_send"} => task \in Gens /\ cur[Controller] = task
    /\ pc[Controller] = "recon_store" => gen \notin closed
    /\ ControllerNeverPanics

\* Every step keeps the controller's channel open.
LEMMA OpenStep ==
    ASSUME TypeOK, LocalsInv, OpenInv, [Next]_vars
    PROVE  OpenInv'
<1> USE ControllerIsNoApplier, BoundsAreNat
    DEF TypeOK, LocalsInv, OpenInv, ControllerNeverPanics, ApplyPCs, Gens, Clients, ClientPCs, Goto, WGoto, At, Then, pool, workers, clients, history
<1>1. ASSUME NEW w \in Workers, WLoad(w) PROVE OpenInv'
  BY <1>1 DEF WLoad
<1>2. ASSUME NEW w \in Workers, WFrozen(w) PROVE OpenInv'
  BY <1>2 DEF WFrozen
<1>3. ASSUME NEW w \in Workers, WReceive(w) PROVE OpenInv'
  BY <1>3 DEF WReceive
<1>4. ASSUME NEW w \in Workers, WExit(w) PROVE OpenInv'
  BY <1>4 DEF WExit
<1>5. ASSUME NEW w \in Workers, WBegin(w) PROVE OpenInv'
  BY <1>5 DEF WBegin
<1>6. ASSUME NEW w \in Workers, WFinish(w) PROVE OpenInv'
  BY <1>6 DEF WFinish
<1>7. ASSUME NEW w \in Workers, WPanic(w) PROVE OpenInv'
  BY <1>7 DEF WPanic
<1>8. ASSUME NEW c \in Clients, Apply(c) PROVE OpenInv'
  BY <1>8 DEF Apply
<1>9. ASSUME NEW c \in Clients, ApplyLoad(c) PROVE OpenInv'
  BY <1>9 DEF ApplyLoad
<1>10. ASSUME NEW c \in Clients, ApplySelect(c) PROVE OpenInv'
  BY <1>10 DEF ApplySelect
<1>11. ASSUME NEW c \in Clients, ApplySend(c) PROVE OpenInv'
  BY <1>11 DEF ApplySend
<1>12. ASSUME NEW c \in Clients, ApplySendPanics(c) PROVE OpenInv'
  BY <1>12 DEF ApplySendPanics
<1>13. CASE StopLoad
  BY <1>13 DEF StopLoad
<1>14. CASE StopInWork
  BY <1>14 DEF StopInWork
<1>15. CASE StopLen
  BY <1>15 DEF StopLen
<1>16. CASE StopCancel
  BY <1>16 DEF StopCancel
<1>17. CASE StopClose
  <2>1. pc' = [pc EXCEPT ![Controller] = "stop_nil"] /\ pc'[Controller] = "stop_nil"
    BY <1>17 DEF StopClose
  <2>2. cur[Controller] = task /\ task \in 1..gen
    BY <1>17 DEF StopClose
  <2>3. closed' \subseteq 1..gen /\ gen' = gen /\ task' = task
    BY <1>17, <2>2 DEF StopClose
  <2> QED
    BY <2>1, <2>3
<1>18. CASE StopNil
  BY <1>18 DEF StopNil
<1>19. CASE StopWait
  BY <1>19 DEF StopWait
<1>20. CASE StopZero
  BY <1>20 DEF StopZero
<1>21. CASE StopClear
  BY <1>21 DEF StopClear
<1>22. CASE ReconnectStore
  BY <1>22 DEF ReconnectStore
<1>23. CASE RunCheck
  BY <1>23 DEF RunCheck
<1>24. CASE RunSpawn
  BY <1>24 DEF RunSpawn
<1>25. CASE RunSet
  BY <1>25 DEF RunSet
<1>26. CASE CancelFather
  BY <1>26 DEF CancelFather
<1>27. CASE Stop
  BY <1>27 DEF Stop
<1>28. CASE Reconnect
  BY <1>28 DEF Reconnect
<1>29. CASE Run
  BY <1>29 DEF Run
<1>30. CASE UNCHANGED vars
  BY <1>30 DEF vars
<1> QED
  BY <1>1, <1>2, <1>3, <1>4, <1>5, <1>6, <1>7, <1>8, <1>9, <1>10, <1>11, <1>12, <1>13,
     <1>14, <1>15, <1>16, <1>17, <1>18, <1>19, <1>20, <1>21, <1>22, <1>23, <1>24, <1>25, <1>26,
     <1>27, <1>28, <1>29, <1>30, Zenon
     DEF Next, WorkerStep, ApplyStep, ControlStep

\* The inductive invariant of the pool.
-----------------------------------------------------------------------------
(* The theorems *)

\* The inductive invariant of the pool.
PoolInv == TypeOK /\ LocalsInv /\ WorkersInv /\ InWorkExact /\ DrainInv /\ OpenInv

\* The inductive invariant holds in every reachable state of the pool.
LEMMA PoolInvHolds == Spec => []PoolInv
<1>1. Init => PoolInv
  <2> SUFFICES ASSUME Init PROVE PoolInv
    OBVIOUS
  <2>1. TypeOK
    <3>1. buf \in [Gens -> Seq(Cmds)]
      BY DEF Init
    <3>2. /\ pc \in [Clients -> ClientPCs] /\ wpc \in [Workers -> WorkerPCs]
          /\ gen \in Gens /\ task \in 0..MaxGen /\ poolCtx \in 0..MaxGen
      BY BoundsAreNat DEF Init, Gens, ClientPCs, WorkerPCs
    <3>3. /\ wcur \in [Workers -> 0..MaxGen] /\ wcmd \in [Workers -> 0..MaxCmds]
          /\ cur \in [Clients -> 0..MaxGen] /\ cmd \in [Clients -> 0..MaxCmds]
          /\ ncmd \in 0..MaxCmds /\ inWork \in Int
      BY BoundsAreNat DEF Init
    <3> QED
      BY <3>1, <3>2, <3>3 DEF Init, TypeOK
  <2>2. LocalsInv
    BY BoundsAreNat DEF Init, LocalsInv, Clients, ApplyPCs, Gens
  <2>3. WorkersInv
    BY DEF Init, WorkersInv, StoppedPoolIsQuiet, Clients, At
  <2>4. InWorkExact
    <3>1. Handling = {}
      BY DEF Init, Handling
    <3> QED
      BY <3>1, FS_EmptySet DEF Init, InWorkExact
  <2>5. DrainInv
    BY DEF Init, DrainInv, StopDrains, At, Clients
  <2>6. OpenInv
    BY DEF Init, OpenInv, ControllerNeverPanics, Clients
  <2> QED
    BY <2>1, <2>2, <2>3, <2>4, <2>5, <2>6 DEF PoolInv
<1>2. PoolInv /\ [Next]_vars => PoolInv'
  BY TypeStep, LocalsStep, WorkersStep, InWorkStep, DrainStep, OpenStep DEF PoolInv
<1> QED
  BY <1>1, <1>2, PTL DEF Spec

\* Every variable of the pool keeps its type.
THEOREM PoolTypeCorrect == Spec => []TypeOK
<1>1. PoolInv => TypeOK
  BY DEF PoolInv
<1> QED
  BY <1>1, PoolInvHolds, PTL

\* A pool that is not running has no worker left.
THEOREM StoppedIsQuiet == Spec => []StoppedPoolIsQuiet
<1>1. PoolInv => StoppedPoolIsQuiet
  BY DEF PoolInv, WorkersInv
<1> QED
  BY <1>1, PoolInvHolds, PTL

\* Without handler panics the counter inWork is exact.
THEOREM InWorkIsExact == Spec => []InWorkExact
<1>1. PoolInv => InWorkExact
  BY DEF PoolInv
<1> QED
  BY <1>1, PoolInvHolds, PTL

\* When Stop is past its wait, all commands sent before it was called are
\* handled, for any number of workers, appliers, stops and reconnects.
THEOREM StopDrainsAll == Spec => []StopDrains
<1>1. PoolInv => StopDrains
  BY DEF PoolInv, DrainInv
<1> QED
  BY <1>1, PoolInvHolds, PTL

\* The controller's calls of Apply never panic, with any number of appliers.
THEOREM ControllerIsSafe == Spec => []ControllerNeverPanics
<1>1. PoolInv => ControllerNeverPanics
  BY DEF PoolInv, OpenInv
<1> QED
  BY <1>1, PoolInvHolds, PTL
=============================================================================
