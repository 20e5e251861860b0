--------------------------- MODULE Services_proofs ---------------------------
(***************************************************************************)
(* Theorems about Services for every set of mains that keep to the rules   *)
(* stated there as assumptions, and any number of units in flight.  The    *)
(* registry of a running Stop is told by the registrations of main that    *)
(* are done: they are closed under what precedes them (InOrder), each has  *)
(* stopped its server or closed its service, and nothing else was closed   *)
(* (Closing).  A Stop that began early did so at a step that may panic     *)
(* (Halted), which is where the rules on the order of the steps come in.   *)
(***************************************************************************)
EXTENDS Services, FiniteSetTheorems, SequenceTheorems, TLAPS

(* What the i-th step of p registers, and the entry it makes. *)
NameOf(p, i) == CHOOSE n \in p.steps[i].what : TRUE

Upto(p, i) == {j \in Registrations(p) : j <= i}

Entry(p, i) == [id |-> Cardinality(Upto(p, i)), name |-> NameOf(p, i),
                priority |-> p.steps[i].priority]

Made == {i \in Registrations(main) : i < pc}

Done == {i \in Made : Entry(main, i) \notin pending}

(* TypeOK without the signal channel. *)
Types ==
    /\ main \in Programs
    /\ pc \in 1 .. Len(main.steps) + 1
    /\ nil \subseteq built /\ open \subseteq built /\ nil \cap open = {}
    /\ father \in BOOLEAN
    /\ server \in [Servers(main) -> {"off", "on", "draining", "stopped"}]
    /\ units \in [Servers(main) -> 0 .. MaxUnits]
    /\ left \subseteq Servers(main)
    /\ misuse \subseteq Servers(main) \X Closable

(* A main that panicked is where it may panic. *)
Rescue ==
    /\ sig \in BOOLEAN /\ panicked \in BOOLEAN
    /\ panicked => pc <= Len(main.steps) /\ MayStop(main, pc)

Halting == pc > Len(main.steps) \/ MayStop(main, pc)

Pool ==
    /\ \A a \in pending : \E i \in Made : a = Entry(main, i)
    /\ nreg = Cardinality(Made)
    /\ phase \in {"open", "sweeping", "swept", "dead"}
    /\ phase = "open" => Done = {}
    /\ phase = "swept" => pending = {}

InOrder == \A i \in Made, j \in Done : Precedes(main, i, j) => i \in Done

Closing ==
    /\ \A r \in (built \cap Closable) \ (open \cup nil) : \E j \in Done : NameOf(main, j) = r
    /\ \A i \in Done : IF NameOf(main, i) \in Servers(main)
                       THEN server[NameOf(main, i)] = "stopped" ELSE NameOf(main, i) \notin open

Building ==
    /\ nil \subseteq NilOnError
    /\ open \subseteq Closable
    /\ \A r \in built : \/ r = "logger"
                        \/ \E k \in DOMAIN main.steps :
                             k <= pc /\ main.steps[k].op = "need"
                             /\ r \in Reach(main, main.steps[k].what)

Halted ==
    /\ phase \in {"sweeping", "swept"} \/ Done # {} => Halting
    /\ phase \in {"sweeping", "swept"} /\ pc > Len(main.steps) =>
         father /\ \A s \in Servers(main) : main.kind[s] = "joined" => units[s] = 0

Serving ==
    \A s \in Servers(main) :
      /\ server[s] # "off" => \E k \in DOMAIN main.steps :
                                k < pc /\ main.steps[k].op = "serve" /\ s \in main.steps[k].what
      /\ units[s] > 0 => server[s] # "off"
      /\ units[s] > 0 /\ server[s] = "stopped" => s \in left

IInv == Types /\ Pool /\ InOrder /\ Closing /\ Building /\ Halted /\ Serving /\ NoUseAfterClose

-----------------------------------------------------------------------------
(* The steps of a main *)

LEMMA StepFacts ==
    ASSUME NEW p \in Programs
    PROVE  /\ Len(p.steps) \in Nat /\ DOMAIN p.steps = 1..Len(p.steps)
           /\ Registrations(p) \in SUBSET (1..Len(p.steps)) /\ IsFiniteSet(Registrations(p))
           /\ \A i \in Registrations(p) :
                /\ p.steps[i].what = {NameOf(p, i)}
                /\ NameOf(p, i) \in AllServers \cup Closable
                /\ p.steps[i].priority \in 0..MaxPriority
<1> DEFINE T == [op : STRING, what : SUBSET STRING, priority : 0..MaxPriority]
<1>1. p.steps \in Seq(T)
  BY StepsAssumption
<1>2. Len(p.steps) \in Nat /\ DOMAIN p.steps = 1..Len(p.steps)
      /\ \A i \in 1..Len(p.steps) : p.steps[i] \in T
  <2> HIDE DEF T
  <2> QED
    BY <1>1
<1>3. Registrations(p) \in SUBSET (1..Len(p.steps))
  BY <1>2 DEF Registrations
<1>4. IsFiniteSet(Registrations(p))
  <2>1. IsFiniteSet(1..Len(p.steps))
    BY <1>2, FS_Interval
  <2> QED
    BY <1>3, <2>1, FS_Subset
<1>5. ASSUME NEW i \in Registrations(p)
      PROVE  /\ p.steps[i].what = {NameOf(p, i)}
             /\ NameOf(p, i) \in AllServers \cup Closable
             /\ p.steps[i].priority \in 0..MaxPriority
  <2>1. PICK n \in AllServers \cup Closable : p.steps[i].what = {n}
    BY StepsAssumption
  <2>2. NameOf(p, i) = n
    BY <2>1 DEF NameOf
  <2>3. p.steps[i] \in T
    BY <1>2, <1>3
  <2> QED
    BY <2>1, <2>2, <2>3
<1> QED
  BY <1>2, <1>3, <1>4, <1>5

(* Ids grow with the steps. *)
LEMMA Ordinals ==
    ASSUME NEW p \in Programs, NEW i \in Registrations(p), NEW j \in Registrations(p)
    PROVE  /\ Cardinality(Upto(p, i)) \in Nat
           /\ i < j => Cardinality(Upto(p, i)) < Cardinality(Upto(p, j))
<1>1. IsFiniteSet(Upto(p, i)) /\ IsFiniteSet(Upto(p, j))
  BY StepFacts, FS_Subset DEF Upto
<1>2. Cardinality(Upto(p, i)) \in Nat /\ Cardinality(Upto(p, j)) \in Nat
  BY <1>1, FS_CardinalityType
<1>3. ASSUME i < j PROVE Cardinality(Upto(p, i)) < Cardinality(Upto(p, j))
  <2>1. \A k \in Registrations(p) : k \in Nat
    BY StepFacts
  <2>2. Upto(p, i) \in SUBSET Upto(p, j) /\ j \in Upto(p, j) /\ j \notin Upto(p, i)
    BY <1>3, <2>1 DEF Upto
  <2>3. Cardinality(Upto(p, i)) <= Cardinality(Upto(p, j))
        /\ (Cardinality(Upto(p, i)) = Cardinality(Upto(p, j)) => Upto(p, i) = Upto(p, j))
    BY <1>1, <2>2, FS_Subset
  <2> QED
    BY <1>2, <2>2, <2>3
<1> QED
  BY <1>2, <1>3

(* The registry orders the entries as Precedes orders the steps, and each   *)
(* step has an entry of its own.                                            *)
LEMMA EntryOrder ==
    ASSUME NEW p \in Programs, NEW i \in Registrations(p), NEW j \in Registrations(p)
    PROVE  /\ App!Before(Entry(p, i), Entry(p, j)) <=> Precedes(p, i, j)
           /\ Entry(p, i) = Entry(p, j) => i = j
<1> DEFINE ci == Cardinality(Upto(p, i))
           cj == Cardinality(Upto(p, j))
<1>1. i \in Nat /\ j \in Nat
  BY StepFacts
<1>2. ci \in Nat /\ cj \in Nat /\ (i < j => ci < cj) /\ (j < i => cj < ci)
  BY Ordinals
<1>3. i = j => ci = cj
  OBVIOUS
<1>4. /\ Entry(p, i).id = ci /\ Entry(p, j).id = cj
      /\ Entry(p, i).priority = p.steps[i].priority
      /\ Entry(p, j).priority = p.steps[j].priority
  BY DEF Entry
<1> HIDE DEF ci, cj
<1>5. (ci < cj <=> i < j) /\ (ci = cj => i = j)
  BY <1>1, <1>2, <1>3
<1> QED
  BY <1>4, <1>5 DEF App!Before, Precedes

LEMMA PrecedesOrder ==
    ASSUME NEW p \in Programs, NEW i \in Registrations(p), NEW j \in Registrations(p)
    PROVE  /\ Precedes(p, i, j) => ~Precedes(p, j, i) /\ i # j
           /\ i # j => Precedes(p, i, j) \/ Precedes(p, j, i)
<1>1. i \in Nat /\ j \in Nat /\ p.steps[i].priority \in Nat /\ p.steps[j].priority \in Nat
  <2>1. p.steps[i].priority \in 0..MaxPriority /\ p.steps[j].priority \in 0..MaxPriority
    BY StepFacts
  <2>2. i \in Nat /\ j \in Nat
    BY StepFacts
  <2> QED
    BY <2>1, <2>2 DEF MaxPriority
<1> QED
  BY <1>1 DEF Precedes

LEMMA RegistersName ==
    ASSUME NEW p \in Programs, NEW i \in Registrations(p), NEW n
    PROVE  Registers(p, i, n) <=> NameOf(p, i) = n
BY StepFacts DEF Registers

-----------------------------------------------------------------------------
(* What the invariant says of a Stop under way *)

LEMMA MadeFacts ==
    ASSUME Types
    PROVE  /\ main \in Programs /\ pc \in Nat /\ pc >= 1 /\ pc <= Len(main.steps) + 1
           /\ Len(main.steps) \in Nat /\ DOMAIN main.steps = 1..Len(main.steps)
           /\ Made \in SUBSET Registrations(main) /\ Done \in SUBSET Made
           /\ IsFiniteSet(Made) /\ Cardinality(Made) \in Nat
           /\ DOMAIN server = Servers(main) /\ DOMAIN units = Servers(main)
<1>1. main \in Programs
  BY DEF Types
<1>2. Len(main.steps) \in Nat /\ DOMAIN main.steps = 1..Len(main.steps)
      /\ IsFiniteSet(Registrations(main))
  BY <1>1, StepFacts
<1>3. pc \in Nat /\ pc >= 1 /\ pc <= Len(main.steps) + 1
  BY <1>2 DEF Types
<1>4. Made \in SUBSET Registrations(main) /\ Done \in SUBSET Made
  BY DEF Made, Done
<1>5. IsFiniteSet(Made)
  BY <1>2, <1>4, FS_Subset
<1>6. Cardinality(Made) \in Nat
  BY <1>5, FS_CardinalityType
<1>7. DOMAIN server = Servers(main) /\ DOMAIN units = Servers(main)
  BY DEF Types
<1> QED
  BY <1>1, <1>2, <1>3, <1>4, <1>5, <1>6, <1>7

(* A unit that reaches a closed service which Stop closes after its server: *)
(* the server's shutdown function has returned and left the unit behind.    *)
LEMMA ClosedIsLeft ==
    ASSUME IInv, NEW s \in Servers(main), units[s] > 0,
           NEW r \in (Uses(main, s) \cap built) \ (open \cup nil), Ordered(main, s, r)
    PROVE  s \in left
<1> USE DEF IInv
<1>1. main \in Programs /\ pc \in Nat /\ DOMAIN main.steps = 1..Len(main.steps)
      /\ Len(main.steps) \in Nat
      /\ Made \in SUBSET Registrations(main) /\ Done \in SUBSET Made
  BY MadeFacts
<1>2. r \in Closable
  BY DEF Uses
<1>3. PICK j \in Done : NameOf(main, j) = r
  BY <1>2 DEF Closing
<1>4. PICK i \in Registrations(main) : Registers(main, i, s)
  BY DEF Ordered
<1>5. j \in Registrations(main) /\ Registers(main, j, r) /\ NameOf(main, i) = s
  BY <1>1, <1>3, <1>4, RegistersName
<1>6. s # r
  <2>1. s \in AllServers
    BY <1>1 DEF AllServers
  <2> QED
    BY <1>2, <2>1, StepsAssumption
<1>7. ~Ordered(main, r, s)
  BY <1>1, ServersAssumption
<1>8. Precedes(main, i, j)
  <2>1. ~Precedes(main, j, i)
    BY <1>4, <1>5, <1>7 DEF Ordered
  <2>2. i # j
    BY <1>3, <1>5, <1>6
  <2> QED
    BY <1>1, <1>4, <1>5, <2>1, <2>2, PrecedesOrder
<1>9. CASE i < pc
  <2>1. i \in Made
    BY <1>4, <1>9 DEF Made
  <2>2. i \in Done
    BY <1>3, <1>8, <2>1 DEF InOrder
  <2>3. server[s] = "stopped"
    BY <1>5, <2>2 DEF Closing
  <2> QED
    BY <2>3 DEF Serving
<1>10. CASE ~(i < pc)
  <2>1. i \in 1..Len(main.steps) /\ pc <= i
    BY <1>1, <1>4, <1>10, StepFacts
  <2>2. MayStop(main, pc)
    <3>1. ~(pc > Len(main.steps))
      BY <1>1, <2>1
    <3> QED
      BY <1>3, <3>1 DEF Halted, Halting
  <2>3. PICK k \in DOMAIN main.steps :
          k < pc /\ main.steps[k].op = "serve" /\ s \in main.steps[k].what
    BY DEF Serving
  <2>4. pc # i
    BY <1>4, <2>2 DEF Registrations, MayStop
  <2>5. pc \in DOMAIN main.steps /\ k < pc /\ pc < i
    BY <1>1, <2>1, <2>3, <2>4
  <2> QED
    BY <1>1, <1>4, <2>1, <2>2, <2>3, <2>5, ServersAssumption
<1> QED
  BY <1>9, <1>10

(* The priorities respect the container. *)
LEMMA BuiltOnIsHeld ==
    ASSUME IInv
    PROVE  HeldBelow
<1> USE DEF IInv
<1> SUFFICES ASSUME NEW r \in open, NEW q \in main.graph[r] \cap Closable \cap built,
                    q \notin open \cup nil
             PROVE  FALSE
  BY DEF HeldBelow
<1>1. main \in Programs /\ pc \in Nat /\ DOMAIN main.steps = 1..Len(main.steps)
      /\ Len(main.steps) \in Nat
      /\ Made \in SUBSET Registrations(main) /\ Done \in SUBSET Made
  BY MadeFacts
<1>2. PICK j \in Done : NameOf(main, j) = q
  BY DEF Closing
<1>3. j \in Registrations(main) /\ Registers(main, j, q) /\ j \in DOMAIN main.steps /\ j < pc
  BY <1>1, <1>2, RegistersName DEF Made, Registrations
<1>4. r # "logger"
  BY <1>1, StepsAssumption
<1>5. r \in built /\ r \in Closable
  BY DEF Types, Building
<1>6. PICK k \in DOMAIN main.steps :
        k <= pc /\ main.steps[k].op = "need" /\ r \in Reach(main, main.steps[k].what)
  BY <1>4, <1>5 DEF Building
<1>7. r \in Services(main)
  BY <1>1, <1>6, ProvidersAssumption
<1>8. PICK i \in DOMAIN main.steps :
        /\ Registers(main, i, r) /\ Precedes(main, i, j)
        /\ \A t \in DOMAIN main.steps : t >= k /\ t > j /\ MayStop(main, t) => i < t
  BY <1>1, <1>3, <1>5, <1>6, <1>7, ContainerAssumption
<1>9. i < pc
  <2>1. CASE pc > Len(main.steps)
    BY <1>1, <1>8, <2>1
  <2>2. CASE MayStop(main, pc) /\ ~(pc > Len(main.steps))
    <3>1. pc \in DOMAIN main.steps /\ pc >= k /\ pc > j
      BY <1>1, <1>3, <1>6, <2>2
    <3> QED
      BY <1>8, <2>2, <3>1
  <2> QED
    BY <1>2, <2>1, <2>2 DEF Halted, Halting
<1>10. i \in Registrations(main) /\ i \in Made /\ NameOf(main, i) = r
  BY <1>1, <1>8, <1>9, RegistersName DEF Made, Registers
<1>11. i \in Done
  BY <1>2, <1>8, <1>10 DEF InOrder
<1>12. r \notin Servers(main)
  <2>1. \A x \in Servers(main) : x \in AllServers
    BY <1>1 DEF AllServers
  <2> QED
    BY <1>5, <2>1, StepsAssumption
<1> QED
  BY <1>10, <1>11, <1>12 DEF Closing

(* After a start and a Stop that ran to the end. *)
LEMMA AllIsClosed ==
    ASSUME IInv
    PROVE  ClosedAfterStop
<1> USE DEF IInv
<1> SUFFICES ASSUME phase = "swept", pc > Len(main.steps)
             PROVE  /\ \A s \in Servers(main) : server[s] = "stopped" \/ main.kind[s] \in {"loop", "joined"}
                    /\ \A s \in Servers(main) : units[s] > 0 => s \in left \/ main.kind[s] = "loop"
                    /\ \A r \in open : ~\E i \in DOMAIN main.steps : Registers(main, i, r)
  BY MadeFacts DEF ClosedAfterStop
<1>1. main \in Programs /\ pc \in Nat /\ DOMAIN main.steps = 1..Len(main.steps)
      /\ Len(main.steps) \in Nat
  BY MadeFacts
<1>2. ASSUME NEW n, NEW i \in DOMAIN main.steps, Registers(main, i, n)
      PROVE  i \in Done /\ NameOf(main, i) = n
  <2>1. i \in Registrations(main) /\ i < pc
    BY <1>1, <1>2 DEF Registers
  <2>2. i \in Done
    BY <2>1 DEF Pool, Done, Made
  <2> QED
    BY <1>1, <1>2, <2>1, <2>2, RegistersName
<1>3. ASSUME NEW s \in Servers(main), main.kind[s] \notin {"loop", "joined"}
      PROVE  server[s] = "stopped"
  <2>1. PICK i \in DOMAIN main.steps : Registers(main, i, s)
    BY <1>1, <1>3, ReleaseAssumption
  <2> QED
    BY <1>2, <2>1 DEF Closing
<1>4. ASSUME NEW s \in Servers(main), units[s] > 0, main.kind[s] # "loop" PROVE s \in left
  <2>1. main.kind[s] # "joined"
    <3>1. main.kind[s] = "joined" => units[s] = 0
      BY DEF Halted
    <3> QED
      BY <1>4, <3>1
  <2>2. server[s] = "stopped"
    BY <1>3, <1>4, <2>1
  <2> QED
    BY <1>4, <2>2 DEF Serving
<1>5. ASSUME NEW r \in open, NEW i \in DOMAIN main.steps, Registers(main, i, r) PROVE FALSE
  <2>1. r \notin Servers(main)
    <3>1. r \in Servers(main) => r \in AllServers
      BY <1>1 DEF AllServers
    <3> QED
      BY <3>1, StepsAssumption DEF Building
  <2> QED
    BY <1>2, <1>5, <2>1 DEF Closing
<1> QED
  BY <1>3, <1>4, <1>5

-----------------------------------------------------------------------------
(* Initial states and the steps of main *)

LEMMA InitIInv == Init => IInv
<1> SUFFICES ASSUME Init PROVE IInv
  OBVIOUS
<1>1. main \in Programs /\ pc = 1 /\ pending = {} /\ nreg = 0 /\ phase = "open"
  BY DEF Init, App!Init
<1>2. Len(main.steps) \in Nat /\ Registrations(main) \in SUBSET (1..Len(main.steps))
  BY <1>1, StepFacts
<1>3. Types
  <2>1. pc \in 1..Len(main.steps) + 1
    BY <1>1, <1>2
  <2>2. 0 \in 0..MaxUnits
    BY MaxUnitsAssumption
  <2> QED
    BY <1>1, <2>1, <2>2 DEF Init, Types
<1>4. Made = {} /\ Done = {}
  BY <1>1, <1>2 DEF Made, Done
<1>5. Pool
  BY <1>1, <1>4, FS_EmptySet DEF Pool
<1>6. InOrder /\ Closing
  BY <1>4, StepsAssumption DEF InOrder, Closing, Init
<1>7. Building
  BY StepsAssumption DEF Building, Init
<1>8. Halted
  BY <1>1, <1>4 DEF Halted
<1>9. Serving /\ NoUseAfterClose
  BY DEF Serving, NoUseAfterClose, Init
<1> QED
  BY <1>3, <1>5, <1>6, <1>7, <1>8, <1>9 DEF IInv

(* Actions that neither register nor complete nor move main. *)
LEMMA PoolFrame ==
    ASSUME IInv, UNCHANGED <<main, pc, pending>>
    PROVE  Made' = Made /\ Done' = Done /\ InOrder' /\ Halting' = Halting
<1>1. Made' = Made
  BY DEF Made
<1>2. Done' = Done
  BY <1>1 DEF Done
<1>3. InOrder'
  BY <1>1, <1>2 DEF IInv, InOrder
<1>4. Halting' = Halting
  BY DEF Halting
<1> QED
  BY <1>1, <1>2, <1>3, <1>4

LEMMA ExitStep ==
    ASSUME IInv, Exit
    PROVE  IInv'
<1> USE DEF IInv
<1>1. UNCHANGED <<main, pc, built, nil, open, father, server, units, left, misuse,
                  pending, completed, nreg>> /\ phase' = "dead"
  BY DEF Exit, App!Die, processVars, serverVars
<1>2. Made' = Made /\ Done' = Done /\ InOrder' /\ Halting' = Halting
  BY <1>1, PoolFrame
<1>3. Types'
  BY <1>1 DEF Types
<1>4. Pool'
  BY <1>1, <1>2 DEF Pool
<1>5. Closing'
  BY <1>1, <1>2 DEF Closing
<1>6. Building' /\ Serving' /\ NoUseAfterClose'
  BY <1>1 DEF Building, Serving, NoUseAfterClose
<1>7. Halted'
  BY <1>1, <1>2 DEF Halted
<1> QED
  BY <1>2, <1>3, <1>4, <1>5, <1>6, <1>7

LEMMA StopStep ==
    ASSUME IInv, StopNow, Halting,
           pc > Len(main.steps) =>
             father /\ \A s \in Servers(main) : main.kind[s] = "joined" => units[s] = 0
    PROVE  IInv'
<1> USE DEF IInv
<1>1. UNCHANGED <<main, pc, built, nil, open, father, server, units, left, misuse,
                  pending, completed, nreg>> /\ phase' = "sweeping"
  BY DEF StopNow, App!BeginSweep, processVars, serverVars
<1>2. Made' = Made /\ Done' = Done /\ InOrder' /\ Halting' = Halting
  BY <1>1, PoolFrame
<1>3. Types'
  BY <1>1 DEF Types
<1>4. Pool'
  BY <1>1, <1>2 DEF Pool
<1>5. Closing'
  BY <1>1, <1>2 DEF Closing
<1>6. Building' /\ Serving' /\ NoUseAfterClose'
  BY <1>1 DEF Building, Serving, NoUseAfterClose
<1>7. Halted'
  BY <1>1, <1>2 DEF Halted
<1> QED
  BY <1>2, <1>3, <1>4, <1>5, <1>6, <1>7

(* A step of main that registers nothing: the entries stay as they are, and *)
(* what was built and started by an earlier step still was.                 *)
LEMMA MainGoesOn ==
    ASSUME IInv, phase = "open", phase' = "open", pc <= Len(main.steps), Advance,
           main.steps[pc].op # "register", UNCHANGED <<pending, nreg, built, nil, open, left, misuse>>
    PROVE  /\ pc' \in 1..Len(main.steps) + 1 /\ main' = main /\ father' = father
           /\ Pool' /\ Done' = {} /\ InOrder' /\ Closing' /\ Building' /\ Halted' /\ NoUseAfterClose'
<1> USE DEF IInv
<1>1. pc' = pc + 1 /\ main' = main /\ father' = father
  BY DEF Advance
<1>2. /\ main \in Programs /\ pc \in Nat /\ Len(main.steps) \in Nat /\ pc >= 1
      /\ Registrations(main) \in SUBSET (1..Len(main.steps))
      /\ DOMAIN main.steps = 1..Len(main.steps)
  BY MadeFacts, StepFacts
<1>3. pc' \in 1..Len(main.steps) + 1
  BY <1>1, <1>2
<1>4. Made' = Made
  <2>1. pc \notin Registrations(main)
    BY DEF Registrations
  <2>2. \A i \in Registrations(main) : i < pc + 1 <=> i < pc
    BY <1>2, <2>1
  <2> QED
    BY <1>1, <2>2 DEF Made
<1>5. Done' = Done /\ Done = {}
  BY <1>1, <1>4 DEF Done, Pool
<1>6. Pool' /\ InOrder' /\ Closing' /\ Halted'
  BY <1>1, <1>4, <1>5 DEF Pool, InOrder, Closing, Halted
<1>7. Building'
  <2>1. \A k \in DOMAIN main.steps : k <= pc => k <= pc'
    BY <1>1, <1>2
  <2> QED
    BY <1>1, <2>1 DEF Building
<1>8. NoUseAfterClose'
  BY <1>1 DEF NoUseAfterClose
<1> QED
  BY <1>1, <1>3, <1>5, <1>6, <1>7, <1>8

(* What a server's units need to have started it stays in the past. *)
LEMMA ServingGoesOn ==
    ASSUME IInv, main' = main, pc' = pc + 1, UNCHANGED <<server, units, left>>
    PROVE  Serving'
<1> USE DEF IInv
<1>1. pc \in Nat /\ DOMAIN main.steps = 1..Len(main.steps) /\ Len(main.steps) \in Nat
  BY MadeFacts
<1>2. \A k \in DOMAIN main.steps : k < pc => k < pc'
  BY <1>1
<1> QED
  BY <1>2 DEF Serving

LEMMA AdvanceStep ==
    ASSUME IInv, phase = "open", pc <= Len(main.steps), Advance,
           main.steps[pc].op # "register", UNCHANGED <<built, nil, open, serverVars, appVars>>
    PROVE  IInv'
<1> USE DEF IInv
<1>1. UNCHANGED <<built, nil, open, server, units, left, misuse, pending, nreg, phase>>
  BY DEF serverVars, appVars
<1>2. /\ pc' \in 1..Len(main.steps) + 1 /\ main' = main /\ father' = father
      /\ Pool' /\ InOrder' /\ Closing' /\ Building' /\ Halted' /\ NoUseAfterClose'
  BY <1>1, MainGoesOn
<1>3. Types'
  BY <1>1, <1>2 DEF Types
<1>4. Serving'
  BY <1>1, <1>2, ServingGoesOn DEF Advance
<1> QED
  BY <1>2, <1>3, <1>4

LEMMA ConstructStep ==
    ASSUME IInv, NEW s, Construct(s)
    PROVE  IInv'
<1> USE DEF IInv
<1>1. /\ UNCHANGED <<main, pc, father, server, units, left, misuse, pending, completed, nreg, phase>>
      /\ phase = "open" /\ built' = built \cup {s}
      /\ s \in Reach(main, main.steps[pc].what) \ built
      /\ pc <= Len(main.steps) /\ main.steps[pc].op = "need"
      /\ \/ open' = open \cup ({s} \cap Closable) /\ nil' = nil
         \/ s \in NilOnError /\ nil' = nil \cup {s} /\ open' = open
  BY DEF Construct, NextToBuild, Doing, Wanted, serverVars, appVars
<1>2. Made' = Made /\ Done' = Done /\ InOrder' /\ Halting' = Halting
  BY <1>1, PoolFrame
<1>3. Types'
  <2>1. nil' \subseteq built' /\ open' \subseteq built' /\ nil' \cap open' = {}
    BY <1>1 DEF Types
  <2> QED
    BY <1>1, <2>1 DEF Types
<1>4. Pool' /\ Halted'
  BY <1>1, <1>2 DEF Pool, Halted
<1>5. Closing'
  <2>1. Done = {}
    BY <1>1 DEF Pool
  <2>2. (built' \cap Closable) \ (open' \cup nil') \subseteq (built \cap Closable) \ (open \cup nil)
    BY <1>1
  <2> QED
    BY <1>1, <1>2, <2>1, <2>2 DEF Closing
<1>6. Building'
  <2>1. pc \in DOMAIN main.steps /\ pc <= pc
    BY <1>1, MadeFacts
  <2>2. nil' \subseteq NilOnError /\ open' \subseteq Closable
    BY <1>1 DEF Building
  <2>3. \A r \in built' : r \in built \/ r = s
    BY <1>1
  <2> QED
    BY <1>1, <2>1, <2>2, <2>3 DEF Building
<1>7. Serving' /\ NoUseAfterClose'
  BY <1>1 DEF Serving, NoUseAfterClose
<1> QED
  BY <1>2, <1>3, <1>4, <1>5, <1>6, <1>7

(* The entry that RegisterShutdown makes is that of the step. *)
LEMMA RegisterStep ==
    ASSUME IInv, Register
    PROVE  IInv'
<1> USE DEF IInv
<1>1. /\ pc' = pc + 1 /\ phase = "open" /\ nreg' = nreg + 1
      /\ pc <= Len(main.steps) /\ main.steps[pc].op = "register"
      /\ UNCHANGED <<main, father, phase, built, nil, open, server, units, left, misuse>>
  BY DEF Register, Doing, Advance, serverVars
<1>2. /\ main \in Programs /\ pc \in Nat /\ Len(main.steps) \in Nat /\ pc >= 1
      /\ Registrations(main) \in SUBSET (1..Len(main.steps))
      /\ DOMAIN main.steps = 1..Len(main.steps)
      /\ IsFiniteSet(Made) /\ Cardinality(Made) \in Nat
  BY MadeFacts, StepFacts
<1>3. pc \in Registrations(main)
  BY <1>1, <1>2 DEF Registrations
<1>4. \A i \in Registrations(main) : (i < pc + 1 <=> i < pc \/ i = pc) /\ (i <= pc <=> i < pc + 1)
  BY <1>2
<1>5. Made' = Made \cup {pc} /\ pc \notin Made /\ Upto(main, pc) = Made \cup {pc}
  BY <1>1, <1>2, <1>3, <1>4 DEF Made, Upto
<1>6. Cardinality(Made \cup {pc}) = Cardinality(Made) + 1
  BY <1>2, <1>5, FS_AddElement
<1>7. pending' = pending \cup {Entry(main, pc)}
  <2>1. main.steps[pc].what = {NameOf(main, pc)}
    BY <1>2, <1>3, StepFacts
  <2>2. nreg + 1 = Cardinality(Upto(main, pc))
    BY <1>5, <1>6 DEF Pool
  <2>3. \E n \in main.steps[pc].what :
          pending' = pending \cup {[id |-> nreg + 1, name |-> n,
                                    priority |-> main.steps[pc].priority]}
    BY DEF Register, Wanted
  <2>4. pending' = pending \cup {[id |-> nreg + 1, name |-> NameOf(main, pc),
                                  priority |-> main.steps[pc].priority]}
    BY <2>1, <2>3
  <2> QED
    BY <2>2, <2>4 DEF Entry
<1>8. Done' = {} /\ Done = {}
  <2>1. Done = {}
    BY <1>1 DEF Pool
  <2>2. \A i \in Made : Entry(main, i) \in pending
    BY <2>1 DEF Done
  <2>3. \A i \in Made' : Entry(main, i) \in pending'
    BY <1>5, <1>7, <2>2
  <2> QED
    BY <1>1, <2>1, <2>3 DEF Done
<1>9. Pool'
  <2>1. \A a \in pending' : \E i \in Made' : a = Entry(main, i)
    BY <1>5, <1>7 DEF Pool
  <2>2. nreg' = Cardinality(Made')
    BY <1>1, <1>5, <1>6 DEF Pool
  <2> QED
    BY <1>1, <1>8, <2>1, <2>2 DEF Pool
<1>10. InOrder' /\ Halted' /\ Closing'
  BY <1>1, <1>8 DEF InOrder, Halted, Closing
<1>11. Building'
  <2>1. \A k \in DOMAIN main.steps : k <= pc => k <= pc'
    BY <1>1, <1>2
  <2> QED
    BY <1>1, <2>1 DEF Building
<1>12. Serving' /\ NoUseAfterClose'
  BY <1>1, ServingGoesOn DEF NoUseAfterClose
<1>13. Types'
  <2>1. pc' \in 1..Len(main.steps) + 1
    BY <1>1, <1>2
  <2> QED
    BY <1>1, <2>1 DEF Types
<1> QED
  BY <1>9, <1>10, <1>11, <1>12, <1>13

LEMMA StartStep ==
    ASSUME IInv, NEW k, Start(k)
    PROVE  IInv'
<1> USE DEF IInv
<1>1. PICK s \in main.steps[pc].what : main.kind[s] = k /\ server' = [server EXCEPT ![s] = "on"]
  BY DEF Start, Wanted
<1>2. /\ phase = "open" /\ phase' = "open" /\ pc <= Len(main.steps)
      /\ main.steps[pc].op = "serve" /\ Advance /\ pc' = pc + 1
      /\ UNCHANGED <<built, nil, open, units, left, misuse, pending, nreg>>
  BY DEF Start, Doing, Advance, appVars
<1>3. /\ pc' \in 1..Len(main.steps) + 1 /\ main' = main /\ father' = father
      /\ Pool' /\ InOrder' /\ Closing' /\ Building' /\ Halted' /\ NoUseAfterClose'
  BY <1>2, MainGoesOn
<1>4. server \in [Servers(main) -> {"off", "on", "draining", "stopped"}]
  BY DEF Types
<1>5. Types'
  <2>1. server' \in [Servers(main) -> {"off", "on", "draining", "stopped"}]
    BY <1>1, <1>4
  <2> QED
    BY <1>2, <1>3, <2>1 DEF Types
<1>6. Serving'
  <2> SUFFICES ASSUME NEW x \in Servers(main)
               PROVE  /\ server'[x] # "off" =>
                           \E j \in DOMAIN main.steps :
                             j < pc' /\ main.steps[j].op = "serve" /\ x \in main.steps[j].what
                      /\ units[x] > 0 => server'[x] # "off"
                      /\ units[x] > 0 /\ server'[x] = "stopped" => x \in left
    BY <1>2, <1>3 DEF Serving
  <2>1. pc \in DOMAIN main.steps /\ pc < pc' /\ \A j \in DOMAIN main.steps : j < pc => j < pc'
    BY <1>2, MadeFacts
  <2>2. CASE x = s
    BY <1>1, <1>2, <1>4, <2>1, <2>2
  <2>3. CASE x # s
    <3>1. server'[x] = server[x]
      BY <1>1, <1>4, <2>3
    <3> QED
      BY <2>1, <3>1 DEF Serving
  <2> QED
    BY <2>2, <2>3
<1> QED
  BY <1>3, <1>5, <1>6

-----------------------------------------------------------------------------
(* Stop *)

(* Completing the first entry of the registry makes one registration done,  *)
(* the first of those that were not.                                        *)
LEMMA CompleteFirst ==
    ASSUME IInv, NEW a \in pending, Next1(a), App!Complete(a), UNCHANGED <<main, pc>>
    PROVE  /\ Pool' /\ InOrder' /\ phase' = "sweeping" /\ phase = "sweeping"
           /\ \E i \in Made : a = Entry(main, i) /\ Done' = Done \cup {i}
<1> USE DEF IInv
<1>1. main \in Programs /\ Made \in SUBSET Registrations(main) /\ Done \in SUBSET Made
  BY MadeFacts
<1>2. PICK i \in Made : a = Entry(main, i)
  BY DEF Pool
<1>3. pending' = pending \ {a} /\ nreg' = nreg /\ phase' = phase /\ phase = "sweeping"
      /\ \A b \in pending \ {a} : App!Before(a, b)
  BY DEF Next1, App!Complete, App!First
<1>4. Made' = Made
  BY DEF Made
<1>5. \A j \in Made : Entry(main, j) = a => j = i
  BY <1>1, <1>2, EntryOrder
<1>6. Done' = Done \cup {i}
  <2>1. \A j \in Made : Entry(main, j) \notin pending' <=> j \in Done \/ j = i
    BY <1>2, <1>3, <1>5 DEF Done
  <2>2. Done' = {j \in Made : Entry(main, j) \notin pending'}
    BY <1>4 DEF Done
  <2> QED
    BY <1>1, <2>1, <2>2
<1>7. Pool'
  <2>1. \A b \in pending' : b \in pending
    BY <1>3
  <2> QED
    BY <1>3, <1>4, <2>1 DEF Pool
<1>8. InOrder'
  <2> SUFFICES ASSUME NEW k \in Made, NEW j \in Done \cup {i}, Precedes(main, k, j)
               PROVE  k \in Done \cup {i}
    BY <1>4, <1>6 DEF InOrder
  <2>1. CASE j \in Done
    BY <2>1 DEF InOrder
  <2>2. CASE j = i
    <3> SUFFICES ASSUME k \notin Done PROVE FALSE
      OBVIOUS
    <3>1. k # i /\ ~Precedes(main, i, k)
      BY <1>1, <2>2, PrecedesOrder
    <3>2. Entry(main, k) \in pending \ {a}
      BY <1>5, <3>1 DEF Done
    <3>3. App!Before(Entry(main, i), Entry(main, k))
      BY <1>2, <1>3, <3>2
    <3> QED
      BY <1>1, <3>1, <3>3, EntryOrder
  <2> QED
    BY <2>1, <2>2
<1> QED
  BY <1>2, <1>3, <1>6, <1>7, <1>8

LEMMA CloseStep ==
    ASSUME IInv, CloseService
    PROVE  IInv'
<1> USE DEF IInv
<1>1. PICK a \in pending :
        /\ Next1(a)
        /\ a.name \notin DOMAIN server
        /\ open' = open \ {a.name}
        /\ App!Complete(a)
        /\ UNCHANGED <<main, pc, built, nil, father, serverVars>>
  BY DEF CloseService
<1>2. UNCHANGED <<main, pc, built, nil, father, server, units, left, misuse>>
  BY <1>1 DEF serverVars
<1>3. Pool' /\ InOrder' /\ phase' = "sweeping" /\ phase = "sweeping"
  BY <1>1, <1>2, CompleteFirst
<1>4. PICK i \in Made : a = Entry(main, i) /\ Done' = Done \cup {i}
  BY <1>1, <1>2, CompleteFirst
<1>5. NameOf(main, i) = a.name /\ NameOf(main, i) \notin Servers(main)
  BY <1>1, <1>4, MadeFacts DEF Entry
<1>6. Closing'
  <2>1. ASSUME NEW r \in (built \cap Closable) \ (open' \cup nil)
        PROVE  \E j \in Done' : NameOf(main, j) = r
    <3>1. CASE r = a.name
      BY <1>4, <1>5, <3>1
    <3>2. CASE r # a.name
      BY <1>1, <1>4, <3>2 DEF Closing
    <3> QED
      BY <3>1, <3>2
  <2>2. ASSUME NEW j \in Done'
        PROVE  IF NameOf(main, j) \in Servers(main)
               THEN server[NameOf(main, j)] = "stopped" ELSE NameOf(main, j) \notin open'
    <3>1. CASE j \in Done
      BY <1>1, <3>1 DEF Closing
    <3>2. CASE j = i
      BY <1>1, <1>5, <3>2
    <3> QED
      BY <1>4, <3>1, <3>2
  <2> QED
    BY <1>2, <2>1, <2>2 DEF Closing
<1>7. Types' /\ Building'
  BY <1>1, <1>2 DEF Types, Building
<1>8. Halted'
  <2>1. Halting' = Halting
    BY <1>2 DEF Halting
  <2> QED
    BY <1>2, <1>3, <2>1 DEF Halted
<1>9. Serving' /\ NoUseAfterClose'
  BY <1>2 DEF Serving, NoUseAfterClose
<1> QED
  BY <1>3, <1>6, <1>7, <1>8, <1>9

LEMMA ShutdownStep ==
    ASSUME IInv, NEW s \in Servers(main), ShutdownReturns(s)
    PROVE  IInv'
<1> USE DEF IInv
<1>1. PICK a \in pending :
        /\ Next1(a)
        /\ a.name = s
        /\ server[s] = "draining"
        /\ server' = [server EXCEPT ![s] = "stopped"]
        /\ left' = IF units[s] > 0 THEN left \cup {s} ELSE left
        /\ App!Complete(a)
        /\ UNCHANGED <<processVars, units, misuse>>
  BY DEF ShutdownReturns
<1>2. UNCHANGED <<main, pc, built, nil, open, father, units, misuse>>
  BY <1>1 DEF processVars
<1>3. Pool' /\ InOrder' /\ phase' = "sweeping" /\ phase = "sweeping"
  BY <1>1, <1>2, CompleteFirst
<1>4. PICK i \in Made : a = Entry(main, i) /\ Done' = Done \cup {i}
  BY <1>1, <1>2, CompleteFirst
<1>5. NameOf(main, i) = s
  BY <1>1, <1>4 DEF Entry
<1>6. server \in [Servers(main) -> {"off", "on", "draining", "stopped"}]
      /\ left \subseteq Servers(main)
  BY DEF Types
<1>7. \A x \in Servers(main) : server'[x] = IF x = s THEN "stopped" ELSE server[x]
  BY <1>1, <1>6
<1>8. Closing'
  <2>1. ASSUME NEW j \in Done'
        PROVE  IF NameOf(main, j) \in Servers(main)
               THEN server'[NameOf(main, j)] = "stopped" ELSE NameOf(main, j) \notin open
    <3>1. CASE j \in Done
      BY <1>7, <3>1 DEF Closing
    <3>2. CASE j = i
      BY <1>5, <1>7, <3>2
    <3> QED
      BY <1>4, <3>1, <3>2
  <2>2. \A r \in (built \cap Closable) \ (open \cup nil) : \E j \in Done' : NameOf(main, j) = r
    BY <1>4 DEF Closing
  <2> QED
    BY <1>2, <2>1, <2>2 DEF Closing
<1>9. Types'
  <2>1. server' \in [Servers(main) -> {"off", "on", "draining", "stopped"}]
    BY <1>1, <1>6
  <2>2. left' \subseteq Servers(main)
    BY <1>1, <1>6
  <2> QED
    BY <1>2, <2>1, <2>2 DEF Types
<1>10. Building'
  BY <1>2 DEF Building
<1>11. Halted'
  <2>1. Halting' = Halting
    BY <1>2 DEF Halting
  <2> QED
    BY <1>2, <1>3, <2>1 DEF Halted
<1>12. left \subseteq left' /\ (units[s] > 0 => s \in left')
  BY <1>1
<1>13. NoUseAfterClose'
  BY <1>2, <1>12 DEF NoUseAfterClose
<1>14. Serving'
  <2> SUFFICES ASSUME NEW x \in Servers(main)
               PROVE  /\ server'[x] # "off" =>
                           \E k \in DOMAIN main.steps :
                             k < pc /\ main.steps[k].op = "serve" /\ x \in main.steps[k].what
                      /\ units[x] > 0 => server'[x] # "off"
                      /\ units[x] > 0 /\ server'[x] = "stopped" => x \in left'
    BY <1>2 DEF Serving
  <2>1. CASE x = s
    <3>1. \E k \in DOMAIN main.steps :
            k < pc /\ main.steps[k].op = "serve" /\ x \in main.steps[k].what
      BY <1>1, <2>1 DEF Serving
    <3> QED
      BY <1>7, <1>12, <2>1, <3>1
  <2>2. CASE x # s
    BY <1>7, <1>12, <2>2 DEF Serving
  <2> QED
    BY <2>1, <2>2
<1> QED
  BY <1>3, <1>8, <1>9, <1>10, <1>11, <1>13, <1>14

LEMMA BeginShutdownStep ==
    ASSUME IInv, BeginServerShutdown
    PROVE  IInv'
<1> USE DEF IInv
<1>1. PICK a \in pending :
        a.name \in DOMAIN server /\ server[a.name] = "on"
        /\ server' = [server EXCEPT ![a.name] = "draining"]
  BY DEF BeginServerShutdown
<1>2. UNCHANGED <<main, pc, built, nil, open, father, units, left, misuse, pending, nreg, phase>>
  BY DEF BeginServerShutdown, processVars, appVars
<1>3. Made' = Made /\ Done' = Done /\ InOrder' /\ Halting' = Halting
  BY <1>2, PoolFrame
<1>4. server \in [Servers(main) -> {"off", "on", "draining", "stopped"}]
      /\ a.name \in Servers(main)
  BY <1>1, MadeFacts DEF Types
<1>5. \A x \in Servers(main) : server'[x] = IF x = a.name THEN "draining" ELSE server[x]
  BY <1>1, <1>4
<1>6. Types'
  <2>1. server' \in [Servers(main) -> {"off", "on", "draining", "stopped"}]
    BY <1>1, <1>4
  <2> QED
    BY <1>2, <2>1 DEF Types
<1>7. Pool' /\ Building' /\ Halted' /\ NoUseAfterClose'
  BY <1>2, <1>3 DEF Pool, Building, Halted, NoUseAfterClose
<1>8. Closing'
  <2>1. \A x \in Servers(main) : server[x] = "stopped" => server'[x] = "stopped"
    BY <1>1, <1>5
  <2> QED
    BY <1>2, <1>3, <2>1 DEF Closing
<1>9. Serving'
  <2>1. \A x \in Servers(main) : /\ server'[x] = "off" <=> server[x] = "off"
                                 /\ server'[x] = "stopped" => server[x] = "stopped"
    BY <1>1, <1>5
  <2> QED
    BY <1>2, <2>1 DEF Serving
<1> QED
  BY <1>3, <1>6, <1>7, <1>8, <1>9

LEMMA EndStep ==
    ASSUME IInv, EndStop
    PROVE  IInv'
<1> USE DEF IInv
<1>1. /\ UNCHANGED <<main, pc, built, nil, open, father, server, units, left, misuse, pending, nreg>>
      /\ phase = "sweeping" /\ pending = {} /\ phase' = "swept"
  BY DEF EndStop, App!EndSweep, processVars, serverVars
<1>2. Made' = Made /\ Done' = Done /\ InOrder' /\ Halting' = Halting
  BY <1>1, PoolFrame
<1>3. Types' /\ Building' /\ Serving' /\ NoUseAfterClose'
  BY <1>1 DEF Types, Building, Serving, NoUseAfterClose
<1>4. Pool' /\ Closing' /\ Halted'
  BY <1>1, <1>2 DEF Pool, Closing, Halted
<1> QED
  BY <1>2, <1>3, <1>4

-----------------------------------------------------------------------------
(* The signal, a panic, and units of work *)

LEMMA FatherStep ==
    ASSUME IInv, father' \in BOOLEAN, father => father',
           UNCHANGED <<main, pc, built, nil, open, serverVars, appVars>>
    PROVE  IInv'
<1> USE DEF IInv
<1>1. UNCHANGED <<main, pc, built, nil, open, server, units, left, misuse, pending, nreg, phase>>
  BY DEF serverVars, appVars
<1>2. Made' = Made /\ Done' = Done /\ InOrder' /\ Halting' = Halting
  BY <1>1, PoolFrame
<1>3. Types' /\ Building' /\ Serving' /\ NoUseAfterClose'
  BY <1>1 DEF Types, Building, Serving, NoUseAfterClose
<1>4. Pool' /\ Closing' /\ Halted'
  BY <1>1, <1>2 DEF Pool, Closing, Halted
<1> QED
  BY <1>2, <1>3, <1>4

(* A unit comes to a server that is on, or goes. *)
LEMMA UnitsStep ==
    ASSUME IInv, NEW s, Arrive(s) \/ Finish(s)
    PROVE  IInv'
<1> USE DEF IInv
<1>1. UNCHANGED <<main, pc, built, nil, open, father, server, left, misuse, pending, nreg, phase>>
  BY DEF Arrive, Finish, processVars, appVars
<1>2. Made' = Made /\ Done' = Done /\ InOrder' /\ Halting' = Halting
  BY <1>1, PoolFrame
<1>3. s \in Servers(main) /\ units \in [Servers(main) -> 0..MaxUnits] /\ MaxUnits \in Nat
  BY MadeFacts, MaxUnitsAssumption DEF Arrive, Finish, Types
<1>4. units[s] \in Nat /\ units[s] <= MaxUnits
  BY <1>3
<1>5. PICK n \in 0..MaxUnits :
        /\ units' = [units EXCEPT ![s] = n]
        /\ n > 0 => units[s] > 0 \/ server[s] = "on"
        /\ n > 0 /\ units[s] = 0 /\ main.kind[s] \in {"loop", "joined"} => ~father
  <2>1. CASE Arrive(s)
    <3>1. units[s] + 1 \in 0..MaxUnits
      BY <1>3, <1>4, <2>1 DEF Arrive
    <3> QED
      BY <2>1, <3>1 DEF Arrive
  <2>2. CASE Finish(s)
    <3>1. units[s] - 1 \in 0..MaxUnits /\ units[s] > 0
      BY <1>3, <1>4, <2>2 DEF Finish
    <3>2. ~(units[s] = 0)
      BY <1>4, <3>1
    <3> QED
      BY <2>2, <3>1, <3>2 DEF Finish
  <2> QED
    BY <2>1, <2>2
<1>6. \A x \in Servers(main) : units'[x] = IF x = s THEN n ELSE units[x]
  BY <1>3, <1>5
<1>7. Types'
  <2>1. units' \in [Servers(main) -> 0..MaxUnits]
    BY <1>3, <1>5
  <2> QED
    BY <1>1, <2>1 DEF Types
<1>8. Pool' /\ Closing' /\ Building' /\ NoUseAfterClose'
  BY <1>1, <1>2 DEF Pool, Closing, Building, NoUseAfterClose
<1>9. Serving'
  <2> SUFFICES ASSUME NEW x \in Servers(main), units'[x] > 0
               PROVE  server[x] # "off" /\ (server[x] = "stopped" => x \in left)
    BY <1>1 DEF Serving
  <2>1. CASE x = s
    BY <1>5, <1>6, <2>1 DEF Serving
  <2>2. CASE x # s
    BY <1>6, <2>2 DEF Serving
  <2> QED
    BY <2>1, <2>2
<1>10. Halted'
  <2> SUFFICES ASSUME phase \in {"sweeping", "swept"}, pc > Len(main.steps),
                      NEW x \in Servers(main), main.kind[x] = "joined"
               PROVE  units'[x] = 0
    BY <1>1, <1>2 DEF Halted
  <2>1. father /\ units[x] = 0
    BY DEF Halted
  <2>2. CASE x = s
    <3>1. ~(n > 0)
      BY <1>5, <2>1, <2>2
    <3> QED
      BY <1>3, <1>6, <2>2, <3>1
  <2>3. CASE x # s
    BY <1>6, <2>1, <2>3
  <2> QED
    BY <2>2, <2>3
<1> QED
  BY <1>2, <1>7, <1>8, <1>9, <1>10

LEMMA UseStep ==
    ASSUME IInv, NEW s, UseClosed(s)
    PROVE  IInv'
<1> USE DEF IInv
<1>1. UNCHANGED <<main, pc, built, nil, open, father, server, units, left, pending, nreg, phase>>
  BY DEF UseClosed, processVars, appVars
<1>2. Made' = Made /\ Done' = Done /\ InOrder' /\ Halting' = Halting
  BY <1>1, PoolFrame
<1>3. s \in Servers(main) /\ units[s] > 0
  BY MadeFacts DEF UseClosed
<1>4. PICK r \in (Uses(main, s) \cap built) \ (open \cup nil) : misuse' = misuse \cup {<<s, r>>}
  BY DEF UseClosed
<1>5. Types'
  <2>1. r \in Closable
    BY DEF Uses
  <2>2. misuse' \subseteq Servers(main) \X Closable
    BY <1>3, <1>4, <2>1 DEF Types
  <2> QED
    BY <1>1, <2>2 DEF Types
<1>6. NoUseAfterClose'
  <2>1. Ordered(main, s, r) => s \in left
    BY <1>3, ClosedIsLeft
  <2>2. \A m \in misuse' : m \in misuse \/ m = <<s, r>>
    BY <1>4
  <2> QED
    BY <1>1, <2>1, <2>2 DEF NoUseAfterClose
<1>7. Pool' /\ Closing' /\ Building' /\ Halted' /\ Serving'
  BY <1>1, <1>2 DEF Pool, Closing, Building, Halted, Serving
<1> QED
  BY <1>2, <1>5, <1>6, <1>7

-----------------------------------------------------------------------------
(* All steps together *)

(* Every way to end the process or to begin Stop, and every step of main    *)
(* that only goes on.                                                       *)
LEMMA MainSteps ==
    ASSUME IInv, Rescue, MainStep
    PROVE  IInv'
<1>1. CASE \E s \in UNION {Services(p) : p \in Programs} : Construct(s)
  BY <1>1, ConstructStep
<1>2. CASE Panic
  BY <1>2, FatherStep DEF Panic, IInv, Types
<1>3. CASE DoCall
  <2>1. main.steps[pc].op = "do" /\ pc <= Len(main.steps) /\ phase = "open"
    BY <1>3 DEF DoCall, Doing
  <2>2. CASE Advance /\ UNCHANGED <<built, nil, open, serverVars, appVars>>
    BY <2>1, <2>2, AdvanceStep
  <2> QED
    BY <1>2, <1>3, <2>2 DEF DoCall
<1>4. CASE AllBuilt
  <2>1. main.steps[pc].op = "need" /\ pc <= Len(main.steps) /\ phase = "open" /\ Advance
        /\ UNCHANGED <<built, nil, open, serverVars, appVars>>
    BY <1>4 DEF AllBuilt, Doing
  <2> QED
    BY <2>1, AdvanceStep
<1>5. CASE RunMigration \/ NewConsumer
  <2>1. main.steps[pc].op \in {"migrate", "consumer"} /\ pc <= Len(main.steps) /\ phase = "open"
    BY <1>5 DEF RunMigration, NewConsumer, Doing
  <2>2. CASE Exit
    BY <2>2, ExitStep
  <2>3. CASE Advance /\ UNCHANGED <<built, nil, open, serverVars, appVars>>
    BY <2>1, <2>3, AdvanceStep
  <2> QED
    BY <1>5, <2>2, <2>3 DEF RunMigration, NewConsumer
<1>6. CASE Register
  BY <1>6, RegisterStep
<1>7. CASE \E k : Start(k)
  BY <1>7, StartStep
<1>8. CASE BeginStop
  <2>1. StopNow /\ pc > Len(main.steps) /\ father
        /\ \A s \in Servers(main) : main.kind[s] = "joined" => units[s] = 0
    BY <1>8, MadeFacts DEF BeginStop, IInv
  <2> QED
    BY <2>1, StopStep DEF Halting
<1>9. CASE CloseService
  BY <1>9, CloseStep
<1>10. CASE BeginServerShutdown
  BY <1>10, BeginShutdownStep
<1>11. CASE HTTPShutdown \/ GracefulStop \/ StopWithoutWaiting
  <2>1. PICK s \in DOMAIN server : ShutdownReturns(s)
    BY <1>11 DEF HTTPShutdown, GracefulStop, StopWithoutWaiting
  <2>2. s \in Servers(main)
    BY <2>1, MadeFacts DEF IInv
  <2> QED
    BY <2>1, <2>2, ShutdownStep
<1>12. CASE EndStop
  BY <1>12, EndStep
<1>13. CASE Exit
  BY <1>13, ExitStep
<1>14. CASE RecoverSends
  <2>1. StopNow /\ pc <= Len(main.steps) /\ MayStop(main, pc)
    BY <1>14 DEF RecoverSends, Rescue
  <2>2. ~(pc > Len(main.steps))
    BY <2>1, MadeFacts DEF IInv
  <2> QED
    BY <2>1, <2>2, StopStep DEF Halting
<1> QED
  BY <1>1, <1>2, <1>3, <1>4, <1>5, <1>6, <1>7, <1>8, <1>9, <1>10, <1>11, <1>12, <1>13,
     <1>14
     DEF MainStep, Build, ConstructFatal, ConstructPanics, RunHTTPServer, RunHTTPSServer, StartGRPC, StartGRPCTLS,
         RunConsumer, StartCron, StartLoop, StartJoined, StartFatal, CloseServiceFails

(* A panic leaves main at its step, until Stop. *)
LEMMA RescueStep ==
    ASSUME IInv, Rescue, [Next]_vars
    PROVE  Rescue'
<1>1. ASSUME UNCHANGED <<main, pc, panicked>>, sig' \in BOOLEAN PROVE Rescue'
  BY <1>1 DEF Rescue
<1>2. CASE Advance /\ ~panicked
  BY <1>2, Zenon DEF Advance, Rescue
<1>3. CASE Exit \/ EndStop \/ \E s \in DOMAIN server : ShutdownReturns(s)
  BY <1>1, <1>3 DEF Exit, EndStop, ShutdownReturns, processVars, Rescue
<1>4. CASE \/ \E s \in UNION {Services(p) : p \in Programs} : Construct(s)
           \/ CloseService \/ BeginServerShutdown \/ BeginStop
  BY <1>1, <1>4 DEF Construct, CloseService, BeginServerShutdown, BeginStop, StopNow,
                    processVars, Rescue
<1>5. CASE RecoverSends \/ Signal \/ WatcherReceives
  BY <1>1, <1>3, <1>5 DEF RecoverSends, StopNow, Signal, WatcherReceives
<1>6. CASE \E s \in AllServers : Arrive(s) \/ UseClosed(s) \/ Finish(s)
  BY <1>1, <1>6 DEF Arrive, UseClosed, Finish, processVars, Rescue
<1>7. ASSUME NEW s, ConstructPanics(s) PROVE Rescue'
  <2>1. main.steps[pc].op = "need" /\ s \in Reach(main, main.steps[pc].what)
        /\ main.graph[s] \cap nil # {} /\ pc <= Len(main.steps)
        /\ panicked' = TRUE /\ UNCHANGED <<main, pc, sig>>
    BY <1>7 DEF ConstructPanics, Panic, NextToBuild, Doing, Wanted
  <2>2. main.graph[s] \cap NilOnError # {}
    BY <2>1 DEF IInv, Building
  <2>3. MayStop(main, pc)
    BY <2>1, <2>2 DEF MayStop
  <2> QED
    BY <2>1, <2>3 DEF Rescue
<1>8. CASE DoCall
  <2>1. main.steps[pc].op = "do" /\ pc <= Len(main.steps) /\ ~panicked
    BY <1>8 DEF DoCall, Doing
  <2>2. CASE Panic /\ Wanted \subseteq {"httpClient", "httpsClient"}
    <3>1. MayStop(main, pc)
      BY <2>1, <2>2 DEF MayStop, Wanted
    <3> QED
      BY <2>1, <2>2, <3>1 DEF Panic, Rescue
  <2> QED
    BY <1>2, <1>8, <2>1, <2>2 DEF DoCall
<1>9. CASE AllBuilt \/ Register \/ RunMigration \/ NewConsumer \/ \E k : Start(k)
  BY <1>2, <1>3, <1>9 DEF AllBuilt, Register, RunMigration, NewConsumer, Start, Doing
<1>10. CASE UNCHANGED vars
  BY <1>1, <1>10 DEF vars, processVars, Rescue
<1> QED
  BY <1>3, <1>4, <1>5, <1>6, <1>7, <1>8, <1>9, <1>10
     DEF Next, MainStep, Build, ConstructFatal, RunHTTPServer, RunHTTPSServer, StartGRPC,
         StartGRPCTLS, RunConsumer, StartCron, StartLoop, StartJoined, StartFatal,
         CloseServiceFails, HTTPShutdown, GracefulStop, StopWithoutWaiting, ServePanics,
         PublishPanics, ReturnPanics

LEMMA SpecIInv == Spec => [](IInv /\ Rescue)
<1>1. IInv /\ Rescue /\ [Next]_vars => IInv'
  <2> SUFFICES ASSUME IInv, Rescue, [Next]_vars PROVE IInv'
    OBVIOUS
  <2>1. CASE MainStep
    BY <2>1, MainSteps
  <2>2. CASE Signal \/ WatcherReceives
    <3>1. CASE Exit
      BY <3>1, ExitStep
    <3>2. CASE father' \in BOOLEAN /\ (father => father')
               /\ UNCHANGED <<main, pc, built, nil, open, serverVars, appVars>>
      BY <3>2, FatherStep
    <3> QED
      BY <2>2, <3>1, <3>2 DEF Signal, WatcherReceives, IInv, Types
  <2>3. CASE \E s \in AllServers : Arrive(s) \/ Finish(s)
    BY <2>3, UnitsStep
  <2>4. CASE \E s \in AllServers : UseClosed(s)
    BY <2>4, UseStep
  <2>5. CASE ServePanics \/ ReturnPanics \/ \E s \in AllServers : PublishPanics(s)
    BY <2>5, ExitStep DEF ServePanics, ReturnPanics, PublishPanics
  <2>6. CASE UNCHANGED vars
    <3> USE DEF IInv
    <3>1. UNCHANGED <<main, pc, built, nil, open, father, server, units, left, misuse,
                      pending, nreg, phase>>
      BY <2>6 DEF vars, processVars, serverVars, appVars
    <3>2. Made' = Made /\ Done' = Done /\ InOrder' /\ Halting' = Halting
      BY <3>1, PoolFrame
    <3>3. Types' /\ Building' /\ Serving' /\ NoUseAfterClose'
      BY <3>1 DEF Types, Building, Serving, NoUseAfterClose
    <3>4. Pool' /\ Closing' /\ Halted'
      BY <3>1, <3>2 DEF Pool, Closing, Halted
    <3> QED
      BY <3>2, <3>3, <3>4
  <2> QED
    BY <2>1, <2>2, <2>3, <2>4, <2>5, <2>6 DEF Next
<1>2. Init => Rescue
  BY Zenon DEF Init, Rescue
<1>3. IInv /\ Rescue /\ [Next]_vars => Rescue'
  BY RescueStep
<1> QED
  BY <1>1, <1>2, <1>3, InitIInv, PTL DEF Spec

-----------------------------------------------------------------------------
(* Theorems *)

(* Type correctness; a service that the container built is never both held  *)
(* and a nil pointer.                                                       *)
THEOREM ProcessTypeCorrect == Spec => []TypeOK
<1>1. IInv /\ Rescue => TypeOK
  BY DEF IInv, Types, Rescue, TypeOK
<1> QED
  BY <1>1, SpecIInv, PTL

(* The priorities with which a main registers its shutdown functions keep   *)
(* every unit of work from a closed service, unless its server's own        *)
(* shutdown function gave it up: whatever the interleaving of units, of the *)
(* signal, of failing constructors and of Stop.                             *)
THEOREM UsersBeforeServices == Spec => []NoUseAfterClose
<1>1. IInv => NoUseAfterClose
  BY DEF IInv
<1> QED
  BY <1>1, SpecIInv, PTL

(* What a held service was built on is still held, also in a Stop that a    *)
(* panic in the middle of main began.                                       *)
THEOREM StopRespectsContainer == Spec => []HeldBelow
<1>1. IInv => HeldBelow
  BY BuiltOnIsHeld
<1> QED
  BY <1>1, SpecIInv, PTL

(* A whole start and a whole Stop leave no server running and no service    *)
(* held that main registered.                                               *)
THEOREM StopGivesBack == Spec => []ClosedAfterStop
<1>1. IInv => ClosedAfterStop
  BY AllIsClosed
<1> QED
  BY <1>1, SpecIInv, PTL

(* The mains use application.App only as ShutdownRegistry allows: they      *)
(* register what they name with a priority it knows, Stop completes the     *)
(* first function each time and ends when none is left.                     *)
THEOREM ProcessUsesRegistry == Spec => App!Spec
<1>1. Init => App!Init
  BY DEF Init
<1>2. TypeOK /\ [Next]_vars => [App!Next]_(App!vars)
  <2> SUFFICES ASSUME TypeOK, Next PROVE App!Next \/ UNCHANGED appVars
    BY DEF vars, appVars, App!vars
  <2>1. CASE Exit \/ StopNow \/ EndStop
    BY <2>1 DEF Exit, StopNow, EndStop, App!Next
  <2>2. CASE Register
    <3>1. main \in Programs /\ pc \in 1..Len(main.steps) /\ main.steps[pc].op = "register"
          /\ DOMAIN main.steps = 1..Len(main.steps)
      BY <2>2, MadeFacts DEF Register, Doing, TypeOK, Types
    <3>2. pc \in Registrations(main)
      BY <3>1 DEF Registrations
    <3>3. \A n \in Wanted : n \in AllServers \cup Closable
      BY <3>1, <3>2, StepFacts DEF Wanted
    <3>4. main.steps[pc].priority \in 0..MaxPriority
      BY <3>1, <3>2, StepFacts
    <3>5. App!Register
      BY <2>2, <3>3, <3>4 DEF Register, Doing, App!Register
    <3> QED
      BY <3>5 DEF App!Next
  <2>3. CASE CloseService \/ \E s \in DOMAIN server : ShutdownReturns(s)
    BY <2>3 DEF CloseService, ShutdownReturns, Next1, App!Next, App!SweepOne
  <2>4. CASE BeginServerShutdown \/ Panic \/ WatcherReceives \/ (\E s : Construct(s)) \/ (\E k : Start(k))
             \/ AllBuilt
    BY <2>4 DEF BeginServerShutdown, Panic, WatcherReceives, Construct, Start, AllBuilt
  <2>5. CASE \E s \in AllServers : Arrive(s) \/ UseClosed(s) \/ Finish(s)
    BY <2>5 DEF Arrive, UseClosed, Finish
  <2>6. CASE UNCHANGED appVars
    BY <2>6
  <2> QED
    BY <2>1, <2>2, <2>3, <2>4, <2>5, <2>6
       DEF Next, MainStep, Build, ConstructFatal, ConstructPanics, RunMigration, DoCall, NewConsumer,
           RunHTTPServer, RunHTTPSServer, StartGRPC, StartGRPCTLS, RunConsumer, StartCron, StartLoop,
           StartJoined, StartFatal, BeginStop, RecoverSends, Signal, CloseServiceFails, HTTPShutdown, GracefulStop,
           StopWithoutWaiting, ServePanics, PublishPanics, ReturnPanics
<1> QED
  BY <1>1, <1>2, ProcessTypeCorrect, PTL DEF Spec, App!Spec
=============================================================================
