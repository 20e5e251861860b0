-------------------------- MODULE ShutdownRegistry --------------------------
(***************************************************************************)
(* What application.App promises about shutdown functions, with no linked  *)
(* list, no lock, no signal and no goroutine: a pool of pending functions, *)
(* each with a priority and a registration ordinal.  A sweep (Stop) always *)
(* completes the pending function with the least priority number, and the  *)
(* oldest of those with that priority, and ends only when none is left; a  *)
(* call by name completes the first function of that name in the same      *)
(* order.  A process may die at any time.  App refines this specification. *)
(***************************************************************************)
EXTENDS Integers

CONSTANTS Names, Priorities

VARIABLES
    pending,    \* functions registered and not completed: [id, name, priority]
    completed,  \* ordinals of the functions that ran to the end and were removed
    nreg,       \* number of registrations so far
    phase       \* "open", "sweeping", "swept" or "dead"

vars == <<pending, completed, nreg, phase>>

Before(a, b) == \/ a.priority < b.priority
                \/ a.priority = b.priority /\ a.id < b.id

First(a, S) == a \in S /\ \A b \in S \ {a} : Before(a, b)

Init == /\ pending = {}
        /\ completed = {}
        /\ nreg = 0
        /\ phase = "open"

Register == /\ phase \in {"open", "swept"}
            /\ \E n \in Names, pr \in Priorities :
                 pending' = pending \cup {[id |-> nreg + 1, name |-> n, priority |-> pr]}
            /\ nreg' = nreg + 1
            /\ UNCHANGED <<completed, phase>>

Complete(a) == /\ pending' = pending \ {a}
               /\ completed' = completed \cup {a.id}
               /\ UNCHANGED <<nreg, phase>>

CompleteByName == /\ phase \in {"open", "swept"}
                  /\ \E a \in pending :
                       /\ First(a, {b \in pending : b.name = a.name})
                       /\ Complete(a)

BeginSweep == /\ phase = "open"
              /\ phase' = "sweeping"
              /\ UNCHANGED <<pending, completed, nreg>>

SweepOne == /\ phase = "sweeping"
            /\ \E a \in pending : First(a, pending) /\ Complete(a)

EndSweep == /\ phase = "sweeping"
            /\ pending = {}
            /\ phase' = "swept"
            /\ UNCHANGED <<pending, completed, nreg>>

Die == /\ phase' = "dead"
       /\ UNCHANGED <<pending, completed, nreg>>

Next == \/ Register
        \/ CompleteByName
        \/ BeginSweep
        \/ SweepOne
        \/ EndSweep
        \/ Die

Spec == Init /\ [][Next]_vars
=============================================================================
