----------------------------- MODULE TaskCycle ------------------------------
(***************************************************************************)
(* What task.c promises of its list, without pointers: the tasks in the    *)
(* order they were created, and the one that is current.  "Cycle through   *)
(* the tasks": when the current one goes, its successor is current, or     *)
(* the first when it was the last.                                         *)
(***************************************************************************)
EXTENDS Naturals, Sequences

CONSTANTS Task, NoTask

VARIABLES order,         \* the tasks
          running        \* the current one

Init == order = << >> /\ running = NoTask

Create ==
    \E t \in Task :
        /\ \A i \in DOMAIN order : order[i] # t
        /\ order' = Append(order, t)
        /\ UNCHANGED running

Switch ==
    /\ \E i \in DOMAIN order : running' = order[i]
    /\ UNCHANGED order

\* Without the i-th of them.
Without(i) == SubSeq(order, 1, i - 1) \o SubSeq(order, i + 1, Len(order))

Remove ==
    \E i \in DOMAIN order :
        /\ order' = Without(i)
        /\ running' = IF running # order[i] THEN running
                      ELSE IF i < Len(order) THEN order[i + 1]
                      ELSE IF Len(order) > 1 THEN order[1] ELSE NoTask

Next == Create \/ Switch \/ Remove

Spec == Init /\ [][Next]_<<order, running>>
=============================================================================
