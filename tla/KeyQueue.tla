------------------------------ MODULE KeyQueue ------------------------------
(***************************************************************************)
(* What keyboard.h promises of a process's keyboard buffer, without heads  *)
(* and tails: a bounded queue.  A key is appended while there is room,     *)
(* keys leave in the order they came, and a new process's queue is empty.  *)
(***************************************************************************)
EXTENDS Naturals, Sequences

CONSTANTS Processes, Key, Capacity

VARIABLE queue           \* per process, the keys it has not read

Init == queue = [p \in Processes |-> << >>]

Append1(p, k) ==
    /\ Len(queue[p]) < Capacity
    /\ queue' = [queue EXCEPT ![p] = Append(queue[p], k)]

Remove1(p) ==
    /\ Len(queue[p]) > 0
    /\ queue' = [queue EXCEPT ![p] = Tail(queue[p])]

Next == \E p \in Processes : Remove1(p) \/ \E k \in Key : Append1(p, k)

Spec == Init /\ [][Next]_queue
=============================================================================
