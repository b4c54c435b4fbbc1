------------------------------ MODULE Keyboard ------------------------------
(***************************************************************************)
(* Keys from the PS/2 controller to the program that reads them:           *)
(* ps2_keyboard_interrupt_handler pushes into the keyboard buffer of the   *)
(* front process (keyboard_push), the getkey system call pops from the     *)
(* buffer of the running task's process (keyboard_pop).                    *)
(*                                                                         *)
(* A key is the number of its press, so that order and duplication are     *)
(* visible.  One action is one interrupt or system call: IRQ 1 is in       *)
(* service until the push is done, and int 0x80 runs with interrupts       *)
(* disabled (module Interrupts).                                           *)
(***************************************************************************)
EXTENDS Integers, Sequences

CONSTANTS
    Processes,
    NUTTLE_KEYBOARD_MAX_BUFFER,
    Presses,             \* bound: presses the user makes
    ControllerMax        \* bound: scan codes waiting in the controller

ASSUME KeyboardConstants ==
    /\ NUTTLE_KEYBOARD_MAX_BUFFER \in Nat \ {0}
    /\ Presses \in Nat /\ ControllerMax \in Nat

Max == NUTTLE_KEYBOARD_MAX_BUFFER
Key == 1 .. Presses

\* A scan code that ps2_keyboard_scancode_to_char maps to 0: every release
\* code, and the codes after the table.
Other == 0

VARIABLES
    pressed,             \* how many keys have been pressed
    controller,          \* the scan codes the controller holds
    head, tail, size,    \* NuttleKeyboardBuffer of each process
    buffer,
    front,               \* process_current(); its task is the current task
    lastRead             \* history: the last key each process has read

ring == <<head, tail, size, buffer>>
vars == <<pressed, controller, head, tail, size, buffer, front, lastRead>>

-----------------------------------------------------------------------------
\* n % MAX, moved up by MAX when C leaves it negative.
keyboard_get_circular(n) == n % Max

\* keyboard_init_buffer, on a process that zmallock cleared.
Init ==
    /\ pressed = 0 /\ controller = << >>
    /\ head = [p \in Processes |-> 0]
    /\ tail = [p \in Processes |-> 0]
    /\ size = [p \in Processes |-> 0]
    /\ buffer = [p \in Processes |-> [i \in 0 .. Max - 1 |-> Other]]
    /\ front \in Processes
    /\ lastRead = [p \in Processes |-> 0]

\* The user presses a key, or the keyboard sends a code that is no character.
Press ==
    /\ pressed < Presses /\ Len(controller) < ControllerMax
    /\ pressed' = pressed + 1
    /\ controller' = Append(controller, pressed')
    /\ UNCHANGED <<ring, front, lastRead>>

SendOther ==
    /\ Len(controller) < ControllerMax
    /\ controller' = Append(controller, Other)
    /\ UNCHANGED <<pressed, ring, front, lastRead>>

\* Faulty variants: the full buffer is not noticed.
PushUnchecked(k) ==
    LET p == front IN
    /\ buffer' = [buffer EXCEPT ![p][tail[p]] = k]
    /\ tail' = [tail EXCEPT ![p] = keyboard_get_circular(tail[p] + 1)]
    /\ size' = [size EXCEPT ![p] = IF size[p] = Max THEN Max ELSE size[p] + 1]
    /\ UNCHANGED head

\* keyboard_push refuses 0 (its caller never passes it) and drops the key,
\* with -ENOMEM that nobody reads, when the buffer is full.
keyboard_push(k) ==
    LET p == front IN
    \/ /\ size[p] = Max
       /\ UNCHANGED ring
    \/ /\ size[p] # Max
       /\ buffer' = [buffer EXCEPT ![p][tail[p]] = k]
       /\ tail' = [tail EXCEPT ![p] = keyboard_get_circular(tail[p] + 1)]
       /\ size' = [size EXCEPT ![p] = size[p] + 1]
       /\ UNCHANGED head

\* The handler reads the port twice and drops the second byte.  If a second
\* code has arrived it may be lost; if not, the port repeats the first.
ps2_keyboard_interrupt_handler ==
    /\ controller # << >>
    /\ \/ controller' = Tail(controller)
       \/ /\ Len(controller) > 1
          /\ controller' = Tail(Tail(controller))
    /\ LET ch == Head(controller) IN
          \/ ch # Other /\ keyboard_push(ch)
          \/ ch = Other /\ UNCHANGED ring
    /\ UNCHANGED <<pressed, front, lastRead>>

\* Faulty variants: the newest key is taken; size is not updated.
PopNewest(p) ==
    /\ p = front /\ size[p] # 0
    /\ lastRead' = [lastRead EXCEPT ![p] = buffer[p][keyboard_get_circular(tail[p] - 1)]]
    /\ tail' = [tail EXCEPT ![p] = keyboard_get_circular(tail[p] - 1)]
    /\ size' = [size EXCEPT ![p] = size[p] - 1]
    /\ UNCHANGED <<pressed, controller, head, buffer, front>>

PopKeepsSize(p) ==
    /\ p = front /\ size[p] # 0
    /\ lastRead' = [lastRead EXCEPT ![p] = buffer[p][head[p]]]
    /\ head' = [head EXCEPT ![p] = keyboard_get_circular(head[p] + 1)]
    /\ UNCHANGED <<pressed, controller, tail, size, buffer, front>>

\* getkey: the running program gets the key at head, or 0 if there is none
\* (it changes nothing then, and the program asks again).
keyboard_pop(p) ==
    /\ p = front /\ size[p] # 0
    /\ lastRead' = [lastRead EXCEPT ![p] = buffer[p][head[p]]]
    /\ head' = [head EXCEPT ![p] = keyboard_get_circular(head[p] + 1)]
    /\ size' = [size EXCEPT ![p] = size[p] - 1]
    /\ UNCHANGED <<pressed, controller, tail, buffer, front>>

\* process_switch sets process.c's current and task.c's current together.
process_switch(p) ==
    /\ front' = p
    /\ UNCHANGED <<pressed, controller, ring, lastRead>>

Next ==
    \/ Press \/ SendOther
    \/ ps2_keyboard_interrupt_handler
    \/ \E p \in Processes : keyboard_pop(p)
    \/ \E p \in Processes : process_switch(p)

Spec == Init /\ [][Next]_vars

-----------------------------------------------------------------------------
(* Properties.                                                             *)

\* Indices stay inside the array and size within its capacity.
TypeOK ==
    /\ pressed \in 0 .. Presses
    /\ controller \in Seq({Other} \cup Key) /\ Len(controller) <= ControllerMax
    /\ head \in [Processes -> 0 .. Max - 1]
    /\ tail \in [Processes -> 0 .. Max - 1]
    /\ size \in [Processes -> 0 .. Max]
    /\ buffer \in [Processes -> [0 .. Max - 1 -> {Other} \cup Key]]
    /\ front \in Processes
    /\ lastRead \in [Processes -> {Other} \cup Key]

\* "a version of circular queue" (keyboard.h:30): tail is size places after
\* head, so a full and an empty buffer, where they are equal, differ in size.
RingInv ==
    \A p \in Processes :
        tail[p] = IF head[p] + size[p] < Max THEN head[p] + size[p]
                                             ELSE head[p] + size[p] - Max

\* The n elements of the array b from place h on, around its end.
Around(b, h, n) == [j \in 1 .. n |-> b[(h + j - 1) % Max]]

\* What the ring of process p holds, oldest first.
Contents(p) == Around(buffer[p], head[p], size[p])

\* What is on its way to process p, the key it read last first.
Pipeline(p) == <<lastRead[p]>> \o Contents(p) \o controller

\* Programs read keys in the order they were pressed and no key twice, by
\* one process or by two, whatever is dropped on the way.
KeysInOrder ==
    /\ \A p \in Processes : \A i, j \in 1 .. Len(Pipeline(p)) :
          i < j /\ Pipeline(p)[j] # Other => Pipeline(p)[i] < Pipeline(p)[j]
    /\ \A p \in Processes : \A i \in 1 .. size[p] : Contents(p)[i] # Other
    /\ \A p, q \in Processes : p # q =>
          \A i \in 1 .. size[p], j \in 1 .. size[q] : Contents(p)[i] # Contents(q)[j]

\* The ring buffers implement bounded queues, one per process.
Queues == INSTANCE KeyQueue
             WITH Capacity <- Max, queue <- [p \in Processes |-> Contents(p)]
QueuesSpec == Queues!Spec
=============================================================================
