----------------------------- MODULE Interrupts -----------------------------
(***************************************************************************)
(* Interrupts while a user program runs: the two 8259A PICs, the IDT gates *)
(* (interrupt_init), interrupt_handler with the keyboard callback, and the *)
(* int 0x80 entry (isr80h_handler).                                        *)
(*                                                                         *)
(* A frame stands for one entry into the kernel that has not returned; its *)
(* todo is what is left of its handler.  All gates but 0x80 are trap       *)
(* gates, which leave interrupts enabled: a handler is interrupted between *)
(* any two of its operations, and the operations run on one CPU with one   *)
(* set of segment registers and one page directory.                        *)
(*                                                                         *)
(* CPU exceptions and software interrupts other than 0x80 are left out.    *)
(***************************************************************************)
EXTENDS Integers, Sequences, FiniteSets

CONSTANTS
    Lines,      \* the interrupt lines in use: 0..7 master, 8..15 slave
    Requests    \* bound: how often the device on a line asks

ASSUME InterruptConstants ==
    /\ Lines \subseteq (0 .. 15) \ {2}
    /\ Requests \in [Lines -> Nat]

VARIABLES
    frames,          \* the kernel stack, the running handler last
    enabled,         \* EFLAGS.IF
    segments,        \* DS, ES, FS, GS: "kernel" or "user"
    chunk,           \* CR3: the "kernel" chunk or the one of the "task"
    registers,       \* whose registers the current task's frame holds
    requested,       \* IRR of both PICs
    master, slave,   \* ISR of each PIC: the lines in service
    left             \* requests each device has left

cpu == <<enabled, segments, chunk, registers>>
pic == <<requested, master, slave>>
vars == <<frames, cpu, pic, left>>

-----------------------------------------------------------------------------
(* The handlers, as the sequences of operations they are.                  *)

Syscall == 128            \* int 0x80
Vector(n) == 32 + n       \* initialize_pic(0x20, 0x28)
Interrupts == {Vector(n) : n \in Lines} \cup {Syscall}

kernel_page == <<"kernel_segments", "kernel_chunk">>
task_page == <<"user_segments", "task_chunk">>

\* Only the PS/2 driver registers a callback.
interrupt_callbacks(int) == IF int = Vector(1) THEN "keyboard" ELSE "none"

ps2_keyboard_interrupt_handler == kernel_page \o <<"keyboard_push">> \o task_page

\* Faulty variants: the slave is not told; the range of the master's lines
\* begins one too late.
AcknowledgeMasterOnly(int) ==
    IF int \in 32 .. 47 THEN <<"EOI_master">> ELSE << >>

AcknowledgeOffByOne(int) ==
    (IF int \in 40 .. 47 THEN <<"EOI_slave">> ELSE << >>)
        \o (IF int \in 33 .. 47 THEN <<"EOI_master">> ELSE << >>)

acknowledge_int(int) ==
    (IF int \in 40 .. 47 THEN <<"EOI_slave">> ELSE << >>)
        \o (IF int \in 32 .. 47 THEN <<"EOI_master">> ELSE << >>)

\* A faulty variant: the task's page comes back only after a callback.
HandlerWithoutPage(int) ==
    kernel_page
        \o (IF interrupt_callbacks(int) = "keyboard"
            THEN <<"store_frame">> \o ps2_keyboard_interrupt_handler ELSE << >>)
        \o acknowledge_int(int)

interrupt_handler(int) ==
    kernel_page
        \o (IF interrupt_callbacks(int) = "keyboard"
            THEN <<"store_frame">> \o ps2_keyboard_interrupt_handler ELSE << >>)
        \o acknowledge_int(int)
        \o task_page

isr80h_handler == kernel_page \o <<"store_frame", "command">> \o task_page

\* What the assembly wrapper runs, up to its iret.
Wrapper(int) ==
    (IF int = Syscall THEN isr80h_handler ELSE interrupt_handler(int)) \o <<"iret">>

\* A faulty variant: interrupt_init leaves 0x80 among the trap gates.
AllTrapGates(int) == "trap"

\* interrupt_init: an interrupt gate clears IF, a trap gate leaves it.
Gate(int) == IF int = Syscall THEN "interrupt" ELSE "trap"

-----------------------------------------------------------------------------
Top == frames[Len(frames)]

\* task_jump_usermode has just switched to the program with IF set; lines
\* that were raised while the kernel booted with IF clear are pending.
Init ==
    /\ frames = << >>
    /\ enabled = TRUE /\ segments = "user" /\ chunk = "task"
    /\ registers = "user"
    /\ requested \in SUBSET Lines
    /\ master = {} /\ slave = {}
    /\ left = Requests

\* A device raises its line; an edge on a line already pending is lost.
Raise(n) ==
    /\ left[n] > 0
    /\ requested' = requested \cup {n}
    /\ left' = [left EXCEPT ![n] = @ - 1]
    /\ UNCHANGED <<frames, cpu, master, slave>>

\* The CPU goes through the gate of an interrupt.
Enter(int) ==
    /\ frames' = Append(frames, [int |-> int, todo |-> Wrapper(int), flag |-> enabled])
    /\ enabled' = IF Gate(int) = "trap" THEN enabled ELSE FALSE
    /\ UNCHANGED <<segments, chunk, registers>>

\* The order of priority; the slave hangs on line 2 of the master.
Rank(n) == IF n \in 8 .. 15 THEN 16 + (n - 8) ELSE 8 * n
OnMaster(n) == IF n \in 8 .. 15 THEN 2 ELSE n

\* The PICs hand the CPU the most urgent request, fully nested: unless a
\* line at least as urgent is in service.
Deliver(n) ==
    /\ enabled /\ n \in requested
    /\ \A q \in requested : Rank(n) <= Rank(q)
    /\ \A m \in master : OnMaster(n) < m
    /\ n \in 8 .. 15 => \A s \in slave : n < s
    /\ requested' = requested \ {n}
    /\ master' = master \cup {OnMaster(n)}
    /\ slave' = IF n \in 8 .. 15 THEN slave \cup {n} ELSE slave
    /\ Enter(Vector(n))
    /\ UNCHANGED left

\* The program makes a system call.
SystemCall ==
    /\ frames = << >>
    /\ Enter(Syscall)
    /\ UNCHANGED <<pic, left>>

-----------------------------------------------------------------------------
(* One operation of the running handler.                                   *)

Run(operation) ==
    /\ frames # << >> /\ Head(Top.todo) = operation
    /\ frames' = [frames EXCEPT ![Len(frames)].todo = Tail(@)]

restore_kernel_segment_registers ==
    Run("kernel_segments") /\ segments' = "kernel"
    /\ UNCHANGED <<enabled, chunk, registers, pic, left>>

task_restore_user_segment_registers ==
    Run("user_segments") /\ segments' = "user"
    /\ UNCHANGED <<enabled, chunk, registers, pic, left>>

paging_switch(directory) ==
    /\ Run(IF directory = "kernel" THEN "kernel_chunk" ELSE "task_chunk")
    /\ chunk' = directory
    /\ UNCHANGED <<enabled, segments, registers, pic, left>>

\* The frame copied is the one the interrupted code left: the program's, or
\* a handler's when this entry interrupted one.
task_store_frame ==
    /\ Run("store_frame")
    /\ registers' = IF Len(frames) = 1 THEN "user" ELSE "kernel"
    /\ UNCHANGED <<enabled, segments, chunk, pic, left>>

\* keyboard_push and the commands' own effects are in modules Keyboard,
\* KernelHeap and UserMemory.
Body ==
    /\ Run("keyboard_push") \/ Run("command")
    /\ UNCHANGED <<cpu, pic, left>>

\* Command 0x20, a non-specific end of interrupt: it retires the most urgent
\* line in service, whichever handler sends it.
Retire(inService) == {n \in inService : \E m \in inService : m < n}

end_of_interrupt_master ==
    Run("EOI_master") /\ master' = Retire(master)
    /\ UNCHANGED <<cpu, requested, slave, left>>

end_of_interrupt_slave ==
    Run("EOI_slave") /\ slave' = Retire(slave)
    /\ UNCHANGED <<cpu, requested, master, left>>

\* iret: back to the interrupted code, with its EFLAGS.
Return ==
    /\ frames # << >> /\ Top.todo = <<"iret">>
    /\ frames' = SubSeq(frames, 1, Len(frames) - 1)
    /\ enabled' = Top.flag
    /\ UNCHANGED <<segments, chunk, registers, pic, left>>

Step ==
    \/ restore_kernel_segment_registers \/ task_restore_user_segment_registers
    \/ \E directory \in {"kernel", "task"} : paging_switch(directory)
    \/ task_store_frame \/ Body
    \/ end_of_interrupt_master \/ end_of_interrupt_slave
    \/ Return

Next ==
    \/ \E n \in Lines : Raise(n)
    \/ \E n \in Lines : Deliver(n)
    \/ SystemCall
    \/ Step

Spec == Init /\ [][Next]_vars

\* The CPU keeps executing its handler, and a request that is again and again
\* deliverable is taken: IF is seen at every instruction boundary.  Nothing
\* makes a device raise its line or the program call the kernel.
FairSpec == Spec /\ WF_vars(Step) /\ \A n \in Lines : SF_vars(Deliver(n))

-----------------------------------------------------------------------------
(* Properties.                                                             *)

Suffixes(s) == {SubSeq(s, k, Len(s)) : k \in 1 .. Len(s)}

\* Each frame is in the middle of its handler, and each line on its chip.
TypeOK ==
    /\ \A k \in DOMAIN frames :
          /\ frames[k].int \in Interrupts /\ frames[k].flag \in BOOLEAN
          /\ frames[k].todo \in Suffixes(Wrapper(frames[k].int))
    /\ enabled \in BOOLEAN
    /\ segments \in {"kernel", "user"} /\ chunk \in {"kernel", "task"}
    /\ registers \in {"kernel", "user"}
    /\ requested \subseteq Lines
    /\ master \subseteq 0 .. 7 /\ slave \subseteq 8 .. 15
    /\ left \in [Lines -> Nat]

Has(frame, operation) == \E k \in DOMAIN frame.todo : frame.todo[k] = operation

\* A line is in service exactly while a frame that entered for it has still
\* to acknowledge it, and no two frames wait on one line: no end of interrupt
\* is lost, doubled, sent to the wrong chip or spent on another line, although
\* the command names none and handlers nest.
InServiceIsOwed ==
    LET owing(operation) == {k \in DOMAIN frames : Has(frames[k], operation)}
    IN  /\ master = {OnMaster(frames[k].int - 32) : k \in owing("EOI_master")}
        /\ slave = {frames[k].int - 32 : k \in owing("EOI_slave")}
        /\ Cardinality(master) = Cardinality(owing("EOI_master"))

\* The program always runs on its own pages and segments with interrupts on,
\* whatever nested inside the handlers that returned to it.
ProgramContext ==
    frames = << >> => chunk = "task" /\ segments = "user" /\ enabled

\* A system call is alone in the kernel, and its command runs on the kernel's
\* pages with the program's registers in the task's frame.  No two handlers
\* are inside keyboard_push and a command (getkey pops the same buffer) at a
\* time: neither has a lock.
CallsExclusive ==
    /\ \A k \in DOMAIN frames : frames[k].int = Syscall =>
          /\ Len(frames) = 1 /\ ~enabled
          /\ Head(frames[k].todo) = "command" =>
                chunk = "kernel" /\ segments = "kernel" /\ registers = "user"
    /\ Cardinality({k \in DOMAIN frames :
          /\ frames[k].todo # << >>
          /\ Head(frames[k].todo) \in {"keyboard_push", "command"}}) <= 1

\* Every request is taken: no handler leaves a line in service that blocks it
\* and all less urgent ones, on either chip.
RequestsTaken == \A n \in Lines : n \in requested ~> n \notin requested
=============================================================================
