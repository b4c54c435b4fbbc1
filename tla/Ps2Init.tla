------------------------------ MODULE Ps2Init -------------------------------
(***************************************************************************)
(* The PS/2 driver's start: ps2_init with ps2_wait_for_ack and             *)
(* ps2_keyboard_reset, called by keyboard_init.  One action is one access  *)
(* to a port.                                                              *)
(*                                                                         *)
(* No read of the data port waits for a byte.  With nothing new, it gives  *)
(* the byte read last.  A prompt device has answered whenever the driver   *)
(* reads again; any other may answer at any time.  Interrupts are off.     *)
(*                                                                         *)
(* The controller and the device are external.  A device refuses a command *)
(* by asking for it again, and drops what it has not sent when a command   *)
(* comes.                                                                  *)
(***************************************************************************)
EXTENDS Integers, Sequences

CONSTANTS
    MaxRefusals,         \* bound: how often the device refuses each command
    MaxWaiting           \* bound: keys that wait in the device

ASSUME Ps2Constants == MaxRefusals \in Nat /\ MaxWaiting \in Nat

Commands == {"disable_scanning", "identify", "reset", "enable_scanning"}

VARIABLES
    device,              \* what is there: kind, self-tests, promptness
    scanning,            \* whether the device sends keys
    waiting,             \* bytes in the device
    enabled,             \* whether the first port is enabled
    answer,              \* the controller's answer to a test, not yet readable
    full,                \* bit 0 of the status port
    data,                \* the data port
    refused,             \* history: refusals of each command
    keys,                \* history: a key read for the first acknowledgement
    pc, command, count, b1

hardware == <<device, scanning, waiting, enabled, answer, full, data, refused>>
vars == <<hardware, keys, pc, command, count, b1>>

\* Bytes: "key" is any scan code; 0x55 and 0x00 are the answers to passed
\* tests of the controller; 0xab begins the answer of a keyboard, and "type"
\* is any of the second bytes that ps2_init accepts.
Identity(kind) ==
    CASE kind = "keyboard" -> <<"0xab", "type">>
      [] kind = "unlisted" -> <<"0xab", "other">>
      [] kind = "mouse" -> <<"0x00">>

Devices ==
    [kind : {"keyboard", "unlisted", "mouse"}, prompt : BOOLEAN,
     passes : BOOLEAN, controller : BOOLEAN, port : BOOLEAN]

Init ==
    /\ device \in Devices
    /\ scanning = TRUE /\ waiting = << >> /\ enabled = TRUE
    /\ answer = << >> /\ full \in BOOLEAN /\ data = "key"
    /\ refused = [c \in Commands |-> 0] /\ keys = FALSE
    /\ pc = "start" /\ command = "disable_scanning" /\ count = 0 /\ b1 = "none"

-----------------------------------------------------------------------------
(* The controller and the device.                                          *)

Type ==
    /\ scanning /\ Len(waiting) < MaxWaiting
    /\ waiting' = Append(waiting, "key")
    /\ UNCHANGED <<device, scanning, enabled, answer, full, data, refused,
                   keys, pc, command, count, b1>>

\* The bytes on their way; the controller's own go first.
Coming == answer \o IF enabled THEN waiting ELSE << >>

Arrive ==
    /\ ~full /\ Coming # << >>
    /\ full' = TRUE /\ data' = Head(Coming)
    /\ answer' = << >>
    /\ waiting' = IF answer = << >> THEN Tail(waiting) ELSE waiting
    /\ UNCHANGED <<device, scanning, enabled, refused, keys, pc, command, count, b1>>

\* What a device does with a command.
Accept(c) ==
    /\ waiting' = <<"ACK">> \o
           CASE c = "identify" -> Identity(device.kind)
             [] c = "reset" -> IF device.passes THEN <<"passed">> ELSE <<"failed">>
             [] OTHER -> << >>
    /\ scanning' = IF c = "identify" THEN scanning ELSE c # "disable_scanning"
    /\ UNCHANGED refused

Refuse(c) ==
    /\ refused[c] < MaxRefusals
    /\ refused' = [refused EXCEPT ![c] = @ + 1]
    /\ waiting' = <<"RESEND">>
    /\ UNCHANGED scanning

-----------------------------------------------------------------------------
(* ps2_init.                                                               *)

\* inb(PS2_DATA_PORT): its value is data.
inb ==
    /\ device.prompt => full \/ Coming = << >>
    /\ full' = FALSE
    /\ UNCHANGED <<device, scanning, waiting, enabled, data, refused>>

Goto(l) == pc' = l
Start(c) == pc' = "send" /\ command' = c /\ count' = 3

\* A faulty variant: the first port stays enabled.
DisableSecondOnly ==
    /\ pc = "start" /\ Goto("flush")
    /\ UNCHANGED <<hardware, keys, command, count, b1>>

\* Both ports are disabled; nothing comes from the second any more, either.
DisablePorts ==
    /\ pc = "start" /\ Goto("flush")
    /\ enabled' = FALSE
    /\ UNCHANGED <<device, scanning, waiting, answer, full, data, refused,
                   keys, command, count, b1>>

Flush ==
    /\ pc = "flush" /\ full
    /\ inb
    /\ UNCHANGED <<answer, keys, pc, command, count, b1>>

\* The buffer is empty: the controller is told to test itself.
Flushed ==
    /\ pc = "flush" /\ ~full
    /\ answer' = IF device.controller THEN <<"0x55">> ELSE <<"0xfc">>
    /\ Goto("controller")
    /\ UNCHANGED <<device, scanning, waiting, enabled, full, data, refused,
                   keys, command, count, b1>>

ControllerTested ==
    /\ pc = "controller" /\ inb
    /\ IF data = "0x55"
       THEN answer' = (IF device.port THEN <<"0x00">> ELSE <<"0x01">>) /\ Goto("port")
       ELSE UNCHANGED answer /\ Goto("failed")
    /\ UNCHANGED <<keys, command, count, b1>>

PortTested ==
    /\ pc = "port" /\ inb
    /\ Goto(IF data = "0x00" THEN "enable" ELSE "failed")
    /\ UNCHANGED <<answer, keys, command, count, b1>>

EnablePort ==
    /\ pc = "enable" /\ enabled' = TRUE
    /\ Start("disable_scanning")
    /\ UNCHANGED <<device, scanning, waiting, answer, full, data, refused, keys, b1>>

\* outb(PS2_DATA_PORT, command), the first time or again, and where it leads.
\* The callback is registered behind the last command; its acknowledgement
\* is not read.
outb ==
    /\ pc = "send"
    /\ Accept(command) \/ Refuse(command)
    /\ IF command = "reset" /\ count = 0 THEN pc' = "send" /\ command' = "enable_scanning"
       ELSE /\ UNCHANGED command
            /\ Goto(CASE command = "enable_scanning" -> "ready"
                      [] command = "reset" -> "reset"
                      [] OTHER -> IF count = 0 THEN "last" ELSE "ack")
    /\ UNCHANGED <<device, enabled, answer, full, data, keys, count, b1>>

Acknowledged ==
    IF command = "identify" THEN Goto("b1") /\ UNCHANGED <<command, count>>
    ELSE Start("identify")

SeesKey == keys' = (keys \/ (data = "key" /\ command = "disable_scanning"))

SendAgain == Goto("send") /\ count' = count - 1 /\ UNCHANGED command

\* A faulty variant: any other byte is taken for the acknowledgement.
WaitAnyByte ==
    /\ pc = "ack" /\ inb /\ SeesKey
    /\ IF data = "RESEND" THEN SendAgain ELSE Acknowledged
    /\ UNCHANGED <<answer, b1>>

\* A turn of the loop of ps2_wait_for_ack.
ps2_wait_for_ack ==
    /\ pc = "ack" /\ inb /\ SeesKey
    /\ \/ data = "ACK" /\ Acknowledged
       \/ data = "RESEND" /\ SendAgain
       \/ data \notin {"ACK", "RESEND"} /\ Goto("last") /\ UNCHANGED <<command, count>>
    /\ UNCHANGED <<answer, b1>>

\* The one more byte that it reads behind the loop.
LastTry ==
    /\ pc = "last" /\ inb /\ SeesKey
    /\ IF data = "ACK" THEN Acknowledged ELSE Goto("failed") /\ UNCHANGED <<command, count>>
    /\ UNCHANGED <<answer, b1>>

FirstByte ==
    /\ pc = "b1" /\ inb
    /\ b1' = data /\ Goto("b2")
    /\ UNCHANGED <<answer, keys, command, count>>

SecondByte ==
    /\ pc = "b2" /\ inb
    /\ IF b1 = "0xab" /\ data = "type" THEN Start("reset")
       ELSE Goto("failed") /\ UNCHANGED <<command, count>>
    /\ UNCHANGED <<answer, keys, b1>>

EndReset == Goto("send") /\ command' = "enable_scanning"

\* A faulty variant: the acknowledgement of the reset ends it.
ResetEndsAtAck ==
    /\ pc = "reset" /\ inb /\ count' = count - 1
    /\ \/ data = "failed" /\ Goto("failed") /\ UNCHANGED command
       \/ data = "RESEND" /\ Goto("send") /\ UNCHANGED command
       \/ data \notin {"failed", "RESEND"} /\ EndReset
    /\ UNCHANGED <<answer, keys, b1>>

\* A turn of the loop of ps2_keyboard_reset.  Three turns without an answer
\* to the self-test count as success.
ps2_keyboard_reset ==
    /\ pc = "reset" /\ inb /\ count' = count - 1
    /\ \/ data = "failed" /\ Goto("failed") /\ UNCHANGED command
       \/ data = "RESEND" /\ Goto("send") /\ UNCHANGED command
       \/ data = "passed" /\ EndReset
       \/ /\ data \notin {"failed", "RESEND", "passed"}
          /\ IF count = 1 THEN EndReset ELSE UNCHANGED <<pc, command>>
    /\ UNCHANGED <<answer, keys, b1>>

Driver ==
    \/ DisablePorts \/ Flush \/ Flushed \/ ControllerTested \/ PortTested \/ EnablePort
    \/ outb \/ ps2_wait_for_ack \/ LastTry \/ FirstByte \/ SecondByte \/ ps2_keyboard_reset

Next == Driver \/ Arrive \/ Type

Spec == Init /\ [][Next]_vars

\* The kernel executes its call, and bytes arrive.  Nobody must type.
FairSpec == Spec /\ WF_vars(Driver) /\ WF_vars(Arrive)

-----------------------------------------------------------------------------
(* Properties.                                                             *)

\* The refusals that the driver gets over: three of the commands it waits for
\* (none, when a key came first), and one of the reset.
Bearable ==
    /\ refused["disable_scanning"] <= IF keys THEN 0 ELSE 3
    /\ refused["identify"] <= 3
    /\ refused["reset"] <= 1

\* Whatever is answered, and when, only a keyboard of a listed type becomes
\* ready.  A prompt keyboard with bearable refusals becomes ready exactly if
\* it has passed its tests.  (A keyboard that is slow, or refuses the reset
\* twice, becomes ready although its self-test failed.)
AnswersDecide ==
    /\ pc = "ready" => device.kind = "keyboard"
    /\ pc \in {"ready", "failed"} /\ device.prompt /\ Bearable =>
          (pc = "ready" <=> device.kind = "keyboard" /\ device.passes
                            /\ device.controller /\ device.port)

\* The two bytes of the identity are read from a device that has stopped
\* sending keys, with no key left on the way, however late its answers are
\* and whatever was typed before.
IdentifiedInSilence ==
    command = "identify" =>
        /\ ~scanning
        /\ ~(full /\ data = "key")
        /\ \A j \in DOMAIN waiting : waiting[j] # "key"

\* ps2_init returns, with somebody typing all the time: the buffer can be
\* flushed because the ports are disabled.
InitReturns == (pc = "start") ~> (pc \in {"ready", "failed"})
=============================================================================
