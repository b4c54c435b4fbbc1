--------------------------- MODULE Ps2InitProofs ----------------------------
(***************************************************************************)
(* The device is identified in silence, and its answers decide, for any    *)
(* number of refusals and of waiting keys.                                 *)
(*                                                                         *)
(* That a device is silent once it acknowledged is not enough: the driver  *)
(* sees the acknowledgement later.  The invariant says where one may be:   *)
(* as long as the driver waits for the first, any on the way or in the     *)
(* data port is of a device that has stopped (AckMeansSilence).            *)
(*                                                                         *)
(* That the driver decides by the answers needs to know, at every place of *)
(* the driver, which bytes it is going to read (LockStep).                 *)
(***************************************************************************)
EXTENDS Ps2Init, TLAPS

Bytes == {"key", "ACK", "RESEND", "passed", "failed", "0xab", "type", "other",
          "0x55", "0xfc", "0x00", "0x01"}
Own == {"0x55", "0xfc", "0x00", "0x01"}

Contains(s, b) == \E j \in DOMAIN s : s[j] = b

TypeOK ==
    /\ device \in Devices
    /\ waiting \in Seq(Bytes) /\ answer \in Seq(Own)
    /\ data \in Bytes /\ command \in Commands
    /\ scanning \in BOOLEAN /\ full \in BOOLEAN

Places ==
    /\ pc \in {"start", "flush", "controller", "port", "enable"} => command = "disable_scanning"
    /\ pc \in {"ack", "last"} => command \in {"disable_scanning", "identify"}

AckMeansSilence ==
    command = "disable_scanning" /\ (data = "ACK" \/ Contains(waiting, "ACK")) => ~scanning

NoKeyWaits ==
    command \in {"disable_scanning", "identify"} /\ ~scanning => ~Contains(waiting, "key")

Silence == command = "identify" => ~scanning /\ ~(full /\ data = "key")

IInv == TypeOK /\ Places /\ AckMeansSilence /\ NoKeyWaits /\ Silence

-----------------------------------------------------------------------------
\* The bytes behind the first were there before.
LEMMA TailContains ==
    ASSUME NEW S, NEW s \in Seq(S), s # << >>, NEW b
    PROVE  /\ Head(s) \in S /\ Tail(s) \in Seq(S)
           /\ Contains(s, Head(s))
           /\ Contains(Tail(s), b) => Contains(s, b)
<1>1. Len(s) \in Nat \ {0} /\ DOMAIN s = 1 .. Len(s)
  OBVIOUS
<1>2. Tail(s) \in Seq(S) /\ Len(Tail(s)) = Len(s) - 1
  BY <1>1
<1>3. \A j \in DOMAIN Tail(s) : j + 1 \in DOMAIN s /\ Tail(s)[j] = s[j + 1]
  BY <1>1, <1>2
<1>4. 1 \in DOMAIN s /\ s[1] = Head(s) /\ Head(s) \in S
  BY <1>1
<1> QED BY <1>2, <1>3, <1>4 DEF Contains

\* A key typed adds only itself.
LEMMA AppendContains ==
    ASSUME NEW S, NEW s \in Seq(S), NEW e \in S, NEW b
    PROVE  /\ Append(s, e) \in Seq(S)
           /\ Contains(Append(s, e), b) => Contains(s, b) \/ b = e
  BY DEF Contains

\* What short answers contain.
LEMMA ShortContains ==
    ASSUME NEW S, NEW a \in S, NEW b \in S, NEW c
    PROVE  /\ << >> \in Seq(S) /\ ~Contains(<< >>, c)
           /\ <<a>> \in Seq(S) /\ (Contains(<<a>>, c) => c = a)
           /\ <<a, b>> \in Seq(S) /\ (Contains(<<a, b>>, c) => c = a \/ c = b)
<1>1. << >> \in Seq(S)
  OBVIOUS
<1>2. ~Contains(<< >>, c)
  <2>1. DOMAIN << >> = {}
    OBVIOUS
  <2> QED BY <2>1 DEF Contains
<1>3. <<a>> \in Seq(S) /\ (Contains(<<a>>, c) => c = a)
  BY DEF Contains
<1>4. <<a, b>> \in Seq(S)
  OBVIOUS
<1>5. Contains(<<a, b>>, c) => c = a \/ c = b
  <2>1. DOMAIN <<a, b>> = 1 .. 2 /\ <<a, b>>[1] = a /\ <<a, b>>[2] = b
    OBVIOUS
  <2>2. \A j \in 1 .. 2 : j = 1 \/ j = 2
    OBVIOUS
  <2> QED BY <2>1, <2>2 DEF Contains
<1> QED BY <1>1, <1>2, <1>3, <1>4, <1>5

\* An answer is the acknowledgement and what belongs to it.
LEMMA ConcatContains ==
    ASSUME NEW S, NEW s \in Seq(S), NEW t \in Seq(S), NEW b
    PROVE  /\ s \o t \in Seq(S)
           /\ Contains(s \o t, b) => Contains(s, b) \/ Contains(t, b)
<1>1. DOMAIN s = 1 .. Len(s) /\ DOMAIN t = 1 .. Len(t) /\ Len(s) \in Nat /\ Len(t) \in Nat
  OBVIOUS
<1>2. DOMAIN (s \o t) = 1 .. Len(s) + Len(t)
  OBVIOUS
<1>3. ASSUME NEW j \in DOMAIN (s \o t)
      PROVE  \/ j \in DOMAIN s /\ (s \o t)[j] = s[j]
             \/ j - Len(s) \in DOMAIN t /\ (s \o t)[j] = t[j - Len(s)]
  BY <1>1, <1>2
<1> QED BY <1>3 DEF Contains

\* What a device answers holds no key, and is an acknowledgement only if it
\* does what it was told.
Answered ==
    /\ waiting' \in Seq(Bytes) /\ scanning' \in BOOLEAN
    /\ ~Contains(waiting', "key")
    /\ command = "identify" => scanning' = scanning
    /\ command = "disable_scanning" =>
          \/ scanning' = FALSE
          \/ scanning' = scanning /\ ~Contains(waiting', "ACK")

LEMMA AnswerBytes ==
    ASSUME TypeOK, Accept(command) \/ Refuse(command)
    PROVE  Answered
<1>1. CASE Accept(command)
  <2>1. command = "identify" => scanning' = scanning
    BY <1>1 DEF Accept
  <2>2. command = "disable_scanning" => scanning' = FALSE
    BY <1>1 DEF Accept
  <2>3. scanning' \in BOOLEAN
    BY <1>1 DEF Accept, TypeOK
  <2>. DEFINE payload == CASE command = "identify" -> Identity(device.kind)
                           [] command = "reset" -> IF device.passes THEN <<"passed">>
                                                   ELSE <<"failed">>
                           [] OTHER -> << >>
  <2>4. payload \in Seq(Bytes) /\ ~Contains(payload, "key")
    <3>1. device.kind \in {"keyboard", "unlisted", "mouse"}
      BY DEF TypeOK, Devices
    <3>2. payload \in {<<"0xab", "type">>, <<"0xab", "other">>, <<"0x00">>,
                       <<"passed">>, <<"failed">>, << >>}
      <4>1. CASE command = "identify"
        <5>1. payload = Identity(device.kind)
          BY <4>1
        <5> QED BY <3>1, <5>1 DEF Identity
      <4>2. CASE command = "reset"
        BY <4>2
      <4>3. CASE command \notin {"identify", "reset"}
        BY <4>3
      <4> QED BY <4>1, <4>2, <4>3
    <3>3. ASSUME NEW x \in Bytes \ {"key"}, NEW y \in Bytes \ {"key"},
                 NEW s \in {<< >>, <<x>>, <<x, y>>}
          PROVE  s \in Seq(Bytes) /\ ~Contains(s, "key")
      <4>1. x \in Bytes /\ y \in Bytes
        OBVIOUS
      <4>2. << >> \in Seq(Bytes) /\ ~Contains(<< >>, "key")
        BY <4>1, ShortContains
      <4>3. <<x>> \in Seq(Bytes) /\ ~Contains(<<x>>, "key")
        BY <4>1, ShortContains
      <4>4. <<x, y>> \in Seq(Bytes) /\ ~Contains(<<x, y>>, "key")
        BY <4>1, ShortContains
      <4> QED BY <4>2, <4>3, <4>4
    <3>4. {"0xab", "type", "other", "0x00", "passed", "failed"} \subseteq Bytes \ {"key"}
      BY DEF Bytes
    <3> HIDE DEF payload
    <3> QED BY <3>2, <3>3, <3>4
  <2>5. <<"ACK">> \in Seq(Bytes) /\ ~Contains(<<"ACK">>, "key")
    BY DEF Bytes, Contains
  <2>6. waiting' = <<"ACK">> \o payload
    BY <1>1 DEF Accept
  <2> HIDE DEF payload
  <2>7. waiting' \in Seq(Bytes) /\ ~Contains(waiting', "key")
    BY <2>4, <2>5, <2>6, ConcatContains
  <2> QED BY <2>1, <2>2, <2>3, <2>7 DEF Answered
<1>2. CASE Refuse(command)
  <2>1. waiting' = <<"RESEND">> /\ scanning' = scanning
    BY <1>2 DEF Refuse
  <2>2. <<"RESEND">> \in Seq(Bytes) /\ ~Contains(<<"RESEND">>, "key")
                                   /\ ~Contains(<<"RESEND">>, "ACK")
    BY DEF Bytes, Contains
  <2>3. waiting' \in Seq(Bytes) /\ ~Contains(waiting', "key") /\ ~Contains(waiting', "ACK")
    BY <2>1, <2>2
  <2> QED BY <2>1, <2>3 DEF TypeOK, Answered
<1> QED BY <1>1, <1>2

-----------------------------------------------------------------------------
LEMMA InitIInv == Init => IInv
<1> SUFFICES ASSUME Init PROVE IInv
  OBVIOUS
<1>1. waiting \in Seq(Bytes) /\ answer \in Seq(Own) /\ ~Contains(waiting, "ACK")
  BY ShortContains DEF Init, Bytes, Own
<1> QED BY <1>1 DEF Init, IInv, TypeOK, Places, AckMeansSilence, NoKeyWaits, Silence,
        Bytes, Commands

\* An access to a port that sends no command to the device changes neither
\* the device nor the data port.
Reads ==
    /\ UNCHANGED <<device, scanning, waiting, data>>
    /\ full' \in {full, FALSE} /\ answer' \in Seq(Own) /\ command' \in Commands

LEMMA ReadsIInv ==
    ASSUME IInv, Reads, Places',
           command' = "disable_scanning" => command = "disable_scanning",
           command' = "identify" =>
               \/ command = "identify"
               \/ command = "disable_scanning" /\ data = "ACK" /\ full' = FALSE
    PROVE  IInv'
<1>1. TypeOK'
  BY DEF IInv, TypeOK, Reads
<1>2. Contains(waiting, "ACK")' <=> Contains(waiting, "ACK")
  BY DEF Reads, Contains
<1>3. Contains(waiting, "key")' <=> Contains(waiting, "key")
  BY DEF Reads, Contains
<1>4. AckMeansSilence'
  BY <1>2 DEF IInv, AckMeansSilence, Reads
<1>5. NoKeyWaits'
  BY <1>3 DEF IInv, NoKeyWaits, AckMeansSilence, Reads
<1>6. Silence'
  BY DEF IInv, Silence, AckMeansSilence, Reads
<1> QED BY <1>1, <1>4, <1>5, <1>6 DEF IInv

\* The accesses that only read, write to the controller or do nothing yet.
LEMMA ReadSteps ==
    ASSUME IInv,
           \/ DisablePorts \/ Flush \/ Flushed \/ ControllerTested \/ PortTested
           \/ EnablePort \/ ps2_wait_for_ack \/ LastTry \/ FirstByte \/ SecondByte
           \/ ps2_keyboard_reset
    PROVE  IInv'
<1>0. TypeOK /\ Places
  BY DEF IInv
<1>1. CASE DisablePorts \/ Flush \/ Flushed \/ ControllerTested \/ PortTested
  <2>1. command' = command /\ UNCHANGED <<device, scanning, waiting, data>>
    BY <1>1 DEF DisablePorts, Flush, Flushed, ControllerTested, PortTested, inb
  <2>2. full' \in {full, FALSE}
    BY <1>1 DEF DisablePorts, Flush, Flushed, ControllerTested, PortTested, inb
  <2>3. answer' \in Seq(Own)
    <3>1. answer' \in {answer, <<"0x55">>, <<"0xfc">>, <<"0x00">>, <<"0x01">>}
      BY <1>1 DEF DisablePorts, Flush, Flushed, ControllerTested, PortTested
    <3>2. \A x \in Own : <<x>> \in Seq(Own)
      OBVIOUS
    <3> QED BY <1>0, <3>1, <3>2 DEF TypeOK, Own
  <2>4. Places'
    BY <1>0, <1>1, <2>1 DEF Places, DisablePorts, Flush, Flushed, ControllerTested, PortTested, Goto
  <2> QED BY <1>0, <2>1, <2>2, <2>3, <2>4, ReadsIInv DEF Reads, TypeOK
<1>2. CASE EnablePort
  <2>1. command' = "disable_scanning" /\ command = "disable_scanning" /\ pc' = "send"
    BY <1>0, <1>2 DEF EnablePort, Start, Goto, Places
  <2>2. Reads /\ Places'
    BY <1>0, <1>2, <2>1 DEF EnablePort, Reads, TypeOK, Places
  <2> QED BY <2>1, <2>2, ReadsIInv
<1>3. CASE ps2_wait_for_ack \/ LastTry
  <2>1. full' = FALSE /\ answer' = answer /\ UNCHANGED <<device, scanning, waiting, data>>
    BY <1>3 DEF ps2_wait_for_ack, LastTry, inb
  <2>2. command \in {"disable_scanning", "identify"}
    BY <1>0, <1>3 DEF ps2_wait_for_ack, LastTry, Places
  <2>3. \/ command' = command
        \/ command' = "identify" /\ data = "ACK"
    BY <1>3 DEF ps2_wait_for_ack, LastTry, Acknowledged, Start, SendAgain
  <2>4. pc' \in {"b1", "send", "last", "failed"}
    BY <1>3 DEF ps2_wait_for_ack, LastTry, Acknowledged, Start, SendAgain, Goto
  <2>5. Reads /\ Places'
    BY <1>0, <2>1, <2>2, <2>3, <2>4 DEF Reads, TypeOK, Places, Commands
  <2> QED BY <2>1, <2>2, <2>3, <2>5, ReadsIInv
<1>4. CASE FirstByte \/ SecondByte \/ ps2_keyboard_reset
  <2>1. full' = FALSE /\ answer' = answer /\ UNCHANGED <<device, scanning, waiting, data>>
    BY <1>4 DEF FirstByte, SecondByte, ps2_keyboard_reset, inb
  <2>2. command' \in {command, "reset", "enable_scanning"}
    BY <1>4 DEF FirstByte, SecondByte, ps2_keyboard_reset, Start, EndReset
  <2>3. pc' \in {"b2", "failed", "send", "reset"}
    BY <1>4 DEF FirstByte, SecondByte, ps2_keyboard_reset, Start, EndReset, Goto
  <2>4. Reads /\ Places'
    BY <1>0, <2>1, <2>2, <2>3 DEF Reads, TypeOK, Places, Commands
  <2> QED BY <2>1, <2>2, <2>4, ReadsIInv
<1> QED BY <1>1, <1>2, <1>3, <1>4

LEMMA SendIInv == IInv /\ outb => IInv'
<1> SUFFICES ASSUME IInv, outb PROVE IInv'
  OBVIOUS
<1>1. Answered /\ UNCHANGED <<device, answer, full, data>>
  BY AnswerBytes DEF outb, IInv
<1>2. command' \in {command, "enable_scanning"}
  BY DEF outb
<1>3. TypeOK'
  BY <1>1, <1>2 DEF IInv, TypeOK, Answered, Commands
<1>4. Places'
  BY DEF outb, Goto, Places, IInv, TypeOK, Commands
<1>5. Contains(waiting, "ACK")' <=> Contains(waiting', "ACK")
  BY DEF Contains
<1>6. Contains(waiting, "key")' <=> Contains(waiting', "key")
  BY DEF Contains
<1>7. AckMeansSilence'
  BY <1>1, <1>2, <1>5 DEF IInv, AckMeansSilence, Answered
<1>8. NoKeyWaits'
  BY <1>1, <1>6 DEF NoKeyWaits, Answered
<1>9. Silence'
  BY <1>1, <1>2 DEF IInv, Silence, Answered
<1> QED BY <1>3, <1>4, <1>7, <1>8, <1>9 DEF IInv

LEMMA ArriveIInv == IInv /\ Arrive => IInv'
<1> SUFFICES ASSUME IInv, Arrive PROVE IInv'
  OBVIOUS
<1>1. UNCHANGED <<device, scanning, pc, command>> /\ full' = TRUE /\ answer' = << >>
  BY DEF Arrive
<1>2. \/ data' \in Own /\ waiting' = waiting
      \/ /\ data' \in Bytes /\ Contains(waiting, data') /\ waiting' \in Seq(Bytes)
         /\ \A b : Contains(waiting', b) => Contains(waiting, b)
  <2>1. CASE answer # << >>
    <3>1. Head(answer \o (IF enabled THEN waiting ELSE << >>)) = Head(answer)
      <4>1. answer \in Seq(Own) /\ (IF enabled THEN waiting ELSE << >>) \in Seq(Bytes)
        BY DEF IInv, TypeOK
      <4> QED BY <2>1, <4>1
    <3>2. Head(answer) \in Own
      BY <2>1, TailContains DEF IInv, TypeOK
    <3> QED BY <2>1, <3>1, <3>2 DEF Arrive, Coming
  <2>2. CASE answer = << >>
    <3>1. waiting # << >> /\ enabled /\ Coming = waiting
      <4>1. << >> \o (IF enabled THEN waiting ELSE << >>) = IF enabled THEN waiting ELSE << >>
        BY DEF IInv, TypeOK
      <4> QED BY <2>2, <4>1 DEF Arrive, Coming
    <3>2. data' = Head(waiting) /\ waiting' = Tail(waiting)
      BY <2>2, <3>1 DEF Arrive
    <3>3. waiting \in Seq(Bytes)
      BY DEF IInv, TypeOK
    <3> QED BY <3>1, <3>2, <3>3, TailContains
  <2> QED BY <2>1, <2>2
<1>3. Own \subseteq Bytes /\ "ACK" \notin Own /\ "key" \notin Own
  BY DEF Own, Bytes
<1>4. << >> \in Seq(Own)
  OBVIOUS
<1>5. TypeOK'
  BY <1>1, <1>2, <1>3, <1>4 DEF IInv, TypeOK
<1>6. Places'
  BY <1>1 DEF IInv, Places
<1>7. \A b : Contains(waiting, b)' <=> Contains(waiting', b)
  BY DEF Contains
<1>8. AckMeansSilence'
  BY <1>1, <1>2, <1>3, <1>7 DEF IInv, AckMeansSilence
<1>9. NoKeyWaits'
  BY <1>1, <1>2, <1>7 DEF IInv, NoKeyWaits
<1>10. Silence'
  BY <1>1, <1>2, <1>3 DEF IInv, Silence, NoKeyWaits
<1> QED BY <1>5, <1>6, <1>8, <1>9, <1>10 DEF IInv

LEMMA TypeIInv == IInv /\ Type => IInv'
<1> SUFFICES ASSUME IInv, Type PROVE IInv'
  OBVIOUS
<1>1. UNCHANGED <<device, scanning, answer, full, data, pc, command>> /\ scanning
  BY DEF Type
<1>2. waiting' \in Seq(Bytes) /\ (Contains(waiting', "ACK") => Contains(waiting, "ACK"))
  BY AppendContains DEF Type, IInv, TypeOK, Bytes
<1>3. TypeOK'
  BY <1>1, <1>2 DEF IInv, TypeOK
<1>4. Contains(waiting, "ACK")' <=> Contains(waiting', "ACK")
  BY DEF Contains
<1> QED BY <1>1, <1>2, <1>3, <1>4 DEF IInv, Places, AckMeansSilence, NoKeyWaits, Silence

LEMMA StutterIInv == IInv /\ UNCHANGED vars => IInv'
<1> SUFFICES ASSUME IInv, UNCHANGED vars PROVE IInv'
  OBVIOUS
<1>1. Reads /\ Places' /\ command' = command
  BY DEF vars, hardware, IInv, TypeOK, Places, Reads
<1> QED BY <1>1, ReadsIInv

LEMMA Invariant == Spec => []IInv
<1>1. IInv /\ [Next]_vars => IInv'
  <2> SUFFICES ASSUME IInv, [Next]_vars PROVE IInv'
    OBVIOUS
  <2>1. CASE Driver
    BY <2>1, ReadSteps, SendIInv DEF Driver
  <2>2. CASE Arrive
    BY <2>2, ArriveIInv
  <2>3. CASE Type
    BY <2>3, TypeIInv
  <2>4. CASE UNCHANGED vars
    BY <2>4, StutterIInv
  <2> QED BY <2>1, <2>2, <2>3, <2>4 DEF Next
<1> QED BY InitIInv, <1>1, PTL DEF Spec

\* ps2_init reads the identity from a device that is silent, however often
\* commands were refused and however late the answers came.
THEOREM InSilence == Spec => []IdentifiedInSilence
<1>1. IInv => IdentifiedInSilence
  BY DEF IInv, Silence, NoKeyWaits, IdentifiedInSilence, Contains
<1> QED BY Invariant, <1>1, PTL
-----------------------------------------------------------------------------
(* The outcome of the initialisation.                                      *)
(*                                                                         *)
(* With a prompt device the driver reads, one after another, the bytes of  *)
(* Queue.  LockStep says what they are at every place of the driver, as    *)
(* long as the refusals are bearable.  A key may stand in front only while *)
(* scanning is being disabled, and behind only when it is enabled again.   *)

Queue == IF full THEN <<data>> \o waiting ELSE waiting

AllKeys(s) == \A j \in DOMAIN s : s[j] = "key"

\* Before the device is talked to.
First == {"start", "flush", "controller", "port", "enable"}

Counted ==
    /\ refused \in [Commands -> Nat] /\ count \in Int
    /\ keys \in BOOLEAN /\ enabled \in BOOLEAN
    /\ \/ command = "disable_scanning" /\ pc \in First \cup {"send", "ack", "last", "failed"}
       \/ command = "identify" /\ pc \in {"send", "ack", "last", "b1", "b2", "failed"}
       \/ command = "reset" /\ pc \in {"send", "reset", "failed"}
       \/ command = "enable_scanning" /\ pc \in {"send", "ready"}

OnlyKeyboards ==
    device.kind # "keyboard" =>
        /\ data # "type" /\ ~Contains(waiting, "type")
        /\ command \in {"disable_scanning", "identify"}

\* The controller's tests, whose answers are read alone.
ControllerSays == IF device.controller THEN "0x55" ELSE "0xfc"
PortSays == IF device.port THEN "0x00" ELSE "0x01"
AnswerIs(x) == IF full THEN data = x /\ answer = << >> ELSE answer = <<x>>

Begun ==
    /\ pc \in First => AllKeys(waiting) /\ ~keys /\ refused["disable_scanning"] = 0
    /\ command = "disable_scanning" => refused["identify"] = 0
    /\ command \in {"disable_scanning", "identify"} => refused["reset"] = 0
    /\ pc \in {"start", "flush"} => answer = << >>
    /\ pc \in First \ {"start"} => ~enabled
    /\ pc \notin First \cup {"failed"} => enabled
    /\ device.prompt =>
        /\ pc = "controller" => AnswerIs(ControllerSays)
        /\ pc = "port" => AnswerIs(PortSays) /\ device.controller
        /\ pc = "enable" => ~full /\ answer = << >>
        /\ pc \notin {"start", "flush", "controller", "port", "failed"} =>
              device.controller /\ device.port /\ answer = << >>

Begins(s, x) == s # << >> /\ Head(s) = x

\* The first byte is a key, which is more than is borne after a refusal; a
\* key, and the acknowledgement behind it; the acknowledgement; a refusal,
\* perhaps with keys behind it.
KeyAgain == Begins(Queue, "key") /\ refused["disable_scanning"] > 0
KeyThenAck == Begins(Queue, "key") /\ Tail(Queue) = <<"ACK">> /\ ~scanning
OnlyAck == Queue = <<"ACK">> /\ ~scanning
Resend ==
    /\ count = 4 - refused["disable_scanning"]
    /\ Begins(Queue, "RESEND") /\ AllKeys(Tail(Queue))

AtDisable ==
    /\ pc = "send" => ~keys /\ count = 3 - refused["disable_scanning"] /\ AllKeys(Queue)
    /\ pc = "ack" => ~keys /\ (KeyAgain \/ KeyThenAck \/ OnlyAck \/ Resend)
    /\ pc = "last" => OnlyAck \/ (~keys /\ KeyAgain)

\* Likewise for the identity and for the self-test.
Identified == Begins(Queue, "ACK") /\ Tail(Queue) = <<"0xab", "type">>
IdentifyAgain == Queue = <<"RESEND">> /\ count = 4 - refused["identify"]

AtIdentify ==
    /\ pc = "send" => Queue = << >> /\ count = 3 - refused["identify"]
    /\ pc = "ack" => Identified \/ IdentifyAgain
    /\ pc = "last" => Identified
    /\ pc = "b1" => Queue = <<"0xab", "type">>
    /\ pc = "b2" => Queue = <<"type">> /\ b1 = "0xab"

TestSays == IF device.passes THEN "passed" ELSE "failed"
AckThenTest ==
    count = 3 - refused["reset"] /\ Begins(Queue, "ACK") /\ Begins(Tail(Queue), TestSays)
TestFirst == count = 2 - refused["reset"] /\ Begins(Queue, TestSays)
ResetAgain == Queue = <<"RESEND">> /\ ~scanning /\ count = 4 - refused["reset"]

AtReset ==
    /\ pc = "send" => Queue = << >> /\ ~scanning /\ count = 3 - refused["reset"]
    /\ pc = "reset" => AckThenTest \/ TestFirst \/ ResetAgain

Sure == device.prompt /\ device.kind = "keyboard" /\ Bearable

Locked ==
    /\ command = "disable_scanning" /\ pc \notin First => AtDisable
    /\ command = "identify" => AtIdentify
    /\ command = "reset" => AtReset
    /\ command = "enable_scanning" => device.passes
    /\ pc = "failed" => ~(device.passes /\ device.controller /\ device.port)

LockStep == Sure => Locked

JInv == Counted /\ OnlyKeyboards /\ Begun /\ LockStep

-----------------------------------------------------------------------------
\* Short sequences.
LEMMA ShortSeqs ==
    /\ \A a : <<a>> # << >> /\ Head(<<a>>) = a /\ Tail(<<a>>) = << >>
    /\ \A a, b : <<a, b>> # << >> /\ Head(<<a, b>>) = a /\ Tail(<<a, b>>) = <<b>>
    /\ \A a, b, c : /\ <<a, b, c>> # << >> /\ Head(<<a, b, c>>) = a
                    /\ Tail(<<a, b, c>>) = <<b, c>>
<1>1. \A a : <<a>> # << >> /\ Head(<<a>>) = a /\ Tail(<<a>>) = << >>
  OBVIOUS
<1>2. \A a, b : <<a, b>> # << >> /\ Head(<<a, b>>) = a /\ Tail(<<a, b>>) = <<b>>
  OBVIOUS
<1>3. \A a, b, c : /\ <<a, b, c>> # << >> /\ Head(<<a, b, c>>) = a
                   /\ Tail(<<a, b, c>>) = <<b, c>>
  OBVIOUS
<1> QED BY <1>1, <1>2, <1>3

\* A byte put in front, and a key behind.
LEMMA FrontAndBack ==
    ASSUME NEW S, NEW s \in Seq(S), NEW a \in S
    PROVE  /\ <<a>> \o s \in Seq(S) /\ <<a>> \o s # << >>
           /\ Head(<<a>> \o s) = a /\ Tail(<<a>> \o s) = s
           /\ s # << >> => <<Head(s)>> \o Tail(s) = s
           /\ << >> \o s = s /\ s \o << >> = s
<1>1. <<a>> \in Seq(S) /\ Len(<<a>>) = 1 /\ <<a>>[1] = a
  OBVIOUS
<1>2. <<a>> \o s \in Seq(S) /\ <<a>> \o s # << >> /\ Head(<<a>> \o s) = a
  BY <1>1
<1>3. Tail(<<a>> \o s) = s
  BY <1>1, <1>2
<1>4. s # << >> => <<Head(s)>> \o Tail(s) = s
  OBVIOUS
<1>5. << >> \o s = s /\ s \o << >> = s
  OBVIOUS
<1> QED BY <1>2, <1>3, <1>4, <1>5

LEMMA AckInFront ==
    ASSUME NEW s \in Seq(Bytes)
    PROVE  Begins(<<"ACK">> \o s, "ACK") /\ Tail(<<"ACK">> \o s) = s
<1>1. "ACK" \in Bytes
  BY DEF Bytes
<1> QED BY <1>1, FrontAndBack DEF Begins

LEMMA QueueBytes == TypeOK => Queue \in Seq(Bytes)
BY FrontAndBack DEF TypeOK, Queue

LEMMA QueueEmpty == TypeOK /\ Queue = << >> => ~full /\ waiting = << >>
BY FrontAndBack DEF TypeOK, Queue

\* A read takes the first byte, when the device is prompt.
LEMMA QueueRead ==
    ASSUME TypeOK, device.prompt, enabled, answer = << >>, inb, Queue # << >>
    PROVE  data = Head(Queue) /\ Queue' = Tail(Queue)
<1>1. waiting \in Seq(Bytes) /\ data \in Bytes
  BY DEF TypeOK
<1>2. CASE full
  <2>1. Queue = <<data>> \o waiting
    BY <1>2 DEF Queue
  <2>2. Queue' = waiting
    BY DEF inb, Queue
  <2> QED BY <1>1, <2>1, <2>2, FrontAndBack
<1>3. CASE ~full
  <2>1. Coming = << >> /\ Queue = waiting
    BY <1>3 DEF inb, Queue
  <2>2. Coming = waiting
    BY <1>1, FrontAndBack DEF Coming
  <2> QED BY <2>1, <2>2
<1> QED BY <1>2, <1>3

LEMMA QueueArrive ==
    ASSUME TypeOK, enabled, answer = << >>, Arrive
    PROVE  Queue' = Queue
<1>1. waiting \in Seq(Bytes) /\ data \in Bytes
  BY DEF TypeOK
<1>2. Coming = waiting
  BY <1>1, FrontAndBack DEF Coming
<1>3. waiting # << >> /\ ~full /\ full' = TRUE /\ data' = Head(waiting) /\ waiting' = Tail(waiting)
  BY <1>2 DEF Arrive
<1>4. Queue = waiting /\ Queue' = <<Head(waiting)>> \o Tail(waiting)
  BY <1>3 DEF Queue
<1> QED BY <1>1, <1>3, <1>4, FrontAndBack

LEMMA QueueKey ==
    ASSUME TypeOK, Type
    PROVE  Queue' = Append(Queue, "key")
<1>1. waiting \in Seq(Bytes) /\ data \in Bytes /\ "key" \in Bytes
  BY DEF TypeOK, Bytes
<1>2. /\ full' = full /\ data' = data /\ waiting' = Append(waiting, "key")
  BY DEF Type
<1>3. CASE full
  <2>1. <<data>> \o Append(waiting, "key") = Append(<<data>> \o waiting, "key")
    BY <1>1
  <2> QED BY <1>2, <1>3, <2>1 DEF Queue
<1>4. CASE ~full
  BY <1>2, <1>4 DEF Queue
<1> QED BY <1>3, <1>4
-----------------------------------------------------------------------------
(* Every step keeps JInv.                                                  *)

\* Answers without a "type".
LEMMA NoTypeIn ==
    ASSUME NEW a \in Bytes \ {"type"}, NEW b \in Bytes \ {"type"}
    PROVE  /\ << >> \in Seq(Bytes) /\ ~Contains(<< >>, "type")
           /\ <<a>> \in Seq(Bytes) /\ ~Contains(<<a>>, "type")
           /\ <<a, b>> \in Seq(Bytes) /\ ~Contains(<<a, b>>, "type")
BY ShortContains

LEMMA InitJInv == Init => JInv
<1> SUFFICES ASSUME Init PROVE JInv
  OBVIOUS
<1>1. AllKeys(waiting) /\ ~Contains(waiting, "type")
  <2>1. DOMAIN << >> = {}
    OBVIOUS
  <2> QED BY <2>1 DEF Init, AllKeys, Contains
<1>2. pc = "start" /\ command = "disable_scanning" /\ data = "key" /\ answer = << >>
      /\ keys = FALSE /\ enabled = TRUE /\ count = 0
  BY DEF Init
<1>3. refused = [c \in Commands |-> 0]
  BY DEF Init
<1>4. /\ refused \in [Commands -> Nat] /\ refused["disable_scanning"] = 0
      /\ refused["identify"] = 0 /\ refused["reset"] = 0
  BY <1>3 DEF Commands
<1>5. Counted
  <2>0. keys \in BOOLEAN /\ enabled \in BOOLEAN
    BY <1>2, Zenon
  <2>1. count \in Int
    BY <1>2
  <2>2. pc \in First
    BY <1>2 DEF First
  <2> QED BY <1>2, <1>4, <2>0, <2>1, <2>2, Zenon DEF Counted
<1>6. OnlyKeyboards
  BY <1>1, <1>2 DEF OnlyKeyboards
<1>7. Begun
  BY <1>1, <1>2, <1>4 DEF Begun, First
<1>8. LockStep
  <2>1. pc \in First
    BY <1>2 DEF First
  <2>2. Locked
    BY <1>2, <2>1 DEF Locked
  <2> QED BY <2>2 DEF LockStep
<1> QED BY <1>5, <1>6, <1>7, <1>8 DEF JInv

\* The places of the driver, and its counts.
LEMMA CountedStep == TypeOK /\ Counted /\ [Next]_vars => Counted'
<1> SUFFICES ASSUME TypeOK, Counted, [Next]_vars PROVE Counted'
  OBVIOUS
<1>1. CASE outb
  <2>1. refused' \in [Commands -> Nat]
    <3>1. command \in Commands
      BY DEF TypeOK
    <3>2. CASE Accept(command)
      BY <3>2 DEF Accept, Counted
    <3>3. CASE Refuse(command)
      BY <3>1, <3>3 DEF Refuse, Counted
    <3> QED BY <1>1, <3>2, <3>3 DEF outb
  <2> QED BY <1>1, <2>1 DEF outb, Counted, Goto, First
<1>2. CASE DisablePorts \/ Flush \/ Flushed \/ ControllerTested \/ PortTested \/ EnablePort
  <2>1. refused' = refused /\ keys' = keys /\ count' \in {count, 3}
    BY <1>2 DEF DisablePorts, Flush, Flushed, ControllerTested, PortTested, EnablePort, inb, Start
  <2>2. command = "disable_scanning" /\ command' = "disable_scanning"
    BY <1>2 DEF DisablePorts, Flush, Flushed, ControllerTested, PortTested, EnablePort, Start,
         Counted
  <2>3. pc' \in First \cup {"send", "failed"}
    BY <1>2 DEF DisablePorts, Flush, Flushed, ControllerTested, PortTested, EnablePort, Start,
         Goto, First
  <2>4. refused' \in [Commands -> Nat] /\ count' \in Int
    BY <2>1 DEF Counted
  <2>5. keys' \in BOOLEAN
    BY <2>1, Zenon DEF Counted
  <2>6. enabled' \in BOOLEAN
    <3>1. enabled' = enabled \/ enabled' = TRUE \/ enabled' = FALSE
      BY <1>2 DEF DisablePorts, Flush, Flushed, ControllerTested, PortTested, EnablePort, inb
    <3> QED BY <3>1, Zenon DEF Counted
  <2> QED BY <2>2, <2>3, <2>4, <2>5, <2>6, Zenon DEF Counted
<1>3. CASE ps2_wait_for_ack \/ LastTry
  <2>1. refused' = refused /\ enabled' = enabled
    BY <1>3 DEF ps2_wait_for_ack, LastTry, inb
  <2>2. keys' \in BOOLEAN
    BY <1>3 DEF ps2_wait_for_ack, LastTry, SeesKey, Counted
  <2>3. count' \in {count, 3, count - 1}
    BY <1>3 DEF ps2_wait_for_ack, LastTry, Acknowledged, SendAgain, Start
  <2>4. command \in {"disable_scanning", "identify"}
    BY <1>3 DEF ps2_wait_for_ack, LastTry, Counted
  <2>5. \/ command' = command /\ pc' \in {"send", "last", "failed"}
        \/ command' = "identify" /\ pc' \in {"send", "b1"}
    BY <1>3 DEF ps2_wait_for_ack, LastTry, Acknowledged, SendAgain, Start, Goto
  <2> QED BY <2>1, <2>2, <2>3, <2>4, <2>5 DEF Counted
<1>4. CASE FirstByte \/ SecondByte
  BY <1>4 DEF FirstByte, SecondByte, inb, Start, Goto, Counted, First
<1>5. CASE ps2_keyboard_reset
  BY <1>5 DEF ps2_keyboard_reset, inb, EndReset, Goto, Counted, First
<1>6. CASE Arrive \/ Type \/ UNCHANGED vars
  BY <1>6 DEF Arrive, Type, vars, hardware, Counted
<1> QED BY <1>1, <1>2, <1>3, <1>4, <1>5, <1>6 DEF Next, Driver

\* The byte that names a keyboard comes from one, and the driver goes on with
\* one only.
LEMMA KeyboardStep == TypeOK /\ Counted /\ OnlyKeyboards /\ [Next]_vars => OnlyKeyboards'
<1> SUFFICES ASSUME TypeOK, Counted, OnlyKeyboards, [Next]_vars PROVE OnlyKeyboards'
  OBVIOUS
<1>a. Driver \/ Arrive \/ Type \/ UNCHANGED vars
  BY DEF Next
<1>b. device' = device
  <2>1. CASE DisablePorts \/ Flush \/ Flushed \/ ControllerTested \/ PortTested \/ EnablePort
    BY <2>1 DEF DisablePorts, Flush, Flushed, ControllerTested, PortTested, EnablePort, inb
  <2>2. CASE outb \/ Arrive \/ Type
    BY <2>2 DEF outb, Arrive, Type
  <2>3. CASE ps2_wait_for_ack \/ LastTry \/ FirstByte \/ SecondByte \/ ps2_keyboard_reset
    BY <2>3 DEF ps2_wait_for_ack, LastTry, FirstByte, SecondByte, ps2_keyboard_reset, inb
  <2>4. CASE UNCHANGED vars
    BY <2>4 DEF vars, hardware
  <2> QED BY <1>a, <2>1, <2>2, <2>3, <2>4 DEF Driver
<1> SUFFICES ASSUME device.kind # "keyboard"
             PROVE  /\ data' # "type" /\ ~Contains(waiting', "type")
                    /\ command' \in {"disable_scanning", "identify"}
  BY <1>b DEF OnlyKeyboards, Contains
<1>0. /\ data # "type" /\ ~Contains(waiting, "type")
      /\ command \in {"disable_scanning", "identify"}
  BY DEF OnlyKeyboards
<1>1. CASE outb
  <2>1. command' = command /\ data' = data
    BY <1>0, <1>1 DEF outb
  <2>2. ~Contains(waiting', "type")
    <3>1. CASE Refuse(command)
      <4>1. "RESEND" \in Bytes \ {"type"}
        BY DEF Bytes
      <4>2. waiting' = <<"RESEND">>
        BY <3>1 DEF Refuse
      <4> QED BY <4>1, <4>2, NoTypeIn
    <3>2. CASE Accept(command)
      <4>1. PICK s \in {<<"0xab", "other">>, <<"0x00">>, << >>} : waiting' = <<"ACK">> \o s
        <5>1. device.kind \in {"unlisted", "mouse"}
          BY DEF TypeOK, Devices
        <5>2. Identity(device.kind) \in {<<"0xab", "other">>, <<"0x00">>}
          BY <5>1 DEF Identity
        <5>3. command = "identify" => waiting' = <<"ACK">> \o Identity(device.kind)
          BY <3>2 DEF Accept
        <5>4. command = "disable_scanning" => waiting' = <<"ACK">> \o << >>
          BY <3>2 DEF Accept
        <5> QED BY <1>0, <5>2, <5>3, <5>4
      <4>2. s \in Seq(Bytes) /\ ~Contains(s, "type")
        <5>1. {"0xab", "other", "0x00"} \subseteq Bytes \ {"type"}
          BY DEF Bytes
        <5>2. CASE s = <<"0xab", "other">>
          BY <5>1, <5>2, NoTypeIn
        <5>3. CASE s = <<"0x00">>
          BY <5>1, <5>3, NoTypeIn
        <5>4. CASE s = << >>
          BY <5>1, <5>4, NoTypeIn
        <5> QED BY <5>2, <5>3, <5>4
      <4>3. <<"ACK">> \in Seq(Bytes) /\ ~Contains(<<"ACK">>, "type")
        <5>1. "ACK" \in Bytes \ {"type"}
          BY DEF Bytes
        <5> QED BY <5>1, NoTypeIn
      <4> QED BY <4>1, <4>2, <4>3, ConcatContains
    <3> QED BY <1>1, <3>1, <3>2 DEF outb
  <2> QED BY <1>0, <2>1, <2>2
<1>2. CASE DisablePorts \/ Flush \/ Flushed \/ ControllerTested \/ PortTested \/ EnablePort
  BY <1>0, <1>2 DEF DisablePorts, Flush, Flushed, ControllerTested, PortTested, EnablePort, inb,
       Start, Goto
<1>3. CASE ps2_wait_for_ack \/ LastTry
  BY <1>0, <1>3 DEF ps2_wait_for_ack, LastTry, inb, Acknowledged, SendAgain, Start, Goto
<1>4. CASE FirstByte \/ SecondByte
  BY <1>0, <1>4 DEF FirstByte, SecondByte, inb, Start, Goto
<1>5. ~ps2_keyboard_reset
  BY <1>0 DEF ps2_keyboard_reset, Counted, First
<1>6. CASE Arrive
  <2>1. command' = command
    BY <1>6 DEF Arrive
  <2>2. \/ data' \in Own /\ waiting' = waiting
        \/ waiting # << >> /\ data' = Head(waiting) /\ waiting' = Tail(waiting)
    <3>1. answer \in Seq(Own) /\ waiting \in Seq(Bytes)
      BY DEF TypeOK
    <3>2. CASE answer # << >>
      <4>1. Head(answer \o (IF enabled THEN waiting ELSE << >>)) = Head(answer)
        <5>1. (IF enabled THEN waiting ELSE << >>) \in Seq(Bytes)
          BY <3>1
        <5> QED BY <3>1, <3>2, <5>1
      <4> QED BY <1>6, <3>1, <3>2, <4>1, TailContains DEF Arrive, Coming
    <3>3. CASE answer = << >>
      <4>1. << >> \o (IF enabled THEN waiting ELSE << >>) = IF enabled THEN waiting ELSE << >>
        BY <3>1
      <4> QED BY <1>6, <3>3, <4>1 DEF Arrive, Coming
    <3> QED BY <3>2, <3>3
  <2>3. waiting # << >> =>
            Contains(waiting, Head(waiting)) /\ (Contains(Tail(waiting), "type") => Contains(waiting, "type"))
    BY TailContains DEF TypeOK
  <2>4. "type" \notin Own
    BY DEF Own
  <2> QED BY <1>0, <2>1, <2>2, <2>3, <2>4
<1>7. CASE Type
  <2>1. command' = command /\ data' = data /\ waiting' = Append(waiting, "key")
    BY <1>7 DEF Type
  <2>2. Contains(Append(waiting, "key"), "type") => Contains(waiting, "type")
    BY AppendContains DEF TypeOK, Bytes
  <2> QED BY <1>0, <2>1, <2>2
<1>8. CASE UNCHANGED vars
  BY <1>0, <1>8 DEF vars, hardware
<1> QED BY <1>1, <1>2, <1>3, <1>4, <1>5, <1>6, <1>7, <1>8 DEF Next, Driver

\* What a command does to the rest.
LEMMA SendIs ==
    ASSUME TypeOK, Counted, outb
    PROVE  /\ UNCHANGED <<device, enabled, answer, full, data, keys, count, b1>>
           /\ \A c \in Commands : refused'[c] >= refused[c]
           /\ \A c \in Commands \ {command} : refused'[c] = refused[c]
           /\ \/ Accept(command) /\ refused' = refused
              \/ /\ refused'[command] = refused[command] + 1
                 /\ waiting' = <<"RESEND">> /\ scanning' = scanning
<1>1. command \in Commands /\ refused \in [Commands -> Nat]
  BY DEF TypeOK, Counted
<1>2. CASE Accept(command)
  BY <1>1, <1>2 DEF outb, Accept
<1>3. CASE Refuse(command)
  <2>1. refused' = [refused EXCEPT ![command] = refused[command] + 1]
    BY <1>3 DEF Refuse
  <2>2. \A c \in Commands : refused'[c] = IF c = command THEN refused[c] + 1 ELSE refused[c]
    BY <1>1, <2>1
  <2>3. \A c \in Commands : refused[c] \in Nat
    BY <1>1
  <2> QED BY <1>1, <1>3, <2>2, <2>3 DEF outb, Refuse
<1> QED BY <1>2, <1>3 DEF outb

\* What can be borne now could be borne before.
LEMMA SureBefore == TypeOK /\ Counted /\ [Next]_vars /\ Sure' => Sure /\ device' = device
<1> SUFFICES ASSUME TypeOK, Counted, [Next]_vars, Sure' PROVE Sure /\ device' = device
  OBVIOUS
<1>0. refused["disable_scanning"] \in Nat /\ refused["identify"] \in Nat /\ refused["reset"] \in Nat
  BY DEF Counted, Commands
<1>1. CASE outb
  <2>1. /\ refused'["disable_scanning"] >= refused["disable_scanning"]
        /\ refused'["identify"] >= refused["identify"]
        /\ refused'["reset"] >= refused["reset"]
        /\ keys' = keys /\ device' = device
    BY <1>1, SendIs DEF Commands
  <2>2. /\ refused'["disable_scanning"] \in Nat /\ refused'["identify"] \in Nat
        /\ refused'["reset"] \in Nat
    BY CountedStep DEF Counted, Commands
  <2> QED BY <1>0, <2>1, <2>2 DEF Sure, Bearable
<1>2. CASE Arrive \/ Type \/ UNCHANGED vars
  BY <1>2 DEF Sure, Bearable, Arrive, Type, vars, hardware
<1>3. CASE DisablePorts \/ Flush \/ Flushed \/ ControllerTested \/ PortTested \/ EnablePort
  <2>1. refused' = refused /\ keys' = keys /\ device' = device
    BY <1>3 DEF DisablePorts, Flush, Flushed, ControllerTested, PortTested, EnablePort, inb
  <2> QED BY <2>1 DEF Sure, Bearable
<1>4. CASE ps2_wait_for_ack \/ LastTry
  <2>1. refused' = refused /\ (keys => keys') /\ device' = device
    BY <1>4 DEF ps2_wait_for_ack, LastTry, inb, SeesKey
  <2> QED BY <1>0, <2>1 DEF Sure, Bearable
<1>5. CASE FirstByte \/ SecondByte \/ ps2_keyboard_reset
  <2>1. refused' = refused /\ keys' = keys /\ device' = device
    BY <1>5 DEF FirstByte, SecondByte, ps2_keyboard_reset, inb
  <2> QED BY <2>1 DEF Sure, Bearable
<1>6. Driver \/ Arrive \/ Type \/ UNCHANGED vars
  BY DEF Next
<1> QED BY <1>1, <1>2, <1>3, <1>4, <1>5, <1>6 DEF Driver

\* A prompt device's only answer is the one that is read.
LEMMA AnswerRead ==
    ASSUME TypeOK, device.prompt, ~enabled, inb, NEW x, AnswerIs(x)
    PROVE  data = x
<1>1. CASE full
  BY <1>1 DEF AnswerIs
<1>2. CASE ~full
  <2>1. answer = <<x>> /\ Coming = << >>
    BY <1>2 DEF AnswerIs, inb
  <2>2. Coming = answer
    BY FrontAndBack DEF Coming, TypeOK
  <2> QED BY <2>1, <2>2, ShortSeqs
<1> QED BY <1>1, <1>2

LEMMA BegunStep == TypeOK /\ Counted /\ Begun /\ [Next]_vars => Begun'
<1> SUFFICES ASSUME TypeOK, Counted, Begun, [Next]_vars PROVE Begun'
  OBVIOUS
<1>1. CASE DisablePorts
  BY <1>1 DEF DisablePorts, Goto, Begun, First, AllKeys
<1>2. CASE Flush
  <2>1. pc' = pc /\ pc = "flush" /\ answer' = answer
        /\ UNCHANGED <<device, waiting, keys, refused, command, enabled>>
    BY <1>2 DEF Flush, inb
  <2> QED BY <2>1 DEF Begun, First, AllKeys
<1>3. CASE Flushed
  <2>1. answer' = <<ControllerSays>> /\ full' = FALSE
    BY <1>3 DEF Flushed, ControllerSays, TypeOK
  <2>2. AnswerIs(ControllerSays)'
    <3>1. device' = device
      BY <1>3 DEF Flushed
    <3> QED BY <2>1, <3>1 DEF AnswerIs, ControllerSays
  <2> QED BY <1>3, <2>2 DEF Flushed, Goto, Begun, First, AllKeys
<1>4. CASE ControllerTested
  <2>1. pc = "controller" /\ full' = FALSE
        /\ UNCHANGED <<device, waiting, keys, refused, command, enabled>>
    BY <1>4 DEF ControllerTested, inb
  <2>2. CASE data = "0x55"
    <3>1. pc' = "port" /\ answer' = <<PortSays>>
      BY <1>4, <2>2 DEF ControllerTested, Goto, PortSays
    <3>2. AnswerIs(PortSays)'
      BY <2>1, <3>1 DEF AnswerIs, PortSays
    <3>3. device.prompt => device.controller
      <4>1. device.prompt => data = ControllerSays
        BY <1>4, <2>1, AnswerRead DEF ControllerTested, Begun, First
      <4> QED BY <2>2, <4>1 DEF ControllerSays
    <3> QED BY <2>1, <3>1, <3>2, <3>3 DEF Begun, First, AllKeys
  <2>3. CASE data # "0x55"
    <3>1. pc' = "failed"
      BY <1>4, <2>3 DEF ControllerTested, Goto
    <3> QED BY <2>1, <3>1 DEF Begun, First
  <2> QED BY <2>2, <2>3
<1>5. CASE PortTested
  <2>1. pc = "port" /\ full' = FALSE /\ answer' = answer
        /\ UNCHANGED <<device, waiting, keys, refused, command, enabled>>
    BY <1>5 DEF PortTested, inb
  <2>2. CASE data = "0x00"
    <3>1. pc' = "enable"
      BY <1>5, <2>2 DEF PortTested, Goto
    <3>2. device.prompt => device.port /\ device.controller /\ answer = << >>
      <4>1. device.prompt => data = PortSays
        BY <1>5, <2>1, AnswerRead DEF PortTested, Begun, First
      <4>2. device.prompt => answer = << >>
        <5> SUFFICES ASSUME device.prompt PROVE answer = << >>
          OBVIOUS
        <5>1. AnswerIs(PortSays) /\ ~enabled /\ inb
          BY <1>5, <2>1 DEF PortTested, Begun, First
        <5>2. CASE full
          BY <5>1, <5>2 DEF AnswerIs
        <5>3. CASE ~full
          <6>1. answer = <<PortSays>> /\ Coming = << >> /\ Coming = answer
            BY <5>1, <5>3, FrontAndBack DEF AnswerIs, inb, Coming, TypeOK
          <6> QED BY <6>1, ShortSeqs
        <5> QED BY <5>2, <5>3
      <4> QED BY <2>1, <2>2, <4>1, <4>2 DEF PortSays, Begun
    <3> QED BY <2>1, <3>1, <3>2 DEF Begun, First, AllKeys
  <2>3. CASE data # "0x00"
    <3>1. pc' = "failed"
      BY <1>5, <2>3 DEF PortTested, Goto
    <3> QED BY <2>1, <3>1 DEF Begun, First
  <2> QED BY <2>2, <2>3
<1>6. CASE EnablePort
  <2>1. pc' = "send" /\ enabled' = TRUE /\ pc = "enable" /\ command' = "disable_scanning"
        /\ command = "disable_scanning"
        /\ UNCHANGED <<device, answer, refused>>
    BY <1>6 DEF EnablePort, Start, Counted, First
  <2> QED BY <2>1 DEF Begun, First
<1>7. CASE outb
  <2>1. /\ UNCHANGED <<device, enabled, answer>>
        /\ \A c \in Commands \ {command} : refused'[c] = refused[c]
    BY <1>7, SendIs
  <2>2. pc = "send" /\ pc' \in {"send", "ready", "reset", "last", "ack"}
    BY <1>7 DEF outb, Goto
  <2>3. command' \in {command, "enable_scanning"}
    BY <1>7 DEF outb
  <2>4. /\ command' = "disable_scanning" => refused'["identify"] = 0
        /\ command' \in {"disable_scanning", "identify"} => refused'["reset"] = 0
    BY <2>1, <2>3 DEF Begun, Commands
  <2> QED BY <2>1, <2>2, <2>4 DEF Begun, First
<1>8. CASE ps2_wait_for_ack \/ LastTry
  <2>1. pc \in {"ack", "last"} /\ pc' \in {"send", "last", "failed", "b1"}
    BY <1>8 DEF ps2_wait_for_ack, LastTry, Acknowledged, SendAgain, Start, Goto
  <2>2. command' \in {command, "identify"} /\ command \in {"disable_scanning", "identify"}
    BY <1>8 DEF ps2_wait_for_ack, LastTry, Acknowledged, SendAgain, Start, Counted
  <2>3. UNCHANGED <<device, enabled, answer, refused>>
    BY <1>8 DEF ps2_wait_for_ack, LastTry, inb
  <2> QED BY <2>1, <2>2, <2>3 DEF Begun, First
<1>9. CASE FirstByte \/ SecondByte \/ ps2_keyboard_reset
  <2>1. pc \in {"b1", "b2", "reset"} /\ pc' \in {"b2", "send", "failed", "reset"}
    BY <1>9 DEF FirstByte, SecondByte, ps2_keyboard_reset, EndReset, Start, Goto
  <2>2. \/ command' = command
        \/ command' \in {"reset", "enable_scanning"} /\ command \in {"identify", "reset"}
    BY <1>9 DEF FirstByte, SecondByte, ps2_keyboard_reset, EndReset, Start, Goto, Counted, First
  <2>3. UNCHANGED <<device, enabled, answer, refused>>
    BY <1>9 DEF FirstByte, SecondByte, ps2_keyboard_reset, inb
  <2> QED BY <2>1, <2>2, <2>3 DEF Begun, First
<1>10. CASE Arrive
  <2>1. /\ UNCHANGED <<device, enabled, refused, keys, pc, command>>
        /\ ~full /\ full' = TRUE /\ answer' = << >> /\ data' = Head(Coming)
        /\ Coming # << >> /\ waiting' = IF answer = << >> THEN Tail(waiting) ELSE waiting
    BY <1>10 DEF Arrive
  <2>2. ~enabled => Coming = answer
    BY FrontAndBack DEF Coming, TypeOK
  <2>3. ASSUME pc \in First
        PROVE  AllKeys(waiting')
    <3>1. CASE answer = << >>
      <4>1. waiting # << >> /\ waiting \in Seq(Bytes)
        <5>1. Coming = IF enabled THEN waiting ELSE << >>
          BY <3>1, FrontAndBack DEF Coming, TypeOK
        <5> QED BY <2>1, <5>1 DEF TypeOK
      <4>2. \A j \in DOMAIN Tail(waiting) : j + 1 \in DOMAIN waiting /\ Tail(waiting)[j] = waiting[j + 1]
        BY <4>1
      <4> QED BY <2>1, <2>3, <3>1, <4>2 DEF AllKeys, Begun
    <3>2. CASE answer # << >>
      BY <2>1, <2>3, <3>2 DEF Begun
    <3> QED BY <3>1, <3>2
  <2>4. ASSUME NEW x, AnswerIs(x), ~enabled
        PROVE  full' = TRUE /\ data' = x /\ answer' = << >>
    BY <2>1, <2>2, <2>4, ShortSeqs DEF AnswerIs
  <2>5. ASSUME device.prompt
        PROVE  /\ pc = "controller" => AnswerIs(ControllerSays)'
               /\ pc = "port" => AnswerIs(PortSays)'
               /\ pc # "enable"
    <3>1. pc \in {"controller", "port", "enable"} => ~enabled
      BY DEF Begun, First
    <3>2. pc = "controller" => AnswerIs(ControllerSays)'
      BY <2>1, <2>4, <2>5, <3>1 DEF Begun, AnswerIs, ControllerSays
    <3>3. pc = "port" => AnswerIs(PortSays)'
      BY <2>1, <2>4, <2>5, <3>1 DEF Begun, AnswerIs, PortSays
    <3>4. pc # "enable"
      BY <2>1, <2>2, <2>5, <3>1 DEF Begun
    <3> QED BY <3>2, <3>3, <3>4
  <2> QED BY <2>1, <2>3, <2>5 DEF Begun, First
<1>11. CASE Type
  <2>1. /\ UNCHANGED <<device, enabled, answer, full, data, refused, keys, pc, command>>
        /\ waiting' = Append(waiting, "key") /\ waiting \in Seq(Bytes)
    BY <1>11 DEF Type, TypeOK
  <2>2. AllKeys(waiting) => AllKeys(waiting')
    <3>1. DOMAIN waiting' = 1 .. Len(waiting) + 1 /\ DOMAIN waiting = 1 .. Len(waiting)
          /\ Len(waiting) \in Nat
      BY <2>1
    <3>2. \A j \in DOMAIN waiting' : waiting'[j] = IF j \in DOMAIN waiting THEN waiting[j] ELSE "key"
      BY <2>1, <3>1
    <3> QED BY <3>2 DEF AllKeys
  <2>3. AnswerIs(ControllerSays)' <=> AnswerIs(ControllerSays)
    BY <2>1 DEF AnswerIs, ControllerSays
  <2>4. AnswerIs(PortSays)' <=> AnswerIs(PortSays)
    BY <2>1 DEF AnswerIs, PortSays
  <2> QED BY <2>1, <2>2, <2>3, <2>4 DEF Begun, First
<1>12. CASE UNCHANGED vars
  BY <1>12 DEF vars, hardware, Begun, First, AllKeys, AnswerIs, ControllerSays, PortSays
<1>13. Driver \/ Arrive \/ Type \/ UNCHANGED vars
  BY DEF Next
<1> QED BY <1>1, <1>2, <1>3, <1>4, <1>5, <1>6, <1>7, <1>8, <1>9, <1>10, <1>11, <1>12, <1>13
        DEF Driver

\* The controller's tests.
LEMMA TestsLocked ==
    ASSUME TypeOK, Counted, Begun, Sure, device' = device,
           DisablePorts \/ Flush \/ Flushed \/ ControllerTested \/ PortTested
    PROVE  Locked'
<1>1. command = "disable_scanning" /\ command' = "disable_scanning"
  BY DEF DisablePorts, Flush, Flushed, ControllerTested, PortTested, Counted
<1>2. CASE DisablePorts \/ Flush \/ Flushed
  BY <1>1, <1>2 DEF DisablePorts, Flush, Flushed, Goto, Locked, First
<1>3. CASE ControllerTested
  <2>1. data = ControllerSays
    BY <1>3, AnswerRead DEF ControllerTested, Begun, First, Sure
  <2>2. pc' = "port" \/ (pc' = "failed" /\ ~device.controller)
    BY <1>3, <2>1 DEF ControllerTested, Goto, ControllerSays
  <2> QED BY <1>1, <2>2 DEF Locked, First, AtDisable
<1>4. CASE PortTested
  <2>1. data = PortSays
    BY <1>4, AnswerRead DEF PortTested, Begun, First, Sure
  <2>2. pc' = "enable" \/ (pc' = "failed" /\ ~device.port)
    BY <1>4, <2>1 DEF PortTested, Goto, PortSays
  <2> QED BY <1>1, <2>2 DEF Locked, First, AtDisable
<1> QED BY <1>2, <1>3, <1>4

LEMMA EnableLocked ==
    ASSUME TypeOK, Counted, Begun, Sure, device' = device, EnablePort
    PROVE  Locked'
<1>1. /\ pc' = "send" /\ command' = "disable_scanning" /\ count' = 3
      /\ UNCHANGED <<full, data, waiting, keys, refused>>
  BY DEF EnablePort, Start
<1>2. ~keys /\ refused["disable_scanning"] = 0 /\ AllKeys(waiting) /\ ~full
  BY DEF EnablePort, Begun, First, Sure
<1>3. Queue' = waiting
  BY <1>1, <1>2 DEF Queue
<1>4. AtDisable'
  BY <1>1, <1>2, <1>3 DEF AtDisable, AllKeys
<1> QED BY <1>1, <1>4 DEF Locked

\* Of the bytes in front of an answer only one in the controller is left.
LEMMA DisableSent ==
    ASSUME TypeOK, Counted, Begun, LockStep, Sure, Sure', device' = device, outb,
           command = "disable_scanning"
    PROVE  Locked'
<1>1. pc = "send" /\ command' = command /\ pc' = IF count = 0 THEN "last" ELSE "ack"
  BY DEF outb, Goto
<1>2. ~keys /\ count = 3 - refused["disable_scanning"] /\ AllKeys(Queue)
  BY <1>1 DEF LockStep, Locked, AtDisable, First
<1>3. keys' = keys /\ count' = count /\ full' = full /\ data' = data
  BY SendIs
<1>4. full => data = "key"
  <2>1. Queue = <<data>> \o waiting /\ waiting \in Seq(Bytes) /\ data \in Bytes => Queue[1] = data /\ 1 \in DOMAIN Queue
    OBVIOUS
  <2> QED BY <1>2, <2>1 DEF AllKeys, Queue, TypeOK
<1>5. refused["disable_scanning"] \in Nat /\ refused'["disable_scanning"] \in Nat
  BY CountedStep DEF Counted, Commands, Next, Driver
<1>6. refused'["disable_scanning"] <= 3
  BY <1>2, <1>3 DEF Sure, Bearable
<1>7. CASE Accept(command)
  <2>1. ~scanning' /\ waiting' = <<"ACK">> \o << >>
    BY <1>7 DEF Accept
  <2>2. waiting' = <<"ACK">>
    BY <2>1
  <2>3. KeyThenAck' \/ OnlyAck'
    <3>1. "key" \in Bytes /\ <<"ACK">> \in Seq(Bytes)
      BY DEF Bytes
    <3>2. Queue' = IF full THEN <<"key">> \o <<"ACK">> ELSE <<"ACK">>
      BY <1>3, <1>4, <2>2 DEF Queue
    <3>3. CASE full
      BY <2>1, <3>1, <3>2, <3>3, FrontAndBack DEF Begins, KeyThenAck
    <3>4. CASE ~full
      BY <2>1, <3>2, <3>4 DEF OnlyAck
    <3> QED BY <3>3, <3>4
  <2>4. count = 0 => refused'["disable_scanning"] > 0
    <3>1. refused'["disable_scanning"] >= refused["disable_scanning"]
      BY SendIs DEF Commands
    <3> QED BY <1>2, <1>5, <3>1
  <2>5. KeyThenAck' => (count = 0 => KeyAgain')
    BY <2>4 DEF KeyThenAck, KeyAgain
  <2>6. ~keys' /\ pc' \in {"last", "ack"} /\ (pc' = "last" => count = 0)
    BY <1>1, <1>2, <1>3
  <2>7. AtDisable'
    BY <2>3, <2>5, <2>6 DEF AtDisable
  <2> QED BY <1>1, <2>6, <2>7 DEF Locked
<1>8. CASE ~Accept(command)
  <2>1. /\ refused'["disable_scanning"] = refused["disable_scanning"] + 1
        /\ waiting' = <<"RESEND">>
    BY <1>8, SendIs
  <2>2. count # 0 /\ count' = 4 - refused'["disable_scanning"] /\ refused'["disable_scanning"] > 0
    BY <1>2, <1>3, <1>5, <1>6, <2>1
  <2>3. KeyAgain' \/ Resend'
    <3>1. "key" \in Bytes /\ <<"RESEND">> \in Seq(Bytes)
      BY DEF Bytes
    <3>2. Queue' = IF full THEN <<"key">> \o <<"RESEND">> ELSE <<"RESEND">>
      BY <1>3, <1>4, <2>1 DEF Queue
    <3>3. CASE full
      BY <2>2, <3>1, <3>2, <3>3, FrontAndBack DEF Begins, KeyAgain
    <3>4. CASE ~full
      <4>1. Begins(Queue', "RESEND") /\ Tail(Queue') = << >>
        BY <3>2, <3>4, ShortSeqs DEF Begins
      <4>2. AllKeys(<< >>)
        <5>1. DOMAIN << >> = {}
          OBVIOUS
        <5> QED BY <5>1 DEF AllKeys
      <4> QED BY <2>2, <4>1, <4>2 DEF Resend
    <3> QED BY <3>3, <3>4
  <2>4. ~keys' /\ pc' = "ack"
    BY <1>1, <1>2, <1>3, <2>2
  <2>5. AtDisable'
    BY <2>3, <2>4 DEF AtDisable
  <2> QED BY <1>1, <2>4, <2>5 DEF Locked
<1> QED BY <1>7, <1>8

LEMMA IdentifySent ==
    ASSUME TypeOK, Counted, Begun, LockStep, Sure, Sure', device' = device, outb,
           command = "identify"
    PROVE  Locked'
<1>1. pc = "send" /\ command' = command /\ pc' = IF count = 0 THEN "last" ELSE "ack"
  BY DEF outb, Goto
<1>2. Queue = << >> /\ count = 3 - refused["identify"]
  BY <1>1 DEF LockStep, Locked, AtIdentify
<1>3. count' = count /\ full' = FALSE /\ ~full
  BY <1>2, SendIs, QueueEmpty DEF TypeOK
<1>4. refused["identify"] \in Nat /\ refused'["identify"] \in Nat /\ refused'["identify"] <= 3
  BY CountedStep DEF Counted, Commands, Next, Driver, Sure, Bearable
<1>5. Queue' = waiting'
  BY <1>3 DEF Queue
<1>6. CASE Accept(command)
  <2>1. waiting' = <<"ACK">> \o Identity(device.kind)
    BY <1>6 DEF Accept
  <2>2. Identity(device.kind) = <<"0xab", "type">>
    BY DEF Sure, Identity
  <2>3. <<"0xab", "type">> \in Seq(Bytes)
    BY DEF Bytes
  <2>4. Queue' = <<"ACK">> \o <<"0xab", "type">>
    BY <1>5, <2>1, <2>2
  <2>5. Begins(Queue', "ACK") /\ Tail(Queue') = <<"0xab", "type">>
    BY <2>3, <2>4, AckInFront
  <2>6. Identified'
    BY <2>5 DEF Identified
  <2>7. AtIdentify'
    BY <1>1, <2>6 DEF AtIdentify
  <2> QED BY <1>1, <2>7 DEF Locked
<1>7. CASE ~Accept(command)
  <2>1. refused'["identify"] = refused["identify"] + 1 /\ waiting' = <<"RESEND">>
    BY <1>7, SendIs
  <2>2. count # 0 /\ count' = 4 - refused'["identify"]
    BY <1>2, <1>3, <1>4, <2>1
  <2>3. IdentifyAgain'
    BY <1>5, <2>1, <2>2 DEF IdentifyAgain
  <2>4. AtIdentify'
    BY <1>1, <2>2, <2>3 DEF AtIdentify
  <2> QED BY <1>1, <2>2, <2>4 DEF Locked
<1> QED BY <1>6, <1>7

\* One refusal does not exhaust the turns of the loop.
LEMMA ResetSent ==
    ASSUME TypeOK, Counted, Begun, LockStep, Sure, Sure', device' = device, outb,
           command = "reset"
    PROVE  Locked'
<1>1. pc = "send"
  BY DEF outb
<1>2. Queue = << >> /\ ~scanning /\ count = 3 - refused["reset"]
  BY <1>1 DEF LockStep, Locked, AtReset
<1>3. count' = count /\ full' = FALSE /\ ~full
  BY <1>2, SendIs, QueueEmpty DEF TypeOK
<1>4. refused["reset"] \in Nat /\ refused'["reset"] \in Nat /\ refused'["reset"] <= 1
  BY CountedStep DEF Counted, Commands, Next, Driver, Sure, Bearable
<1>5. refused'["reset"] >= refused["reset"]
  BY SendIs DEF Commands
<1>6. command' = command /\ pc' = "reset"
  <2>1. count # 0
    BY <1>2, <1>4, <1>5
  <2> QED BY <2>1 DEF outb, Goto
<1>7. Queue' = waiting'
  BY <1>3 DEF Queue
<1>8. CASE Accept(command)
  <2>1. waiting' = <<"ACK">> \o (IF device.passes THEN <<"passed">> ELSE <<"failed">>)
        /\ refused' = refused
    BY <1>8 DEF Accept
  <2>2. (IF device.passes THEN <<"passed">> ELSE <<"failed">>) = <<TestSays>>
    BY DEF TestSays
  <2>3. <<TestSays>> \in Seq(Bytes) /\ Queue' = <<"ACK">> \o <<TestSays>>
    BY <1>7, <2>1, <2>2 DEF Bytes, TestSays
  <2>4. Begins(Queue', "ACK") /\ Tail(Queue') = <<TestSays>>
    BY <2>3, AckInFront
  <2>5. TestSays' = TestSays
    BY DEF TestSays
  <2>6. Begins(Tail(Queue'), TestSays)
    BY <2>4, ShortSeqs DEF Begins
  <2>7. AckThenTest'
    BY <1>2, <1>3, <2>1, <2>4, <2>5, <2>6 DEF AckThenTest
  <2>8. AtReset'
    BY <1>6, <2>7 DEF AtReset
  <2> QED BY <1>6, <2>8 DEF Locked
<1>9. CASE ~Accept(command)
  <2>1. refused'["reset"] = refused["reset"] + 1 /\ waiting' = <<"RESEND">> /\ scanning' = scanning
    BY <1>9, SendIs
  <2>2. count' = 4 - refused'["reset"]
    BY <1>2, <1>3, <1>4, <2>1
  <2>3. ResetAgain'
    BY <1>2, <1>7, <2>1, <2>2 DEF ResetAgain
  <2>4. AtReset'
    BY <1>6, <2>3 DEF AtReset
  <2> QED BY <1>6, <2>4 DEF Locked
<1> QED BY <1>8, <1>9

LEMMA EnableSent ==
    ASSUME TypeOK, Counted, LockStep, Sure, device' = device, outb,
           command = "enable_scanning"
    PROVE  Locked'
<1>1. command' = "enable_scanning" /\ pc' = "ready"
  BY DEF outb, Goto
<1>2. device.passes
  BY DEF LockStep, Locked
<1> QED BY <1>1, <1>2 DEF Locked

\* An answer to the command that disables scanning is read.
LEMMA DisableRead ==
    ASSUME TypeOK, Counted, Begun, LockStep, Sure, Sure', device' = device,
           ps2_wait_for_ack \/ LastTry, command = "disable_scanning"
    PROVE  Locked'
<1>1. inb /\ SeesKey /\ pc \in {"ack", "last"} /\ answer' = answer
      /\ UNCHANGED <<scanning, refused>>
  BY DEF ps2_wait_for_ack, LastTry, inb
<1>2. enabled /\ answer = << >> /\ device.prompt
  BY <1>1 DEF Begun, First, Sure
<1>3. AtDisable
  BY <1>1 DEF LockStep, Locked, First
<1>4. KeyAgain \/ (pc = "ack" /\ KeyThenAck) \/ OnlyAck \/ (pc = "ack" /\ Resend)
  BY <1>1, <1>3 DEF AtDisable
<1>5. Queue # << >>
  BY <1>4, ShortSeqs DEF KeyAgain, KeyThenAck, OnlyAck, Resend, Begins
<1>6. data = Head(Queue) /\ Queue' = Tail(Queue)
  BY <1>1, <1>2, <1>5, QueueRead
<1>7. CASE KeyAgain
  <2>1. keys' /\ refused'["disable_scanning"] > 0
    BY <1>1, <1>6, <1>7 DEF KeyAgain, Begins, SeesKey
  <2>2. refused["disable_scanning"] \in Nat
    BY DEF Counted, Commands
  <2> QED BY <1>1, <2>1, <2>2 DEF Sure, Bearable
<1>8. CASE pc = "ack" /\ KeyThenAck
  <2>1. data = "key" /\ Queue' = <<"ACK">> /\ ~scanning'
    BY <1>1, <1>6, <1>8 DEF KeyThenAck, Begins
  <2>2. pc' = "last" /\ command' = command
    BY <1>8, <2>1 DEF ps2_wait_for_ack, LastTry, Goto
  <2>3. OnlyAck'
    BY <2>1 DEF OnlyAck
  <2>4. AtDisable'
    BY <2>2, <2>3 DEF AtDisable
  <2> QED BY <2>2, <2>4 DEF Locked
<1>9. CASE OnlyAck
  <2>1. data = "ACK" /\ Queue' = << >>
    BY <1>6, <1>9, ShortSeqs DEF OnlyAck
  <2>2. pc' = "send" /\ command' = "identify" /\ count' = 3
    BY <2>1 DEF ps2_wait_for_ack, LastTry, Acknowledged, Start
  <2>3. refused'["identify"] = 0
    BY <1>1 DEF Begun
  <2>4. AtIdentify'
    BY <2>1, <2>2, <2>3 DEF AtIdentify
  <2> QED BY <2>2, <2>4 DEF Locked
<1>10. CASE pc = "ack" /\ Resend
  <2>1. data = "RESEND" /\ AllKeys(Queue') /\ count = 4 - refused["disable_scanning"]
    BY <1>6, <1>10 DEF Resend, Begins
  <2>2. pc' = "send" /\ command' = command /\ count' = count - 1
    BY <1>10, <2>1 DEF ps2_wait_for_ack, LastTry, SendAgain, Goto
  <2>3. ~keys'
    BY <1>1, <1>3, <1>10, <2>1 DEF SeesKey, AtDisable
  <2>4. count' = 3 - refused'["disable_scanning"]
    <3>1. refused["disable_scanning"] \in Nat
      BY DEF Counted, Commands
    <3> QED BY <1>1, <2>1, <2>2, <3>1
  <2>5. AtDisable'
    BY <2>1, <2>2, <2>3, <2>4 DEF AtDisable
  <2> QED BY <2>2, <2>5 DEF Locked
<1> QED BY <1>4, <1>7, <1>8, <1>9, <1>10

\* An answer to the command that asks for the identity is read.
LEMMA IdentifyRead ==
    ASSUME TypeOK, Counted, Begun, LockStep, Sure, device' = device,
           ps2_wait_for_ack \/ LastTry, command = "identify"
    PROVE  Locked'
<1>1. inb /\ pc \in {"ack", "last"} /\ refused' = refused
  BY DEF ps2_wait_for_ack, LastTry, inb
<1>2. enabled /\ answer = << >> /\ device.prompt
  BY <1>1 DEF Begun, First, Sure
<1>3. Identified \/ (pc = "ack" /\ IdentifyAgain)
  BY <1>1 DEF LockStep, Locked, AtIdentify
<1>4. Queue # << >>
  BY <1>3, ShortSeqs DEF Identified, IdentifyAgain, Begins
<1>5. data = Head(Queue) /\ Queue' = Tail(Queue)
  BY <1>1, <1>2, <1>4, QueueRead
<1>6. CASE Identified
  <2>1. data = "ACK" /\ Queue' = <<"0xab", "type">>
    BY <1>5, <1>6 DEF Identified, Begins
  <2>2. pc' = "b1" /\ command' = command
    BY <2>1 DEF ps2_wait_for_ack, LastTry, Acknowledged, Goto
  <2>3. AtIdentify'
    BY <2>1, <2>2 DEF AtIdentify
  <2> QED BY <2>2, <2>3 DEF Locked
<1>7. CASE pc = "ack" /\ IdentifyAgain
  <2>1. data = "RESEND" /\ Queue' = << >> /\ count = 4 - refused["identify"]
    BY <1>5, <1>7, ShortSeqs DEF IdentifyAgain
  <2>2. pc' = "send" /\ command' = command /\ count' = count - 1
    BY <1>7, <2>1 DEF ps2_wait_for_ack, LastTry, SendAgain, Goto
  <2>3. count' = 3 - refused'["identify"]
    <3>1. refused["identify"] \in Nat
      BY DEF Counted, Commands
    <3> QED BY <1>1, <2>1, <2>2, <3>1
  <2>4. AtIdentify'
    BY <2>1, <2>2, <2>3 DEF AtIdentify
  <2> QED BY <2>2, <2>4 DEF Locked
<1> QED BY <1>3, <1>6, <1>7

\* The identity is read.
LEMMA IdentityRead ==
    ASSUME TypeOK, Silence, Counted, Begun, LockStep, Sure, device' = device,
           FirstByte \/ SecondByte
    PROVE  Locked'
<1>1. inb /\ UNCHANGED <<scanning, refused>> /\ pc \in {"b1", "b2"}
  BY DEF FirstByte, SecondByte, inb
<1>2. command = "identify"
  BY <1>1 DEF Counted, First
<1>3. enabled /\ answer = << >> /\ device.prompt
  BY <1>1 DEF Begun, First, Sure
<1>4. AtIdentify
  BY <1>2 DEF LockStep, Locked
<1>5. CASE FirstByte
  <2>1. Queue = <<"0xab", "type">>
    BY <1>4, <1>5 DEF AtIdentify, FirstByte
  <2>2. data = "0xab" /\ Queue' = <<"type">>
    BY <1>1, <1>3, <2>1, QueueRead, ShortSeqs
  <2>3. b1' = "0xab" /\ pc' = "b2" /\ command' = command
    BY <1>5, <2>2 DEF FirstByte, Goto
  <2>4. AtIdentify'
    BY <2>2, <2>3 DEF AtIdentify
  <2> QED BY <1>2, <2>3, <2>4 DEF Locked
<1>6. CASE SecondByte
  <2>1. Queue = <<"type">> /\ b1 = "0xab"
    BY <1>4, <1>6 DEF AtIdentify, SecondByte
  <2>2. data = "type" /\ Queue' = << >>
    BY <1>1, <1>3, <2>1, QueueRead, ShortSeqs
  <2>3. pc' = "send" /\ command' = "reset" /\ count' = 3
    BY <1>6, <2>1, <2>2 DEF SecondByte, Start
  <2>4. refused'["reset"] = 0 /\ ~scanning'
    BY <1>1, <1>2 DEF Begun, Silence
  <2>5. AtReset'
    BY <2>2, <2>3, <2>4 DEF AtReset
  <2> QED BY <2>3, <2>5 DEF Locked
<1> QED BY <1>5, <1>6

\* The self-test has answered.
LEMMA TestRead ==
    ASSUME TypeOK, Counted, Begun, LockStep, Sure, device' = device, ps2_keyboard_reset
    PROVE  Locked'
<1>1. inb /\ UNCHANGED <<scanning, refused>> /\ pc = "reset" /\ count' = count - 1
  BY DEF ps2_keyboard_reset, inb
<1>2. command = "reset"
  BY <1>1 DEF Counted, First
<1>3. enabled /\ answer = << >> /\ device.prompt
  BY <1>1 DEF Begun, First, Sure
<1>4. AckThenTest \/ TestFirst \/ ResetAgain
  BY <1>1, <1>2 DEF LockStep, Locked, AtReset
<1>5. Queue # << >>
  BY <1>4, ShortSeqs DEF AckThenTest, TestFirst, ResetAgain, Begins
<1>6. data = Head(Queue) /\ Queue' = Tail(Queue)
  BY <1>1, <1>3, <1>5, QueueRead
<1>7. refused["reset"] \in Nat /\ refused["reset"] <= 1
  BY DEF Counted, Commands, Sure, Bearable
<1>8. CASE AckThenTest
  <2>1. data = "ACK" /\ Begins(Queue', TestSays) /\ count = 3 - refused["reset"]
    BY <1>6, <1>8 DEF AckThenTest, Begins
  <2>2. count # 1
    BY <1>7, <2>1
  <2>3. UNCHANGED <<pc, command>>
    BY <2>1, <2>2 DEF ps2_keyboard_reset
  <2>4. count' = 2 - refused'["reset"]
    BY <1>1, <1>7, <2>1
  <2>5. TestSays' = TestSays
    BY DEF TestSays
  <2>6. TestFirst'
    BY <2>1, <2>4, <2>5 DEF TestFirst
  <2>7. AtReset'
    BY <1>1, <2>3, <2>6 DEF AtReset
  <2> QED BY <1>1, <1>2, <2>3, <2>7 DEF Locked
<1>9. CASE TestFirst
  <2>1. data = TestSays
    BY <1>6, <1>9 DEF TestFirst, Begins
  <2>2. CASE device.passes
    <3>1. pc' = "send" /\ command' = "enable_scanning"
      BY <2>1, <2>2 DEF TestSays, ps2_keyboard_reset, EndReset, Goto
    <3> QED BY <2>2, <3>1 DEF Locked
  <2>3. CASE ~device.passes
    <3>1. pc' = "failed" /\ command' = command
      BY <2>1, <2>3 DEF TestSays, ps2_keyboard_reset, Goto
    <3> QED BY <1>2, <2>3, <3>1 DEF Locked, AtReset
  <2> QED BY <2>2, <2>3
<1>10. CASE ResetAgain
  <2>1. data = "RESEND" /\ Queue' = << >> /\ ~scanning' /\ count = 4 - refused["reset"]
    BY <1>1, <1>6, <1>10, ShortSeqs DEF ResetAgain
  <2>2. pc' = "send" /\ command' = command
    BY <2>1 DEF ps2_keyboard_reset, Goto
  <2>3. count' = 3 - refused'["reset"]
    BY <1>1, <1>7, <2>1
  <2>4. AtReset'
    BY <2>1, <2>2, <2>3 DEF AtReset
  <2> QED BY <1>2, <2>2, <2>4 DEF Locked
<1> QED BY <1>4, <1>8, <1>9, <1>10

\* A key behind changes neither the first byte nor what is behind it.
LEMMA KeyBehind ==
    ASSUME NEW s \in Seq(Bytes)
    PROVE  /\ AllKeys(s) => AllKeys(Append(s, "key"))
           /\ \A x : Begins(s, x) =>
                  /\ Begins(Append(s, "key"), x) /\ Tail(s) \in Seq(Bytes)
                  /\ Tail(Append(s, "key")) = Append(Tail(s), "key")
<1>1. "key" \in Bytes
  BY DEF Bytes
<1>2. AllKeys(s) => AllKeys(Append(s, "key"))
  <2>1. DOMAIN Append(s, "key") = 1 .. Len(s) + 1 /\ DOMAIN s = 1 .. Len(s) /\ Len(s) \in Nat
    BY <1>1
  <2>2. \A j \in DOMAIN Append(s, "key") :
            Append(s, "key")[j] = IF j \in DOMAIN s THEN s[j] ELSE "key"
    BY <1>1, <2>1
  <2> QED BY <2>2 DEF AllKeys
<1>3. ASSUME NEW x, Begins(s, x)
      PROVE  /\ Begins(Append(s, "key"), x) /\ Tail(s) \in Seq(Bytes)
             /\ Tail(Append(s, "key")) = Append(Tail(s), "key")
  <2>1. s # << >> /\ Head(s) = x
    BY <1>3 DEF Begins
  <2>2. Append(s, "key") # << >> /\ Head(Append(s, "key")) = x
    BY <1>1, <2>1
  <2>3. Tail(s) \in Seq(Bytes) /\ Tail(Append(s, "key")) = Append(Tail(s), "key")
    BY <1>1, <2>1
  <2> QED BY <2>2, <2>3 DEF Begins
<1> QED BY <1>2, <1>3

LEMMA ArriveLocked ==
    ASSUME TypeOK, Counted, Begun, LockStep, Sure, device' = device, Arrive
    PROVE  Locked'
<1>1. UNCHANGED <<scanning, refused, keys, pc, command, count, b1>>
  BY DEF Arrive
<1>2. Locked
  BY DEF LockStep
<1>3. CASE pc \in First \cup {"failed"}
  <2>1. command = "disable_scanning" \/ pc = "failed"
    BY <1>3 DEF Counted, First
  <2> QED BY <1>1, <1>2, <1>3, <2>1 DEF Locked, AtDisable, AtIdentify, AtReset, First
<1>4. CASE pc \notin First \cup {"failed"}
  <2>1. enabled /\ answer = << >>
    BY <1>4 DEF Begun, Sure, First
  <2>2. Queue' = Queue
    BY <2>1, QueueArrive
  <2>3. AtDisable => AtDisable'
    BY <1>1, <2>2 DEF AtDisable, KeyAgain, KeyThenAck, OnlyAck, Resend
  <2>4. AtIdentify => AtIdentify'
    BY <1>1, <2>2 DEF AtIdentify, Identified, IdentifyAgain
  <2>5. AtReset => AtReset'
    <3>1. TestSays' = TestSays
      BY DEF TestSays
    <3> QED BY <1>1, <2>2, <3>1 DEF AtReset, AckThenTest, TestFirst, ResetAgain
  <2> QED BY <1>1, <1>2, <2>3, <2>4, <2>5 DEF Locked
<1> QED BY <1>3, <1>4

LEMMA TypeLocked ==
    ASSUME TypeOK, Silence, Counted, LockStep, Sure, device' = device, Type
    PROVE  Locked'
<1>1. UNCHANGED <<scanning, refused, keys, pc, command, count, b1>> /\ scanning
  BY DEF Type
<1>2. Locked
  BY DEF LockStep
<1>3. Queue \in Seq(Bytes) /\ Queue' = Append(Queue, "key")
  BY QueueBytes, QueueKey
<1>4. AllKeys(Queue) => AllKeys(Queue')
  BY <1>3, KeyBehind
<1>5. ASSUME NEW x, Begins(Queue, x)
      PROVE  /\ Begins(Queue', x) /\ Tail(Queue) \in Seq(Bytes)
             /\ Tail(Queue') = Append(Tail(Queue), "key")
  BY <1>3, <1>5, KeyBehind
<1>6. command # "identify"
  BY <1>1 DEF Silence
<1>7. AtDisable => AtDisable'
  <2>1. KeyAgain => KeyAgain'
    BY <1>1, <1>5 DEF KeyAgain
  <2>2. Resend => Resend'
    <3> SUFFICES ASSUME Resend PROVE Resend'
      OBVIOUS
    <3>1. Begins(Queue, "RESEND") /\ AllKeys(Tail(Queue)) /\ count = 4 - refused["disable_scanning"]
      BY DEF Resend
    <3>2. /\ Begins(Queue', "RESEND") /\ Tail(Queue) \in Seq(Bytes)
          /\ Tail(Queue') = Append(Tail(Queue), "key")
      BY <1>5, <3>1
    <3>3. AllKeys(Tail(Queue'))
      BY <3>1, <3>2, KeyBehind
    <3> QED BY <1>1, <3>1, <3>2, <3>3 DEF Resend
  <2> QED BY <1>1, <1>4, <2>1, <2>2 DEF AtDisable, KeyThenAck, OnlyAck
<1>8. AtReset => AtReset'
  <2>1. TestSays' = TestSays
    BY DEF TestSays
  <2>2. TestFirst => TestFirst'
    BY <1>1, <1>5, <2>1 DEF TestFirst
  <2>3. AckThenTest => AckThenTest'
    <3> SUFFICES ASSUME AckThenTest PROVE AckThenTest'
      OBVIOUS
    <3>1. Begins(Queue, "ACK") /\ Begins(Tail(Queue), TestSays) /\ count = 3 - refused["reset"]
      BY DEF AckThenTest
    <3>2. /\ Begins(Queue', "ACK") /\ Tail(Queue) \in Seq(Bytes)
          /\ Tail(Queue') = Append(Tail(Queue), "key")
      BY <1>5, <3>1
    <3>3. Begins(Tail(Queue'), TestSays)
      BY <3>1, <3>2, KeyBehind
    <3> QED BY <1>1, <2>1, <3>1, <3>2, <3>3 DEF AckThenTest
  <2> QED BY <1>1, <2>2, <2>3 DEF AtReset, ResetAgain
<1> QED BY <1>1, <1>2, <1>6, <1>7, <1>8 DEF Locked

LEMMA StayLocked ==
    ASSUME LockStep, Sure, UNCHANGED vars
    PROVE  Locked'
<1>1. UNCHANGED <<device, scanning, waiting, full, data, refused, keys, pc, command, count, b1>>
  BY DEF vars, hardware
<1>2. Queue' = Queue /\ TestSays' = TestSays
  BY <1>1 DEF Queue, TestSays
<1>3. Locked
  BY DEF LockStep
<1>4. AtDisable => AtDisable'
  BY <1>1, <1>2 DEF AtDisable, KeyAgain, KeyThenAck, OnlyAck, Resend
<1>5. AtIdentify => AtIdentify'
  BY <1>1, <1>2 DEF AtIdentify, Identified, IdentifyAgain
<1>6. AtReset => AtReset'
  BY <1>1, <1>2 DEF AtReset, AckThenTest, TestFirst, ResetAgain
<1> QED BY <1>1, <1>3, <1>4, <1>5, <1>6 DEF Locked

LEMMA LockStepStep ==
    TypeOK /\ Silence /\ Counted /\ Begun /\ LockStep /\ [Next]_vars => LockStep'
<1> SUFFICES ASSUME TypeOK, Silence, Counted, Begun, LockStep, [Next]_vars, Sure'
             PROVE  Locked'
  BY DEF LockStep
<1>1. Sure /\ device' = device
  BY SureBefore
<1>2. CASE outb
  <2>1. command \in Commands
    BY DEF TypeOK
  <2> QED BY <1>1, <1>2, <2>1, DisableSent, IdentifySent, ResetSent, EnableSent DEF Commands
<1>3. CASE ps2_wait_for_ack \/ LastTry
  <2>1. command \in {"disable_scanning", "identify"}
    BY <1>3 DEF ps2_wait_for_ack, LastTry, Counted
  <2> QED BY <1>1, <1>3, <2>1, DisableRead, IdentifyRead
<1>4. CASE DisablePorts \/ Flush \/ Flushed \/ ControllerTested \/ PortTested
  BY <1>1, <1>4, TestsLocked
<1>5. CASE EnablePort \/ Arrive \/ Type \/ UNCHANGED vars
  BY <1>1, <1>5, EnableLocked, ArriveLocked, TypeLocked, StayLocked
<1>6. CASE FirstByte \/ SecondByte \/ ps2_keyboard_reset
  BY <1>1, <1>6, IdentityRead, TestRead
<1>7. Driver \/ Arrive \/ Type \/ UNCHANGED vars
  BY DEF Next
<1> QED BY <1>2, <1>3, <1>4, <1>5, <1>6, <1>7 DEF Driver

LEMMA StepJInv == IInv /\ JInv /\ [Next]_vars => JInv'
BY CountedStep, KeyboardStep, BegunStep, LockStepStep DEF IInv, JInv

\* A device that is no keyboard is not ready, and a place of the driver says
\* which tests have been passed.
LEMMA DecidedByLockStep == JInv => AnswersDecide
<1> SUFFICES ASSUME JInv PROVE AnswersDecide
  OBVIOUS
<1>1. Counted /\ OnlyKeyboards /\ Begun /\ LockStep
  BY DEF JInv
<1>2. ASSUME pc = "ready"
      PROVE  device.kind = "keyboard"
  BY <1>1, <1>2 DEF Counted, OnlyKeyboards, First
<1>3. ASSUME pc = "ready", device.prompt, Bearable
      PROVE  device.passes /\ device.controller /\ device.port
  <2>1. command = "enable_scanning"
    BY <1>1, <1>3 DEF Counted, First
  <2>2. Sure
    BY <1>2, <1>3 DEF Sure
  <2> QED BY <1>1, <1>3, <2>1, <2>2 DEF LockStep, Locked, Begun
<1>4. ASSUME pc = "failed", device.prompt, Bearable, device.kind = "keyboard"
      PROVE  ~(device.passes /\ device.controller /\ device.port)
  BY <1>1, <1>4 DEF LockStep, Locked, Sure
<1> QED BY <1>2, <1>3, <1>4 DEF AnswersDecide

\* Whatever a device answers, and when, only a keyboard of a listed type
\* becomes ready, and a prompt keyboard whose refusals can be borne exactly if
\* it has passed its tests: ps2_init with ps2_wait_for_ack and
\* ps2_keyboard_reset decides by the answers, and by nothing that is typed.
THEOREM OutcomeDecided == Spec => []AnswersDecide
<1>1. Init => JInv
  BY InitJInv
<1>2. IInv /\ JInv /\ [Next]_vars => JInv'
  BY StepJInv
<1>3. JInv => AnswersDecide
  BY DecidedByLockStep
<1> QED BY Invariant, <1>1, <1>2, <1>3, PTL DEF Spec
=============================================================================
