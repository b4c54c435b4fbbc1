-------------------------- MODULE InterruptsProofs --------------------------
(***************************************************************************)
(* Nested interrupts, for any lines and any number of requests.            *)
(*                                                                         *)
(* What a frame has still to do is told by its interrupt and by how many   *)
(* operations are left (StepAt), so the invariant is about these.  The end *)
(* of interrupt names no line; that it retires the right one follows from  *)
(* Nested: handlers that still owe one lie on the stack in the order of    *)
(* urgency.  That the program finds its context follows from Context,      *)
(* which asks it only of the running handler, and only near its end: what  *)
(* a nested handler did to an outer one's is undone by its own last steps. *)
(***************************************************************************)
EXTENDS Interrupts, FiniteSetTheorems, SequenceTheorems, TLAPS

\* The operation a wrapper begins when n are left, and its length.
KeyboardInt == Vector(1)
OnSlave(int) == int \in 40 .. 47

Size(int) ==
    IF int = Syscall THEN 7
    ELSE IF int = KeyboardInt THEN 12
    ELSE IF OnSlave(int) THEN 7 ELSE 6

StepAt(int, n) ==
    IF n = 1 THEN "iret"
    ELSE IF n = 2 THEN "task_chunk"
    ELSE IF n = 3 THEN "user_segments"
    ELSE IF int = Syscall THEN
        IF n = 4 THEN "command" ELSE IF n = 5 THEN "store_frame"
        ELSE IF n = 6 THEN "kernel_chunk" ELSE "kernel_segments"
    ELSE IF n = 4 THEN "EOI_master"
    ELSE IF int = KeyboardInt THEN
        IF n = 5 THEN "task_chunk" ELSE IF n = 6 THEN "user_segments"
        ELSE IF n = 7 THEN "keyboard_push" ELSE IF n \in {8, 11} THEN "kernel_chunk"
        ELSE IF n \in {9, 12} THEN "kernel_segments" ELSE "store_frame"
    ELSE IF OnSlave(int) THEN
        IF n = 5 THEN "EOI_slave" ELSE IF n = 6 THEN "kernel_chunk" ELSE "kernel_segments"
    ELSE IF n = 5 THEN "kernel_chunk" ELSE "kernel_segments"

Operations == {"kernel_segments", "kernel_chunk", "store_frame", "keyboard_push",
               "command", "user_segments", "task_chunk", "EOI_master", "EOI_slave", "iret"}

Frame == [int : Interrupts, todo : Seq(Operations), flag : BOOLEAN]

Left(f) == Len(f.todo)

InHandler(f) ==
    /\ Left(f) \in 1 .. Size(f.int)
    /\ \A j \in 1 .. Left(f) : f.todo[j] = StepAt(f.int, Left(f) - j + 1)

\* A frame that has still to tell a chip, and the line it tells.
OwesMaster(f) == f.int # Syscall /\ Left(f) >= 4
OwesSlave(f) == OnSlave(f.int) /\ Left(f) >= 5
LineOf(f) == OnMaster(f.int - 32)

FramesOK ==
    /\ frames \in Seq(Frame)
    /\ \A k \in DOMAIN frames : InHandler(frames[k]) /\ frames[k].flag

Nested ==
    \A j, k \in DOMAIN frames :
        j < k /\ OwesMaster(frames[j]) /\ OwesMaster(frames[k]) =>
            LineOf(frames[k]) < LineOf(frames[j])

InService ==
    /\ master = {LineOf(frames[k]) : k \in {j \in DOMAIN frames : OwesMaster(frames[j])}}
    /\ slave = {frames[k].int - 32 : k \in {j \in DOMAIN frames : OwesSlave(frames[j])}}

CallsAlone ==
    /\ \A k \in DOMAIN frames : frames[k].int = Syscall => Len(frames) = 1
    /\ enabled <=> \A k \in DOMAIN frames : frames[k].int # Syscall

Context ==
    /\ frames = << >> => segments = "user" /\ chunk = "task"
    /\ frames # << >> =>
          /\ Left(Top) <= 2 => segments = "user"
          /\ Left(Top) = 1 => chunk = "task"

CallContext ==
    frames # << >> /\ Top.int = Syscall =>
        /\ Left(Top) \in 3 .. 6 => segments = "kernel"
        /\ Left(Top) \in 2 .. 5 => chunk = "kernel"
        /\ Left(Top) <= 4 => registers = "user"

Values ==
    /\ enabled \in BOOLEAN
    /\ segments \in {"kernel", "user"} /\ chunk \in {"kernel", "task"}
    /\ registers \in {"kernel", "user"}
    /\ requested \subseteq Lines
    /\ left \in [Lines -> Nat]

IInv == FramesOK /\ Values /\ Nested /\ InService /\ CallsAlone /\ Context /\ CallContext

-----------------------------------------------------------------------------
(* The wrappers.                                                           *)

LEMMA InterruptNumbers ==
    /\ \A n \in Lines : n \in 0 .. 15 /\ n # 2 /\ Vector(n) = 32 + n /\ Vector(n) \in 32 .. 47
    /\ \A int \in Interrupts : int = Syscall \/ (int \in 32 .. 47 /\ int - 32 \in Lines)
    /\ Syscall = 128 /\ KeyboardInt = 33
BY InterruptConstants DEF Vector, Interrupts, Syscall, KeyboardInt

\* Part of a wrapper: begun when n operations are left, over when k are.
Part(s, int, n, k) ==
    /\ n \in Nat /\ k \in Nat
    /\ s \in Seq(Operations) /\ Len(s) = n - k
    /\ \A j \in 1 .. Len(s) : s[j] = StepAt(int, n - j + 1)

LEMMA PartsJoin ==
    ASSUME NEW int, NEW n, NEW m, NEW k, NEW s, NEW t,
           Part(s, int, n, m), Part(t, int, m, k)
    PROVE  Part(s \o t, int, n, k)
<1>0. /\ n \in Nat /\ m \in Nat /\ k \in Nat
      /\ Len(s) = n - m /\ Len(t) = m - k
  BY DEF Part
<1>1. /\ s \in Seq(Operations) /\ t \in Seq(Operations)
      /\ Len(s) \in Nat /\ Len(t) \in Nat
  BY DEF Part
<1>2. /\ s \o t \in Seq(Operations) /\ Len(s \o t) = Len(s) + Len(t)
      /\ \A j \in 1 .. Len(s) + Len(t) :
            (s \o t)[j] = IF j <= Len(s) THEN s[j] ELSE t[j - Len(s)]
  BY <1>1
<1>3. ASSUME NEW j \in 1 .. Len(s) + Len(t)
      PROVE  (s \o t)[j] = StepAt(int, n - j + 1)
  <2>1. CASE j <= Len(s)
    BY <1>0, <1>1, <1>2, <2>1 DEF Part
  <2>2. CASE j > Len(s)
    <3>1. j - Len(s) \in 1 .. Len(t) /\ m - (j - Len(s)) + 1 = n - j + 1
      BY <1>0, <1>1, <2>2
    <3>2. (s \o t)[j] = t[j - Len(s)]
      BY <1>1, <1>2, <2>2
    <3> QED BY <3>1, <3>2 DEF Part
  <2> QED BY <1>1, <2>1, <2>2
<1>4. n - k = Len(s) + Len(t)
  BY <1>0
<1> QED BY <1>0, <1>1, <1>2, <1>3, <1>4 DEF Part

\* Pieces of one and of two operations.
LEMMA OnePart ==
    ASSUME NEW int, NEW n \in Nat, NEW k \in Nat, n - k = 1,
           NEW a \in Operations, StepAt(int, n) = a
    PROVE  Part(<<a>>, int, n, k)
<1>1. <<a>> \in Seq(Operations) /\ Len(<<a>>) = 1 /\ 1 .. 1 = {1} /\ n - 1 + 1 = n
  OBVIOUS
<1> QED BY <1>1 DEF Part

LEMMA TwoParts ==
    ASSUME NEW int, NEW n \in Nat, NEW k \in Nat, n - k = 2,
           NEW a \in Operations, NEW b \in Operations,
           StepAt(int, n) = a, StepAt(int, n - 1) = b
    PROVE  Part(<<a, b>>, int, n, k)
<1>1. /\ <<a, b>> \in Seq(Operations) /\ Len(<<a, b>>) = 2 /\ 1 .. 2 = {1, 2}
      /\ n - 1 + 1 = n /\ n - 2 + 1 = n - 1
  OBVIOUS
<1> QED BY <1>1 DEF Part

LEMMA Named ==
    /\ "kernel_segments" \in Operations /\ "kernel_chunk" \in Operations
    /\ "user_segments" \in Operations /\ "task_chunk" \in Operations
    /\ "store_frame" \in Operations /\ "command" \in Operations
    /\ "keyboard_push" \in Operations /\ "iret" \in Operations
    /\ "EOI_master" \in Operations /\ "EOI_slave" \in Operations
BY DEF Operations

\* Every literal index here is what is left when the piece begins or is over.
LEMMA Pieces ==
    ASSUME NEW int
    PROVE  /\ Part(task_page, int, 3, 1) /\ Part(<<"iret">>, int, 1, 0)
           /\ int = Syscall => /\ Part(kernel_page, int, 7, 5)
                               /\ Part(<<"store_frame", "command">>, int, 5, 3)
           /\ int # Syscall => Part(<<"EOI_master">>, int, 4, 3)
           /\ int # Syscall /\ int = KeyboardInt =>
                 /\ Part(kernel_page, int, 12, 10) /\ Part(<<"store_frame">>, int, 10, 9)
                 /\ Part(kernel_page, int, 9, 7) /\ Part(<<"keyboard_push">>, int, 7, 6)
                 /\ Part(task_page, int, 6, 4)
           /\ int # Syscall /\ int # KeyboardInt /\ OnSlave(int) =>
                 Part(kernel_page, int, 7, 5) /\ Part(<<"EOI_slave">>, int, 5, 4)
           /\ int # Syscall /\ int # KeyboardInt /\ ~OnSlave(int) =>
                 Part(kernel_page, int, 6, 4)
<1>1. ASSUME NEW n \in 2 .. 12, NEW k \in Nat, n - k = 2,
             StepAt(int, n) = "kernel_segments", StepAt(int, n - 1) = "kernel_chunk"
      PROVE  Part(kernel_page, int, n, k)
  BY <1>1, TwoParts, Named DEF kernel_page
<1>2. ASSUME NEW n \in 2 .. 12, NEW k \in Nat, n - k = 2,
             StepAt(int, n) = "user_segments", StepAt(int, n - 1) = "task_chunk"
      PROVE  Part(task_page, int, n, k)
  BY <1>2, TwoParts, Named DEF task_page
<1>3. Part(task_page, int, 3, 1)
  BY <1>2 DEF StepAt
<1>4. Part(<<"iret">>, int, 1, 0)
  BY OnePart, Named DEF StepAt
<1>5. CASE int = Syscall
  <2>1. Part(kernel_page, int, 7, 5)
    BY <1>1, <1>5 DEF StepAt
  <2>2. Part(<<"store_frame", "command">>, int, 5, 3)
    BY <1>5, TwoParts, Named DEF StepAt
  <2> QED BY <1>3, <1>4, <1>5, <2>1, <2>2
<1>6. CASE int # Syscall
  <2>1. Part(<<"EOI_master">>, int, 4, 3)
    BY <1>6, OnePart, Named DEF StepAt
  <2>2. CASE int = KeyboardInt
    <3>1. Part(kernel_page, int, 12, 10) /\ Part(kernel_page, int, 9, 7)
      BY <1>1, <1>6, <2>2 DEF StepAt
    <3>2. Part(<<"store_frame">>, int, 10, 9)
      BY <1>6, <2>2, OnePart, Named DEF StepAt
    <3>3. Part(<<"keyboard_push">>, int, 7, 6)
      BY <1>6, <2>2, OnePart, Named DEF StepAt
    <3>4. Part(task_page, int, 6, 4)
      BY <1>2, <1>6, <2>2 DEF StepAt
    <3> QED BY <1>3, <1>4, <1>6, <2>1, <2>2, <3>1, <3>2, <3>3, <3>4
  <2>3. CASE int # KeyboardInt /\ OnSlave(int)
    <3>1. Part(kernel_page, int, 7, 5)
      BY <1>1, <1>6, <2>3 DEF StepAt
    <3>2. Part(<<"EOI_slave">>, int, 5, 4)
      BY <1>6, <2>3, OnePart, Named DEF StepAt
    <3> QED BY <1>3, <1>4, <1>6, <2>1, <2>3, <3>1, <3>2
  <2>4. CASE int # KeyboardInt /\ ~OnSlave(int)
    <3>1. Part(kernel_page, int, 6, 4)
      BY <1>1, <1>6, <2>4 DEF StepAt
    <3> QED BY <1>3, <1>4, <1>6, <2>1, <2>4, <3>1
  <2> QED BY <2>2, <2>3, <2>4
<1> QED BY <1>5, <1>6

LEMMA WrapperSteps ==
    ASSUME NEW int \in Interrupts
    PROVE  Part(Wrapper(int), int, Size(int), 0)
<1>1. CASE int = Syscall
  <2>1. Part(kernel_page \o <<"store_frame", "command">>, int, 7, 3)
    BY <1>1, Pieces, PartsJoin
  <2>2. Part(isr80h_handler, int, 7, 1)
    BY <2>1, Pieces, PartsJoin DEF isr80h_handler
  <2>3. Part(isr80h_handler \o <<"iret">>, int, 7, 0)
    BY <2>2, Pieces, PartsJoin
  <2> QED BY <1>1, <2>3 DEF Wrapper, Size
<1>2. CASE int # Syscall
  <2> DEFINE callback == IF interrupt_callbacks(int) = "keyboard"
                         THEN <<"store_frame">> \o ps2_keyboard_interrupt_handler ELSE << >>
             acknowledge == IF OnSlave(int) THEN 5 ELSE 4
  <2>1. int \in 32 .. 47 /\ KeyboardInt = 33
    BY <1>2, InterruptNumbers
  <2>2. Part(kernel_page \o callback, int, Size(int), acknowledge)
    <3>1. CASE int = KeyboardInt
      <4>1. /\ Size(int) = 12 /\ acknowledge = 4
            /\ callback = <<"store_frame">> \o ps2_keyboard_interrupt_handler
        BY <1>2, <2>1, <3>1 DEF Size, interrupt_callbacks, KeyboardInt, OnSlave
      <4>2. Part(kernel_page \o <<"keyboard_push">>, int, 9, 6)
        BY <1>2, <3>1, Pieces, PartsJoin
      <4>3. Part(ps2_keyboard_interrupt_handler, int, 9, 4)
        BY <1>2, <3>1, <4>2, Pieces, PartsJoin DEF ps2_keyboard_interrupt_handler
      <4>4. Part(<<"store_frame">> \o ps2_keyboard_interrupt_handler, int, 10, 4)
        BY <1>2, <3>1, <4>3, Pieces, PartsJoin
      <4>5. Part(kernel_page \o (<<"store_frame">> \o ps2_keyboard_interrupt_handler), int, 12, 4)
        BY <1>2, <3>1, <4>4, Pieces, PartsJoin
      <4> QED BY <4>1, <4>5
    <3>2. CASE int # KeyboardInt
      <4>1. /\ callback = << >> /\ Size(int) = acknowledge + 2
            /\ acknowledge \in {4, 5} /\ Part(kernel_page, int, Size(int), acknowledge)
        <5>1. callback = << >>
          BY <3>2 DEF interrupt_callbacks, KeyboardInt
        <5>2. CASE OnSlave(int)
          BY <1>2, <3>2, <5>1, <5>2, Pieces DEF Size
        <5>3. CASE ~OnSlave(int)
          BY <1>2, <3>2, <5>1, <5>3, Pieces DEF Size
        <5> QED BY <5>2, <5>3
      <4>2. Part(<< >>, int, acknowledge, acknowledge)
        BY <4>1 DEF Part
      <4> QED BY <4>1, <4>2, PartsJoin
    <3> QED BY <3>1, <3>2
  <2>3. Part(acknowledge_int(int), int, acknowledge, 3)
    <3>1. CASE OnSlave(int)
      <4>1. acknowledge_int(int) = <<"EOI_slave">> \o <<"EOI_master">> /\ acknowledge = 5
        BY <2>1, <3>1 DEF acknowledge_int, OnSlave
      <4>2. int # KeyboardInt
        BY <2>1, <3>1 DEF OnSlave
      <4>3. Part(<<"EOI_slave">> \o <<"EOI_master">>, int, 5, 3)
        BY <1>2, <3>1, <4>2, Pieces, PartsJoin
      <4> QED BY <4>1, <4>3
    <3>2. CASE ~OnSlave(int)
      <4>1. acknowledge_int(int) = << >> \o <<"EOI_master">> /\ acknowledge = 4
        BY <2>1, <3>2 DEF acknowledge_int, OnSlave
      <4>2. << >> \o <<"EOI_master">> = <<"EOI_master">>
        OBVIOUS
      <4> QED BY <1>2, <4>1, <4>2, Pieces
    <3> QED BY <3>1, <3>2
  <2>4. interrupt_handler(int) = ((kernel_page \o callback) \o acknowledge_int(int)) \o task_page
    BY DEF interrupt_handler
  <2> HIDE DEF callback, acknowledge
  <2>5. Part((kernel_page \o callback) \o acknowledge_int(int), int, Size(int), 3)
    BY <2>2, <2>3, PartsJoin
  <2>6. Part(interrupt_handler(int), int, Size(int), 1)
    BY <2>4, <2>5, Pieces, PartsJoin
  <2>7. Part(interrupt_handler(int) \o <<"iret">>, int, Size(int), 0)
    BY <2>6, Pieces, PartsJoin
  <2> QED BY <1>2, <2>7 DEF Wrapper
<1> QED BY <1>1, <1>2

\* Which operation stands where.
LEMMA Where ==
    ASSUME NEW int \in Interrupts, NEW n \in 1 .. Size(int)
    PROVE  /\ StepAt(int, n) = "iret" <=> n = 1
           /\ StepAt(int, n) = "EOI_master" <=> int # Syscall /\ n = 4
           /\ StepAt(int, n) = "EOI_slave" <=> OnSlave(int) /\ n = 5
           /\ StepAt(int, n) = "command" <=> int = Syscall /\ n = 4
           /\ StepAt(int, n) = "keyboard_push" => int = KeyboardInt /\ n = 7
           /\ StepAt(int, n) = "kernel_segments" => n >= 6 /\ (int = Syscall => n = 7)
           /\ StepAt(int, n) = "kernel_chunk" => n >= 5 /\ (int = Syscall => n = 6)
           /\ StepAt(int, n) = "store_frame" => n >= 5 /\ (int = Syscall => n = 5)
           /\ StepAt(int, n) = "user_segments" => n \in {3, 6} /\ (int = Syscall => n = 3)
           /\ StepAt(int, n) = "task_chunk" => n \in {2, 5} /\ (int = Syscall => n = 2)
<1>1. Size(int) \in {6, 7, 12} /\ n \in Nat /\ n <= 12
  BY DEF Size
<1>2. OnSlave(int) => int # Syscall /\ int # KeyboardInt
  BY InterruptNumbers DEF OnSlave
<1>3. int = Syscall => int # KeyboardInt /\ Size(int) = 7
  BY InterruptNumbers DEF Size
<1> QED BY <1>1, <1>2, <1>3 DEF StepAt, Size

\* What Has asks of a frame, by what is left.
LEMMA Owing ==
    ASSUME NEW f \in Frame, InHandler(f)
    PROVE  /\ f.todo # << >> /\ Head(f.todo) = StepAt(f.int, Left(f))
           /\ Has(f, "EOI_master") <=> OwesMaster(f)
           /\ Has(f, "EOI_slave") <=> OwesSlave(f)
           /\ OwesSlave(f) => OwesMaster(f) /\ LineOf(f) = 2
<1> DEFINE L == Left(f)
<1>1. f.int \in Interrupts /\ f.todo \in Seq(Operations) /\ L \in 1 .. Size(f.int)
  BY DEF Frame, InHandler
<1>2. Size(f.int) \in Nat /\ L \in Nat /\ L >= 1 /\ L = Len(f.todo)
  BY <1>1 DEF Size, Left
<1>3. DOMAIN f.todo = 1 .. L
  BY <1>1, <1>2
<1>4. f.todo # << >> /\ Head(f.todo) = StepAt(f.int, L)
  <2>1. f.todo[1] = StepAt(f.int, L - 1 + 1)
    BY <1>2 DEF InHandler
  <2> QED BY <1>1, <1>2, <2>1
<1>5. \A j \in 1 .. L : L - j + 1 \in 1 .. Size(f.int) /\ f.todo[j] = StepAt(f.int, L - j + 1)
  BY <1>1, <1>2 DEF InHandler
<1> HIDE DEF L
<1>7. Has(f, "EOI_master") <=> f.int # Syscall /\ L >= 4
  <2>1. ASSUME NEW j \in 1 .. L, f.todo[j] = "EOI_master"
        PROVE  f.int # Syscall /\ L >= 4
    <3>1. L - j + 1 \in 1 .. Size(f.int) /\ StepAt(f.int, L - j + 1) = "EOI_master"
      BY <1>5, <2>1
    <3>2. f.int # Syscall /\ L - j + 1 = 4
      BY <1>1, <3>1, Where
    <3> QED BY <1>2, <3>2
  <2>2. ASSUME f.int # Syscall, L >= 4
        PROVE  f.todo[L - 4 + 1] = "EOI_master" /\ L - 4 + 1 \in 1 .. L
    <3>1. L - 4 + 1 \in 1 .. L /\ L - (L - 4 + 1) + 1 = 4
      BY <1>2, <2>2
    <3>2. 4 \in 1 .. Size(f.int) /\ f.todo[L - 4 + 1] = StepAt(f.int, 4)
      BY <1>5, <3>1
    <3> QED BY <1>1, <2>2, <3>1, <3>2, Where
  <2> QED BY <1>3, <2>1, <2>2 DEF Has
<1>8. Has(f, "EOI_slave") <=> OnSlave(f.int) /\ L >= 5
  <2>1. ASSUME NEW j \in 1 .. L, f.todo[j] = "EOI_slave"
        PROVE  OnSlave(f.int) /\ L >= 5
    <3>1. L - j + 1 \in 1 .. Size(f.int) /\ StepAt(f.int, L - j + 1) = "EOI_slave"
      BY <1>5, <2>1
    <3>2. OnSlave(f.int) /\ L - j + 1 = 5
      BY <1>1, <3>1, Where
    <3> QED BY <1>2, <3>2
  <2>2. ASSUME OnSlave(f.int), L >= 5
        PROVE  f.todo[L - 5 + 1] = "EOI_slave" /\ L - 5 + 1 \in 1 .. L
    <3>1. L - 5 + 1 \in 1 .. L /\ L - (L - 5 + 1) + 1 = 5
      BY <1>2, <2>2
    <3>2. 5 \in 1 .. Size(f.int) /\ f.todo[L - 5 + 1] = StepAt(f.int, 5)
      BY <1>5, <3>1
    <3> QED BY <1>1, <2>2, <3>1, <3>2, Where
  <2> QED BY <1>3, <2>1, <2>2 DEF Has
<1>9. OnSlave(f.int) => f.int # Syscall /\ OnMaster(f.int - 32) = 2
  BY <1>1, InterruptNumbers DEF OnSlave, OnMaster
<1>10. OwesSlave(f) => OwesMaster(f) /\ LineOf(f) = 2
  BY <1>2, <1>9 DEF OwesMaster, OwesSlave, LineOf, L
<1> QED BY <1>4, <1>7, <1>8, <1>10 DEF OwesMaster, OwesSlave, L

-----------------------------------------------------------------------------
(* Frames one at a time.                                                   *)

LEMMA NewFrame ==
    ASSUME NEW int \in Interrupts, NEW f,
           f = [int |-> int, todo |-> Wrapper(int), flag |-> TRUE]
    PROVE  /\ f \in Frame /\ InHandler(f) /\ f.flag /\ f.int = int
           /\ Left(f) = Size(int) /\ Left(f) >= 6
<1>1. /\ Wrapper(int) \in Seq(Operations) /\ Len(Wrapper(int)) = Size(int)
      /\ \A j \in 1 .. Size(int) : Wrapper(int)[j] = StepAt(int, Size(int) - j + 1)
  <2>1. Part(Wrapper(int), int, Size(int), 0)
    BY WrapperSteps
  <2>2. Len(Wrapper(int)) = Size(int) /\ Wrapper(int) \in Seq(Operations)
    BY <2>1 DEF Part
  <2> QED BY <2>1, <2>2 DEF Part
<1>2. Size(int) \in Nat /\ Size(int) >= 6
  BY DEF Size
<1>3. f \in Frame /\ f.int = int /\ f.todo = Wrapper(int) /\ f.flag
  BY <1>1 DEF Frame
<1> QED BY <1>1, <1>2, <1>3 DEF InHandler, Left

\* A frame whose next operation is run.
LEMMA ShorterFrame ==
    ASSUME NEW f \in Frame, InHandler(f), f.flag, Left(f) >= 2,
           NEW g, g = [f EXCEPT !.todo = Tail(@)]
    PROVE  /\ g \in Frame /\ InHandler(g) /\ g.flag /\ g.int = f.int
           /\ Left(g) = Left(f) - 1
<1>1. /\ f.todo \in Seq(Operations) /\ f.int \in Interrupts
      /\ Len(f.todo) \in 1 .. Size(f.int) /\ Len(f.todo) >= 2
      /\ \A j \in 1 .. Len(f.todo) : f.todo[j] = StepAt(f.int, Len(f.todo) - j + 1)
  BY DEF Frame, InHandler, Left
<1>2. g \in Frame /\ g.int = f.int /\ g.flag /\ g.todo = Tail(f.todo)
  <2>1. Tail(f.todo) \in Seq(Operations)
    BY <1>1
  <2>2. g \in Frame
    BY <2>1 DEF Frame
  <2>3. g.int = f.int /\ g.flag = f.flag /\ g.todo = Tail(f.todo)
    BY DEF Frame
  <2> QED BY <2>2, <2>3
<1>3. /\ Len(Tail(f.todo)) = Len(f.todo) - 1
      /\ \A j \in 1 .. Len(f.todo) - 1 : Tail(f.todo)[j] = f.todo[j + 1]
  BY <1>1
<1>4. Size(f.int) \in Nat /\ Len(f.todo) \in Nat
  BY <1>1 DEF Size
<1>5. ASSUME NEW j \in 1 .. Len(f.todo) - 1
      PROVE  Tail(f.todo)[j] = StepAt(f.int, Len(f.todo) - 1 - j + 1)
  <2>1. j + 1 \in 1 .. Len(f.todo) /\ Len(f.todo) - (j + 1) + 1 = Len(f.todo) - 1 - j + 1
    BY <1>4
  <2> QED BY <1>1, <1>3, <2>1
<1>6. Len(f.todo) - 1 \in 1 .. Size(f.int)
  BY <1>1, <1>4
<1> QED BY <1>2, <1>3, <1>5, <1>6 DEF InHandler, Left

\* What a frame says of itself, in numbers.
LEMMA FrameNumbers ==
    ASSUME NEW f \in Frame, InHandler(f)
    PROVE  /\ f.int \in Interrupts /\ Left(f) \in 1 .. Size(f.int)
           /\ Left(f) \in Nat /\ Left(f) >= 1
           /\ f.int # Syscall => f.int - 32 \in Lines /\ f.int \in 32 .. 47 /\ LineOf(f) \in 0 .. 7
           /\ OnSlave(f.int) => f.int # Syscall /\ LineOf(f) = 2
<1>1. f.int \in Interrupts /\ Left(f) \in 1 .. Size(f.int)
  BY DEF Frame, InHandler
<1>2. Left(f) \in Nat /\ Left(f) >= 1
  BY <1>1 DEF Size
<1>3. f.int # Syscall => f.int - 32 \in Lines /\ f.int \in 32 .. 47
  BY <1>1, InterruptNumbers
<1>4. f.int # Syscall => LineOf(f) \in 0 .. 7
  BY <1>3 DEF LineOf, OnMaster
<1>5. OnSlave(f.int) => f.int # Syscall /\ LineOf(f) = 2
  BY <1>1, InterruptNumbers DEF OnSlave, LineOf, OnMaster
<1> QED BY <1>1, <1>2, <1>3, <1>4, <1>5

-----------------------------------------------------------------------------
(* The steps.                                                              *)

LEMMA InterruptsInit == Init => IInv
<1> SUFFICES ASSUME Init PROVE IInv
  OBVIOUS
<1>1. frames = << >> /\ DOMAIN frames = {} /\ Len(frames) = 0
  BY DEF Init
<1>2. FramesOK
  BY <1>1 DEF FramesOK
<1>3. Values
  BY InterruptConstants DEF Init, Values
<1>4. Nested /\ InService
  BY <1>1 DEF Init, Nested, InService
<1>5. CallsAlone /\ Context /\ CallContext
  BY <1>1 DEF Init, CallsAlone, Context, CallContext
<1> QED BY <1>2, <1>3, <1>4, <1>5 DEF IInv

\* One operation of the running handler that is not its last.
Ran ==
    LET N == Len(frames)
    IN  /\ Len(frames') = N /\ DOMAIN frames' = DOMAIN frames /\ frames' # << >>
        /\ \A k \in 1 .. N : k # N => frames'[k] = frames[k]
        /\ frames'[N].int = Top.int /\ Left(frames'[N]) = Left(Top) - 1
        /\ Top' = frames'[N]

LEMMA RunFacts ==
    ASSUME IInv, NEW operation, Run(operation)
    PROVE  /\ Len(frames) \in Nat /\ Len(frames) >= 1 /\ DOMAIN frames = 1 .. Len(frames)
           /\ Top \in Frame /\ InHandler(Top) /\ Top.flag
           /\ operation = StepAt(Top.int, Left(Top))
           /\ operation # "iret" => Left(Top) >= 2 /\ FramesOK' /\ Ran
<1> DEFINE N == Len(frames)
           g == [Top EXCEPT !.todo = Tail(@)]
<1>1. frames \in Seq(Frame) /\ frames # << >>
  BY DEF IInv, FramesOK, Run
<1>2. N \in Nat /\ N >= 1 /\ DOMAIN frames = 1 .. N
  BY <1>1
<1>3. Top \in Frame /\ InHandler(Top) /\ Top.flag
  BY <1>1, <1>2 DEF IInv, FramesOK, Top
<1>4. operation = StepAt(Top.int, Left(Top))
  BY <1>3, Owing DEF Run
<1>5. ASSUME operation # "iret"
      PROVE  Left(Top) >= 2 /\ FramesOK' /\ Ran
  <2>1. Left(Top) >= 2
    BY <1>3, <1>4, <1>5, FrameNumbers, Where
  <2>2. g \in Frame /\ InHandler(g) /\ g.flag /\ g.int = Top.int /\ Left(g) = Left(Top) - 1
    BY <1>3, <2>1, ShorterFrame
  <2>3. frames' = [frames EXCEPT ![N] = g]
    BY DEF Run, Top
  <2> HIDE DEF g
  <2>4. /\ frames' \in Seq(Frame) /\ Len(frames') = N /\ frames' # << >>
        /\ DOMAIN frames' = 1 .. N
        /\ \A k \in 1 .. N : frames'[k] = IF k = N THEN g ELSE frames[k]
    BY <1>1, <1>2, <2>2, <2>3
  <2>5. FramesOK'
    BY <1>2, <2>2, <2>4 DEF IInv, FramesOK
  <2>6. Ran
    <3>1. frames'[N] = g
      <4>1. N \in 1 .. N
        BY <1>2
      <4> QED BY <1>1, <1>2, <2>3, <4>1
    <3>2. Len(frames') = N
      BY <2>4
    <3>3. Top' = frames'[N]
      BY ONLY <3>2 DEF Top
    <3>4. DOMAIN frames' = DOMAIN frames
      BY <1>2, <2>4
    <3> QED BY <2>2, <2>4, <3>1, <3>3, <3>4 DEF Ran
  <2> QED BY <2>1, <2>5, <2>6
<1> QED BY <1>2, <1>3, <1>4, <1>5

\* Who owes what after the operation.
LEMMA RanOwing ==
    ASSUME IInv, Ran, Len(frames) \in Nat, Len(frames) >= 1, Left(Top) >= 2,
           Top \in Frame, InHandler(Top), DOMAIN frames = 1 .. Len(frames)
    PROVE  /\ \A k \in DOMAIN frames : frames'[k].int = frames[k].int
           /\ \A k \in DOMAIN frames : LineOf(frames'[k]) = LineOf(frames[k])
           /\ \A k \in DOMAIN frames : OwesMaster(frames'[k]) <=>
                 OwesMaster(frames[k]) /\ ~(k = Len(frames) /\ Left(Top) = 4)
           /\ \A k \in DOMAIN frames : OwesSlave(frames'[k]) <=>
                 OwesSlave(frames[k]) /\ ~(k = Len(frames) /\ Left(Top) = 5)
<1>1. ASSUME NEW k \in DOMAIN frames
      PROVE  frames'[k].int = frames[k].int
  BY <1>1 DEF Ran, Top
<1>2. Left(Top) \in Nat
  BY FrameNumbers
<1>3. ASSUME NEW k \in DOMAIN frames, k # Len(frames)
      PROVE  frames'[k] = frames[k]
  BY <1>3 DEF Ran
<1>4. frames[Len(frames)] = Top /\ Left(frames'[Len(frames)]) = Left(Top) - 1
  BY DEF Ran, Top
<1>5. ASSUME NEW k \in DOMAIN frames
      PROVE  OwesMaster(frames'[k]) <=>
                 OwesMaster(frames[k]) /\ ~(k = Len(frames) /\ Left(Top) = 4)
  BY <1>1, <1>2, <1>3, <1>4 DEF OwesMaster
<1>6. ASSUME NEW k \in DOMAIN frames
      PROVE  OwesSlave(frames'[k]) <=>
                 OwesSlave(frames[k]) /\ ~(k = Len(frames) /\ Left(Top) = 5)
  BY <1>1, <1>2, <1>3, <1>4 DEF OwesSlave
<1> QED BY <1>1, <1>5, <1>6 DEF LineOf

LEMMA RanNested ==
    ASSUME IInv, Ran, Len(frames) \in Nat, Len(frames) >= 1, Left(Top) >= 2,
           Top \in Frame, InHandler(Top), DOMAIN frames = 1 .. Len(frames)
    PROVE  Nested' /\ (enabled' = enabled => CallsAlone')
<1>1. /\ \A k \in DOMAIN frames : frames'[k].int = frames[k].int
      /\ \A k \in DOMAIN frames : LineOf(frames'[k]) = LineOf(frames[k])
      /\ \A k \in DOMAIN frames : OwesMaster(frames'[k]) => OwesMaster(frames[k])
      /\ DOMAIN frames' = DOMAIN frames /\ Len(frames') = Len(frames)
  BY RanOwing DEF Ran
<1>2. Nested'
  BY <1>1 DEF IInv, Nested
<1>3. enabled' = enabled => CallsAlone'
  BY <1>1 DEF IInv, CallsAlone
<1> QED BY <1>2, <1>3

\* An operation that is no end of interrupt leaves the lines in service.
LEMMA RanInService ==
    ASSUME IInv, NEW operation, Run(operation),
           operation \notin {"iret", "EOI_master", "EOI_slave"},
           UNCHANGED <<enabled, pic>>
    PROVE  /\ FramesOK' /\ Nested' /\ InService' /\ CallsAlone'
           /\ Left(Top) >= 2 /\ Ran
<1>1. /\ Len(frames) \in Nat /\ Len(frames) >= 1 /\ DOMAIN frames = 1 .. Len(frames)
      /\ Top \in Frame /\ InHandler(Top)
      /\ operation = StepAt(Top.int, Left(Top))
      /\ Left(Top) >= 2 /\ FramesOK' /\ Ran
  BY RunFacts
<1>2. /\ Top.int \in Interrupts /\ Left(Top) \in 1 .. Size(Top.int)
      /\ ~(Top.int # Syscall /\ Left(Top) = 4) /\ ~(OnSlave(Top.int) /\ Left(Top) = 5)
  BY <1>1, FrameNumbers, Where
<1>3. Nested' /\ CallsAlone'
  BY <1>1, RanNested
<1>4. /\ \A k \in DOMAIN frames : OwesMaster(frames'[k]) <=> OwesMaster(frames[k])
      /\ \A k \in DOMAIN frames : OwesSlave(frames'[k]) <=> OwesSlave(frames[k])
  BY <1>1, <1>2, RanOwing DEF OwesMaster, OwesSlave, Top
<1>5. /\ \A k \in DOMAIN frames : frames'[k].int = frames[k].int
      /\ \A k \in DOMAIN frames : LineOf(frames'[k]) = LineOf(frames[k])
      /\ DOMAIN frames' = DOMAIN frames
  BY <1>1, RanOwing DEF Ran
<1>6. InService'
  BY <1>4, <1>5 DEF IInv, InService, pic
<1> QED BY <1>1, <1>3, <1>6

\* The operations that change one register of the CPU, or none.
LEMMA KernelSegmentsStep ==
    ASSUME IInv, restore_kernel_segment_registers
    PROVE  IInv'
<1>1. FramesOK' /\ Nested' /\ InService' /\ CallsAlone' /\ Left(Top) >= 2 /\ Ran
  BY RanInService DEF restore_kernel_segment_registers
<1>2. /\ Top.int \in Interrupts /\ Left(Top) \in 1 .. Size(Top.int) /\ Left(Top) \in Nat
      /\ StepAt(Top.int, Left(Top)) = "kernel_segments"
  BY RunFacts, FrameNumbers DEF restore_kernel_segment_registers
<1>3. Left(Top) >= 6 /\ (Top.int = Syscall => Left(Top) = 7)
  BY <1>2, Where
<1>4. Top'.int = Top.int /\ Left(Top)' = Left(Top) - 1 /\ frames' # << >>
  BY <1>1 DEF Ran, Left
<1>5. Values'
  BY DEF IInv, Values, restore_kernel_segment_registers, pic
<1>6. Context' /\ CallContext'
  BY <1>2, <1>3, <1>4 DEF Context, CallContext, restore_kernel_segment_registers
<1> QED BY <1>1, <1>5, <1>6 DEF IInv

LEMMA UserSegmentsStep ==
    ASSUME IInv, task_restore_user_segment_registers
    PROVE  IInv'
<1>1. FramesOK' /\ Nested' /\ InService' /\ CallsAlone' /\ Left(Top) >= 2 /\ Ran
  BY RanInService DEF task_restore_user_segment_registers
<1>2. /\ Top.int \in Interrupts /\ Left(Top) \in 1 .. Size(Top.int) /\ Left(Top) \in Nat
      /\ StepAt(Top.int, Left(Top)) = "user_segments"
  BY RunFacts, FrameNumbers DEF task_restore_user_segment_registers
<1>3. Left(Top) \in {3, 6} /\ (Top.int = Syscall => Left(Top) = 3)
  BY <1>2, Where
<1>4. Top'.int = Top.int /\ Left(Top)' = Left(Top) - 1 /\ frames' # << >> /\ frames # << >>
  BY <1>1 DEF Ran, Left, Run, task_restore_user_segment_registers
<1>5. Values'
  BY DEF IInv, Values, task_restore_user_segment_registers, pic
<1>6. Context'
  BY <1>2, <1>3, <1>4 DEF Context, task_restore_user_segment_registers
<1>7. CallContext'
  BY <1>2, <1>3, <1>4 DEF IInv, CallContext, task_restore_user_segment_registers
<1> QED BY <1>1, <1>5, <1>6, <1>7 DEF IInv

LEMMA ChunkStep ==
    ASSUME IInv, NEW directory \in {"kernel", "task"}, paging_switch(directory)
    PROVE  IInv'
<1> DEFINE operation == IF directory = "kernel" THEN "kernel_chunk" ELSE "task_chunk"
<1>1. FramesOK' /\ Nested' /\ InService' /\ CallsAlone' /\ Left(Top) >= 2 /\ Ran
  <2>1. Run(operation) /\ operation \notin {"iret", "EOI_master", "EOI_slave"}
    BY DEF paging_switch
  <2>2. UNCHANGED <<enabled, pic>>
    BY DEF paging_switch
  <2> HIDE DEF operation
  <2> QED BY <2>1, <2>2, RanInService
<1>2. /\ Top.int \in Interrupts /\ Left(Top) \in 1 .. Size(Top.int) /\ Left(Top) \in Nat
      /\ StepAt(Top.int, Left(Top)) = operation
  BY RunFacts, FrameNumbers DEF paging_switch
<1>3. Top'.int = Top.int /\ Left(Top)' = Left(Top) - 1 /\ frames' # << >> /\ frames # << >>
  BY <1>1 DEF Ran, Left, Run, paging_switch
<1>4. Values'
  BY DEF IInv, Values, paging_switch, pic
<1>5. CASE directory = "kernel"
  <2>1. Left(Top) >= 5 /\ (Top.int = Syscall => Left(Top) = 6)
    BY <1>2, <1>5, Where
  <2>2. Context'
    BY <1>2, <1>3, <2>1 DEF Context
  <2>3. CallContext'
    BY <1>2, <1>3, <1>5, <2>1 DEF IInv, CallContext, paging_switch
  <2> QED BY <1>1, <1>4, <2>2, <2>3 DEF IInv
<1>6. CASE directory = "task"
  <2>1. Left(Top) \in {2, 5} /\ (Top.int = Syscall => Left(Top) = 2)
    BY <1>2, <1>6, Where
  <2>2. Context'
    BY <1>2, <1>3, <1>6, <2>1 DEF IInv, Context, paging_switch
  <2>3. CallContext'
    BY <1>2, <1>3, <1>6, <2>1 DEF IInv, CallContext, paging_switch
  <2> QED BY <1>1, <1>4, <2>2, <2>3 DEF IInv
<1> QED BY <1>5, <1>6

LEMMA StoreStep ==
    ASSUME IInv, task_store_frame
    PROVE  IInv'
<1>1. FramesOK' /\ Nested' /\ InService' /\ CallsAlone' /\ Left(Top) >= 2 /\ Ran
  BY RanInService DEF task_store_frame
<1>2. /\ Top.int \in Interrupts /\ Left(Top) \in 1 .. Size(Top.int) /\ Left(Top) \in Nat
      /\ StepAt(Top.int, Left(Top)) = "store_frame"
  BY RunFacts, FrameNumbers DEF task_store_frame
<1>3. Left(Top) >= 5 /\ (Top.int = Syscall => Left(Top) = 5)
  BY <1>2, Where
<1>4. Top'.int = Top.int /\ Left(Top)' = Left(Top) - 1 /\ frames' # << >> /\ frames # << >>
  BY <1>1 DEF Ran, Left, Run, task_store_frame
<1>5. Values'
  BY DEF IInv, Values, task_store_frame, pic
<1>6. Context'
  BY <1>2, <1>3, <1>4 DEF Context
<1>7. Top.int = Syscall => Len(frames) = 1
  BY RunFacts DEF IInv, CallsAlone, Top, task_store_frame
<1>8. CallContext'
  BY <1>2, <1>3, <1>4, <1>7 DEF IInv, CallContext, task_store_frame
<1> QED BY <1>1, <1>5, <1>6, <1>8 DEF IInv

LEMMA BodyStep ==
    ASSUME IInv, Body
    PROVE  IInv'
<1>1. PICK operation \in {"keyboard_push", "command"} : Run(operation)
  BY DEF Body
<1>2. UNCHANGED <<enabled, pic>> /\ operation \notin {"iret", "EOI_master", "EOI_slave"}
  BY DEF Body, cpu
<1>3. FramesOK' /\ Nested' /\ InService' /\ CallsAlone' /\ Left(Top) >= 2 /\ Ran
  BY <1>1, <1>2, RanInService
<1>4. /\ Top.int \in Interrupts /\ Left(Top) \in 1 .. Size(Top.int) /\ Left(Top) \in Nat
      /\ StepAt(Top.int, Left(Top)) = operation
  BY <1>1, RunFacts, FrameNumbers
<1>5. Left(Top) \in {4, 7} /\ (Top.int = Syscall => Left(Top) = 4)
  <2>1. KeyboardInt # Syscall
    BY InterruptNumbers
  <2> QED BY <1>4, <2>1, Where
<1>6. Top'.int = Top.int /\ Left(Top)' = Left(Top) - 1 /\ frames' # << >> /\ frames # << >>
  BY <1>1, <1>3 DEF Ran, Left, Run
<1>7. Values'
  BY DEF IInv, Values, Body, cpu, pic
<1>8. Context'
  BY <1>4, <1>5, <1>6 DEF Context
<1>9. CallContext'
  BY <1>4, <1>5, <1>6 DEF IInv, CallContext, Body, cpu
<1> QED BY <1>3, <1>7, <1>8, <1>9 DEF IInv

\* The most urgent line in service is the running handler's.
LEMMA MasterStep ==
    ASSUME IInv, end_of_interrupt_master
    PROVE  IInv'
<1> DEFINE N == Len(frames)
<1>1. /\ N \in Nat /\ N >= 1 /\ DOMAIN frames = 1 .. N
      /\ Top \in Frame /\ InHandler(Top)
      /\ StepAt(Top.int, Left(Top)) = "EOI_master"
      /\ Left(Top) >= 2 /\ FramesOK' /\ Ran
  BY RunFacts DEF end_of_interrupt_master
<1>2. /\ Top.int \in Interrupts /\ Left(Top) = 4 /\ Top.int # Syscall
      /\ OwesMaster(Top) /\ ~OwesSlave(Top) /\ Top = frames[N]
  BY <1>1, FrameNumbers, Where DEF OwesMaster, OwesSlave, Top
<1>3. Nested' /\ CallsAlone'
  BY <1>1, RanNested DEF end_of_interrupt_master, cpu
<1>4. /\ DOMAIN frames' = 1 .. N
      /\ \A k \in 1 .. N : frames'[k].int = frames[k].int
      /\ \A k \in 1 .. N : LineOf(frames'[k]) = LineOf(frames[k])
      /\ \A k \in 1 .. N : OwesMaster(frames'[k]) <=> OwesMaster(frames[k]) /\ k # N
      /\ \A k \in 1 .. N : OwesSlave(frames'[k]) <=> OwesSlave(frames[k])
  BY <1>1, <1>2, RanOwing DEF Ran
<1>5. InService'
  <2>1. master' = Retire(master) /\ slave' = slave
    BY DEF end_of_interrupt_master
  <2>2. master = {LineOf(frames[k]) : k \in {j \in 1 .. N : OwesMaster(frames[j])}}
    BY <1>1 DEF IInv, InService
  <2>3. ASSUME NEW j \in 1 .. N, OwesMaster(frames[j])
        PROVE  LineOf(frames[j]) \in Int
    <3>1. frames[j] \in Frame /\ InHandler(frames[j])
      BY <1>1 DEF IInv, FramesOK
    <3> QED BY <2>3, <3>1, FrameNumbers DEF OwesMaster
  <2>4. ASSUME NEW j \in 1 .. N, OwesMaster(frames[j]), j # N
        PROVE  LineOf(Top) < LineOf(frames[j])
    <3>1. j < N /\ N \in DOMAIN frames /\ j \in DOMAIN frames
      <4>1. N \in Nat /\ N >= 1 /\ DOMAIN frames = 1 .. N
        BY <1>1
      <4> HIDE DEF N
      <4> QED BY <2>4, <4>1
    <3> QED BY <1>2, <2>4, <3>1 DEF IInv, Nested
  <2> DEFINE Later == {LineOf(frames[k]) : k \in {j \in 1 .. N : OwesMaster(frames[j]) /\ j # N}}
  <2>5. Retire(master) = Later
    <3>1. N \in 1 .. N /\ LineOf(Top) \in master /\ LineOf(Top) \in Int
      BY <1>1, <1>2, <2>2, <2>3
    <3>2. ASSUME NEW l \in Later
          PROVE  l \in Retire(master)
      BY <2>2, <2>4, <3>1 DEF Retire
    <3>3. ASSUME NEW l \in Retire(master)
          PROVE  l \in Later
      <4>1. PICK m \in master : m < l
        BY DEF Retire
      <4>2. PICK k \in 1 .. N : OwesMaster(frames[k]) /\ l = LineOf(frames[k])
        BY <2>2 DEF Retire
      <4>3. PICK j \in 1 .. N : OwesMaster(frames[j]) /\ m = LineOf(frames[j])
        BY <2>2
      <4>4. k # N
        <5>1. SUFFICES ASSUME k = N PROVE FALSE
          OBVIOUS
        <5>2. l = LineOf(Top) /\ m < l
          BY <1>2, <4>1, <4>2, <5>1
        <5>3. j # N
          BY <1>2, <2>3, <4>3, <5>2, <3>1
        <5> QED BY <2>3, <2>4, <3>1, <4>3, <5>2, <5>3
      <4> QED BY <4>2, <4>4
    <3> QED BY <3>2, <3>3
  <2>6. master' = {LineOf(frames'[k]) : k \in {j \in DOMAIN frames' : OwesMaster(frames'[j])}}
    BY <1>4, <2>1, <2>5
  <2>7. slave' = {frames'[k].int - 32 : k \in {j \in DOMAIN frames' : OwesSlave(frames'[j])}}
    BY <1>1, <1>4, <2>1 DEF IInv, InService
  <2> QED BY <2>6, <2>7 DEF InService
<1>6. Top'.int = Top.int /\ Left(Top)' = Left(Top) - 1 /\ frames' # << >>
  BY <1>1 DEF Ran, Left
<1>7. Values'
  BY DEF IInv, Values, end_of_interrupt_master, cpu
<1>8. Context' /\ CallContext'
  BY <1>2, <1>6 DEF Context, CallContext
<1> QED BY <1>1, <1>3, <1>5, <1>7, <1>8 DEF IInv

\* Only the running handler can owe the slave one: two would both be on line
\* 2 of the master.
LEMMA SlaveStep ==
    ASSUME IInv, end_of_interrupt_slave
    PROVE  IInv'
<1> DEFINE N == Len(frames)
<1>1. /\ N \in Nat /\ N >= 1 /\ DOMAIN frames = 1 .. N
      /\ Top \in Frame /\ InHandler(Top)
      /\ StepAt(Top.int, Left(Top)) = "EOI_slave"
      /\ Left(Top) >= 2 /\ FramesOK' /\ Ran
  BY RunFacts DEF end_of_interrupt_slave
<1>2. /\ Top.int \in Interrupts /\ Left(Top) = 5 /\ OnSlave(Top.int) /\ Top.int # Syscall
      /\ OwesMaster(Top) /\ OwesSlave(Top) /\ LineOf(Top) = 2 /\ Top = frames[N]
  BY <1>1, FrameNumbers, Where DEF OwesMaster, OwesSlave, Top
<1>3. Nested' /\ CallsAlone'
  BY <1>1, RanNested DEF end_of_interrupt_slave, cpu
<1>4. /\ DOMAIN frames' = 1 .. N
      /\ \A k \in 1 .. N : LineOf(frames'[k]) = LineOf(frames[k])
      /\ \A k \in 1 .. N : OwesMaster(frames'[k]) <=> OwesMaster(frames[k])
      /\ \A k \in 1 .. N : OwesSlave(frames'[k]) <=> OwesSlave(frames[k]) /\ k # N
  <2>1. DOMAIN frames' = 1 .. N
    BY <1>1 DEF Ran
  <2>2. Left(Top) # 4 /\ Left(Top) = 5
    BY <1>2
  <2> QED BY <1>1, <2>1, <2>2, RanOwing
<1>5. ASSUME NEW k \in 1 .. N, OwesSlave(frames[k])
      PROVE  k = N
  <2>1. frames[k] \in Frame /\ InHandler(frames[k])
    BY <1>1 DEF IInv, FramesOK
  <2>2. OwesMaster(frames[k]) /\ LineOf(frames[k]) = 2
    BY <1>5, <2>1, Owing
  <2>3. k < N => LineOf(Top) < LineOf(frames[k])
    <3>1. N \in DOMAIN frames /\ k \in DOMAIN frames
      BY <1>1
    <3> QED BY <1>2, <2>2, <3>1 DEF IInv, Nested
  <2>4. ~(k < N)
    BY <1>2, <2>2, <2>3
  <2>5. N \in Nat
    BY <1>1
  <2> HIDE DEF N
  <2> QED BY <2>4, <2>5
<1>6. InService'
  <2>1. slave' = Retire(slave) /\ master' = master
    BY DEF end_of_interrupt_slave
  <2>2. slave = {Top.int - 32}
    <3>1. slave = {frames[k].int - 32 : k \in {j \in 1 .. N : OwesSlave(frames[j])}}
      BY <1>1 DEF IInv, InService
    <3>2. N \in 1 .. N
      BY <1>1
    <3> QED BY <1>2, <1>5, <3>1, <3>2
  <2>3. Retire(slave) = {}
    <3>1. Top.int - 32 \in Int
      BY <1>1, <1>2, FrameNumbers
    <3> QED BY <2>2, <3>1 DEF Retire
  <2>4. \A k \in 1 .. N : ~OwesSlave(frames'[k])
    BY <1>4, <1>5
  <2>5. slave' = {frames'[k].int - 32 : k \in {j \in DOMAIN frames' : OwesSlave(frames'[j])}}
    BY <1>4, <2>1, <2>3, <2>4
  <2>6. master' = {LineOf(frames'[k]) : k \in {j \in DOMAIN frames' : OwesMaster(frames'[j])}}
    BY <1>1, <1>4, <2>1 DEF IInv, InService
  <2> QED BY <2>5, <2>6 DEF InService
<1>7. Top'.int = Top.int /\ Left(Top)' = Left(Top) - 1 /\ frames' # << >>
  BY <1>1 DEF Ran, Left
<1>8. Values'
  BY DEF IInv, Values, end_of_interrupt_slave, cpu
<1>9. Context' /\ CallContext'
  BY <1>2, <1>7 DEF Context, CallContext
<1> QED BY <1>1, <1>3, <1>6, <1>8, <1>9 DEF IInv

LEMMA RaiseStep ==
    ASSUME IInv, NEW n \in Lines, Raise(n)
    PROVE  IInv'
<1>1. UNCHANGED <<frames, enabled, segments, chunk, registers, master, slave>>
  BY DEF Raise, cpu
<1>2. Values'
  BY <1>1 DEF IInv, Values, Raise
<1>3. FramesOK' /\ Nested' /\ InService' /\ CallsAlone' /\ Context' /\ CallContext'
  BY <1>1 DEF IInv, FramesOK, Nested, InService, CallsAlone, Context, CallContext, Top
<1> QED BY <1>2, <1>3 DEF IInv

\* A handler enters above those that are less urgent.
LEMMA DeliverStep ==
    ASSUME IInv, NEW n \in Lines, Deliver(n)
    PROVE  IInv'
<1> DEFINE N == Len(frames)
           int == Vector(n)
           f == [int |-> int, todo |-> Wrapper(int), flag |-> TRUE]
<1>1. int = 32 + n /\ int \in 32 .. 47 /\ int \in Interrupts /\ int # Syscall /\ n \in 0 .. 15
  BY InterruptNumbers DEF Interrupts
<1>2. enabled /\ enabled = TRUE /\ \A m \in master : OnMaster(n) < m
  BY DEF Deliver, IInv, Values
<1>3. /\ f \in Frame /\ InHandler(f) /\ f.flag /\ f.int = int
      /\ Left(f) \in Nat /\ Left(f) >= 6
  <2>1. f \in Frame /\ InHandler(f) /\ f.flag /\ f.int = int /\ Left(f) >= 6
    BY <1>1, NewFrame
  <2> HIDE DEF f
  <2> QED BY <2>1, FrameNumbers
<1>4. frames' = Append(frames, f) /\ UNCHANGED <<enabled, segments, chunk, registers>>
  BY <1>1, <1>2 DEF Deliver, Enter, Gate
<1>5. LineOf(f) = OnMaster(n) /\ OwesMaster(f)
  <2>1. int - 32 = n
    BY <1>1
  <2> QED BY <1>1, <1>3, <2>1 DEF LineOf, OwesMaster
<1>6. OwesSlave(f) <=> n \in 8 .. 15
  BY <1>1, <1>3 DEF OwesSlave, OnSlave
<1>7. f.int - 32 = n
  BY <1>1, <1>3
<1>8. frames \in Seq(Frame) /\ N \in Nat /\ DOMAIN frames = 1 .. N
  BY DEF IInv, FramesOK
<1> HIDE DEF f, int
<1>9. /\ frames' \in Seq(Frame) /\ Len(frames') = N + 1 /\ DOMAIN frames' = 1 .. N + 1
      /\ \A k \in 1 .. N : frames'[k] = frames[k]
      /\ frames'[N + 1] = f /\ frames' # << >>
  BY <1>3, <1>4, <1>8
<1>10. Top' = f
  BY <1>9 DEF Top
<1> HIDE DEF N
<1>11. \A k \in 1 .. N + 1 : k \in 1 .. N \/ k = N + 1
  BY <1>8
<1>12. N + 1 \in 1 .. N + 1 /\ N + 1 \notin 1 .. N /\ 1 .. N \subseteq 1 .. N + 1
  BY <1>8
<1>13. FramesOK'
  BY <1>3, <1>8, <1>9, <1>11 DEF IInv, FramesOK
<1>14. Nested'
  <2>1. ASSUME NEW j \in 1 .. N + 1, NEW k \in 1 .. N + 1, j < k,
               OwesMaster(frames'[j]), OwesMaster(frames'[k])
        PROVE  LineOf(frames'[k]) < LineOf(frames'[j])
    <3>1. j \in 1 .. N
      BY <1>8, <2>1
    <3>2. CASE k \in 1 .. N
      BY <1>8, <1>9, <2>1, <3>1, <3>2 DEF IInv, Nested
    <3>3. CASE k = N + 1
      <4>1. LineOf(frames[j]) \in master
        BY <1>8, <1>9, <2>1, <3>1 DEF IInv, InService
      <4> QED BY <1>2, <1>5, <1>9, <3>1, <3>3, <4>1
    <3> QED BY <1>11, <3>2, <3>3
  <2> QED BY <1>9, <2>1 DEF Nested
<1>15. InService'
  <2>1. master' = master \cup {LineOf(f)}
    BY <1>5 DEF Deliver
  <2>2. slave' = IF OwesSlave(f) THEN slave \cup {f.int - 32} ELSE slave
    BY <1>6, <1>7 DEF Deliver
  <2>3. {j \in 1 .. N + 1 : OwesMaster(frames'[j])} = {j \in 1 .. N : OwesMaster(frames[j])} \cup {N + 1}
    BY <1>5, <1>9, <1>11, <1>12
  <2>4. master' = {LineOf(frames'[k]) : k \in {j \in 1 .. N + 1 : OwesMaster(frames'[j])}}
    <3>1. master = {LineOf(frames[k]) : k \in {j \in 1 .. N : OwesMaster(frames[j])}}
      BY <1>8 DEF IInv, InService
    <3> QED BY <1>9, <2>1, <2>3, <3>1
  <2>5. slave' = {frames'[k].int - 32 : k \in {j \in 1 .. N + 1 : OwesSlave(frames'[j])}}
    <3>1. slave = {frames[k].int - 32 : k \in {j \in 1 .. N : OwesSlave(frames[j])}}
      BY <1>8 DEF IInv, InService
    <3>2. CASE OwesSlave(f)
      <4>1. {j \in 1 .. N + 1 : OwesSlave(frames'[j])} = {j \in 1 .. N : OwesSlave(frames[j])} \cup {N + 1}
        BY <1>9, <1>11, <1>12, <3>2
      <4> QED BY <1>9, <2>2, <3>1, <3>2, <4>1
    <3>3. CASE ~OwesSlave(f)
      <4>1. {j \in 1 .. N + 1 : OwesSlave(frames'[j])} = {j \in 1 .. N : OwesSlave(frames[j])}
        BY <1>9, <1>11, <1>12, <3>3
      <4> QED BY <1>9, <2>2, <3>1, <3>3, <4>1
    <3> QED BY <3>2, <3>3
  <2> QED BY <1>9, <2>4, <2>5 DEF InService
<1>16. CallsAlone'
  <2>1. \A k \in 1 .. N : frames[k].int # Syscall
    BY <1>2, <1>8 DEF IInv, CallsAlone
  <2>2. \A k \in 1 .. N + 1 : frames'[k].int # Syscall
    BY <1>1, <1>3, <1>9, <1>11, <2>1
  <2> QED BY <1>2, <1>4, <1>9, <2>2 DEF CallsAlone
<1>17. Values'
  BY <1>4 DEF IInv, Values, Deliver
<1>18. Context' /\ CallContext'
  <2>1. Left(Top)' = Left(f) /\ Top'.int # Syscall
    BY <1>1, <1>3, <1>10 DEF Left
  <2> QED BY <1>3, <1>9, <2>1 DEF Context, CallContext
<1> QED BY <1>13, <1>14, <1>15, <1>16, <1>17, <1>18 DEF IInv

LEMMA SystemCallStep ==
    ASSUME IInv, SystemCall
    PROVE  IInv'
<1> DEFINE f == [int |-> Syscall, todo |-> Wrapper(Syscall), flag |-> TRUE]
<1>1. frames = << >> /\ DOMAIN frames = {} /\ enabled = TRUE
  BY DEF SystemCall, IInv, CallsAlone, Values
<1>2. Syscall \in Interrupts
  BY DEF Interrupts
<1>3. /\ f \in Frame /\ InHandler(f) /\ f.flag /\ f.int = Syscall
      /\ Left(f) = 7 /\ ~OwesMaster(f) /\ ~OwesSlave(f)
  <2>1. f \in Frame /\ InHandler(f) /\ f.flag /\ f.int = Syscall /\ Left(f) = 7
    BY <1>2, NewFrame DEF Size
  <2> HIDE DEF f
  <2> QED BY <2>1, FrameNumbers DEF OwesMaster, OwesSlave
<1>4. /\ frames' = Append(frames, f) /\ enabled' = FALSE
      /\ UNCHANGED <<segments, chunk, registers, requested, master, slave, left>>
  BY <1>1 DEF SystemCall, Enter, Gate, pic
<1> HIDE DEF f
<1>5. frames' = <<f>> /\ DOMAIN frames' = {1} /\ Len(frames') = 1 /\ frames'[1] = f
  BY <1>1, <1>4
<1>6. FramesOK'
  <2>1. frames' \in Seq(Frame)
    BY <1>3, <1>5
  <2> QED BY <1>3, <1>5, <2>1 DEF FramesOK
<1>7. Nested' /\ InService'
  <2>1. Nested'
    BY <1>3, <1>5 DEF Nested
  <2>2. master = {} /\ slave = {}
    BY <1>1 DEF IInv, InService
  <2>3. InService'
    BY <1>3, <1>4, <1>5, <2>2 DEF InService
  <2> QED BY <2>1, <2>3
<1>8. CallsAlone'
  BY <1>3, <1>4, <1>5 DEF CallsAlone
<1>9. Values'
  BY <1>4 DEF IInv, Values
<1>10. Context' /\ CallContext'
  <2>1. Top' = f /\ frames' # << >>
    BY <1>5 DEF Top
  <2>2. Left(Top)' = 7
    BY <1>3, <2>1 DEF Left
  <2> QED BY <2>1, <2>2 DEF Context, CallContext
<1> QED BY <1>6, <1>7, <1>8, <1>9, <1>10 DEF IInv

\* A handler that returns owes nothing, and leaves the program's context.
LEMMA ReturnStep ==
    ASSUME IInv, Return
    PROVE  IInv'
<1> DEFINE N == Len(frames)
<1>1. frames # << >> /\ Top.todo = <<"iret">> /\ frames' = SubSeq(frames, 1, N - 1)
  BY DEF Return
<1>2. frames \in Seq(Frame) /\ N \in Nat /\ N >= 1 /\ DOMAIN frames = 1 .. N
  BY <1>1 DEF IInv, FramesOK
<1>3. Top \in Frame /\ InHandler(Top) /\ Top.flag /\ Top = frames[N]
  BY <1>2 DEF IInv, FramesOK, Top
<1>4. Left(Top) = 1 /\ ~OwesMaster(Top) /\ ~OwesSlave(Top)
  <2>1. Left(Top) = 1
    BY <1>1 DEF Left
  <2> QED BY <2>1 DEF OwesMaster, OwesSlave
<1>5. segments = "user" /\ chunk = "task"
  BY <1>1, <1>4 DEF IInv, Context
<1>6. enabled' = TRUE /\ UNCHANGED <<segments, chunk, registers, requested, master, slave, left>>
  <2>1. Top.flag = TRUE
    BY <1>3 DEF Frame
  <2> QED BY <2>1 DEF Return, pic
<1> HIDE DEF N
<1>7. /\ frames' \in Seq(Frame) /\ Len(frames') = N - 1 /\ DOMAIN frames' = 1 .. N - 1
      /\ \A k \in 1 .. N - 1 : frames'[k] = frames[k]
  BY <1>1, <1>2
<1>8. \A k \in 1 .. N : k \in 1 .. N - 1 \/ k = N
  BY <1>2
<1>9. 1 .. N - 1 \subseteq 1 .. N /\ N \notin 1 .. N - 1
  BY <1>2
<1>10. FramesOK'
  BY <1>2, <1>7, <1>9 DEF IInv, FramesOK
<1>11. Nested'
  BY <1>2, <1>7, <1>9 DEF IInv, Nested
<1>12. InService'
  <2>1. {j \in 1 .. N : OwesMaster(frames[j])} = {j \in 1 .. N - 1 : OwesMaster(frames'[j])}
    BY <1>3, <1>4, <1>7, <1>8, <1>9
  <2>2. {j \in 1 .. N : OwesSlave(frames[j])} = {j \in 1 .. N - 1 : OwesSlave(frames'[j])}
    BY <1>3, <1>4, <1>7, <1>8, <1>9
  <2> QED BY <1>2, <1>6, <1>7, <2>1, <2>2 DEF IInv, InService
<1>13. \A k \in 1 .. N - 1 : frames'[k].int # Syscall
  <2>1. ASSUME NEW k \in 1 .. N - 1, frames[k].int = Syscall
        PROVE  FALSE
    <3>1. N = 1
      BY <1>2, <1>9, <2>1 DEF IInv, CallsAlone, N
    <3> QED BY <2>1, <3>1
  <2> QED BY <1>7, <2>1
<1>14. CallsAlone'
  BY <1>6, <1>7, <1>13 DEF CallsAlone
<1>15. Values'
  BY <1>6 DEF IInv, Values
<1>16. Context'
  BY <1>5, <1>6 DEF Context
<1>17. CallContext'
  <2>1. ASSUME frames' # << >>
        PROVE  Top'.int # Syscall
    <3>1. N - 1 \in 1 .. N - 1
      <4>1. N - 1 # 0
        BY <1>2, <1>7, <2>1
      <4> QED BY <1>2, <4>1
    <3>2. Top' = frames'[N - 1]
      BY <1>7 DEF Top
    <3> QED BY <1>13, <3>1, <3>2
  <2> QED BY <2>1 DEF CallContext
<1> QED BY <1>10, <1>11, <1>12, <1>14, <1>15, <1>16, <1>17 DEF IInv

LEMMA InterruptsStep == IInv /\ [Next]_vars => IInv'
<1> SUFFICES ASSUME IInv, [Next]_vars PROVE IInv'
  OBVIOUS
<1>1. ASSUME NEW n \in Lines, Raise(n) PROVE IInv'
  BY <1>1, RaiseStep
<1>2. ASSUME NEW n \in Lines, Deliver(n) PROVE IInv'
  BY <1>2, DeliverStep
<1>3. CASE SystemCall
  BY <1>3, SystemCallStep
<1>4. CASE Step
  <2>1. CASE restore_kernel_segment_registers
    BY <2>1, KernelSegmentsStep
  <2>2. CASE task_restore_user_segment_registers
    BY <2>2, UserSegmentsStep
  <2>3. ASSUME NEW directory \in {"kernel", "task"}, paging_switch(directory) PROVE IInv'
    BY <2>3, ChunkStep
  <2>4. CASE task_store_frame
    BY <2>4, StoreStep
  <2>5. CASE Body
    BY <2>5, BodyStep
  <2>6. CASE end_of_interrupt_master
    BY <2>6, MasterStep
  <2>7. CASE end_of_interrupt_slave
    BY <2>7, SlaveStep
  <2>8. CASE Return
    BY <2>8, ReturnStep
  <2> QED BY <1>4, <2>1, <2>2, <2>3, <2>4, <2>5, <2>6, <2>7, <2>8 DEF Step
<1>5. CASE UNCHANGED vars
  <2>1. UNCHANGED <<frames, enabled, segments, chunk, registers, requested, master, slave, left>>
    BY <1>5 DEF vars, cpu, pic
  <2> QED BY <2>1 DEF IInv, FramesOK, Values, Nested, InService, CallsAlone, Context,
                      CallContext, Top
<1> QED BY <1>1, <1>2, <1>3, <1>4, <1>5 DEF Next

\* The inductive invariant: every frame is in its handler, frames that owe an
\* end of interrupt lie in the order of urgency, the lines in service are
\* those owed, and a handler near its end has given back what it took.
THEOREM InterruptsInvariant == Spec => []IInv
BY InterruptsInit, InterruptsStep, PTL DEF Spec

-----------------------------------------------------------------------------
(* What follows from it.                                                   *)

\* Every frame of a reachable state is in its own handler with IF saved.
LEMMA FrameFacts ==
    ASSUME IInv, NEW k \in DOMAIN frames
    PROVE  frames[k] \in Frame /\ InHandler(frames[k]) /\ frames[k].flag
<1>1. frames \in Seq(Frame)
  BY DEF IInv, FramesOK
<1>2. DOMAIN frames = 1 .. Len(frames)
  BY <1>1
<1> QED BY <1>1, <1>2 DEF IInv, FramesOK

\* What is left of a handler is the end of its wrapper.
LEMMA LeftIsSuffix ==
    ASSUME NEW f \in Frame, InHandler(f)
    PROVE  f.todo \in Suffixes(Wrapper(f.int))
<1> DEFINE w == Wrapper(f.int)
           L == Len(f.todo)
           k == Size(f.int) - L + 1
<1>1. /\ f.int \in Interrupts /\ f.todo \in Seq(Operations) /\ L \in 1 .. Size(f.int)
      /\ \A j \in 1 .. L : f.todo[j] = StepAt(f.int, L - j + 1)
  BY DEF Frame, InHandler, Left
<1>2. Size(f.int) \in Nat
  BY DEF Size
<1>3. /\ w \in Seq(Operations) /\ Len(w) = Size(f.int)
      /\ \A j \in 1 .. Size(f.int) : w[j] = StepAt(f.int, Size(f.int) - j + 1)
  <2>1. Part(w, f.int, Size(f.int), 0)
    BY <1>1, WrapperSteps
  <2> HIDE DEF w
  <2>2. w \in Seq(Operations) /\ Len(w) = Size(f.int)
    BY <1>2, <2>1 DEF Part
  <2> QED BY <2>1, <2>2 DEF Part
<1> HIDE DEF w
<1>4. L \in Nat /\ k \in 1 .. Len(w) /\ Len(w) - k + 1 = L
  BY <1>1, <1>2, <1>3
<1>5. /\ SubSeq(w, k, Len(w)) \in Seq(Operations) /\ Len(SubSeq(w, k, Len(w))) = L
      /\ \A j \in 1 .. L : SubSeq(w, k, Len(w))[j] = w[k + j - 1]
  <2> HIDE DEF k, L
  <2> QED BY <1>3, <1>4
<1>6. ASSUME NEW j \in 1 .. L
      PROVE  f.todo[j] = SubSeq(w, k, Len(w))[j]
  <2>1. k + j - 1 \in 1 .. Size(f.int) /\ Size(f.int) - (k + j - 1) + 1 = L - j + 1
    <3>1. L \in 1 .. Size(f.int)
      BY <1>1
    <3> HIDE DEF L
    <3> QED BY <1>2, <3>1
  <2> QED BY <1>1, <1>3, <1>5, <2>1
<1>7. f.todo = SubSeq(w, k, Len(w))
  <2> DEFINE t == SubSeq(w, k, Len(w))
  <2>1. f.todo \in Seq(Operations) /\ t \in Seq(Operations) /\ Len(f.todo) = Len(t)
    BY <1>1, <1>5
  <2>2. \A j \in 1 .. Len(f.todo) : f.todo[j] = t[j]
    BY <1>6
  <2> HIDE DEF t
  <2>3. f.todo = t
    BY <2>1, <2>2, SeqEqual
  <2> QED BY <2>3 DEF t
<1> QED BY <1>4, <1>7 DEF Suffixes, w

\* Each frame is in the middle of its handler, each line in service on its
\* chip, and every register has one of its values.
THEOREM InterruptsTypeCorrect == Spec => []TypeOK
<1>1. IInv => TypeOK
  <2> SUFFICES ASSUME IInv PROVE TypeOK
    OBVIOUS
  <2>1. ASSUME NEW k \in DOMAIN frames
        PROVE  /\ frames[k].int \in Interrupts /\ frames[k].flag \in BOOLEAN
               /\ frames[k].todo \in Suffixes(Wrapper(frames[k].int))
    BY FrameFacts, LeftIsSuffix DEF Frame
  <2>2. master \subseteq 0 .. 7
    <3>1. ASSUME NEW k \in DOMAIN frames, OwesMaster(frames[k])
          PROVE  LineOf(frames[k]) \in 0 .. 7
      BY <3>1, FrameFacts, FrameNumbers DEF OwesMaster
    <3> QED BY <3>1 DEF IInv, InService
  <2>3. slave \subseteq 8 .. 15
    <3>1. ASSUME NEW k \in DOMAIN frames, OwesSlave(frames[k])
          PROVE  frames[k].int - 32 \in 8 .. 15
      BY <3>1 DEF OwesSlave, OnSlave
    <3> QED BY <3>1 DEF IInv, InService
  <2> QED BY <2>1, <2>2, <2>3 DEF IInv, Values, TypeOK
<1> QED BY <1>1, InterruptsInvariant, PTL

\* The lines in service are exactly those whose handlers have still to send
\* their end of interrupt, one handler to a line, although acknowledge_int
\* names no line and any line may interrupt any handler.
THEOREM EndsRetireTheirOwn == Spec => []InServiceIsOwed
<1>1. IInv => InServiceIsOwed
  <2> SUFFICES ASSUME IInv PROVE InServiceIsOwed
    OBVIOUS
  <2> DEFINE owing == {k \in DOMAIN frames : OwesMaster(frames[k])}
             f == [k \in owing |-> LineOf(frames[k])]
  <2>1. ASSUME NEW k \in DOMAIN frames
        PROVE  /\ Has(frames[k], "EOI_master") <=> OwesMaster(frames[k])
               /\ Has(frames[k], "EOI_slave") <=> OwesSlave(frames[k])
    BY FrameFacts, Owing
  <2>2. owing = {k \in DOMAIN frames : Has(frames[k], "EOI_master")}
    BY <2>1
  <2>3. master = {LineOf(frames[k]) : k \in owing}
    BY DEF IInv, InService
  <2>4. slave = {frames[k].int - 32 : k \in {j \in DOMAIN frames : Has(frames[j], "EOI_slave")}}
    BY <2>1 DEF IInv, InService
  <2>5. Cardinality(master) = Cardinality(owing)
    <3>1. Len(frames) \in Nat /\ DOMAIN frames = 1 .. Len(frames)
      BY DEF IInv, FramesOK
    <3>2. IsFiniteSet(owing)
      <4>1. IsFiniteSet(1 .. Len(frames))
        BY <3>1, FS_Interval
      <4>2. owing \in SUBSET (1 .. Len(frames))
        BY <3>1
      <4> HIDE DEF owing
      <4> QED BY <4>1, <4>2, FS_Subset
    <3>3. ASSUME NEW j \in owing, NEW k \in owing, f[j] = f[k]
          PROVE  j = k
      <4>1. LineOf(frames[j]) \in Int /\ LineOf(frames[k]) \in Int
        BY FrameFacts, FrameNumbers DEF OwesMaster
      <4>2. ~(j < k) /\ ~(k < j)
        BY <3>3, <4>1 DEF IInv, Nested
      <4> QED BY <3>1, <4>2
    <3>4. f \in Surjection(owing, master) /\ f \in Injection(owing, master)
      <4> HIDE DEF owing
      <4>1. f \in [owing -> master] /\ \A l \in master : \E k \in owing : f[k] = l
        BY <2>3
      <4> HIDE DEF f
      <4> QED BY <3>3, <4>1 DEF Surjection, Injection, IsInjective
    <3> HIDE DEF owing, f
    <3> QED BY <3>2, <3>4, FS_Surjection
  <2> QED BY <2>2, <2>3, <2>4, <2>5 DEF InServiceIsOwed, LineOf
<1> QED BY <1>1, InterruptsInvariant, PTL

\* The program always runs on its own page directory and segments with
\* interrupts on, whatever nested in interrupt_handler before it got the CPU
\* back.
THEOREM ProgramFindsItsContext == Spec => []ProgramContext
<1>1. IInv => ProgramContext
  BY DEF IInv, Context, CallsAlone, Values, ProgramContext
<1> QED BY <1>1, InterruptsInvariant, PTL

\* A system call is alone in the kernel and its command finds the kernel's
\* pages, the kernel's segments and the program's registers; no two handlers
\* are ever inside keyboard_push and a command together.
THEOREM CallsAreExclusive == Spec => []CallsExclusive
<1>1. IInv => CallsExclusive
  <2> SUFFICES ASSUME IInv PROVE CallsExclusive
    OBVIOUS
  <2>1. ASSUME NEW k \in DOMAIN frames
        PROVE  /\ frames[k].int \in Interrupts /\ frames[k].todo # << >>
               /\ Left(frames[k]) \in 1 .. Size(frames[k].int)
               /\ Head(frames[k].todo) = "command" <=>
                     frames[k].int = Syscall /\ Left(frames[k]) = 4
               /\ Head(frames[k].todo) = "keyboard_push" =>
                     frames[k].int = KeyboardInt /\ Left(frames[k]) = 7
    <3>1. frames[k] \in Frame /\ InHandler(frames[k])
      BY FrameFacts
    <3>2. frames[k].int \in Interrupts /\ Left(frames[k]) \in 1 .. Size(frames[k].int)
      BY <3>1, FrameNumbers
    <3>3. frames[k].todo # << >> /\ Head(frames[k].todo) = StepAt(frames[k].int, Left(frames[k]))
      BY <3>1, Owing
    <3> QED BY <3>2, <3>3, Where
  <2>2. Len(frames) \in Nat /\ DOMAIN frames = 1 .. Len(frames)
    BY DEF IInv, FramesOK
  <2>3. ASSUME NEW k \in DOMAIN frames, frames[k].int = Syscall
        PROVE  /\ Len(frames) = 1 /\ ~enabled /\ frames # << >> /\ k = 1 /\ Top = frames[k]
               /\ Head(frames[k].todo) = "command" =>
                     chunk = "kernel" /\ segments = "kernel" /\ registers = "user"
    <3>1. Len(frames) = 1 /\ ~enabled
      BY <2>3 DEF IInv, CallsAlone
    <3>2. k = 1 /\ Top = frames[k] /\ frames # << >>
      BY <2>2, <3>1 DEF Top
    <3>3. ASSUME Head(frames[k].todo) = "command"
          PROVE  chunk = "kernel" /\ segments = "kernel" /\ registers = "user"
      <4>1. Left(Top) = 4
        BY <2>1, <3>2, <3>3
      <4> QED BY <2>3, <3>2, <4>1 DEF IInv, CallContext
    <3> QED BY <3>1, <3>2, <3>3
  <2> DEFINE inside == {k \in DOMAIN frames :
                 /\ frames[k].todo # << >>
                 /\ Head(frames[k].todo) \in {"keyboard_push", "command"}}
  <2>4. ASSUME NEW j \in inside, NEW k \in inside
        PROVE  j = k
    <3>1. CASE frames[j].int = Syscall \/ frames[k].int = Syscall
      BY <2>2, <2>3, <3>1
    <3>2. CASE frames[j].int # Syscall /\ frames[k].int # Syscall
      <4>1. frames[j].int = KeyboardInt /\ Left(frames[j]) = 7
        BY <2>1, <3>2
      <4>2. frames[k].int = KeyboardInt /\ Left(frames[k]) = 7
        BY <2>1, <3>2
      <4>3. OwesMaster(frames[j]) /\ OwesMaster(frames[k]) /\ LineOf(frames[j]) = LineOf(frames[k])
        BY <3>2, <4>1, <4>2 DEF OwesMaster, LineOf
      <4>4. LineOf(frames[j]) \in Int
        BY <3>2, FrameFacts, FrameNumbers
      <4>5. ~(j < k) /\ ~(k < j)
        BY <4>3, <4>4 DEF IInv, Nested
      <4> QED BY <2>2, <4>5
    <3> QED BY <3>1, <3>2
  <2>5. Cardinality(inside) <= 1
    <3>1. CASE inside = {}
      BY <3>1, FS_EmptySet
    <3>2. CASE inside # {}
      <4>1. PICK k \in inside : TRUE
        BY <3>2
      <4> HIDE DEF inside
      <4>2. inside = {k}
        BY <2>4, <4>1
      <4> QED BY <4>2, FS_Singleton
    <3> QED BY <3>1, <3>2
  <2> QED BY <2>3, <2>5 DEF CallsExclusive
<1> QED BY <1>1, InterruptsInvariant, PTL
=============================================================================
