--------------------------- MODULE KeyboardProofs ---------------------------
(***************************************************************************)
(* Proofs about Keyboard, for every buffer size, number of processes and   *)
(* number of keys: the ring stays well formed and implements the queue,    *)
(* and keys are read in the order they were pressed (OrderInv, which has   *)
(* the controller's codes in front of the buffers).                        *)
(***************************************************************************)
EXTENDS Keyboard, TLAPS, SequenceTheorems

IInv == TypeOK /\ RingInv

\* The remainder of an index that is at most one round too large or small.
LEMMA Circular ==
    /\ \A n \in 0 .. Max - 1 : n % Max = n
    /\ \A n \in Max .. 2 * Max - 1 : n % Max = n - Max
    /\ \A n \in Int : n % Max \in 0 .. Max - 1
BY KeyboardConstants DEF Max

LEMMA InitInv == Init => IInv
<1> SUFFICES ASSUME Init PROVE IInv
  OBVIOUS
<1> USE KeyboardConstants DEF Max
<1>1. TypeOK
  BY DEF Init, TypeOK, Other
<1>2. RingInv
  <2> SUFFICES ASSUME NEW p \in Processes
               PROVE  tail[p] = IF head[p] + size[p] < Max THEN head[p] + size[p]
                                                 ELSE head[p] + size[p] - Max
    BY DEF RingInv
  <2>1. head[p] = 0 /\ tail[p] = 0 /\ size[p] = 0 /\ 0 + 0 < Max
    BY DEF Init
  <2> QED BY <2>1
<1> QED
  BY <1>1, <1>2 DEF IInv

\* The indices of one process's ring.
LEMMA RingTypes ==
    ASSUME TypeOK, RingInv, NEW p \in Processes
    PROVE  /\ head[p] \in 0 .. Max - 1 /\ tail[p] \in 0 .. Max - 1 /\ size[p] \in 0 .. Max
           /\ tail[p] = IF head[p] + size[p] < Max THEN head[p] + size[p]
                                                   ELSE head[p] + size[p] - Max
BY DEF TypeOK, RingInv

\* The index arithmetic of keyboard_push: one more element, tail one on.
LEMMA TailMoves ==
    ASSUME NEW h \in 0 .. Max - 1, NEW n \in 0 .. Max - 1, NEW t \in 0 .. Max - 1,
           t = IF h + n < Max THEN h + n ELSE h + n - Max
    PROVE  /\ keyboard_get_circular(t + 1) \in 0 .. Max - 1
           /\ keyboard_get_circular(t + 1) = IF h + (n + 1) < Max THEN h + (n + 1)
                                                                  ELSE h + (n + 1) - Max
<1>1. Max \in Nat \ {0}
  BY KeyboardConstants DEF Max
<1>2. CASE t + 1 < Max
  <2>1. (t + 1) % Max = t + 1
    BY <1>1, <1>2, Circular
  <2> QED BY <1>1, <1>2, <2>1 DEF keyboard_get_circular
<1>3. CASE t + 1 = Max
  <2>1. Max \in Max .. 2 * Max - 1
    BY <1>1
  <2>2. (t + 1) % Max = 0
    BY <1>1, <1>3, <2>1, Circular
  <2> QED BY <1>1, <1>3, <2>2 DEF keyboard_get_circular
<1> QED
  BY <1>1, <1>2, <1>3

\* The index arithmetic of keyboard_pop: one element less, head one on.
LEMMA HeadMoves ==
    ASSUME NEW h \in 0 .. Max - 1, NEW n \in 1 .. Max, NEW t \in 0 .. Max - 1,
           t = IF h + n < Max THEN h + n ELSE h + n - Max
    PROVE  /\ keyboard_get_circular(h + 1) \in 0 .. Max - 1
           /\ t = IF keyboard_get_circular(h + 1) + (n - 1) < Max
                  THEN keyboard_get_circular(h + 1) + (n - 1)
                  ELSE keyboard_get_circular(h + 1) + (n - 1) - Max
<1>1. Max \in Nat \ {0}
  BY KeyboardConstants DEF Max
<1>2. CASE h + 1 < Max
  <2>1. (h + 1) % Max = h + 1
    BY <1>1, <1>2, Circular
  <2> QED BY <1>1, <1>2, <2>1 DEF keyboard_get_circular
<1>3. CASE h + 1 = Max
  <2>1. Max \in Max .. 2 * Max - 1
    BY <1>1
  <2>2. (h + 1) % Max = 0
    BY <1>1, <1>3, <2>1, Circular
  <2> QED BY <1>1, <1>3, <2>2 DEF keyboard_get_circular
<1> QED
  BY <1>1, <1>2, <1>3

\* The part of TypeOK that push and pop can disturb.
RingType ==
    /\ head \in [Processes -> 0 .. Max - 1]
    /\ tail \in [Processes -> 0 .. Max - 1]
    /\ size \in [Processes -> 0 .. Max]
    /\ buffer \in [Processes -> [0 .. Max - 1 -> {Other} \cup Key]]

LEMMA PushInv ==
    ASSUME IInv, NEW k \in Key, keyboard_push(k)
    PROVE  RingType' /\ RingInv'
<1>1. CASE UNCHANGED ring
  BY <1>1 DEF ring, RingType, RingInv, IInv, TypeOK
<1>2. CASE size[front] # Max
  <2> DEFINE t == keyboard_get_circular(tail[front] + 1)
  <2>1. /\ front \in Processes /\ size[front] # Max
        /\ buffer' = [buffer EXCEPT ![front][tail[front]] = k]
        /\ tail' = [tail EXCEPT ![front] = t]
        /\ size' = [size EXCEPT ![front] = size[front] + 1]
        /\ head' = head
    BY <1>2 DEF keyboard_push, IInv, TypeOK
  <2>2. size[front] \in 0 .. Max - 1 /\ size[front] + 1 \in 0 .. Max
    <3>1. size[front] \in 0 .. Max /\ Max \in Nat
      BY <2>1, RingTypes, KeyboardConstants DEF IInv, Max
    <3> QED BY <2>1, <3>1
  <2>3. /\ t \in 0 .. Max - 1
        /\ t = IF head[front] + (size[front] + 1) < Max
               THEN head[front] + (size[front] + 1)
               ELSE head[front] + (size[front] + 1) - Max
    BY <2>1, <2>2, RingTypes, TailMoves DEF IInv
  <2> HIDE DEF t
  <2>4. RingType'
    BY <2>1, <2>2, <2>3 DEF RingType, IInv, TypeOK
  <2>5. RingInv'
    <3> SUFFICES ASSUME NEW p \in Processes
                 PROVE  tail'[p] = IF head'[p] + size'[p] < Max
                                   THEN head'[p] + size'[p]
                                   ELSE head'[p] + size'[p] - Max
      BY DEF RingInv
    <3>1. CASE p = front
      <4>1. tail'[p] = t /\ head'[p] = head[p] /\ size'[p] = size[p] + 1
        BY <2>1, <3>1 DEF IInv, TypeOK
      <4> QED BY <2>3, <3>1, <4>1
    <3>2. CASE p # front
      <4>1. tail'[p] = tail[p] /\ head'[p] = head[p] /\ size'[p] = size[p]
        BY <2>1, <3>2 DEF IInv, TypeOK
      <4> QED BY <4>1, RingTypes DEF IInv
    <3> QED BY <3>1, <3>2
  <2> QED BY <2>4, <2>5
<1> QED
  BY <1>1, <1>2 DEF keyboard_push

LEMMA PopInv ==
    ASSUME IInv, NEW q \in Processes, keyboard_pop(q)
    PROVE  RingType' /\ RingInv' /\ lastRead' \in [Processes -> {Other} \cup Key]
<1> DEFINE h == keyboard_get_circular(head[q] + 1)
<1>1. /\ size[q] # 0
      /\ lastRead' = [lastRead EXCEPT ![q] = buffer[q][head[q]]]
      /\ head' = [head EXCEPT ![q] = h]
      /\ size' = [size EXCEPT ![q] = size[q] - 1]
      /\ tail' = tail /\ buffer' = buffer
  BY DEF keyboard_pop
<1>2. size[q] \in 1 .. Max /\ size[q] - 1 \in 0 .. Max
  BY <1>1, RingTypes, KeyboardConstants DEF IInv, Max
<1>3. /\ h \in 0 .. Max - 1
      /\ tail[q] = IF h + (size[q] - 1) < Max THEN h + (size[q] - 1)
                                              ELSE h + (size[q] - 1) - Max
  BY <1>2, RingTypes, HeadMoves DEF IInv
<1> HIDE DEF h
<1>4. RingType'
  BY <1>1, <1>2, <1>3 DEF RingType, IInv, TypeOK
<1>5. RingInv'
  <2> SUFFICES ASSUME NEW p \in Processes
               PROVE  tail'[p] = IF head'[p] + size'[p] < Max
                                 THEN head'[p] + size'[p]
                                 ELSE head'[p] + size'[p] - Max
    BY DEF RingInv
  <2>1. CASE p = q
    <3>1. tail'[p] = tail[q] /\ head'[p] = h /\ size'[p] = size[q] - 1
      BY <1>1, <2>1 DEF IInv, TypeOK
    <3> QED BY <1>3, <3>1
  <2>2. CASE p # q
    <3>1. tail'[p] = tail[p] /\ head'[p] = head[p] /\ size'[p] = size[p]
      BY <1>1, <2>2 DEF IInv, TypeOK
    <3> QED BY <3>1, RingTypes DEF IInv
  <2> QED BY <2>1, <2>2
<1>6. lastRead' \in [Processes -> {Other} \cup Key]
  <2>1. head[q] \in 0 .. Max - 1
    BY RingTypes DEF IInv
  <2>2. buffer[q][head[q]] \in {Other} \cup Key
    BY <2>1 DEF IInv, TypeOK
  <2> QED BY <1>1, <2>2 DEF IInv, TypeOK
<1> QED
  BY <1>4, <1>5, <1>6

LEMMA NextInv == IInv /\ [Next]_vars => IInv'
<1> SUFFICES ASSUME IInv, [Next]_vars PROVE IInv'
  OBVIOUS
<1> USE KeyboardConstants
<1>1. CASE Press
  <2>1. UNCHANGED <<ring, front, lastRead>> /\ pressed' \in 0 .. Presses
    <3>1. pressed' = pressed + 1 /\ pressed < Presses
      BY <1>1 DEF Press
    <3> QED BY <1>1, <3>1 DEF Press, IInv, TypeOK
  <2>2. controller' \in Seq({Other} \cup Key) /\ Len(controller') <= ControllerMax
    <3>1. pressed' = pressed + 1 /\ pressed + 1 \in Key
      BY <1>1 DEF Press, Key, IInv, TypeOK
    <3>2. controller' = Append(controller, pressed + 1) /\ Len(controller) < ControllerMax
      BY <1>1, <3>1 DEF Press
    <3>3. /\ controller \in Seq({Other} \cup Key) /\ Len(controller) <= ControllerMax
          /\ pressed + 1 \in {Other} \cup Key
      BY <3>1 DEF IInv, TypeOK
    <3>4. /\ Append(controller, pressed + 1) \in Seq({Other} \cup Key)
          /\ Len(Append(controller, pressed + 1)) = Len(controller) + 1
      BY <3>3
    <3> HIDE DEF Key
    <3>5. Len(controller) + 1 <= ControllerMax
      <4>1. Len(controller) \in Nat
        BY <3>3
      <4>2. Len(controller) < ControllerMax
        BY <3>2
      <4> QED BY <4>1, <4>2, KeyboardConstants
    <3>6. /\ Append(controller, pressed + 1) \in Seq({Other} \cup Key)
          /\ Len(Append(controller, pressed + 1)) <= ControllerMax
      BY <3>4, <3>5
    <3> QED BY <3>2, <3>6, Zenon
  <2> QED BY <2>1, <2>2 DEF ring, IInv, TypeOK, RingInv
<1>2. CASE SendOther
  <2>1. controller' \in Seq({Other} \cup Key) /\ Len(controller') <= ControllerMax
    BY <1>2 DEF SendOther, IInv, TypeOK
  <2> QED BY <1>2, <2>1 DEF SendOther, ring, IInv, TypeOK, RingInv
<1>3. CASE ps2_keyboard_interrupt_handler
  <2>1. controller' \in Seq({Other} \cup Key) /\ Len(controller') <= ControllerMax
    <3>1. controller # << >> /\ controller \in Seq({Other} \cup Key)
          /\ Len(controller) <= ControllerMax
      BY <1>3 DEF ps2_keyboard_interrupt_handler, IInv, TypeOK
    <3>2. CASE controller' = Tail(controller)
      BY <3>1, <3>2
    <3>3. CASE Len(controller) > 1 /\ controller' = Tail(Tail(controller))
      <4>1. Tail(controller) \in Seq({Other} \cup Key) /\ Len(Tail(controller)) > 0
            /\ Len(Tail(controller)) <= ControllerMax
        BY <3>1, <3>3
      <4>2. /\ Tail(Tail(controller)) \in Seq({Other} \cup Key)
            /\ Len(Tail(Tail(controller))) <= ControllerMax
        <5> DEFINE r == Tail(controller)
        <5>0. r \in Seq({Other} \cup Key) /\ Len(r) > 0 /\ Len(r) <= ControllerMax
          BY <4>1
        <5> HIDE DEF r
        <5>1. r \in Seq({Other} \cup Key) /\ r # << >>
              /\ Len(r) <= ControllerMax /\ Len(r) \in Nat
          BY <5>0
        <5>2. Tail(r) \in Seq({Other} \cup Key) /\ Len(Tail(r)) = Len(r) - 1
          BY <5>1
        <5>3. Len(Tail(r)) <= ControllerMax
          BY <5>1, <5>2
        <5> QED BY <5>2, <5>3 DEF r
      <4> QED BY <3>3, <4>2, Zenon
    <3> QED BY <1>3, <3>2, <3>3 DEF ps2_keyboard_interrupt_handler
  <2>2. RingType' /\ RingInv'
    <3>1. CASE UNCHANGED ring
      BY <3>1 DEF ring, RingType, RingInv, IInv, TypeOK
    <3>2. CASE Head(controller) # Other /\ keyboard_push(Head(controller))
      <4>1. Head(controller) \in {Other} \cup Key
        BY <1>3 DEF ps2_keyboard_interrupt_handler, IInv, TypeOK
      <4> QED BY <3>2, <4>1, PushInv
    <3> QED BY <1>3, <3>1, <3>2 DEF ps2_keyboard_interrupt_handler
  <2> QED BY <1>3, <2>1, <2>2
          DEF ps2_keyboard_interrupt_handler, RingType, IInv, TypeOK
<1>4. ASSUME NEW p \in Processes, keyboard_pop(p)
      PROVE  IInv'
  BY <1>4, PopInv DEF keyboard_pop, RingType, IInv, TypeOK
<1>5. ASSUME NEW p \in Processes, process_switch(p)
      PROVE  IInv'
  BY <1>5 DEF process_switch, ring, IInv, TypeOK, RingInv
<1>6. CASE UNCHANGED vars
  BY <1>6 DEF vars, ring, IInv, TypeOK, RingInv
<1> QED
  BY <1>1, <1>2, <1>3, <1>4, <1>5, <1>6 DEF Next

\* The inductive invariant of the rings.
THEOREM InvHolds == Spec => []IInv
BY InitInv, NextInv, PTL DEF Spec

\* head, tail and size never leave the array or its capacity.
THEOREM TypeCorrect == Spec => []TypeOK
BY InvHolds, PTL DEF IInv

\* The keyboard buffer is a circular queue of size elements for any capacity
\* and any interleaving of interrupts, getkey calls and process switches.
THEOREM RingWellFormed == Spec => []RingInv
BY InvHolds, PTL DEF IInv

-----------------------------------------------------------------------------
(* The ring implements the queue.                                          *)

LEMMA MaxNat == Max \in Nat \ {0}
BY KeyboardConstants DEF Max

\* Element m of a ring that starts at h, with the wrap spelled out.
LEMMA PlaceOf ==
    ASSUME NEW h \in 0 .. Max - 1, NEW m \in 0 .. Max
    PROVE  /\ (h + m) % Max \in 0 .. Max - 1
           /\ (h + m) % Max = IF h + m < Max THEN h + m ELSE h + m - Max
BY KeyboardConstants DEF Max

\* No two of the first Max places coincide.
LEMMA PlacesDiffer ==
    ASSUME NEW h \in 0 .. Max - 1, NEW m \in 0 .. Max - 1, NEW l \in 0 .. Max - 1, m # l
    PROVE  (h + m) % Max # (h + l) % Max
<1>1. m \in 0 .. Max /\ l \in 0 .. Max
  BY MaxNat
<1>2. /\ (h + m) % Max = IF h + m < Max THEN h + m ELSE h + m - Max
      /\ (h + l) % Max = IF h + l < Max THEN h + l ELSE h + l - Max
  BY <1>1, PlaceOf
<1> QED
  BY <1>2, MaxNat

LEMMA AroundType ==
    ASSUME NEW S, NEW b \in [0 .. Max - 1 -> S], NEW h \in 0 .. Max - 1, NEW n \in 0 .. Max
    PROVE  /\ Around(b, h, n) \in Seq(S)
           /\ Len(Around(b, h, n)) = n
           /\ \A j \in 1 .. n : Around(b, h, n)[j] = b[(h + (j - 1)) % Max]
<1>1. ASSUME NEW j \in 1 .. n
      PROVE  (h + j - 1) % Max \in 0 .. Max - 1 /\ h + j - 1 = h + (j - 1)
  <2>1. h + j - 1 \in Int /\ h + j - 1 = h + (j - 1)
    BY MaxNat
  <2> QED BY <2>1, Circular
<1>2. \A j \in 1 .. n : b[(h + j - 1) % Max] \in S
  BY <1>1
<1>3. n \in Nat
  BY MaxNat
<1>4. Around(b, h, n) \in [1 .. n -> S]
  BY <1>2 DEF Around
<1>5. Around(b, h, n) \in Seq(S) /\ Len(Around(b, h, n)) = n
  BY <1>3, <1>4, SeqDef
<1> QED
  BY <1>1, <1>5 DEF Around

LEMMA AppendIs ==
    ASSUME NEW S, NEW n \in Nat, NEW u \in Seq(S), NEW v \in Seq(S), NEW k \in S,
           Len(u) = n + 1, Len(v) = n, u[n + 1] = k, \A j \in 1 .. n : u[j] = v[j]
    PROVE  u = Append(v, k)
<1>1. /\ Append(v, k) \in Seq(S) /\ Len(Append(v, k)) = n + 1
      /\ Append(v, k)[n + 1] = k
      /\ \A j \in 1 .. n : Append(v, k)[j] = v[j]
  OBVIOUS
<1>2. \A j \in 1 .. n + 1 : j \in 1 .. n \/ j = n + 1
  OBVIOUS
<1>3. \A j \in 1 .. n + 1 : u[j] = Append(v, k)[j]
  BY <1>1, <1>2
<1> QED
  BY <1>1, <1>3, SeqEqual

\* c is the array b, of elements of S, after k was put behind the n elements
\* from h on, and m their new number.
Pushed(S, b, h, n, k, c, m) ==
    /\ b \in [0 .. Max - 1 -> S] /\ h \in 0 .. Max - 1 /\ n \in 0 .. Max - 1 /\ k \in S
    /\ c = [b EXCEPT ![(h + n) % Max] = k]
    /\ m = n + 1

\* keyboard_push on the array: the sequence grows by the new element.
LEMMA PushAppends ==
    ASSUME NEW S, NEW b, NEW h, NEW n, NEW k, NEW c, NEW m, Pushed(S, b, h, n, k, c, m)
    PROVE  Around(c, h, m) = Append(Around(b, h, n), k)
<1> DEFINE t == (h + n) % Max
<1>0. /\ b \in [0 .. Max - 1 -> S] /\ h \in 0 .. Max - 1 /\ n \in 0 .. Max - 1 /\ k \in S
      /\ c = [b EXCEPT ![t] = k] /\ m = n + 1
  BY DEF Pushed
<1>1. m \in 0 .. Max /\ n \in 0 .. Max /\ n \in Nat /\ m - 1 = n /\ m \in 1 .. m
  BY <1>0, MaxNat
<1>2. t \in 0 .. Max - 1
  BY <1>0, <1>1, PlaceOf
<1>3. c \in [0 .. Max - 1 -> S]
  BY <1>0, <1>2
<1>4. ASSUME NEW j \in 1 .. n
      PROVE  (h + (j - 1)) % Max \in 0 .. Max - 1 /\ (h + (j - 1)) % Max # t
  <2>1. j - 1 \in 0 .. Max - 1 /\ j - 1 \in 0 .. Max /\ j - 1 # n
    BY <1>0, MaxNat
  <2> QED BY <1>0, <2>1, PlaceOf, PlacesDiffer
<1> HIDE DEF t
<1>5. c[t] = k /\ \A i \in 0 .. Max - 1 : i # t => c[i] = b[i]
  BY <1>0, <1>2
<1>6. /\ Around(c, h, m) \in Seq(S) /\ Len(Around(c, h, m)) = m
      /\ \A j \in 1 .. m : Around(c, h, m)[j] = c[(h + (j - 1)) % Max]
  <2>1. h \in 0 .. Max - 1 /\ m \in 0 .. Max
    BY <1>0, <1>1
  <2> QED BY <1>3, <2>1, AroundType
<1>7. /\ Around(b, h, n) \in Seq(S) /\ Len(Around(b, h, n)) = n
      /\ \A j \in 1 .. n : Around(b, h, n)[j] = b[(h + (j - 1)) % Max]
  <2>1. h \in 0 .. Max - 1 /\ n \in 0 .. Max /\ b \in [0 .. Max - 1 -> S]
    BY <1>0, <1>1
  <2> QED BY <2>1, AroundType
<1>8. \A j \in 1 .. n : Around(c, h, m)[j] = Around(b, h, n)[j]
  <2>1. \A j \in 1 .. n : j \in 1 .. m
    BY <1>0, <1>1
  <2> QED BY <1>4, <1>5, <1>6, <1>7, <2>1
<1>9. Around(c, h, m)[m] = k
  <2>1. Around(c, h, m)[m] = c[(h + n) % Max]
    BY <1>1, <1>6
  <2> QED BY <1>5, <2>1 DEF t
<1>10. k \in S /\ n \in Nat /\ m = n + 1
  BY <1>0, <1>1
<1> QED
  BY <1>6, <1>7, <1>8, <1>9, <1>10, AppendIs

\* keyboard_pop on the array: the sequence loses its first element.
LEMMA PopTails ==
    ASSUME NEW S, NEW b \in [0 .. Max - 1 -> S], NEW h \in 0 .. Max - 1, NEW n \in 1 .. Max
    PROVE  Around(b, keyboard_get_circular(h + 1), n - 1) = Tail(Around(b, h, n))
<1> DEFINE g == keyboard_get_circular(h + 1)
           u == Around(b, g, n - 1)
           v == Around(b, h, n)
<1>1. /\ g \in 0 .. Max - 1 /\ g = IF h + 1 < Max THEN h + 1 ELSE h + 1 - Max
      /\ n - 1 \in 0 .. Max /\ n \in 0 .. Max
  <2>1. 1 \in 0 .. Max
    BY MaxNat
  <2> QED BY <2>1, MaxNat, PlaceOf DEF keyboard_get_circular
<1> HIDE DEF g
<1>2. /\ u \in Seq(S) /\ Len(u) = n - 1
      /\ \A j \in 1 .. n - 1 : u[j] = b[(g + (j - 1)) % Max]
  <2>1. n - 1 \in 0 .. Max /\ g \in 0 .. Max - 1
    BY <1>1
  <2> DEFINE m == n - 1
  <2>2. m \in 0 .. Max
    BY <2>1
  <2> HIDE DEF m
  <2>3. /\ Around(b, g, m) \in Seq(S) /\ Len(Around(b, g, m)) = m
        /\ \A j \in 1 .. m : Around(b, g, m)[j] = b[(g + (j - 1)) % Max]
    BY <2>1, <2>2, AroundType
  <2> QED BY <2>3 DEF m
<1>3. /\ v \in Seq(S) /\ Len(v) = n
      /\ \A j \in 1 .. n : v[j] = b[(h + (j - 1)) % Max]
  <2>1. n \in 0 .. Max
    BY <1>1
  <2> QED BY <2>1, AroundType
<1> HIDE DEF u, v
<1>4. /\ Tail(v) \in Seq(S) /\ Len(Tail(v)) = n - 1
      /\ \A j \in 1 .. Len(Tail(v)) : Tail(v)[j] = v[j + 1]
  <2>1. v # << >>
    BY <1>3, EmptySeq
  <2> QED BY <1>3, <2>1, HeadTailProperties
<1>5. ASSUME NEW j \in 1 .. n - 1
      PROVE  u[j] = Tail(v)[j]
  <2>1. j + 1 \in 1 .. n /\ (j + 1) - 1 = j /\ j \in 0 .. Max /\ j - 1 \in 0 .. Max
    BY MaxNat
  <2>2. Tail(v)[j] = b[(h + j) % Max]
    BY <1>3, <1>4, <2>1
  <2>3. (h + j) % Max = IF h + j < Max THEN h + j ELSE h + j - Max
    BY <2>1, PlaceOf
  <2>4. (g + (j - 1)) % Max = IF g + (j - 1) < Max THEN g + (j - 1) ELSE g + (j - 1) - Max
    BY <1>1, <2>1, PlaceOf
  <2>5. (g + (j - 1)) % Max = (h + j) % Max
    BY <1>1, <2>1, <2>3, <2>4, MaxNat
  <2> QED BY <1>2, <2>2, <2>5
<1>6. u = Tail(v)
  BY <1>2, <1>4, <1>5, SeqEqual
<1> QED
  BY <1>6 DEF u, v, g

\* The queues the rings stand for.
queue == [p \in Processes |-> Contents(p)]

\* A ring that does not change holds what it held.
LEMMA SameContents ==
    ASSUME NEW p \in Processes, head'[p] = head[p], size'[p] = size[p], buffer'[p] = buffer[p]
    PROVE  Contents(p)' = Contents(p)
BY DEF Contents, Around

LEMMA ContentsLen ==
    ASSUME TypeOK, NEW p \in Processes
    PROVE  /\ Contents(p) \in Seq({Other} \cup Key)
           /\ Len(Contents(p)) = size[p]
<1> DEFINE S == {Other} \cup Key
           b == buffer[p]
           h == head[p]
           n == size[p]
<1>1. b \in [0 .. Max - 1 -> S] /\ h \in 0 .. Max - 1 /\ n \in 0 .. Max
  BY DEF TypeOK
<1>2. Contents(p) = Around(b, h, n)
  BY DEF Contents
<1> HIDE DEF S, b, h, n
<1>3. Around(b, h, n) \in Seq(S) /\ Len(Around(b, h, n)) = n
  BY <1>1, AroundType
<1> QED
  BY <1>2, <1>3 DEF S, n

LEMMA PushRefines ==
    ASSUME IInv, NEW k \in Key, keyboard_push(k), NEW q \in Processes, q = front
    PROVE  Queues!Append1(q, k) \/ queue' = queue
<1>1. CASE UNCHANGED ring
  BY <1>1 DEF ring, queue, Contents, Around
<1>2. CASE size[q] # Max
  <2> DEFINE S == {Other} \cup Key
  <2>1. /\ buffer' = [buffer EXCEPT ![q][tail[q]] = k]
        /\ size' = [size EXCEPT ![q] = size[q] + 1]
        /\ head' = head
    BY <1>2 DEF keyboard_push, IInv, TypeOK
  <2>2. /\ head[q] \in 0 .. Max - 1 /\ size[q] \in 0 .. Max /\ size[q] \in 0 .. Max - 1
        /\ buffer[q] \in [0 .. Max - 1 -> S] /\ k \in S
    <3>1. /\ head[q] \in 0 .. Max - 1 /\ size[q] \in 0 .. Max
          /\ buffer[q] \in [0 .. Max - 1 -> S]
      BY DEF IInv, TypeOK
    <3> QED BY <1>2, <3>1, MaxNat
  <2> HIDE DEF S
  <2>3. tail[q] = (head[q] + size[q]) % Max
    BY <2>2, RingTypes, PlaceOf DEF IInv
  <2>4. Contents(q)' = Append(Contents(q), k)
    <3>1. /\ buffer'[q] = [buffer[q] EXCEPT ![tail[q]] = k]
          /\ head'[q] = head[q]
          /\ size'[q] = size[q] + 1
      BY <2>1 DEF IInv, TypeOK
    <3> DEFINE b == buffer[q]
               h == head[q]
               n == size[q]
               c == [b EXCEPT ![(h + n) % Max] = k]
               m == n + 1
    <3>2. Contents(q) = Around(b, h, n) /\ Contents(q)' = Around(c, h, m)
      BY <2>3, <3>1 DEF Contents, Around
    <3>3. Pushed(S, b, h, n, k, c, m)
      BY <2>2 DEF Pushed
    <3> HIDE DEF b, h, n, c, m
    <3>4. Around(c, h, m) = Append(Around(b, h, n), k)
      BY <3>3, PushAppends
    <3> QED BY <3>2, <3>4
  <2>5. \A p \in Processes : p # q => Contents(p)' = Contents(p)
    <3> SUFFICES ASSUME NEW p \in Processes, p # q PROVE Contents(p)' = Contents(p)
      OBVIOUS
    <3>1. head'[p] = head[p] /\ size'[p] = size[p] /\ buffer'[p] = buffer[p]
      BY <2>1 DEF IInv, TypeOK
    <3> QED BY <3>1, SameContents
  <2>6. queue' = [queue EXCEPT ![q] = Append(queue[q], k)]
    BY <2>4, <2>5 DEF queue
  <2>7. Len(queue[q]) < Max
    <3>1. Len(Contents(q)) = size[q] /\ queue[q] = Contents(q)
      BY ContentsLen DEF IInv, queue
    <3> QED BY <2>2, <3>1, MaxNat
  <2> QED BY <2>6, <2>7 DEF queue, Queues!Append1
<1> QED
  BY <1>1, <1>2 DEF keyboard_push

LEMMA PopRefines ==
    ASSUME IInv, NEW q \in Processes, keyboard_pop(q)
    PROVE  Queues!Remove1(q)
<1>1. /\ size[q] # 0
      /\ head' = [head EXCEPT ![q] = keyboard_get_circular(head[q] + 1)]
      /\ size' = [size EXCEPT ![q] = size[q] - 1]
      /\ buffer' = buffer
  BY DEF keyboard_pop
<1>2. /\ head[q] \in 0 .. Max - 1 /\ size[q] \in 1 .. Max
      /\ buffer[q] \in [0 .. Max - 1 -> {Other} \cup Key]
  <2>1. /\ head[q] \in 0 .. Max - 1 /\ size[q] \in 0 .. Max
        /\ buffer[q] \in [0 .. Max - 1 -> {Other} \cup Key]
    BY DEF IInv, TypeOK
  <2> QED BY <1>1, <2>1, MaxNat
<1>3. Contents(q)' = Tail(Contents(q))
  <2>1. /\ buffer'[q] = buffer[q]
        /\ head'[q] = keyboard_get_circular(head[q] + 1)
        /\ size'[q] = size[q] - 1
    BY <1>1 DEF IInv, TypeOK
  <2>2. Contents(q)' = Around(buffer'[q], head'[q], size'[q])
    BY DEF Contents, Around
  <2>3. Around(buffer[q], keyboard_get_circular(head[q] + 1), size[q] - 1) =
        Tail(Around(buffer[q], head[q], size[q]))
    BY <1>2, PopTails
  <2> QED BY <2>1, <2>2, <2>3 DEF Contents
<1>4. \A p \in Processes : p # q => Contents(p)' = Contents(p)
  <2> SUFFICES ASSUME NEW p \in Processes, p # q PROVE Contents(p)' = Contents(p)
    OBVIOUS
  <2>1. head'[p] = head[p] /\ size'[p] = size[p] /\ buffer'[p] = buffer[p]
    BY <1>1 DEF IInv, TypeOK
  <2> QED BY <2>1, SameContents
<1>5. queue' = [queue EXCEPT ![q] = Tail(queue[q])]
  BY <1>3, <1>4 DEF queue
<1>6. Len(queue[q]) > 0
  <2>1. Len(Contents(q)) = size[q] /\ queue[q] = Contents(q)
    BY ContentsLen DEF IInv, queue
  <2> QED BY <1>2, <2>1, MaxNat
<1> QED
  BY <1>5, <1>6 DEF queue, Queues!Remove1

\* Every interrupt and every getkey call is a step of a bounded FIFO queue
\* per process, or no step at all: no key is overtaken, repeated, put into
\* another process's queue or overwritten, for any capacity.
THEOREM ImplementsQueues == Spec => QueuesSpec
<1>1. Init => Queues!Init
  <2> SUFFICES ASSUME Init PROVE queue = [p \in Processes |-> << >>]
    BY DEF Queues!Init, queue
  <2>1. TypeOK
    BY InitInv DEF IInv
  <2>2. ASSUME NEW p \in Processes PROVE Contents(p) = << >>
    <3>1. size[p] = 0
      BY DEF Init
    <3> QED BY <2>1, <3>1, ContentsLen, EmptySeq
  <2> QED BY <2>2 DEF queue
<1>2. IInv /\ [Next]_vars => [Queues!Next]_queue
  <2> SUFFICES ASSUME IInv, [Next]_vars PROVE Queues!Next \/ queue' = queue
    OBVIOUS
  <2>1. ASSUME UNCHANGED ring PROVE queue' = queue
    BY <2>1 DEF ring, queue, Contents, Around
  <2>2. CASE ps2_keyboard_interrupt_handler
    <3>1. CASE UNCHANGED ring
      BY <2>1, <3>1
    <3>2. CASE Head(controller) # Other /\ keyboard_push(Head(controller))
      <4>1. Head(controller) \in Key /\ front \in Processes
        BY <2>2, <3>2 DEF ps2_keyboard_interrupt_handler, IInv, TypeOK
      <4> QED BY <3>2, <4>1, PushRefines DEF Queues!Next
    <3> QED BY <2>2, <3>1, <3>2 DEF ps2_keyboard_interrupt_handler
  <2>3. ASSUME NEW p \in Processes, keyboard_pop(p) PROVE Queues!Next
    BY <2>3, PopRefines DEF Queues!Next
  <2>4. CASE Press \/ SendOther
    BY <2>1, <2>4 DEF Press, SendOther
  <2>5. ASSUME NEW p \in Processes, process_switch(p) PROVE queue' = queue
    BY <2>1, <2>5 DEF process_switch
  <2>6. CASE UNCHANGED vars
    BY <2>1, <2>6 DEF vars, ring
  <2> QED BY <2>2, <2>3, <2>4, <2>5, <2>6 DEF Next
<1>3. [Queues!Next]_queue => [Queues!Next]_([p \in Processes |-> Contents(p)])
  BY DEF queue
<1> QED
  BY <1>1, <1>2, <1>3, InvHolds, PTL DEF Spec, QueuesSpec, Queues!Spec

-----------------------------------------------------------------------------
(* The order of the keys: l was read, c is in the ring, d in the           *)
(* controller, and each is behind the one before it.                       *)

Ahead(l, c, d) ==
    /\ \A i \in 1 .. Len(c) : l < c[i]
    /\ \A i, j \in 1 .. Len(c) : i < j => c[i] < c[j]
    /\ \A j \in 1 .. Len(d) : d[j] # Other => l < d[j] /\ \A i \in 1 .. Len(c) : c[i] < d[j]
    /\ \A i, j \in 1 .. Len(d) : i < j /\ d[j] # Other => d[i] < d[j]

LEMMA TailIs ==
    ASSUME NEW S, NEW s \in Seq(S), s # << >>
    PROVE  /\ Len(s) \in Nat /\ Len(s) >= 1 /\ Head(s) = s[1] /\ Head(s) \in S
           /\ Tail(s) \in Seq(S) /\ Len(Tail(s)) = Len(s) - 1
           /\ \A j \in 1 .. Len(s) - 1 : Tail(s)[j] = s[j + 1] /\ j + 1 \in 1 .. Len(s)
OBVIOUS

LEMMA AppendedIs ==
    ASSUME NEW S, NEW s \in Seq(S), NEW e \in S
    PROVE  /\ Len(s) \in Nat /\ Append(s, e) \in Seq(S) /\ Len(Append(s, e)) = Len(s) + 1
           /\ Append(s, e)[Len(s) + 1] = e
           /\ \A j \in 1 .. Len(s) : Append(s, e)[j] = s[j]
           /\ \A j \in 1 .. Len(s) + 1 : j \in 1 .. Len(s) \/ j = Len(s) + 1
OBVIOUS

\* A code leaves the controller; it is dropped, or goes into the ring.
LEMMA AheadDrop ==
    ASSUME NEW l \in Nat, NEW c \in Seq(Nat), NEW d \in Seq(Nat), d # << >>, Ahead(l, c, d)
    PROVE  Ahead(l, c, Tail(d))
<1>1. /\ Len(Tail(d)) = Len(d) - 1
      /\ \A j \in 1 .. Len(d) - 1 : Tail(d)[j] = d[j + 1] /\ j + 1 \in 1 .. Len(d)
  BY TailIs
<1>2. \A i, j \in 1 .. Len(d) - 1 : i < j => i + 1 < j + 1
  OBVIOUS
<1>3. ASSUME NEW j \in 1 .. Len(d) - 1, Tail(d)[j] # Other
      PROVE  l < Tail(d)[j] /\ \A i \in 1 .. Len(c) : c[i] < Tail(d)[j]
  BY <1>1, <1>3 DEF Ahead
<1>4. ASSUME NEW i \in 1 .. Len(d) - 1, NEW j \in 1 .. Len(d) - 1, i < j, Tail(d)[j] # Other
      PROVE  Tail(d)[i] < Tail(d)[j]
  BY <1>1, <1>2, <1>4 DEF Ahead
<1> QED BY <1>1, <1>3, <1>4 DEF Ahead

LEMMA AheadPush ==
    ASSUME NEW l \in Nat, NEW c \in Seq(Nat), NEW d \in Seq(Nat), d # << >>, Ahead(l, c, d),
           Head(d) # Other
    PROVE  Ahead(l, Append(c, Head(d)), Tail(d))
<1> DEFINE e == Append(c, Head(d))
<1>1. /\ Len(d) \in Nat /\ Len(d) >= 1 /\ Head(d) = d[1] /\ Head(d) \in Nat
      /\ Len(Tail(d)) = Len(d) - 1
      /\ \A j \in 1 .. Len(d) - 1 : Tail(d)[j] = d[j + 1] /\ j + 1 \in 1 .. Len(d)
  BY TailIs
<1>2. /\ Len(c) \in Nat /\ Len(e) = Len(c) + 1 /\ e[Len(c) + 1] = Head(d)
      /\ \A j \in 1 .. Len(c) : e[j] = c[j]
      /\ \A j \in 1 .. Len(c) + 1 : j \in 1 .. Len(c) \/ j = Len(c) + 1
  BY <1>1, AppendedIs
<1> HIDE DEF e
<1>3. 1 \in 1 .. Len(d) /\ \A i \in 1 .. Len(c) : c[i] < d[1]
  BY <1>1 DEF Ahead
<1>4. ASSUME NEW i \in 1 .. Len(c) + 1
      PROVE  l < e[i]
  BY <1>1, <1>2, <1>3 DEF Ahead
<1>5. ASSUME NEW i \in 1 .. Len(c) + 1, NEW j \in 1 .. Len(c) + 1, i < j
      PROVE  e[i] < e[j]
  <2>1. i \in 1 .. Len(c)
    BY <1>2, <1>5
  <2>2. CASE j \in 1 .. Len(c)
    BY <1>2, <1>5, <2>1, <2>2 DEF Ahead
  <2>3. CASE j = Len(c) + 1
    BY <1>1, <1>2, <1>3, <2>1, <2>3
  <2> QED BY <1>2, <2>2, <2>3
<1>6. ASSUME NEW j \in 1 .. Len(d) - 1, Tail(d)[j] # Other
      PROVE  l < Tail(d)[j] /\ \A i \in 1 .. Len(c) + 1 : e[i] < Tail(d)[j]
  <2>1. Tail(d)[j] = d[j + 1] /\ j + 1 \in 1 .. Len(d) /\ 1 < j + 1
    BY <1>1
  <2>2. l < d[j + 1] /\ d[1] < d[j + 1] /\ \A i \in 1 .. Len(c) : c[i] < d[j + 1]
    BY <1>3, <1>6, <2>1 DEF Ahead
  <2> QED BY <1>1, <1>2, <2>1, <2>2
<1>7. Ahead(l, c, Tail(d))
  BY AheadDrop
<1>8. Ahead(l, e, Tail(d))
  BY <1>1, <1>2, <1>4, <1>5, <1>6, <1>7 DEF Ahead
<1> QED BY <1>8 DEF e

\* A program reads the oldest key of its ring.
LEMMA AheadPop ==
    ASSUME NEW l \in Nat, NEW c \in Seq(Nat), NEW d \in Seq(Nat), c # << >>, Ahead(l, c, d)
    PROVE  Ahead(Head(c), Tail(c), d)
<1>1. /\ Len(c) \in Nat /\ Len(c) >= 1 /\ Head(c) = c[1]
      /\ Len(Tail(c)) = Len(c) - 1
      /\ \A j \in 1 .. Len(c) - 1 : Tail(c)[j] = c[j + 1] /\ j + 1 \in 1 .. Len(c)
  BY TailIs
<1>2. 1 \in 1 .. Len(c) /\ \A j \in 1 .. Len(c) - 1 : 1 < j + 1
  BY <1>1
<1>3. \A i, j \in 1 .. Len(c) - 1 : i < j => i + 1 < j + 1
  OBVIOUS
<1>4. ASSUME NEW i \in 1 .. Len(c) - 1
      PROVE  c[1] < Tail(c)[i]
  BY <1>1, <1>2 DEF Ahead
<1>5. ASSUME NEW i \in 1 .. Len(c) - 1, NEW j \in 1 .. Len(c) - 1, i < j
      PROVE  Tail(c)[i] < Tail(c)[j]
  BY <1>1, <1>3, <1>5 DEF Ahead
<1>6. ASSUME NEW j \in 1 .. Len(d), d[j] # Other
      PROVE  c[1] < d[j] /\ \A i \in 1 .. Len(c) - 1 : Tail(c)[i] < d[j]
  BY <1>1, <1>2, <1>6 DEF Ahead
<1> QED BY <1>1, <1>4, <1>5, <1>6 DEF Ahead

\* A code comes to the controller: none that is a character, or a later key.
LEMMA AheadSend ==
    ASSUME NEW l \in Nat, NEW c \in Seq(Nat), NEW d \in Seq(Nat), Ahead(l, c, d), NEW e \in Nat,
           e # Other => /\ l < e
                        /\ \A i \in 1 .. Len(c) : c[i] < e
                        /\ \A j \in 1 .. Len(d) : d[j] < e
    PROVE  Ahead(l, c, Append(d, e))
<1> DEFINE f == Append(d, e)
<1>1. /\ Len(d) \in Nat /\ Len(f) = Len(d) + 1 /\ f[Len(d) + 1] = e
      /\ \A j \in 1 .. Len(d) : f[j] = d[j]
      /\ \A j \in 1 .. Len(d) + 1 : j \in 1 .. Len(d) \/ j = Len(d) + 1
  BY AppendedIs
<1> HIDE DEF f
<1>2. ASSUME NEW j \in 1 .. Len(d) + 1, f[j] # Other
      PROVE  l < f[j] /\ \A i \in 1 .. Len(c) : c[i] < f[j]
  BY <1>1, <1>2 DEF Ahead
<1>3. ASSUME NEW i \in 1 .. Len(d) + 1, NEW j \in 1 .. Len(d) + 1, i < j, f[j] # Other
      PROVE  f[i] < f[j]
  <2>1. i \in 1 .. Len(d)
    BY <1>1, <1>3
  <2>2. CASE j \in 1 .. Len(d)
    BY <1>1, <1>3, <2>1, <2>2 DEF Ahead
  <2>3. CASE j = Len(d) + 1
    BY <1>1, <1>3, <2>1, <2>3
  <2> QED BY <1>1, <2>2, <2>3
<1>4. Ahead(l, c, f)
  BY <1>1, <1>2, <1>3 DEF Ahead
<1> QED BY <1>4 DEF f

\* Ahead orders the pipeline.
LEMMA AheadIsOrder ==
    ASSUME NEW l \in Nat, NEW c \in Seq(Nat), NEW d \in Seq(Nat), Ahead(l, c, d),
           NEW s, s = <<l>> \o c \o d, NEW i \in 1 .. Len(s), NEW j \in 1 .. Len(s),
           i < j, s[j] # Other
    PROVE  s[i] < s[j]
<1> DEFINE t == <<l>> \o c
           m == Len(c)
<1>1. m \in Nat /\ Len(d) \in Nat
  OBVIOUS
<1>2. /\ t \in Seq(Nat) /\ Len(t) = 1 + m
      /\ t[1] = l /\ \A n \in 1 .. m : t[n + 1] = c[n]
  OBVIOUS
<1>3. /\ s = t \o d /\ Len(s) = Len(t) + Len(d)
      /\ \A n \in 1 .. Len(t) : s[n] = t[n]
      /\ \A n \in 1 .. Len(d) : s[Len(t) + n] = d[n]
  <2> HIDE DEF t
  <2> QED BY <1>2 DEF t
<1> HIDE DEF t, m
<1>4. ASSUME NEW n \in 1 .. Len(s)
      PROVE  \/ n = 1 /\ s[n] = l
             \/ n - 1 \in 1 .. m /\ s[n] = c[n - 1]
             \/ n - 1 - m \in 1 .. Len(d) /\ s[n] = d[n - 1 - m]
  <2>1. CASE n = 1
    BY <1>1, <1>2, <1>3, <2>1
  <2>2. CASE n - 1 \in 1 .. m
    <3>1. n - 1 + 1 = n /\ n \in 1 .. Len(t)
      BY <1>1, <1>2, <2>2
    <3> QED BY <1>2, <1>3, <2>2, <3>1
  <2>3. CASE n - 1 - m \in 1 .. Len(d)
    <3>1. Len(t) + (n - 1 - m) = n
      BY <1>1, <1>2
    <3> QED BY <1>3, <2>3, <3>1
  <2> QED BY <1>1, <1>2, <1>3, <2>1, <2>2, <2>3
<1>5. \A n \in 1 .. m : l < c[n]
  BY DEF Ahead, m
<1>6. \A n, o \in 1 .. m : n < o => c[n] < c[o]
  BY DEF Ahead, m
<1>7. \A n \in 1 .. Len(d) : d[n] # Other => l < d[n] /\ \A o \in 1 .. m : c[o] < d[n]
  BY DEF Ahead, m
<1>8. \A n, o \in 1 .. Len(d) : n < o /\ d[o] # Other => d[n] < d[o]
  BY DEF Ahead
<1>9. CASE i = 1 /\ s[i] = l
  <2>1. j # 1
    BY <1>9
  <2> QED BY <1>4, <1>5, <1>7, <1>9, <2>1
<1>10. CASE i - 1 \in 1 .. m /\ s[i] = c[i - 1]
  <2>1. j # 1 /\ i - 1 < j - 1
    OBVIOUS
  <2> QED BY <1>4, <1>6, <1>7, <1>10, <2>1
<1>11. CASE i - 1 - m \in 1 .. Len(d) /\ s[i] = d[i - 1 - m]
  <2>1. j # 1 /\ ~(j - 1 \in 1 .. m) /\ i - 1 - m < j - 1 - m
    BY <1>1, <1>11
  <2> QED BY <1>4, <1>8, <1>11, <2>1
<1> QED BY <1>4, <1>9, <1>10, <1>11

\* The invariant of KeysInOrder: the three stages of every process in order,
\* nothing behind the key pressed last, and no key in two rings.
Ordered ==
    \A p \in Processes : Ahead(lastRead[p], Contents(p), controller)

Pressed ==
    /\ \A j \in 1 .. Len(controller) : controller[j] <= pressed
    /\ \A p \in Processes : lastRead[p] <= pressed
    /\ \A p \in Processes : \A i \in 1 .. Len(Contents(p)) : Contents(p)[i] <= pressed

Apart ==
    \A p, q \in Processes : p # q =>
        \A i \in 1 .. Len(Contents(p)), j \in 1 .. Len(Contents(q)) :
            Contents(p)[i] # Contents(q)[j]

OrderInv == Ordered /\ Pressed /\ Apart

LEMMA OrderTypes ==
    ASSUME TypeOK
    PROVE  /\ controller \in Seq(Nat) /\ pressed \in Nat
           /\ \A p \in Processes : lastRead[p] \in Nat /\ Contents(p) \in Seq(Nat)
<1>1. {Other} \cup Key \subseteq Nat
  BY DEF Other, Key
<1>2. ASSUME NEW S \in SUBSET Nat, NEW s \in Seq(S)
      PROVE  s \in Seq(Nat)
  BY SeqMonotonic, Zenon
<1>3. controller \in Seq({Other} \cup Key) /\ pressed \in Nat
  BY KeyboardConstants DEF TypeOK
<1>4. \A p \in Processes : lastRead[p] \in {Other} \cup Key /\ Contents(p) \in Seq({Other} \cup Key)
  BY ContentsLen DEF TypeOK
<1> HIDE DEF Key
<1> QED BY <1>1, <1>2, <1>3, <1>4

LEMMA OrderInit == Init => OrderInv
<1> SUFFICES ASSUME Init PROVE OrderInv
  OBVIOUS
<1>1. TypeOK
  BY InitInv DEF IInv
<1>2. ASSUME NEW p \in Processes
      PROVE  Len(Contents(p)) = 0 /\ lastRead[p] = 0
  BY <1>1, ContentsLen DEF Init
<1>3. Len(controller) = 0 /\ pressed = 0
  BY DEF Init
<1>4. 1 .. 0 = {} /\ 0 <= 0
  OBVIOUS
<1> QED BY <1>2, <1>3, <1>4 DEF OrderInv, Ordered, Pressed, Apart, Ahead

\* Nothing but the controller changes.
LEMMA SendOrder ==
    ASSUME IInv, OrderInv, Press \/ SendOther
    PROVE  OrderInv'
<1>1. \A p \in Processes : Contents(p)' = Contents(p) /\ lastRead'[p] = lastRead[p]
  BY DEF Press, SendOther, ring, Contents, Around
<1>2. /\ controller \in Seq(Nat) /\ pressed \in Nat
      /\ \A p \in Processes : lastRead[p] \in Nat /\ Contents(p) \in Seq(Nat)
  BY OrderTypes DEF IInv
<1>3. PICK e \in Nat : /\ controller' = Append(controller, e)
                       /\ e # Other => e = pressed + 1
                       /\ e <= pressed' /\ pressed' \in Nat /\ pressed <= pressed'
  <2>1. CASE Press
    <3>1. pressed' = pressed + 1 /\ controller' = Append(controller, pressed')
      BY <2>1 DEF Press
    <3>2. pressed' \in Nat /\ pressed' <= pressed' /\ pressed <= pressed'
      BY <1>2, <3>1
    <3> QED BY <3>1, <3>2
  <2>2. CASE SendOther
    <3>1. pressed' = pressed /\ controller' = Append(controller, Other) /\ Other = 0
      BY <2>2 DEF SendOther, Other
    <3> QED BY <1>2, <3>1
  <2> QED BY <2>1, <2>2
<1>4. /\ Len(controller) \in Nat /\ Len(controller') = Len(controller) + 1
      /\ controller'[Len(controller) + 1] = e
      /\ \A j \in 1 .. Len(controller) : controller'[j] = controller[j]
      /\ \A j \in 1 .. Len(controller) + 1 : j \in 1 .. Len(controller) \/ j = Len(controller) + 1
  BY <1>2, <1>3, AppendedIs
<1>5. Ordered'
  <2>1. ASSUME NEW p \in Processes
        PROVE  Ahead(lastRead[p], Contents(p), Append(controller, e))
    <3> DEFINE l == lastRead[p]
               c == Contents(p)
    <3>1. l \in Nat /\ c \in Seq(Nat) /\ Ahead(l, c, controller)
      BY <1>2 DEF OrderInv, Ordered
    <3>2. l <= pressed /\ \A i \in 1 .. Len(c) : c[i] <= pressed /\ c[i] \in Nat
      BY <3>1 DEF OrderInv, Pressed
    <3>3. \A j \in 1 .. Len(controller) : controller[j] <= pressed /\ controller[j] \in Nat
      BY <1>2 DEF OrderInv, Pressed
    <3> HIDE DEF l, c
    <3>4. e # Other => /\ l < e
                       /\ \A i \in 1 .. Len(c) : c[i] < e
                       /\ \A j \in 1 .. Len(controller) : controller[j] < e
      BY <1>2, <1>3, <3>1, <3>2, <3>3
    <3>5. Ahead(l, c, Append(controller, e))
      BY <1>2, <3>1, <3>4, AheadSend
    <3> QED BY <3>5 DEF l, c
  <2> QED BY <1>1, <1>3, <2>1 DEF Ordered
<1>6. Pressed'
  <2>1. \A j \in 1 .. Len(controller') : controller'[j] <= pressed'
    <3>1. \A j \in 1 .. Len(controller) : controller[j] <= pressed /\ controller[j] \in Nat
      BY <1>2 DEF OrderInv, Pressed
    <3> QED BY <1>2, <1>3, <1>4, <3>1
  <2>2. ASSUME NEW p \in Processes
        PROVE  lastRead[p] <= pressed' /\ \A i \in 1 .. Len(Contents(p)) : Contents(p)[i] <= pressed'
    <3>1. lastRead[p] <= pressed /\ \A i \in 1 .. Len(Contents(p)) :
             Contents(p)[i] <= pressed /\ Contents(p)[i] \in Nat
      BY <1>2 DEF OrderInv, Pressed
    <3> QED BY <1>2, <1>3, <3>1
  <2> QED BY <1>1, <2>1, <2>2 DEF Pressed
<1>7. Apart'
  BY <1>1 DEF OrderInv, Apart
<1> QED BY <1>5, <1>6, <1>7 DEF OrderInv

\* What is in a tail was in the sequence.
LEMMA TailsIn ==
    ASSUME NEW d \in Seq(Nat), d # << >>, NEW n \in Nat, \A j \in 1 .. Len(d) : d[j] <= n
    PROVE  /\ Tail(d) \in Seq(Nat) /\ \A j \in 1 .. Len(Tail(d)) : Tail(d)[j] <= n
BY TailIs

\* A key goes into the ring of the front process, or none: what the rings
\* are then, with the rest of the controller still in order behind them.
LEMMA PushOrder ==
    ASSUME IInv, OrderInv, ps2_keyboard_interrupt_handler,
           NEW d, d = Tail(controller)
    PROVE  /\ \A p \in Processes : Contents(p)' \in Seq(Nat) /\ Ahead(lastRead[p], Contents(p)', d)
           /\ \A p \in Processes : \A i \in 1 .. Len(Contents(p)') : Contents(p)'[i] <= pressed
           /\ Apart'
<1>1. /\ controller \in Seq(Nat) /\ pressed \in Nat /\ controller # << >>
      /\ \A p \in Processes : lastRead[p] \in Nat /\ Contents(p) \in Seq(Nat)
  BY OrderTypes DEF IInv, ps2_keyboard_interrupt_handler
<1>2. \A p \in Processes : queue[p] = Contents(p) /\ queue'[p] = Contents(p)'
  BY DEF queue
<1>3. \A p \in Processes : Ahead(lastRead[p], Contents(p), d)
  BY <1>1, AheadDrop DEF OrderInv, Ordered
<1>4. CASE queue' = queue
  <2>1. \A p \in Processes : Contents(p)' = Contents(p)
    BY <1>2, <1>4
  <2> QED BY <1>1, <1>3, <2>1 DEF OrderInv, Pressed, Apart
<1>5. CASE queue' # queue
  <2> DEFINE e == Head(controller)
  <2>0. PICK q \in Processes : q = front
    BY DEF IInv, TypeOK
  <2>1. e # Other /\ keyboard_push(e) /\ q \in Processes /\ e \in Key
    <3>1. ASSUME UNCHANGED ring PROVE FALSE
      BY <1>5, <3>1 DEF ring, queue, Contents, Around
    <3>2. e # Other /\ keyboard_push(e)
      BY <3>1 DEF ps2_keyboard_interrupt_handler
    <3>3. e \in {Other} \cup Key
      BY <1>1 DEF IInv, TypeOK
    <3> QED BY <3>2, <3>3 DEF IInv, TypeOK
  <2>2. Queues!Append1(q, e)
    BY <1>5, <2>0, <2>1, PushRefines
  <2>3. queue' = [queue EXCEPT ![q] = Append(queue[q], e)]
    BY <2>2 DEF Queues!Append1, queue
  <2>4. Contents(q)' = Append(Contents(q), e) /\ \A p \in Processes : p # q => Contents(p)' = Contents(p)
    <3>1. q \in DOMAIN queue /\ DOMAIN queue = Processes
      BY <2>1 DEF queue
    <3> HIDE DEF e
    <3>2. queue'[q] = Append(queue[q], e) /\ \A p \in Processes : p # q => queue'[p] = queue[p]
      BY <2>3, <3>1
    <3> QED BY <1>2, <2>1, <3>2
  <2>5. e \in Nat /\ e = controller[1] /\ 1 \in 1 .. Len(controller) /\ e <= pressed
    <3>1. e \in Nat /\ e = controller[1] /\ 1 \in 1 .. Len(controller)
      BY <1>1
    <3> QED BY <3>1 DEF OrderInv, Pressed
  <2>6. \A p \in Processes : \A i \in 1 .. Len(Contents(p)) : Contents(p)[i] < e
    BY <2>1, <2>5 DEF OrderInv, Ordered, Ahead
  <2>7. /\ Contents(q)' \in Seq(Nat) /\ Len(Contents(q)) \in Nat
        /\ Len(Contents(q)') = Len(Contents(q)) + 1
        /\ Contents(q)'[Len(Contents(q)) + 1] = e
        /\ \A j \in 1 .. Len(Contents(q)) : Contents(q)'[j] = Contents(q)[j]
        /\ \A j \in 1 .. Len(Contents(q)) + 1 :
              j \in 1 .. Len(Contents(q)) \/ j = Len(Contents(q)) + 1
    <3>1. Contents(q) \in Seq(Nat)
      BY <1>1, <2>1
    <3> HIDE DEF e
    <3> QED BY <2>4, <2>5, <3>1, AppendedIs
  <2>8. Ahead(lastRead[q], Contents(q)', d)
    <3>1. lastRead[q] \in Nat /\ Contents(q) \in Seq(Nat) /\ Ahead(lastRead[q], Contents(q), controller)
      BY <1>1, <2>1 DEF OrderInv, Ordered
    <3>2. Ahead(lastRead[q], Append(Contents(q), e), d)
      BY <1>1, <2>1, <3>1, AheadPush
    <3> QED BY <2>4, <3>2
  <2> HIDE DEF e
  <2>9. \A p \in Processes : Contents(p)' \in Seq(Nat) /\ Ahead(lastRead[p], Contents(p)', d)
    BY <1>1, <1>3, <2>4, <2>7, <2>8
  <2>10. \A p \in Processes : \A i \in 1 .. Len(Contents(p)') : Contents(p)'[i] <= pressed
    BY <2>4, <2>5, <2>7 DEF OrderInv, Pressed
  <2>11. Apart'
    <3>1. ASSUME NEW p \in Processes, p # q, NEW i \in 1 .. Len(Contents(p)),
                 NEW j \in 1 .. Len(Contents(q)) + 1
          PROVE  Contents(p)[i] # Contents(q)'[j]
      <4>1. CASE j \in 1 .. Len(Contents(q))
        BY <2>1, <2>7, <3>1, <4>1 DEF OrderInv, Apart
      <4>2. CASE j = Len(Contents(q)) + 1
        <5>1. Contents(p)[i] \in Nat /\ Contents(p)[i] < e
          BY <1>1, <2>6
        <5> QED BY <2>5, <2>7, <4>2, <5>1
      <4> QED BY <2>7, <4>1, <4>2
    <3>2. ASSUME NEW p \in Processes, NEW r \in Processes, p # r,
                 NEW i \in 1 .. Len(Contents(p)'), NEW j \in 1 .. Len(Contents(r)')
          PROVE  Contents(p)'[i] # Contents(r)'[j]
      <4>1. CASE p = q
        <5>1. Contents(r)' = Contents(r) /\ j \in 1 .. Len(Contents(r)) /\ i \in 1 .. Len(Contents(q)) + 1
          BY <2>4, <2>7, <3>2, <4>1
        <5> QED BY <3>1, <3>2, <4>1, <5>1
      <4>2. CASE r = q
        <5>1. Contents(p)' = Contents(p) /\ i \in 1 .. Len(Contents(p)) /\ j \in 1 .. Len(Contents(q)) + 1
          BY <2>4, <2>7, <3>2, <4>2
        <5> QED BY <3>1, <3>2, <4>2, <5>1
      <4>3. CASE p # q /\ r # q
        BY <2>4, <3>2, <4>3 DEF OrderInv, Apart
      <4> QED BY <4>1, <4>2, <4>3
    <3> QED BY <3>2 DEF Apart
  <2> QED BY <2>9, <2>10, <2>11
<1> QED BY <1>4, <1>5

\* The handler takes one code from the controller, and may lose the next.
LEMMA HandlerOrder ==
    ASSUME IInv, OrderInv, ps2_keyboard_interrupt_handler
    PROVE  OrderInv'
<1>1. PICK d : d = Tail(controller)
  OBVIOUS
<1>2. /\ controller \in Seq(Nat) /\ pressed \in Nat /\ controller # << >>
      /\ \A p \in Processes : lastRead[p] \in Nat
      /\ pressed' = pressed /\ lastRead' = lastRead
  BY OrderTypes DEF IInv, ps2_keyboard_interrupt_handler
<1>3. /\ \A p \in Processes : Contents(p)' \in Seq(Nat) /\ Ahead(lastRead[p], Contents(p)', d)
      /\ \A p \in Processes : \A i \in 1 .. Len(Contents(p)') : Contents(p)'[i] <= pressed
      /\ Apart'
  BY <1>1, PushOrder
<1>4. d \in Seq(Nat) /\ \A j \in 1 .. Len(d) : d[j] <= pressed
  BY <1>1, <1>2, TailsIn DEF OrderInv, Pressed
<1>5. CASE controller' = d
  BY <1>2, <1>3, <1>4, <1>5 DEF OrderInv, Ordered, Pressed
<1>6. CASE controller' = Tail(d) /\ d # << >>
  <2>1. Tail(d) \in Seq(Nat) /\ \A j \in 1 .. Len(Tail(d)) : Tail(d)[j] <= pressed
    BY <1>2, <1>4, <1>6, TailsIn
  <2>2. \A p \in Processes : Ahead(lastRead[p], Contents(p)', Tail(d))
    BY <1>2, <1>3, <1>4, <1>6, AheadDrop
  <2> QED BY <1>2, <1>3, <1>6, <2>1, <2>2 DEF OrderInv, Ordered, Pressed
<1>7. Len(controller) > 1 => Tail(controller) # << >>
  <2>1. Len(Tail(controller)) = Len(controller) - 1 /\ Len(controller) \in Nat
    BY <1>2, TailIs
  <2>2. Len(<< >>) = 0
    BY EmptySeq
  <2>3. \A m \in Nat : m > 1 => m - 1 # 0
    OBVIOUS
  <2> QED BY <2>1, <2>2, <2>3, Zenon
<1> QED BY <1>1, <1>5, <1>6, <1>7 DEF ps2_keyboard_interrupt_handler

\* The running program reads the oldest key of its ring.
LEMMA PopOrder ==
    ASSUME IInv, OrderInv, NEW q \in Processes, keyboard_pop(q)
    PROVE  OrderInv'
<1>1. /\ controller \in Seq(Nat) /\ pressed \in Nat
      /\ \A p \in Processes : lastRead[p] \in Nat /\ Contents(p) \in Seq(Nat)
      /\ pressed' = pressed /\ controller' = controller
  BY OrderTypes DEF IInv, keyboard_pop
<1>2. Contents(q)' = Tail(Contents(q)) /\ \A p \in Processes : p # q => Contents(p)' = Contents(p)
  <2>1. queue' = [queue EXCEPT ![q] = Tail(queue[q])]
    BY PopRefines DEF Queues!Remove1, queue
  <2>2. \A p \in Processes : queue[p] = Contents(p) /\ queue'[p] = Contents(p)'
    BY DEF queue
  <2>3. DOMAIN queue = Processes
    BY DEF queue
  <2>4. queue'[q] = Tail(queue[q]) /\ \A p \in Processes : p # q => queue'[p] = queue[p]
    BY <2>1, <2>3
  <2> QED BY <2>2, <2>4
<1>3. /\ lastRead'[q] = Head(Contents(q)) /\ Contents(q) # << >>
      /\ \A p \in Processes : p # q => lastRead'[p] = lastRead[p]
  <2>1. /\ lastRead' = [lastRead EXCEPT ![q] = buffer[q][head[q]]]
        /\ DOMAIN lastRead = Processes
    BY DEF keyboard_pop, IInv, TypeOK
  <2>2. head[q] \in 0 .. Max - 1 /\ size[q] \in 1 .. Max
    <3>1. head[q] \in 0 .. Max - 1 /\ size[q] \in 0 .. Max /\ size[q] # 0
      BY DEF IInv, TypeOK, keyboard_pop
    <3> QED BY <3>1, MaxNat
  <2>3. Len(Contents(q)) = size[q]
    BY ContentsLen DEF IInv
  <2>4. 1 \in 1 .. size[q] /\ head[q] + 1 - 1 = head[q] /\ head[q] % Max = head[q]
    <3>1. \A n \in 0 .. Max - 1 : n % Max = n
      BY Circular, Zenon
    <3>2. head[q] % Max = head[q]
      BY <2>2, <3>1
    <3>3. 1 \in 1 .. size[q] /\ head[q] + 1 - 1 = head[q]
      BY <2>2, MaxNat
    <3> QED BY <3>2, <3>3
  <2>5. Contents(q)[1] = buffer[q][head[q]]
    BY <2>4 DEF Contents, Around
  <2>6. Contents(q) # << >> /\ Head(Contents(q)) = Contents(q)[1]
    BY <1>1, <2>2, <2>3
  <2> QED BY <2>1, <2>5, <2>6
<1>4. /\ Len(Contents(q)) \in Nat /\ Len(Contents(q)') = Len(Contents(q)) - 1
      /\ \A j \in 1 .. Len(Contents(q)) - 1 :
            Contents(q)'[j] = Contents(q)[j + 1] /\ j + 1 \in 1 .. Len(Contents(q))
      /\ Head(Contents(q)) = Contents(q)[1] /\ 1 \in 1 .. Len(Contents(q))
  <2>1. PICK c : c = Contents(q)
    OBVIOUS
  <2>2. c \in Seq(Nat) /\ c # << >>
    BY <1>1, <1>3, <2>1
  <2>3. /\ Len(c) \in Nat /\ Len(Tail(c)) = Len(c) - 1
        /\ \A j \in 1 .. Len(c) - 1 : Tail(c)[j] = c[j + 1] /\ j + 1 \in 1 .. Len(c)
        /\ Head(c) = c[1] /\ 1 \in 1 .. Len(c)
    BY <2>2, TailIs
  <2> QED BY <1>2, <2>1, <2>3
<1>5. Ordered'
  <2>1. Ahead(Head(Contents(q)), Tail(Contents(q)), controller)
    <3>1. Ahead(lastRead[q], Contents(q), controller)
      BY DEF OrderInv, Ordered
    <3> QED BY <1>1, <1>3, <3>1, AheadPop
  <2>2. Ahead(lastRead'[q], Contents(q)', controller')
    BY <1>1, <1>2, <1>3, <2>1
  <2>3. ASSUME NEW p \in Processes, p # q
        PROVE  Ahead(lastRead'[p], Contents(p)', controller')
    BY <1>1, <1>2, <1>3, <2>3 DEF OrderInv, Ordered
  <2> QED BY <2>2, <2>3 DEF Ordered
<1>6. Pressed'
  <2>1. \A i \in 1 .. Len(Contents(q)) : Contents(q)[i] <= pressed
    BY DEF OrderInv, Pressed
  <2>2. lastRead'[q] <= pressed /\ \A i \in 1 .. Len(Contents(q)') : Contents(q)'[i] <= pressed
    BY <1>3, <1>4, <2>1
  <2> QED BY <1>1, <1>2, <1>3, <2>2 DEF OrderInv, Pressed
<1>7. Apart'
  <2>1. ASSUME NEW p \in Processes, p # q, NEW i \in 1 .. Len(Contents(p)),
               NEW j \in 1 .. Len(Contents(q)')
        PROVE  Contents(p)[i] # Contents(q)'[j]
    BY <1>4, <2>1 DEF OrderInv, Apart
  <2>2. ASSUME NEW p \in Processes, NEW r \in Processes, p # r,
               NEW i \in 1 .. Len(Contents(p)'), NEW j \in 1 .. Len(Contents(r)')
        PROVE  Contents(p)'[i] # Contents(r)'[j]
    <3>1. CASE p = q
      <4>1. Contents(r)' = Contents(r) /\ j \in 1 .. Len(Contents(r)) /\ i \in 1 .. Len(Contents(q)')
        BY <1>2, <2>2, <3>1
      <4> QED BY <2>1, <2>2, <3>1, <4>1
    <3>2. CASE r = q
      <4>1. Contents(p)' = Contents(p) /\ i \in 1 .. Len(Contents(p)) /\ j \in 1 .. Len(Contents(q)')
        BY <1>2, <2>2, <3>2
      <4> QED BY <2>1, <2>2, <3>2, <4>1
    <3>3. CASE p # q /\ r # q
      BY <1>2, <2>2, <3>3 DEF OrderInv, Apart
    <3> QED BY <3>1, <3>2, <3>3
  <2> QED BY <2>2 DEF Apart
<1> QED BY <1>5, <1>6, <1>7 DEF OrderInv

LEMMA OrderStep == IInv /\ OrderInv /\ [Next]_vars => OrderInv'
<1> SUFFICES ASSUME IInv, OrderInv, [Next]_vars PROVE OrderInv'
  OBVIOUS
<1>1. ASSUME UNCHANGED <<pressed, controller, ring, lastRead>> PROVE OrderInv'
  <2>1. /\ pressed' = pressed /\ controller' = controller /\ lastRead' = lastRead
        /\ \A p \in Processes : Contents(p)' = Contents(p)
    BY <1>1 DEF ring, Contents, Around
  <2> QED BY <2>1 DEF OrderInv, Ordered, Pressed, Apart
<1>2. CASE Press \/ SendOther
  BY <1>2, SendOrder
<1>3. CASE ps2_keyboard_interrupt_handler
  BY <1>3, HandlerOrder
<1>4. ASSUME NEW p \in Processes, keyboard_pop(p) PROVE OrderInv'
  BY <1>4, PopOrder
<1>5. ASSUME NEW p \in Processes, process_switch(p) PROVE OrderInv'
  BY <1>1, <1>5 DEF process_switch
<1>6. CASE UNCHANGED vars
  BY <1>1, <1>6 DEF vars, ring
<1> QED BY <1>2, <1>3, <1>4, <1>5, <1>6 DEF Next

LEMMA OrderIsKeysInOrder == IInv /\ OrderInv => KeysInOrder
<1> SUFFICES ASSUME IInv, OrderInv PROVE KeysInOrder
  OBVIOUS
<1>1. /\ controller \in Seq(Nat)
      /\ \A p \in Processes : /\ lastRead[p] \in Nat /\ Contents(p) \in Seq(Nat)
                              /\ Ahead(lastRead[p], Contents(p), controller)
                              /\ Len(Contents(p)) = size[p]
  BY OrderTypes, ContentsLen DEF IInv, OrderInv, Ordered
<1>2. ASSUME NEW p \in Processes, NEW i \in 1 .. Len(Pipeline(p)), NEW j \in 1 .. Len(Pipeline(p)),
             i < j, Pipeline(p)[j] # Other
      PROVE  Pipeline(p)[i] < Pipeline(p)[j]
  <2>1. PICK s : s = <<lastRead[p]>> \o Contents(p) \o controller
    OBVIOUS
  <2>2. i \in 1 .. Len(s) /\ j \in 1 .. Len(s) /\ s[j] # Other
    BY <1>2, <2>1 DEF Pipeline
  <2>3. s[i] < s[j]
    BY <1>1, <1>2, <2>1, <2>2, AheadIsOrder
  <2> QED BY <2>1, <2>3 DEF Pipeline
<1>3. ASSUME NEW p \in Processes, NEW i \in 1 .. size[p]
      PROVE  Contents(p)[i] # Other
  <2>1. lastRead[p] \in Nat /\ Contents(p)[i] \in Nat /\ lastRead[p] < Contents(p)[i]
    BY <1>1 DEF Ahead
  <2> QED BY <2>1 DEF Other
<1>4. ASSUME NEW p \in Processes, NEW q \in Processes, p # q,
             NEW i \in 1 .. size[p], NEW j \in 1 .. size[q]
      PROVE  Contents(p)[i] # Contents(q)[j]
  <2>1. i \in 1 .. Len(Contents(p)) /\ j \in 1 .. Len(Contents(q))
    BY <1>1
  <2>2. Apart
    BY DEF OrderInv
  <2> QED BY <1>4, <2>1, <2>2 DEF Apart
<1>5. \A p \in Processes : \A i, j \in 1 .. Len(Pipeline(p)) :
          i < j /\ Pipeline(p)[j] # Other => Pipeline(p)[i] < Pipeline(p)[j]
  BY <1>2
<1>6. \A p \in Processes : \A i \in 1 .. size[p] : Contents(p)[i] # Other
  BY <1>3
<1>7. \A p, q \in Processes : p # q =>
          \A i \in 1 .. size[p], j \in 1 .. size[q] : Contents(p)[i] # Contents(q)[j]
  BY <1>4
<1> QED BY <1>5, <1>6, <1>7 DEF KeysInOrder

\* Every program reads its keys in the order they were pressed, none twice,
\* and no key is read by two programs, although a full buffer, a switch of
\* the front process or the second read of the port may drop keys.
THEOREM KeysReadInOrder == Spec => []KeysInOrder
<1>1. Init => IInv /\ OrderInv
  BY InitInv, OrderInit
<1>2. IInv /\ OrderInv /\ [Next]_vars => (IInv /\ OrderInv)'
  BY NextInv, OrderStep
<1>3. IInv /\ OrderInv => KeysInOrder
  BY OrderIsKeysInOrder
<1> QED BY <1>1, <1>2, <1>3, PTL DEF Spec
=============================================================================
