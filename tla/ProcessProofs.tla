---------------------------- MODULE ProcessProofs ----------------------------
(***************************************************************************)
(* Proofs about Processes, for any number of slots and of loads.  The      *)
(* invariant says, without following pointers, what the list is (the loads *)
(* that are in it, by number), what every load has of the heap at its      *)
(* stage, and how the slots name the loads that are held.                  *)
(***************************************************************************)
EXTENDS Processes, FiniteSetTheorems, WellFoundedInduction, SequenceTheorems, TLAPS

InList == {n \in Load : stage[n] \in {"held", "stranded"}}

\* h and t are the first and the last of L, s and p lead from each to the
\* one after and the one before it.
Linked(L, h, t, p, s) ==
    /\ IF L = {} THEN h = Null /\ t = Null
       ELSE h \in L /\ t \in L /\ \A v \in L : h <= v /\ v <= t
    /\ \A u \in L : IF s[u] = Null THEN \A v \in L : v <= u
                    ELSE s[u] \in L /\ u < s[u] /\ \A v \in L : v <= u \/ s[u] <= v
    /\ \A u \in L : IF p[u] = Null THEN \A v \in L : u <= v
                    ELSE p[u] \in L /\ p[u] < u /\ \A v \in L : v <= p[u] \/ u <= v

ListInv ==
    /\ Linked(InList, head, tail, prev, next)
    /\ task # Null => task \in InList

Parts == {"image", "pheaders", "nobits", "descriptor"}

\* A load that is in the list.
Complete(n) ==
    /\ program[n] \in {"elf", "binary"}
    /\ \A kind \in {"process", "stack", "task", "chunk"} : heap[<<n, kind>>] = 1
    /\ \A kind \in {"elf", "binary"} : heap[<<n, kind>>] = IF kind = program[n] THEN 1 ELSE 0

HeapInv ==
    \A n \in Load :
        /\ \A kind \in Kinds : heap[<<n, kind>>] \in {0, 1}
        /\ n > loads => stage[n] = "none" /\ \A kind \in Kinds : heap[<<n, kind>>] = 0
        /\ stage[n] \in {"held", "stranded"} => Complete(n)
        /\ stage[n] = "failed" => \A kind \in Kinds \ (Parts \cup {"binary"}) : heap[<<n, kind>>] = 0
        /\ stage[n] = "freed" => \A kind \in Kinds \ (Parts \cup {"allocation"}) : heap[<<n, kind>>] = 0

SlotInv ==
    /\ \A s \in Slots : processes[s] <= loads
    /\ \A s, r \in Slots : processes[s] = processes[r] /\ processes[s] # Null => s = r
    /\ \A n \in Load : stage[n] = "held" => \E s \in Slots : processes[s] = n

IInv == TypeOK /\ ListInv /\ HeapInv /\ SlotInv

-----------------------------------------------------------------------------
(* The heap.                                                               *)

\* g is h with one more, one less, of each of these objects.
Raised(h, n, kinds, g) ==
    \A m \in Load, kind \in Kinds :
        g[<<m, kind>>] = IF m = n /\ kind \in kinds THEN h[<<m, kind>>] + 1 ELSE h[<<m, kind>>]

Lowered(h, n, kinds, g) ==
    \A m \in Load, kind \in Kinds :
        g[<<m, kind>>] = IF m = n /\ kind \in kinds THEN h[<<m, kind>>] - 1 ELSE h[<<m, kind>>]

LEMMA MallockAt ==
    ASSUME NEW h, NEW n \in Load, NEW kinds \in SUBSET Kinds, NEW g, g = Mallock(h, Of(n, kinds))
    PROVE  Raised(h, n, kinds, g)
BY DEF Mallock, Of, Objects, Raised

LEMMA FreekAt ==
    ASSUME NEW h, NEW n \in Load, NEW kinds \in SUBSET Kinds, NEW g, g = Freek(h, Of(n, kinds))
    PROVE  Lowered(h, n, kinds, g)
BY DEF Freek, Of, Objects, Lowered

LEMMA MallockType ==
    ASSUME NEW h \in [Objects -> Int], NEW objects
    PROVE  Mallock(h, objects) \in [Objects -> Int] /\ Freek(h, objects) \in [Objects -> Int]
BY DEF Mallock, Freek

\* What loading a file into a process leaves, of a load that had nothing: g
\* is the heap then, ptr what the process points to.
LoadOutcome(h, n, g, ptr) ==
    /\ g \in [Objects -> Int] /\ ptr \in {"nothing", "elf", "binary"}
    /\ \A m \in Load \ {n}, kind \in Kinds : g[<<m, kind>>] = h[<<m, kind>>]
    /\ \A kind \in Kinds : g[<<n, kind>>] \in {0, 1}
    /\ g[<<n, "process">>] = 1
    /\ \A kind \in {"stack", "task", "chunk", "allocation"} : g[<<n, kind>>] = 0
    /\ g[<<n, "elf">>] = IF ptr = "elf" THEN 1 ELSE 0
    /\ ptr # "nothing" => g[<<n, "binary">>] = IF ptr = "binary" THEN 1 ELSE 0

\* The same of its first part, the ELF loader.
ElfOutcome(h, n, g, ptr) ==
    LoadOutcome(h, n, g, ptr) /\ ptr # "binary" /\ g[<<n, "binary">>] = 0

\* What there is of a process before its file is loaded.
Fresh(h, n) ==
    /\ h \in [Objects -> Int]
    /\ \A kind \in Kinds : h[<<n, kind>>] = IF kind = "process" THEN 1 ELSE 0

\* With these kinds of objects on top of the process.
LEMMA FreshWith ==
    ASSUME NEW h, NEW n \in Load, Fresh(h, n), NEW kinds \in SUBSET Kinds,
           kinds \cap {"process", "stack", "task", "chunk", "allocation", "binary"} = {},
           NEW g \in [Objects -> Int],
           Raised(h, n, kinds, g), NEW ptr, ptr = IF "elf" \in kinds THEN "elf" ELSE "nothing"
    PROVE  ElfOutcome(h, n, g, ptr)
<1>1. \A kind \in Kinds : g[<<n, kind>>] = IF kind = "process" \/ kind \in kinds THEN 1 ELSE 0
  BY DEF Fresh, Raised
<1>2. \A m \in Load \ {n}, kind \in Kinds : g[<<m, kind>>] = h[<<m, kind>>]
  BY DEF Raised
<1>3. {"process", "stack", "task", "chunk", "allocation", "binary", "elf"} \subseteq Kinds
  BY DEF Kinds
<1>4. \A kind \in {"stack", "task", "chunk", "allocation", "binary"} : g[<<n, kind>>] = 0
  BY <1>1, <1>3
<1>5. g[<<n, "process">>] = 1 /\ g[<<n, "elf">>] = IF "elf" \in kinds THEN 1 ELSE 0
  BY <1>1, <1>3
<1> QED BY <1>1, <1>2, <1>4, <1>5 DEF ElfOutcome, LoadOutcome

LEMMA ElfLoads ==
    ASSUME NEW h, NEW n \in Load, NEW file \in Files, Fresh(h, n), NEW f \in elf_load(h, n, file)
    PROVE  ElfOutcome(h, n, f.heap, f.ptr)
<1>0. PICK g, ptr : g = f.heap /\ ptr = f.ptr
  OBVIOUS
<1>1. CASE f = [heap |-> h, ptr |-> "nothing"]
  <2>1. g = h /\ ptr = "nothing"
    BY <1>0, <1>1
  <2>2. PICK kinds \in SUBSET Kinds : kinds = {}
    OBVIOUS
  <2>3. g \in [Objects -> Int] /\ Raised(h, n, kinds, g)
    BY <2>1, <2>2 DEF Fresh, Raised
  <2>4. ptr = IF "elf" \in kinds THEN "elf" ELSE "nothing"
    BY <2>1, <2>2
  <2>5. ElfOutcome(h, n, g, ptr)
    BY <2>2, <2>3, <2>4, FreshWith
  <2> QED BY <1>0, <2>5
<1>2. ASSUME NEW got \in SUBSET {"image", "pheaders", "nobits"},
             NEW loaded, loaded = Mallock(h, Of(n, {"elf", "descriptor"} \cup got)),
             f = IF file.elf /\ "nobits" \in got
                 THEN [heap |-> loaded, ptr |-> "elf"]
                 ELSE [heap |-> elf_free(loaded, n, got), ptr |-> "nothing"]
      PROVE  ElfOutcome(h, n, g, ptr)
  <2>1. /\ {"elf", "descriptor"} \cup got \in SUBSET Kinds
        /\ {"elf"} \cup got \in SUBSET Kinds
        /\ {"descriptor"} \in SUBSET Kinds
    BY DEF Kinds
  <2>2. Raised(h, n, {"elf", "descriptor"} \cup got, loaded)
    BY <1>2, <2>1, MallockAt
  <2>3. loaded \in [Objects -> Int]
    BY <1>2, MallockType DEF Fresh
  <2>4. CASE file.elf /\ "nobits" \in got
    <3>1. g = loaded /\ ptr = "elf"
      BY <1>0, <1>2, <2>4
    <3> QED BY <2>1, <2>2, <2>3, <3>1, FreshWith
  <2>5. CASE ~(file.elf /\ "nobits" \in got)
    <3>1. g = Freek(loaded, Of(n, {"elf"} \cup got)) /\ ptr = "nothing"
      BY <1>0, <1>2, <2>5 DEF elf_free
    <3>2. Lowered(loaded, n, {"elf"} \cup got, g)
      BY <2>1, <3>1, FreekAt
    <3>3. g \in [Objects -> Int]
      BY <2>3, <3>1, MallockType
    <3>4. Raised(h, n, {"descriptor"}, g)
      <4>1. \A m \in Load, kind \in Kinds : h[<<m, kind>>] \in Int
        BY DEF Fresh, Objects
      <4>2. ASSUME NEW m \in Load, NEW kind \in Kinds
            PROVE  g[<<m, kind>>] = IF m = n /\ kind \in {"descriptor"}
                                    THEN h[<<m, kind>>] + 1 ELSE h[<<m, kind>>]
        <5>1. CASE m = n /\ kind \in {"elf"} \cup got
          <6>1. kind # "descriptor" /\ loaded[<<m, kind>>] = h[<<m, kind>>] + 1
            BY <2>2, <5>1 DEF Raised
          <6>2. g[<<m, kind>>] = loaded[<<m, kind>>] - 1
            BY <3>2, <5>1 DEF Lowered
          <6> QED BY <4>1, <6>1, <6>2
        <5>2. CASE ~(m = n /\ kind \in {"elf"} \cup got)
          BY <2>2, <3>2, <5>2 DEF Raised, Lowered
        <5> QED BY <5>1, <5>2
      <4> QED BY <4>2 DEF Raised
    <3> QED BY <2>1, <3>1, <3>3, <3>4, FreshWith
  <2> QED BY <2>4, <2>5
<1>3. \A got \in SUBSET (IF file.elf THEN {"image", "pheaders", "nobits"} ELSE {"image"}) :
         got \in SUBSET {"image", "pheaders", "nobits"}
  OBVIOUS
<1>4. \/ f = [heap |-> h, ptr |-> "nothing"]
      \/ \E got \in SUBSET (IF file.elf THEN {"image", "pheaders", "nobits"} ELSE {"image"}) :
            \E loaded : /\ loaded = Mallock(h, Of(n, {"elf", "descriptor"} \cup got))
                        /\ f = IF file.elf /\ "nobits" \in got
                               THEN [heap |-> loaded, ptr |-> "elf"]
                               ELSE [heap |-> elf_free(loaded, n, got), ptr |-> "nothing"]
  BY Zenon DEF elf_load
<1>5. ElfOutcome(h, n, g, ptr)
  BY <1>0, <1>1, <1>2, <1>3, <1>4, Zenon
<1> QED BY <1>0, <1>5

LEMMA BinaryLoads ==
    ASSUME NEW h, NEW n \in Load, NEW file \in Files, NEW e, ElfOutcome(h, n, e, "nothing"),
           NEW f \in process_load_binary(e, n, file)
    PROVE  LoadOutcome(h, n, f.heap, f.ptr)
<1>0. PICK g, ptr : g = f.heap /\ ptr = f.ptr
  OBVIOUS
<1>1. CASE f = [heap |-> e, ptr |-> "nothing"]
  <2>1. f.heap = e /\ f.ptr = "nothing"
    BY <1>1
  <2> QED BY <2>1 DEF ElfOutcome
<1>2. CASE f = [heap |-> Mallock(e, Of(n, {"binary"})),
                ptr |-> IF file.whole THEN "binary" ELSE "nothing"]
  <2>1. g = Mallock(e, Of(n, {"binary"})) /\ ptr \in {"binary", "nothing"}
    BY <1>0, <1>2
  <2>2. {"binary"} \in SUBSET Kinds
    BY DEF Kinds
  <2>3. Raised(e, n, {"binary"}, g)
    BY <2>1, <2>2, MallockAt
  <2>4. g \in [Objects -> Int]
    BY <2>1, MallockType DEF ElfOutcome, LoadOutcome
  <2>5. \A m \in Load \ {n}, kind \in Kinds : g[<<m, kind>>] = h[<<m, kind>>]
    BY <2>3 DEF ElfOutcome, LoadOutcome, Raised
  <2>6. g[<<n, "binary">>] = 1 /\ \A kind \in Kinds \ {"binary"} : g[<<n, kind>>] = e[<<n, kind>>]
    BY <2>2, <2>3 DEF ElfOutcome, Raised
  <2>7. \A kind \in Kinds : g[<<n, kind>>] \in {0, 1}
    BY <2>6 DEF ElfOutcome, LoadOutcome
  <2>8. {"process", "stack", "task", "chunk", "allocation", "elf"} \subseteq Kinds \ {"binary"}
    BY DEF Kinds
  <2>9. LoadOutcome(h, n, g, ptr)
    BY <2>1, <2>4, <2>5, <2>6, <2>7, <2>8 DEF ElfOutcome, LoadOutcome
  <2> QED BY <1>0, <2>9
<1> QED BY <1>1, <1>2 DEF process_load_binary

LEMMA FileLoads ==
    ASSUME NEW h, NEW n \in Load, NEW file \in Files, Fresh(h, n),
           NEW f \in process_fill_data(h, n, file)
    PROVE  LoadOutcome(h, n, f.heap, f.ptr)
<1>1. PICK e \in elf_load(h, n, file) :
         f \in IF e.ptr # "nothing" THEN {e} ELSE process_load_binary(e.heap, n, file)
  BY DEF process_fill_data
<1>2. ElfOutcome(h, n, e.heap, e.ptr)
  BY ElfLoads
<1>3. CASE e.ptr # "nothing"
  BY <1>1, <1>2, <1>3 DEF ElfOutcome
<1>4. CASE e.ptr = "nothing"
  <2>1. ElfOutcome(h, n, e.heap, "nothing") /\ f \in process_load_binary(e.heap, n, file)
    BY <1>1, <1>2, <1>4
  <2> QED BY <2>1, BinaryLoads
<1> QED BY <1>3, <1>4

-----------------------------------------------------------------------------
(* The list.                                                               *)

LEMMA LoadNumbers ==
    /\ Load \in SUBSET Nat /\ MaxLoads \in Nat
    /\ \A n \in Load : n # Null
    /\ \A n \in Load \cup {Null} : n \in Nat
BY ProcessesConstants DEF Load, Null

LEMMA LeastNumber ==
    ASSUME NEW S, S \subseteq Nat, S # {}
    PROVE  \E n \in S : \A m \in S : n <= m
<1>1. PICK R : R = OpToRel(<, Nat)
  OBVIOUS
<1>2. IsWellFoundedOn(R, Nat)
  BY <1>1, NatLessThanWellFounded, Zenon
<1>3. PICK n \in S : \A m \in S : ~(<<m, n>> \in R)
  BY <1>2, WFMin, Zenon
<1>4. \A m \in S : m < n => <<m, n>> \in R
  BY <1>1, Zenon DEF OpToRel
<1>5. ASSUME NEW m \in S
      PROVE  n <= m
  <2>1. n \in Nat /\ m \in Nat /\ ~(m < n)
    BY <1>3, <1>4
  <2> QED BY <2>1
<1> QED BY <1>5

\* Next and previous undo each other, and the ends have none.
LEMMA Neighbours ==
    ASSUME NEW L \in SUBSET Load, NEW h, NEW t, NEW p, NEW s, Linked(L, h, t, p, s), NEW n \in L
    PROVE  /\ \A u \in L : (s[u] = n => p[n] = u) /\ (p[u] = n => s[n] = u)
           /\ h = n <=> p[n] = Null
           /\ t = n <=> s[n] = Null
<1>1. L \in SUBSET Nat /\ n \in Nat /\ n # Null /\ \A v \in L : v # Null
  BY LoadNumbers
<1>2. h \in L /\ t \in L /\ \A v \in L : h <= v /\ v <= t
  BY DEF Linked
<1>3. IF s[n] = Null THEN \A v \in L : v <= n
      ELSE s[n] \in L /\ n < s[n] /\ \A v \in L : v <= n \/ s[n] <= v
  BY DEF Linked
<1>4. IF p[n] = Null THEN \A v \in L : n <= v
      ELSE p[n] \in L /\ p[n] < n /\ \A v \in L : v <= p[n] \/ n <= v
  BY DEF Linked
<1>5. h \in Nat /\ t \in Nat /\ h <= n /\ n <= t
  BY <1>1, <1>2
<1>6. h = n <=> p[n] = Null
  <2>1. ASSUME p[n] = Null PROVE h = n
    <3>1. n <= h
      BY <1>2, <1>4, <2>1
    <3> QED BY <1>1, <1>5, <3>1
  <2>2. ASSUME p[n] # Null PROVE h # n
    <3>1. p[n] < n /\ p[n] \in Nat /\ h <= p[n]
      BY <1>1, <1>2, <1>4, <2>2
    <3> QED BY <1>1, <1>5, <3>1
  <2> QED BY <2>1, <2>2
<1>7. t = n <=> s[n] = Null
  <2>1. ASSUME s[n] = Null PROVE t = n
    <3>1. t <= n
      BY <1>2, <1>3, <2>1
    <3> QED BY <1>1, <1>5, <3>1
  <2>2. ASSUME s[n] # Null PROVE t # n
    <3>1. n < s[n] /\ s[n] \in Nat /\ s[n] <= t
      BY <1>1, <1>2, <1>3, <2>2
    <3> QED BY <1>1, <1>5, <3>1
  <2> QED BY <2>1, <2>2
<1>8. ASSUME NEW u \in L, s[u] = n
      PROVE  p[n] = u
  <2>1. u \in Nat /\ u < n /\ \A v \in L : v <= u \/ n <= v
    BY <1>1, <1>8 DEF Linked
  <2>2. ~(n <= u)
    BY <1>1, <2>1
  <2>3. p[n] # Null
    BY <1>4, <2>2
  <2>4. p[n] \in L /\ p[n] \in Nat /\ p[n] < n /\ (u <= p[n] \/ n <= u)
    BY <1>1, <1>4, <2>3
  <2>5. p[n] <= u \/ n <= p[n]
    BY <2>1, <2>4
  <2> QED BY <1>1, <2>1, <2>4, <2>5
<1>9. ASSUME NEW u \in L, p[u] = n
       PROVE  s[n] = u
  <2>1. u \in Nat /\ n < u /\ \A v \in L : v <= n \/ u <= v
    BY <1>1, <1>9 DEF Linked
  <2>2. ~(u <= n)
    BY <1>1, <2>1
  <2>3. s[n] # Null
    BY <1>3, <2>2
  <2>4. s[n] \in L /\ s[n] \in Nat /\ n < s[n] /\ (u <= n \/ s[n] <= u)
    BY <1>1, <1>3, <2>3
  <2>5. s[n] <= n \/ u <= s[n]
    BY <2>1, <2>4
  <2> QED BY <1>1, <2>1, <2>4, <2>5
<1> QED BY <1>6, <1>7, <1>8, <1>9

\* What becomes of the pointers when n is appended, when it is removed.
Appended(n, h, t, p, s, h2, p2, s2) ==
    /\ h2 = IF h = Null THEN n ELSE h
    /\ p2 = [p EXCEPT ![n] = IF h = Null THEN Null ELSE t]
    /\ s2 = [i \in Load |-> IF i = n THEN Null ELSE IF h # Null /\ i = t THEN n ELSE s[i]]

Removed(n, h, t, p, s, h2, t2, p2, s2) ==
    /\ h2 = IF h = n THEN s[n] ELSE h
    /\ t2 = IF t = n THEN p[n] ELSE t
    /\ p2 = IF s[n] = Null THEN p ELSE [p EXCEPT ![s[n]] = p[n]]
    /\ s2 = IF p[n] = Null THEN s ELSE [s EXCEPT ![p[n]] = s[n]]

\* A task with a higher number goes to the end.
LEMMA AppendLinks ==
    ASSUME NEW L \in SUBSET Load, NEW h, NEW t, NEW p, NEW s, Linked(L, h, t, p, s),
           p \in [Load -> Load \cup {Null}], s \in [Load -> Load \cup {Null}],
           NEW n \in Load, \A v \in L : v < n,
           NEW h2, NEW p2, NEW s2, Appended(n, h, t, p, s, h2, p2, s2)
    PROVE  Linked(L \cup {n}, h2, n, p2, s2)
<1> USE DEF Appended
<1>1. L \in SUBSET Nat /\ n \in Nat /\ n # Null /\ \A v \in L : v # Null
  BY LoadNumbers
<1>2. ~(n \in L)
  BY <1>1
<1>3. L \cup {n} # {}
  OBVIOUS
<1>4. CASE L = {}
  <2>1. h2 = n /\ p2[n] = Null /\ s2[n] = Null
    BY <1>4 DEF Linked
  <2> QED BY <1>1, <1>3, <1>4, <2>1 DEF Linked
<1>5. CASE L # {}
  <2>1. h \in L /\ t \in L /\ h # Null /\ h2 = h /\ p2[n] = t /\ s2[n] = Null /\ s2[t] = n
    BY <1>1, <1>2, <1>5 DEF Linked
  <2>2. \A u \in L : p2[u] = p[u] /\ (u # t => s2[u] = s[u])
    BY <1>2, <2>1
  <2>3. h2 \in L \cup {n} /\ n \in L \cup {n} /\ \A v \in L \cup {n} : h2 <= v /\ v <= n
    BY <1>1, <1>5, <2>1 DEF Linked
  <2>4. ASSUME NEW u \in L \cup {n}
        PROVE  IF s2[u] = Null THEN \A v \in L \cup {n} : v <= u
               ELSE s2[u] \in L \cup {n} /\ u < s2[u] /\ \A v \in L \cup {n} : v <= u \/ s2[u] <= v
    <3>1. CASE u = n
      BY <1>1, <2>1, <2>3, <3>1
    <3>2. CASE u = t
      <4>1. \A v \in L : v <= t
        BY <1>5 DEF Linked
      <4> QED BY <1>1, <2>1, <3>2, <4>1
    <3>3. CASE u \in L /\ u # t
      <4>1. \A v \in L : v <= t
        BY <1>5 DEF Linked
      <4>2. s2[u] = s[u] /\ s[u] # Null
        BY <1>1, <2>1, <2>2, <3>3, <4>1 DEF Linked
      <4>3. s[u] \in L /\ u < s[u] /\ \A v \in L : v <= u \/ s[u] <= v
        BY <3>3, <4>2 DEF Linked
      <4> QED BY <1>1, <2>3, <4>2, <4>3
    <3> QED BY <3>1, <3>2, <3>3
  <2>5. ASSUME NEW u \in L \cup {n}
        PROVE  IF p2[u] = Null THEN \A v \in L \cup {n} : u <= v
               ELSE p2[u] \in L \cup {n} /\ p2[u] < u /\ \A v \in L \cup {n} : v <= p2[u] \/ u <= v
    <3>1. CASE u = n
      <4>1. \A v \in L : v <= t
        BY <1>5 DEF Linked
      <4> QED BY <1>1, <2>1, <3>1, <4>1
    <3>2. CASE u \in L
      <4>1. IF p[u] = Null THEN \A v \in L : u <= v
            ELSE p[u] \in L /\ p[u] < u /\ \A v \in L : v <= p[u] \/ u <= v
        BY <3>2 DEF Linked
      <4>2. p2[u] = p[u] /\ u <= n
        BY <1>1, <2>2, <2>3, <3>2
      <4> QED BY <1>1, <3>2, <4>1, <4>2
    <3> QED BY <3>1, <3>2
  <2> QED BY <1>3, <2>3, <2>4, <2>5 DEF Linked
<1> QED BY <1>4, <1>5

\* A task is taken out.
LEMMA RemoveLinks ==
    ASSUME NEW L \in SUBSET Load, NEW h, NEW t, NEW p, NEW s, Linked(L, h, t, p, s),
           p \in [Load -> Load \cup {Null}], s \in [Load -> Load \cup {Null}],
           NEW n \in L,
           NEW h2, NEW t2, NEW p2, NEW s2, Removed(n, h, t, p, s, h2, t2, p2, s2)
    PROVE  Linked(L \ {n}, h2, t2, p2, s2)
<1> USE DEF Removed
<1>1. L \in SUBSET Nat /\ n \in Nat /\ n # Null /\ \A v \in L : v # Null
  BY LoadNumbers
<1>2. h \in L /\ t \in L /\ \A v \in L : h <= v /\ v <= t
  BY DEF Linked
<1>3. IF s[n] = Null THEN \A v \in L : v <= n
      ELSE s[n] \in L /\ n < s[n] /\ \A v \in L : v <= n \/ s[n] <= v
  BY DEF Linked
<1>4. IF p[n] = Null THEN \A v \in L : n <= v
      ELSE p[n] \in L /\ p[n] < n /\ \A v \in L : v <= p[n] \/ n <= v
  BY DEF Linked
<1>5. /\ \A u \in L : (s[u] = n => p[n] = u) /\ (p[u] = n => s[n] = u)
      /\ h = n <=> p[n] = Null
      /\ t = n <=> s[n] = Null
  BY Neighbours
<1>6. ASSUME L \ {n} # {}
      PROVE  h2 \in L \ {n} /\ t2 \in L \ {n} /\ \A v \in L \ {n} : h2 <= v /\ v <= t2
  <2>1. PICK m \in L : m # n
    BY <1>6
  <2>2. h2 \in L \ {n} /\ \A v \in L \ {n} : h2 <= v
    BY <1>1, <1>2, <1>3, <1>5, <2>1
  <2>3. t2 \in L \ {n} /\ \A v \in L \ {n} : v <= t2
    BY <1>1, <1>2, <1>4, <1>5, <2>1
  <2> QED BY <2>2, <2>3
<1>7. ASSUME L \ {n} = {}
      PROVE  h2 = Null /\ t2 = Null
  BY <1>1, <1>2, <1>3, <1>4, <1>7
<1>8. ASSUME NEW u \in L \ {n}
      PROVE  IF s2[u] = Null THEN \A v \in L \ {n} : v <= u
             ELSE s2[u] \in L \ {n} /\ u < s2[u] /\ \A v \in L \ {n} : v <= u \/ s2[u] <= v
  <2>1. IF s[u] = Null THEN \A v \in L : v <= u
        ELSE s[u] \in L /\ u < s[u] /\ \A v \in L : v <= u \/ s[u] <= v
    BY DEF Linked
  <2>2. CASE u = p[n]
    <3>1. s2[u] = s[n] /\ u \in Nat /\ u < n
      BY <1>1, <1>4, <2>2
    <3>2. CASE s[n] = Null
      BY <1>1, <1>3, <1>4, <2>2, <3>1, <3>2
    <3>3. CASE s[n] # Null
      <4>1. s[n] \in L /\ n < s[n] /\ s[n] \in Nat /\ \A v \in L : v <= n \/ s[n] <= v
        BY <1>1, <1>3, <3>3
      <4>2. \A v \in L : v <= u \/ n <= v
        BY <1>1, <1>4, <2>2
      <4>3. ASSUME NEW v \in L \ {n} PROVE v <= u \/ s[n] <= v
        BY <1>1, <4>1, <4>2
      <4> QED BY <1>1, <3>1, <3>3, <4>1, <4>3
    <3> QED BY <3>2, <3>3
  <2>3. CASE u # p[n]
    <3>1. s2[u] = s[u]
      BY <2>3
    <3>2. s[u] # n
      BY <1>5, <2>3
    <3> QED BY <2>1, <3>1, <3>2
  <2> QED BY <2>2, <2>3
<1>9. ASSUME NEW u \in L \ {n}
      PROVE  IF p2[u] = Null THEN \A v \in L \ {n} : u <= v
             ELSE p2[u] \in L \ {n} /\ p2[u] < u /\ \A v \in L \ {n} : v <= p2[u] \/ u <= v
  <2>1. IF p[u] = Null THEN \A v \in L : u <= v
        ELSE p[u] \in L /\ p[u] < u /\ \A v \in L : v <= p[u] \/ u <= v
    BY DEF Linked
  <2>2. CASE u = s[n]
    <3>1. p2[u] = p[n] /\ u \in Nat /\ n < u
      BY <1>1, <1>3, <2>2
    <3>2. CASE p[n] = Null
      BY <1>1, <1>3, <1>4, <2>2, <3>1, <3>2
    <3>3. CASE p[n] # Null
      <4>1. p[n] \in L /\ p[n] < n /\ p[n] \in Nat /\ \A v \in L : v <= p[n] \/ n <= v
        BY <1>1, <1>4, <3>3
      <4>2. \A v \in L : v <= n \/ u <= v
        BY <1>1, <1>3, <2>2
      <4>3. ASSUME NEW v \in L \ {n} PROVE v <= p[n] \/ u <= v
        BY <1>1, <4>1, <4>2
      <4> QED BY <1>1, <3>1, <3>3, <4>1, <4>3
    <3> QED BY <3>2, <3>3
  <2>3. CASE u # s[n]
    <3>1. p2[u] = p[u]
      BY <2>3
    <3>2. p[u] # n
      BY <1>5, <2>3
    <3> QED BY <2>1, <3>1, <3>2
  <2> QED BY <2>2, <2>3
<1> QED BY <1>6, <1>7, <1>8, <1>9 DEF Linked

\* What is reached from head along next is the list.
LEMMA ListedIs ==
    ASSUME TypeOK, ListInv
    PROVE  Listed = InList
<1> DEFINE L == InList
<1>1. L \in SUBSET Load /\ L \subseteq Nat /\ \A v \in L : v # Null
  BY LoadNumbers DEF InList
<1>2. Linked(L, head, tail, prev, next)
  BY DEF ListInv
<1> HIDE DEF L
<1>3. ClosedUnderNext(L)
  <2>1. head \in L \cup {Null}
    BY <1>2 DEF Linked
  <2>2. \A u \in L : next[u] \in L \cup {Null}
    BY <1>2 DEF Linked
  <2> QED BY <2>1, <2>2 DEF ClosedUnderNext
<1>4. Listed \subseteq L
  BY <1>1, <1>3 DEF Listed
<1>5. ASSUME NEW S \in SUBSET Load, ClosedUnderNext(S)
      PROVE  L \subseteq S
  <2> SUFFICES ASSUME L \ S # {} PROVE FALSE
    OBVIOUS
  <2>1. PICK n \in L \ S : \A m \in L \ S : n <= m
    <3>1. L \ S \subseteq Nat
      BY <1>1
    <3> QED BY <3>1, LeastNumber
  <2>2. n \in Nat /\ n \in L /\ n # Null
    BY <1>1, <2>1
  <2>3. CASE prev[n] = Null
    <3>1. head = n
      BY <1>1, <1>2, <2>2, <2>3, Neighbours
    <3>2. n \in S
      BY <2>2, <3>1, <1>5 DEF ClosedUnderNext
    <3> QED BY <2>1, <3>2
  <2>4. CASE prev[n] # Null
    <3>1. prev[n] \in L /\ prev[n] < n
      BY <1>2, <2>2, <2>4 DEF Linked
    <3>2. PICK u \in L : u = prev[n] /\ u < n
      BY <3>1
    <3>3. u \in S
      <4>1. u \in Nat /\ ~(n <= u)
        BY <1>1, <2>2, <3>2
      <4> QED BY <2>1, <4>1
    <3>4. next[u] = n
      <4>1. \A v \in L : prev[v] = u => next[u] = v
        BY <1>1, <1>2, Neighbours
      <4> QED BY <2>2, <3>2, <4>1
    <3>5. n \in S
      BY <2>2, <3>3, <3>4, <1>5 DEF ClosedUnderNext
    <3> QED BY <2>1, <3>5
  <2> QED BY <2>3, <2>4
<1>6. L \subseteq Listed
  BY <1>1, <1>5 DEF Listed
<1> QED BY <1>4, <1>6 DEF L

LEMMA ListIsBack == TypeOK /\ ListInv => PrevIsBack
<1> SUFFICES ASSUME TypeOK, ListInv PROVE PrevIsBack
  OBVIOUS
<1>1. InList \in SUBSET Load /\ \A v \in InList : v # Null
  BY LoadNumbers DEF InList
<1>2. Linked(InList, head, tail, prev, next)
  BY DEF ListInv
<1>3. Listed = InList
  BY ListedIs
<1>4. ASSUME NEW t \in InList
      PROVE  IF next[t] = Null THEN tail = t ELSE prev[next[t]] = t
  <2>1. CASE next[t] = Null
    BY <1>1, <1>2, <2>1, Neighbours
  <2>2. CASE next[t] # Null
    <3>1. PICK u \in InList : u = next[t]
      BY <1>2, <2>2 DEF Linked
    <3>2. prev[u] = t
      BY <1>1, <1>2, <3>1, Neighbours
    <3> QED BY <2>2, <3>1, <3>2
  <2> QED BY <2>1, <2>2
<1>5. head # Null => prev[head] = Null
  <2> SUFFICES ASSUME head # Null PROVE prev[head] = Null
    OBVIOUS
  <2>1. PICK u \in InList : u = head
    BY <1>2 DEF Linked
  <2>2. prev[u] = Null
    BY <1>1, <1>2, <2>1, Neighbours
  <2> QED BY <2>1, <2>2
<1>6. head = Null <=> tail = Null
  BY <1>1, <1>2 DEF Linked
<1> QED BY <1>3, <1>4, <1>5, <1>6 DEF PrevIsBack

-----------------------------------------------------------------------------
(* The steps.                                                              *)

LEMMA InitInv == Init => IInv
<1> SUFFICES ASSUME Init PROVE IInv
  OBVIOUS
<1>1. TypeOK
  <2>1. 0 \in 0 .. MaxLoads /\ 0 \in Int
    BY LoadNumbers
  <2>2. heap \in [Objects -> Int] /\ loads \in 0 .. MaxLoads
    BY <2>1 DEF Init
  <2>3. /\ processes \in [Slots -> Load \cup {Null}]
        /\ program \in [Load -> {"nothing", "elf", "binary"}]
        /\ {current, task, head, tail} \subseteq Load \cup {Null}
        /\ prev \in [Load -> Load \cup {Null}] /\ next \in [Load -> Load \cup {Null}]
        /\ halted \in BOOLEAN
        /\ stage \in [Load -> Stages]
    BY DEF Init, Stages
  <2> QED BY <2>2, <2>3 DEF TypeOK
<1>2. InList = {}
  BY DEF Init, InList
<1>3. ListInv
  BY <1>2 DEF Init, ListInv, Linked
<1>4. HeapInv
  BY DEF Init, HeapInv, Objects
<1>5. SlotInv
  <2>1. 0 <= 0
    OBVIOUS
  <2> QED BY <2>1 DEF Init, SlotInv, Null
<1> QED BY <1>1, <1>3, <1>4, <1>5 DEF IInv

\* What is true of a load before it: it has nothing, and no slot names it.
LEMMA BeginIs ==
    ASSUME IInv, NEW n \in Load, Begin(n)
    PROVE  /\ loads' = n /\ n = loads + 1 /\ loads \in Nat /\ n \in 0 .. MaxLoads
           /\ stage[n] = "none" /\ \A kind \in Kinds : heap[<<n, kind>>] = 0
           /\ \A s \in Slots : processes[s] \in Nat /\ processes[s] < n
           /\ \A m \in InList : m < n
<1>1. loads' = n /\ n = loads + 1 /\ loads \in Nat /\ n \in 0 .. MaxLoads
  BY LoadNumbers DEF Begin, IInv, TypeOK, Load
<1>2. n > loads
  BY <1>1
<1>3. stage[n] = "none" /\ \A kind \in Kinds : heap[<<n, kind>>] = 0
  BY <1>2 DEF IInv, HeapInv
<1>4. ASSUME NEW s \in Slots
      PROVE  processes[s] \in Nat /\ processes[s] < n
  <2>1. processes[s] \in Load \cup {Null} /\ processes[s] <= loads
    BY DEF IInv, TypeOK, SlotInv
  <2>2. processes[s] \in Nat
    BY <2>1, LoadNumbers, Zenon
  <2> QED BY <1>1, <2>1, <2>2
<1>5. ASSUME NEW m \in InList
      PROVE  m < n
  <2>1. m \in Nat /\ ~(m > loads)
    BY LoadNumbers DEF IInv, HeapInv, InList
  <2> QED BY <1>1, <2>1
<1> QED BY <1>1, <1>3, <1>4, <1>5

LEMMA FilledIs ==
    ASSUME IInv, NEW n \in Load, NEW file \in Files, Begin(n), NEW f \in Filled(n, file)
    PROVE  LoadOutcome(heap, n, f.heap, f.ptr)
<1>1. PICK h : h = Mallock(heap, Of(n, {"process"}))
  OBVIOUS
<1>2. {"process"} \in SUBSET Kinds
  BY DEF Kinds
<1>3. Raised(heap, n, {"process"}, h)
  BY <1>1, <1>2, MallockAt
<1>4. h \in [Objects -> Int]
  BY <1>1, MallockType DEF IInv, TypeOK
<1>5. \A kind \in Kinds : h[<<n, kind>>] = IF kind = "process" THEN 1 ELSE 0
  BY <1>3, BeginIs DEF Raised
<1>6. LoadOutcome(h, n, f.heap, f.ptr)
  BY <1>1, <1>4, <1>5, FileLoads DEF Fresh, Filled
<1>7. \A m \in Load \ {n}, kind \in Kinds : h[<<m, kind>>] = heap[<<m, kind>>]
  BY <1>3 DEF Raised
<1> QED BY <1>6, <1>7 DEF LoadOutcome

\* A load that begins changes nothing of the others.
LEMMA LoadHeap ==
    ASSUME IInv, NEW n \in Load, loads' = n, n = loads + 1,
           \A m \in Load \ {n} : /\ stage'[m] = stage[m] /\ program'[m] = program[m]
                                 /\ \A kind \in Kinds : heap'[<<m, kind>>] = heap[<<m, kind>>],
           \A kind \in Kinds : heap'[<<n, kind>>] \in {0, 1},
           stage'[n] \in {"held", "stranded"} => Complete(n)',
           stage'[n] = "failed" => \A kind \in Kinds \ (Parts \cup {"binary"}) : heap'[<<n, kind>>] = 0,
           stage'[n] # "freed"
    PROVE  HeapInv'
<1>1. n \in Nat /\ loads \in Nat /\ ~(n > loads')
  BY LoadNumbers DEF IInv, TypeOK
<1>2. ASSUME NEW m \in Load \ {n}
      PROVE  /\ \A kind \in Kinds : heap'[<<m, kind>>] \in {0, 1}
             /\ m > loads' => stage'[m] = "none" /\ \A kind \in Kinds : heap'[<<m, kind>>] = 0
             /\ stage'[m] \in {"held", "stranded"} => Complete(m)'
             /\ stage'[m] = "failed" =>
                   \A kind \in Kinds \ (Parts \cup {"binary"}) : heap'[<<m, kind>>] = 0
             /\ stage'[m] = "freed" =>
                   \A kind \in Kinds \ (Parts \cup {"allocation"}) : heap'[<<m, kind>>] = 0
  <2>1. /\ stage'[m] = stage[m] /\ program'[m] = program[m]
        /\ \A kind \in Kinds : heap'[<<m, kind>>] = heap[<<m, kind>>]
    OBVIOUS
  <2>2. m > loads' => m > loads
    BY <1>1, LoadNumbers
  <2>3. \A kind \in Kinds : heap'[<<m, kind>>] \in {0, 1}
    BY <2>1 DEF IInv, HeapInv
  <2>4. m > loads' => stage'[m] = "none" /\ \A kind \in Kinds : heap'[<<m, kind>>] = 0
    BY <2>1, <2>2 DEF IInv, HeapInv
  <2>5. stage'[m] \in {"held", "stranded"} => Complete(m)'
    <3>1. {"process", "stack", "task", "chunk", "elf", "binary"} \subseteq Kinds
      BY DEF Kinds
    <3>2. stage[m] \in {"held", "stranded"} => Complete(m)
      BY DEF IInv, HeapInv
    <3> QED BY <2>1, <3>1, <3>2 DEF Complete
  <2>6. stage'[m] = "failed" =>
           \A kind \in Kinds \ (Parts \cup {"binary"}) : heap'[<<m, kind>>] = 0
    BY <2>1 DEF IInv, HeapInv
  <2>7. stage'[m] = "freed" =>
           \A kind \in Kinds \ (Parts \cup {"allocation"}) : heap'[<<m, kind>>] = 0
    BY <2>1 DEF IInv, HeapInv
  <2> QED BY <2>3, <2>4, <2>5, <2>6, <2>7
<1> QED BY <1>1, <1>2 DEF HeapInv

\* What the steps of a failed load have in common.
LEMMA NotListed ==
    ASSUME IInv, NEW n \in Load, Begin(n), NEW st \in {"none", "failed"},
           stage' = [stage EXCEPT ![n] = st],
           UNCHANGED <<processes, program, current, task, list>>
    PROVE  ListInv' /\ SlotInv'
<1>1. /\ loads' = n /\ n = loads + 1 /\ loads \in Nat /\ stage[n] = "none"
      /\ \A s \in Slots : processes[s] \in Nat /\ processes[s] < n
  BY BeginIs
<1>2. n \in Nat /\ \A m \in Load : stage'[m] = IF m = n THEN st ELSE stage[m]
  BY LoadNumbers DEF IInv, TypeOK
<1>3. InList' = InList
  BY <1>1, <1>2 DEF InList
<1>4. ListInv'
  BY <1>3 DEF IInv, ListInv, list
<1>5. \A s \in Slots : processes'[s] <= loads'
  BY <1>1, <1>2
<1>6. SlotInv'
  BY <1>1, <1>2, <1>5 DEF IInv, SlotInv
<1> QED BY <1>4, <1>6

\* The heap g that a failed load leaves, from h.
Remainder(h, n, g) ==
    /\ g \in [Objects -> Int]
    /\ \A m \in Load \ {n}, kind \in Kinds : g[<<m, kind>>] = h[<<m, kind>>]
    /\ \A kind \in Kinds : g[<<n, kind>>] \in {0, 1}
    /\ \A kind \in Kinds \ (Parts \cup {"binary"}) : g[<<n, kind>>] = 0

LEMMA FailsInv ==
    ASSUME IInv, NEW n \in Load, NEW file \in Files, LoadFails(n, file)
    PROVE  IInv'
<1>1. Begin(n) /\ loads' = n /\ n = loads + 1 /\ n \in 0 .. MaxLoads
      /\ \A kind \in Kinds : heap[<<n, kind>>] = 0
  BY BeginIs DEF LoadFails
<1>2. /\ stage' = [stage EXCEPT ![n] = "failed"]
      /\ \A m \in Load : stage'[m] = IF m = n THEN "failed" ELSE stage[m]
      /\ UNCHANGED <<processes, program, current, task, list, halted>>
  BY DEF LoadFails, IInv, TypeOK
<1>3. ListInv' /\ SlotInv'
  BY <1>1, <1>2, NotListed
<1>4. Remainder(heap, n, heap')
  <2>1. CASE UNCHANGED heap
    BY <1>1, <2>1 DEF IInv, TypeOK, Remainder
  <2>2. ASSUME NEW f \in Filled(n, file), NEW g, g = f.heap, NEW ptr, ptr = f.ptr,
               heap' = FreeObjects(g, n, IF ptr = "nothing" THEN {} ELSE {ptr})
        PROVE  Remainder(heap, n, heap')
    <3>1. LoadOutcome(heap, n, g, ptr)
      BY <1>1, <2>2, FilledIs
    <3>2. PICK kinds \in SUBSET Kinds :
             /\ kinds = (IF ptr = "nothing" THEN {} ELSE {ptr}) \cup {"process"}
             /\ heap' = Freek(g, Of(n, kinds))
      <4>1. ptr \in {"nothing", "elf", "binary"}
        BY <3>1 DEF LoadOutcome
      <4> QED BY <2>2, <4>1 DEF FreeObjects, Kinds
    <3>3. Lowered(g, n, kinds, heap')
      BY <3>2, FreekAt
    <3>4. heap' \in [Objects -> Int]
      BY <3>1, <3>2, MallockType DEF LoadOutcome
    <3>5. \A kind \in kinds : g[<<n, kind>>] = 1
      BY <3>1, <3>2 DEF LoadOutcome
    <3>6. \A m \in Load \ {n}, kind \in Kinds : heap'[<<m, kind>>] = heap[<<m, kind>>]
      BY <3>1, <3>3 DEF LoadOutcome, Lowered
    <3>7. \A kind \in Kinds : heap'[<<n, kind>>] = IF kind \in kinds THEN 0 ELSE g[<<n, kind>>]
      BY <3>3, <3>5 DEF Lowered
    <3>8. \A kind \in Kinds : heap'[<<n, kind>>] \in {0, 1}
      BY <3>1, <3>7 DEF LoadOutcome
    <3>9. \A kind \in Kinds \ (Parts \cup {"binary"}) :
             kind \in {"process", "elf", "stack", "task", "chunk", "allocation"}
      BY DEF Kinds, Parts
    <3>10. \A kind \in {"process", "elf", "stack", "task", "chunk", "allocation"} :
              kind \in kinds \/ g[<<n, kind>>] = 0
      BY <3>1, <3>2 DEF LoadOutcome
    <3>11. \A kind \in Kinds \ (Parts \cup {"binary"}) : heap'[<<n, kind>>] = 0
      BY <3>7, <3>9, <3>10
    <3> QED BY <3>4, <3>6, <3>8, <3>11 DEF Remainder
  <2> QED BY <2>1, <2>2 DEF LoadFails
<1>5. HeapInv'
  BY <1>1, <1>2, <1>4, LoadHeap DEF Remainder
<1>6. TypeOK'
  BY <1>1, <1>2, <1>4 DEF IInv, TypeOK, list, Stages, Remainder
<1> QED BY <1>3, <1>5, <1>6 DEF IInv

\* The heap g2 of a load that goes on to a stack, or to a task too.
Running(h, n, ptr, kinds, g2) ==
    /\ g2 \in [Objects -> Int]
    /\ \A m \in Load \ {n}, kind \in Kinds : g2[<<m, kind>>] = h[<<m, kind>>]
    /\ \A kind \in Kinds : g2[<<n, kind>>] \in {0, 1}
    /\ \A kind \in {"process"} \cup kinds : g2[<<n, kind>>] = 1
    /\ \A kind \in {"elf", "binary"} : g2[<<n, kind>>] = IF kind = ptr THEN 1 ELSE 0

LEMMA RunningIs ==
    ASSUME NEW h, NEW n \in Load, NEW g, NEW ptr, LoadOutcome(h, n, g, ptr), ptr # "nothing",
           NEW kinds \in SUBSET {"stack", "task", "chunk"},
           NEW g2, g2 = Mallock(g, Of(n, kinds))
    PROVE  Running(h, n, ptr, kinds, g2)
<1>1. kinds \in SUBSET Kinds
  BY DEF Kinds
<1>2. Raised(g, n, kinds, g2)
  BY <1>1, MallockAt
<1>3. g2 \in [Objects -> Int]
  BY MallockType DEF LoadOutcome
<1>4. \A m \in Load \ {n}, kind \in Kinds : g2[<<m, kind>>] = h[<<m, kind>>]
  BY <1>2 DEF LoadOutcome, Raised
<1>5. \A kind \in kinds : g[<<n, kind>>] = 0
  BY DEF LoadOutcome
<1>6. \A kind \in Kinds : g2[<<n, kind>>] = IF kind \in kinds THEN 1 ELSE g[<<n, kind>>]
  <2>1. ASSUME NEW kind \in kinds
        PROVE  g2[<<n, kind>>] = 1
    <3>1. kind \in Kinds /\ g[<<n, kind>>] = 0
      BY <1>1, <1>5
    <3>2. g2[<<n, kind>>] = g[<<n, kind>>] + 1
      BY <1>2, <3>1 DEF Raised
    <3> QED BY <3>1, <3>2
  <2>2. \A kind \in Kinds \ kinds : g2[<<n, kind>>] = g[<<n, kind>>]
    BY <1>2 DEF Raised
  <2> QED BY <2>1, <2>2
<1>7. \A kind \in Kinds : g2[<<n, kind>>] \in {0, 1}
  BY <1>6 DEF LoadOutcome
<1>8. {"process", "elf", "binary"} \subseteq Kinds \ kinds
  BY DEF Kinds
<1>9. g2[<<n, "process">>] = 1 /\ g2[<<n, "elf">>] = g[<<n, "elf">>]
      /\ g2[<<n, "binary">>] = g[<<n, "binary">>]
  BY <1>6, <1>8 DEF LoadOutcome
<1>10. \A kind \in {"elf", "binary"} : g2[<<n, kind>>] = IF kind = ptr THEN 1 ELSE 0
  BY <1>9 DEF LoadOutcome
<1>11. \A kind \in {"process"} \cup kinds : g2[<<n, kind>>] = 1
  BY <1>1, <1>6, <1>9
<1> QED BY <1>3, <1>4, <1>7, <1>10, <1>11 DEF Running

LEMMA HaltsInv ==
    ASSUME IInv, NEW n \in Load, NEW file \in Files, LoadHalts(n, file)
    PROVE  IInv'
<1>1. Begin(n) /\ loads' = n /\ n = loads + 1 /\ n \in 0 .. MaxLoads /\ stage[n] = "none"
  BY BeginIs DEF LoadHalts
<1>2. stage' = stage /\ halted' = TRUE /\ UNCHANGED <<processes, program, current, task, list>>
  BY DEF LoadHalts
<1>3. stage' = [stage EXCEPT ![n] = "none"]
  BY <1>1, <1>2 DEF IInv, TypeOK
<1>4. ListInv' /\ SlotInv'
  BY <1>1, <1>2, <1>3, NotListed
<1>5. PICK ptr : Running(heap, n, ptr, {"stack"}, heap')
  <2>1. PICK f \in Filled(n, file) : f.ptr # "nothing" /\ heap' = Mallock(f.heap, Of(n, {"stack"}))
    BY DEF LoadHalts
  <2>2. LoadOutcome(heap, n, f.heap, f.ptr)
    BY <1>1, FilledIs
  <2> QED BY <2>1, <2>2, RunningIs
<1>6. HeapInv'
  BY <1>1, <1>2, <1>5, LoadHeap DEF Running
<1>7. TypeOK'
  BY <1>1, <1>2, <1>5 DEF IInv, TypeOK, list, Running
<1> QED BY <1>4, <1>6, <1>7 DEF IInv

\* What the two steps that make a task have in common.
LEMMA Joins ==
    ASSUME IInv, NEW n \in Load, NEW file \in Files, Begin(n), NEW f \in Filled(n, file),
           f.ptr # "nothing", heap' = Mallock(f.heap, Of(n, {"stack", "task", "chunk"})),
           program' = [program EXCEPT ![n] = f.ptr], task_list_append(n),
           NEW st \in {"held", "stranded"}, stage' = [stage EXCEPT ![n] = st],
           UNCHANGED <<current, task, halted>>
    PROVE  /\ ListInv' /\ HeapInv' /\ InList' = InList \cup {n}
           /\ processes' \in [Slots -> Load \cup {Null}] => TypeOK'
<1>1. /\ loads' = n /\ n = loads + 1 /\ n \in 0 .. MaxLoads /\ stage[n] = "none"
      /\ \A m \in InList : m < n
  BY BeginIs
<1>2. /\ \A m \in Load : stage'[m] = IF m = n THEN st ELSE stage[m]
      /\ \A m \in Load : program'[m] = IF m = n THEN f.ptr ELSE program[m]
  BY DEF IInv, TypeOK
<1>3. LoadOutcome(heap, n, f.heap, f.ptr) /\ f.ptr \in {"elf", "binary"}
  <2>1. LoadOutcome(heap, n, f.heap, f.ptr)
    BY FilledIs
  <2> QED BY <2>1 DEF LoadOutcome
<1>4. Running(heap, n, f.ptr, {"stack", "task", "chunk"}, heap')
  BY <1>3, RunningIs
<1>5. InList' = InList \cup {n}
  BY <1>1, <1>2 DEF InList
<1>6. ListInv'
  <2>1. PICK L \in SUBSET Load : L = InList /\ InList' = L \cup {n} /\ \A v \in L : v < n
    BY <1>1, <1>5 DEF InList
  <2>2. /\ prev \in [Load -> Load \cup {Null}] /\ next \in [Load -> Load \cup {Null}]
        /\ Linked(L, head, tail, prev, next)
    BY <2>1 DEF IInv, TypeOK, ListInv
  <2>3. Appended(n, head, tail, prev, next, head', prev', next') /\ tail' = n
    BY DEF task_list_append, Appended
  <2>4. Linked(L \cup {n}, head', tail', prev', next')
    BY <2>1, <2>2, <2>3, AppendLinks
  <2>5. task' # Null => task' \in InList'
    BY <1>5 DEF IInv, ListInv
  <2> QED BY <2>1, <2>4, <2>5 DEF ListInv
<1>7. Complete(n)'
  <2>1. program'[n] = f.ptr
    BY <1>2
  <2> QED BY <1>3, <1>4, <2>1 DEF Complete, Running
<1>8. HeapInv'
  <2>1. stage'[n] = st
    BY <1>2
  <2> QED BY <1>1, <1>2, <1>4, <1>7, <2>1, LoadHeap DEF Running
<1>9. /\ prev' \in [Load -> Load \cup {Null}] /\ next' \in [Load -> Load \cup {Null}]
      /\ {current', task', head', tail'} \subseteq Load \cup {Null}
  BY DEF task_list_append, IInv, TypeOK
<1>10. /\ program' \in [Load -> {"nothing", "elf", "binary"}]
       /\ stage' \in [Load -> Stages]
       /\ heap' \in [Objects -> Int]
       /\ halted' \in BOOLEAN
  BY <1>3, <1>4 DEF IInv, TypeOK, Stages, Running
<1>11. processes' \in [Slots -> Load \cup {Null}] => TypeOK'
  BY <1>1, <1>9, <1>10 DEF TypeOK
<1> QED BY <1>5, <1>6, <1>8, <1>11

LEMMA StrandsInv ==
    ASSUME IInv, NEW n \in Load, NEW file \in Files, LoadStrands(n, file)
    PROVE  IInv'
<1>1. Begin(n) /\ loads' = n /\ stage[n] = "none"
      /\ \A s \in Slots : processes[s] \in Nat /\ processes[s] < n
  BY BeginIs DEF LoadStrands
<1>2. PICK f \in Filled(n, file) :
         /\ f.ptr # "nothing"
         /\ heap' = Mallock(f.heap, Of(n, {"stack", "task", "chunk"}))
         /\ program' = [program EXCEPT ![n] = f.ptr]
  BY DEF LoadStrands
<1>3. /\ task_list_append(n) /\ stage' = [stage EXCEPT ![n] = "stranded"]
      /\ UNCHANGED <<processes, current, task, halted>>
  BY DEF LoadStrands
<1>4. /\ ListInv' /\ HeapInv'
      /\ processes' \in [Slots -> Load \cup {Null}] => TypeOK'
  BY <1>1, <1>2, <1>3, Joins
<1>5. SlotInv'
  <2>1. \A m \in Load : stage'[m] = IF m = n THEN "stranded" ELSE stage[m]
    BY <1>3 DEF IInv, TypeOK
  <2>2. n \in Nat
    BY LoadNumbers
  <2>3. \A s \in Slots : processes'[s] <= loads'
    BY <1>1, <1>3, <2>2
  <2> QED BY <1>3, <2>1, <2>3 DEF IInv, SlotInv
<1> QED BY <1>3, <1>4, <1>5 DEF IInv, TypeOK

\* The slot for a new process is free.
LEMMA FreeSlot ==
    ASSUME FreeSlots # {}
    PROVE  process_get_free_slot \in Slots /\ processes[process_get_free_slot] = Null
<1>1. FreeSlots \subseteq Nat
  BY ProcessesConstants DEF FreeSlots, Slots
<1>2. \E s \in FreeSlots : \A r \in FreeSlots : s <= r
  BY <1>1, LeastNumber
<1>3. process_get_free_slot \in FreeSlots
  BY <1>2 DEF process_get_free_slot
<1> QED BY <1>3 DEF FreeSlots

LEMMA SucceedsInv ==
    ASSUME IInv, NEW n \in Load, NEW file \in Files, LoadSucceeds(n, file)
    PROVE  IInv'
<1>1. Begin(n) /\ loads' = n /\ stage[n] = "none"
      /\ \A s \in Slots : processes[s] \in Nat /\ processes[s] < n
  BY BeginIs DEF LoadSucceeds
<1>2. PICK f \in Filled(n, file) :
         /\ f.ptr # "nothing"
         /\ heap' = Mallock(f.heap, Of(n, {"stack", "task", "chunk"}))
         /\ program' = [program EXCEPT ![n] = f.ptr]
  BY DEF LoadSucceeds
<1>3. /\ task_list_append(n) /\ stage' = [stage EXCEPT ![n] = "held"]
      /\ UNCHANGED <<current, task, halted>>
  BY DEF LoadSucceeds
<1>4. /\ ListInv' /\ HeapInv'
      /\ processes' \in [Slots -> Load \cup {Null}] => TypeOK'
  BY <1>1, <1>2, <1>3, Joins
<1>5. PICK slot \in Slots : processes[slot] = Null /\ processes' = [processes EXCEPT ![slot] = n]
  <2>1. process_get_free_slot \in Slots /\ processes[process_get_free_slot] = Null
    BY <1>1, FreeSlot DEF Begin
  <2>2. processes' = [processes EXCEPT ![process_get_free_slot] = n]
    BY DEF LoadSucceeds
  <2> QED BY <2>1, <2>2
<1>6. processes' \in [Slots -> Load \cup {Null}]
      /\ \A s \in Slots : processes'[s] = IF s = slot THEN n ELSE processes[s]
  BY <1>5 DEF IInv, TypeOK
<1>7. SlotInv'
  <2>1. \A m \in Load : stage'[m] = IF m = n THEN "held" ELSE stage[m]
    BY <1>3 DEF IInv, TypeOK
  <2>2. n \in Nat /\ n <= n
    BY LoadNumbers
  <2>3. \A s \in Slots : processes'[s] <= loads'
    BY <1>1, <1>6, <2>2
  <2>4. \A s \in Slots : processes[s] # n
    BY <1>1, <2>2
  <2>5. \A s, r \in Slots : processes'[s] = processes'[r] /\ processes'[s] # Null => s = r
    BY <1>6, <2>4 DEF IInv, SlotInv
  <2>6. ASSUME NEW m \in Load, stage'[m] = "held"
        PROVE  \E s \in Slots : processes'[s] = m
    <3>1. CASE m = n
      BY <1>6, <3>1
    <3>2. CASE m # n
      <4>1. PICK s \in Slots : processes[s] = m
        BY <2>1, <2>6, <3>2 DEF IInv, SlotInv
      <4>2. s # slot
        BY <1>5, <4>1, LoadNumbers
      <4> QED BY <1>6, <4>1, <4>2
    <3> QED BY <3>1, <3>2
  <2> QED BY <2>3, <2>5, <2>6 DEF SlotInv
<1> QED BY <1>4, <1>6, <1>7 DEF IInv

LEMMA FreeInv ==
    ASSUME IInv, NEW n \in Load, process_free(n)
    PROVE  IInv'
<1>1. /\ stage[n] = "held" /\ task_list_remove(n)
      /\ UNCHANGED <<loads, processes, program, current, halted>>
      /\ \A m \in Load : stage'[m] = IF m = n THEN "freed" ELSE stage[m]
      /\ stage' \in [Load -> Stages]
  BY DEF process_free, IInv, TypeOK, Stages
<1>2. n \in InList /\ InList' = InList \ {n} /\ InList \in SUBSET Load
  BY <1>1 DEF InList
<1>3. PICK L \in SUBSET Load : L = InList
  BY <1>2
<1>4. /\ prev \in [Load -> Load \cup {Null}] /\ next \in [Load -> Load \cup {Null}]
      /\ Linked(L, head, tail, prev, next) /\ n \in L /\ InList' = L \ {n}
  BY <1>2, <1>3 DEF IInv, TypeOK, ListInv
<1>5. /\ Removed(n, head, tail, prev, next, head', tail', prev', next')
      /\ task' = IF task # n THEN task ELSE IF next[n] # Null THEN next[n] ELSE head'
  BY <1>1 DEF task_list_remove, Removed
<1>6. Linked(L \ {n}, head', tail', prev', next')
  BY <1>4, <1>5, RemoveLinks
<1>7. task' # Null => task' \in L \ {n}
  <2>1. head' # Null => head' \in L \ {n}
    BY <1>6 DEF Linked
  <2>2. next[n] # Null => next[n] \in L /\ next[n] # n
    <3>1. next[n] # Null => next[n] \in L /\ n < next[n] /\ n \in Nat
      BY <1>4, LoadNumbers DEF Linked
    <3> QED BY <3>1
  <2>3. task # Null => task \in L
    BY <1>3 DEF IInv, ListInv
  <2> QED BY <1>5, <2>1, <2>2, <2>3
<1>8. ListInv'
  BY <1>4, <1>6, <1>7 DEF ListInv
<1>9. PICK kinds \in SUBSET Kinds :
         /\ kinds = {"task", "chunk", "stack", program[n], "process"}
         /\ heap' = Freek(heap, Of(n, kinds))
  <2>1. program[n] \in {"elf", "binary"}
    BY <1>1 DEF IInv, HeapInv, Complete
  <2> QED BY <2>1 DEF process_free, FreeObjects, Kinds
<1>10. Lowered(heap, n, kinds, heap') /\ heap' \in [Objects -> Int]
  BY <1>9, FreekAt, MallockType DEF IInv, TypeOK
<1>11. HeapInv'
  <2>1. Complete(n)
    BY <1>1 DEF IInv, HeapInv
  <2>2. \A kind \in kinds : heap[<<n, kind>>] = 1
    BY <1>9, <2>1 DEF Complete
  <2>3. \A kind \in Kinds : heap'[<<n, kind>>] = IF kind \in kinds THEN 0 ELSE heap[<<n, kind>>]
    BY <1>10, <2>2 DEF Lowered
  <2>4. \A m \in Load \ {n}, kind \in Kinds : heap'[<<m, kind>>] = heap[<<m, kind>>]
    BY <1>10 DEF Lowered
  <2>5. ~(n > loads')
    BY <1>1 DEF IInv, HeapInv
  <2>6. \A kind \in Kinds : heap'[<<n, kind>>] \in {0, 1}
    BY <2>3 DEF IInv, HeapInv
  <2>7. \A kind \in Kinds \ (Parts \cup {"allocation"}) : heap'[<<n, kind>>] = 0
    <3>1. \A kind \in Kinds \ (Parts \cup {"allocation"}) :
             kind \in {"task", "chunk", "stack", "process", "elf", "binary"}
      BY DEF Kinds, Parts
    <3>2. \A kind \in {"elf", "binary"} : kind \in kinds \/ heap[<<n, kind>>] = 0
      BY <1>9, <2>1 DEF Complete
    <3> QED BY <1>9, <2>3, <3>1, <3>2
  <2>8. ASSUME NEW m \in Load \ {n}, stage'[m] \in {"held", "stranded"}
        PROVE  Complete(m)'
    <3>1. {"process", "stack", "task", "chunk", "elf", "binary"} \subseteq Kinds
      BY DEF Kinds
    <3>2. Complete(m)
      BY <1>1, <2>8 DEF IInv, HeapInv
    <3> QED BY <1>1, <2>4, <3>1, <3>2 DEF Complete
  <2>9. ASSUME NEW m \in Load \ {n}
        PROVE  /\ \A kind \in Kinds : heap'[<<m, kind>>] \in {0, 1}
               /\ m > loads' => stage'[m] = "none" /\ \A kind \in Kinds : heap'[<<m, kind>>] = 0
               /\ stage'[m] = "failed" =>
                     \A kind \in Kinds \ (Parts \cup {"binary"}) : heap'[<<m, kind>>] = 0
               /\ stage'[m] = "freed" =>
                     \A kind \in Kinds \ (Parts \cup {"allocation"}) : heap'[<<m, kind>>] = 0
    BY <1>1, <2>4 DEF IInv, HeapInv
  <2>10. stage'[n] = "freed"
    BY <1>1
  <2> QED BY <2>5, <2>6, <2>7, <2>8, <2>9, <2>10 DEF HeapInv
<1>12. SlotInv'
  BY <1>1 DEF IInv, SlotInv
<1>13. TypeOK'
  <2>1. /\ prev' \in [Load -> Load \cup {Null}] /\ next' \in [Load -> Load \cup {Null}]
        /\ {current', task', head', tail'} \subseteq Load \cup {Null}
    BY <1>1, <1>4, <1>5 DEF IInv, TypeOK, Removed
  <2> QED BY <1>1, <1>10, <2>1 DEF IInv, TypeOK
<1> QED BY <1>8, <1>11, <1>12, <1>13 DEF IInv

LEMMA SwitchInv ==
    ASSUME IInv, NEW n \in Load, process_switch(n)
    PROVE  IInv'
<1>1. /\ stage[n] = "held" /\ current' = n /\ task' = n
      /\ UNCHANGED <<loads, heap, processes, program, list, halted, stage>>
  BY DEF process_switch
<1>2. TypeOK'
  BY <1>1 DEF IInv, TypeOK, list
<1>3. InList' = InList /\ n \in InList
  BY <1>1 DEF InList
<1>4. ListInv'
  BY <1>1, <1>3 DEF IInv, ListInv, list
<1>5. HeapInv' /\ SlotInv'
  BY <1>1 DEF IInv, HeapInv, SlotInv, Complete
<1> QED BY <1>2, <1>4, <1>5 DEF IInv

LEMMA AllocatesInv ==
    ASSUME IInv, ProgramAllocates
    PROVE  IInv'
<1>1. /\ task # Null /\ heap[<<task, "allocation">>] = 0
      /\ UNCHANGED <<loads, processes, program, current, task, list, halted, stage>>
  BY DEF ProgramAllocates
<1>2. PICK n \in Load : n = task /\ stage[n] \in {"held", "stranded"}
  BY <1>1 DEF IInv, ListInv, InList
<1>3. heap' = Mallock(heap, Of(n, {"allocation"})) /\ {"allocation"} \in SUBSET Kinds
  BY <1>2 DEF ProgramAllocates, Kinds
<1>4. Raised(heap, n, {"allocation"}, heap') /\ heap' \in [Objects -> Int]
  BY <1>3, MallockAt, MallockType DEF IInv, TypeOK
<1>5. ListInv' /\ SlotInv'
  BY <1>1 DEF IInv, ListInv, SlotInv, InList, list
<1>6. TypeOK'
  BY <1>1, <1>4 DEF IInv, TypeOK, list
<1>7. heap'[<<n, "allocation">>] = 1
  BY <1>1, <1>2, <1>3, <1>4 DEF Raised
<1>8. \A m \in Load, kind \in Kinds :
         m # n \/ kind # "allocation" => heap'[<<m, kind>>] = heap[<<m, kind>>]
  BY <1>4 DEF Raised
<1>9. {"process", "stack", "task", "chunk", "elf", "binary"} \subseteq Kinds \ {"allocation"}
  BY DEF Kinds
<1>10. ~(n > loads)
  BY <1>2 DEF IInv, HeapInv
<1>11. \A m \in Load : Complete(m) => Complete(m)'
  BY <1>1, <1>8, <1>9 DEF Complete
<1>12. ASSUME NEW m \in Load
       PROVE  /\ \A kind \in Kinds : heap'[<<m, kind>>] \in {0, 1}
              /\ m > loads => stage[m] = "none" /\ \A kind \in Kinds : heap'[<<m, kind>>] = 0
              /\ stage[m] \in {"held", "stranded"} => Complete(m)'
              /\ stage[m] = "failed" =>
                    \A kind \in Kinds \ (Parts \cup {"binary"}) : heap'[<<m, kind>>] = 0
              /\ stage[m] = "freed" =>
                    \A kind \in Kinds \ (Parts \cup {"allocation"}) : heap'[<<m, kind>>] = 0
  <2>1. \A kind \in Kinds : heap'[<<m, kind>>] \in {0, 1}
    BY <1>7, <1>8 DEF IInv, HeapInv
  <2>2. CASE m # n
    BY <1>8, <1>11, <2>1, <2>2 DEF IInv, HeapInv
  <2>3. CASE m = n
    <3>1. Complete(m)'
      BY <1>2, <1>11, <2>3 DEF IInv, HeapInv
    <3> QED BY <1>2, <1>10, <2>1, <2>3, <3>1
  <2> QED BY <2>2, <2>3
<1>13. HeapInv'
  BY <1>1, <1>12 DEF HeapInv
<1> QED BY <1>5, <1>6, <1>13 DEF IInv

LEMMA NextInv == IInv /\ [Next]_vars => IInv'
<1> SUFFICES ASSUME IInv, [Next]_vars PROVE IInv'
  OBVIOUS
<1>1. ASSUME NEW n \in Load, NEW file \in Files, process_load(n, file) PROVE IInv'
  BY <1>1, FailsInv, HaltsInv, StrandsInv, SucceedsInv DEF process_load
<1>2. CASE UNCHANGED vars
  <2>1. TypeOK'
    BY <1>2 DEF vars, list, IInv, TypeOK
  <2>2. ListInv'
    BY <1>2 DEF vars, list, IInv, ListInv, InList
  <2>3. UNCHANGED <<loads, heap, processes, program, stage>>
    BY <1>2 DEF vars
  <2>4. \A n \in Load : Complete(n)' = Complete(n)
    BY <2>3 DEF Complete
  <2>5. HeapInv'
    BY <2>3, <2>4 DEF IInv, HeapInv
  <2>6. SlotInv'
    BY <2>3 DEF IInv, SlotInv
  <2> QED BY <2>1, <2>2, <2>5, <2>6 DEF IInv
<1>3. CASE process_load_refused
  BY <1>2, <1>3 DEF process_load_refused
<1>4. ASSUME NEW n \in Load, process_switch(n) PROVE IInv'
  BY <1>4, SwitchInv
<1>5. ASSUME NEW n \in Load, process_free(n) PROVE IInv'
  BY <1>5, FreeInv
<1>6. CASE ProgramAllocates
  BY <1>6, AllocatesInv
<1> QED BY <1>1, <1>2, <1>3, <1>4, <1>5, <1>6 DEF Next

\* The invariant: the list is the loads that were put in and not taken out,
\* in the order of their numbers, and every load has of the heap what its
\* stage says.
THEOREM ProcessesInvariant == Spec => []IInv
BY InitInv, NextInv, PTL DEF Spec

\* Pointers point to loads or nowhere, for any number of loads and slots.
THEOREM ProcessesTypeCorrect == Spec => []TypeOK
<1>1. IInv => TypeOK
  BY DEF IInv
<1> QED BY <1>1, ProcessesInvariant, PTL

\* prev undoes next along the whole list and tail is its end, whichever task
\* is taken out and whatever was stranded in it (task_list_remove).
THEOREM ListWellLinked == Spec => []PrevIsBack
<1>1. IInv => PrevIsBack
  BY ListIsBack DEF IInv
<1> QED BY <1>1, ProcessesInvariant, PTL

\* No path through process_load, however its allocations fail, and no order
\* of process_free calls frees an object twice or before it was allocated.
THEOREM NothingFreedTwice == Spec => []FreedOnce
<1>1. IInv => FreedOnce
  BY DEF IInv, HeapInv, FreedOnce, Objects
<1> QED BY <1>1, ProcessesInvariant, PTL

\* A process that process_load returned has all it runs on, and one slot.
THEOREM HeldIsComplete == Spec => []HeldComplete
<1>1. IInv => HeldComplete
  <2> SUFFICES ASSUME IInv, NEW n \in Load, stage[n] = "held"
               PROVE  /\ program[n] # "nothing"
                      /\ \A kind \in {"process", "stack", "task", "chunk", program[n]} :
                            heap[<<n, kind>>] = 1
                      /\ Cardinality({s \in Slots : processes[s] = n}) = 1
    BY DEF HeldComplete
  <2>1. Complete(n)
    BY DEF IInv, HeapInv
  <2>2. PICK slot \in Slots : processes[slot] = n
    BY DEF IInv, SlotInv
  <2>3. {s \in Slots : processes[s] = n} = {slot}
    BY <2>2, LoadNumbers DEF IInv, SlotInv
  <2>4. Cardinality({s \in Slots : processes[s] = n}) = 1
    BY <2>3, FS_Singleton
  <2> QED BY <2>1, <2>4 DEF Complete
<1> QED BY <1>1, ProcessesInvariant, PTL

\* Neither the list nor the current task leads to what was freed, the task of
\* a load that failed half-way included.
THEOREM ListIsLive == Spec => []ListedLive
<1>1. IInv => ListedLive
  <2> SUFFICES ASSUME IInv PROVE ListedLive
    OBVIOUS
  <2>1. Listed = InList
    BY ListedIs DEF IInv
  <2>2. \A t \in InList : Complete(t)
    BY DEF IInv, HeapInv, InList
  <2> QED BY <2>1, <2>2 DEF ListedLive, Complete, IInv, ListInv
<1> QED BY <1>1, ProcessesInvariant, PTL

\* What process_load took for the process itself is given back when the load
\* fails, whatever made it fail, and when the process is freed.
THEOREM GivenBack == Spec => []ProcessGivenBack
<1>1. IInv => ProcessGivenBack
  <2> SUFFICES ASSUME IInv, NEW n \in Load
               PROVE  /\ stage[n] \in {"failed", "freed"} =>
                            \A kind \in {"process", "elf", "stack", "task", "chunk"} :
                                heap[<<n, kind>>] = 0
                      /\ stage[n] = "freed" => heap[<<n, "binary">>] = 0
    BY DEF ProcessGivenBack
  <2> QED BY DEF IInv, HeapInv, Parts, Kinds
<1> QED BY <1>1, ProcessesInvariant, PTL

-----------------------------------------------------------------------------
(* The list is the sequence of its tasks in the order of their creation.   *)

\* o is L, the smallest number first.
Sorted(o, L) ==
    /\ o \in Seq(L)
    /\ \A i, j \in 1 .. Len(o) : i < j => o[i] < o[j]
    /\ \A u \in L : \E i \in 1 .. Len(o) : o[i] = u

\* o is the way from h along s.
IsWay(o, h, s) == \A k \in DOMAIN o : o[k] = IF k = 1 THEN h ELSE s[o[k - 1]]

LEMMA SortedIsWay ==
    ASSUME NEW L \in SUBSET Load, NEW h, NEW t, NEW p, NEW s, Linked(L, h, t, p, s),
           NEW o, Sorted(o, L)
    PROVE  /\ o \in [1 .. Len(o) -> L] /\ Len(o) \in Nat
           /\ Cardinality(L) = Len(o)
           /\ IsWay(o, h, s)
           /\ Len(o) > 0 => s[o[Len(o)]] = Null
<1> DEFINE N == Len(o)
<1>1. N \in Nat /\ o \in [1 .. N -> L] /\ DOMAIN o = 1 .. N
  BY LenProperties DEF Sorted
<1>2. \A i \in 1 .. N : o[i] \in L /\ o[i] \in Nat /\ o[i] # Null
  BY <1>1, LoadNumbers
<1>3. /\ \A i, j \in 1 .. N : i < j => o[i] < o[j]
      /\ \A u \in L : \E i \in 1 .. N : o[i] = u
  BY DEF Sorted
<1> HIDE DEF N
<1>4. \A i, j \in 1 .. N : o[i] < o[j] => i < j
  <2> SUFFICES ASSUME NEW i \in 1 .. N, NEW j \in 1 .. N, o[i] < o[j], ~(i < j)
               PROVE  FALSE
    OBVIOUS
  <2>1. i = j \/ j < i
    BY <1>1
  <2> QED BY <1>2, <1>3, <2>1
<1>5. Cardinality(L) = N
  <2>1. \A i, j \in 1 .. N : o[i] = o[j] => i = j
    <3> SUFFICES ASSUME NEW i \in 1 .. N, NEW j \in 1 .. N, o[i] = o[j], i # j
                 PROVE  FALSE
      OBVIOUS
    <3>1. i < j \/ j < i
      BY <1>1
    <3> QED BY <1>2, <1>3, <3>1
  <2>2. o \in Bijection(1 .. N, L)
    BY <1>1, <1>3, <2>1 DEF Bijection, Injection, Surjection, IsInjective
  <2>3. ExistsBijection(1 .. N, L)
    BY <2>2 DEF ExistsBijection
  <2> QED BY <1>1, <2>3, FS_CountingElements
<1>6. \A i \in 1 .. N : IF s[o[i]] = Null THEN \A v \in L : v <= o[i]
                        ELSE /\ s[o[i]] \in L /\ o[i] < s[o[i]]
                             /\ \A v \in L : v <= o[i] \/ s[o[i]] <= v
  BY <1>2 DEF Linked
<1>7. ASSUME NEW k \in 1 .. N, k = 1
      PROVE  o[k] = h
  <2>1. h \in L /\ \A v \in L : h <= v
    BY <1>2 DEF Linked
  <2>2. PICK m \in 1 .. N : o[m] = h
    BY <1>3, <2>1
  <2>3. o[m] <= o[k]
    BY <1>2, <2>1, <2>2
  <2>4. m = k \/ k < m
    BY <1>1, <1>7
  <2>5. k < m => o[k] < o[m]
    BY <1>3
  <2> QED BY <1>2, <2>2, <2>3, <2>4, <2>5
<1>8. ASSUME NEW k \in 1 .. N, k # 1
      PROVE  o[k] = s[o[k - 1]]
  <2>1. k - 1 \in 1 .. N /\ k - 1 < k
    BY <1>1, <1>8
  <2>2. PICK i \in 1 .. N : i = k - 1
    BY <2>1
  <2>3. o[i] < o[k] /\ o[i] \in Nat /\ o[k] \in Nat /\ o[k] \in L
    BY <1>2, <1>3, <2>1, <2>2
  <2>4. /\ s[o[i]] \in L /\ o[i] < s[o[i]] /\ s[o[i]] <= o[k]
    BY <1>6, <2>3
  <2>5. PICK m \in 1 .. N : o[m] = s[o[i]]
    BY <1>3, <2>4
  <2>6. i < m
    BY <1>4, <2>4, <2>5
  <2>7. m = k \/ k < m
    BY <1>1, <2>1, <2>2, <2>6
  <2>8. k < m => o[k] < o[m]
    BY <1>3
  <2> QED BY <1>2, <2>2, <2>4, <2>5, <2>7, <2>8
<1>9. IsWay(o, h, s)
  BY <1>1, <1>7, <1>8 DEF IsWay
<1>10. ASSUME N > 0
       PROVE  s[o[N]] = Null
  <2>1. N \in 1 .. N
    BY <1>1, <1>10
  <2> SUFFICES ASSUME s[o[N]] # Null PROVE FALSE
    OBVIOUS
  <2>2. s[o[N]] \in L /\ o[N] < s[o[N]]
    BY <1>6, <2>1
  <2>3. PICK m \in 1 .. N : o[m] = s[o[N]]
    BY <1>3, <2>2
  <2>4. N < m
    BY <1>4, <2>1, <2>2, <2>3
  <2> QED BY <1>1, <2>4
<1> QED BY <1>1, <1>5, <1>9, <1>10 DEF N

\* There is one way only.
LEMMA OneWay ==
    ASSUME NEW N \in Nat, NEW L, NEW h, NEW s, NEW o \in [1 .. N -> L], NEW q \in [1 .. N -> L],
           IsWay(o, h, s), IsWay(q, h, s)
    PROVE  q = o
<1> SUFFICES ASSUME {k \in 1 .. N : q[k] # o[k]} # {} PROVE FALSE
  OBVIOUS
<1>1. PICK D : D = {k \in 1 .. N : q[k] # o[k]}
  OBVIOUS
<1>2. PICK k \in D : \A m \in D : k <= m
  <2>1. D \subseteq Nat /\ D # {}
    BY <1>1
  <2> QED BY <2>1, LeastNumber
<1>3. k \in 1 .. N /\ q[k] # o[k]
  BY <1>1
<1>4. /\ o[k] = IF k = 1 THEN h ELSE s[o[k - 1]]
      /\ q[k] = IF k = 1 THEN h ELSE s[q[k - 1]]
  BY <1>3 DEF IsWay
<1>5. k # 1
  BY <1>3, <1>4
<1>6. k - 1 \in 1 .. N /\ ~(k <= k - 1)
  BY <1>3, <1>5
<1>7. q[k - 1] = o[k - 1]
  BY <1>1, <1>2, <1>6
<1> QED BY <1>3, <1>4, <1>5, <1>7

LEMMA OrderIs == TypeOK /\ ListInv => \A o : Sorted(o, InList) => Order = o
<1> SUFFICES ASSUME TypeOK, ListInv, NEW o, Sorted(o, InList)
             PROVE  Order = o
  OBVIOUS
<1>1. PICK L \in SUBSET Load : L = InList
  BY DEF InList
<1>2. Listed = L /\ Linked(L, head, tail, prev, next)
  BY <1>1, ListedIs DEF ListInv
<1>3. PICK N \in Nat : /\ N = Cardinality(L) /\ o \in [1 .. N -> L]
                       /\ IsWay(o, head, next)
  BY <1>1, <1>2, SortedIsWay
<1>4. Order = CHOOSE q \in [1 .. N -> L] : IsWay(q, head, next)
  BY <1>2, <1>3 DEF Order, IsWay
<1>5. \E q \in [1 .. N -> L] : IsWay(q, head, next)
  BY <1>3
<1>6. Order \in [1 .. N -> L] /\ IsWay(Order, head, next)
  BY <1>4, <1>5
<1> QED BY <1>3, <1>6, OneWay

LEMMA OrderIsNext == (TypeOK /\ ListInv => \A o : Sorted(o, InList) => Order = o)'
BY OrderIs, PTL

LEMMA SortedAppend ==
    ASSUME NEW L \in SUBSET Load, NEW o, Sorted(o, L), NEW n \in Load, \A v \in L : v < n
    PROVE  Sorted(Append(o, n), L \cup {n})
<1> DEFINE N == Len(o)
           w == Append(o, n)
           M == L \cup {n}
<1>1. o \in Seq(L) /\ o \in Seq(M)
  BY SeqMonotonic DEF Sorted
<1>2. /\ N \in Nat /\ w \in Seq(M) /\ Len(w) = N + 1 /\ w[N + 1] = n
      /\ \A i \in 1 .. N : w[i] = o[i]
  BY <1>1, AppendProperties
<1> HIDE DEF w, M, N
<1>3. \A i \in 1 .. N + 1 : i \in 1 .. N \/ i = N + 1
  BY <1>2
<1>4. /\ \A i, j \in 1 .. N : i < j => o[i] < o[j]
      /\ \A u \in L : \E i \in 1 .. N : o[i] = u
      /\ \A i \in 1 .. N : o[i] \in L
  BY <1>1, ElementOfSeq DEF Sorted, N
<1>5. ASSUME NEW i \in 1 .. N + 1, NEW j \in 1 .. N + 1, i < j
      PROVE  w[i] < w[j]
  <2>1. i \in 1 .. N
    BY <1>2, <1>5
  <2> QED BY <1>2, <1>3, <1>4, <1>5, <2>1
<1>6. ASSUME NEW u \in M
      PROVE  \E i \in 1 .. N + 1 : w[i] = u
  <2>1. CASE u = n
    <3>1. N + 1 \in 1 .. N + 1
      BY <1>2
    <3> QED BY <1>2, <2>1, <3>1
  <2>2. CASE u \in L
    <3>1. PICK i \in 1 .. N : o[i] = u
      BY <1>4, <2>2
    <3>2. i \in 1 .. N + 1
      BY <1>2
    <3> QED BY <1>2, <3>1, <3>2
  <2> QED BY <2>1, <2>2 DEF M
<1>7. Sorted(w, M)
  BY <1>2, <1>5, <1>6 DEF Sorted
<1> QED BY <1>7 DEF w, M

\* What is left of a sequence without its k-th element.
LEMMA WithoutIs ==
    ASSUME NEW S, NEW o \in Seq(S), NEW k \in 1 .. Len(o),
           NEW w, w = SubSeq(o, 1, k - 1) \o SubSeq(o, k + 1, Len(o))
    PROVE  /\ w \in Seq(S) /\ Len(w) = Len(o) - 1 /\ Len(o) \in Nat
           /\ \A j \in 1 .. Len(o) - 1 : w[j] = IF j < k THEN o[j] ELSE o[j + 1]
<1>1. PICK N : N = Len(o)
  OBVIOUS
<1>2. N \in Nat /\ k \in 1 .. N
  BY <1>1, LenProperties
<1>3. PICK a, b : a = SubSeq(o, 1, k - 1) /\ b = SubSeq(o, k + 1, N)
  OBVIOUS
<1>4. /\ a \in Seq(S) /\ Len(a) = k - 1
      /\ \A j \in 1 .. k - 1 : a[j] = o[j]
  <2>1. \A i \in 1 .. k - 1 : i \in 1 .. Len(o)
    BY <1>1, <1>2
  <2>2. PICK m \in Nat : m = k - 1
    BY <1>2
  <2>3. \A i \in 1 .. m : o[i] \in S
    BY <2>1, <2>2, ElementOfSeq
  <2>4. /\ SubSeq(o, 1, m) \in Seq(S)
        /\ Len(SubSeq(o, 1, m)) = IF 1 <= m THEN m - 1 + 1 ELSE 0
        /\ \A i \in 1 .. m - 1 + 1 : SubSeq(o, 1, m)[i] = o[1 + i - 1]
    BY <1>1, <1>2, <2>2, <2>3, SubSeqProperties
  <2>5. \A i \in 1 .. m : i \in 1 .. m - 1 + 1 /\ 1 + i - 1 = i
    BY <2>2
  <2>6. (IF 1 <= m THEN m - 1 + 1 ELSE 0) = m
    BY <2>2
  <2> QED BY <1>3, <2>2, <2>4, <2>5, <2>6
<1>5. /\ b \in Seq(S) /\ Len(b) = N - k
      /\ \A j \in 1 .. N - k : b[j] = o[k + j]
  <2>1. PICK m \in Nat : m = k + 1
    BY <1>2
  <2>2. /\ SubSeq(o, m, N) \in Seq(S)
        /\ Len(SubSeq(o, m, N)) = IF m <= N THEN N - m + 1 ELSE 0
        /\ \A i \in 1 .. N - m + 1 : SubSeq(o, m, N)[i] = o[m + i - 1]
    <3>1. \A i \in m .. N : i \in 1 .. Len(o)
      BY <1>1, <1>2, <2>1
    <3>2. \A i \in m .. N : o[i] \in S
      BY <3>1, ElementOfSeq
    <3> QED BY <1>2, <3>2, SubSeqProperties
  <2>3. \A i \in 1 .. N - k : i \in 1 .. N - m + 1 /\ m + i - 1 = k + i
    BY <1>2, <2>1
  <2>4. (IF m <= N THEN N - m + 1 ELSE 0) = N - k
    BY <1>2, <2>1
  <2> QED BY <1>3, <2>1, <2>2, <2>3, <2>4
<1>6. /\ w \in Seq(S) /\ w = a \o b /\ Len(w) = Len(a) + Len(b)
      /\ \A j \in 1 .. Len(a) + Len(b) : w[j] = IF j <= Len(a) THEN a[j] ELSE b[j - Len(a)]
  <2>1. w = a \o b
    BY <1>1, <1>3
  <2>2. /\ a \o b \in Seq(S) /\ Len(a \o b) = Len(a) + Len(b)
        /\ \A j \in 1 .. Len(a) + Len(b) :
              (a \o b)[j] = IF j <= Len(a) THEN a[j] ELSE b[j - Len(a)]
    BY <1>4, <1>5, ConcatProperties
  <2> QED BY <2>1, <2>2
<1>7. ASSUME NEW j \in 1 .. N - 1
      PROVE  w[j] = IF j < k THEN o[j] ELSE o[j + 1]
  <2>1. j \in 1 .. Len(a) + Len(b) /\ Len(a) = k - 1
    BY <1>2, <1>4, <1>5
  <2>2. CASE j < k
    <3>1. j \in 1 .. k - 1 /\ j <= k - 1
      BY <1>2, <2>2
    <3> QED BY <1>4, <1>6, <2>1, <2>2, <3>1
  <2>3. CASE ~(j < k)
    <3>1. j - (k - 1) \in 1 .. N - k /\ ~(j <= k - 1) /\ k + (j - (k - 1)) = j + 1
      BY <1>2, <2>3
    <3> QED BY <1>5, <1>6, <2>1, <2>3, <3>1
  <2> QED BY <2>2, <2>3
<1>8. Len(w) = N - 1
  <2>1. Len(w) = (k - 1) + (N - k)
    BY <1>4, <1>5, <1>6
  <2>2. (k - 1) + (N - k) = N - 1
    BY <1>2
  <2> QED BY <2>1, <2>2
<1> QED BY <1>1, <1>2, <1>6, <1>7, <1>8

LEMMA SortedWithout ==
    ASSUME NEW L \in SUBSET Load, NEW o, Sorted(o, L), NEW k \in 1 .. Len(o),
           NEW w, w = SubSeq(o, 1, k - 1) \o SubSeq(o, k + 1, Len(o))
    PROVE  Sorted(w, L \ {o[k]})
<1>1. PICK N : N = Len(o)
  OBVIOUS
<1>2. o \in Seq(L) /\ k \in 1 .. N
  BY <1>1 DEF Sorted
<1>3. /\ w \in Seq(L) /\ Len(w) = N - 1 /\ N \in Nat
      /\ \A j \in 1 .. N - 1 : w[j] = IF j < k THEN o[j] ELSE o[j + 1]
  BY <1>1, <1>2, WithoutIs
<1>4. /\ \A i, j \in 1 .. N : i < j => o[i] < o[j]
      /\ \A u \in L : \E i \in 1 .. N : o[i] = u
      /\ \A i \in 1 .. N : o[i] \in L /\ o[i] \in Nat
  BY <1>1, <1>2, ElementOfSeq, LoadNumbers DEF Sorted
<1>5. ASSUME NEW i \in 1 .. N - 1, NEW j \in 1 .. N - 1, i < j
      PROVE  w[i] < w[j]
  <2>1. /\ i \in 1 .. N /\ j \in 1 .. N /\ i + 1 \in 1 .. N /\ j + 1 \in 1 .. N
        /\ i + 1 < j + 1 /\ i < j + 1
    BY <1>3, <1>5
  <2>2. j < k => i < k
    BY <1>2, <1>5, <2>1
  <2> QED BY <1>3, <1>4, <1>5, <2>1, <2>2
<1>6. ASSUME NEW i \in 1 .. N - 1
      PROVE  w[i] \in L \ {o[k]}
  <2>1. CASE i < k
    <3>1. i \in 1 .. N /\ w[i] = o[i]
      BY <1>3, <2>1
    <3>2. o[i] < o[k] /\ o[i] \in L /\ o[i] \in Nat /\ o[k] \in Nat
      BY <1>2, <1>4, <2>1, <3>1
    <3>3. o[i] # o[k]
      BY <3>2
    <3> QED BY <3>1, <3>2, <3>3
  <2>2. CASE ~(i < k)
    <3>0. i + 1 \in 1 .. N /\ k < i + 1
      BY <1>2, <1>3, <2>2
    <3>1. PICK m \in 1 .. N : m = i + 1
      BY <3>0
    <3>2. k < m /\ w[i] = o[m]
      BY <1>3, <2>2, <3>0, <3>1
    <3>3. o[k] < o[m] /\ o[m] \in L /\ o[m] \in Nat /\ o[k] \in Nat
      BY <1>2, <1>4, <3>2
    <3>4. o[m] # o[k]
      BY <3>3
    <3> QED BY <3>2, <3>3, <3>4
  <2> QED BY <2>1, <2>2
<1>7. ASSUME NEW u \in L \ {o[k]}
      PROVE  \E i \in 1 .. N - 1 : w[i] = u
  <2>1. PICK m \in 1 .. N : o[m] = u
    BY <1>4
  <2>2. m # k
    BY <2>1
  <2>3. CASE m < k
    <3>1. m \in 1 .. N - 1
      BY <1>2, <1>3, <2>3
    <3> QED BY <1>3, <2>1, <2>3, <3>1
  <2>4. CASE ~(m < k)
    <3>1. m - 1 \in 1 .. N - 1 /\ ~(m - 1 < k) /\ m - 1 + 1 = m
      BY <1>2, <1>3, <2>2, <2>4
    <3> QED BY <1>3, <2>1, <3>1
  <2> QED BY <2>3, <2>4
<1>8. w \in Seq(L \ {o[k]})
  <2>1. DOMAIN w = 1 .. N - 1 /\ N - 1 \in Nat /\ w \in [1 .. N - 1 -> L]
    <3>1. DOMAIN w = 1 .. Len(w) /\ Len(w) \in Nat /\ w \in [1 .. Len(w) -> L]
      BY <1>3, LenProperties
    <3> QED BY <1>3, <3>1
  <2>2. PICK n \in Nat : n = N - 1
    BY <2>1
  <2>3. w \in [1 .. n -> L \ {o[k]}]
    BY <1>6, <2>1, <2>2
  <2>4. PICK M : M = L \ {o[k]}
    OBVIOUS
  <2>5. w \in Seq(M)
    BY <2>3, <2>4, SeqDef
  <2> QED BY <2>4, <2>5
<1> QED BY <1>3, <1>5, <1>6, <1>7, <1>8 DEF Sorted

\* The sequence of the list exists as long as the list does.
HasOrder == \E o : Sorted(o, InList)

LEMMA InitCycle == Init => HasOrder /\ Cycle!Init
<1> SUFFICES ASSUME Init PROVE HasOrder /\ Cycle!Init
  OBVIOUS
<1>1. TypeOK /\ ListInv
  BY InitInv DEF IInv
<1>2. InList = {}
  BY DEF Init, InList
<1>3. << >> \in Seq(InList) /\ Len(<< >>) = 0
  BY EmptySeq
<1>4. 1 .. 0 = {}
  OBVIOUS
<1>5. Sorted(<< >>, InList)
  BY <1>2, <1>3, <1>4 DEF Sorted
<1>6. Order = << >>
  BY <1>1, <1>5, OrderIs
<1>7. task = Null
  BY DEF Init
<1> QED BY <1>5, <1>6, <1>7 DEF HasOrder, Cycle!Init

\* What leaves the pointers alone leaves their sequence alone.
LEMMA SameOrder ==
    ASSUME UNCHANGED list
    PROVE  Order' = Order
BY DEF list, Order, Listed, ClosedUnderNext

\* A new task comes last.
LEMMA JoinsCycle ==
    ASSUME IInv, IInv', HasOrder, NEW n \in Load, InList' = InList \cup {n},
           \A v \in InList : v < n, UNCHANGED task
    PROVE  HasOrder' /\ Cycle!Create
<1>1. PICK L \in SUBSET Load : L = InList
  BY DEF InList
<1>2. PICK o : Sorted(o, L)
  BY <1>1 DEF HasOrder
<1>3. Order = o
  BY <1>1, <1>2, OrderIs DEF IInv
<1>4. Sorted(Append(o, n), L \cup {n})
  BY <1>1, <1>2, SortedAppend
<1>5. Sorted(Append(o, n), InList')
  BY <1>1, <1>4
<1>6. Order' = Append(o, n)
  BY <1>5, OrderIsNext DEF IInv
<1>7. \A i \in DOMAIN o : o[i] # n
  <2>1. \A i \in DOMAIN o : o[i] \in L
    BY <1>2, LenProperties, ElementOfSeq DEF Sorted
  <2>2. \A v \in L : v # n
    <3>1. \A v \in L : v < n /\ v \in Nat /\ n \in Nat
      BY <1>1, LoadNumbers
    <3> QED BY <3>1
  <2> QED BY <2>1, <2>2
<1>8. HasOrder'
  BY <1>5 DEF HasOrder
<1>9. Cycle!Create
  BY <1>3, <1>6, <1>7 DEF Cycle!Create
<1> QED BY <1>8, <1>9

\* A task that goes is taken out, and the next after it, or the first, runs.
LEMMA FreesCycle ==
    ASSUME IInv, IInv', HasOrder, NEW n \in Load, process_free(n)
    PROVE  HasOrder' /\ Cycle!Remove
<1>1. PICK L \in SUBSET Load : L = InList
  BY DEF InList
<1>2. PICK o : Sorted(o, L)
  BY <1>1 DEF HasOrder
<1>3. Order = o /\ n \in L /\ InList' = L \ {n}
  <2>1. stage[n] = "held" /\ \A m \in Load : stage'[m] = IF m = n THEN "freed" ELSE stage[m]
    BY DEF process_free, IInv, TypeOK
  <2>2. n \in InList /\ InList' = InList \ {n}
    BY <2>1 DEF InList
  <2> QED BY <1>1, <1>2, <2>2, OrderIs DEF IInv
<1>4. PICK N \in Nat : N = Len(o) /\ o \in [1 .. N -> L] /\ DOMAIN o = 1 .. N
  BY <1>2, LenProperties DEF Sorted
<1>5. Linked(L, head, tail, prev, next)
  BY <1>1 DEF IInv, ListInv
<1>6. PICK k \in 1 .. N : o[k] = n
  BY <1>2, <1>3, <1>4 DEF Sorted
<1>7. PICK w : w = SubSeq(o, 1, k - 1) \o SubSeq(o, k + 1, Len(o))
  OBVIOUS
<1>8. Sorted(w, L \ {n})
  <2>1. k \in 1 .. Len(o)
    BY <1>4
  <2>2. Sorted(w, L \ {o[k]})
    BY <1>2, <1>7, <2>1, SortedWithout
  <2> QED BY <1>6, <2>2
<1>9. Order' = w /\ HasOrder'
  <2>1. Sorted(w, InList')
    BY <1>3, <1>8
  <2>2. Order' = w
    BY <2>1, OrderIsNext DEF IInv
  <2> QED BY <2>1, <2>2 DEF HasOrder
<1>10. IsWay(o, head, next) /\ (N > 0 => next[o[N]] = Null)
  <2>1. IsWay(o, head, next) /\ (Len(o) > 0 => next[o[Len(o)]] = Null)
    BY <1>2, <1>5, SortedIsWay
  <2> QED BY <1>4, <2>1
<1>11. o[1] = head /\ k \in Nat /\ 1 \in 1 .. N /\ N > 0
  <2>1. 1 \in 1 .. N /\ k \in Nat /\ N > 0
    BY <1>4, <1>6
  <2> QED BY <1>4, <1>10, <2>1 DEF IsWay
<1>12. task' = IF task # n THEN task ELSE IF next[n] # Null THEN next[n] ELSE head'
  <2>1. task_list_remove(n)
    BY DEF process_free
  <2> QED BY <2>1 DEF task_list_remove
<1>13. head' = IF head = n THEN next[n] ELSE head
  BY DEF process_free, task_list_remove
<1>14. ASSUME k < N
       PROVE  next[n] = o[k + 1] /\ next[n] # Null
  <2>1. k + 1 \in 1 .. N /\ k + 1 # 1 /\ (k + 1) - 1 = k
    BY <1>4, <1>6, <1>11, <1>14
  <2>2. o[k + 1] = next[o[k]]
    BY <1>4, <1>10, <2>1 DEF IsWay
  <2>3. o[k + 1] \in L
    BY <1>4, <2>1
  <2> QED BY <1>6, <2>2, <2>3, LoadNumbers
<1>15. ASSUME ~(k < N)
       PROVE  next[n] = Null /\ head' = IF N > 1 THEN o[1] ELSE Null
  <2>1. k = N
    <3>1. N \in Nat /\ k \in 1 .. N
      BY <1>4, <1>6
    <3> QED BY <1>15, <3>1
  <2>2. next[n] = Null
    BY <1>6, <1>10, <1>11, <2>1
  <2>3. CASE N > 1
    <3>1. o[1] < o[k]
      <4>1. 1 < k /\ 1 \in 1 .. Len(o) /\ k \in 1 .. Len(o)
        BY <1>4, <1>11, <2>1, <2>3
      <4> QED BY <1>2, <4>1 DEF Sorted
    <3>2. o[1] # o[k]
      <4>1. o[1] \in Nat /\ o[k] \in Nat
        BY <1>4, <1>11, LoadNumbers
      <4> QED BY <3>1, <4>1
    <3>3. head' = head
      BY <1>6, <1>11, <1>13, <3>2
    <3> QED BY <1>11, <2>2, <2>3, <3>3
  <2>4. CASE ~(N > 1)
    <3>1. k = 1
      BY <1>4, <1>6, <2>4
    <3> QED BY <1>6, <1>11, <1>13, <2>2, <2>4, <3>1
  <2> QED BY <2>3, <2>4
<1>16. task' = IF task # o[k] THEN task
               ELSE IF k < N THEN o[k + 1]
               ELSE IF N > 1 THEN o[1] ELSE Null
  <2>1. CASE k < N
    BY <1>6, <1>12, <1>14, <2>1
  <2>2. CASE ~(k < N)
    BY <1>6, <1>12, <1>15, <2>2
  <2> QED BY <2>1, <2>2
<1>17. Cycle!Without(k) = w
  BY <1>3, <1>7 DEF Cycle!Without
<1>18. Cycle!Remove
  <2>1. k \in DOMAIN Order /\ Len(Order) = N
    BY <1>3, <1>4
  <2> QED BY <1>3, <1>9, <1>16, <1>17, <2>1 DEF Cycle!Remove
<1> QED BY <1>9, <1>18

LEMMA NextCycle ==
    IInv /\ HasOrder /\ [Next]_vars => HasOrder' /\ [Cycle!Next]_<<Order, task>>
<1> SUFFICES ASSUME IInv, HasOrder, [Next]_vars
             PROVE  HasOrder' /\ [Cycle!Next]_<<Order, task>>
  OBVIOUS
<1>1. IInv'
  BY NextInv
<1>2. ASSUME UNCHANGED <<list, task>>, InList' = InList
      PROVE  HasOrder' /\ [Cycle!Next]_<<Order, task>>
  BY <1>2, SameOrder DEF HasOrder
<1>3. ASSUME NEW n \in Load, NEW file \in Files, LoadFails(n, file)
      PROVE  HasOrder' /\ [Cycle!Next]_<<Order, task>>
  <2>1. stage[n] = "none"
    BY <1>3, BeginIs DEF LoadFails
  <2>2. \A m \in Load : stage'[m] = IF m = n THEN "failed" ELSE stage[m]
    BY <1>3 DEF LoadFails, IInv, TypeOK
  <2>3. InList' = InList
    BY <2>1, <2>2 DEF InList
  <2> QED BY <1>2, <1>3, <2>3 DEF LoadFails
<1>4. ASSUME NEW n \in Load, NEW file \in Files, LoadHalts(n, file)
      PROVE  HasOrder' /\ [Cycle!Next]_<<Order, task>>
  BY <1>2, <1>4 DEF LoadHalts, InList
<1>5. ASSUME NEW n \in Load, NEW file \in Files, LoadStrands(n, file) \/ LoadSucceeds(n, file)
      PROVE  HasOrder' /\ [Cycle!Next]_<<Order, task>>
  <2>1. PICK st \in {"held", "stranded"} : stage' = [stage EXCEPT ![n] = st]
    BY <1>5 DEF LoadStrands, LoadSucceeds
  <2>2. stage[n] = "none" /\ UNCHANGED task /\ \A m \in InList : m < n
    BY <1>5, BeginIs DEF LoadStrands, LoadSucceeds
  <2>3. \A m \in Load : stage'[m] = IF m = n THEN st ELSE stage[m]
    BY <2>1 DEF IInv, TypeOK
  <2>4. InList' = InList \cup {n}
    BY <2>2, <2>3 DEF InList
  <2> QED BY <1>1, <2>2, <2>4, JoinsCycle DEF Cycle!Next
<1>6. ASSUME NEW n \in Load, process_switch(n)
      PROVE  HasOrder' /\ [Cycle!Next]_<<Order, task>>
  <2>1. Order' = Order /\ task' = n /\ InList' = InList /\ n \in InList
    BY <1>6, SameOrder DEF process_switch, InList
  <2>2. PICK o : Sorted(o, InList)
    BY DEF HasOrder
  <2>3. Order = o
    BY <2>2, OrderIs DEF IInv
  <2>4. PICK i \in DOMAIN o : o[i] = n
    BY <2>1, <2>2, LenProperties DEF Sorted
  <2>5. Cycle!Switch
    BY <2>1, <2>3, <2>4 DEF Cycle!Switch
  <2> QED BY <2>1, <2>2, <2>5 DEF Cycle!Next, HasOrder
<1>7. ASSUME NEW n \in Load, process_free(n)
      PROVE  HasOrder' /\ [Cycle!Next]_<<Order, task>>
  BY <1>1, <1>7, FreesCycle DEF Cycle!Next
<1>8. ASSUME ProgramAllocates
      PROVE  HasOrder' /\ [Cycle!Next]_<<Order, task>>
  BY <1>2, <1>8 DEF ProgramAllocates, InList
<1>9. ASSUME UNCHANGED vars
      PROVE  HasOrder' /\ [Cycle!Next]_<<Order, task>>
  BY <1>2, <1>9 DEF vars, InList
<1> QED BY <1>3, <1>4, <1>5, <1>6, <1>7, <1>8, <1>9
        DEF Next, process_load, process_load_refused

\* The doubly linked list with head, tail and current, whatever is appended,
\* switched to and taken out of it, behaves as the sequence of its tasks in
\* the order of their creation and the one that runs: the tasks reached from
\* head along next are that sequence, and after the removal of the running
\* one its successor runs, or the first (task.c, the list operations).
THEOREM ImplementsCycle == Spec => CycleSpec
<1>1. Init => HasOrder /\ Cycle!Init
  BY InitCycle
<1>2. IInv /\ HasOrder /\ [Next]_vars => HasOrder' /\ [Cycle!Next]_<<Order, task>>
  BY NextCycle
<1> QED BY <1>1, <1>2, ProcessesInvariant, PTL DEF Spec, CycleSpec, Cycle!Spec
=============================================================================
