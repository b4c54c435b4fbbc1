----------------------------- MODULE FileProofs -----------------------------
(***************************************************************************)
(* The file system, for any disk, path and size: what is allocated for     *)
(* each call of file_open and who reaches it (FileTable), and what a read  *)
(* copies (FatFile).                                                       *)
(***************************************************************************)
EXTENDS FileTable, FatFile, WellFoundedInduction, TLAPS

\* A set of numbers has a least one.
LEMMA LeastNumber ==
    ASSUME NEW S, S \subseteq Nat, S # {}
    PROVE  \E n \in S : \A m \in S : n <= m
<1>1. PICK R : R = OpToRel(<, Nat)
  OBVIOUS
<1>2. IsWellFoundedOn(R, Nat)
  BY <1>1, NatLessThanWellFounded, Zenon
<1>3. PICK n \in S : \A m \in S : ~(<<m, n>> \in R)
  BY <1>2, WFMin, Zenon
<1>4. \A m \in S : m < n => <<m, n>> \in R
  BY <1>1, Zenon DEF OpToRel
<1>5. ASSUME NEW m \in S
      PROVE  n <= m
  <2>1. n \in Nat /\ m \in Nat /\ ~(m < n)
    BY <1>3, <1>4
  <2> QED BY <2>1
<1> QED BY <1>5

-----------------------------------------------------------------------------
(* Files are opened and closed.                                           *)

Running == {"search", "count", "copy", "returned"}
Kinds == {"none", "file", "null", "lost"}

TypeOK ==
    /\ call \in 0 .. MaxOpens
    /\ pc \in {"boot", "idle", "panic", "stopped"} \cup Running
    /\ pc = "boot" => call = 0
    /\ parts \in Seq(STRING)
    /\ pc \in Running => call \in Calls /\ k \in 1 .. Len(parts)
    /\ pc = "returned" => ret \in {"file", "null", "error"}
    /\ table \in [Fds -> {NoCall} \cup Calls]
    /\ handed \in [Calls -> Values]
    /\ opened = [n \in Calls |-> opened[n]]
    /\ \A n \in Calls :
          opened[n] \in [kind : Kinds, entry : {opened[n].entry}, number : Nat]

\* What is allocated for call n, and what of it is no object of a path.
Left(h, n) == {o \in h : o[1] = n}
Rest(h, n, j) == Left(h, n) \ PathObjects(n, j)
PartsIn(left) == {o \in left : o[2] = "part"}

InTable(n) == \E s \in Fds : table[s] = n

\* The calls to come, and the one that is executed, hold nothing yet.
Ahead ==
    /\ \A o \in heap : o[1] \in 0 .. call
    /\ \A n \in Calls :
          n > call \/ (n = call /\ pc \in Running) =>
              handed[n] = NotHeld /\ ~InTable(n) /\ opened[n].kind = "none"

\* A call that has returned: kind is its item's, its file's objects are objects.
SettledAs(left, kind, objects, open) ==
    /\ \A o, q \in PartsIn(left) : o = q
    /\ open => kind \in {"file", "null"} /\ left \ PartsIn(left) = objects
    /\ \/ open \/ left = PartsIn(left)
       \/ kind = "lost" /\ \A o \in left \ PartsIn(left) : o[2] \in {"data", "item", "entries"}

Settled(n) == SettledAs(Left(heap, n), opened[n].kind, Belongings(n), InTable(n))

\* The call that is executed has the path, perhaps a PathPart more, and what
\* fat16_open has got at this place.
Above == IF k > 1 THEN ItemOf(call, k - 1) ELSE {}
Searched ==
    CASE pc = "search" -> {Data(call)} \cup Above
      [] pc = "count" -> {Data(call), Obj(call, "item", k)} \cup Above
      [] pc = "copy" -> {Data(call)} \cup ItemOf(call, k) \cup Above
      [] pc = "returned" -> CASE ret = "file" -> {Data(call)} \cup ItemOf(call, k)
                              [] ret = "null" -> {Data(call)}
                              [] OTHER -> {}

\* got, with a PathPart for an n-th call's path of j parts or without.
WithSpare(rest, n, j, got) == rest = got \/ rest = Spare(n, j) \cup got

Working ==
    pc \in Running => WithSpare(Rest(heap, call, Len(parts)), call, Len(parts), Searched)

Done(n) == n # call \/ pc = "idle" \/ InTable(n)
AllSettled == \A n \in Calls : Done(n) => Settled(n)

NoneLost == \A n \in Calls : opened[n].kind # "lost"
Linked ==
    NoneLost =>
        /\ \A n \in Calls : handed[n] \in Fds => table[handed[n]] = n
        /\ \A s \in Fds : table[s] # NoCall => handed[table[s]] = s

IInv == TypeOK /\ Ahead /\ Working /\ AllSettled /\ Linked

-----------------------------------------------------------------------------
\* Objects.
LEMMA Objects ==
    ASSUME NEW n, NEW kind, NEW x
    PROVE  /\ Obj(n, kind, x)[1] = n /\ Obj(n, kind, x)[2] = kind
           /\ \A m, other, y : Obj(n, kind, x) = Obj(m, other, y) <=>
                  n = m /\ kind = other /\ x = y
BY DEF Obj

LEMMA OfPath ==
    ASSUME NEW n, NEW j, NEW o \in PathObjects(n, j)
    PROVE  o[1] = n /\ o[2] \in {"path", "part", "name"}
BY DEF PathObjects, Obj

\* The spare part is none of the path's.
LEMMA SpareIsMore ==
    ASSUME NEW n, NEW j \in Nat
    PROVE  Spare(n, j) \cap PathObjects(n, j) = {}
BY DEF PathObjects, Obj, Spare

\* Objects of a call that are not its path's, allocated and freed: the other
\* calls do not see them.
Own(objects, n) ==
    \A o \in objects : o[1] = n /\ o[2] \notin {"path", "part", "name"}

Took(after, before, objects) == after = before \cup objects
Gave(after, before, objects) == after = before \ objects
OthersKeep(after, before, n) == \A m : m # n => Left(after, m) = Left(before, m)

LEMMA TookRest ==
    ASSUME NEW h, NEW after, NEW n, NEW objects, Own(objects, n), Took(after, h, objects)
    PROVE  /\ \A j : Took(Rest(after, n, j), Rest(h, n, j), objects)
           /\ OthersKeep(after, h, n)
BY OfPath DEF Rest, Left, Own, Took, OthersKeep

LEMMA GaveRest ==
    ASSUME NEW h, NEW after, NEW n, NEW objects, Own(objects, n), Gave(after, h, objects)
    PROVE  /\ \A j : Gave(Rest(after, n, j), Rest(h, n, j), objects)
           /\ OthersKeep(after, h, n)
BY OfPath DEF Rest, Left, Own, Gave, OthersKeep

\* What is left when the path has been freed.
LEMMA PathFreed ==
    ASSUME NEW h, NEW n, NEW j
    PROVE  /\ Left(pparser_free(h, n, j), n) = Rest(h, n, j)
           /\ \A m : m # n => Left(pparser_free(h, n, j), m) = Left(h, m)
BY OfPath DEF pparser_free, Rest, Left

LEMMA PartsAreStrings == ASSUME NEW p \in Paths PROVE PartsOf(p) \in Seq(STRING)
<1>1. p.segments \in Seq(STRING) /\ p.segments # << >>
  BY FileTableConstants
<1>2. ASSUME NEW S, NEW s \in Seq(S), s # << >>
      PROVE  SubSeq(s, 1, Len(s) - 1) \in Seq(S)
  BY <1>2
<1> QED BY <1>1, <1>2 DEF PartsOf

\* A part of a path's parts.
LEMMA FirstParts ==
    ASSUME NEW S, NEW s \in Seq(S), NEW j \in 0 .. Len(s)
    PROVE  SubSeq(s, 1, j) \in Seq(S) /\ Len(SubSeq(s, 1, j)) = j
OBVIOUS

\* What pparser_parse_path has allocated when it has set a path.
LEMMA ParseResult ==
    ASSUME NEW p \in Paths, NEW n, NEW r \in pparser_parse_path(p, n)
    PROVE  /\ r.parts \in Seq(STRING) /\ \A o \in r.got : o[1] = n
           /\ r.set => WithSpare(r.got \ PathObjects(n, Len(r.parts)), n, Len(r.parts), {})
<1> DEFINE parsed == PartsOf(p)
           len == Len(parsed)
           Result(set, j, got, failed) ==
               [set |-> set, parts |-> SubSeq(parsed, 1, j), got |-> got, failed |-> failed]
           complete == PathObjects(n, len) \cup IF len > 0 THEN Spare(n, len) ELSE {}
<1>1. parsed \in Seq(STRING) /\ len \in Nat
  BY PartsAreStrings
<1>2. ASSUME NEW j \in 0 .. len, NEW got, NEW set, NEW failed, r = Result(set, j, got, failed)
      PROVE  r.set = set /\ r.got = got /\ r.parts \in Seq(STRING) /\ Len(r.parts) = j
  BY <1>1, <1>2, FirstParts
<1>3. \A j : \A o \in Spare(n, j) : o[1] = n
  BY DEF Spare, Obj
<1>4. \A j : \A o \in PathObjects(n, j) : o[1] = n
  BY OfPath
<1>5. \A o \in complete : o[1] = n
  BY <1>3, <1>4
<1>6. \A j \in Nat : /\ WithSpare(PathObjects(n, j) \ PathObjects(n, j), n, j, {})
                   /\ WithSpare((PathObjects(n, j) \cup Spare(n, j)) \ PathObjects(n, j), n, j, {})
  BY SpareIsMore DEF WithSpare
<1>7. ASSUME NEW j \in {0, len}, NEW got, \A o \in got : o[1] = n,
             NEW failed, r = Result(FALSE, j, got, failed)
      PROVE  r.set = FALSE /\ r.parts \in Seq(STRING) /\ \A o \in r.got : o[1] = n
  <2>1. j \in 0 .. len
    BY <1>1
  <2>2. r.set = FALSE /\ r.got = got /\ r.parts \in Seq(STRING)
    BY <1>2, <1>7, <2>1
  <2> QED BY <1>7, <2>2
<1>8. CASE r = Result(TRUE, len, complete, 0)
  <2>1. r.got = complete /\ r.parts \in Seq(STRING) /\ Len(r.parts) = len
    BY <1>1, <1>2, <1>8
  <2>2. WithSpare(complete \ PathObjects(n, len), n, len, {})
    BY <1>1, <1>6
  <2> QED BY <1>5, <2>1, <2>2
<1>9. ASSUME NEW j \in 0 .. len, NEW spare \in BOOLEAN,
             r = Result(TRUE, j, PathObjects(n, j) \cup IF spare THEN Spare(n, j) ELSE {}, 1)
      PROVE  /\ r.parts \in Seq(STRING) /\ \A o \in r.got : o[1] = n
             /\ WithSpare(r.got \ PathObjects(n, Len(r.parts)), n, Len(r.parts), {})
  <2>1. /\ r.got = PathObjects(n, j) \cup IF spare THEN Spare(n, j) ELSE {}
        /\ r.parts \in Seq(STRING) /\ Len(r.parts) = j
    BY <1>2, <1>9
  <2>2. WithSpare(r.got \ PathObjects(n, j), n, j, {})
    <3>1. j \in Nat
      BY <1>1
    <3>2. r.got = PathObjects(n, j) \/ r.got = PathObjects(n, j) \cup Spare(n, j)
      BY <2>1
    <3> QED BY <1>6, <3>1, <3>2, Zenon
  <2> QED BY <1>3, <1>4, <2>1, <2>2
<1>10. \/ r = Result(FALSE, 0, {}, 0)
       \/ r = Result(TRUE, len, complete, 0)
       \/ \E j \in 1 .. len - 1, spare \in BOOLEAN :
             r = Result(TRUE, j, PathObjects(n, j) \cup IF spare THEN Spare(n, j) ELSE {}, 1)
       \/ r = Result(TRUE, len, PathObjects(n, len), 1)
       \/ r = Result(FALSE, 0, {}, 1)
       \/ len > 0 /\ r = Result(FALSE, 0, Spare(n, 0), 1)
       \/ r = Result(FALSE, len, complete \ PathObjects(n, 0), 1)
  BY DEF pparser_parse_path
<1>11. \A o \in complete \ PathObjects(n, 0) : o[1] = n
  BY <1>5
<1>12. ASSUME NEW j \in {0, len}, NEW got, \A o \in got : o[1] = n,
              NEW failed, r = Result(FALSE, j, got, failed)
       PROVE  /\ r.parts \in Seq(STRING) /\ \A o \in r.got : o[1] = n
              /\ r.set => WithSpare(r.got \ PathObjects(n, Len(r.parts)), n, Len(r.parts), {})
  BY <1>7, <1>12
<1> HIDE DEF Result, complete
<1>13. CASE r = Result(FALSE, 0, {}, 0) \/ r = Result(FALSE, 0, {}, 1)
  BY <1>12, <1>13
<1>14. CASE len > 0 /\ r = Result(FALSE, 0, Spare(n, 0), 1)
  BY <1>3, <1>12, <1>14
<1>15. CASE r = Result(FALSE, len, complete \ PathObjects(n, 0), 1)
  BY <1>11, <1>12, <1>15
<1>16. CASE \E j \in 1 .. len - 1, spare \in BOOLEAN :
             r = Result(TRUE, j, PathObjects(n, j) \cup IF spare THEN Spare(n, j) ELSE {}, 1)
  <2>1. PICK j \in 1 .. len - 1, spare \in BOOLEAN :
            r = Result(TRUE, j, PathObjects(n, j) \cup IF spare THEN Spare(n, j) ELSE {}, 1)
    BY <1>16
  <2>2. j \in 0 .. len
    BY <1>1
  <2> QED BY <1>9, <2>1, <2>2
<1>17. CASE r = Result(TRUE, len, PathObjects(n, len), 1)
  <2>1. PathObjects(n, len) = PathObjects(n, len) \cup IF FALSE THEN Spare(n, len) ELSE {}
    OBVIOUS
  <2>2. len \in 0 .. len
    BY <1>1
  <2> QED BY <1>9, <1>17, <2>1, <2>2
<1> QED BY <1>8, <1>10, <1>13, <1>14, <1>15, <1>16, <1>17
-----------------------------------------------------------------------------
(* The search.                                                             *)

\* A step of the search ends with a fault, or goes on with what it has got.
GoesOn ==
    /\ pc' \in Running =>
          /\ k' \in 1 .. Len(parts)
          /\ pc' = "returned" => ret' \in {"file", "null", "error"}
          /\ WithSpare(Rest(heap', call, Len(parts)), call, Len(parts), Searched')
    /\ pc' \in Running \cup {"stopped"}

\* It allocates and frees for its call alone.
OnlyOwn(h) == OthersKeep(heap', h, call)

\* A search has got the part, if it is there.
WalkHas(item) == {Data(call)} \cup Above \cup IF item = "null" THEN {} ELSE ItemOf(call, k)

LEMMA OwnObjects ==
    /\ Own(Above, call) /\ Own({Data(call)}, call) /\ Own(ItemOf(call, k), call)
    /\ Own({Data(call)} \cup ItemOf(call, k), call)
    /\ Own({Obj(call, "item", k)}, call) /\ Own({Obj(call, "entries", k)}, call)
    /\ Own({}, call)
BY Objects DEF Above, Data, ItemOf, Own

\* The objects of a search differ from each other, and from the spare part.
LEMMA Apart ==
    ASSUME k \in Nat
    PROVE  /\ Data(call) \notin ItemOf(call, k) \cup Above
           /\ ItemOf(call, k) \cap Above = {}
           /\ \A j : Spare(call, j) \cap ({Data(call)} \cup ItemOf(call, k) \cup Above) = {}
BY Objects DEF Data, ItemOf, Above, Spare

LEMMA WalkGoesOn ==
    ASSUME TypeOK, pc \in Running, UNCHANGED <<call, parts>>,
           NEW h, NEW item \in {"file", "dir", "null", "error", "freed"}, Walk(item, h),
           item \in {"file", "dir", "null"} =>
               WithSpare(Rest(h, call, Len(parts)), call, Len(parts), WalkHas(item))
    PROVE  GoesOn
<1> DEFINE h1 == IF k > 1 THEN h \ ItemOf(call, k - 1) ELSE h
           has == IF item = "null" THEN {} ELSE ItemOf(call, k)
<1>1. k \in 1 .. Len(parts) /\ Len(parts) \in Nat
  BY DEF TypeOK
<1>2. CASE pc' = "stopped"
  BY <1>2 DEF GoesOn, Running
<1>3. h1 = h \ Above
  BY DEF Above
<1>4. ASSUME item \in {"file", "dir", "null"}
      PROVE  WithSpare(Rest(h1, call, Len(parts)), call, Len(parts), {Data(call)} \cup has)
  <2>1. Gave(Rest(h1, call, Len(parts)), Rest(h, call, Len(parts)), Above)
    <3>1. Gave(h1, h, Above)
      BY <1>3 DEF Gave
    <3> HIDE DEF h1, has
    <3> QED BY <3>1, OwnObjects, GaveRest
  <2>2. \A j : Spare(call, j) \cap Above = {}
    BY <1>1, Apart
  <2>3. ({Data(call)} \cup Above \cup has) \ Above = {Data(call)} \cup has
    BY <1>1, Apart
  <2>4. WithSpare(Rest(h, call, Len(parts)), call, Len(parts), {Data(call)} \cup Above \cup has)
    BY <1>4 DEF WalkHas
  <2> HIDE DEF h1, has
  <2> QED BY <2>1, <2>2, <2>3, <2>4 DEF WithSpare, Gave
<1>5. CASE Return(item, h1) /\ (k > 1 \/ item # "null")
  <2>1. k' = k /\ pc' = "returned" /\ item \in {"file", "dir", "null"}
    BY <1>5 DEF Return
  <2>2. WithSpare(Rest(h1, call, Len(parts)), call, Len(parts), {Data(call)} \cup has)
    BY <1>4, <2>1
  <2>3. CASE ret' = "file" /\ heap' = h1 /\ item = "file"
    <3>1. Searched' = {Data(call)} \cup has
      BY <2>1, <2>3 DEF Searched, Data, ItemOf, Obj
    <3> QED BY <1>1, <2>1, <2>2, <2>3, <3>1 DEF GoesOn, Running
  <2>4. CASE ret' = "null" /\ heap' = h1 /\ item = "null"
    <3>1. Searched' = {Data(call)} \cup has
      BY <2>1, <2>4 DEF Searched, Data, Obj
    <3> QED BY <1>1, <2>1, <2>2, <2>4, <3>1 DEF GoesOn, Running
  <2>5. CASE /\ ret' = "error"
             /\ heap' = h1 \ ({Data(call)} \cup has)
    <3>1. Searched' = {}
      BY <2>1, <2>5 DEF Searched
    <3>2. Own({Data(call)} \cup has, call)
      BY OwnObjects
    <3>3. Gave(Rest(heap', call, Len(parts)), Rest(h1, call, Len(parts)), {Data(call)} \cup has)
      <4>1. Gave(heap', h1, {Data(call)} \cup has)
        BY <2>5 DEF Gave
      <4> HIDE DEF h1, has
      <4> QED BY <3>2, <4>1, GaveRest
    <3>4. \A j : Spare(call, j) \cap ({Data(call)} \cup has) = {}
      BY <1>1, Apart
    <3>5. WithSpare(Rest(heap', call, Len(parts)), call, Len(parts), Searched')
      <4> HIDE DEF h1, has
      <4> QED BY <2>2, <3>1, <3>3, <3>4 DEF WithSpare, Gave
    <3> QED BY <1>1, <2>1, <2>5, <3>5 DEF GoesOn, Running
  <2>6. \/ ret' = "file" /\ heap' = h1 /\ item = "file"
        \/ ret' = "null" /\ heap' = h1 /\ item = "null"
        \/ ret' = "error" /\ heap' = h1 \ ({Data(call)} \cup has)
    BY <1>5 DEF Return
  <2> QED BY <2>3, <2>4, <2>5, <2>6
<1>6. CASE k # Len(parts) /\ item = "dir" /\ heap' = h1 /\ Descend
  <2>1. pc' = "search" /\ k' = k + 1
    BY <1>6 DEF Descend
  <2>2. Searched' = {Data(call)} \cup has
    <3>1. k' > 1 /\ k' - 1 = k
      BY <1>1, <2>1
    <3> QED BY <1>6, <2>1, <3>1 DEF Searched, Above, Data, ItemOf, Obj
  <2> QED BY <1>1, <1>4, <1>6, <2>1, <2>2 DEF GoesOn, Running
<1>7. \/ pc' = "stopped"
      \/ Return(item, h1) /\ (k > 1 \/ item # "null")
      \/ k # Len(parts) /\ item = "dir" /\ heap' = h1 /\ Descend
  BY DEF Walk, ReturnFault, Stop
<1> QED BY <1>2, <1>5, <1>6, <1>7

LEMMA WalkOnlyOwn ==
    ASSUME NEW h, NEW item, Walk(item, h), call \in Nat
    PROVE  OnlyOwn(h)
<1> DEFINE h1 == IF k > 1 THEN h \ ItemOf(call, k - 1) ELSE h
<1>1. h1 = h \ Above
  BY DEF Above
<1>2. \/ heap' = h \/ heap' = h1 \/ heap' = h1 \ {Data(call)}
      \/ heap' = h1 \ (ItemOf(call, k) \cup {Data(call)})
  BY DEF Walk, ReturnFault, Return
<1>3. \A o \in h : o[1] # call => o \in heap'
  BY <1>1, <1>2, OwnObjects DEF Own
<1>4. heap' \subseteq h
  BY <1>1, <1>2
<1> QED BY <1>3, <1>4 DEF OnlyOwn, OthersKeep, Left

\* The turns of the search, and what becomes of what they have allocated.
LEMMA FindGoesOn == ASSUME TypeOK, Working, FindItem PROVE GoesOn /\ OnlyOwn(heap)
<1>1. /\ pc = "search" /\ UNCHANGED <<call, parts>> /\ k \in 1 .. Len(parts) /\ k \in Nat
      /\ call \in Nat /\ pc \in Running
  BY DEF FindItem, TypeOK, Running, Calls
<1>2. WithSpare(Rest(heap, call, Len(parts)), call, Len(parts), {Data(call)} \cup Above)
  BY <1>1 DEF Working, Searched
<1>3. PICK e \in ItemsAt :
          Pass(e) \/ PassDeleted(e) \/ NotFound(e) \/ FoundFile(e) \/ FoundDirectory(e)
  BY DEF FindItem
<1>4. CASE Pass(e) \/ PassDeleted(e)
  <2>1. UNCHANGED <<heap, pc, k, ret>>
    BY <1>4 DEF Pass, PassDeleted, search
  <2>2. Searched' = Searched
    BY <1>1, <2>1 DEF Searched, Above, Data, ItemOf, Obj
  <2>3. Searched = {Data(call)} \cup Above
    BY <1>1 DEF Searched
  <2> QED BY <1>1, <1>2, <2>1, <2>2, <2>3 DEF GoesOn, OnlyOwn, OthersKeep, Running
<1>5. CASE NotFound(e)
  <2>1. Walk("null", heap)
    BY <1>5 DEF NotFound
  <2>2. WithSpare(Rest(heap, call, Len(parts)), call, Len(parts), WalkHas("null"))
    <3>1. WalkHas("null") = {Data(call)} \cup Above
      BY DEF WalkHas
    <3> QED BY <1>2, <3>1
  <2> QED BY <1>1, <2>1, <2>2, WalkGoesOn, WalkOnlyOwn
<1>6. CASE FoundFile(e)
  <2>1. PICK item \in Grants, entry \in Grants :
            IF item /\ entry THEN Walk("file", heap \cup ItemOf(call, k))
            ELSE Walk("error", heap \cup IF item THEN {Obj(call, "item", k)} ELSE {})
    BY <1>6 DEF FoundFile
  <2>2. CASE item /\ entry
    <3>1. Walk("file", heap \cup ItemOf(call, k))
      BY <2>1, <2>2
    <3>2. Own(ItemOf(call, k), call)
      BY OwnObjects
    <3> DEFINE h == heap \cup ItemOf(call, k)
    <3>3. Took(h, heap, ItemOf(call, k))
      BY DEF Took
    <3> HIDE DEF h
    <3>4. /\ Took(Rest(h, call, Len(parts)), Rest(heap, call, Len(parts)), ItemOf(call, k))
          /\ OthersKeep(h, heap, call)
      BY <3>2, <3>3, TookRest
    <3>5. WithSpare(Rest(h, call, Len(parts)), call, Len(parts), WalkHas("file"))
      BY <1>2, <3>4 DEF WithSpare, WalkHas, Took
    <3>6. Walk("file", h)
      BY <3>1 DEF h
    <3>7. OnlyOwn(h)
      BY <1>1, <3>6, WalkOnlyOwn
    <3>8. OnlyOwn(heap)
      BY <3>4, <3>7 DEF OnlyOwn, OthersKeep
    <3> QED BY <1>1, <3>5, <3>6, <3>8, WalkGoesOn
  <2>3. CASE ~(item /\ entry)
    <3> DEFINE more == IF item THEN {Obj(call, "item", k)} ELSE {}
    <3>1. Walk("error", heap \cup more)
      BY <2>1, <2>3
    <3>2. Own(more, call)
      BY OwnObjects
    <3> DEFINE h == heap \cup more
    <3>3. Took(h, heap, more) /\ Walk("error", h)
      BY <3>1 DEF Took
    <3> HIDE DEF h, more
    <3>4. OthersKeep(h, heap, call) /\ OnlyOwn(h)
      BY <1>1, <3>2, <3>3, TookRest, WalkOnlyOwn
    <3>5. OnlyOwn(heap)
      BY <3>4 DEF OnlyOwn, OthersKeep
    <3> QED BY <1>1, <3>3, <3>5, WalkGoesOn
  <2> QED BY <2>2, <2>3
<1>7. CASE FoundDirectory(e)
  <2>1. \/ /\ heap' = heap \cup {Obj(call, "item", k)}
           /\ pc' = "count" /\ UNCHANGED <<k, ret>>
        \/ Walk("error", heap)
    BY <1>7 DEF FoundDirectory
  <2>2. CASE Walk("error", heap)
    BY <1>1, <2>2, WalkGoesOn, WalkOnlyOwn
  <2>3. CASE /\ heap' = heap \cup {Obj(call, "item", k)}
             /\ pc' = "count" /\ UNCHANGED <<k, ret>>
    <3>1. Own({Obj(call, "item", k)}, call)
      BY OwnObjects
    <3>2. /\ Took(Rest(heap', call, Len(parts)), Rest(heap, call, Len(parts)), {Obj(call, "item", k)})
          /\ OnlyOwn(heap)
      <4>1. Took(heap', heap, {Obj(call, "item", k)})
        BY <2>3 DEF Took
      <4> QED BY <3>1, <4>1, TookRest DEF OnlyOwn
    <3>3. Searched' = {Data(call)} \cup Above \cup {Obj(call, "item", k)}
      BY <1>1, <2>3 DEF Searched, Above, Data, ItemOf, Obj
    <3>4. WithSpare(Rest(heap', call, Len(parts)), call, Len(parts), Searched')
      BY <1>2, <3>2, <3>3 DEF WithSpare, Took
    <3> QED BY <1>1, <2>3, <3>2, <3>4 DEF GoesOn, Running
  <2> QED BY <2>1, <2>2, <2>3
<1> QED BY <1>3, <1>4, <1>5, <1>6, <1>7

LEMMA SectorGoesOn ==
    ASSUME TypeOK, Working, CountSector \/ CopySector
    PROVE  GoesOn /\ OnlyOwn(heap)
<1>1. /\ UNCHANGED <<heap, call, parts, pc, k, ret>> /\ pc \in {"count", "copy"} /\ pc \in Running
      /\ k \in 1 .. Len(parts)
  BY DEF CountSector, CopySector, Running, TypeOK
<1>2. Searched' = Searched
  BY <1>1 DEF Searched, Above, Data, ItemOf, Obj
<1> QED BY <1>1, <1>2 DEF GoesOn, OnlyOwn, OthersKeep, Working

LEMMA CountGoesOn == ASSUME TypeOK, Working, CountEnd PROVE GoesOn /\ OnlyOwn(heap)
<1>1. /\ pc = "count" /\ pc \in Running /\ UNCHANGED <<call, parts>> /\ call \in Nat
      /\ k \in 1 .. Len(parts)
  <2>1. pc = "count" /\ UNCHANGED <<call, parts>>
    BY DEF CountEnd
  <2> QED BY <2>1 DEF Running, TypeOK
<1>2. WithSpare(Rest(heap, call, Len(parts)), call, Len(parts),
                {Data(call), Obj(call, "item", k)} \cup Above)
  BY <1>1 DEF Working, Searched
<1>3. CASE Walk("freed", heap \ {Obj(call, "item", k)})
  <2>1. Own({Obj(call, "item", k)}, call)
    BY OwnObjects
  <2> DEFINE h == heap \ {Obj(call, "item", k)}
  <2>2. Gave(h, heap, {Obj(call, "item", k)}) /\ Walk("freed", h)
    BY <1>3 DEF Gave
  <2> HIDE DEF h
  <2>3. OthersKeep(h, heap, call) /\ OnlyOwn(h)
    BY <1>1, <2>1, <2>2, GaveRest, WalkOnlyOwn
  <2>4. OnlyOwn(heap)
    BY <2>3 DEF OnlyOwn, OthersKeep
  <2> QED BY <1>1, <2>2, <2>4, WalkGoesOn
<1>4. CASE heap' = heap \cup {Obj(call, "entries", k)} /\ pc' = "copy" /\ UNCHANGED <<k, ret>>
  <2>1. Own({Obj(call, "entries", k)}, call)
    BY OwnObjects
  <2>2. /\ Took(Rest(heap', call, Len(parts)), Rest(heap, call, Len(parts)), {Obj(call, "entries", k)})
        /\ OnlyOwn(heap)
    <3>1. Took(heap', heap, {Obj(call, "entries", k)})
      BY <1>4 DEF Took
    <3> QED BY <2>1, <3>1, TookRest DEF OnlyOwn
  <2>3. Searched' = {Data(call), Obj(call, "item", k)} \cup Above \cup {Obj(call, "entries", k)}
    BY <1>1, <1>4 DEF Searched, Above, Data, ItemOf, Obj
  <2>4. WithSpare(Rest(heap', call, Len(parts)), call, Len(parts), Searched')
    BY <1>2, <2>2, <2>3 DEF WithSpare, Took
  <2> QED BY <1>1, <1>4, <2>2, <2>4 DEF GoesOn, Running
<1> QED BY <1>3, <1>4 DEF CountEnd

LEMMA CopyGoesOn == ASSUME TypeOK, Working, CopyEnd PROVE GoesOn /\ OnlyOwn(heap)
<1>1. /\ pc = "copy" /\ pc \in Running /\ UNCHANGED <<call, parts>>
      /\ Walk("dir", heap) /\ call \in Nat
  BY DEF CopyEnd, Running, TypeOK, Calls
<1>2. WithSpare(Rest(heap, call, Len(parts)), call, Len(parts), WalkHas("dir"))
  <2>1. WalkHas("dir") = Searched
    BY <1>1 DEF Searched, WalkHas
  <2> QED BY <1>1, <2>1 DEF Working
<1> QED BY <1>1, <1>2, WalkGoesOn, WalkOnlyOwn
-----------------------------------------------------------------------------
(* Every step keeps the invariant.                                         *)

LEMMA SettledStays ==
    ASSUME NEW n \in Calls, Settled(n), Left(heap', n) = Left(heap, n),
           opened'[n] = opened[n], InTable(n)' <=> InTable(n)
    PROVE  Settled(n)'
<1>1. Belongings(n)' = Belongings(n)
  BY DEF Belongings, Obj
<1>2. /\ Left(heap, n)' = Left(heap, n)
      /\ (opened[n].kind)' = opened[n].kind
  BY DEF Left
<1> QED BY <1>1, <1>2 DEF Settled, SettledAs, PartsIn

\* Where nothing is handed out or taken back, and nothing of another call is
\* allocated or freed, the calls that have returned stay as they are.
LEMMA OthersStay ==
    ASSUME IInv, UNCHANGED <<table, opened, handed>>, call' = call,
           OnlyOwn(heap), pc' # "idle", pc \in Running \/ heap' = heap,
           pc' \in Running => pc \in Running
    PROVE  Ahead' /\ AllSettled' /\ Linked'
<1>1. \A n : InTable(n)' <=> InTable(n)
  BY DEF InTable
<1>2. Ahead'
  <2>1. ASSUME NEW o \in heap' PROVE o[1] \in 0 .. call
    <3>1. CASE o[1] = call
      BY <3>1 DEF IInv, TypeOK
    <3>2. CASE o[1] # call
      <4>1. o \in heap
        BY <3>2 DEF OnlyOwn, OthersKeep, Left
      <4> QED BY <4>1 DEF IInv, Ahead
    <3> QED BY <3>1, <3>2
  <2> QED BY <1>1, <2>1 DEF IInv, Ahead
<1>3. ASSUME NEW n \in Calls, Done(n)' PROVE Settled(n)'
  <2>1. n # call \/ InTable(n)
    BY <1>1, <1>3 DEF Done
  <2>2. Settled(n)
    BY <2>1 DEF IInv, AllSettled, Done
  <2>3. Left(heap', n) = Left(heap, n)
    <3>1. n # call \/ pc \notin Running
      BY <2>1 DEF IInv, Ahead
    <3> QED BY <3>1 DEF OnlyOwn, OthersKeep
  <2> QED BY <1>1, <2>2, <2>3, SettledStays
<1>4. NoneLost' <=> NoneLost
  BY DEF NoneLost
<1>5. Linked'
  BY <1>4 DEF IInv, Linked
<1> QED BY <1>2, <1>3, <1>5 DEF AllSettled

\* Where what is allocated for one call alone changes, and the call is
\* settled afterwards.
LEMMA OneSettles ==
    ASSUME IInv, NEW c, OthersKeep(heap', heap, c), \A n \in Calls : n # c => Done(n),
           \A n \in Calls : n # c => opened'[n] = opened[n] /\ (InTable(n)' <=> InTable(n)),
           c \in Calls /\ Done(c)' => Settled(c)'
    PROVE  AllSettled'
<1>1. ASSUME NEW n \in Calls, Done(n)', n # c
      PROVE  Settled(n)'
  <2>1. Settled(n) /\ opened'[n] = opened[n] /\ (InTable(n)' <=> InTable(n))
    BY <1>1 DEF IInv, AllSettled
  <2>2. Left(heap', n) = Left(heap, n)
    BY <1>1 DEF OthersKeep
  <2> QED BY <2>1, <2>2, SettledStays
<1> QED BY <1>1 DEF AllSettled

LEMMA SearchIInv ==
    ASSUME IInv, Search, UNCHANGED <<path, mode, table, opened, handed>>
    PROVE  IInv'
<1>1. TypeOK /\ Working
  BY DEF IInv
<1>2. GoesOn /\ OnlyOwn(heap)
  BY <1>1, FindGoesOn, SectorGoesOn, CountGoesOn, CopyGoesOn DEF Search
<1>3. pc \in Running /\ UNCHANGED <<call, parts>>
  BY DEF Search, FindItem, CountSector, CountEnd, CopySector, CopyEnd, Running
<1>4. pc' # "idle" /\ pc' # "boot"
  BY <1>2 DEF GoesOn, Running
<1>5. Ahead' /\ AllSettled' /\ Linked'
  BY <1>2, <1>3, <1>4, OthersStay
<1>6. TypeOK'
  BY <1>1, <1>2, <1>3, <1>4 DEF TypeOK, GoesOn, Running
<1>7. Working'
  BY <1>2, <1>3 DEF Working, GoesOn
<1> QED BY <1>5, <1>6, <1>7 DEF IInv

LEMMA NothingLeft ==
    ASSUME NEW n, NEW j, NEW left \in SUBSET Spare(n, j), NEW kind, NEW objects
    PROVE  SettledAs(left, kind, objects, FALSE)
BY Objects DEF Spare, SettledAs, PartsIn

LEMMA InitIInv == Init => IInv
<1> SUFFICES ASSUME Init PROVE IInv
  OBVIOUS
<1>1. heap = {} /\ call = 0 /\ pc = "boot" /\ parts = << >>
  BY DEF Init
<1>2. \A n \in Calls : handed[n] = NotHeld /\ opened[n] = NoItem /\ ~InTable(n)
  BY DEF Init, InTable, Fds, Calls, NoCall
<1>3. TypeOK
  <2>1. /\ table \in [Fds -> {NoCall} \cup Calls] /\ handed \in [Calls -> Values]
        /\ opened = [n \in Calls |-> opened[n]]
    BY DEF Init, Values
  <2>2. \A n \in Calls :
            opened[n] \in [kind : Kinds, entry : {opened[n].entry}, number : Nat]
    BY <1>2 DEF NoItem, Kinds
  <2>3. call \in 0 .. MaxOpens /\ parts \in Seq(STRING) /\ pc \notin Running
    BY <1>1, FileTableConstants DEF Running
  <2> QED BY <1>1, <2>1, <2>2, <2>3 DEF TypeOK, Running
<1>4. Ahead /\ Working
  BY <1>1, <1>2 DEF Ahead, Working, NoItem, Running
<1>5. ASSUME NEW n \in Calls PROVE Settled(n)
  <2>1. Left(heap, n) \in SUBSET Spare(n, 0)
    BY <1>1 DEF Left
  <2>2. InTable(n) = FALSE
    BY <1>2 DEF InTable
  <2> QED BY <2>1, <2>2, NothingLeft DEF Settled
<1>6. Linked
  <2>1. \A n \in Calls : handed[n] \notin Fds
    BY <1>2 DEF NotHeld, Fds
  <2>2. \A s \in Fds : table[s] = NoCall
    BY DEF Init
  <2> QED BY <2>1, <2>2 DEF Linked
<1> QED BY <1>3, <1>4, <1>5, <1>6 DEF IInv, AllSettled

LEMMA BootIInv == ASSUME IInv, fat16_resolve \/ disk_all_init_panics PROVE IInv'
<1>1. /\ UNCHANGED <<call, parts, table, opened, handed>> /\ pc = "boot"
      /\ pc' \in {"idle", "panic"} /\ pc' \notin Running
  BY DEF fat16_resolve, disk_all_init_panics, Running
<1>2. call = 0 /\ TypeOK
  BY <1>1 DEF IInv, TypeOK
<1>3. \A o \in heap' \cup heap : o[1] = 0
  <2>1. \A o \in heap : o[1] = 0
    BY <1>2 DEF IInv, Ahead
  <2> QED BY <2>1, Objects DEF fat16_resolve, disk_all_init_panics, Mounted
<1>4. OthersKeep(heap', heap, 0)
  BY <1>3 DEF OthersKeep, Left
<1>5. \A n : InTable(n)' <=> InTable(n)
  BY <1>1 DEF InTable
<1>6. AllSettled'
  BY <1>1, <1>2, <1>4, <1>5, OneSettles DEF Done, Calls
<1>7. TypeOK' /\ Working'
  BY <1>1, <1>2 DEF TypeOK, Working
<1>8. Ahead'
  <2>1. \A n \in Calls : n > call
    BY <1>2 DEF Calls
  <2> QED BY <1>1, <1>2, <1>3, <1>5, <2>1 DEF IInv, Ahead
<1>9. Linked'
  BY <1>1 DEF IInv, Linked, NoneLost
<1> QED BY <1>6, <1>7, <1>8, <1>9 DEF IInv

\* What a call of file_open that has begun has allocated.
LEMMA NewLeft ==
    ASSUME IInv, NEW n, n = call + 1, NEW objects, \A o \in objects : o[1] = n,
           NEW h, Took(h, heap, objects)
    PROVE  /\ Left(h, n) = objects /\ OthersKeep(h, heap, n)
           /\ \A o \in h : o[1] \in 0 .. n
<1>1. call \in Nat /\ n \in Nat /\ n \notin 0 .. call
  BY DEF IInv, TypeOK
<1>2. \A o \in heap : o[1] \in 0 .. call
  BY DEF IInv, Ahead
<1>3. \A o \in heap : o[1] # n /\ o[1] \in 0 .. n
  BY <1>1, <1>2
<1>4. n \in 0 .. n
  BY <1>1
<1>5. \A o \in h : o \in heap \/ o \in objects
  BY DEF Took
<1>6. \A o : o \in heap \/ o \in objects => o \in h
  BY DEF Took
<1> HIDE DEF Took
<1>7. Left(h, n) = objects
  BY <1>3, <1>5, <1>6 DEF Left
<1>8. OthersKeep(h, heap, n)
  BY <1>3, <1>5, <1>6 DEF Left, OthersKeep
<1>9. \A o \in h : o[1] \in 0 .. n
  BY <1>3, <1>4, <1>5
<1> QED BY <1>7, <1>8, <1>9

\* The call that begins is the next one, and what it has allocated is its own.
Begins(n, p, r) ==
    /\ pc = "idle" /\ call \in 0 .. MaxOpens - 1 /\ p \in Paths
    /\ n = call + 1 /\ r \in pparser_parse_path(p, n)
    /\ call' = n /\ UNCHANGED <<table, opened>>

LEMMA BeginsAhead ==
    ASSUME IInv, NEW n, NEW p, NEW r, Begins(n, p, r)
    PROVE  /\ n \in Calls /\ r.parts \in Seq(STRING)
           /\ handed[n] = NotHeld /\ opened[n].kind = "none"
           /\ ~InTable(n) /\ ~InTable(n)'
           /\ \A m \in Calls : Done(m) /\ (InTable(m)' <=> InTable(m))
           /\ \A m \in Calls : m > n =>
                 handed[m] = NotHeld /\ ~InTable(m)' /\ opened'[m].kind = "none"
<1>1. call \in Nat /\ n \in Calls
  BY FileTableConstants DEF Begins, Calls
<1>2. r.parts \in Seq(STRING)
  BY ParseResult DEF Begins
<1>3. \A m : InTable(m)' <=> InTable(m)
  BY DEF Begins, InTable
<1>4. \A m \in Calls : m > call =>
          handed[m] = NotHeld /\ ~InTable(m) /\ opened[m].kind = "none"
  BY DEF IInv, Ahead
<1>5. n > call /\ \A m \in Calls : m > n => m > call
  BY <1>1 DEF Begins, Calls
<1>6. \A m \in Calls : Done(m)
  BY DEF Begins, Done
<1>7. opened' = opened
  BY DEF Begins
<1> QED BY <1>1, <1>2, <1>3, <1>4, <1>5, <1>6, <1>7

\* It has not returned: it is executed, or has stopped with a fault.
LEMMA BegunIInv ==
    ASSUME IInv, NEW n, NEW p, NEW r, Begins(n, p, r), parts' = r.parts, handed' = handed,
           NEW more, \A o \in more : o[1] = n, Took(heap', heap, r.got \cup more),
           pc' = "stopped" \/ (pc' = "search" /\ k' \in 1 .. Len(parts')), Working'
    PROVE  IInv'
<1>1. /\ n \in Calls /\ r.parts \in Seq(STRING)
      /\ handed[n] = NotHeld /\ opened[n].kind = "none"
      /\ ~InTable(n) /\ ~InTable(n)'
      /\ \A m \in Calls : Done(m) /\ (InTable(m)' <=> InTable(m))
      /\ \A m \in Calls : m > n =>
            handed[m] = NotHeld /\ ~InTable(m)' /\ opened'[m].kind = "none"
  BY BeginsAhead
<1>2. call' = n /\ UNCHANGED <<table, opened>> /\ n \in 0 .. MaxOpens
  BY <1>1 DEF Begins, Calls
<1>3. \A o \in r.got \cup more : o[1] = n
  BY ParseResult DEF Begins
<1>4. OthersKeep(heap', heap, n) /\ \A o \in heap' : o[1] \in 0 .. n
  <2> DEFINE objects == r.got \cup more
  <2>1. Took(heap', heap, objects) /\ \A o \in objects : o[1] = n
    BY <1>3
  <2> HIDE DEF objects
  <2> QED BY <2>1, NewLeft DEF Begins
<1>5. TypeOK'
  <2>1. TypeOK
    BY DEF IInv
  <2>2. pc' \in Running => call' \in Calls /\ k' \in 1 .. Len(parts')
    BY <1>1, <1>2 DEF Running
  <2> QED BY <1>1, <1>2, <2>1, <2>2 DEF TypeOK, Running
<1>6. Ahead'
  <2>1. ASSUME NEW m \in Calls, m > n \/ m = n
        PROVE  handed'[m] = NotHeld /\ ~InTable(m)' /\ opened'[m].kind = "none"
    BY <1>1, <1>2, <2>1
  <2> QED BY <1>2, <1>4, <2>1 DEF Ahead
<1>7. AllSettled'
  <2>1. ~Done(n)'
    BY <1>1, <1>2 DEF Done
  <2>2. \A m \in Calls : m # n => Done(m)
    BY <1>1
  <2>3. \A m \in Calls : m # n => opened'[m] = opened[m] /\ (InTable(m)' <=> InTable(m))
    BY <1>1, <1>2
  <2> QED BY <1>4, <2>1, <2>2, <2>3, OneSettles
<1>8. Linked'
  BY <1>2 DEF IInv, Linked, NoneLost
<1> QED BY <1>5, <1>6, <1>7, <1>8 DEF IInv

LEMMA RefusedIInv ==
    ASSUME IInv, NEW n, NEW p, NEW r, Begins(n, p, r), r.set, Refuse(r)
    PROVE  IInv'
<1>1. /\ n \in Calls /\ r.parts \in Seq(STRING)
      /\ handed[n] = NotHeld /\ opened[n].kind = "none"
      /\ ~InTable(n) /\ ~InTable(n)'
      /\ \A m \in Calls : Done(m) /\ (InTable(m)' <=> InTable(m))
      /\ \A m \in Calls : m > n =>
            handed[m] = NotHeld /\ ~InTable(m)' /\ opened'[m].kind = "none"
  BY BeginsAhead
<1>2. /\ call' = n /\ UNCHANGED <<table, opened>> /\ n \in 0 .. MaxOpens
      /\ pc' = "idle" /\ parts' = << >>
      /\ handed' = [handed EXCEPT ![n] = Error]
  BY <1>1 DEF Begins, Calls, Refuse, NoLocals
<1>3. /\ \A o \in r.got : o[1] = n
      /\ WithSpare(r.got \ PathObjects(n, Len(r.parts)), n, Len(r.parts), {})
  BY ParseResult DEF Begins
<1> DEFINE h == heap \cup r.got
<1>4. /\ Left(h, n) = r.got /\ OthersKeep(h, heap, n)
      /\ \A o \in h : o[1] \in 0 .. n
  <2>1. Took(h, heap, r.got)
    BY DEF Took
  <2> HIDE DEF h
  <2> QED BY <1>3, <2>1, NewLeft DEF Begins
<1>5. heap' = pparser_free(h, n, Len(r.parts))
  BY DEF Refuse, Begins
<1> HIDE DEF h
<1>6. /\ Left(heap', n) = r.got \ PathObjects(n, Len(r.parts))
      /\ OthersKeep(heap', h, n) /\ heap' \subseteq h
  <2>1. Left(heap', n) = Rest(h, n, Len(r.parts))
    BY <1>5, PathFreed
  <2>2. OthersKeep(heap', h, n)
    BY <1>5, PathFreed DEF OthersKeep
  <2>3. heap' \subseteq h
    BY <1>5 DEF pparser_free
  <2> QED BY <1>4, <2>1, <2>2, <2>3 DEF Rest
<1>7. OthersKeep(heap', heap, n)
  BY <1>4, <1>6 DEF OthersKeep
<1>8. TypeOK'
  <2>1. TypeOK
    BY DEF IInv
  <2>2. handed' \in [Calls -> Values]
    BY <1>2, <2>1 DEF TypeOK, Values
  <2>3. parts' \in Seq(STRING)
    BY <1>2
  <2> QED BY <1>2, <2>1, <2>2, <2>3 DEF TypeOK, Running
<1>9. Ahead'
  <2>1. ASSUME NEW m \in Calls, m > n
        PROVE  handed'[m] = NotHeld /\ ~InTable(m)' /\ opened'[m].kind = "none"
    <3>1. m # n
      BY <1>1, <2>1 DEF Calls
    <3>2. handed'[m] = handed[m]
      BY <1>2, <3>1 DEF IInv, TypeOK
    <3> QED BY <1>1, <2>1, <3>2
  <2>2. \A o \in heap' : o[1] \in 0 .. n
    BY <1>4, <1>6
  <2> QED BY <1>2, <2>1, <2>2 DEF Ahead, Running
<1>10. AllSettled'
  <2>1. Settled(n)'
    <3>1. Left(heap', n) \in SUBSET Spare(n, Len(r.parts))
      BY <1>3, <1>6 DEF WithSpare
    <3>2. InTable(n)' = FALSE
      BY <1>1 DEF InTable
    <3>3. SettledAs(Left(heap', n), opened'[n].kind, Belongings(n)', FALSE)
      BY <3>1, NothingLeft
    <3>4. Settled(n)' = SettledAs(Left(heap', n), opened'[n].kind,
                                        Belongings(n)', InTable(n)')
      BY DEF Settled, SettledAs, Left, PartsIn
    <3> QED BY <3>2, <3>3, <3>4
  <2>2. \A m \in Calls : m # n => Done(m)
    BY <1>1
  <2>3. \A m \in Calls : m # n => opened'[m] = opened[m] /\ (InTable(m)' <=> InTable(m))
    BY <1>1, <1>2
  <2> QED BY <1>7, <2>1, <2>2, <2>3, OneSettles
<1>11. Linked'
  <2>1. SUFFICES ASSUME NoneLost
                 PROVE  /\ \A m \in Calls : handed'[m] \in Fds => table[handed'[m]] = m
                        /\ \A s \in Fds : table[s] # NoCall => handed'[table[s]] = s
    BY <1>2 DEF Linked, NoneLost
  <2>2. /\ \A m \in Calls : handed[m] \in Fds => table[handed[m]] = m
        /\ \A s \in Fds : table[s] # NoCall => handed[table[s]] = s
    BY <2>1 DEF IInv, Linked
  <2>3. Error \notin Fds
    BY DEF Error, Fds
  <2>4. \A s \in Fds : table[s] # n
    BY <1>1 DEF InTable
  <2>5. \A m \in Calls : handed'[m] = IF m = n THEN Error ELSE handed[m]
    BY <1>2 DEF IInv, TypeOK
  <2>6. \A s \in Fds : table[s] # NoCall => table[s] \in Calls
    BY DEF IInv, TypeOK
  <2> QED BY <2>2, <2>3, <2>4, <2>5, <2>6
<1>12. Working'
  BY <1>2 DEF Working, Running
<1> QED BY <1>8, <1>9, <1>10, <1>11, <1>12 DEF IInv

LEMMA OpenIInv ==
    ASSUME IInv, NEW p \in Paths, NEW m, file_open(p, m)
    PROVE  IInv'
<1>1. PICK n : n = call + 1
  OBVIOUS
<1>2. PICK r \in pparser_parse_path(p, n) :
          Unparsed(p, m, r) \/ Refused(m, r) \/ fat16_open(p, m, r)
  BY <1>1 DEF file_open
<1>3. Begins(n, p, r)
  <2>1. call \in 0 .. MaxOpens - 1
    BY FileTableConstants DEF file_open, IInv, TypeOK
  <2>2. call' = n
    BY <1>1, <1>2 DEF Unparsed, Refused, fat16_open, Refuse, Begin
  <2> QED BY <1>1, <2>1, <2>2 DEF file_open, Begins
<1>4. CASE Unparsed(p, m, r)
  <2> DEFINE more == {}
  <2>1. Took(heap', heap, r.got \cup more) /\ \A o \in more : o[1] = n
    BY <1>4 DEF Unparsed, Begin, Took
  <2> HIDE DEF more
  <2>2. pc' = "stopped" /\ parts' = r.parts /\ handed' = handed
    BY <1>4 DEF Unparsed, Begin, Stop
  <2>3. Working'
    BY <2>2 DEF Working, Running
  <2> QED BY <1>3, <2>1, <2>2, <2>3, BegunIInv
<1>5. CASE r.set /\ Refuse(r)
  BY <1>3, <1>5, RefusedIInv
<1>6. CASE /\ Begin(p, m, r, {Data(call + 1)})
           /\ Stop("item_not_set") /\ UNCHANGED <<found, handed>>
  <2> DEFINE more == {Data(n)}
  <2>1. Took(heap', heap, r.got \cup more)
    BY <1>1, <1>6 DEF Begin, Took
  <2>2. pc' = "stopped" /\ parts' = r.parts /\ handed' = handed
    BY <1>6 DEF Begin, Stop
  <2>3. Working'
    BY <2>2 DEF Working, Running
  <2>4. \A o \in more : o[1] = n
    BY Objects DEF Data
  <2> HIDE DEF more
  <2> QED BY <1>3, <2>1, <2>2, <2>3, <2>4, BegunIInv
<1>7. CASE /\ r.set /\ r.parts # << >> /\ Begin(p, m, r, {Data(call + 1)})
           /\ pc' = "search" /\ k' = 1 /\ handed' = handed
  <2> DEFINE more == {Data(n)}
  <2>1. Took(heap', heap, r.got \cup more)
    BY <1>1, <1>7 DEF Begin, Took
  <2>2. parts' = r.parts /\ call' = n
    BY <1>1, <1>7 DEF Begin
  <2>3. /\ r.parts \in Seq(STRING) /\ \A o \in r.got : o[1] = n
        /\ WithSpare(r.got \ PathObjects(n, Len(r.parts)), n, Len(r.parts), {})
    BY <1>3, <1>7, ParseResult DEF Begins
  <2>4. \A o \in more : o[1] = n
    BY Objects DEF Data
  <2>5. Rest(heap', n, Len(r.parts)) =
            (r.got \ PathObjects(n, Len(r.parts))) \cup {Data(n)}
    <3> DEFINE objects == r.got \cup more
    <3>1. Took(heap', heap, objects) /\ \A o \in objects : o[1] = n
      BY <2>1, <2>3, <2>4
    <3> HIDE DEF objects
    <3>2. Left(heap', n) = objects
      BY <1>1, <3>1, NewLeft
    <3>3. Data(n) \notin PathObjects(n, Len(r.parts))
      BY OfPath, Objects DEF Data
    <3> QED BY <3>2, <3>3 DEF Rest, objects
  <2>6. Searched' = {Data(n)}
    BY <1>7, <2>2 DEF Searched, Above, Data, Obj
  <2>7. WithSpare(Rest(heap', n, Len(r.parts)), n, Len(r.parts), Searched')
    BY <2>3, <2>5, <2>6 DEF WithSpare
  <2>8. Working'
    BY <2>2, <2>7 DEF Working
  <2>9. k' \in 1 .. Len(parts')
    BY <1>7, <2>2, <2>3
  <2> HIDE DEF more
  <2> QED BY <1>3, <1>7, <2>1, <2>2, <2>4, <2>8, <2>9, BegunIInv
<1> QED BY <1>2, <1>4, <1>5, <1>6, <1>7 DEF Refused, fat16_open

\* A call returns: its path is freed, and a descriptor may be allocated.
Returns(n, more) ==
    /\ pc = "returned" /\ n = call /\ call' = call /\ NoLocals
    /\ \A o \in more : o[1] = n
    /\ Took(heap', pparser_free(heap, n, Len(parts)), more)
    /\ \A m \in Calls : m # n =>
          opened'[m] = opened[m] /\ handed'[m] = handed[m] /\ (InTable(m)' <=> InTable(m))

LEMMA ReturnsLeft ==
    ASSUME IInv, NEW n, NEW more, Returns(n, more)
    PROVE  /\ n \in Calls /\ k \in 1 .. Len(parts) /\ ret \in {"file", "null", "error"}
           /\ handed[n] = NotHeld /\ ~InTable(n) /\ opened[n].kind = "none"
           /\ Left(heap', n) = Rest(heap, n, Len(parts)) \cup more
           /\ WithSpare(Rest(heap, n, Len(parts)), n, Len(parts), Searched)
           /\ OthersKeep(heap', heap, n)
<1>1. pc \in Running /\ n = call /\ pc = "returned"
  BY DEF Returns, Running
<1>2. n \in Calls /\ k \in 1 .. Len(parts) /\ ret \in {"file", "null", "error"}
  BY <1>1 DEF IInv, TypeOK
<1>3. handed[n] = NotHeld /\ ~InTable(n) /\ opened[n].kind = "none"
  BY <1>1, <1>2 DEF IInv, Ahead
<1> DEFINE h == pparser_free(heap, n, Len(parts))
<1>4. Left(h, n) = Rest(heap, n, Len(parts)) /\ \A m : m # n => Left(h, m) = Left(heap, m)
  BY PathFreed
<1>5. Took(heap', h, more) /\ \A o \in more : o[1] = n
  BY DEF Returns
<1> HIDE DEF h
<1>6. Left(heap', n) = Left(h, n) \cup more /\ \A m : m # n => Left(heap', m) = Left(h, m)
  BY <1>5 DEF Took, Left
<1> QED BY <1>1, <1>2, <1>3, <1>4, <1>6 DEF OthersKeep, IInv, Working

LEMMA ReturnsIInv ==
    ASSUME IInv, NEW n, NEW more, Returns(n, more), TypeOK', Settled(n)', Linked'
    PROVE  IInv'
<1>1. n = call /\ call' = call /\ pc' = "idle" /\ n \in Calls /\ n \in Nat
  BY ReturnsLeft DEF Returns, NoLocals, Calls
<1>2. OthersKeep(heap', heap, n)
  BY ReturnsLeft
<1>3. Ahead'
  <2>1. ASSUME NEW o \in heap' PROVE o[1] \in 0 .. n
    <3>1. o[1] # n => o \in heap
      BY <1>2 DEF OthersKeep, Left
    <3> QED BY <1>1, <3>1 DEF IInv, Ahead
  <2>2. ASSUME NEW m \in Calls, m > n
        PROVE  handed'[m] = NotHeld /\ ~InTable(m)' /\ opened'[m].kind = "none"
    <3>1. m # n
      BY <1>1, <2>2 DEF Calls
    <3>2. handed[m] = NotHeld /\ ~InTable(m) /\ opened[m].kind = "none"
      BY <1>1, <2>2 DEF IInv, Ahead
    <3> QED BY <3>1, <3>2 DEF Returns
  <2> QED BY <1>1, <2>1, <2>2 DEF Ahead, Running
<1>4. AllSettled'
  <2>1. \A m \in Calls : m # n => Done(m)
    BY <1>1 DEF Done
  <2>2. \A m \in Calls : m # n => opened'[m] = opened[m] /\ (InTable(m)' <=> InTable(m))
    BY DEF Returns
  <2> QED BY <1>2, <2>1, <2>2, OneSettles
<1>5. Working'
  BY <1>1 DEF Working, Running
<1> QED BY <1>3, <1>4, <1>5 DEF IInv

\* The slot found is a free one.
LEMMA SlotFree ==
    ASSUME file_get_free_slot # NoCall
    PROVE  file_get_free_slot \in Fds /\ table[file_get_free_slot] = NoCall
<1>1. FreeSlots # {} /\ FreeSlots \subseteq Nat
  BY DEF file_get_free_slot, FreeSlots, Fds
<1>2. \E s \in FreeSlots : \A t \in FreeSlots : s <= t
  BY <1>1, LeastNumber
<1> QED BY <1>1, <1>2 DEF file_get_free_slot, FreeSlots

\* The call's own PathPart, and what is left of the path, as it returns.
LEMMA PartsLeft ==
    ASSUME NEW n, NEW j, NEW left, NEW got, WithSpare(left, n, j, got),
           \A o \in got : o[2] # "part"
    PROVE  /\ \A o, q \in PartsIn(left) : o = q
           /\ left \ PartsIn(left) = got
<1>1. \A o \in Spare(n, j) : o[2] = "part" /\ o = Obj(n, "part", j + 1)
  BY Objects DEF Spare
<1> QED BY <1>1 DEF WithSpare, PartsIn

LEMMA SucceedsIInv == ASSUME IInv, OpenSucceeds PROVE IInv'
<1>1. PICK n : n = call
  OBVIOUS
<1>2. PICK slot : slot = file_get_free_slot
  OBVIOUS
<1>3. PICK more : more = {Obj(n, "desc", 0)}
  OBVIOUS
<1>4. slot \in Fds /\ table[slot] = NoCall
  BY <1>2, SlotFree DEF OpenSucceeds
<1>5. /\ pc = "returned" /\ ret \in {"file", "null"} /\ n \in Calls /\ n # NoCall
      /\ table \in [Fds -> {NoCall} \cup Calls] /\ handed \in [Calls -> Values]
      /\ opened = [m \in Calls |-> opened[m]] /\ k \in Nat /\ TypeOK
  <2>1. pc = "returned" /\ ret \in {"file", "null"}
    BY DEF OpenSucceeds
  <2>2. n \in Calls /\ k \in 1 .. Len(parts) /\ TypeOK
    BY <1>1, <2>1 DEF IInv, TypeOK, Running
  <2> QED BY <2>1, <2>2 DEF TypeOK, Calls, NoCall
<1>6. /\ table' = [table EXCEPT ![slot] = n] /\ handed' = [handed EXCEPT ![n] = slot]
      /\ opened'[n].kind = ret /\ opened'[n].number = k
      /\ opened' = [m \in Calls |-> opened'[m]]
      /\ \A m \in Calls : m # n => opened'[m] = opened[m]
      /\ opened'[n] \in [kind : Kinds, entry : {opened'[n].entry}, number : Nat]
  <2>1. PICK item : item = [kind |-> ret, entry |-> IF ret = "file" THEN found ELSE End, number |-> k]
    OBVIOUS
  <2>2. opened' = [opened EXCEPT ![n] = item]
    BY <1>1, <2>1 DEF OpenSucceeds
  <2>3. opened'[n] = item
    BY <1>5, <2>2
  <2>4. item \in [kind : Kinds, entry : {item.entry}, number : Nat] /\ item.kind = ret /\ item.number = k
    BY <1>5, <2>1 DEF Kinds
  <2> QED BY <1>1, <1>2, <1>5, <2>2, <2>3, <2>4 DEF OpenSucceeds
<1>7. ~InTable(n) /\ \A m \in Calls : m # n => (InTable(m)' <=> InTable(m))
  <2>1. ~InTable(n)
    BY <1>1, <1>5 DEF IInv, Ahead, Running
  <2>2. \A s \in Fds : s # slot => table'[s] = table[s]
    BY <1>5, <1>6
  <2>3. table'[slot] = n
    BY <1>4, <1>5, <1>6
  <2>4. \A m \in Calls : m # NoCall
    BY DEF Calls, NoCall
  <2> QED BY <1>4, <2>1, <2>2, <2>3, <2>4 DEF InTable
<1>8. Returns(n, more)
  <2>1. Took(heap', pparser_free(heap, n, Len(parts)), more)
    BY <1>1, <1>3 DEF OpenSucceeds, Took
  <2>2. \A o \in more : o[1] = n
    BY <1>3, Objects
  <2>3. \A m \in Calls : m # n => handed'[m] = handed[m]
    BY <1>5, <1>6
  <2> QED BY <1>1, <1>5, <1>6, <1>7, <2>1, <2>2, <2>3 DEF OpenSucceeds, Returns
<1>9. TypeOK'
  <2>1. table' \in [Fds -> {NoCall} \cup Calls] /\ handed' \in [Calls -> Values]
    <3>1. slot \in Values
      BY <1>4, FileTableConstants DEF Fds, Values
    <3> QED BY <1>4, <1>5, <1>6, <3>1
  <2>2. \A m \in Calls :
            opened'[m] \in [kind : Kinds, entry : {opened'[m].entry}, number : Nat]
    BY <1>5, <1>6 DEF TypeOK
  <2>3. pc' = "idle" /\ parts' = << >> /\ call' = call
    BY DEF OpenSucceeds, NoLocals
  <2> QED BY <1>5, <1>6, <2>1, <2>2, <2>3 DEF TypeOK, Running
<1>10. Settled(n)'
  <2>1. Left(heap', n) = Rest(heap, n, Len(parts)) \cup more
    BY <1>8, ReturnsLeft
  <2>2. WithSpare(Rest(heap, n, Len(parts)), n, Len(parts), Searched)
    BY <1>8, ReturnsLeft
  <2>3. Searched \cup more = Belongings(n)'
    BY <1>1, <1>3, <1>5, <1>6 DEF Searched, Belongings, Data, ItemOf
  <2>4. \A o \in Belongings(n)' : o[2] # "part"
    BY Objects DEF Belongings
  <2>5. WithSpare(Left(heap', n), n, Len(parts), Belongings(n)')
    BY <2>1, <2>2, <2>3 DEF WithSpare
  <2>6. /\ \A o, q \in PartsIn(Left(heap', n)) : o = q
        /\ Left(heap', n) \ PartsIn(Left(heap', n)) = Belongings(n)'
    <3> DEFINE got == Belongings(n)'
    <3> HIDE DEF got
    <3>1. WithSpare(Left(heap', n), n, Len(parts), got) /\ \A o \in got : o[2] # "part"
      BY <2>4, <2>5 DEF got
    <3>2. /\ \A o, q \in PartsIn(Left(heap', n)) : o = q
          /\ Left(heap', n) \ PartsIn(Left(heap', n)) = got
      BY <3>1, PartsLeft
    <3> QED BY <3>2 DEF got
  <2>7. InTable(n)'
    <3>1. table'[slot] = n
      BY <1>4, <1>5, <1>6
    <3> QED BY <1>4, <3>1 DEF InTable
  <2>8. opened'[n].kind \in {"file", "null"}
    BY <1>5, <1>6
  <2> QED BY <2>6, <2>7, <2>8 DEF Settled, SettledAs, Left, PartsIn
<1>11. Linked'
  <2>1. SUFFICES ASSUME NoneLost'
                 PROVE  /\ \A m \in Calls : handed'[m] \in Fds => table'[handed'[m]] = m
                        /\ \A s \in Fds : table'[s] # NoCall => handed'[table'[s]] = s
    BY DEF Linked
  <2>2. opened[n].kind = "none"
    BY <1>8, ReturnsLeft
  <2>3. NoneLost
    BY <1>6, <2>1, <2>2 DEF NoneLost
  <2>4. /\ \A m \in Calls : handed[m] \in Fds => table[handed[m]] = m
        /\ \A s \in Fds : table[s] # NoCall => handed[table[s]] = s
    BY <2>3 DEF IInv, Linked
  <2>5. \A m \in Calls : m # NoCall
    BY DEF Calls, NoCall
  <2>6. \A m \in Calls : handed'[m] = IF m = n THEN slot ELSE handed[m]
    BY <1>5, <1>6
  <2>7. \A s \in Fds : table'[s] = IF s = slot THEN n ELSE table[s]
    BY <1>5, <1>6
  <2>8. \A s \in Fds : table[s] # n /\ (table[s] # NoCall => table[s] \in Calls)
    BY <1>5, <1>7 DEF InTable
  <2> QED BY <1>4, <1>5, <2>4, <2>5, <2>6, <2>7, <2>8
<1> QED BY <1>8, <1>9, <1>10, <1>11, ReturnsIInv

\* A call that returns without a descriptor of its own.
LEMMA WithoutIInv == ASSUME IInv, OpenWithoutDescriptor PROVE IInv'
<1>1. PICK n : n = call
  OBVIOUS
<1>2. PICK more : more = {}
  OBVIOUS
<1>3. PICK value \in Values \ {NotHeld} : handed' = [handed EXCEPT ![n] = value]
  BY <1>1 DEF OpenWithoutDescriptor
<1>4. /\ pc = "returned" /\ ret \in {"file", "null"} /\ n \in Calls /\ TypeOK
      /\ handed \in [Calls -> Values] /\ opened = [m \in Calls |-> opened[m]]
  <2>1. pc = "returned" /\ ret \in {"file", "null"}
    BY DEF OpenWithoutDescriptor
  <2>2. n \in Calls /\ TypeOK
    BY <1>1, <2>1 DEF IInv, TypeOK, Running
  <2> QED BY <2>1, <2>2 DEF TypeOK
<1>5. /\ opened' = [opened EXCEPT ![n].kind = "lost"] /\ table' = table
      /\ pc' = "idle" /\ parts' = << >> /\ call' = call
  BY <1>1 DEF OpenWithoutDescriptor, NoLocals
<1>6. /\ opened'[n].kind = "lost" /\ opened' = [m \in Calls |-> opened'[m]]
      /\ opened'[n] \in [kind : Kinds, entry : {opened'[n].entry}, number : Nat]
      /\ \A m \in Calls : m # n => opened'[m] = opened[m]
  <2>1. opened[n] \in [kind : Kinds, entry : {opened[n].entry}, number : Nat]
    BY <1>4 DEF TypeOK
  <2>2. opened'[n] = [opened[n] EXCEPT !.kind = "lost"]
    BY <1>4, <1>5
  <2>3. opened' = [m \in Calls |-> opened'[m]] /\ \A m \in Calls : m # n => opened'[m] = opened[m]
    BY <1>4, <1>5
  <2> QED BY <2>1, <2>2, <2>3 DEF Kinds
<1>7. \A m : InTable(m)' <=> InTable(m)
  BY <1>5 DEF InTable
<1>8. Returns(n, more)
  <2>1. Took(heap', pparser_free(heap, n, Len(parts)), more) /\ NoLocals
    BY <1>1, <1>2 DEF OpenWithoutDescriptor, Took
  <2>2. \A m \in Calls : m # n => handed'[m] = handed[m]
    BY <1>3, <1>4
  <2> QED BY <1>1, <1>2, <1>4, <1>5, <1>6, <1>7, <2>1, <2>2 DEF Returns
<1>9. TypeOK'
  <2>1. handed' \in [Calls -> Values]
    BY <1>3, <1>4
  <2>2. \A m \in Calls :
            opened'[m] \in [kind : Kinds, entry : {opened'[m].entry}, number : Nat]
    BY <1>4, <1>6 DEF TypeOK
  <2> QED BY <1>4, <1>5, <1>6, <2>1, <2>2 DEF TypeOK, Running
<1>10. Settled(n)'
  <2>1. /\ Left(heap', n) = Rest(heap, n, Len(parts))
        /\ WithSpare(Rest(heap, n, Len(parts)), n, Len(parts), Searched) /\ ~InTable(n)
    <3>1. /\ Left(heap', n) = Rest(heap, n, Len(parts)) \cup more
          /\ WithSpare(Rest(heap, n, Len(parts)), n, Len(parts), Searched) /\ ~InTable(n)
      BY <1>8, ReturnsLeft
    <3> QED BY <1>2, <3>1
  <2>2. \A o \in Searched : o[2] \in {"data", "item", "entries"}
    BY <1>4, Objects DEF Searched, Data, ItemOf
  <2>3. /\ \A o, q \in PartsIn(Left(heap', n)) : o = q
        /\ Left(heap', n) \ PartsIn(Left(heap', n)) = Searched
    BY <2>1, <2>2, PartsLeft
  <2>4. ~InTable(n)'
    BY <1>7, <2>1
  <2> QED BY <1>6, <2>2, <2>3, <2>4 DEF Settled, SettledAs, Left, PartsIn
<1>11. Linked'
  BY <1>4, <1>6 DEF Linked, NoneLost
<1> QED BY <1>8, <1>9, <1>10, <1>11, ReturnsIInv

LEMMA FailsIInv == ASSUME IInv, OpenFails PROVE IInv'
<1>1. PICK n : n = call
  OBVIOUS
<1>2. PICK more : more = {}
  OBVIOUS
<1>3. /\ pc = "returned" /\ ret = "error" /\ handed' = [handed EXCEPT ![n] = Error]
      /\ UNCHANGED <<table, opened, call>> /\ pc' = "idle" /\ parts' = << >>
  BY <1>1 DEF OpenFails, NoLocals
<1>4. n \in Calls /\ TypeOK /\ handed \in [Calls -> Values]
  BY <1>1, <1>3 DEF IInv, TypeOK, Running
<1>5. \A m : InTable(m)' <=> InTable(m)
  BY <1>3 DEF InTable
<1>6. \A m \in Calls : handed'[m] = IF m = n THEN Error ELSE handed[m]
  BY <1>3, <1>4
<1>7. Returns(n, more)
  <2>1. Took(heap', pparser_free(heap, n, Len(parts)), more) /\ NoLocals
    BY <1>1, <1>2 DEF OpenFails, Took
  <2> QED BY <1>1, <1>2, <1>3, <1>5, <1>6, <2>1 DEF Returns
<1>8. TypeOK'
  <2>1. handed' \in [Calls -> Values]
    BY <1>3, <1>4 DEF Values
  <2> QED BY <1>3, <1>4, <2>1 DEF TypeOK, Running
<1>9. Settled(n)'
  <2>1. /\ Left(heap', n) = Rest(heap, n, Len(parts))
        /\ WithSpare(Rest(heap, n, Len(parts)), n, Len(parts), Searched) /\ ~InTable(n)
    <3>1. /\ Left(heap', n) = Rest(heap, n, Len(parts)) \cup more
          /\ WithSpare(Rest(heap, n, Len(parts)), n, Len(parts), Searched) /\ ~InTable(n)
      BY <1>7, ReturnsLeft
    <3> QED BY <1>2, <3>1
  <2>2. Searched = {}
    BY <1>3 DEF Searched
  <2>3. /\ \A o, q \in PartsIn(Left(heap', n)) : o = q
        /\ Left(heap', n) \ PartsIn(Left(heap', n)) = {}
    BY <2>1, <2>2, PartsLeft
  <2>4. ~InTable(n)' /\ Left(heap', n) = PartsIn(Left(heap', n))
    BY <1>5, <2>1, <2>3 DEF PartsIn
  <2> QED BY <2>3, <2>4 DEF Settled, SettledAs, Left, PartsIn
<1>10. Linked'
  <2>1. SUFFICES ASSUME NoneLost
                 PROVE  /\ \A m \in Calls : handed'[m] \in Fds => table[handed'[m]] = m
                        /\ \A s \in Fds : table[s] # NoCall => handed'[table[s]] = s
    BY <1>3 DEF Linked, NoneLost
  <2>2. /\ \A m \in Calls : handed[m] \in Fds => table[handed[m]] = m
        /\ \A s \in Fds : table[s] # NoCall => handed[table[s]] = s
    BY <2>1 DEF IInv, Linked
  <2>3. Error \notin Fds
    BY DEF Error, Fds
  <2>4. \A s \in Fds : table[s] # n /\ (table[s] # NoCall => table[s] \in Calls)
    <3>1. ~InTable(n)
      BY <1>7, ReturnsLeft
    <3> QED BY <1>4, <3>1 DEF InTable, TypeOK
  <2> QED BY <1>6, <2>2, <2>3, <2>4
<1> QED BY <1>7, <1>8, <1>9, <1>10, ReturnsIInv

\* A descriptor is used that has no item, or an index outside the table.
LEMMA FaultIInv ==
    ASSUME IInv, NEW n \in Calls, file_stat(n) \/ CloseOutside(n)
    PROVE  IInv'
<1>1. /\ UNCHANGED <<heap, call, parts, table, opened, handed>>
      /\ pc = "idle" /\ pc' = "stopped" /\ pc' \notin Running
  BY DEF file_stat, CloseOutside, Stop, Running
<1>2. OnlyOwn(heap)
  BY <1>1 DEF OnlyOwn, OthersKeep
<1>3. Ahead' /\ AllSettled' /\ Linked'
  BY <1>1, <1>2, OthersStay
<1>4. TypeOK' /\ Working'
  BY <1>1 DEF IInv, TypeOK, Working
<1> QED BY <1>3, <1>4 DEF IInv

LEMMA CloseIInv == ASSUME IInv, NEW n \in Calls, file_close(n) PROVE IInv'
<1>1. PICK c : c = Get(handed[n])
  OBVIOUS
<1>2. /\ pc = "idle" /\ handed' = [handed EXCEPT ![n] = NotHeld]
      /\ heap' = (IF c = NoCall THEN heap ELSE heap \ Closed(c))
      /\ table' = [s \in Fds |-> IF c # NoCall /\ table[s] = c THEN NoCall ELSE table[s]]
      /\ UNCHANGED <<call, parts, pc, opened>>
  BY <1>1 DEF file_close, search
<1>3. TypeOK /\ table \in [Fds -> {NoCall} \cup Calls] /\ handed \in [Calls -> Values]
  BY DEF IInv, TypeOK
<1>4. \A m \in Calls : Done(m) /\ m # NoCall
  BY <1>2 DEF Done, Calls, NoCall
<1>5. c # NoCall => c \in Calls /\ InTable(c) /\ Settled(c)
  <2>1. handed[n] \in Fds => table[handed[n]] \in {NoCall} \cup Calls
    BY <1>3
  <2>2. c # NoCall => c \in Calls /\ InTable(c)
    BY <1>1, <2>1 DEF Get, InTable
  <2> QED BY <1>4, <2>2 DEF IInv, AllSettled
<1>6. \A s \in Fds : table'[s] = IF table[s] = c THEN NoCall ELSE table[s]
  BY <1>2
<1>7. \A m \in Calls : InTable(m)' <=> InTable(m) /\ m # c
  BY <1>4, <1>6 DEF InTable
<1>8. \A m \in Calls : handed'[m] = IF m = n THEN NotHeld ELSE handed[m]
  BY <1>2, <1>3
<1>9. c # NoCall => Closed(c) = Belongings(c) /\ Own(Closed(c), c)
  <2>1. Closed(c) = Belongings(c)
    BY DEF Closed, Belongings, Data, ItemOf
  <2>2. Own(Closed(c), c)
    BY Objects DEF Closed, Data, ItemOf, Own
  <2> QED BY <2>1, <2>2
<1>10. heap' \subseteq heap
  BY <1>2
<1>11. OthersKeep(heap', heap, c)
  <2>1. CASE c = NoCall
    BY <1>2, <2>1 DEF OthersKeep
  <2>2. CASE c # NoCall
    <3>1. PICK objects : objects = Closed(c)
      OBVIOUS
    <3>2. Gave(heap', heap, objects) /\ Own(objects, c)
      BY <1>2, <1>9, <2>2, <3>1 DEF Gave
    <3> QED BY <3>2, GaveRest
  <2> QED BY <2>1, <2>2
<1>12. c \in Calls => Settled(c)'
  <2>1. SUFFICES ASSUME c \in Calls PROVE Settled(c)'
    OBVIOUS
  <2>2. c # NoCall /\ InTable(c) /\ Settled(c)
    BY <1>4, <1>5, <2>1
  <2>3. /\ \A o, q \in PartsIn(Left(heap, c)) : o = q
        /\ Left(heap, c) \ PartsIn(Left(heap, c)) = Belongings(c)
    BY <2>2 DEF Settled, SettledAs
  <2>4. Left(heap', c) = Left(heap, c) \ Belongings(c)
    BY <1>2, <1>9, <2>2 DEF Left
  <2>5. Left(heap', c) = PartsIn(Left(heap, c)) /\ ~InTable(c)'
    BY <1>7, <2>1, <2>3, <2>4 DEF PartsIn
  <2>6. PartsIn(Left(heap', c)) = PartsIn(Left(heap, c))
    BY <2>5 DEF PartsIn
  <2> QED BY <2>3, <2>5, <2>6 DEF Settled, SettledAs, Left, PartsIn
<1>13. AllSettled'
  <2>1. \A m \in Calls : m # c => opened'[m] = opened[m] /\ (InTable(m)' <=> InTable(m))
    BY <1>2, <1>7
  <2> QED BY <1>4, <1>11, <1>12, <2>1, OneSettles
<1>14. TypeOK'
  <2>1. table' \in [Fds -> {NoCall} \cup Calls]
    BY <1>2, <1>3
  <2>2. handed' \in [Calls -> Values]
    BY <1>2, <1>3 DEF Values
  <2> QED BY <1>2, <1>3, <2>1, <2>2 DEF TypeOK, Running
<1>15. Ahead'
  <2>1. ASSUME NEW m \in Calls, m > call
        PROVE  handed'[m] = NotHeld /\ ~InTable(m)' /\ opened'[m].kind = "none"
    <3>1. handed[m] = NotHeld /\ ~InTable(m) /\ opened[m].kind = "none"
      BY <2>1 DEF IInv, Ahead
    <3> QED BY <1>2, <1>7, <1>8, <3>1
  <2> QED BY <1>2, <1>10, <2>1 DEF IInv, Ahead, Running
<1>16. Linked'
  <2>1. SUFFICES ASSUME NoneLost
                 PROVE  /\ \A m \in Calls : handed'[m] \in Fds => table'[handed'[m]] = m
                        /\ \A s \in Fds : table'[s] # NoCall => handed'[table'[s]] = s
    BY <1>2 DEF Linked, NoneLost
  <2>2. /\ \A m \in Calls : handed[m] \in Fds => table[handed[m]] = m
        /\ \A s \in Fds : table[s] # NoCall => handed[table[s]] = s
    BY <2>1 DEF IInv, Linked
  <2>3. handed[n] \in Fds => c = n
    BY <1>1, <2>2 DEF Get
  <2>4. handed[n] \notin Fds => c = NoCall
    BY <1>1 DEF Get
  <2>5. NotHeld \notin Fds
    BY DEF NotHeld, Fds
  <2>6. \A s \in Fds : table[s] # NoCall => table[s] \in Calls
    BY <1>3
  <2>7. ASSUME NEW m \in Calls, handed'[m] \in Fds PROVE table'[handed'[m]] = m
    <3>1. m # n /\ handed[m] = handed'[m]
      BY <1>8, <2>5, <2>7
    <3>2. table[handed'[m]] = m /\ m # c
      BY <1>4, <2>2, <2>3, <2>4, <2>7, <3>1
    <3> QED BY <1>6, <2>7, <3>2
  <2>8. ASSUME NEW s \in Fds, table'[s] # NoCall PROVE handed'[table'[s]] = s
    <3>1. table'[s] = table[s] /\ table[s] # NoCall /\ table[s] # c
      BY <1>6, <2>8
    <3>2. handed[table[s]] = s /\ table[s] \in Calls
      BY <2>2, <2>6, <3>1
    <3>3. table[s] # n
      BY <2>3, <2>8, <3>1, <3>2
    <3> QED BY <1>8, <3>1, <3>2, <3>3
  <2> QED BY <2>7, <2>8
<1>17. Working'
  BY <1>2 DEF Working, Running
<1> QED BY <1>13, <1>14, <1>15, <1>16, <1>17 DEF IInv
-----------------------------------------------------------------------------
(* The theorems.                                                           *)

\* What is left between calls says what the table holds and who reaches it.
LEMMA IInvSays == IInv => HandlesReach /\ OnlySpareRemains
<1> SUFFICES ASSUME IInv PROVE HandlesReach /\ OnlySpareRemains
  OBVIOUS
<1>1. HandlesReach
  <2>1. SUFFICES ASSUME NoneLost
                 PROVE  /\ \A n \in Calls : handed[n] \in Fds =>
                              table[handed[n]] = n /\ Belongings(n) \subseteq heap
                        /\ \A s \in Fds : table[s] # NoCall => handed[table[s]] = s
    BY DEF HandlesReach, NoneLost
  <2>2. /\ \A n \in Calls : handed[n] \in Fds => table[handed[n]] = n
        /\ \A s \in Fds : table[s] # NoCall => handed[table[s]] = s
    BY <2>1 DEF IInv, Linked
  <2>3. ASSUME NEW n \in Calls, handed[n] \in Fds PROVE Belongings(n) \subseteq heap
    <3>1. InTable(n)
      BY <2>2, <2>3 DEF InTable
    <3>2. Left(heap, n) \ PartsIn(Left(heap, n)) = Belongings(n)
      BY <3>1 DEF IInv, AllSettled, Done, Settled, SettledAs
    <3> QED BY <3>2 DEF Left
  <2> QED BY <2>2, <2>3
<1>2. OnlySpareRemains
  <2>1. SUFFICES ASSUME pc = "idle", NEW n \in Calls
                 PROVE  LET left == {o \in heap : o[1] = n}
                            spare == {o \in left : o[2] = "part"}
                        IN  /\ \A o, q \in spare : o = q
                            /\ \/ left = spare
                               \/ /\ opened[n].kind = "lost"
                                  /\ \A o \in left \ spare : o[2] \in {"data", "item", "entries"}
                               \/ (\E s \in Fds : table[s] = n) /\ left \ spare = Belongings(n)
    BY DEF OnlySpareRemains
  <2>2. Settled(n)
    BY <2>1 DEF IInv, AllSettled, Done
  <2> QED BY <2>2 DEF Settled, SettledAs, Left, PartsIn, InTable
<1> QED BY <1>1, <1>2

LEMMA NextIInv == ASSUME IInv, [Next]_vars PROVE IInv'
<1>1. CASE UNCHANGED vars
  <2>1. /\ UNCHANGED <<heap, call, parts, pc, k, ret, table, opened, handed>>
    BY <1>1 DEF vars, directoryVars, search
  <2> USE <2>1
  <2>2. TypeOK'
    BY DEF IInv, TypeOK
  <2>3. Ahead' /\ Linked'
    BY DEF IInv, Ahead, Linked, NoneLost, InTable
  <2>4. Working'
    BY DEF IInv, Working, Searched, Above, Data, ItemOf, Obj
  <2>5. AllSettled'
    BY DEF IInv, AllSettled, Done, Settled, Belongings, InTable, Obj
  <2> QED BY <2>2, <2>3, <2>4, <2>5 DEF IInv
<1> QED BY <1>1, BootIInv, OpenIInv, SearchIInv, SucceedsIInv, WithoutIInv, FailsIInv,
           FaultIInv, CloseIInv DEF Next

THEOREM Invariant == Spec => []IInv
BY InitIInv, NextIInv, PTL DEF Spec

\* The table holds calls of file_open, each call has returned an error, a
\* descriptor or nothing yet, and the part of the path that is searched is one
\* of its parts.
THEOREM TypeCorrect == Spec => []TypeOK
<1>1. IInv => TypeOK
  BY DEF IInv
<1> QED BY <1>1, Invariant, PTL

\* Whatever the disk holds, whatever is opened and closed and however often
\* the heap is full: as long as every open that found its file has got a
\* descriptor, the holder of a descriptor reaches the file of his own call,
\* still allocated, and every slot taken can be closed by somebody.
THEOREM HandlesReached == Spec => []HandlesReach
BY IInvSays, Invariant, PTL

\* On every way through file_open, its errors included, and after a close,
\* nothing stays allocated but at most one PathPart for each call, and the
\* file of a call that has got no descriptor.
THEOREM LittleLeft == Spec => []OnlySpareRemains
BY IInvSays, Invariant, PTL

-----------------------------------------------------------------------------
(* What the search has found.                                              *)

\* fat16_open gives a descriptor only a file of the name that the path's last
\* part has, and a path is cut short only when memory was short.
OpenedMatches ==
    pc = "returned" /\ ret = "file" =>
        /\ found.mark = "file" /\ Matches(found, parts[Len(parts)])
        /\ failures = 0 => parts = Arguments

MatchInv ==
    /\ failures \in Nat
    /\ pc \in Running /\ failures = 0 => parts = Arguments
    /\ pc = "returned" /\ ret = "file" =>
          k = Len(parts) /\ found.mark = "file" /\ Matches(found, parts[k])

LEMMA WalkMatches ==
    ASSUME NEW item, NEW h, Walk(item, h), pc' = "returned", ret' = "file"
    PROVE  item = "file" /\ k' = k /\ k = Len(parts)
BY DEF Walk, Return, ReturnFault, Stop, Descend

LEMMA Counts ==
    ASSUME failures \in Nat, NEW granted, Count(granted)
    PROVE  failures' \in Nat /\ (failures' = 0 => failures = 0)
BY DEF Count

LEMMA SearchMatches ==
    ASSUME MatchInv, Search, UNCHANGED <<path, mode, table, opened, handed>>
    PROVE  MatchInv'
<1>1. /\ failures' \in Nat /\ (failures' = 0 => failures = 0)
      /\ UNCHANGED <<path, parts>> /\ pc \in Running
  <2>1. CASE FindItem
    <3>1. UNCHANGED parts /\ pc = "search"
      BY <2>1 DEF FindItem
    <3>2. PICK e : Pass(e) \/ PassDeleted(e) \/ NotFound(e) \/ FoundFile(e) \/ FoundDirectory(e)
      BY <2>1 DEF FindItem
    <3>3. CASE Pass(e) \/ PassDeleted(e) \/ NotFound(e)
      BY <3>1, <3>3 DEF Pass, PassDeleted, NotFound, MatchInv, Running
    <3>4. CASE FoundFile(e)
      BY <3>1, <3>4, Counts DEF FoundFile, MatchInv, Running
    <3>5. CASE FoundDirectory(e)
      BY <3>1, <3>5, Counts DEF FoundDirectory, MatchInv, Running
    <3> QED BY <3>2, <3>3, <3>4, <3>5
  <2>2. CASE CountSector \/ CopySector \/ CopyEnd
    BY <2>2 DEF CountSector, CopySector, CopyEnd, MatchInv, Running
  <2>3. CASE CountEnd
    BY <2>3, Counts DEF CountEnd, MatchInv, Running
  <2> QED BY <2>1, <2>2, <2>3 DEF Search
<1>2. ASSUME failures' = 0 PROVE parts' = Arguments'
  BY <1>1, <1>2 DEF MatchInv, Arguments
<1>3. ASSUME pc' = "returned", ret' = "file"
      PROVE  k' = Len(parts') /\ found'.mark = "file" /\ Matches(found', parts'[k'])
  <2>1. CASE FindItem
    <3>1. PICK e : Pass(e) \/ PassDeleted(e) \/ NotFound(e) \/ FoundFile(e) \/ FoundDirectory(e)
      BY <2>1 DEF FindItem
    <3>2. pc = "search"
      BY <2>1 DEF FindItem
    <3>3. ~Pass(e) /\ ~PassDeleted(e)
      BY <1>3, <3>2 DEF Pass, PassDeleted, search
    <3>4. ~NotFound(e)
      BY <1>3, WalkMatches DEF NotFound
    <3>5. ~FoundDirectory(e)
      <4>1. ASSUME NEW h PROVE ~Walk("error", h)
        BY <1>3, WalkMatches
      <4> QED BY <1>3, <4>1 DEF FoundDirectory
    <3>6. FoundFile(e)
      BY <3>1, <3>3, <3>4, <3>5
    <3>7. found' = e /\ e.mark = "file" /\ Matches(e, parts[k])
      BY <3>6 DEF FoundFile
    <3>8. k' = k /\ k = Len(parts)
      BY <1>3, <3>6, WalkMatches DEF FoundFile
    <3> QED BY <1>1, <3>7, <3>8
  <2>2. CASE CountSector \/ CopySector
    BY <1>3, <2>2 DEF CountSector, CopySector
  <2>3. CASE CountEnd
    <3>1. ASSUME NEW h PROVE ~Walk("freed", h)
      BY <1>3, WalkMatches
    <3> QED BY <1>3, <2>3, <3>1 DEF CountEnd
  <2>4. CASE CopyEnd
    BY <1>3, <2>4, WalkMatches DEF CopyEnd
  <2> QED BY <2>1, <2>2, <2>3, <2>4 DEF Search
<1>4. Matches(found, parts[k])' <=> Matches(found', parts'[k'])
  BY DEF Matches, fat16_get_plain_item_name
<1> QED BY <1>1, <1>2, <1>3, <1>4 DEF MatchInv

\* Where nothing fails, the whole path is parsed.
LEMMA WholePath ==
    ASSUME NEW p \in Paths, NEW n, NEW r \in pparser_parse_path(p, n), r.set, r.failed = 0
    PROVE  r.parts = PartsOf(p)
<1> DEFINE parsed == PartsOf(p)
           len == Len(parsed)
           Result(set, j, got, failed) ==
               [set |-> set, parts |-> SubSeq(parsed, 1, j), got |-> got, failed |-> failed]
           complete == PathObjects(n, len) \cup IF len > 0 THEN Spare(n, len) ELSE {}
<1>1. r = Result(TRUE, len, complete, 0)
  <2>1. \/ r = Result(FALSE, 0, {}, 0)
        \/ r = Result(TRUE, len, complete, 0)
        \/ \E j \in 1 .. len - 1, spare \in BOOLEAN :
              r = Result(TRUE, j, PathObjects(n, j) \cup IF spare THEN Spare(n, j) ELSE {}, 1)
        \/ r = Result(TRUE, len, PathObjects(n, len), 1)
        \/ r = Result(FALSE, 0, {}, 1)
        \/ len > 0 /\ r = Result(FALSE, 0, Spare(n, 0), 1)
        \/ r = Result(FALSE, len, complete \ PathObjects(n, 0), 1)
    BY DEF pparser_parse_path
  <2>2. \A set, j, got, failed :
           Result(set, j, got, failed).set = set /\ Result(set, j, got, failed).failed = failed
    OBVIOUS
  <2> HIDE DEF Result, complete, len
  <2>3. \A set, j, got : r # Result(set, j, got, 1)
    BY <2>2
  <2>4. \A j, got, failed : r # Result(FALSE, j, got, failed)
    <3>1. SUFFICES ASSUME NEW j, NEW got, NEW failed, r = Result(FALSE, j, got, failed)
                   PROVE  FALSE
      OBVIOUS
    <3>2. r.set = FALSE
      BY <2>2, <3>1
    <3> QED BY <3>2
  <2> QED BY <2>1, <2>3, <2>4, Zenon
<1>2. r.parts = SubSeq(parsed, 1, len)
  BY <1>1
<1>3. ASSUME NEW S, NEW s \in Seq(S) PROVE SubSeq(s, 1, Len(s)) = s
  OBVIOUS
<1>4. parsed \in Seq(STRING)
  BY PartsAreStrings
<1> HIDE DEF parsed
<1> QED BY <1>2, <1>3, <1>4 DEF parsed

LEMMA OpenMatches ==
    ASSUME MatchInv, NEW p \in Paths, NEW m, file_open(p, m)
    PROVE  MatchInv'
<1>1. PICK n : n = call + 1
  OBVIOUS
<1>2. PICK r \in pparser_parse_path(p, n) :
          Unparsed(p, m, r) \/ Refused(m, r) \/ fat16_open(p, m, r)
  BY <1>1 DEF file_open
<1>3. r.failed \in {0, 1}
  BY DEF pparser_parse_path
<1>4. failures' \in Nat /\ (failures' = 0 => r.failed = 0)
  BY <1>2, <1>3 DEF MatchInv, Unparsed, Refused, fat16_open
<1>5. pc' \in {"stopped", "idle", "search"}
  BY <1>2 DEF Unparsed, Refused, fat16_open, Refuse, NoLocals, Stop
<1>6. ASSUME pc' \in Running, failures' = 0 PROVE parts' = Arguments'
  <2>1. r.set /\ parts' = r.parts /\ path' = p
    BY <1>2, <1>6 DEF Running, Unparsed, Refused, fat16_open, Refuse, NoLocals, Stop, Begin
  <2>2. r.parts = PartsOf(p)
    BY <1>4, <1>6, <2>1, WholePath
  <2> QED BY <2>1, <2>2 DEF Arguments, PartsOf
<1> QED BY <1>4, <1>5, <1>6 DEF MatchInv

LEMMA NextMatches == ASSUME MatchInv, [Next]_vars PROVE MatchInv'
<1>1. CASE \E p \in Paths, m \in Modes : file_open(p, m)
  BY <1>1, OpenMatches
<1>2. CASE Search /\ UNCHANGED <<path, mode, table, opened, handed>>
  BY <1>2, SearchMatches
<1>3. CASE fat16_resolve \/ disk_all_init_panics
  BY <1>3 DEF MatchInv, fat16_resolve, disk_all_init_panics, Running
<1>4. CASE OpenSucceeds \/ OpenWithoutDescriptor \/ OpenFails
  BY <1>4 DEF MatchInv, OpenSucceeds, OpenWithoutDescriptor, OpenFails, NoLocals, Running
<1>5. ASSUME NEW n \in Calls, file_stat(n) \/ file_close(n) \/ CloseOutside(n) PROVE MatchInv'
  <2>1. UNCHANGED failures /\ pc' \in {"idle", "stopped"}
    BY <1>5 DEF file_stat, file_close, CloseOutside, Stop, search
  <2> QED BY <2>1 DEF MatchInv, Running
<1>6. CASE UNCHANGED vars
  <2>1. UNCHANGED <<failures, pc, ret, k, parts, found, path>>
    BY <1>6 DEF vars, directoryVars, search
  <2>2. Matches(found, parts[k])' <=> Matches(found, parts[k])
    BY <2>1 DEF Matches, fat16_get_plain_item_name
  <2> QED BY <2>1, <2>2 DEF MatchInv, Arguments, PartsOf
<1> QED BY <1>1, <1>2, <1>3, <1>4, <1>5, <1>6 DEF Next

\* A descriptor is never given for a file of another name than the last part
\* of the path, nor for part of a path while memory is granted.
THEOREM OpenedByName == Spec => []OpenedMatches
<1>1. Init => MatchInv
  BY DEF Init, MatchInv, Running
<1>2. MatchInv /\ [Next]_vars => MatchInv'
  BY NextMatches
<1>3. MatchInv => OpenedMatches
  BY DEF MatchInv, OpenedMatches, Running
<1> QED BY <1>1, <1>2, <1>3, PTL DEF Spec

-----------------------------------------------------------------------------
(* Division, and the sizes.                                                *)

LEMMA DivMod ==
    ASSUME NEW d \in Nat \ {0}, NEW q \in Int, NEW r \in 0 .. d - 1, NEW x, x = d * q + r
    PROVE  x \div d = q /\ x % d = r
<1>1. x \in Int
  OBVIOUS
<1>2. PICK a \in Int, b \in 0 .. d - 1 : a = x \div d /\ b = x % d /\ x = d * a + b
  BY <1>1
<1>3. ASSUME NEW m \in Int, NEW n \in Int, m > n
      PROVE  d * m >= d * n + d
  <2>1. d * (m - n - 1) >= 0
    BY <1>3
  <2>2. d * (m - n - 1) = d * m - d * n - d
    OBVIOUS
  <2> QED BY <2>1, <2>2
<1>4. d * a \in Int /\ d * q \in Int
  OBVIOUS
<1>5. ~(a > q)
  <2>1. a > q => d * a >= d * q + d
    BY <1>3
  <2> QED BY <1>1, <1>2, <1>4, <2>1
<1>6. ~(a < q)
  <2>1. a < q => d * q >= d * a + d
    BY <1>3
  <2> QED BY <1>1, <1>2, <1>4, <2>1
<1>7. a = q
  BY <1>5, <1>6
<1>8. b = r
  BY <1>1, <1>2, <1>4, <1>7
<1> QED BY <1>1, <1>2, <1>7, <1>8

LEMMA Sizes ==
    /\ SectorSize \in Nat \ {0, 1} /\ SectorsPerCluster \in Nat \ {0}
    /\ ClusterSize \in Nat \ {0} /\ ClusterSize >= SectorSize
    /\ ClusterSize = SectorSize * SectorsPerCluster
<1>1. ASSUME NEW m \in Nat \ {0}, NEW n \in Nat \ {0}
      PROVE  m * n \in Nat /\ m * n >= m
  <2>1. m * (n - 1) >= 0 /\ m * (n - 1) = m * n - m
    OBVIOUS
  <2> QED BY <2>1
<1>2. PICK S \in Nat \ {0, 1}, P \in Nat \ {0} : S = SectorSize /\ P = SectorsPerCluster
  BY FatFileConstants
<1>3. S * P \in Nat /\ S * P >= S
  BY <1>1
<1> QED BY <1>2, <1>3 DEF ClusterSize

\* Rounds of a sector each, as many as the bytes take.
LEMMA SectorRounds ==
    ASSUME NEW t \in Nat
    PROVE  /\ SectorsOf(t) \in Nat /\ (SectorsOf(t) = 0 <=> t = 0)
           /\ t >= SectorSize => SectorsOf(t - SectorSize) = SectorsOf(t) - 1
<1>1. PICK S \in Nat \ {0} : S = SectorSize
  BY Sizes
<1>2. PICK a \in Int, b \in 0 .. S - 1 : a = t \div S /\ b = t % S /\ t = S * a + b
  OBVIOUS
<1>3. a >= 0
  <2>1. a < 0 => S * a <= S * (-1)
    <3>1. a < 0 => S * (-1 - a) >= 0
      OBVIOUS
    <3>2. S * (-1 - a) = S * (-1) - S * a
      OBVIOUS
    <3> QED BY <3>1, <3>2
  <2> QED BY <1>2, <2>1
<1>4. SectorsOf(t) = a + (IF b # 0 THEN 1 ELSE 0)
  BY <1>1, <1>2 DEF SectorsOf
<1>5. a = 0 => S * a = 0
  OBVIOUS
<1>6. a > 0 => S * a >= S
  <2>1. a > 0 => S * (a - 1) >= 0
    OBVIOUS
  <2>2. S * (a - 1) = S * a - S
    OBVIOUS
  <2> QED BY <2>1, <2>2
<1>7. SectorsOf(t) = 0 <=> t = 0
  BY <1>2, <1>3, <1>4, <1>5, <1>6
<1>8. ASSUME t >= SectorSize PROVE SectorsOf(t - SectorSize) = SectorsOf(t) - 1
  <2>1. t - S = S * (a - 1) + b
    BY <1>2
  <2>2. (t - S) \div S = a - 1 /\ (t - S) % S = b
    BY <2>1, DivMod
  <2> QED BY <1>1, <1>4, <2>2 DEF SectorsOf
<1> QED BY <1>3, <1>4, <1>7, <1>8

\* A round stays in its cluster, and only the one that reaches its end may
\* read less than a sector.
LEMMA RoundFits ==
    ASSUME NEW at \in 0 .. ClusterSize - 1, NEW n, n = BytesToRead(at)
    PROVE  /\ n \in 1 .. SectorSize /\ at + n \in 1 .. ClusterSize
           /\ n # SectorSize => at + n = ClusterSize
           /\ at % SectorSize = 0 => n = SectorSize
           /\ at + n # ClusterSize =>
                 (at + n) % SectorSize = at % SectorSize /\ at + n < ClusterSize
           /\ 0 % SectorSize = 0
<1>1. PICK S \in Nat \ {0}, P \in Nat \ {0}, C \in Nat \ {0} :
          S = SectorSize /\ P = SectorsPerCluster /\ C = ClusterSize /\ C = S * P
  BY Sizes
<1>2. n = IF S < C - at THEN S ELSE C - at
  BY <1>1 DEF BytesToRead, Least
<1>3. at \in Nat /\ at < C
  BY <1>1
<1>4. n \in 1 .. S /\ at + n \in 1 .. C /\ (n # S => at + n = C)
  BY <1>2, <1>3
<1>5. PICK q \in Int, a \in 0 .. S - 1 : q = at \div S /\ a = at % S /\ at = S * q + a
  BY <1>3
<1>6. ASSUME a = 0 PROVE n = S
  <2>1. S * (P - q) = C - at
    BY <1>1, <1>5, <1>6
  <2>2. P - q <= 0 => S * (P - q) <= 0
    OBVIOUS
  <2>3. P - q > 0
    BY <1>1, <1>3, <2>1, <2>2
  <2>4. S * (P - q) >= S
    <3>1. S * (P - q - 1) >= 0
      BY <2>3
    <3>2. S * (P - q - 1) = S * (P - q) - S
      OBVIOUS
    <3> QED BY <3>1, <3>2
  <2> QED BY <1>2, <2>1, <2>4
<1>7. ASSUME at + n # C PROVE (at + n) % S = a
  <2>1. PICK x \in Int, u \in Int : x = at + n /\ u = q + 1
    BY <1>3, <1>4
  <2>2. x = S * u + a
    BY <1>4, <1>5, <1>7, <2>1
  <2>3. x % S = a
    BY <2>2, DivMod
  <2> QED BY <2>1, <2>3
<1>8. 0 % S = 0
  <2>1. S * 0 + 0 = 0
    OBVIOUS
  <2> QED BY <2>1, DivMod
<1> QED BY <1>1, <1>4, <1>5, <1>6, <1>7, <1>8

\* diskstream_read delivers a round's bytes, except from the second byte of
\* a sector.
LEMMA AllDelivered ==
    ASSUME NEW at \in 0 .. ClusterSize - 1, at % SectorSize # 1, NEW w \in Int
    PROVE  Delivered(SectorSize * w + at, BytesToRead(at)) = BytesToRead(at)
<1>1. PICK S \in Nat \ {0, 1}, P \in Nat \ {0}, C \in Nat \ {0} :
          S = SectorSize /\ P = SectorsPerCluster /\ C = ClusterSize /\ C = S * P
  BY Sizes
<1>2. PICK n : n = BytesToRead(at)
  OBVIOUS
<1>3. n \in 1 .. S /\ (n # S => at + n = C)
  BY <1>1, <1>2, RoundFits
<1>4. PICK q \in Int, a \in 0 .. S - 1 : q = at \div S /\ a = at % S /\ at = S * q + a
  BY <1>1
<1>5. (S * w + at) % S = a
  <2>1. PICK u \in Int : u = w + q
    BY <1>4
  <2>2. PICK x : x = S * w + at
    OBVIOUS
  <2>3. x = S * u + a
    BY <1>4, <2>2, <2>1
  <2>4. x % S = a
    BY <2>3, DivMod
  <2> QED BY <2>2, <2>4
<1>6. PICK b \in Int, c \in 1 .. S - 1 : a + n - 1 = S * b + c
  <2>1. CASE n = S /\ a = 0
    <3>1. a + n - 1 = S * 0 + (S - 1)
      BY <2>1
    <3> WITNESS 0 \in Int, S - 1 \in 1 .. S - 1
    <3> QED BY <3>1
  <2>2. CASE n = S /\ a # 0
    <3>1. a + n - 1 = S * 1 + (a - 1) /\ a - 1 \in 1 .. S - 1
      BY <1>1, <1>4, <2>2
    <3>2. PICK c \in 1 .. S - 1 : c = a - 1
      BY <3>1
    <3>3. a + n - 1 = S * 1 + c
      BY <3>1, <3>2
    <3> WITNESS 1 \in Int, c \in 1 .. S - 1
    <3> QED BY <3>3
  <2>3. CASE n # S
    <3>1. S * (P - q - 1) = S * P - S * q - S
      OBVIOUS
    <3>2. a + n - 1 = S * (P - q - 1) + (S - 1)
      BY <1>1, <1>3, <1>4, <2>3, <3>1
    <3> WITNESS P - q - 1 \in Int, S - 1 \in 1 .. S - 1
    <3> QED BY <3>2
  <2> QED BY <2>1, <2>2, <2>3
<1>7. (a + n - 1) \div S = b /\ (a + n - 1) % S = c
  <2>1. PICK x \in Int : x = a + n - 1
    BY <1>3
  <2>2. x = S * b + c /\ c \in 0 .. S - 1
    BY <1>6, <2>1
  <2>3. x \div S = b /\ x % S = c
    BY <2>2, DivMod
  <2> QED BY <2>1, <2>3
<1>8. SectorsRead(S * w + at, n) = b + 1
  BY <1>1, <1>5, <1>6, <1>7 DEF SectorsRead
<1>9. (b + 1) * S = S * b + S
  OBVIOUS
<1>10. (b + 1) * S - a >= n
  BY <1>3, <1>4, <1>6, <1>9
<1>11. Delivered(S * w + at, n) = Least(n, (b + 1) * S - a)
  BY <1>1, <1>5, <1>8 DEF Delivered
<1> QED BY <1>1, <1>2, <1>3, <1>10, <1>11 DEF Least

-----------------------------------------------------------------------------
(* The file's clusters.                                                    *)

\* What is iterated exists as a function.
Iterates(f, V, step, v) ==
    f \in [Nat -> V] /\ f[0] = v /\ \A p \in Nat : f[p + 1] = step[f[p]]

LEMMA IterateExists ==
    ASSUME NEW V, NEW step \in [V -> V], NEW v \in V
    PROVE  \E f : Iterates(f, V, step, v)
<1> DEFINE Begun(n) == {g \in [0 .. n -> V] :
                            g[0] = v /\ \A p \in 0 .. n - 1 : g[p + 1] = step[g[p]]}
<1>1. \A n \in Nat : Begun(n) # {}
  <2> DEFINE bad == {n \in Nat : Begun(n) = {}}
  <2>1. SUFFICES ASSUME bad # {} PROVE FALSE
    OBVIOUS
  <2>2. PICK n \in bad : \A m \in bad : n <= m
    BY <2>1, LeastNumber
  <2>3. n # 0
    <3>1. [p \in 0 .. 0 |-> v] \in Begun(0)
      OBVIOUS
    <3> QED BY <2>2, <3>1
  <2>4. PICK l \in Nat : n = l + 1
    BY <2>2, <2>3
  <2>5. Begun(l) # {}
    BY <2>2, <2>4
  <2>6. PICK g \in Begun(l) : TRUE
    BY <2>5
  <2> DEFINE h == [p \in 0 .. n |-> IF p <= l THEN g[p] ELSE step[g[l]]]
  <2>7. g \in [0 .. l -> V] /\ g[0] = v /\ \A p \in 0 .. l - 1 : g[p + 1] = step[g[p]]
    BY <2>6
  <2>8. h \in [0 .. n -> V]
    BY <2>4, <2>7
  <2>9. h[0] = v
    BY <2>4, <2>7
  <2>10. ASSUME NEW p \in 0 .. n - 1 PROVE h[p + 1] = step[h[p]]
    <3>1. p \in 0 .. l /\ p + 1 \in 0 .. n
      BY <2>4
    <3>2. CASE p = l
      <4>1. ~(p + 1 <= l) /\ p <= l
        BY <2>4, <3>2
      <4> QED BY <2>4, <3>1, <3>2, <4>1
    <3>3. CASE p # l
      <4>1. p + 1 <= l /\ p \in 0 .. l - 1 /\ p <= l /\ p \in 0 .. n
        BY <2>4, <3>1, <3>3
      <4> QED BY <2>7, <3>1, <4>1
    <3> QED BY <3>2, <3>3
  <2>11. h \in Begun(n)
    BY <2>8, <2>9, <2>10
  <2> QED BY <2>2, <2>11
<1>2. ASSUME NEW n \in Nat, NEW m \in Nat, NEW g \in Begun(n), NEW h \in Begun(m),
             NEW p \in Nat, p <= n, p <= m
      PROVE  g[p] = h[p]
  <2> DEFINE bad == {j \in Nat : j <= n /\ j <= m /\ g[j] # h[j]}
  <2>1. SUFFICES ASSUME bad # {} PROVE FALSE
    BY <1>2
  <2>2. PICK j \in bad : \A e \in bad : j <= e
    BY <2>1, LeastNumber
  <2>3. j # 0
    BY <2>2
  <2>4. PICK l \in Nat : j = l + 1
    BY <2>2, <2>3
  <2>5. g[l] = h[l]
    BY <2>2, <2>4
  <2>6. l \in 0 .. n - 1 /\ l \in 0 .. m - 1
    BY <2>2, <2>4
  <2>7. g[l + 1] = step[g[l]] /\ h[l + 1] = step[h[l]]
    BY <2>6
  <2> QED BY <2>2, <2>4, <2>5, <2>7
<1> DEFINE Run(n) == CHOOSE g \in Begun(n) : TRUE
           f == [n \in Nat |-> Run(n)[n]]
<1>3. \A n \in Nat : Run(n) \in Begun(n)
  BY <1>1
<1>4. ASSUME NEW n \in Nat
      PROVE  /\ Run(n) \in [0 .. n -> V] /\ Run(n)[0] = v
             /\ \A p \in 0 .. n - 1 : Run(n)[p + 1] = step[Run(n)[p]]
  <2>1. Run(n) \in Begun(n)
    BY <1>3
  <2> HIDE DEF Run
  <2> QED BY <2>1
<1>5. f \in [Nat -> V]
  <2>1. \A n \in Nat : n \in 0 .. n
    OBVIOUS
  <2>2. \A n \in Nat : Run(n)[n] \in V
    BY <1>4, <2>1
  <2> HIDE DEF Run
  <2> QED BY <2>2
<1>6. f[0] = v
  BY <1>4
<1>7. ASSUME NEW n \in Nat PROVE f[n + 1] = step[f[n]]
  <2>1. n \in 0 .. n + 1 - 1 /\ n + 1 \in Nat /\ n <= n /\ n <= n + 1
    OBVIOUS
  <2>2. Run(n + 1)[n + 1] = step[Run(n + 1)[n]]
    <3>1. PICK m \in Nat : m = n + 1
      OBVIOUS
    <3>2. n \in 0 .. m - 1
      BY <3>1
    <3>3. \A p \in 0 .. m - 1 : Run(m)[p + 1] = step[Run(m)[p]]
      BY <1>4
    <3> HIDE DEF Run
    <3>4. Run(m)[n + 1] = step[Run(m)[n]]
      BY <3>2, <3>3
    <3> QED BY <3>1, <3>4
  <2>3. Run(n) \in Begun(n) /\ Run(n + 1) \in Begun(n + 1)
    BY <1>3, <2>1
  <2>4. Run(n)[n] = Run(n + 1)[n]
    <3> HIDE DEF Run, Begun
    <3> QED BY <1>2, <2>1, <2>3
  <2> HIDE DEF Run
  <2> QED BY <2>1, <2>2, <2>4
<1> HIDE DEF f
<1> QED BY <1>5, <1>6, <1>7 DEF Iterates

\* The disk as the program meets it.
DiskOK == fat \in [Clusters -> Clusters \cup Marks] /\ first \in Clusters

LEMMA Reserved ==
    /\ FirstReserved \in Nat /\ NoCluster \in Nat /\ NoCluster >= FirstReserved
    /\ \A m \in Marks : m = 0 \/ (m \in Nat /\ m >= FirstReserved)
BY DEF FirstReserved, NoCluster, Marks

LEMMA ClusterNumbers ==
    /\ \A c \in Clusters : c \in Int /\ c >= 2 /\ c < FirstReserved
    /\ NoCluster \notin Clusters
<1>1. FirstReserved \in Nat /\ NoCluster \in Nat /\ NoCluster >= FirstReserved
  BY Reserved
<1>2. Clusters \subseteq 2 .. FirstReserved - 1
  BY FatFileConstants
<1> QED BY <1>1, <1>2

LEMMA NextCluster ==
    ASSUME NEW t \in [Clusters -> Clusters \cup Marks], NEW c \in Clusters
    PROVE  fat16_get_next_cluster(t, c) \in Clusters \cup {NoCluster}
<1>1. PICK d : d = t[c]
  OBVIOUS
<1>2. CASE d \in Clusters
  <2>1. d # 0 /\ ~(d >= FirstReserved)
    BY <1>2, ClusterNumbers, Reserved
  <2> QED BY <1>1, <1>2, <2>1 DEF fat16_get_next_cluster
<1>3. CASE d \in Marks
  <2>1. d = 0 \/ d >= FirstReserved
    BY <1>3, Reserved
  <2> QED BY <1>1, <2>1 DEF fat16_get_next_cluster
<1> QED BY <1>1, <1>2, <1>3

\* ClusterAt is what its equation says.
LEMMA ChainIs ==
    ASSUME DiskOK
    PROVE  /\ ClusterAt[0] = first
           /\ \A p \in Nat :
                 /\ ClusterAt[p] \in Clusters \cup {NoCluster}
                 /\ ClusterAt[p + 1] = IF ClusterAt[p] = NoCluster THEN NoCluster
                                       ELSE fat16_get_next_cluster(fat, ClusterAt[p])
<1> DEFINE V == Clusters \cup {NoCluster}
           step == [c \in V |-> IF c = NoCluster THEN NoCluster
                                ELSE fat16_get_next_cluster(fat, c)]
           IsChain(f) == f = [p \in Nat |->
                                IF p = 0 THEN first
                                ELSE IF f[p - 1] = NoCluster THEN NoCluster
                                ELSE fat16_get_next_cluster(fat, f[p - 1])]
<1>1. step \in [V -> V]
  BY NextCluster DEF DiskOK
<1>2. PICK f \in [Nat -> V] : f[0] = first /\ \A p \in Nat : f[p + 1] = step[f[p]]
  <2>1. first \in V
    BY DEF DiskOK
  <2> HIDE DEF V, step
  <2>2. \E f : Iterates(f, V, step, first)
    BY <1>1, <2>1, IterateExists
  <2> QED BY <2>2 DEF Iterates
<1>3. IsChain(f)
  <2>1. ASSUME NEW p \in Nat
        PROVE  f[p] = IF p = 0 THEN first
                      ELSE IF f[p - 1] = NoCluster THEN NoCluster
                      ELSE fat16_get_next_cluster(fat, f[p - 1])
    <3>1. CASE p = 0
      BY <1>2, <3>1
    <3>2. CASE p # 0
      <4>1. p - 1 \in Nat /\ p - 1 + 1 = p
        BY <3>2
      <4>2. f[p] = step[f[p - 1]] /\ f[p - 1] \in V
        BY <1>2, <4>1
      <4> QED BY <3>2, <4>2
    <3> QED BY <3>1, <3>2
  <2> QED BY <1>2, <2>1
<1>4. ClusterAt = CHOOSE g : IsChain(g)
  BY DEF ClusterAt
<1>5. IsChain(ClusterAt)
  <2> HIDE DEF IsChain
  <2> QED BY <1>3, <1>4
<1>6. \A p \in Nat : ClusterAt[p] = IF p = 0 THEN first
                                   ELSE IF ClusterAt[p - 1] = NoCluster THEN NoCluster
                                   ELSE fat16_get_next_cluster(fat, ClusterAt[p - 1])
  <2>1. PICK g : g = ClusterAt
    OBVIOUS
  <2>2. IsChain(g)
    BY <1>5, <2>1
  <2>3. \A p \in Nat : g[p] = IF p = 0 THEN first
                            ELSE IF g[p - 1] = NoCluster THEN NoCluster
                            ELSE fat16_get_next_cluster(fat, g[p - 1])
    BY <2>2
  <2> QED BY <2>1, <2>3
<1>7. ASSUME NEW p \in Nat
      PROVE  ClusterAt[p + 1] = IF ClusterAt[p] = NoCluster THEN NoCluster
                                ELSE fat16_get_next_cluster(fat, ClusterAt[p])
  <2>1. p + 1 \in Nat /\ p + 1 # 0 /\ p + 1 - 1 = p
    OBVIOUS
  <2> QED BY <1>6, <2>1
<1>8. \A p \in Nat : ClusterAt[p] \in V
  <2> DEFINE bad == {p \in Nat : ClusterAt[p] \notin V}
  <2>1. SUFFICES ASSUME bad # {} PROVE FALSE
    OBVIOUS
  <2>2. PICK p \in bad : \A j \in bad : p <= j
    BY <2>1, LeastNumber
  <2>3. p # 0
    BY <1>6, <2>2 DEF DiskOK
  <2>4. PICK l \in Nat : p = l + 1
    BY <2>2, <2>3
  <2>5. ClusterAt[l] \in V
    BY <2>2, <2>4
  <2>6. ClusterAt[l + 1] \in V
    BY <1>7, <2>5, NextCluster DEF DiskOK
  <2> QED BY <2>2, <2>4, <2>6
<1> QED BY <1>6, <1>7, <1>8

\* Behind the last cluster there is none.
Ends(p) == ClusterAt[p] # NoCluster /\ ClusterAt[p + 1] = NoCluster

LEMMA NoneBehindEnd ==
    ASSUME DiskOK, NEW p \in Nat, Ends(p), NEW j \in Nat, ClusterAt[j] # NoCluster
    PROVE  j <= p
<1> DEFINE bad == {n \in Nat : n > p /\ ClusterAt[n] # NoCluster}
<1>1. SUFFICES ASSUME bad # {} PROVE FALSE
  OBVIOUS
<1>2. PICK n \in bad : \A m \in bad : n <= m
  BY <1>1, LeastNumber
<1>3. PICK l \in Nat : n = l + 1
  BY <1>2
<1>4. CASE l = p
  BY <1>2, <1>3, <1>4 DEF Ends
<1>5. CASE l # p
  <2>1. l > p /\ l \notin bad
    BY <1>2, <1>3, <1>5
  <2>2. ClusterAt[l] = NoCluster
    BY <2>1
  <2> QED BY <1>2, <1>3, <2>2, ChainIs
<1> QED BY <1>4, <1>5

\* A byte of the j-th cluster.
LEMMA ByteOfCluster ==
    ASSUME NEW j \in Nat, NEW x \in 0 .. ClusterSize - 1, NEW e, e = ClusterSize * j + x
    PROVE  FileByte(e) = (ClusterAt[j] - 2) * ClusterSize + x
<1>1. e \div ClusterSize = j /\ e % ClusterSize = x
  BY Sizes, DivMod
<1> QED BY <1>1 DEF FileByte

-----------------------------------------------------------------------------
(* The invariant.                                                          *)

ReadTypeOK ==
    /\ fat \in [Clusters -> Clusters \cup Marks] /\ first \in Clusters
    /\ size \in 0 .. MaxSize /\ pos \in 0 .. size
    /\ start \in Nat /\ total \in Nat /\ rounds \in Nat /\ todo \in Nat
    /\ stream \in Int /\ count \in 0 .. ClusterSize
    /\ cluster \in Clusters \cup {NoCluster}
    /\ buf \in [1 .. SectorSize -> Int] /\ out \in Seq(Int)
    /\ phase \in {"idle", "reading", "done"} /\ res \in Nat

\* What is read lies in the file; what is copied is counted, and as long as
\* rounds are left the rest is still to do.
Counted ==
    phase # "idle" =>
        /\ start + total <= size /\ start < ClusterSize
        /\ Len(out) <= total /\ pos = start + Len(out)
        /\ phase = "reading" /\ rounds > 0 => todo = total - Len(out)

\* Before a round the stream is where the next byte lies: count bytes behind
\* the start of the j-th of the file's clusters.
InCluster(j, copied) ==
    /\ start + copied = ClusterSize * j + count /\ count \in 0 .. ClusterSize - 1
    /\ cluster \in Clusters /\ cluster = ClusterAt[j]
    /\ stream = (cluster - 2) * ClusterSize + count

Placed ==
    phase = "reading" /\ rounds > 0 =>
        /\ \E j \in Nat : InCluster(j, Len(out))
        /\ start % SectorSize # 1 => count % SectorSize # 1
        /\ start % SectorSize = 0 => count % SectorSize = 0

Copied ==
    phase # "idle" /\ start % SectorSize # 1 =>
        \A p \in DOMAIN out : out[p] = FileByte(start + p - 1)

\* A read from the start of a sector has a round for each sector it takes,
\* and has not yet come to the last sector of the file's last cluster.
Whole ==
    phase = "reading" /\ start % SectorSize = 0 =>
        /\ rounds > 0 => rounds = SectorsOf(todo)
        /\ rounds = 0 => Len(out) = total
        /\ \A p \in Nat :
              Ends(p) => start + Len(out) <= ClusterSize * p + ClusterSize - SectorSize

ReadIInv ==
    ReadTypeOK /\ Counted /\ Placed /\ Copied /\ Whole /\ WholeUnlessAtChainEnd

-----------------------------------------------------------------------------
(* What the steps have in common.                                          *)

\* Most steps leave the disk, and with it the file, as they are.
LEMMA SameFile ==
    ASSUME UNCHANGED onDisk
    PROVE  /\ ClusterAt' = ClusterAt
           /\ \A e : FileByte(e)' = FileByte(e)
           /\ \A p : Ends(p)' <=> Ends(p)
<1>1. fat' = fat /\ first' = first
  BY DEF onDisk
<1>2. ClusterAt' = ClusterAt
  BY <1>1 DEF ClusterAt, fat16_get_next_cluster
<1> QED BY <1>2 DEF FileByte, Ends

\* Where a cluster begins.
LEMMA ClusterAddress ==
    ASSUME NEW c \in Int
    PROVE  /\ fat16_cluster_to_sector(c) * SectorSize = (c - 2) * ClusterSize
           /\ (c - 2) * ClusterSize = SectorSize * ((c - 2) * SectorsPerCluster)
           /\ (c - 2) * ClusterSize \in Int
<1>1. PICK S \in Nat, P \in Nat, C \in Nat :
          S = SectorSize /\ P = SectorsPerCluster /\ C = ClusterSize /\ C = S * P
  BY Sizes
<1>2. PICK d \in Int : d = c - 2
  OBVIOUS
<1>3. (d * P) * S = d * (S * P) /\ d * (S * P) = S * (d * P) /\ d * (S * P) \in Int
  OBVIOUS
<1> QED BY <1>1, <1>2, <1>3 DEF fat16_cluster_to_sector

\* Copying m bytes of the buffer to the caller.
LEMMA Appended ==
    ASSUME NEW s \in Seq(Int), NEW l \in Nat, l \in Nat, NEW b \in [1 .. l -> Int],
           NEW m \in 0 .. l, NEW r, r = s \o SubSeq(b, 1, m)
    PROVE  /\ r \in Seq(Int) /\ Len(r) = Len(s) + m
           /\ \A p \in 1 .. Len(s) : r[p] = s[p]
           /\ \A x \in 1 .. m : r[Len(s) + x] = b[x]
<1>1. b \in Seq(Int) /\ Len(b) = l
  OBVIOUS
<1>2. PICK t : t = SubSeq(b, 1, m)
  OBVIOUS
<1>3. t \in Seq(Int) /\ Len(t) = m /\ \A x \in 1 .. m : t[x] = b[x]
  BY <1>1, <1>2
<1>4. r = s \o t
  BY <1>2
<1>5. r \in Seq(Int) /\ Len(r) = Len(s) + m
  BY <1>3, <1>4
<1>6. \A p \in 1 .. Len(s) : r[p] = s[p]
  BY <1>3, <1>4
<1>7. ASSUME NEW x \in 1 .. m PROVE r[Len(s) + x] = b[x]
  BY <1>3, <1>4
<1> QED BY <1>5, <1>6, <1>7

\* A round's sector in the buffer.
LEMMA BufferAfter ==
    ASSUME NEW b \in [1 .. SectorSize -> Int], NEW at \in Int, NEW n
    PROVE  /\ diskstream_read(b, at, n) \in [1 .. SectorSize -> Int]
           /\ \A p \in 1 .. SectorSize :
                 p <= Delivered(at, n) => diskstream_read(b, at, n)[p] = at + p - 1
<1>1. SectorSize \in Nat
  BY Sizes
<1> QED BY <1>1 DEF diskstream_read

-----------------------------------------------------------------------------
(* Every step keeps the invariant.                                         *)

LEMMA InitHolds == ReadInit => ReadIInv
<1> SUFFICES ASSUME ReadInit PROVE ReadIInv
  OBVIOUS
<1>1. ReadTypeOK
  <2>1. Blank \in [1 .. SectorSize -> Int]
    BY DEF Blank, Garbage
  <2>2. 0 \in 0 .. ClusterSize /\ MaxSize \in Nat
    BY Sizes, FatFileConstants
  <2>3. << >> \in Seq(Int)
    OBVIOUS
  <2>4. size \in 0 .. MaxSize /\ 0 \in 0 .. size
    BY <2>2 DEF ReadInit
  <2> QED BY <2>1, <2>2, <2>3, <2>4 DEF ReadInit, ReadTypeOK
<1>2. phase = "idle"
  BY DEF ReadInit
<1> QED BY <1>1, <1>2 DEF ReadIInv, Counted, Placed, Copied, Whole, WholeUnlessAtChainEnd

LEMMA SeekKeeps ==
    ASSUME ReadIInv, NEW offset \in 0 .. MaxSize, fat16_seek(offset)
    PROVE  ReadIInv'
<1>1. phase' = "idle" /\ UNCHANGED <<onDisk, stream>>
  BY DEF fat16_seek
<1>2. ReadTypeOK'
  <2>1. Blank \in [1 .. SectorSize -> Int]
    BY DEF Blank, Garbage
  <2>2. 0 \in 0 .. ClusterSize
    BY Sizes
  <2>3. << >> \in Seq(Int)
    OBVIOUS
  <2>4. size \in Nat /\ pos' \in 0 .. size
    BY FatFileConstants DEF fat16_seek, ReadIInv, ReadTypeOK
  <2>5. /\ start' = 0 /\ total' = 0 /\ rounds' = 0 /\ todo' = 0
        /\ cluster' = first /\ count' = 0 /\ buf' = Blank /\ out' = << >> /\ res' = 0
    BY DEF fat16_seek, NothingRead
  <2>6. fat' = fat /\ size' = size /\ first' = first /\ stream' = stream
    BY <1>1 DEF onDisk
  <2>7. /\ fat \in [Clusters -> Clusters \cup Marks] /\ first \in Clusters
        /\ size \in 0 .. MaxSize /\ stream \in Int
    BY DEF ReadIInv, ReadTypeOK
  <2> QED BY <1>1, <2>1, <2>2, <2>3, <2>4, <2>5, <2>6, <2>7 DEF ReadTypeOK
<1> QED BY <1>1, <1>2 DEF ReadIInv, Counted, Placed, Copied, Whole, WholeUnlessAtChainEnd

LEMMA ReadBegins ==
    ASSUME ReadIInv, NEW n \in 0 .. MaxSize, fat16_read(n)
    PROVE  ReadIInv'
<1>1. PICK S \in Nat \ {0, 1}, C \in Nat \ {0} : S = SectorSize /\ C = ClusterSize /\ C >= S
  BY Sizes
<1>2. /\ fat \in [Clusters -> Clusters \cup Marks] /\ first \in Clusters
      /\ size \in 0 .. MaxSize /\ MaxSize \in Nat /\ pos \in 0 .. size /\ size \in Nat
  BY FatFileConstants DEF ReadIInv, ReadTypeOK
<1>3. first \in Int
  BY <1>2, ClusterNumbers
<1>4. PICK t : t = BytesLeft(n)
  OBVIOUS
<1>5. t \in Nat /\ pos + t <= size
  BY <1>2, <1>4 DEF BytesLeft, Least
<1>6. PICK base : base = (first - 2) * C
  OBVIOUS
<1>7. fat16_cluster_to_sector(first) * SectorSize = base /\ base \in Int
  BY <1>1, <1>3, <1>6, ClusterAddress
<1>8. /\ start' = pos /\ total' = t /\ todo' = t /\ rounds' = SectorsOf(t)
      /\ cluster' = first /\ count' = pos /\ stream' = base + pos /\ buf' = Blank
      /\ out' = << >> /\ phase' = "reading" /\ res' = 0
      /\ fat' = fat /\ size' = size /\ first' = first /\ pos' = pos /\ pos < C
  BY <1>1, <1>4, <1>7 DEF fat16_read, onDisk
<1>9. SectorsOf(t) \in Nat /\ (SectorsOf(t) = 0 <=> t = 0)
  BY <1>5, SectorRounds
<1>10. /\ ClusterAt' = ClusterAt /\ (\A p : Ends(p)' <=> Ends(p))
       /\ ClusterAt[0] = first
  <2>1. UNCHANGED onDisk
    BY <1>8 DEF onDisk
  <2> QED BY <1>2, <2>1, SameFile, ChainIs DEF DiskOK
<1>11. ReadTypeOK'
  <2>1. Blank \in [1 .. SectorSize -> Int]
    BY DEF Blank, Garbage
  <2>2. << >> \in Seq(Int)
    OBVIOUS
  <2>3. pos \in Nat /\ pos \in 0 .. ClusterSize
    BY <1>1, <1>2, <1>8
  <2> QED BY <1>2, <1>5, <1>7, <1>8, <1>9, <2>1, <2>2, <2>3 DEF ReadTypeOK
<1>12. Counted'
  BY <1>1, <1>2, <1>5, <1>8 DEF Counted
<1>13. Placed'
  <2>1. InCluster(0, Len(out))'
    <3>1. Len(out') = 0 /\ pos + 0 = C * 0 + pos /\ pos \in 0 .. C - 1
      BY <1>1, <1>2, <1>8
    <3> QED BY <1>1, <1>2, <1>6, <1>8, <1>10, <3>1 DEF InCluster
  <2>2. 0 \in Nat
    OBVIOUS
  <2>3. \E j \in Nat : InCluster(j, Len(out))'
    BY <2>1, <2>2
  <2> QED BY <1>8, <2>3 DEF Placed
<1>14. Copied'
  BY <1>8 DEF Copied
<1>15. Whole'
  <2>1. Len(out') = 0
    BY <1>8
  <2>2. ASSUME NEW p \in Nat, pos % SectorSize = 0
        PROVE  pos + 0 <= C * p + C - S
    <3>1. pos \in 0 .. ClusterSize - 1
      BY <1>1, <1>2, <1>8
    <3>2. PICK b : b = BytesToRead(pos)
      OBVIOUS
    <3>3. b = SectorSize /\ pos + b \in 1 .. ClusterSize
      BY <2>2, <3>1, <3>2, RoundFits
    <3>4. pos + S <= C
      BY <1>1, <1>2, <3>3
    <3>5. C * p >= 0
      OBVIOUS
    <3> QED BY <1>2, <3>4, <3>5
  <2> QED BY <1>1, <1>8, <1>9, <2>1, <2>2 DEF Whole
<1>16. WholeUnlessAtChainEnd'
  BY <1>8 DEF WholeUnlessAtChainEnd
<1> QED BY <1>11, <1>12, <1>13, <1>14, <1>15, <1>16 DEF ReadIInv
\* What a round and a round that fails share: where they read, and what of it
\* arrives.
LEMMA Reading ==
    ASSUME ReadIInv, phase = "reading", rounds > 0, NEW n, n = BytesToRead(count)
    PROVE  /\ \E j \in Nat : InCluster(j, Len(out))
           /\ count \in 0 .. ClusterSize - 1 /\ n \in 1 .. SectorSize
           /\ count + n \in 1 .. ClusterSize
           /\ start % SectorSize # 1 => Delivered(stream, n) = n
           /\ start % SectorSize = 0 => count % SectorSize = 0 /\ n = SectorSize
           /\ stream \in Int /\ Len(out) \in Nat /\ start \in Nat /\ total \in Nat
           /\ todo = total - Len(out) /\ todo \in Nat /\ start + total <= MaxSize
           /\ buf \in [1 .. SectorSize -> Int] /\ rounds - 1 \in Nat
<1>1. PICK j \in Nat : InCluster(j, Len(out))
  BY DEF ReadIInv, Placed
<1>2. /\ start % SectorSize # 1 => count % SectorSize # 1
      /\ start % SectorSize = 0 => count % SectorSize = 0
  BY DEF ReadIInv, Placed
<1>3. count \in 0 .. ClusterSize - 1
  BY <1>1 DEF InCluster
<1>4. /\ n \in 1 .. SectorSize /\ count + n \in 1 .. ClusterSize
      /\ count % SectorSize = 0 => n = SectorSize
  BY <1>3, RoundFits
<1>5. ASSUME count % SectorSize # 1 PROVE Delivered(stream, n) = n
  <2>1. PICK w : w = (cluster - 2) * SectorsPerCluster
    OBVIOUS
  <2>2. cluster \in Int
    BY <1>1, ClusterNumbers DEF InCluster
  <2>3. w \in Int
    BY <2>1, <2>2, Sizes
  <2>4. stream = SectorSize * w + count
    BY <1>1, <2>1, <2>2, ClusterAddress DEF InCluster
  <2> QED BY <1>3, <1>5, <2>3, <2>4, AllDelivered
<1>6. /\ stream \in Int /\ Len(out) \in Nat /\ start \in Nat /\ total \in Nat
      /\ todo \in Nat /\ buf \in [1 .. SectorSize -> Int] /\ rounds \in Nat
      /\ size \in 0 .. MaxSize /\ MaxSize \in Nat
  BY FatFileConstants DEF ReadIInv, ReadTypeOK
<1>7. start + total <= size /\ todo = total - Len(out)
  BY DEF ReadIInv, Counted
<1> QED BY <1>1, <1>2, <1>3, <1>4, <1>5, <1>6, <1>7

LEMMA RoundKeeps ==
    ASSUME ReadIInv, Round
    PROVE  ReadIInv'
<1>1. PICK S \in Nat \ {0, 1}, C \in Nat \ {0} : S = SectorSize /\ C = ClusterSize /\ C >= S
  BY Sizes
<1>2. PICK n : n = BytesToRead(count)
  OBVIOUS
<1>3. phase = "reading" /\ rounds > 0
  BY DEF Round
<1>4. /\ \E j \in Nat : InCluster(j, Len(out))
      /\ count \in 0 .. C - 1 /\ n \in 1 .. S /\ count + n \in 1 .. C
      /\ start % S # 1 => Delivered(stream, n) = n
      /\ start % S = 0 => count % S = 0 /\ n = S
      /\ stream \in Int /\ start \in Nat /\ total \in Nat
      /\ todo = total - Len(out) /\ todo \in Nat /\ start + total <= MaxSize
      /\ buf \in [1 .. S -> Int] /\ rounds - 1 \in Nat
  BY <1>1, <1>2, <1>3, Reading
<1>5. /\ count \in Nat /\ count < C /\ n \in Nat /\ n <= S /\ n >= 1 /\ count + n <= C
       /\ stream \in Int /\ start \in Nat /\ total \in Nat /\ todo \in Nat
       /\ rounds \in Int /\ rounds >= 1
  <2>1. rounds \in Nat
    BY DEF ReadIInv, ReadTypeOK
  <2> QED BY <1>3, <1>4, <2>1
<1>6. PICK j \in Nat : InCluster(j, Len(out))
  BY <1>4
<1>7. PICK l \in Nat, m \in 0 .. S : l = Len(out) /\ m = Least(todo, n)
  <2>1. out \in Seq(Int)
    BY DEF ReadIInv, ReadTypeOK
  <2>2. Least(todo, n) \in 0 .. S
    BY <1>4 DEF Least
  <2> QED BY <2>1, <2>2
<1>8. PICK next : next = fat16_get_next_cluster(fat, cluster)
  OBVIOUS
<1>9. /\ buf' = diskstream_read(buf, stream, n)
      /\ \/ /\ count + n # C /\ stream' = stream + n
            /\ count' = count + n /\ cluster' = cluster
         \/ /\ count + n = C /\ next # NoCluster
            /\ stream' = fat16_cluster_to_sector(next) * SectorSize
            /\ count' = 0 /\ cluster' = next
      /\ out' = out \o SubSeq(buf', 1, m) /\ pos' = pos + m
      /\ rounds' = IF todo < n THEN 0 ELSE rounds - 1
      /\ todo' = IF todo < n THEN todo ELSE todo - n
      /\ start' = start /\ total' = total /\ phase' = phase /\ res' = res
      /\ UNCHANGED onDisk
  BY <1>1, <1>2, <1>7, <1>8 DEF Round, Internals
<1>10. DiskOK
  BY DEF DiskOK, ReadIInv, ReadTypeOK
<1>11. /\ ClusterAt' = ClusterAt /\ (\A e : FileByte(e)' = FileByte(e))
       /\ (\A p : Ends(p)' <=> Ends(p))
  BY <1>9, SameFile
<1>12. /\ cluster \in Clusters /\ cluster = ClusterAt[j] /\ cluster # NoCluster
       /\ start + l = C * j + count /\ stream = (cluster - 2) * C + count
  BY <1>1, <1>6, <1>7, ClusterNumbers DEF InCluster
<1>13. next = ClusterAt[j + 1] /\ next \in Clusters \cup {NoCluster}
  <2>1. /\ ClusterAt[j] \in Clusters \cup {NoCluster} /\ j + 1 \in Nat
        /\ ClusterAt[j + 1] = IF ClusterAt[j] = NoCluster THEN NoCluster
                              ELSE fat16_get_next_cluster(fat, ClusterAt[j])
        /\ ClusterAt[j + 1] \in Clusters \cup {NoCluster}
    BY <1>10, ChainIs
  <2>2. ClusterAt[j + 1] = fat16_get_next_cluster(fat, ClusterAt[j])
    BY <1>12, <2>1
  <2> QED BY <1>8, <1>12, <2>1, <2>2
<1>14. buf' \in [1 .. S -> Int] /\ \A p \in 1 .. S : p <= Delivered(stream, n) => buf'[p] = stream + p - 1
  <2>1. buf \in [1 .. SectorSize -> Int] /\ stream \in Int
    BY DEF ReadIInv, ReadTypeOK
  <2>2. /\ diskstream_read(buf, stream, n) \in [1 .. SectorSize -> Int]
        /\ \A p \in 1 .. SectorSize :
              p <= Delivered(stream, n) => diskstream_read(buf, stream, n)[p] = stream + p - 1
    BY <2>1, BufferAfter
  <2>3. buf' = diskstream_read(buf, stream, n)
    BY <1>9
  <2> QED BY <1>1, <2>2, <2>3
<1>15. out \in Seq(Int) /\ pos \in 0 .. size /\ size \in Nat /\ pos = start + l /\ l <= total
       /\ start + total <= size /\ start < C
  BY <1>1, <1>3, <1>7, FatFileConstants DEF ReadIInv, ReadTypeOK, Counted
<1>16. /\ out' \in Seq(Int) /\ Len(out') = l + m
       /\ \A p \in 1 .. l : out'[p] = out[p]
       /\ \A x \in 1 .. m : out'[l + x] = buf'[x]
  <2>1. PICK b \in [1 .. S -> Int] : b = buf'
    BY <1>14
  <2>2. PICK r : r = out'
    OBVIOUS
  <2>3. r = out \o SubSeq(b, 1, m)
    BY <1>9, <2>1, <2>2
  <2> QED BY <1>7, <1>15, <2>1, <2>2, <2>3, Appended
<1>17. m <= n /\ (todo < n => m = todo) /\ (~(todo < n) => m = n) /\ m <= todo
  BY <1>4, <1>7 DEF Least
<1>18. l + m <= total
  BY <1>4, <1>7, <1>17
<1>19. ReadTypeOK'
  <2>1. rounds' \in Nat /\ todo' \in Nat
    BY <1>4, <1>9
  <2>2. pos' \in 0 .. size
    <3>1. pos + m <= size /\ pos + m \in Nat
      BY <1>7, <1>15, <1>18, <1>5
    <3> QED BY <1>9, <3>1, <1>15
  <2>3. count' \in 0 .. C /\ cluster' \in Clusters \cup {NoCluster}
    BY <1>5, <1>9, <1>12, <1>13
  <2>4. stream' \in Int
    <3>1. CASE next \in Clusters /\ stream' = fat16_cluster_to_sector(next) * SectorSize
      <4>1. next \in Int
        BY <3>1, ClusterNumbers
      <4> QED BY <3>1, <4>1, ClusterAddress
    <3>2. CASE stream' = stream + n
      BY <1>4, <3>2
    <3> QED BY <1>9, <1>13, <3>1, <3>2
  <2>5. /\ fat' = fat /\ size' = size /\ first' = first
        /\ fat \in [Clusters -> Clusters \cup Marks] /\ first \in Clusters
        /\ size \in 0 .. MaxSize /\ res \in Nat
    BY <1>9 DEF onDisk, ReadIInv, ReadTypeOK
  <2> QED BY <1>1, <1>3, <1>4, <1>9, <1>14, <1>16, <2>1, <2>2, <2>3, <2>4, <2>5
          DEF ReadTypeOK
<1>20. Counted'
  <2>1. rounds' > 0 => todo' = total - (l + m)
    BY <1>4, <1>7, <1>9, <1>17
  <2>2. size' = size /\ pos' = start + (l + m)
    BY <1>4, <1>7, <1>9, <1>15 DEF onDisk
  <2> QED BY <1>1, <1>9, <1>15, <1>16, <1>18, <2>1, <2>2 DEF Counted
<1>21. ASSUME count + n # C
       PROVE  (count + n) % S = count % S /\ count + n < C
  BY <1>1, <1>2, <1>4, <1>21, RoundFits
<1>22. 0 % S = 0
  BY <1>1, <1>2, <1>4, RoundFits
<1>23. start % S # 1 => count % S # 1
  BY <1>1, <1>3 DEF ReadIInv, Placed
<1>24. Placed'
  <2>1. ASSUME rounds' > 0 PROVE m = n /\ Len(out') = l + n
    BY <1>9, <1>16, <1>17, <2>1
  <2>2. ASSUME rounds' > 0 PROVE \E p \in Nat : InCluster(p, Len(out))'
    <3>1. CASE count + n # C
      <4>1. count' = count + n /\ cluster' = cluster /\ stream' = stream + n
        BY <1>9, <3>1
      <4>2. count + n \in 0 .. C - 1
        BY <1>4, <1>21, <3>1
      <4>3. start + (l + n) = C * j + (count + n)
        BY <1>4, <1>12
      <4>4. PICK base \in Int : base = (cluster - 2) * C
        <5>1. cluster \in Int
          BY <1>12, ClusterNumbers
        <5> QED BY <5>1
      <4>5. stream + n = base + (count + n)
        BY <1>5, <1>12, <4>4
      <4>6. InCluster(j, Len(out))'
        BY <1>1, <1>9, <1>11, <1>12, <2>1, <2>2, <4>1, <4>2, <4>3, <4>4, <4>5 DEF InCluster
      <4> QED BY <4>6
    <3>2. CASE count + n = C
      <4>1. /\ count' = 0 /\ cluster' = next /\ next # NoCluster
            /\ stream' = fat16_cluster_to_sector(next) * SectorSize
        BY <1>9, <3>2
      <4>2. next \in Clusters /\ next \in Int
        BY <1>13, <4>1, ClusterNumbers
      <4>3. PICK base \in Int : base = (next - 2) * C
        BY <4>2
      <4>4. stream' = base + 0
        BY <1>1, <4>1, <4>2, <4>3, ClusterAddress
      <4>5. start + (l + n) = C * (j + 1) + 0 /\ 0 \in 0 .. C - 1 /\ j + 1 \in Nat
        BY <1>4, <1>12, <3>2
      <4>6. InCluster(j + 1, Len(out))'
        BY <1>1, <1>9, <1>11, <1>13, <2>1, <2>2, <4>1, <4>2, <4>3, <4>4, <4>5 DEF InCluster
      <4> QED BY <4>5, <4>6
    <3> QED BY <3>1, <3>2
  <2>3. (start % S # 1 => count' % S # 1) /\ (start % S = 0 => count' % S = 0)
    <3>1. count' % S = 0 \/ count' % S = count % S
      <4>1. CASE count + n = C
        BY <1>9, <1>22, <4>1
      <4>2. CASE count + n # C
        BY <1>9, <1>21, <4>2
      <4> QED BY <4>1, <4>2
    <3>2. start % S = 0 => count % S = 0
      BY <1>4
    <3> QED BY <1>23, <3>1, <3>2
  <2> QED BY <1>1, <1>9, <2>2, <2>3 DEF Placed
<1>25. Copied'
  <2>1. SUFFICES ASSUME start % S # 1, NEW p \in 1 .. l + m
                 PROVE  out'[p] = FileByte(start + p - 1)
    <3>1. DOMAIN out' = 1 .. l + m
      BY <1>16
    <3> QED BY <1>1, <1>9, <1>11, <3>1 DEF Copied
  <2>2. CASE p <= l
    <3>1. p \in 1 .. l /\ p \in DOMAIN out
      BY <1>7, <1>15, <2>2
    <3>2. out[p] = FileByte(start + p - 1)
      BY <1>1, <1>3, <2>1, <3>1 DEF ReadIInv, Copied
    <3> QED BY <1>16, <3>1, <3>2
  <2>3. CASE ~(p <= l)
    <3>1. PICK x \in 1 .. m : p = l + x
      <4>1. p - l \in 1 .. m /\ p = l + (p - l)
        BY <2>3
      <4> QED BY <4>1
    <3>2. x \in 1 .. S /\ x <= n
      BY <1>4, <1>17
    <3>3. out'[p] = stream + x - 1
      BY <1>4, <1>14, <1>16, <2>1, <3>1, <3>2
    <3>4. PICK y \in 0 .. ClusterSize - 1 : y = count + x - 1
      BY <1>1, <1>4, <3>2
    <3>5. PICK e : e = start + p - 1
      OBVIOUS
    <3>6. e = ClusterSize * j + y
      BY <1>1, <1>4, <1>12, <3>1, <3>4, <3>5
    <3>7. FileByte(e) = (ClusterAt[j] - 2) * ClusterSize + y
      BY <3>4, <3>6, ByteOfCluster
    <3>8. PICK base \in Int : base = (cluster - 2) * C
      <4>1. cluster \in Int
        BY <1>12, ClusterNumbers
      <4> QED BY <4>1
    <3>9. stream + x - 1 = base + y
      BY <1>4, <1>12, <3>2, <3>4, <3>8
    <3> QED BY <1>1, <1>12, <3>3, <3>4, <3>7, <3>8, <3>9, <3>5
  <2> QED BY <2>2, <2>3
<1>26. Whole'
  <2>1. SUFFICES ASSUME start % S = 0
                 PROVE  /\ rounds' > 0 => rounds' = SectorsOf(todo')
                        /\ rounds' = 0 => l + m = total
                        /\ \A p \in Nat : Ends(p) => start + (l + m) <= C * p + C - S
    BY <1>1, <1>9, <1>11, <1>16 DEF Whole
  <2>2. n = S /\ count % S = 0
    BY <1>4, <2>1
  <2>3. rounds = SectorsOf(todo)
    BY <1>1, <1>3, <2>1 DEF ReadIInv, Whole
  <2>4. todo >= S => SectorsOf(todo - S) = SectorsOf(todo) - 1
    BY <1>1, <1>4, SectorRounds
  <2>5. rounds' > 0 => rounds' = SectorsOf(todo')
    BY <1>4, <1>9, <2>2, <2>3, <2>4
  <2>6. ASSUME rounds' = 0 PROVE l + m = total
    <3>1. CASE todo < n
      BY <1>4, <1>7, <1>17, <3>1
    <3>2. CASE ~(todo < n)
      <4>1. PICK rest \in Nat : rest = todo - S
        BY <1>5, <2>2, <3>2
      <4>2. SectorsOf(rest) = 0
        BY <1>4, <1>9, <2>2, <2>3, <2>4, <2>6, <3>2, <4>1
      <4>3. rest = 0
        BY <4>2, SectorRounds
      <4> QED BY <1>4, <1>7, <1>17, <2>2, <3>2, <4>1, <4>3
    <3> QED BY <3>1, <3>2
  <2>7. ASSUME NEW p \in Nat, Ends(p) PROVE start + (l + m) <= C * p + C - S
    <3>1. PICK a \in Int, b \in Int : a = C * j /\ b = C * p
      OBVIOUS
    <3>2. start + (l + m) <= a + count + S
      BY <1>4, <1>12, <1>17, <2>2, <3>1
    <3>3. CASE count + n # C
      <4>1. j <= p
        BY <1>10, <1>12, <2>7, NoneBehindEnd
      <4>2. a <= b
        <5>1. C * (p - j) >= 0 /\ C * (p - j) = C * p - C * j
          BY <4>1
        <5> QED BY <3>1, <5>1
      <4>3. PICK at : at = count + S
        OBVIOUS
      <4>4. at \in 0 .. ClusterSize - 1 /\ at % SectorSize = 0
        BY <1>1, <1>4, <1>21, <2>2, <3>3, <4>3
      <4>5. PICK c : c = BytesToRead(at)
        OBVIOUS
      <4>6. c = SectorSize /\ at + c \in 1 .. ClusterSize
        BY <4>4, <4>5, RoundFits
      <4>7. count + S <= C - S
        BY <1>1, <1>4, <4>3, <4>6
      <4> QED BY <1>4, <3>1, <3>2, <4>2, <4>7
    <3>4. CASE count + n = C
      <4>1. next # NoCluster
        BY <1>9, <3>4
      <4>2. j + 1 \in Nat /\ ClusterAt[j + 1] # NoCluster
        BY <1>13, <4>1
      <4>3. j + 1 <= p
        BY <1>10, <2>7, <4>2, NoneBehindEnd
      <4>4. a + C <= b
        <5>1. C * (p - j - 1) >= 0 /\ C * (p - j - 1) = C * p - C * j - C
          BY <4>3
        <5> QED BY <3>1, <5>1
      <4> QED BY <1>1, <1>4, <2>2, <3>1, <3>2, <3>4, <4>4
    <3> QED BY <3>3, <3>4
  <2> QED BY <2>5, <2>6, <2>7
<1>27. WholeUnlessAtChainEnd'
  BY <1>3, <1>9 DEF WholeUnlessAtChainEnd
<1> QED BY <1>19, <1>20, <1>24, <1>25, <1>26, <1>27 DEF ReadIInv
\* The sector a failing round reads is the last of the file's last cluster.
LEMMA RoundFailsKeeps ==
    ASSUME ReadIInv, RoundFails
    PROVE  ReadIInv'
<1>1. PICK S \in Nat \ {0, 1}, C \in Nat \ {0} : S = SectorSize /\ C = ClusterSize /\ C >= S
  BY Sizes
<1>2. PICK n : n = BytesToRead(count)
  OBVIOUS
<1>3. phase = "reading" /\ rounds > 0
  BY DEF RoundFails
<1>4. /\ \E j \in Nat : InCluster(j, Len(out))
      /\ start % S = 0 => n = S
      /\ rounds - 1 \in Nat
  BY <1>1, <1>2, <1>3, Reading
<1>5. /\ count \in Nat /\ n \in Nat /\ stream \in Int /\ start \in Nat /\ total \in Nat
      /\ todo \in Nat /\ Len(out) \in Nat /\ todo = total - Len(out)
      /\ start + total <= MaxSize /\ MaxSize \in Nat
  BY <1>2, <1>3, Reading, FatFileConstants
<1>6. PICK j \in Nat : InCluster(j, Len(out))
  BY <1>4
<1>7. PICK next : next = fat16_get_next_cluster(fat, cluster)
  OBVIOUS
<1>8. /\ count + n = C /\ next = NoCluster
      /\ buf' = diskstream_read(buf, stream, n)
      /\ stream' = stream + n /\ count' = count + n /\ cluster' = NoCluster
      /\ rounds' = rounds - 1 /\ phase' = "done" /\ res' = 0
      /\ pos' = pos /\ start' = start /\ total' = total /\ todo' = todo /\ out' = out
      /\ UNCHANGED onDisk
  BY <1>1, <1>2, <1>7 DEF RoundFails, InternalsFail
<1>9. DiskOK
  BY DEF DiskOK, ReadIInv, ReadTypeOK
<1>10. /\ ClusterAt' = ClusterAt /\ (\A e : FileByte(e)' = FileByte(e))
       /\ (\A p : Ends(p)' <=> Ends(p))
  BY <1>8, SameFile
<1>11. /\ cluster \in Clusters /\ cluster = ClusterAt[j] /\ cluster # NoCluster
       /\ start + Len(out) = C * j + count
  BY <1>1, <1>6, ClusterNumbers DEF InCluster
<1>12. Ends(j)
  <2>1. /\ ClusterAt[j] \in Clusters \cup {NoCluster}
        /\ ClusterAt[j + 1] = IF ClusterAt[j] = NoCluster THEN NoCluster
                              ELSE fat16_get_next_cluster(fat, ClusterAt[j])
    BY <1>9, ChainIs
  <2> QED BY <1>7, <1>8, <1>11, <2>1 DEF Ends
<1>13. ReadTypeOK'
  <2>1. buf' \in [1 .. SectorSize -> Int]
    <3>1. buf \in [1 .. SectorSize -> Int] /\ stream \in Int
      BY DEF ReadIInv, ReadTypeOK
    <3>2. diskstream_read(buf, stream, n) \in [1 .. SectorSize -> Int]
      BY <3>1, BufferAfter
    <3> QED BY <1>8, <3>2
  <2>2. stream' \in Int /\ count' \in 0 .. ClusterSize
    BY <1>1, <1>5, <1>8
  <2>3. /\ fat \in [Clusters -> Clusters \cup Marks] /\ first \in Clusters
        /\ size \in 0 .. MaxSize /\ pos \in 0 .. size /\ start \in Nat /\ total \in Nat
        /\ todo \in Nat /\ out \in Seq(Int)
    BY DEF ReadIInv, ReadTypeOK
  <2> QED BY <1>4, <1>8, <2>1, <2>2, <2>3 DEF ReadTypeOK, onDisk
<1>14. Counted'
  BY <1>3, <1>8 DEF ReadIInv, Counted, onDisk
<1>15. Copied'
  BY <1>3, <1>8, <1>10 DEF ReadIInv, Copied
<1>16. WholeUnlessAtChainEnd'
  <2> DEFINE lost == {p \in 0 .. MaxSize :
                         /\ ClusterAt[p] # NoCluster /\ ClusterAt[p + 1] = NoCluster
                         /\ start + total > (p + 1) * ClusterSize - SectorSize}
  <2>1. SUFFICES ASSUME start % S = 0
                 PROVE  /\ lost # {}
                        /\ \A p \in lost :
                              start + Len(out) = (p + 1) * ClusterSize - SectorSize
    <3> HIDE DEF lost
    <3>1. start' % SectorSize = 0 =>
             IF lost = {} THEN res' = total' /\ Len(out') = total'
             ELSE /\ res' = 0
                  /\ \A p \in lost :
                        start' + Len(out') = (p + 1) * ClusterSize - SectorSize
      BY <1>1, <1>8, <2>1
    <3>2. lost' = lost
      BY <1>8, <1>10 DEF lost
    <3> QED BY <3>1, <3>2 DEF WholeUnlessAtChainEnd, lost
  <2>2. ASSUME NEW p \in Nat
        PROVE  (p + 1) * ClusterSize - SectorSize = C * p + C - S
    <3>1. (p + 1) * C = C * p + C
      OBVIOUS
    <3> QED BY <1>1, <3>1
  <2>3. PICK a \in Nat : a = C * j /\ a >= j
    <3>1. C * j \in Nat /\ (C - 1) * j >= 0 /\ (C - 1) * j = C * j - j
      OBVIOUS
    <3> QED BY <3>1
  <2>4. start + Len(out) = a + C - S
    BY <1>4, <1>5, <1>8, <1>11, <2>1, <2>3
  <2>5. todo # 0
    <3>1. rounds = SectorsOf(todo)
      BY <1>1, <1>3, <2>1 DEF ReadIInv, Whole
    <3>2. SectorsOf(todo) # 0
      BY <1>3, <3>1
    <3> QED BY <1>5, <3>2, SectorRounds
  <2>6. start + total > a + C - S
    BY <1>5, <2>4, <2>5
  <2>7. j \in 0 .. MaxSize
    BY <1>1, <1>5, <2>3, <2>6
  <2>8. j \in lost
    BY <1>12, <2>2, <2>3, <2>6, <2>7 DEF Ends
  <2>9. ASSUME NEW p \in lost
        PROVE  start + Len(out) = (p + 1) * ClusterSize - SectorSize
    <3>1. p \in Nat /\ Ends(p)
      BY <1>5 DEF Ends
    <3>2. p <= j /\ j <= p
      BY <1>9, <1>12, <3>1, NoneBehindEnd DEF Ends
    <3>3. p = j
      BY <3>1, <3>2
    <3> QED BY <2>2, <2>3, <2>4, <3>3
  <2> QED BY <2>8, <2>9
<1>17. Placed' /\ Whole'
  BY <1>8 DEF Placed, Whole
<1> QED BY <1>13, <1>14, <1>15, <1>16, <1>17 DEF ReadIInv

LEMMA FinishKeeps ==
    ASSUME ReadIInv, Finish
    PROVE  ReadIInv'
<1>1. PICK S \in Nat \ {0, 1}, C \in Nat \ {0} : S = SectorSize /\ C = ClusterSize /\ C >= S
  BY Sizes
<1>2. /\ phase = "reading" /\ rounds = 0 /\ phase' = "done" /\ res' = total
      /\ UNCHANGED <<onDisk, stream, pos, start, total, locals, out>>
  BY DEF Finish
<1>3. /\ ClusterAt' = ClusterAt /\ (\A e : FileByte(e)' = FileByte(e))
  BY <1>2, SameFile
<1>4. /\ total \in Nat /\ start \in Nat /\ MaxSize \in Nat
  BY FatFileConstants DEF ReadIInv, ReadTypeOK
<1>5. ReadTypeOK'
  <2>1. /\ fat' = fat /\ size' = size /\ first' = first /\ stream' = stream /\ pos' = pos
        /\ start' = start /\ total' = total /\ rounds' = rounds /\ todo' = todo
        /\ cluster' = cluster /\ count' = count /\ buf' = buf /\ out' = out
    BY <1>2 DEF onDisk, locals
  <2> QED BY <1>2, <2>1 DEF ReadIInv, ReadTypeOK
<1>6. Counted'
  BY <1>2 DEF ReadIInv, Counted, onDisk
<1>7. Copied'
  BY <1>2, <1>3 DEF ReadIInv, Copied
<1>8. Placed' /\ Whole'
  BY <1>2 DEF Placed, Whole
<1>9. WholeUnlessAtChainEnd'
  <2> DEFINE lost == {p \in 0 .. MaxSize :
                         /\ ClusterAt[p] # NoCluster /\ ClusterAt[p + 1] = NoCluster
                         /\ start + total > (p + 1) * ClusterSize - SectorSize}
  <2>1. SUFFICES ASSUME start % S = 0
                 PROVE  lost = {} /\ Len(out) = total
    <3> HIDE DEF lost
    <3>1. start' % SectorSize = 0 =>
             IF lost = {} THEN res' = total' /\ Len(out') = total'
             ELSE /\ res' = 0
                  /\ \A p \in lost :
                        start' + Len(out') = (p + 1) * ClusterSize - SectorSize
      BY <1>1, <1>2, <2>1
    <3>2. lost' = lost
      BY <1>2, <1>3 DEF lost
    <3> QED BY <3>1, <3>2 DEF WholeUnlessAtChainEnd, lost
  <2>2. Len(out) = total
    BY <1>1, <1>2, <2>1 DEF ReadIInv, Whole
  <2>3. ASSUME NEW p \in lost PROVE FALSE
    <3>1. p \in Nat /\ Ends(p) /\ start + total > (p + 1) * ClusterSize - SectorSize
      BY <1>4 DEF Ends
    <3>2. start + total <= C * p + C - S
      BY <1>1, <1>2, <2>1, <2>2, <3>1 DEF ReadIInv, Whole
    <3>3. (p + 1) * C = C * p + C
      BY <3>1
    <3> QED BY <1>1, <1>4, <3>1, <3>2, <3>3
  <2> QED BY <2>2, <2>3
<1> QED BY <1>5, <1>6, <1>7, <1>8, <1>9 DEF ReadIInv

LEMMA StutterKeeps ==
    ASSUME ReadIInv, UNCHANGED readVars
    PROVE  ReadIInv'
<1>1. /\ UNCHANGED onDisk /\ fat' = fat /\ size' = size /\ first' = first
      /\ stream' = stream /\ pos' = pos /\ start' = start /\ total' = total
      /\ rounds' = rounds /\ todo' = todo /\ cluster' = cluster /\ count' = count
      /\ buf' = buf /\ out' = out /\ phase' = phase /\ res' = res
  BY DEF readVars, onDisk, locals
<1>2. /\ ClusterAt' = ClusterAt /\ (\A e : FileByte(e)' = FileByte(e))
      /\ (\A p : Ends(p)' <=> Ends(p))
  BY <1>1, SameFile
<1>3. ReadTypeOK' /\ Counted'
  BY <1>1 DEF ReadIInv, ReadTypeOK, Counted
<1>4. Placed' /\ Copied' /\ Whole' /\ WholeUnlessAtChainEnd'
  BY <1>1, <1>2 DEF ReadIInv, Placed, InCluster, Copied, Whole, WholeUnlessAtChainEnd
<1> QED BY <1>3, <1>4 DEF ReadIInv

LEMMA ReadInvariant == ReadSpec => []ReadIInv
<1>1. ReadInit => ReadIInv
  BY InitHolds
<1>2. ReadIInv /\ [ReadNext]_readVars => ReadIInv'
  <2> SUFFICES ASSUME ReadIInv, [ReadNext]_readVars PROVE ReadIInv'
    OBVIOUS
  <2>1. CASE \E offset \in 0 .. MaxSize : fat16_seek(offset)
    BY <2>1, SeekKeeps
  <2>2. CASE \E n \in 0 .. MaxSize : fat16_read(n)
    BY <2>2, ReadBegins
  <2>3. CASE Round
    BY <2>3, RoundKeeps
  <2>4. CASE RoundFails
    BY <2>4, RoundFailsKeeps
  <2>5. CASE Finish
    BY <2>5, FinishKeeps
  <2>6. CASE UNCHANGED readVars
    BY <2>6, StutterKeeps
  <2> QED BY <2>1, <2>2, <2>3, <2>4, <2>5, <2>6 DEF ReadNext
<1> QED BY <1>1, <1>2, PTL DEF ReadSpec

-----------------------------------------------------------------------------
\* The types: a file's position stays in the file, the clusters it reads are
\* clusters of the disk, and at most a cluster of them is counted.
THEOREM ReadTypeCorrect == ReadSpec => []ReadTypeOK
<1>1. ReadIInv => ReadTypeOK
  BY DEF ReadIInv
<1> QED BY <1>1, ReadInvariant, PTL

\* fat16_read gives its caller the file's bytes, in order, for every table,
\* cyclic ones included, and every size of sectors, clusters and files.
THEOREM CopiesTheFile == ReadSpec => []CopiedIsFile
<1>1. ReadIInv => CopiedIsFile
  BY DEF ReadIInv, CopiedIsFile, Copied, Counted
<1> QED BY <1>1, ReadInvariant, PTL

\* A read from the start of a sector is whole and says so, except when it
\* reaches the last sector of the chain: then it says 0 and stops in front.
THEOREM WholeOrAtChainEnd == ReadSpec => []WholeUnlessAtChainEnd
<1>1. ReadIInv => WholeUnlessAtChainEnd
  BY DEF ReadIInv
<1> QED BY <1>1, ReadInvariant, PTL
=============================================================================
