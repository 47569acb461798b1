------------------------- MODULE SharedTimerProofs --------------------------
(***************************************************************************)
(* A timer in shared memory, for any number of starts and stops and        *)
(* readings of any clock: a sample that the daemon keeps is a snapshot of  *)
(* one update, although nothing but the two counters orders the thread and *)
(* the daemon, and where the barriers order the stores none is less than   *)
(* the one before.                                                         *)
(*                                                                         *)
(* The store buffer is what needs care.  The invariant is about the memory *)
(* after any number of its stores: whatever part of them is done, the      *)
(* timer is settled, that is, as the last update published it whenever the *)
(* protectors are the same, and the protectors only grow.                  *)
(***************************************************************************)
EXTENDS SharedTimer, SequenceTheorems, WellFoundedInduction, TLAPS

FieldNames == {"total", "start", "counter"}
Names == {"protector1", "protector2", "total", "start", "counter"}
Memory == [Names -> Nat]
Taken == [FieldNames -> Nat]
Store == [field : Names, value : Nat]

(* The types; without a buffer no store waits.                             *)
TimerTypeOK ==
    /\ kind \in {"wall", "process"} /\ buffered \in BOOLEAN
    /\ mem \in Memory /\ stores \in Seq(Store) /\ clock \in Nat
    /\ at \in 1 .. 7 /\ read \in [Names \union {"clock"} -> Nat]
    /\ lastTimeValueUsed \in Nat
    /\ published \in Seq(Taken)
    /\ rolledBack \in BOOLEAN
    /\ ~buffered => stores = <<>>

\* the memory after the first n stores of the buffer
After(n) == Drained(mem, SubSeq(stores, 1, n))

\* between two updates the timer is as it was published
Settled(m, updates) ==
    /\ m.protector2 <= m.protector1 /\ m.protector2 < Len(updates)
    /\ m.protector1 = m.protector2 =>
          \A f \in FieldNames : m[f] = updates[m.protector2 + 1][f]

NoLess(m, n) == m.protector1 <= n.protector1 /\ m.protector2 <= n.protector2

(* However many of the stores are done, the timer is settled.              *)
MemoryInv ==
    /\ \A n \in 0 .. Len(stores) : Settled(After(n), published)
    /\ \A n \in 1 .. Len(stores) : NoLess(After(n - 1), After(n))

\* what is left of a start or a stop, and what the timer is then
Remains ==
    \/ todo \in {<<>>, <<"protector2">>, <<"up", "protector2">>}
    \/ todo = <<"start", "up", "protector2">> /\ view.counter = 0
    \/ todo = <<"down", "total", "protector2">> /\ kind = "wall" /\ view.counter = 1
    \/ todo = <<"total", "protector2">> /\ kind = "wall" /\ view.counter = 0
    \/ todo = <<"total", "down", "protector2">> /\ kind = "process" /\ view.counter = 1
    \/ todo = <<"down", "protector2">> /\ view.counter >= 1
          /\ (kind = "wall" => view.counter >= 2)

(* In the eyes of the thread protector2 counts the updates, and protector1 *)
(* also the one it is in the middle of.                                    *)
WriterInv ==
    /\ view.start <= clock
    /\ Len(published) = view.protector2 + 1
    /\ view.protector1 = view.protector2 + (IF todo = <<>> THEN 0 ELSE 1)
    /\ Remains

\* the protectors are the same still, or were when the last was read
Undisturbed == (IF at = 7 THEN read.protector1 ELSE mem.protector1) = read.protector2

(* What the daemon has read so far is of the update that protector2 counts *)
(* if no other has begun since.                                            *)
ReaderInv ==
    /\ at > 1 => read.protector2 <= mem.protector2
    /\ Undisturbed => \A i \in 1 .. at - 1 : readSteps[i] \in FieldNames =>
          read[readSteps[i]] = published[read.protector2 + 1][readSteps[i]]

\* the value of the timer if it were sampled now
Value(m) == IF m.counter > 0 THEN m.total + (clock - m.start) ELSE m.total

\* the least that a later sample of an unbuffered timer can be
Floor ==
    IF todo \in {<<"down", "total", "protector2">>, <<"total", "protector2">>,
                 <<"total", "down", "protector2">>}
    THEN view.total + (clock - view.start)
    ELSE IF todo = <<"down", "protector2">> /\ view.counter = 1 THEN view.total
    ELSE Value(view)

(* Without a buffer a sample taken before is at most the floor, and one    *)
(* whose clock has been read is between the two if it will be kept.        *)
FloorInv ==
    ~buffered => /\ ~rolledBack
                 /\ lastTimeValueUsed <= Floor
                 /\ at >= 6 /\ Undisturbed => /\ lastTimeValueUsed <= calcTimeValueToUse(read)
                                              /\ calcTimeValueToUse(read) <= Floor

TimerInv == TimerTypeOK /\ MemoryInv /\ WriterInv /\ ReaderInv /\ FloorInv

\* history: the updates so far stay, and one may be added
Grows == \/ published' = published
         \/ \E update \in Taken : published' = Append(published, update)

-----------------------------------------------------------------------------
(* A set of numbers that is not empty has a least one.                     *)
LEMMA LeastOne ==
    ASSUME NEW T \in SUBSET Nat, T # {}
    PROVE  \E n \in T : \A k \in T : n <= k
  <1>1. PICK x \in T : \A y \in T : ~(<<y, x>> \in OpToRel(<, Nat))
    BY NatLessThanWellFounded, WFMin
  <1>2. ASSUME NEW y \in T PROVE x <= y
    <2>1. x \in Nat /\ y \in Nat
      OBVIOUS
    <2>2. ~(y < x)
      BY <1>1, <2>1 DEF OpToRel
    <2> QED
      BY <2>1, <2>2
  <1> QED
    BY <1>2

(* A field that is in the buffer has a latest store.                       *)
LEMMA LatestStore ==
    ASSUME NEW s \in Seq(Store), NEW f, NEW n \in 1 .. Len(s), s[n].field = f
    PROVE  \E i \in 1 .. Len(s) : /\ s[i].field = f
                                  /\ \A j \in 1 .. Len(s) : s[j].field = f => j <= i
  <1> DEFINE T == {Len(s) - i : i \in {j \in 1 .. Len(s) : s[j].field = f}}
  <1>1. Len(s) \in Nat
    OBVIOUS
  <1>2. T \in SUBSET Nat /\ T # {}
    BY <1>1
  <1> HIDE DEF T
  <1>3. PICK t \in T : \A k \in T : t <= k
    BY <1>2, LeastOne
  <1> USE DEF T
  <1>4. PICK i \in 1 .. Len(s) : s[i].field = f /\ t = Len(s) - i
    OBVIOUS
  <1>5. ASSUME NEW j \in 1 .. Len(s), s[j].field = f
        PROVE  j <= i
    <2>1. Len(s) - j \in T
      BY <1>5
    <2>2. Len(s) - i <= Len(s) - j
      BY <2>1, <1>3, <1>4
    <2> QED
      BY <2>2, <1>1
  <1> QED
    BY <1>4, <1>5

(* The thread sees its latest store to a field, or what is in memory.      *)
LEMMA DrainedField ==
    ASSUME NEW m \in Memory, NEW s \in Seq(Store), NEW f \in Names
    PROVE  /\ \A i \in 1 .. Len(s) :
                 s[i].field = f /\ (\A j \in 1 .. Len(s) : s[j].field = f => j <= i)
                     => Drained(m, s)[f] = s[i].value
           /\ (\A i \in 1 .. Len(s) : s[i].field # f) => Drained(m, s)[f] = m[f]
           /\ Drained(m, s)[f] \in Nat
  <1> DEFINE L == {i \in DOMAIN s : s[i].field = f}
             Last(i) == i \in L /\ \A j \in L : j <= i
  <1>1. DOMAIN s = 1 .. Len(s) /\ Len(s) \in Nat /\ \A i \in 1 .. Len(s) : s[i] \in Store
    BY ElementOfSeq, LenProperties
  <1>2. Drained(m, s)[f] = IF L = {} THEN m[f]
                           ELSE s[CHOOSE i \in L : \A j \in L : j <= i].value
    BY DEF Drained, Memory
  <1>3. ASSUME NEW i \in 1 .. Len(s), s[i].field = f,
               \A j \in 1 .. Len(s) : s[j].field = f => j <= i
        PROVE  Drained(m, s)[f] = s[i].value
    <2>1. i \in L /\ \A j \in L : j <= i
      BY <1>1, <1>3
    <2>2. L \subseteq Nat
      BY <1>1
    <2> HIDE DEF L
    <2> DEFINE c == CHOOSE k \in L : \A j \in L : j <= k
    <2>3. c \in L /\ \A j \in L : j <= c
      BY <2>1
    <2>4. c = i
      <3> HIDE DEF c
      <3> QED
        BY <2>1, <2>2, <2>3
    <2> QED
      BY <1>2, <2>1, <2>4
  <1>4. ASSUME \A i \in 1 .. Len(s) : s[i].field # f
        PROVE  Drained(m, s)[f] = m[f]
    BY <1>1, <1>2, <1>4
  <1>5. Drained(m, s)[f] \in Nat
    <2>1. CASE \A i \in 1 .. Len(s) : s[i].field # f
      BY <1>4, <2>1 DEF Memory
    <2>2. ASSUME NEW n \in 1 .. Len(s), s[n].field = f
          PROVE  Drained(m, s)[f] \in Nat
      <3>1. PICK i \in 1 .. Len(s) : /\ s[i].field = f
                                     /\ \A j \in 1 .. Len(s) : s[j].field = f => j <= i
        BY <2>2, LatestStore
      <3> QED
        BY <3>1, <1>1, <1>3 DEF Store
    <2> QED
      BY <2>1, <2>2
  <1> QED
    BY <1>3, <1>4, <1>5

(* What the thread sees is a memory.                                       *)
LEMMA DrainedType ==
    ASSUME NEW m \in Memory, NEW s \in Seq(Store)
    PROVE  Drained(m, s) \in Memory
  <1>1. \A f \in Names : Drained(m, s)[f] \in Nat
    BY DrainedField
  <1> QED
    BY <1>1 DEF Drained, Memory

(* Without stores it is what is in memory.                                 *)
LEMMA DrainedNothing ==
    ASSUME NEW m \in Memory
    PROVE  Drained(m, <<>>) = m
  BY DEF Drained, Memory

(* A store more is seen in its field.                                      *)
LEMMA DrainedAppend ==
    ASSUME NEW m \in Memory, NEW s \in Seq(Store), NEW e \in Store
    PROVE  Drained(m, Append(s, e)) = [Drained(m, s) EXCEPT ![e.field] = e.value]
  <1> DEFINE r == Append(s, e)
  <1>1. /\ r \in Seq(Store) /\ Len(r) = Len(s) + 1 /\ Len(s) \in Nat
        /\ r[Len(s) + 1] = e /\ \A i \in 1 .. Len(s) : r[i] = s[i]
    BY AppendProperties
  <1> HIDE DEF r
  <1>2. Drained(m, s) \in Memory /\ Drained(m, r) \in Memory
    BY <1>1, DrainedType
  <1>3. ASSUME NEW f \in Names
        PROVE  Drained(m, r)[f] = IF f = e.field THEN e.value ELSE Drained(m, s)[f]
    <2>1. CASE f = e.field
      <3>1. Len(s) + 1 \in 1 .. Len(r) /\ \A j \in 1 .. Len(r) : j <= Len(s) + 1
        BY <1>1
      <3> QED
        BY <3>1, <2>1, <1>1, DrainedField
    <2>2. CASE f # e.field /\ \A i \in 1 .. Len(s) : s[i].field # f
      <3>1. \A i \in 1 .. Len(r) : r[i].field # f
        BY <2>2, <1>1
      <3> QED
        BY <3>1, <2>2, <1>1, DrainedField
    <2>3. ASSUME f # e.field, NEW n \in 1 .. Len(s), s[n].field = f
          PROVE  Drained(m, r)[f] = Drained(m, s)[f]
      <3>1. PICK i \in 1 .. Len(s) : /\ s[i].field = f
                                     /\ \A j \in 1 .. Len(s) : s[j].field = f => j <= i
        BY <2>3, LatestStore
      <3>2. i \in 1 .. Len(r) /\ r[i].field = f /\ r[i] = s[i]
        BY <3>1, <1>1
      <3>3. \A j \in 1 .. Len(r) : r[j].field = f => j <= i
        BY <3>1, <2>3, <1>1
      <3> QED
        BY <3>1, <3>2, <3>3, <1>1, DrainedField
    <2> QED
      BY <2>1, <2>2, <2>3
  <1> QED
    BY <1>2, <1>3 DEF Memory, r, Store

(* The oldest store is seen also when it is done.                          *)
LEMMA DrainedHead ==
    ASSUME NEW m \in Memory, NEW s \in Seq(Store), s # <<>>
    PROVE  /\ [m EXCEPT ![Head(s).field] = Head(s).value] \in Memory
           /\ Drained([m EXCEPT ![Head(s).field] = Head(s).value], Tail(s)) = Drained(m, s)
  <1> DEFINE e == Head(s)
             t == Tail(s)
             d == [m EXCEPT ![e.field] = e.value]
  <1>1. /\ e \in Store /\ e = s[1] /\ t \in Seq(Store) /\ Len(t) = Len(s) - 1
        /\ Len(s) \in Nat /\ Len(s) > 0 /\ \A i \in 1 .. Len(s) - 1 : t[i] = s[i + 1]
    BY HeadTailProperties, EmptySeq, LenProperties, ElementOfSeq
  <1>2. d \in Memory /\ \A f \in Names : d[f] = IF f = e.field THEN e.value ELSE m[f]
    BY <1>1 DEF Memory, Store
  <1> HIDE DEF e, t, d
  <1>3. Drained(m, s) \in Memory /\ Drained(d, t) \in Memory
    BY <1>1, <1>2, DrainedType
  <1>4. ASSUME NEW f \in Names
        PROVE  Drained(d, t)[f] = Drained(m, s)[f]
    <2>1. CASE \A i \in 1 .. Len(t) : t[i].field # f
      <3>1. Drained(d, t)[f] = d[f]
        BY <2>1, <1>1, <1>2, DrainedField
      <3>2. \A j \in 1 .. Len(s) : s[j].field = f => j = 1
        <4>1. ASSUME NEW j \in 1 .. Len(s), j # 1 PROVE s[j].field # f
          <5>1. j - 1 \in 1 .. Len(t) /\ t[j - 1] = s[j]
            BY <4>1, <1>1
          <5> QED
            BY <5>1, <2>1
        <4> QED
          BY <4>1
      <3>3. CASE f = e.field
        <4>1. 1 \in 1 .. Len(s) /\ s[1].field = f
          BY <3>3, <1>1
        <4>2. Drained(m, s)[f] = s[1].value
          BY <4>1, <3>2, <1>1, DrainedField
        <4> QED
          BY <4>2, <3>1, <3>3, <1>1, <1>2
      <3>4. CASE f # e.field
        <4>1. \A i \in 1 .. Len(s) : s[i].field # f
          BY <3>2, <3>4, <1>1
        <4> QED
          BY <4>1, <3>1, <3>4, <1>2, DrainedField
      <3> QED
        BY <3>3, <3>4
    <2>2. ASSUME NEW n \in 1 .. Len(t), t[n].field = f
          PROVE  Drained(d, t)[f] = Drained(m, s)[f]
      <3>1. PICK i \in 1 .. Len(t) : /\ t[i].field = f
                                     /\ \A j \in 1 .. Len(t) : t[j].field = f => j <= i
        BY <1>1, <2>2, LatestStore
      <3>2. i + 1 \in 1 .. Len(s) /\ s[i + 1] = t[i]
        BY <1>1
      <3>3. ASSUME NEW j \in 1 .. Len(s), s[j].field = f
            PROVE  j <= i + 1
        <4>1. CASE j = 1
          BY <4>1, <1>1
        <4>2. CASE j # 1
          <5>1. j - 1 \in 1 .. Len(t) /\ t[j - 1] = s[j]
            BY <4>2, <1>1
          <5>2. j - 1 <= i
            BY <5>1, <3>1, <3>3
          <5> QED
            BY <5>2, <1>1
        <4> QED
          BY <4>1, <4>2
      <3>4. Drained(d, t)[f] = t[i].value
        BY <3>1, <1>1, <1>2, DrainedField
      <3>5. Drained(m, s)[f] = s[i + 1].value
        BY <3>1, <3>2, <3>3, DrainedField
      <3> QED
        BY <3>2, <3>4, <3>5
    <2> QED
      BY <2>1, <2>2
  <1>5. Drained(d, t) = Drained(m, s)
    BY <1>3, <1>4 DEF Memory
  <1> QED
    BY <1>2, <1>5 DEF d, e, t

(* Before any store is done the memory is as it is, after all of them as   *)
(* the thread sees it.                                                     *)
LEMMA AfterEnds ==
    ASSUME mem \in Memory, stores \in Seq(Store)
    PROVE  /\ After(0) = mem /\ After(Len(stores)) = view /\ view \in Memory
           /\ Len(stores) \in Nat
           /\ \A n \in 0 .. Len(stores) : After(n) \in Memory
           /\ stores = <<>> => view = mem
  <1>1. SubSeq(stores, 1, 0) = <<>>
    BY SubSeqEmpty
  <1>2. SubSeq(stores, 1, Len(stores)) = stores /\ Len(stores) \in Nat
    BY SubSeqFull, LenProperties
  <1>3. \A n \in 0 .. Len(stores) : SubSeq(stores, 1, n) \in Seq(Store)
    BY <1>2, SubSeqProperties
  <1> QED
    BY <1>1, <1>2, <1>3, DrainedNothing, DrainedType DEF After, view

(* A store goes to the end of the buffer, or to the memory.                *)
LEMMA PutDoes ==
    ASSUME mem \in Memory, stores \in Seq(Store), buffered \in BOOLEAN,
           ~buffered => stores = <<>>,
           NEW f \in Names, NEW v \in Nat, Put(f, v)
    PROVE  /\ mem' \in Memory /\ stores' \in Seq(Store) /\ (~buffered => stores' = <<>>)
           /\ view' = [view EXCEPT ![f] = v]
           /\ \A n \in 0 .. Len(stores') :
                 After(n)' = view' \/ (n <= Len(stores) /\ After(n)' = After(n))
           /\ \A n \in 1 .. Len(stores') :
                 \/ After(n - 1)' = view /\ After(n)' = view'
                 \/ /\ n <= Len(stores)
                    /\ After(n - 1)' = After(n - 1) /\ After(n)' = After(n)
           /\ mem' = mem \/ (mem = view /\ mem' = view')
  <1> DEFINE e == [field |-> f, value |-> v]
  <1>1. e \in Store
    BY DEF Store
  <1>2. CASE buffered
    <2>1. /\ mem' = mem /\ stores' = Append(stores, e) /\ stores' \in Seq(Store)
          /\ Len(stores') = Len(stores) + 1 /\ Len(stores) \in Nat
      BY <1>1, <1>2, AppendProperties, LenProperties DEF Put
    <2>2. view' = [view EXCEPT ![f] = v]
      BY <1>1, <2>1, DrainedAppend DEF view
    <2>3. ASSUME NEW n \in Nat, n = Len(stores')
          PROVE  After(n)' = view'
      <3>1. SubSeq(stores', 1, n) = stores'
        BY <2>1, <2>3, SubSeqFull
      <3> QED
        BY <3>1 DEF After, view
    <2>4. ASSUME NEW n \in 0 .. Len(stores)
          PROVE  After(n)' = After(n)
      <3>1. SubSeq(Append(stores, e), 1, n) = SubSeq(stores, 1, n)
        BY <1>1, <2>1, SubSeqProperties, AppendProperties
      <3> QED
        BY <2>1, <3>1 DEF After
    <2>5. After(Len(stores)) = view
      BY AfterEnds
    <2>6. ASSUME NEW n \in 0 .. Len(stores')
          PROVE  After(n)' = view' \/ (n <= Len(stores) /\ After(n)' = After(n))
      <3>1. CASE n = Len(stores')
        BY <2>1, <2>3, <3>1
      <3>2. CASE n # Len(stores')
        <4>1. n \in 0 .. Len(stores)
          BY <2>1, <3>2
        <4> QED
          BY <4>1, <2>4
      <3> QED
        BY <3>1, <3>2
    <2>7. ASSUME NEW n \in 1 .. Len(stores')
          PROVE  \/ After(n - 1)' = view /\ After(n)' = view'
                 \/ /\ n <= Len(stores)
                    /\ After(n - 1)' = After(n - 1) /\ After(n)' = After(n)
      <3>1. CASE n = Len(stores')
        <4>1. n - 1 \in 0 .. Len(stores) /\ n - 1 = Len(stores)
          BY <2>1, <3>1
        <4>2. After(n - 1)' = After(n - 1) /\ After(n - 1) = view
          BY <4>1, <2>4, <2>5
        <4> QED
          BY <4>2, <2>1, <2>3, <3>1
      <3>2. CASE n # Len(stores')
        <4>1. n - 1 \in 0 .. Len(stores) /\ n \in 0 .. Len(stores) /\ n <= Len(stores)
          BY <2>1, <3>2
        <4> QED
          BY <4>1, <2>4
      <3> QED
        BY <3>1, <3>2
    <2> QED
      BY <1>2, <2>1, <2>2, <2>6, <2>7
  <1>3. CASE ~buffered
    <2>1. /\ mem' = [mem EXCEPT ![f] = v] /\ stores' = <<>> /\ stores = <<>>
          /\ mem' \in Memory /\ stores' \in Seq(Store) /\ Len(stores') = 0
      BY <1>3 DEF Put, Memory
    <2>2. view = mem /\ view' = mem'
      BY <2>1, DrainedNothing DEF view
    <2>3. After(0)' = mem'
      <3>1. SubSeq(stores', 1, 0) = <<>>
        BY SubSeqEmpty
      <3>2. Drained(mem', <<>>) = mem'
        BY <2>1, DrainedNothing
      <3> QED
        BY <3>1, <3>2 DEF After
    <2> QED
      BY <1>3, <2>1, <2>2, <2>3
  <1> QED
    BY <1>2, <1>3

(* The oldest store is done.                                               *)
LEMMA DrainDoes ==
    ASSUME mem \in Memory, stores \in Seq(Store), Drain
    PROVE  /\ mem' \in Memory /\ stores' \in Seq(Store) /\ view' = view
           /\ Len(stores') = Len(stores) - 1 /\ Len(stores) \in Nat
           /\ \A n \in 0 .. Len(stores') : After(n)' = After(n + 1)
           /\ mem' = After(1) /\ 1 <= Len(stores)
  <1>1. /\ stores # <<>> /\ stores' = Tail(stores)
        /\ mem' = [mem EXCEPT ![Head(stores).field] = Head(stores).value]
    BY DEF Drain
  <1>2. /\ stores' \in Seq(Store) /\ Len(stores') = Len(stores) - 1 /\ Len(stores) \in Nat
        /\ Len(stores) >= 1 /\ \A i \in 1 .. Len(stores) - 1 : stores'[i] = stores[i + 1]
        /\ Head(stores) = stores[1]
    BY <1>1, HeadTailProperties, EmptySeq, LenProperties
  <1>3. view' = view /\ mem' \in Memory
    BY <1>1, DrainedHead DEF view
  <1>4. ASSUME NEW n \in 0 .. Len(stores')
        PROVE  After(n)' = After(n + 1)
    <2> DEFINE s == SubSeq(stores, 1, n + 1)
    <2>1. /\ s \in Seq(Store) /\ Len(s) = n + 1 /\ \A i \in 1 .. n + 1 : s[i] = stores[i]
      BY <1>2, SubSeqProperties
    <2> DEFINE r == SubSeq(stores', 1, n)
    <2>2. /\ r \in Seq(Store) /\ Len(r) = n /\ \A i \in 1 .. n : r[i] = stores'[i]
      BY <1>2, SubSeqProperties
    <2> HIDE DEF s, r
    <2>3. s # <<>> /\ Head(s) = Head(stores)
      BY <1>2, <2>1
    <2>4. /\ Tail(s) \in Seq(Store) /\ Len(Tail(s)) = n
          /\ \A i \in 1 .. n : Tail(s)[i] = s[i + 1]
      BY <2>1, <2>3, HeadTailProperties
    <2>5. r = Tail(s)
      <3>1. \A i \in 1 .. n : r[i] = Tail(s)[i]
        BY <1>2, <2>1, <2>2, <2>4
      <3> QED
        BY <3>1, <2>2, <2>4, SeqEqual
    <2>6. Drained(mem', r) = Drained(mem, s)
      BY <1>1, <2>1, <2>3, <2>5, DrainedHead
    <2> QED
      BY <2>6 DEF After, r, s
  <1>5. mem' = After(1)
    <2>1. After(0)' = mem'
      <3>1. SubSeq(stores', 1, 0) = <<>>
        BY SubSeqEmpty
      <3>2. Drained(mem', <<>>) = mem'
        BY <1>3, DrainedNothing
      <3> QED
        BY <3>1, <3>2 DEF After
    <2> QED
      BY <2>1, <1>2, <1>4
  <1> QED
    BY <1>2, <1>3, <1>4, <1>5

(* The first steps of a start of a timer that does not run.                *)
LEMMA StartSteps == <<"start">> \o <<"up", "protector2">> = <<"start", "up", "protector2">>
  <1> DEFINE S == {"start", "up", "protector2"}
             a == <<"start">>
             b == <<"up", "protector2">>
             c == <<"start", "up", "protector2">>
  <1>1. a \in Seq(S) /\ b \in Seq(S) /\ c \in Seq(S)
    OBVIOUS
  <1>2. Len(a) = 1 /\ Len(b) = 2 /\ Len(c) = 3 /\ a[1] = c[1] /\ b[1] = c[2] /\ b[2] = c[3]
    OBVIOUS
  <1> HIDE DEF a, b, c, S
  <1>3. /\ a \o b \in Seq(S) /\ Len(a \o b) = 3
        /\ \A i \in 1 .. 3 : (a \o b)[i] = IF i <= 1 THEN a[i] ELSE b[i - 1]
    <2>1. /\ a \o b \in Seq(S) /\ Len(a \o b) = Len(a) + Len(b)
          /\ \A i \in 1 .. Len(a) + Len(b) :
                (a \o b)[i] = IF i <= Len(a) THEN a[i] ELSE b[i - Len(a)]
      BY <1>1, ConcatProperties
    <2>2. Len(a) + Len(b) = 3
      BY <1>2
    <2> QED
      BY <1>2, <2>1, <2>2
  <1>4. \A i \in 1 .. 3 : (a \o b)[i] = c[i]
    BY <1>2, <1>3
  <1>5. a \o b = c
    BY <1>1, <1>2, <1>3, <1>4, SeqEqual
  <1> QED
    BY <1>5 DEF a, b, c

(* A start or a stop begins with protector1.                               *)
LEMMA BeginDoes ==
    ASSUME TimerTypeOK, StartTimer \/ StopTimer
    PROVE  /\ todo = <<>> /\ Put("protector1", view.protector1 + 1)
           /\ UNCHANGED <<kind, buffered, clock, published, reader>>
           /\ \/ todo' = <<"start", "up", "protector2">> /\ view.counter = 0
              \/ todo' = <<"up", "protector2">>
              \/ todo' = <<"protector2">>
              \/ todo' = <<"down", "total", "protector2">> /\ kind = "wall" /\ view.counter = 1
              \/ todo' = <<"total", "down", "protector2">> /\ kind = "process" /\ view.counter = 1
              \/ todo' = <<"down", "protector2">> /\ view.counter >= 2
  <1>1. view \in Memory
    BY AfterEnds DEF TimerTypeOK
  <1>2. view.counter \in Nat /\ kind \in {"wall", "process"}
    BY <1>1 DEF Memory, Names, TimerTypeOK
  <1>3. CASE StartTimer
    <2>1. startSteps = IF view.counter = 0 THEN <<"start", "up", "protector2">>
                                           ELSE <<"up", "protector2">>
      <3>1. <<>> \o <<"up", "protector2">> = <<"up", "protector2">>
        OBVIOUS
      <3> QED
        BY <3>1, StartSteps DEF startSteps
    <2> QED
      BY <1>3, <2>1 DEF StartTimer, BeginUpdate
  <1>4. CASE StopTimer
    BY <1>2, <1>4 DEF StopTimer, BeginUpdate, stopSteps
  <1> QED
    BY <1>3, <1>4

(* A step of a start or a stop.                                            *)
LEMMA UpdateDoes ==
    ASSUME TimerTypeOK, Remains, Update
    PROVE  /\ UNCHANGED <<kind, buffered, clock, reader>>
           /\ \/ /\ todo = <<"protector2">> /\ todo' = <<>>
                 /\ Put("protector2", view.protector2 + 1)
                 /\ published' = Append(published, [f \in FieldNames |-> view[f]])
              \/ /\ published' = published
                 /\ \/ /\ todo = <<"up", "protector2">> /\ todo' = <<"protector2">>
                       /\ Put("counter", view.counter + 1)
                    \/ /\ todo = <<"start", "up", "protector2">> /\ view.counter = 0
                       /\ todo' = <<"up", "protector2">>
                       /\ Put("start", clock)
                    \/ /\ todo = <<"down", "total", "protector2">>
                       /\ kind = "wall" /\ view.counter = 1
                       /\ todo' = <<"total", "protector2">>
                       /\ Put("counter", view.counter - 1)
                    \/ /\ todo = <<"total", "protector2">> /\ kind = "wall" /\ view.counter = 0
                       /\ todo' = <<"protector2">>
                       /\ Put("total", view.total + (clock - view.start))
                    \/ /\ todo = <<"total", "down", "protector2">>
                       /\ kind = "process" /\ view.counter = 1
                       /\ todo' = <<"down", "protector2">>
                       /\ Put("total", view.total + (clock - view.start))
                    \/ /\ todo = <<"down", "protector2">> /\ view.counter >= 1
                       /\ todo' = <<"protector2">>
                       /\ Put("counter", view.counter - 1)
  <1>1. /\ todo # <<>> /\ todo' = Tail(todo)
        /\ Head(todo) = "start" => Put("start", clock)
        /\ Head(todo) = "total" => Put("total", view.total + (clock - view.start))
        /\ Head(todo) = "up" => Put("counter", view.counter + 1)
        /\ Head(todo) = "down" => Put("counter", view.counter - 1)
        /\ Head(todo) = "protector2" => Put("protector2", view.protector2 + 1)
        /\ published' = IF Tail(todo) = <<>>
                        THEN Append(published, [f \in DOMAIN Fresh |-> view[f]])
                        ELSE published
        /\ UNCHANGED <<kind, buffered, clock, reader>>
    BY DEF Update
  <1>2. DOMAIN Fresh = FieldNames
    BY DEF Fresh, FieldNames
  <1>3. CASE todo = <<"protector2">>
    <2>1. Head(todo) = "protector2" /\ Tail(todo) = <<>>
      BY <1>3
    <2> QED
      BY <1>1, <1>2, <1>3, <2>1
  <1>4. CASE todo = <<"up", "protector2">>
    <2>1. Head(todo) = "up" /\ Tail(todo) = <<"protector2">>
      BY <1>4
    <2> QED
      BY <1>1, <1>4, <2>1
  <1>5. CASE todo = <<"start", "up", "protector2">> /\ view.counter = 0
    <2>1. Head(todo) = "start" /\ Tail(todo) = <<"up", "protector2">>
      BY <1>5
    <2> QED
      BY <1>1, <1>5, <2>1
  <1>6. CASE todo = <<"down", "total", "protector2">> /\ kind = "wall" /\ view.counter = 1
    <2>1. Head(todo) = "down" /\ Tail(todo) = <<"total", "protector2">>
      BY <1>6
    <2> QED
      BY <1>1, <1>6, <2>1
  <1>7. CASE todo = <<"total", "protector2">> /\ kind = "wall" /\ view.counter = 0
    <2>1. Head(todo) = "total" /\ Tail(todo) = <<"protector2">>
      BY <1>7
    <2> QED
      BY <1>1, <1>7, <2>1
  <1>8. CASE todo = <<"total", "down", "protector2">> /\ kind = "process" /\ view.counter = 1
    <2>1. Head(todo) = "total" /\ Tail(todo) = <<"down", "protector2">>
      BY <1>8
    <2> QED
      BY <1>1, <1>8, <2>1
  <1>9. CASE todo = <<"down", "protector2">> /\ view.counter >= 1
    <2>1. Head(todo) = "down" /\ Tail(todo) = <<"protector2">>
      BY <1>9
    <2> QED
      BY <1>1, <1>9, <2>1
  <1> QED
    BY <1>1, <1>3, <1>4, <1>5, <1>6, <1>7, <1>8, <1>9 DEF Remains

(* A settled memory stays so when an update is published.                  *)
LEMMA SettledGrows ==
    ASSUME published \in Seq(Taken), Grows, NEW m \in Memory, Settled(m, published)
    PROVE  published' \in Seq(Taken) /\ Settled(m, published')
  <1>1. CASE published' = published
    BY <1>1
  <1>2. ASSUME NEW update \in Taken, published' = Append(published, update)
        PROVE  published' \in Seq(Taken) /\ Settled(m, published')
    <2>1. /\ published' \in Seq(Taken) /\ Len(published') = Len(published) + 1
          /\ Len(published) \in Nat
          /\ \A i \in 1 .. Len(published) : published'[i] = published[i]
      BY <1>2, AppendProperties, LenProperties
    <2>2. m.protector2 \in Nat
      BY DEF Memory, Names
    <2>3. m.protector2 + 1 \in 1 .. Len(published)
      BY <2>1, <2>2 DEF Settled
    <2> QED
      BY <2>1, <2>2, <2>3 DEF Settled
  <1> QED
    BY <1>1, <1>2 DEF Grows

(* A store of the thread that leaves the timer settled.                    *)
LEMMA MemoryPut ==
    ASSUME TimerTypeOK, MemoryInv, NEW f \in Names, NEW v \in Nat, Put(f, v), Grows,
           Settled(view', published'), NoLess(view, view')
    PROVE  MemoryInv' /\ NoLess(mem, mem')
  <1>1. /\ mem \in Memory /\ stores \in Seq(Store) /\ buffered \in BOOLEAN
        /\ published \in Seq(Taken) /\ (~buffered => stores = <<>>)
    BY DEF TimerTypeOK
  <1>2. /\ mem' \in Memory
        /\ \A n \in 0 .. Len(stores') :
              After(n)' = view' \/ (n <= Len(stores) /\ After(n)' = After(n))
        /\ \A n \in 1 .. Len(stores') :
              \/ After(n - 1)' = view /\ After(n)' = view'
              \/ /\ n <= Len(stores)
                 /\ After(n - 1)' = After(n - 1) /\ After(n)' = After(n)
        /\ mem' = mem \/ (mem = view /\ mem' = view')
        /\ stores' \in Seq(Store)
    BY <1>1, PutDoes
  <1>3. /\ Len(stores) \in Nat /\ Len(stores') \in Nat
        /\ \A n \in 0 .. Len(stores) : After(n) \in Memory
    BY <1>1, <1>2, AfterEnds, LenProperties
  <1>4. ASSUME NEW n \in 0 .. Len(stores')
        PROVE  Settled(After(n)', published')
    <2>1. CASE After(n)' = view'
      BY <2>1
    <2>2. CASE n <= Len(stores) /\ After(n)' = After(n)
      <3>1. n \in 0 .. Len(stores)
        BY <1>3, <2>2
      <3>2. After(n) \in Memory /\ Settled(After(n), published)
        BY <1>3, <3>1 DEF MemoryInv
      <3> HIDE DEF After
      <3> QED
        BY <1>1, <2>2, <3>2, SettledGrows
    <2> QED
      BY <1>2, <2>1, <2>2
  <1>5. ASSUME NEW n \in 1 .. Len(stores')
        PROVE  NoLess(After(n - 1)', After(n)')
    <2>1. CASE n <= Len(stores) /\ After(n - 1)' = After(n - 1) /\ After(n)' = After(n)
      <3>1. n \in 1 .. Len(stores)
        BY <1>3, <2>1
      <3> QED
        BY <2>1, <3>1 DEF MemoryInv
    <2> QED
      BY <1>2, <2>1
  <1>6. NoLess(mem, mem')
    BY <1>1, <1>2 DEF NoLess, Memory, Names
  <1> QED
    BY <1>4, <1>5, <1>6 DEF MemoryInv

(* The oldest store is done.                                               *)
LEMMA MemoryDrain ==
    ASSUME TimerTypeOK, MemoryInv, Drain
    PROVE  MemoryInv' /\ NoLess(mem, mem') /\ view' = view
  <1>1. mem \in Memory /\ stores \in Seq(Store) /\ published' = published
    BY DEF TimerTypeOK, Drain
  <1>2. /\ view' = view
        /\ Len(stores') = Len(stores) - 1 /\ Len(stores) \in Nat
        /\ \A n \in 0 .. Len(stores') : After(n)' = After(n + 1)
        /\ mem' = After(1) /\ 1 <= Len(stores)
    BY <1>1, DrainDoes
  <1>3. ASSUME NEW n \in 0 .. Len(stores')
        PROVE  Settled(After(n)', published')
    <2>1. n + 1 \in 0 .. Len(stores) /\ After(n)' = After(n + 1)
      BY <1>2
    <2> QED
      BY <1>1, <2>1 DEF MemoryInv
  <1>4. ASSUME NEW n \in 1 .. Len(stores')
        PROVE  NoLess(After(n - 1)', After(n)')
    <2>1. /\ n \in 0 .. Len(stores') /\ n - 1 \in 0 .. Len(stores')
          /\ n + 1 \in 1 .. Len(stores) /\ (n + 1) - 1 = n /\ (n - 1) + 1 = n
      BY <1>2
    <2>2. After(n)' = After(n + 1) /\ After(n - 1)' = After((n - 1) + 1)
      BY <1>2, <2>1
    <2>3. NoLess(After((n + 1) - 1), After(n + 1))
      BY <2>1 DEF MemoryInv
    <2> QED
      BY <2>1, <2>2, <2>3
  <1>5. NoLess(mem, mem')
    <2>1. 1 \in 1 .. Len(stores) /\ 1 - 1 = 0 /\ After(0) = mem
      BY <1>1, <1>2, AfterEnds
    <2>2. NoLess(After(1 - 1), After(1))
      BY <2>1 DEF MemoryInv
    <2> QED
      BY <1>2, <2>1, <2>2
  <1> QED
    BY <1>2, <1>3, <1>4, <1>5 DEF MemoryInv

(* A start or a stop begins: protector1 is ahead of protector2, and what a *)
(* later sample must reach does not change.                                *)
LEMMA WriterBegins ==
    ASSUME TimerTypeOK, MemoryInv, WriterInv, StartTimer \/ StopTimer
    PROVE  /\ WriterInv' /\ MemoryInv' /\ NoLess(mem, mem') /\ Floor <= Floor'
           /\ UNCHANGED <<kind, buffered, clock, published, reader>>
  <1>1. /\ todo = <<>> /\ Put("protector1", view.protector1 + 1)
        /\ UNCHANGED <<kind, buffered, clock, published, reader>>
        /\ \/ todo' = <<"start", "up", "protector2">> /\ view.counter = 0
           \/ todo' = <<"up", "protector2">>
           \/ todo' = <<"protector2">>
           \/ todo' = <<"down", "total", "protector2">> /\ kind = "wall" /\ view.counter = 1
           \/ todo' = <<"total", "down", "protector2">> /\ kind = "process" /\ view.counter = 1
           \/ todo' = <<"down", "protector2">> /\ view.counter >= 2
    BY BeginDoes
  <1>2. view \in Memory /\ clock \in Nat /\ view = view
    BY AfterEnds DEF TimerTypeOK
  <1>3. /\ view.protector1 \in Nat /\ view.protector2 \in Nat /\ view.total \in Nat
        /\ view.start \in Nat /\ view.counter \in Nat
    BY <1>2 DEF Memory, Names
  <1>4. /\ "protector1" \in Names /\ view.protector1 + 1 \in Nat
        /\ view' = [view EXCEPT !["protector1"] = view.protector1 + 1]
    <2>1. "protector1" \in Names /\ view.protector1 + 1 \in Nat
      BY <1>3 DEF Names
    <2> QED
      BY <2>1, <1>1, PutDoes DEF TimerTypeOK
  <1>5. /\ view'.protector1 = view.protector1 + 1 /\ view'.protector2 = view.protector2
        /\ view'.total = view.total /\ view'.start = view.start
        /\ view'.counter = view.counter
    BY <1>2, <1>4 DEF Memory, Names
  <1>6. view.protector1 = view.protector2 /\ Len(published) = view.protector2 + 1
        /\ view.start <= clock
    BY <1>1, <1>3 DEF WriterInv
  <1>7. Settled(view', published') /\ NoLess(view, view')
    BY <1>1, <1>3, <1>5, <1>6 DEF Settled, NoLess
  <1>8. MemoryInv' /\ NoLess(mem, mem')
    BY <1>1, <1>4, <1>7, MemoryPut DEF Grows
  <1>9. WriterInv'
    <2>1. todo' # <<>>
      BY <1>1
    <2>2. kind' = kind /\ view'.counter = view.counter /\ view.counter \in Nat
      BY <1>1, <1>3, <1>5
    <2>3. Remains'
      <3>1. CASE todo' = <<"start", "up", "protector2">> /\ view.counter = 0
        BY <2>2, <3>1 DEF Remains
      <3>2. CASE todo' = <<"up", "protector2">>
        BY <3>2 DEF Remains
      <3>3. CASE todo' = <<"protector2">>
        BY <3>3 DEF Remains
      <3>4. CASE todo' = <<"down", "total", "protector2">> /\ kind = "wall" /\ view.counter = 1
        BY <2>2, <3>4 DEF Remains
      <3>5. CASE todo' = <<"total", "down", "protector2">> /\ kind = "process"
                 /\ view.counter = 1
        BY <2>2, <3>5 DEF Remains
      <3>6. CASE todo' = <<"down", "protector2">> /\ view.counter >= 2
        BY <2>2, <3>6 DEF Remains
      <3> QED
        BY <1>1, <3>1, <3>2, <3>3, <3>4, <3>5, <3>6
    <2> QED
      BY <1>1, <1>3, <1>5, <1>6, <2>1, <2>3 DEF WriterInv
  <1>10. Floor = IF view.counter > 0 THEN view.total + (clock - view.start) ELSE view.total
    BY <1>1 DEF Floor, Value
  <1>11. Floor' = Floor
    BY <1>1, <1>2, <1>3, <1>5, <1>10 DEF Floor, Value
  <1>12. Floor \in Int
    BY <1>2, <1>3, <1>10
  <1> QED
    BY <1>1, <1>8, <1>9, <1>11, <1>12

(* A step of a start or a stop: only the last one publishes, and what a    *)
(* later sample must reach does not become less.                           *)
LEMMA WriterUpdates ==
    ASSUME TimerTypeOK, MemoryInv, WriterInv, Update
    PROVE  /\ WriterInv' /\ MemoryInv' /\ NoLess(mem, mem') /\ Floor <= Floor' /\ Grows
           /\ UNCHANGED <<kind, buffered, clock, reader>>
  <1>1. view \in Memory /\ clock \in Nat /\ UNCHANGED <<kind, buffered, clock, reader>>
    BY AfterEnds, UpdateDoes DEF TimerTypeOK, WriterInv
  <1>2. /\ view.protector1 \in Nat /\ view.protector2 \in Nat /\ view.total \in Nat
        /\ view.start \in Nat /\ view.counter \in Nat
    BY <1>1 DEF Memory, Names
  <1>3. view.start <= clock /\ Len(published) = view.protector2 + 1
    BY DEF WriterInv
  <1>4. ASSUME NEW f \in Names, NEW v \in Nat, Put(f, v)
        PROVE  view' = [view EXCEPT ![f] = v] /\ f \in Names /\ v \in Nat
    BY <1>4, PutDoes DEF TimerTypeOK
  <1>5. CASE /\ todo = <<"protector2">> /\ todo' = <<>>
             /\ Put("protector2", view.protector2 + 1)
             /\ published' = Append(published, [f \in FieldNames |-> view[f]])
    <2> DEFINE update == [f \in FieldNames |-> view[f]]
    <2>1. update \in Taken /\ Grows
      <3>1. \A f \in FieldNames : view[f] \in Nat
        BY <1>1 DEF Memory, Names, FieldNames
      <3> QED
        BY <1>5, <3>1 DEF Taken, Grows
    <2>2. /\ Len(published') = Len(published) + 1
          /\ published'[Len(published) + 1] = update
      BY <1>5, <2>1, AppendProperties DEF TimerTypeOK
    <2>3. "protector2" \in Names /\ view.protector2 + 1 \in Nat
      BY <1>2 DEF Names
    <2>4. view' = [view EXCEPT !["protector2"] = view.protector2 + 1]
      BY <1>4, <1>5, <2>3
    <2>5. /\ view'.protector1 = view.protector1 /\ view'.protector2 = view.protector2 + 1
          /\ view'.total = view.total /\ view'.start = view.start
          /\ view'.counter = view.counter
          /\ \A f \in FieldNames : view'[f] = view[f]
      BY <1>1, <2>4 DEF Memory, Names, FieldNames
    <2>6. view.protector1 = view.protector2 + 1
      BY <1>2, <1>5 DEF WriterInv
    <2>7. Settled(view', published') /\ NoLess(view, view')
      <3>1. \A f \in FieldNames : view'[f] = published'[view'.protector2 + 1][f]
        BY <1>3, <2>2, <2>5
      <3> QED
        BY <1>2, <1>3, <2>2, <2>5, <2>6, <3>1 DEF Settled, NoLess
    <2>8. MemoryInv' /\ NoLess(mem, mem')
      BY <1>5, <2>1, <2>3, <2>7, MemoryPut
    <2>9. WriterInv'
      <3>1. Remains'
        BY <1>5 DEF Remains
      <3>2. view'.protector1 = view'.protector2 + 0
        BY <1>2, <2>5, <2>6
      <3>3. view'.start <= clock' /\ Len(published') = view'.protector2 + 1
        BY <1>1, <1>3, <2>2, <2>5
      <3> QED
        BY <1>5, <3>1, <3>2, <3>3 DEF WriterInv
    <2>10. Floor = Value(view) /\ Floor' = Value(view)' /\ Value(view)' = Value(view)
      BY <1>1, <1>5, <2>5 DEF Floor, Value
    <2>11. Value(view) \in Int
      BY <1>1, <1>2 DEF Value
    <2> QED
      BY <1>1, <2>1, <2>8, <2>9, <2>10, <2>11
  <1>6. ASSUME NEW f \in FieldNames, NEW v \in Nat, Put(f, v), published' = published,
               todo # <<>>, todo' # <<>>
        PROVE  /\ MemoryInv' /\ NoLess(mem, mem') /\ Grows
               /\ view'.protector1 = view.protector1 /\ view'.protector2 = view.protector2
               /\ \A g \in FieldNames : view'[g] = IF g = f THEN v ELSE view[g]
               /\ Remains' /\ view'.start <= clock => WriterInv'
    <2>1. f \in Names /\ view' = [view EXCEPT ![f] = v]
      BY <1>4, <1>6 DEF Names, FieldNames
    <2>2. /\ view'.protector1 = view.protector1 /\ view'.protector2 = view.protector2
          /\ \A g \in FieldNames : view'[g] = IF g = f THEN v ELSE view[g]
      BY <1>1, <2>1 DEF Memory, Names, FieldNames
    <2>3. view.protector1 = view.protector2 + 1
      BY <1>2, <1>6 DEF WriterInv
    <2>4. Settled(view', published') /\ NoLess(view, view')
      BY <1>2, <1>3, <1>6, <2>2, <2>3 DEF Settled, NoLess
    <2>5. MemoryInv' /\ NoLess(mem, mem')
      BY <1>6, <2>1, <2>4, MemoryPut DEF Grows
    <2>6. Remains' /\ view'.start <= clock => WriterInv'
      BY <1>1, <1>3, <1>6, <2>2, <2>3 DEF WriterInv
    <2> QED
      BY <1>6, <2>2, <2>5, <2>6 DEF Grows
  <1>7. "counter" \in FieldNames /\ "start" \in FieldNames /\ "total" \in FieldNames
    BY DEF FieldNames
  <1>8. CASE todo = <<"up", "protector2">> /\ todo' = <<"protector2">>
             /\ Put("counter", view.counter + 1) /\ published' = published
    <2>1. todo # <<>> /\ todo' # <<>>
      BY <1>8
    <2>2. /\ MemoryInv' /\ NoLess(mem, mem') /\ Grows
          /\ view'.counter = view.counter + 1
          /\ view'.start = view.start /\ view'.total = view.total
          /\ Remains' /\ view'.start <= clock => WriterInv'
      BY <1>2, <1>6, <1>7, <1>8, <2>1
    <2>3. WriterInv'
      BY <1>3, <1>8, <2>2 DEF Remains
    <2>4. Floor <= Floor'
      <3>1. Floor = IF view.counter > 0 THEN view.total + (clock - view.start) ELSE view.total
        BY <1>8 DEF Floor, Value
      <3>2. Floor' = view.total + (clock - view.start)
        BY <1>1, <1>2, <1>8, <2>2 DEF Floor, Value
      <3> QED
        BY <1>1, <1>2, <1>3, <3>1, <3>2
    <2> QED
      BY <1>1, <2>2, <2>3, <2>4
  <1>9. CASE /\ todo = <<"start", "up", "protector2">> /\ view.counter = 0
             /\ todo' = <<"up", "protector2">> /\ published' = published
             /\ Put("start", clock)
    <2>1. todo # <<>> /\ todo' # <<>> /\ clock \in Nat
      BY <1>1, <1>2, <1>3, <1>9
    <2>2. /\ MemoryInv' /\ NoLess(mem, mem') /\ Grows
          /\ view'.counter = view.counter /\ view'.start = clock
          /\ view'.total = view.total
          /\ Remains' /\ view'.start <= clock => WriterInv'
      BY <1>2, <1>6, <1>7, <1>9, <2>1
    <2>3. WriterInv'
      BY <1>1, <1>2, <1>3, <1>9, <2>2 DEF Remains
    <2>4. Floor <= Floor'
      <3>1. Floor = view.total
        BY <1>9 DEF Floor, Value
      <3>2. Floor' = view.total
        BY <1>1, <1>2, <1>9, <2>2 DEF Floor, Value
      <3>3. view.total \in Int
        BY <1>1, <1>2
      <3> QED
        BY <3>1, <3>2, <3>3
    <2> QED
      BY <1>1, <2>2, <2>3, <2>4
  <1>10. CASE /\ todo = <<"down", "total", "protector2">> /\ kind = "wall" /\ view.counter = 1
             /\ todo' = <<"total", "protector2">> /\ published' = published
             /\ Put("counter", view.counter - 1)
    <2>1. todo # <<>> /\ todo' # <<>> /\ view.counter - 1 \in Nat
      BY <1>1, <1>2, <1>3, <1>10
    <2>2. /\ MemoryInv' /\ NoLess(mem, mem') /\ Grows
          /\ view'.counter = 0 /\ view'.start = view.start
          /\ view'.total = view.total
          /\ Remains' /\ view'.start <= clock => WriterInv'
      BY <1>2, <1>6, <1>7, <1>10, <2>1
    <2>3. WriterInv'
      BY <1>1, <1>2, <1>3, <1>10, <2>2 DEF Remains
    <2>4. Floor <= Floor'
      <3>1. Floor = view.total + (clock - view.start)
        BY <1>10 DEF Floor, Value
      <3>2. Floor' = view.total + (clock - view.start)
        BY <1>1, <1>2, <1>10, <2>2 DEF Floor, Value
      <3>3. view.total + (clock - view.start) \in Int
        BY <1>1, <1>2
      <3> QED
        BY <3>1, <3>2, <3>3
    <2> QED
      BY <1>1, <2>2, <2>3, <2>4
  <1>11. CASE /\ todo = <<"total", "protector2">> /\ kind = "wall" /\ view.counter = 0
             /\ todo' = <<"protector2">> /\ published' = published
             /\ Put("total", view.total + (clock - view.start))
    <2>1. todo # <<>> /\ todo' # <<>> /\ view.total + (clock - view.start) \in Nat
      BY <1>1, <1>2, <1>3, <1>11
    <2>2. /\ MemoryInv' /\ NoLess(mem, mem') /\ Grows
          /\ view'.counter = 0 /\ view'.start = view.start
          /\ view'.total = view.total + (clock - view.start)
          /\ Remains' /\ view'.start <= clock => WriterInv'
      BY <1>2, <1>6, <1>7, <1>11, <2>1
    <2>3. WriterInv'
      BY <1>1, <1>2, <1>3, <1>11, <2>2 DEF Remains
    <2>4. Floor <= Floor'
      <3>1. Floor = view.total + (clock - view.start)
        BY <1>11 DEF Floor, Value
      <3>2. Floor' = view.total + (clock - view.start)
        BY <1>1, <1>2, <1>11, <2>2 DEF Floor, Value
      <3>3. view.total + (clock - view.start) \in Int
        BY <1>1, <1>2
      <3> QED
        BY <3>1, <3>2, <3>3
    <2> QED
      BY <1>1, <2>2, <2>3, <2>4
  <1>12. CASE /\ todo = <<"total", "down", "protector2">> /\ kind = "process" /\ view.counter = 1
             /\ todo' = <<"down", "protector2">> /\ published' = published
             /\ Put("total", view.total + (clock - view.start))
    <2>1. todo # <<>> /\ todo' # <<>> /\ view.total + (clock - view.start) \in Nat
      BY <1>1, <1>2, <1>3, <1>12
    <2>2. /\ MemoryInv' /\ NoLess(mem, mem') /\ Grows
          /\ view'.counter = 1 /\ view'.start = view.start
          /\ view'.total = view.total + (clock - view.start)
          /\ Remains' /\ view'.start <= clock => WriterInv'
      BY <1>2, <1>6, <1>7, <1>12, <2>1
    <2>3. WriterInv'
      BY <1>1, <1>2, <1>3, <1>12, <2>2 DEF Remains
    <2>4. Floor <= Floor'
      <3>1. Floor = view.total + (clock - view.start)
        BY <1>12 DEF Floor, Value
      <3>2. Floor' = view.total + (clock - view.start)
        BY <1>1, <1>2, <1>12, <2>2 DEF Floor, Value
      <3>3. view.total + (clock - view.start) \in Int
        BY <1>1, <1>2
      <3> QED
        BY <3>1, <3>2, <3>3
    <2> QED
      BY <1>1, <2>2, <2>3, <2>4
  <1>13. CASE /\ todo = <<"down", "protector2">> /\ view.counter >= 1
              /\ todo' = <<"protector2">> /\ published' = published
              /\ Put("counter", view.counter - 1)
    <2>1. todo # <<>> /\ todo' # <<>> /\ view.counter - 1 \in Nat
      BY <1>2, <1>13
    <2>2. /\ MemoryInv' /\ NoLess(mem, mem') /\ Grows
          /\ view'.counter = view.counter - 1
          /\ view'.start = view.start /\ view'.total = view.total
          /\ Remains' /\ view'.start <= clock => WriterInv'
      BY <1>2, <1>6, <1>7, <1>13, <2>1
    <2>3. WriterInv'
      BY <1>3, <1>13, <2>2 DEF Remains
    <2>4. Floor <= Floor'
      <3>1. Floor = IF view.counter = 1 THEN view.total
                    ELSE view.total + (clock - view.start)
        BY <1>2, <1>13 DEF Floor, Value
      <3>2. Floor' = IF view.counter - 1 > 0 THEN view.total + (clock - view.start)
                     ELSE view.total
        BY <1>1, <1>13, <2>2 DEF Floor, Value
      <3> QED
        BY <1>1, <1>2, <1>13, <3>1, <3>2
    <2> QED
      BY <1>1, <2>2, <2>3, <2>4
  <1>14. Remains
    BY DEF WriterInv
  <1> QED
    BY <1>5, <1>8, <1>9, <1>10, <1>11, <1>12, <1>13, <1>14, UpdateDoes

(* The daemon reads protector2 first, then the three fields, the clock and *)
(* protector1.                                                             *)
LEMMA ReadOrder ==
    /\ Len(readSteps) = 6
    /\ readSteps[1] = "protector2" /\ readSteps[5] = "clock" /\ readSteps[6] = "protector1"
    /\ \A i \in 2 .. 4 : readSteps[i] \in FieldNames
    /\ \A i, j \in 1 .. 6 : i # j => readSteps[i] # readSteps[j]
    /\ \A f \in FieldNames : \E i \in 2 .. 4 : readSteps[i] = f
  <1>1. CASE kind = "wall"
    <2>1. readSteps = wallSteps
      BY <1>1 DEF readSteps
    <2>2. /\ Len(wallSteps) = 6 /\ wallSteps[1] = "protector2" /\ wallSteps[2] = "start"
          /\ wallSteps[3] = "total" /\ wallSteps[4] = "counter" /\ wallSteps[5] = "clock"
          /\ wallSteps[6] = "protector1"
      BY DEF wallSteps
    <2> QED
      BY <2>1, <2>2 DEF FieldNames
  <1>2. CASE kind # "wall"
    <2>1. readSteps = processSteps
      BY <1>2 DEF readSteps
    <2>2. /\ Len(processSteps) = 6 /\ processSteps[1] = "protector2"
          /\ processSteps[2] = "counter" /\ processSteps[3] = "total"
          /\ processSteps[4] = "start" /\ processSteps[5] = "clock"
          /\ processSteps[6] = "protector1"
      BY DEF processSteps
    <2> QED
      BY <2>1, <2>2 DEF FieldNames
  <1> QED
    BY <1>1, <1>2

(* What the daemon read keeps its meaning when the thread goes on: the     *)
(* protectors only grow, and an update that is published stays.            *)
LEMMA ReaderKeeps ==
    ASSUME TimerTypeOK, ReaderInv, Settled(mem, published), Grows, NoLess(mem, mem'),
           mem' \in Memory, UNCHANGED <<kind, at, read>>
    PROVE  /\ ReaderInv'
           /\ at > 1 /\ Undisturbed' => Undisturbed
  <1>1. /\ mem.protector1 \in Nat /\ mem.protector2 \in Nat /\ read.protector2 \in Nat
        /\ mem'.protector1 \in Nat /\ mem'.protector2 \in Nat /\ at \in 1 .. 7
        /\ read.protector1 \in Nat
    BY DEF TimerTypeOK, Memory, Names
  <1>2. /\ mem.protector2 <= mem.protector1 /\ mem.protector2 < Len(published)
        /\ mem.protector1 <= mem'.protector1 /\ mem.protector2 <= mem'.protector2
    BY DEF Settled, NoLess
  <1>3. at > 1 => read.protector2 <= mem.protector2
    BY DEF ReaderInv
  <1>4. at > 1 /\ Undisturbed' => Undisturbed
    BY <1>1, <1>2, <1>3 DEF Undisturbed
  <1>5. ASSUME at > 1
        PROVE  published'[read.protector2 + 1] = published[read.protector2 + 1]
    <2>1. Len(published) \in Nat /\ published \in Seq(Taken)
      BY LenProperties DEF TimerTypeOK
    <2>2. read.protector2 + 1 \in 1 .. Len(published)
      BY <1>1, <1>2, <1>3, <1>5, <2>1
    <2>3. ASSUME NEW update \in Taken, published' = Append(published, update)
          PROVE  published'[read.protector2 + 1] = published[read.protector2 + 1]
      BY <2>1, <2>2, <2>3, AppendProperties
    <2> QED
      BY <2>3 DEF Grows
  <1>6. readSteps' = readSteps
    BY DEF readSteps, wallSteps, processSteps
  <1>7. ASSUME Undisturbed', NEW i \in 1 .. at - 1, readSteps[i] \in FieldNames
        PROVE  read[readSteps[i]] = published'[read.protector2 + 1][readSteps[i]]
    <2>1. at > 1
      BY <1>1
    <2> QED
      BY <1>4, <1>5, <1>7, <2>1 DEF ReaderInv
  <1>8. at' > 1 => read'.protector2 <= mem'.protector2
    BY <1>1, <1>2, <1>3
  <1>9. \A i \in 1 .. at' - 1 : readSteps'[i] \in FieldNames /\ Undisturbed' =>
            read'[readSteps'[i]] = published'[read'.protector2 + 1][readSteps'[i]]
    BY <1>6, <1>7
  <1> QED
    BY <1>4, <1>8, <1>9 DEF ReaderInv

(* The floor does not fall: nor does a sample that is taken already.       *)
LEMMA FloorKeeps ==
    ASSUME FloorInv, TimerTypeOK, Floor \in Int, Floor' \in Int, Floor <= Floor',
           UNCHANGED <<buffered, reader>>,
           at > 1 /\ Undisturbed' => Undisturbed
    PROVE  FloorInv'
  <1>1. UNCHANGED <<at, read, lastTimeValueUsed, rolledBack>>
    BY DEF reader
  <1>2. calcTimeValueToUse(read)' = calcTimeValueToUse(read)
    BY <1>1 DEF calcTimeValueToUse
  <1>3. calcTimeValueToUse(read) \in Int /\ lastTimeValueUsed \in Int /\ at \in 1 .. 7
    BY DEF calcTimeValueToUse, TimerTypeOK, Names
  <1> HIDE DEF calcTimeValueToUse
  <1>4. ASSUME ~buffered
        PROVE  ~rolledBack' /\ lastTimeValueUsed' <= Floor'
    BY <1>1, <1>3, <1>4 DEF FloorInv
  <1>5. ASSUME ~buffered, at >= 6, Undisturbed'
        PROVE  /\ lastTimeValueUsed <= calcTimeValueToUse(read)
               /\ calcTimeValueToUse(read) <= Floor'
    BY <1>3, <1>5 DEF FloorInv
  <1> QED
    BY <1>1, <1>2, <1>4, <1>5 DEF FloorInv

(* What holds of the memory as it is, and of a floor.                      *)
LEMMA InvFacts ==
    ASSUME TimerInv
    PROVE  /\ mem \in Memory /\ view \in Memory /\ Settled(mem, published)
           /\ Floor \in Int /\ (~buffered => view = mem)
           /\ Len(published) \in Nat
  <1>1. mem \in Memory /\ stores \in Seq(Store) /\ clock \in Nat /\ published \in Seq(Taken)
    BY DEF TimerInv, TimerTypeOK
  <1>2. /\ After(0) = mem /\ view \in Memory /\ Len(stores) \in Nat
        /\ (stores = <<>> => view = mem)
    BY <1>1, AfterEnds
  <1>3. 0 \in 0 .. Len(stores)
    BY <1>2
  <1>4. Settled(After(0), published)
    BY <1>3 DEF TimerInv, MemoryInv
  <1>5. view.total \in Nat /\ view.start \in Nat /\ view.counter \in Nat
    BY <1>2 DEF Memory, Names
  <1>6. Floor \in Int
    BY <1>1, <1>5 DEF Floor, Value
  <1> QED
    BY <1>1, <1>2, <1>4, <1>6, LenProperties DEF TimerInv, TimerTypeOK

(* The daemon reads a field, the clock or a protector.                     *)
LEMMA ReadStepKeeps ==
    ASSUME TimerInv, ReadStep
    PROVE  TimerTypeOK' /\ ReaderInv' /\ FloorInv'
  <1> DEFINE f == readSteps[at]
             v == IF f = "clock" THEN clock ELSE mem[f]
  <1>1. /\ at \in 1 .. 6 /\ at' = at + 1 /\ read' = [read EXCEPT ![f] = v]
        /\ UNCHANGED <<kind, buffered, clock, mem, stores, todo, published,
                       lastTimeValueUsed, rolledBack>>
    BY ReadOrder DEF ReadStep, TimerInv, TimerTypeOK, writer
  <1>2. /\ read \in [Names \union {"clock"} -> Nat] /\ clock \in Nat
        /\ mem \in Memory /\ Settled(mem, published)
    BY InvFacts DEF TimerInv, TimerTypeOK
  <1>3. f \in Names \union {"clock"} /\ v \in Nat
    <2>1. f \in Names \union {"clock"}
      <3>1. at = 1 \/ at \in 2 .. 4 \/ at = 5 \/ at = 6
        BY <1>1
      <3> QED
        BY <3>1, ReadOrder DEF Names, FieldNames
    <2> QED
      BY <2>1, <1>2 DEF Memory
  <1> HIDE DEF v
  <1>4. /\ read' \in [Names \union {"clock"} -> Nat]
        /\ \A g \in Names \union {"clock"} : read'[g] = IF g = f THEN v ELSE read[g]
    BY <1>1, <1>2, <1>3
  <1>5. TimerTypeOK'
    BY <1>1, <1>4 DEF TimerInv, TimerTypeOK
  <1>6. /\ mem.protector1 \in Nat /\ mem.protector2 \in Nat
        /\ read.protector1 \in Nat /\ read.protector2 \in Nat
        /\ mem.protector2 <= mem.protector1
        /\ mem.protector1 = mem.protector2 =>
              \A g \in FieldNames : mem[g] = published[mem.protector2 + 1][g]
    BY <1>2 DEF Memory, Names, Settled
  <1>7. readSteps' = readSteps
    BY <1>1 DEF readSteps, wallSteps, processSteps
  <1>8. Undisturbed' <=> mem.protector1 = read'.protector2
    <2>1. CASE at = 6
      <3>1. f = "protector1" /\ v = mem.protector1
        BY <2>1, ReadOrder DEF v
      <3>2. read'.protector1 = mem.protector1
        BY <1>4, <3>1 DEF Names
      <3> QED
        BY <1>1, <2>1, <3>2 DEF Undisturbed
    <2>2. CASE at # 6
      BY <1>1, <2>2 DEF Undisturbed
    <2> QED
      BY <2>1, <2>2
  <1>9. CASE at = 1
    <2>1. f = "protector2" /\ v = mem.protector2
      BY <1>9, ReadOrder DEF v
    <2>2. read'.protector2 = mem.protector2
      BY <1>4, <2>1 DEF Names
    <2>3. \A i \in 1 .. at' - 1 : readSteps'[i] \notin FieldNames
      BY <1>1, <1>7, <1>9, ReadOrder DEF FieldNames
    <2>4. ReaderInv'
      BY <1>1, <1>6, <2>2, <2>3 DEF ReaderInv
    <2>5. Floor' = Floor
      BY <1>1 DEF Floor, Value, view, Drained
    <2>6. FloorInv'
      BY <1>1, <1>9, <2>5 DEF TimerInv, FloorInv
    <2> QED
      BY <1>5, <2>4, <2>6
  <1>10. CASE at # 1
    <2>1. f # "protector2" /\ at > 1
      BY <1>1, <1>10, ReadOrder
    <2>2. read'.protector2 = read.protector2 /\ read.protector2 <= mem.protector2
      BY <1>4, <2>1 DEF Names, TimerInv, ReaderInv
    <2>3. Undisturbed' <=> Undisturbed
      BY <1>1, <1>8, <2>2 DEF Undisturbed
    <2>4. Undisturbed' => /\ mem.protector1 = mem.protector2
                          /\ read.protector2 = mem.protector2
      BY <1>6, <1>8, <2>2
    <2>5. ASSUME Undisturbed', NEW i \in 1 .. at, readSteps[i] \in FieldNames
          PROVE  read'[readSteps[i]] = published[read.protector2 + 1][readSteps[i]]
      <3>1. CASE i = at
        <4>1. f \in FieldNames /\ v = mem[f]
          BY <2>5, <3>1 DEF v, FieldNames
        <4>2. read'[f] = mem[f]
          BY <1>3, <1>4, <4>1
        <4> QED
          BY <1>6, <2>4, <2>5, <3>1, <4>1, <4>2
      <3>2. CASE i # at
        <4>1. i \in 1 .. at - 1 /\ readSteps[i] # f
          BY <1>1, <2>5, <3>2, ReadOrder
        <4>2. read[readSteps[i]] = published[read.protector2 + 1][readSteps[i]]
          BY <2>3, <2>5, <4>1 DEF TimerInv, ReaderInv
        <4>3. readSteps[i] \in Names
          BY <2>5 DEF Names, FieldNames
        <4> QED
          BY <1>4, <4>1, <4>2, <4>3
      <3> QED
        BY <3>1, <3>2
    <2>6. ReaderInv'
      <3>1. at' - 1 = at
        BY <1>1
      <3> QED
        BY <1>1, <1>7, <2>2, <2>5, <3>1 DEF ReaderInv
    <2>7. FloorInv'
      <3>1. Floor' = Floor
        BY <1>1 DEF Floor, Value, view, Drained
      <3>2. ASSUME ~buffered, at = 5, Undisturbed'
            PROVE  /\ lastTimeValueUsed <= calcTimeValueToUse(read')
                   /\ calcTimeValueToUse(read') <= Floor
        <4>1. view = mem /\ mem.protector1 = mem.protector2 /\ lastTimeValueUsed <= Floor
          BY <3>2, <2>4, InvFacts DEF TimerInv, FloorInv
        <4>2. todo = <<>> /\ view.start <= clock
          BY <4>1, <1>6 DEF TimerInv, WriterInv
        <4>3. \A g \in FieldNames : read'[g] = mem[g]
          <5>1. ASSUME NEW g \in FieldNames
                PROVE  read'[g] = mem[g]
            <6>1. PICK i \in 2 .. 4 : readSteps[i] = g
              BY ReadOrder
            <6>2. read'[g] = published[read.protector2 + 1][g]
              BY <2>5, <3>2, <6>1
            <6> QED
              BY <1>6, <2>4, <3>2, <6>2
          <5> QED
            BY <5>1
        <4>4. /\ read'.total = mem.total /\ read'.start = mem.start
              /\ read'.counter = mem.counter /\ read'.clock = clock
          <5>1. f = "clock" /\ v = clock
            BY <3>2, ReadOrder DEF v
          <5> QED
            BY <1>4, <4>3, <5>1 DEF FieldNames
        <4>5. mem.total \in Nat /\ mem.start \in Nat /\ mem.counter \in Nat
          BY <1>2 DEF Memory, Names
        <4>6. Floor = Value(mem)
          BY <4>1, <4>2 DEF Floor
        <4>7. calcTimeValueToUse(read') = Value(mem)
          BY <1>2, <4>1, <4>2, <4>4, <4>5 DEF calcTimeValueToUse, Value
        <4>8. Value(mem) \in Int
          BY <1>2, <4>5 DEF Value
        <4> QED
          BY <4>1, <4>6, <4>7, <4>8
      <3>3. ASSUME ~buffered, at = 6, Undisturbed'
            PROVE  /\ lastTimeValueUsed <= calcTimeValueToUse(read')
                   /\ calcTimeValueToUse(read') <= Floor
        <4>1. f = "protector1"
          BY <3>3, ReadOrder
        <4>2. /\ read'.total = read.total /\ read'.start = read.start
              /\ read'.counter = read.counter /\ read'.clock = read.clock
          BY <1>4, <4>1 DEF Names
        <4>3. calcTimeValueToUse(read') = calcTimeValueToUse(read)
          BY <4>2 DEF calcTimeValueToUse
        <4> HIDE DEF calcTimeValueToUse
        <4> QED
          BY <2>3, <3>3, <4>3 DEF TimerInv, FloorInv
      <3>4. calcTimeValueToUse(read)' = calcTimeValueToUse(read')
        BY DEF calcTimeValueToUse
      <3>5. at' >= 6 => at = 5 \/ at = 6
        BY <1>1
      <3> HIDE DEF calcTimeValueToUse
      <3> QED
        BY <1>1, <3>1, <3>2, <3>3, <3>4, <3>5 DEF TimerInv, FloorInv
    <2> QED
      BY <1>5, <2>6, <2>7
  <1> QED
    BY <1>9, <1>10

(* A sample is kept or dropped, and the next begins.                       *)
LEMMA PerformKeeps ==
    ASSUME TimerInv, Perform
    PROVE  TimerTypeOK' /\ ReaderInv' /\ FloorInv'
  <1>1. /\ at = 7 /\ at' = 1 /\ read' = NothingRead
        /\ UNCHANGED <<kind, buffered, clock, mem, stores, todo, published>>
    BY ReadOrder DEF Perform, TimerInv, TimerTypeOK, writer
  <1>2. accepted <=> Undisturbed
    BY <1>1, ReadOrder DEF accepted, Undisturbed
  <1>3. \/ ~accepted /\ UNCHANGED <<lastTimeValueUsed, rolledBack>>
        \/ /\ accepted /\ calcTimeValueToUse(read) < lastTimeValueUsed
           /\ rolledBack' = TRUE /\ lastTimeValueUsed' = lastTimeValueUsed
        \/ /\ accepted /\ ~(calcTimeValueToUse(read) < lastTimeValueUsed)
           /\ rolledBack' = rolledBack /\ lastTimeValueUsed' = calcTimeValueToUse(read)
    BY DEF Perform
  <1>4. read \in [Names \union {"clock"} -> Nat] /\ lastTimeValueUsed \in Nat
    BY DEF TimerInv, TimerTypeOK
  <1>5. calcTimeValueToUse(read) \in Nat
    <2>1. /\ read.total \in Nat /\ read.start \in Nat /\ read.counter \in Nat
          /\ read.clock \in Nat
      BY <1>4 DEF Names
    <2> QED
      BY <2>1 DEF calcTimeValueToUse
  <1> HIDE DEF calcTimeValueToUse
  <1>6. TimerTypeOK'
    <2>1. NothingRead \in [Names \union {"clock"} -> Nat]
      BY DEF NothingRead, Names
    <2>2. lastTimeValueUsed' \in Nat /\ rolledBack' \in BOOLEAN
      BY <1>3, <1>5 DEF TimerInv, TimerTypeOK
    <2> QED
      BY <1>1, <2>1, <2>2 DEF TimerInv, TimerTypeOK
  <1>7. ReaderInv'
    <2>1. \A i \in 1 .. at' - 1 : FALSE
      BY <1>1
    <2> QED
      BY <1>1, <2>1 DEF ReaderInv
  <1>8. FloorInv'
    <2>1. Floor' = Floor /\ Floor \in Int
      BY <1>1, InvFacts DEF Floor, Value, view, Drained
    <2>2. ASSUME ~buffered
          PROVE  ~rolledBack' /\ lastTimeValueUsed' <= Floor
      <3>1. /\ ~rolledBack /\ lastTimeValueUsed <= Floor
            /\ accepted => /\ lastTimeValueUsed <= calcTimeValueToUse(read)
                           /\ calcTimeValueToUse(read) <= Floor
        BY <1>1, <1>2, <2>2 DEF TimerInv, FloorInv
      <3> QED
        BY <1>3, <1>4, <1>5, <2>1, <3>1
    <2> QED
      BY <1>1, <2>1, <2>2 DEF FloorInv
  <1> QED
    BY <1>6, <1>7, <1>8

(* The clock goes on.                                                      *)
LEMMA TickKeeps ==
    ASSUME TimerInv, Tick
    PROVE  TimerInv'
  <1>1. /\ clock' = clock + 1 /\ UNCHANGED <<kind, buffered, mem, stores, todo, published>>
        /\ UNCHANGED <<at, read, lastTimeValueUsed, rolledBack>>
    BY DEF Tick, writer, reader
  <1>2. /\ mem \in Memory /\ view \in Memory /\ Settled(mem, published)
        /\ Floor \in Int /\ clock \in Nat
    BY InvFacts DEF TimerInv, TimerTypeOK
  <1>3. view' = view /\ \A n \in 0 .. Len(stores) : After(n)' = After(n)
    BY <1>1 DEF view, After, Drained
  <1>4. view.total \in Nat /\ view.start \in Nat /\ view.counter \in Nat
    BY <1>2 DEF Memory, Names
  <1>5. TimerTypeOK'
    BY <1>1 DEF TimerInv, TimerTypeOK
  <1>6. MemoryInv'
    BY <1>1, <1>3 DEF TimerInv, MemoryInv, Settled, NoLess, After
  <1>7. WriterInv'
    BY <1>1, <1>2, <1>3, <1>4 DEF TimerInv, WriterInv, Remains
  <1>8. NoLess(mem, mem') /\ Grows
    BY <1>1, <1>2 DEF NoLess, Memory, Names, Grows
  <1>9. ReaderInv' /\ (at > 1 /\ Undisturbed' => Undisturbed)
    BY <1>1, <1>2, <1>8, ReaderKeeps DEF TimerInv
  <1>10. Floor <= Floor' /\ Floor' \in Int
    <2>1. /\ Value(view)' = IF view.counter > 0 THEN view.total + ((clock + 1) - view.start)
                            ELSE view.total
          /\ Value(view) = IF view.counter > 0 THEN view.total + (clock - view.start)
                           ELSE view.total
      BY <1>1, <1>3 DEF Value
    <2>2. Value(view) <= Value(view)' /\ Value(view)' \in Int
      BY <1>2, <1>4, <2>1
    <2> HIDE DEF Value
    <2> QED
      BY <1>1, <1>2, <1>3, <1>4, <2>2 DEF Floor
  <1>11. FloorInv'
    BY <1>1, <1>2, <1>9, <1>10, FloorKeeps DEF TimerInv, reader
  <1> QED
    BY <1>5, <1>6, <1>7, <1>9, <1>11 DEF TimerInv

(* A store is done.                                                        *)
LEMMA DrainKeeps ==
    ASSUME TimerInv, Drain
    PROVE  TimerInv'
  <1>1. /\ UNCHANGED <<kind, buffered, clock, todo, published, reader>> /\ stores # <<>>
        /\ UNCHANGED <<at, read, lastTimeValueUsed, rolledBack>>
    BY DEF Drain, reader
  <1>2. /\ mem \in Memory /\ stores \in Seq(Store) /\ Settled(mem, published)
        /\ TimerTypeOK /\ MemoryInv /\ buffered /\ Floor \in Int
    BY <1>1, InvFacts DEF TimerInv, TimerTypeOK
  <1>3. MemoryInv' /\ NoLess(mem, mem') /\ view' = view
    BY <1>2, MemoryDrain
  <1>4. mem' \in Memory /\ stores' \in Seq(Store)
    BY <1>2, DrainDoes
  <1>5. TimerTypeOK'
    BY <1>1, <1>2, <1>4 DEF TimerTypeOK
  <1>6. WriterInv'
    BY <1>1, <1>3 DEF TimerInv, WriterInv, Remains
  <1>7. ReaderInv'
    BY <1>1, <1>2, <1>3, <1>4, ReaderKeeps DEF TimerInv, Grows
  <1>8. FloorInv'
    BY <1>1, <1>2 DEF FloorInv
  <1> QED
    BY <1>3, <1>5, <1>6, <1>7, <1>8 DEF TimerInv

(* The thread begins or goes on with a start or a stop.                    *)
LEMMA ThreadKeeps ==
    ASSUME TimerInv, StartTimer \/ StopTimer \/ Update
    PROVE  TimerInv'
  <1>1. /\ mem \in Memory /\ Settled(mem, published) /\ Floor \in Int
        /\ TimerTypeOK /\ MemoryInv /\ WriterInv /\ ReaderInv /\ FloorInv
    BY InvFacts DEF TimerInv
  <1>2. /\ WriterInv' /\ MemoryInv' /\ NoLess(mem, mem') /\ Floor <= Floor' /\ Grows
        /\ UNCHANGED <<kind, buffered, clock, reader>>
    <2>1. CASE StartTimer \/ StopTimer
      BY <1>1, <2>1, WriterBegins DEF Grows
    <2>2. CASE Update
      BY <1>1, <2>2, WriterUpdates
    <2> QED
      BY <2>1, <2>2
  <1>3. UNCHANGED <<at, read, lastTimeValueUsed, rolledBack>>
    BY <1>2 DEF reader
  <1>4. /\ mem' \in Memory /\ stores' \in Seq(Store) /\ (~buffered => stores' = <<>>)
        /\ view' \in Memory
    <2>1. view \in Memory
      BY AfterEnds, <1>1 DEF TimerTypeOK
    <2>2. /\ view.protector1 + 1 \in Nat /\ view.protector2 + 1 \in Nat
          /\ view.counter + 1 \in Nat /\ clock \in Nat /\ view.counter \in Nat
          /\ view.total + (clock - view.start) \in Nat
          /\ {"protector1", "protector2", "counter", "start", "total"} \subseteq Names
      <3>1. /\ view.protector1 \in Nat /\ view.protector2 \in Nat /\ view.counter \in Nat
            /\ view.total \in Nat /\ view.start \in Nat
        BY <2>1 DEF Memory, Names
      <3>2. clock \in Nat /\ view.start <= clock
        BY <1>1 DEF WriterInv, TimerTypeOK
      <3>3. {"protector1", "protector2", "counter", "start", "total"} \subseteq Names
        BY DEF Names
      <3> QED
        BY <3>1, <3>2, <3>3
    <2>3. \E f \in Names : \E v \in Nat : Put(f, v)
      <3>1. CASE StartTimer \/ StopTimer
        BY <1>1, <2>2, <3>1, BeginDoes
      <3>2. CASE Update
        <4>1. view.counter >= 1 => view.counter - 1 \in Nat
          BY <2>2
        <4>2. \/ Put("protector2", view.protector2 + 1) \/ Put("counter", view.counter + 1)
              \/ Put("start", clock) \/ Put("total", view.total + (clock - view.start))
              \/ view.counter >= 1 /\ Put("counter", view.counter - 1)
          BY <1>1, <2>2, <3>2, UpdateDoes DEF WriterInv
        <4> QED
          BY <2>2, <4>1, <4>2
      <3> QED
        BY <3>1, <3>2
    <2>4. mem' \in Memory /\ stores' \in Seq(Store) /\ (~buffered => stores' = <<>>)
      BY <1>1, <2>3, PutDoes DEF TimerTypeOK
    <2> QED
      BY <2>4, DrainedType DEF view
  <1>5. published' \in Seq(Taken)
    BY <1>1, <1>2, SettledGrows DEF TimerTypeOK
  <1>6. TimerTypeOK'
    BY <1>1, <1>2, <1>3, <1>4, <1>5 DEF TimerTypeOK
  <1>7. ReaderInv' /\ (at > 1 /\ Undisturbed' => Undisturbed)
    BY <1>1, <1>2, <1>3, <1>4, ReaderKeeps
  <1>8. Floor' \in Int
    <2>1. view'.total \in Nat /\ view'.start \in Nat /\ view'.counter \in Nat /\ clock' \in Nat
      BY <1>1, <1>2, <1>4 DEF Memory, Names, TimerTypeOK
    <2> QED
      BY <2>1 DEF Floor, Value
  <1>9. FloorInv'
    BY <1>1, <1>2, <1>7, <1>8, FloorKeeps
  <1> QED
    BY <1>2, <1>6, <1>7, <1>9 DEF TimerInv

(* At the start nothing is buffered, and nothing was read.                 *)
LEMMA TimerInvInit == TimerInit => TimerInv
  <1> SUFFICES ASSUME TimerInit PROVE TimerInv
    OBVIOUS
  <1>1. /\ kind \in {"wall", "process"} /\ buffered \in BOOLEAN
        /\ stores = <<>> /\ clock = 0 /\ todo = <<>> /\ at = 1 /\ read = NothingRead
        /\ lastTimeValueUsed = 0 /\ published = <<Fresh>> /\ rolledBack = FALSE
        /\ mem = Protected(0, 0, Fresh)
    BY DEF TimerInit
  <1>2. /\ mem \in Memory /\ mem.protector1 = 0 /\ mem.protector2 = 0
        /\ mem.total = 0 /\ mem.start = 0 /\ mem.counter = 0
    BY <1>1 DEF Protected, Fresh, Memory, Names
  <1>3. Fresh \in Taken /\ \A f \in FieldNames : mem[f] = Fresh[f]
    BY <1>2 DEF Fresh, Taken, FieldNames
  <1>4. /\ published \in Seq(Taken) /\ Len(published) = 1 /\ published[1] = Fresh
        /\ stores \in Seq(Store) /\ Len(stores) = 0
    BY <1>1, <1>3
  <1>5. TimerTypeOK
    <2>1. NothingRead \in [Names \union {"clock"} -> Nat]
      BY DEF NothingRead, Names
    <2>2. at \in 1 .. 7 /\ lastTimeValueUsed \in Nat /\ clock \in Nat
      BY <1>1
    <2>5. rolledBack \in BOOLEAN
      <3>1. rolledBack = FALSE
        BY <1>1
      <3> QED
        BY <3>1
    <2>3. kind \in {"wall", "process"} /\ buffered \in BOOLEAN /\ (~buffered => stores = <<>>)
      BY <1>1
    <2>4. read \in [Names \union {"clock"} -> Nat]
      BY <1>1, <2>1
    <2> QED
      BY <1>2, <1>4, <2>2, <2>3, <2>4, <2>5 DEF TimerTypeOK
  <1>6. view = mem /\ After(0) = mem
    BY <1>1, <1>2, <1>4, AfterEnds
  <1>7. MemoryInv
    <2>1. Settled(mem, published)
      BY <1>2, <1>3, <1>4 DEF Settled
    <2>2. 0 .. Len(stores) = {0} /\ 1 .. Len(stores) = {}
      BY <1>4
    <2> QED
      BY <1>6, <2>1, <2>2 DEF MemoryInv
  <1>8. WriterInv
    BY <1>1, <1>2, <1>4, <1>6 DEF WriterInv, Remains
  <1>9. ReaderInv
    <2>1. \A i \in 1 .. at - 1 : FALSE
      BY <1>1
    <2> QED
      BY <1>1, <2>1 DEF ReaderInv
  <1>10. FloorInv
    <2>1. Floor = 0
      BY <1>1, <1>2, <1>6 DEF Floor, Value
    <2> QED
      BY <1>1, <2>1 DEF FloorInv
  <1> QED
    BY <1>5, <1>7, <1>8, <1>9, <1>10 DEF TimerInv

(* The invariant of the thread, the store buffer and the daemon: start and *)
(* stop of rtinst and perform of paradynd, step by step.                   *)
THEOREM TimerInvariant == TimerSpec => []TimerInv
  <1>1. TimerInv /\ [TimerNext]_timerVars => TimerInv'
    <2> SUFFICES ASSUME TimerInv, [TimerNext]_timerVars PROVE TimerInv'
      OBVIOUS
    <2>1. CASE Drain
      BY <2>1, DrainKeeps
    <2>2. CASE Tick
      BY <2>2, TickKeeps
    <2>3. CASE StartTimer \/ StopTimer \/ Update
      BY <2>3, ThreadKeeps
    <2>4. ASSUME TimerTypeOK', ReaderInv', FloorInv',
                 UNCHANGED <<kind, buffered, clock, writer>>
          PROVE  TimerInv'
      <3>1. UNCHANGED <<kind, buffered, clock, mem, stores, todo, published>>
        BY <2>4 DEF writer
      <3>2. view' = view /\ \A n \in 0 .. Len(stores) : After(n)' = After(n)
        BY <3>1 DEF view, After, Drained
      <3>3. MemoryInv'
        BY <3>1, <3>2 DEF TimerInv, MemoryInv, Settled, NoLess, After
      <3>4. WriterInv'
        BY <3>1, <3>2 DEF TimerInv, WriterInv, Remains
      <3> QED
        BY <2>4, <3>3, <3>4 DEF TimerInv
    <2>5. CASE ReadStep
      BY <2>4, <2>5, ReadStepKeeps DEF ReadStep
    <2>6. CASE Perform
      BY <2>4, <2>6, PerformKeeps DEF Perform
    <2>7. CASE UNCHANGED timerVars
      <3>1. /\ UNCHANGED <<kind, buffered, clock, mem, stores, todo, published>>
            /\ UNCHANGED <<at, read, lastTimeValueUsed, rolledBack>>
            /\ UNCHANGED <<kind, buffered, clock, writer>>
        BY <2>7 DEF timerVars, writer, reader
      <3>2. TimerTypeOK'
        BY <3>1 DEF TimerInv, TimerTypeOK
      <3>3. ReaderInv'
        BY <3>1 DEF TimerInv, ReaderInv, Undisturbed, readSteps, wallSteps, processSteps
      <3>4. Floor' = Floor
        BY <3>1 DEF Floor, Value, view, Drained
      <3>5. FloorInv'
        BY <3>1, <3>4 DEF TimerInv, FloorInv, Undisturbed, calcTimeValueToUse
      <3> QED
        BY <2>4, <3>1, <3>2, <3>3, <3>5
    <2> QED
      BY <2>1, <2>2, <2>3, <2>5, <2>6, <2>7 DEF TimerNext
  <1> QED
    BY <1>1, TimerInvInit, PTL DEF TimerSpec

(* A sample that perform keeps is of one update, and with barriers that    *)
(* order the stores its correction of rollbacks has nothing to do.         *)
THEOREM SamplesAreSnapshots == TimerSpec => []SampleIsSnapshot
  <1>1. TimerInv => SampleIsSnapshot
    <2> SUFFICES ASSUME TimerInv PROVE SampleIsSnapshot
      OBVIOUS
    <2>1. ASSUME accepted, NEW f \in FieldNames
          PROVE  read[f] = published[read.protector2 + 1][f]
      <3>1. at = 7 /\ Undisturbed
        BY <2>1, ReadOrder DEF accepted, Undisturbed, TimerInv, TimerTypeOK
      <3>2. PICK i \in 2 .. 4 : readSteps[i] = f
        BY ReadOrder
      <3>3. i \in 1 .. at - 1
        BY <3>1
      <3> QED
        BY <3>1, <3>2, <3>3 DEF TimerInv, ReaderInv
    <2>2. rolledBack => buffered
      BY DEF TimerInv, FloorInv
    <2> QED
      BY <2>1, <2>2 DEF SampleIsSnapshot, FieldNames
  <1> QED
    BY <1>1, TimerInvariant, PTL
=============================================================================
